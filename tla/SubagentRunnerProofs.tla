------------------------- MODULE SubagentRunnerProofs -------------------------
(***************************************************************************)
(* Proofs about SubagentRunner, for any bound on the replies, any sets of  *)
(* waiters and callers, edited histories and torn writes.                  *)
(*                                                                         *)
(* The inductive invariant IInv adds to the three invariants of the runs   *)
(* what makes them inductive: nothing of a turn is in the memory of a      *)
(* server that is down, the recorded reply and the execution's reply are   *)
(* the same stored message, and an edit never writes back an absent one.   *)
(* Where nobody edits, UneditedInv says that no reply is ever missing, and *)
(* TurnInv which replies may be in progress in which status.               *)
(***************************************************************************)
EXTENDS SubagentRunnerProps, TLAPS

DownIsEmpty ==
  proc = "down" => /\ ~timer /\ phase = "idle" /\ waiting = {}
                   /\ req = [r \in Callers |-> Idle]

FreshIsEmpty == sub = "none" => ~timer /\ phase = "idle" /\ active = 0 /\ waiting = {}

ReplyIsStored ==
  /\ active # 0 => reply[active] # "none"
  /\ phase # "idle" => target \in Replies /\ active \in {0, target} /\ reply[target] # "none"

EditsAreStored ==
  \A r \in Callers :
    /\ req[r].at = "updateHooks" => req[r].msg \in Replies /\ req[r].saved \notin Absent
    /\ req[r].at = "deleteHooks" => req[r].msg \in Replies /\ reply[req[r].msg] # "none"

IInv ==
  /\ TypeOK
  /\ ExecutionOwnsStatus
  /\ TurnIsCarried
  /\ WaiterIsCarried
  /\ DownIsEmpty
  /\ FreshIsEmpty
  /\ ReplyIsStored
  /\ EditsAreStored

USE ConstantsAssumption DEF ConstantsAssumption

\* A caller that does nothing is a request record.
LEMMA IdleRequest == Idle \in Request
  BY DEF Idle, Request, Status, Absent

\* Edits stay valid when no stored message becomes unknown.
LEMMA EditsFrame ==
  ASSUME EditsAreStored,
         \A r \in Callers : req'[r] = req[r] \/ req'[r] = Idle,
         \A m \in Replies : reply[m] # "none" => reply'[m] # "none"
  PROVE  EditsAreStored'
  BY DEF EditsAreStored, Idle

\* A server that starts with an empty store satisfies the invariant.
THEOREM InitIInv == Init => IInv
<1> SUFFICES ASSUME Init PROVE IInv
  OBVIOUS
<1>1. TypeOK
  <2>1. 0 \in 0..MaxReplies
    OBVIOUS
  <2>2. /\ proc \in {"up", "down"}
        /\ sub \in {"none"} \union Unsettled \union Finished
        /\ active \in 0..MaxReplies
    BY <2>1 DEF Init
  <2>3. reply \in [Replies -> Status]
    BY DEF Init, Status, Absent
  <2>4. timer \in BOOLEAN /\ aborted \in BOOLEAN
    BY DEF Init
  <2>5. phase \in {"idle", "generating", "compacting", "pruning"} /\ target \in 0..MaxReplies
    BY <2>1 DEF Init
  <2>6. waiting \subseteq Waiters /\ req \in [Callers -> Request]
    BY IdleRequest DEF Init
  <2> QED BY <2>1, <2>2, <2>3, <2>4, <2>5, <2>6 DEF TypeOK
<1>2. /\ ExecutionOwnsStatus /\ TurnIsCarried /\ WaiterIsCarried
      /\ DownIsEmpty /\ FreshIsEmpty /\ ReplyIsStored
  BY DEF Init, Unsettled, ExecutionOwnsStatus, TurnIsCarried, WaiterIsCarried, DownIsEmpty,
         FreshIsEmpty, ReplyIsStored
<1>3. EditsAreStored
  BY DEF Init, EditsAreStored, Idle
<1> QED BY <1>1, <1>2, <1>3 DEF IInv

\* A spawn or a next input records a new pending reply and schedules the turn.
LEMMA SubmitInv ==
  ASSUME IInv, Spawn \/ SendInput
  PROVE  IInv'
<1> USE DEF IInv
<1>1. PICK m \in Replies : /\ reply[m] = "none"
                           /\ reply' = [reply EXCEPT ![m] = "pending"]
                           /\ active' = m
  BY DEF Spawn, SendInput, IsNext
<1>2. /\ proc = "up" /\ phase = "idle"
      /\ sub' = "queued" /\ timer'
      /\ UNCHANGED <<proc, phase, target, aborted, waiting, req>>
  BY DEF Spawn, SendInput, Schedule, ExecutionOwnsStatus, FreshIsEmpty, TypeOK, Ready
<1>3. timer' = TRUE
  BY <1>2 DEF Spawn, SendInput, Schedule, TypeOK
<1>4. TypeOK'
  BY <1>1, <1>2, <1>3 DEF TypeOK, Replies, Status, Stored, Open, Unsettled
<1>5. ExecutionOwnsStatus' /\ TurnIsCarried' /\ WaiterIsCarried' /\ DownIsEmpty' /\ FreshIsEmpty'
  BY <1>2, <1>3
  DEF ExecutionOwnsStatus, TurnIsCarried, WaiterIsCarried, DownIsEmpty, FreshIsEmpty, Unsettled
<1>6. \A k \in Replies : reply[k] # "none" => reply'[k] # "none"
  BY <1>1 DEF TypeOK
<1>7. ReplyIsStored' /\ EditsAreStored'
  BY <1>1, <1>2, <1>6, EditsFrame DEF TypeOK, ReplyIsStored
<1> QED BY <1>4, <1>5, <1>7

(***************************************************************************)
(* The end of an execution with an outcome, or with "running" if the       *)
(* execution's reply was deleted.                                          *)
(***************************************************************************)
LEMMA ExecutionEndsInv ==
  ASSUME IInv, phase # "idle", NEW outcome, NEW activeNow,
         ExecutionEnds(outcome, activeNow),
         \/ outcome \in Ready /\ activeNow = 0
         \/ outcome = "running" /\ activeNow = active /\ reply[target] = "deleted",
         reply' \in [Replies -> Status],
         \A m \in Replies : (reply'[m] = reply[m]) \/ (Exists(m) /\ reply'[m] \notin Absent)
  PROVE  IInv'
<1> USE DEF IInv
<1>1. /\ sub = "running" /\ ~timer /\ proc = "up"
      /\ target \in Replies /\ active \in {0, target}
  BY DEF ExecutionOwnsStatus, ReplyIsStored, DownIsEmpty, TypeOK
<1>2. /\ phase' = "idle" /\ target' = 0 /\ aborted' = FALSE /\ waiting' = {}
      /\ UNCHANGED <<proc, timer>>
      /\ \A r \in Callers : req'[r] = Idle \/ req'[r] = req[r]
      /\ req' \in [Callers -> Request]
      /\ \/ sub' = "closed" /\ active' = 0
         \/ sub' = outcome /\ active' = activeNow
  BY IdleRequest DEF ExecutionEnds, TypeOK
<1>3. TypeOK'
  <2>1. sub' \in {"none"} \union Unsettled \union Finished
    BY <1>2 DEF Unsettled, Finished, Ready
  <2>2. active' \in 0..MaxReplies /\ target' \in 0..MaxReplies
    BY <1>2 DEF TypeOK
  <2>3. /\ phase' \in {"idle", "generating", "compacting", "pruning"}
        /\ timer' \in BOOLEAN /\ aborted' \in BOOLEAN /\ waiting' \subseteq Waiters
        /\ proc' \in {"up", "down"}
    BY <1>2 DEF TypeOK
  <2> QED BY <1>2, <2>1, <2>2, <2>3 DEF TypeOK
<1>4. ExecutionOwnsStatus' /\ WaiterIsCarried' /\ DownIsEmpty' /\ FreshIsEmpty'
  BY <1>1, <1>2
  DEF ExecutionOwnsStatus, WaiterIsCarried, DownIsEmpty, FreshIsEmpty, Ready, TypeOK
<1>5. TurnIsCarried'
  BY <1>1, <1>2 DEF TurnIsCarried, ReplyIsGone, Unsettled, Ready, Exists, Absent
<1>6. ReplyIsStored'
  BY <1>1, <1>2 DEF ReplyIsStored, Exists, Absent
<1>7. EditsAreStored'
  BY <1>2, EditsFrame DEF Exists, Absent
<1> QED BY <1>3, <1>4, <1>5, <1>6, <1>7

\* The 0 ms timer: a turn starts, or rejects because its reply is gone.
LEMMA TimerFiresInv ==
  ASSUME IInv, TimerFires
  PROVE  IInv'
<1> USE DEF IInv
<1>1. /\ timer /\ sub \in Unsettled /\ proc = "up" /\ phase = "idle"
      /\ timer' = FALSE /\ sub' = "running" /\ TurnStarts
      /\ UNCHANGED <<proc, active, aborted, req>>
  BY DEF TimerFires, ExecutionOwnsStatus, Unsettled
<1>2. CASE ReplyIsGone /\ UNCHANGED <<reply, phase, target>> /\ waiting' = {} /\ active # 0
  BY <1>1, <1>2
  DEF TypeOK, Unsettled, ExecutionOwnsStatus, TurnIsCarried, WaiterIsCarried, DownIsEmpty,
      FreshIsEmpty, ReplyIsStored, EditsAreStored, ReplyIsGone
<1>3. ASSUME NEW m \in Replies, active \in {0, m}, Generate(m, reply), UNCHANGED waiting
      PROVE  IInv'
  <2>1. /\ reply' = [reply EXCEPT ![m] = "streaming"]
        /\ phase' = "generating" /\ target' = m
    BY <1>3 DEF Generate
  <2>2. TypeOK'
    <3>1. reply' \in [Replies -> Status]
      BY <2>1 DEF TypeOK, Status, Stored, Open
    <3>2. target' \in 0..MaxReplies
      BY <2>1 DEF Replies
    <3>3. /\ sub' \in {"none"} \union Unsettled \union Finished
          /\ phase' \in {"idle", "generating", "compacting", "pruning"}
          /\ timer' \in BOOLEAN
      BY <1>1, <2>1 DEF Unsettled
    <3> QED BY <1>1, <1>3, <3>1, <3>2, <3>3 DEF TypeOK
  <2>3. ExecutionOwnsStatus' /\ TurnIsCarried' /\ WaiterIsCarried' /\ DownIsEmpty' /\ FreshIsEmpty'
    BY <1>1, <1>3, <2>1
    DEF ExecutionOwnsStatus, TurnIsCarried, WaiterIsCarried, DownIsEmpty, FreshIsEmpty
  <2>4. ReplyIsStored' /\ EditsAreStored'
    BY <1>1, <1>3, <2>1 DEF TypeOK, ReplyIsStored, EditsAreStored
  <2> QED BY <2>2, <2>3, <2>4
<1>4. CASE active = 0
  BY <1>1, <1>3, <1>4 DEF TurnStarts, Exists, Replies
<1>5. CASE active # 0 /\ Exists(active)
  BY <1>1, <1>3, <1>5 DEF TurnStarts, Exists
<1>6. CASE active # 0 /\ ~Exists(active)
  <2>1. active \in Replies /\ reply[active] = "deleted"
    BY <1>6 DEF TypeOK, ReplyIsStored, Exists, Absent, Replies
  <2> QED BY <1>1, <1>2, <1>6, <2>1 DEF TurnStarts, ReplyIsGone
<1> QED BY <1>4, <1>5, <1>6

\* The steps of an active execution.
LEMMA ExecutionInv ==
  ASSUME IInv, GenerationFails \/ GenerationReturns \/ CompactionDone \/ Continues \/ PruneDone
               \/ ReplyGrows
  PROVE  IInv'
<1> USE DEF IInv
<1>1. /\ phase # "idle" /\ sub = "running" /\ ~timer /\ proc = "up"
      /\ target \in Replies /\ active \in {0, target} /\ reply[target] # "none"
  BY DEF GenerationFails, GenerationReturns, CompactionDone, Continues, PruneDone, ReplyGrows,
         ExecutionOwnsStatus, ReplyIsStored, DownIsEmpty, TypeOK
<1>2. ~Exists(target) => reply[target] = "deleted"
  BY <1>1 DEF Exists, Absent
<1>3. ASSUME Rejects, ~Exists(target)
      PROVE  IInv'
  BY <1>1, <1>2, <1>3, ExecutionEndsInv DEF Rejects, TypeOK
<1>4. CASE GenerationFails
  <2>1. CASE Exists(target)
    <3> DEFINE s == IF aborted THEN "stopped" ELSE "error"
    <3>1. reply' = [reply EXCEPT ![target] = s]
      BY <1>4, <2>1 DEF GenerationFails
    <3>2. /\ reply' \in [Replies -> Status]
          /\ \A m \in Replies : (reply'[m] = reply[m]) \/ (Exists(m) /\ reply'[m] \notin Absent)
      BY <1>1, <2>1, <3>1 DEF TypeOK, Status, Stored, Absent
    <3>3. ExecutionEnds(IF aborted THEN "interrupted" ELSE "error", 0)
      BY <1>4, <2>1 DEF GenerationFails
    <3>4. (IF aborted THEN "interrupted" ELSE "error") \in Ready
      BY DEF Ready
    <3> QED BY <1>1, <3>2, <3>3, <3>4, ExecutionEndsInv
  <2> QED BY <1>3, <1>4, <2>1 DEF GenerationFails
<1>5. CASE GenerationReturns
  <2>1. CASE Exists(target)
    <3>1. /\ reply' = [reply EXCEPT ![target] = "completed"]
          /\ phase' = "compacting"
          /\ UNCHANGED <<proc, sub, active, timer, target, aborted, waiting, req>>
      BY <1>5, <2>1 DEF GenerationReturns
    <3>2. TypeOK'
      BY <3>1 DEF TypeOK, Status, Stored
    <3>3. EditsAreStored'
      BY <3>1, EditsFrame DEF TypeOK
    <3> QED
      BY <1>1, <3>1, <3>2, <3>3
      DEF TypeOK, ExecutionOwnsStatus, TurnIsCarried, WaiterIsCarried, DownIsEmpty, FreshIsEmpty,
          ReplyIsStored
  <2> QED BY <1>3, <1>5, <2>1 DEF GenerationReturns
<1>6. CASE CompactionDone
  BY <1>1, <1>6
  DEF CompactionDone, disk, TypeOK, ExecutionOwnsStatus, TurnIsCarried, WaiterIsCarried,
      DownIsEmpty, FreshIsEmpty, ReplyIsStored, EditsAreStored
<1>7. CASE Continues
  <2>1. PICK m \in Replies : Generate(m, reply) /\ active' = m
    BY <1>7 DEF Continues
  <2>2. /\ reply' = [reply EXCEPT ![m] = "streaming"]
        /\ phase' = "generating" /\ target' = m /\ active' = m /\ sub' = "running"
        /\ UNCHANGED <<proc, timer, aborted, waiting, req>>
    BY <1>7, <2>1 DEF Continues, Generate
  <2>3. TypeOK'
    BY <2>2 DEF TypeOK, Replies, Status, Stored, Open, Unsettled
  <2> QED
    BY <1>1, <2>2, <2>3
    DEF TypeOK, ExecutionOwnsStatus, TurnIsCarried, WaiterIsCarried, DownIsEmpty, FreshIsEmpty,
        ReplyIsStored, EditsAreStored
<1>8. CASE PruneDone
  BY <1>1, <1>8, ExecutionEndsInv DEF PruneDone, Ready, TypeOK
<1>9. CASE ReplyGrows
  BY <1>1, <1>9
  DEF ReplyGrows, memory, TypeOK, Status, Stored, Open, ExecutionOwnsStatus, TurnIsCarried,
      WaiterIsCarried, DownIsEmpty, FreshIsEmpty, ReplyIsStored, EditsAreStored
<1> QED BY <1>4, <1>5, <1>6, <1>7, <1>8, <1>9

\* A waiter comes, and makes sure that the turn is scheduled, or gives up.
LEMMA WaitInv ==
  ASSUME IInv, NEW w \in Waiters, Wait(w) \/ WaitTimesOut(w)
  PROVE  IInv'
<1> USE DEF IInv
<1>1. CASE Wait(w)
  <2>1. timer' \in BOOLEAN /\ (timer' \/ phase # "idle")
    BY <1>1 DEF Wait, Schedule, TypeOK
  <2>2. timer' => phase = "idle" \/ timer
    BY <1>1 DEF Wait, Schedule
  <2> QED
    BY <1>1, <2>1, <2>2
    DEF Wait, disk, TypeOK, ExecutionOwnsStatus, TurnIsCarried, WaiterIsCarried, DownIsEmpty,
        FreshIsEmpty, ReplyIsStored, EditsAreStored, Unsettled, ReplyIsGone
<1>2. CASE WaitTimesOut(w)
  BY <1>2
  DEF WaitTimesOut, disk, TypeOK, ExecutionOwnsStatus, TurnIsCarried, WaiterIsCarried, DownIsEmpty,
      FreshIsEmpty, ReplyIsStored, EditsAreStored, ReplyIsGone
<1> QED BY <1>1, <1>2

\* An interrupt or a close that finds an execution aborts it and waits.
LEMMA AbortExecutionInv ==
  ASSUME IInv, NEW r \in Callers, NEW stage \in {"interrupting", "closing"},
         AbortExecution(r, stage)
  PROVE  IInv'
<1> USE DEF IInv
<1>1. /\ proc = "up" /\ phase # "idle" /\ sub # "none" /\ req[r] = Idle /\ aborted' = TRUE
      /\ req' = [req EXCEPT ![r].at = stage]
      /\ UNCHANGED <<proc, sub, active, reply, timer, phase, target, waiting>>
  BY DEF AbortExecution, Free, disk
<1>2. req' \in [Callers -> Request]
  <2>1. [req[r] EXCEPT !.at = stage] \in Request
    BY DEF TypeOK, Request
  <2> QED BY <1>1, <2>1 DEF TypeOK
<1>3. TypeOK'
  BY <1>1, <1>2 DEF TypeOK
<1>4. EditsAreStored'
  BY <1>1 DEF EditsAreStored, TypeOK, Request
<1> QED
  BY <1>1, <1>3, <1>4
  DEF TypeOK, ExecutionOwnsStatus, TurnIsCarried, WaiterIsCarried, DownIsEmpty, FreshIsEmpty,
      ReplyIsStored, ReplyIsGone

\* Stopping the reply in progress keeps the stored replies, and their types.
LEMMA StoppedReplies ==
  ASSUME TypeOK, NEW m \in 0..MaxReplies, IsActiveReply(m), ~InterruptThrows(m)
  PROVE  /\ Stopped(m) \in [Replies -> Status]
         /\ \A k \in Replies : reply[k] # "none" => Stopped(m)[k] # "none"
         /\ \A k \in Replies : reply[k] = "deleted" => Stopped(m)[k] = "deleted"
<1>1. CASE m = 0
  BY <1>1 DEF Stopped, TypeOK
<1>2. CASE m # 0
  <2>1. Stopped(m) = [reply EXCEPT ![m] = "stopped"]
    BY <1>2 DEF Stopped
  <2>2. m \in Replies /\ reply[m] \notin Absent
    BY <1>2 DEF InterruptThrows, Exists
  <2> QED BY <2>1, <2>2 DEF TypeOK, Status, Stored, Absent
<1> QED BY <1>1, <1>2

\* A reply in progress that cannot be stopped is a recorded one that is gone.
LEMMA ThrowsMeansGone ==
  ASSUME TypeOK, ReplyIsStored, NEW m \in 0..MaxReplies, IsActiveReply(m), InterruptThrows(m)
  PROVE  ReplyIsGone
<1>1. m # 0 /\ m \in Replies
  BY DEF InterruptThrows, Replies
<1>2. m = active
  BY <1>1 DEF IsActiveReply, InterruptThrows, Exists, OpenReplies, Open, Absent
<1> QED BY <1>1, <1>2 DEF ReplyIsGone, ReplyIsStored, InterruptThrows, Exists, Absent

\* An interrupt or a close without an execution.
LEMMA WithdrawInv ==
  ASSUME IInv, NEW r \in Callers, InterruptQueued(r) \/ CloseQueued(r)
  PROVE  IInv'
<1> USE DEF IInv
<1>1. /\ proc = "up" /\ sub # "none" /\ phase = "idle" /\ timer' = FALSE
      /\ UNCHANGED <<proc, phase, target, aborted, req>>
  BY DEF InterruptQueued, CloseQueued, Free
<1>2. PICK m \in 0..MaxReplies :
        /\ IsActiveReply(m)
        /\ \/ /\ sub' \in {"interrupted", "closed"} /\ active' = 0 /\ waiting' = {}
              /\ reply' = IF InterruptThrows(m) THEN reply ELSE Stopped(m)
           \/ InterruptThrows(m) /\ UNCHANGED <<sub, active, reply, waiting>>
  BY DEF InterruptQueued, CloseQueued, disk
<1>3. CASE InterruptThrows(m) /\ UNCHANGED <<sub, active, reply, waiting>>
  <2>1. ReplyIsGone
    BY <1>2, <1>3, ThrowsMeansGone
  <2> QED
    BY <1>1, <1>3, <2>1
    DEF TypeOK, ExecutionOwnsStatus, TurnIsCarried, WaiterIsCarried, DownIsEmpty, FreshIsEmpty,
        ReplyIsStored, EditsAreStored, ReplyIsGone
<1>4. CASE /\ sub' \in {"interrupted", "closed"} /\ active' = 0 /\ waiting' = {}
           /\ reply' = IF InterruptThrows(m) THEN reply ELSE Stopped(m)
  <2>1. /\ reply' \in [Replies -> Status]
        /\ \A k \in Replies : reply[k] # "none" => reply'[k] # "none"
    BY <1>2, <1>4, StoppedReplies DEF TypeOK
  <2>2. TypeOK'
    <3>1. sub' \in {"none"} \union Unsettled \union Finished
      BY <1>4 DEF Finished, Ready
    <3>2. active' \in 0..MaxReplies
      BY <1>4
    <3>3. waiting' \subseteq Waiters /\ timer' \in BOOLEAN
      BY <1>1, <1>4
    <3> QED BY <1>1, <2>1, <3>1, <3>2, <3>3 DEF TypeOK
  <2>3. EditsAreStored'
    <3>1. \A k \in Callers : req'[k] = req[k]
      BY <1>1
    <3> QED BY <2>1, <3>1, EditsFrame
  <2> QED
    BY <1>1, <1>4, <2>2, <2>3
    DEF ExecutionOwnsStatus, TurnIsCarried, WaiterIsCarried, DownIsEmpty, FreshIsEmpty,
        ReplyIsStored, Unsettled
<1> QED BY <1>2, <1>3, <1>4

\* The requests that edit and delete messages.
LEMMA EditInv ==
  ASSUME IInv, NEW r \in Callers,
         \/ \E m \in Replies : EditMessage(r, m, "updateHooks") \/ EditMessage(r, m, "deleteHooks")
         \/ \E s \in {req[r].saved} \union HookStatuses : UpdateMessageWrites(r, s)
         \/ DeleteMessageRemoves(r)
  PROVE  IInv'
<1> USE DEF IInv
<1>1. CASE \E m \in Replies : EditMessage(r, m, "updateHooks") \/ EditMessage(r, m, "deleteHooks")
  <2>1. PICK m \in Replies, stage \in {"updateHooks", "deleteHooks"} : EditMessage(r, m, stage)
    BY <1>1
  <2>2. /\ proc = "up" /\ sub # "none" /\ m \in Replies /\ reply[m] \notin Absent
        /\ req' = [req EXCEPT ![r] = [at |-> stage, msg |-> m, saved |-> reply[m]]]
        /\ UNCHANGED <<proc, sub, active, reply, timer, phase, target, aborted, waiting>>
    BY <2>1 DEF EditMessage, Free, Exists, disk
  <2>3. [at |-> stage, msg |-> m, saved |-> reply[m]] \in Request
    BY DEF TypeOK, Request, Replies
  <2>4. TypeOK'
    BY <2>2, <2>3 DEF TypeOK
  <2>5. EditsAreStored'
    BY <2>2 DEF EditsAreStored, TypeOK, Absent
  <2> QED
    BY <2>2, <2>4, <2>5
    DEF ExecutionOwnsStatus, TurnIsCarried, WaiterIsCarried, DownIsEmpty, FreshIsEmpty,
        ReplyIsStored, ReplyIsGone
<1>2. ASSUME \/ \E s \in {req[r].saved} \union HookStatuses : UpdateMessageWrites(r, s)
             \/ DeleteMessageRemoves(r)
      PROVE  IInv'
  <2>1. /\ req' = [req EXCEPT ![r] = Idle]
        /\ req[r] # Idle
        /\ UNCHANGED <<proc, sub, active, timer, phase, target, aborted, waiting>>
    BY <1>2 DEF UpdateMessageWrites, DeleteMessageRemoves, Idle
  <2>2. proc = "up"
    BY <2>1 DEF DownIsEmpty, TypeOK
  <2>3. /\ reply' \in [Replies -> Status]
        /\ \A k \in Replies : reply[k] # "none" => reply'[k] # "none"
        /\ \A k \in Replies : reply[k] = "deleted" => reply'[k] = "deleted"
    <3>1. ASSUME NEW s \in {req[r].saved} \union HookStatuses, UpdateMessageWrites(r, s)
          PROVE  /\ reply' \in [Replies -> Status]
                 /\ \A k \in Replies : reply[k] # "none" => reply'[k] # "none"
                 /\ \A k \in Replies : reply[k] = "deleted" => reply'[k] = "deleted"
      <4>1. CASE Exists(req[r].msg)
        <5>1. req[r].saved \notin Absent /\ req[r].saved \in Status
          BY <3>1 DEF UpdateMessageWrites, EditsAreStored, TypeOK, Request
        <5>2. s \in Status \ Absent
          BY <5>1 DEF Status, Stored, Open, Absent
        <5>3. /\ req[r].msg \in Replies /\ reply[req[r].msg] \notin Absent
              /\ reply' = [reply EXCEPT ![req[r].msg] = s]
          BY <3>1, <4>1 DEF UpdateMessageWrites, Exists
        <5> QED BY <5>2, <5>3 DEF TypeOK, Absent
      <4>2. CASE ~Exists(req[r].msg)
        BY <3>1, <4>2 DEF UpdateMessageWrites, TypeOK
      <4> QED BY <4>1, <4>2
    <3>2. CASE DeleteMessageRemoves(r)
      BY <3>2 DEF DeleteMessageRemoves, TypeOK, Status, Absent
    <3> QED BY <1>2, <3>1, <3>2
  <2>4. req' \in [Callers -> Request]
    BY <2>1, IdleRequest DEF TypeOK
  <2>5. TypeOK'
    BY <2>1, <2>3, <2>4 DEF TypeOK
  <2>6. \A k \in Callers : req'[k] = req[k] \/ req'[k] = Idle
    BY <2>1 DEF TypeOK
  <2>7. EditsAreStored'
    BY <2>3, <2>6, EditsFrame
  <2>8. ReplyIsStored'
    BY <2>1, <2>3 DEF ReplyIsStored, TypeOK, Replies
  <2>9. ReplyIsGone => ReplyIsGone'
    BY <2>1, <2>3 DEF ReplyIsGone
  <2> QED
    BY <2>1, <2>2, <2>5, <2>7, <2>8, <2>9
    DEF ExecutionOwnsStatus, TurnIsCarried, WaiterIsCarried, DownIsEmpty, FreshIsEmpty
<1> QED BY <1>1, <1>2

(***************************************************************************)
(* A crash, between two actions or between two writes of one, loses the    *)
(* memory and keeps a well-formed store.                                   *)
(***************************************************************************)
LEMMA CrashInv ==
  ASSUME IInv, Crash \/ CrashBetweenWrites
  PROVE  IInv'
<1> USE DEF IInv
<1>1. /\ proc = "up" /\ proc' = "down" /\ MemoryLost /\ active' = active
      /\ \/ UNCHANGED sub
         \/ sub = "none" /\ sub' = "queued"
  BY DEF Crash, CrashBetweenWrites, TornSpawn, TornAppend, TornEnd, disk
<1>2. /\ reply' \in [Replies -> Status]
      /\ \A k \in Replies : reply[k] # "none" => reply'[k] # "none"
  <2>1. CASE UNCHANGED reply
    BY <2>1 DEF TypeOK
  <2>2. CASE \E m \in Replies : IsNext(m) /\ reply' = [reply EXCEPT ![m] = "pending"]
    BY <2>2 DEF TypeOK, Status, Stored, Open
  <2>3. CASE \E m \in 0..MaxReplies : IsActiveReply(m) /\ ~InterruptThrows(m) /\ reply' = Stopped(m)
    BY <2>3, StoppedReplies DEF TypeOK
  <2>4. CASE /\ target \in Replies
             /\ reply' = [reply EXCEPT ![target] = IF aborted THEN "stopped" ELSE "error"]
    BY <2>4 DEF TypeOK, Status, Stored
  <2>5. \A m \in Replies : m \in 0..MaxReplies /\ (Exists(m) => ~InterruptThrows(m))
    BY DEF Replies, InterruptThrows
  <2> QED
    BY <2>1, <2>2, <2>3, <2>4, <2>5
    DEF Crash, CrashBetweenWrites, TornSpawn, TornAppend, TornEnd, disk, Exists
<1>3. /\ timer' = FALSE /\ phase' = "idle" /\ target' = 0 /\ aborted' = FALSE
      /\ waiting' = {} /\ req' = [r \in Callers |-> Idle]
  BY <1>1 DEF MemoryLost
<1>4. TypeOK'
  <2>1. target' \in 0..MaxReplies
    BY <1>3
  <2>2. /\ timer' \in BOOLEAN /\ aborted' \in BOOLEAN
        /\ phase' \in {"idle", "generating", "compacting", "pruning"}
    BY <1>3
  <2>3. req' \in [Callers -> Request] /\ waiting' \subseteq Waiters
    BY <1>3, IdleRequest
  <2>4. sub' \in {"none"} \union Unsettled \union Finished /\ active' \in 0..MaxReplies
    BY <1>1 DEF TypeOK, Unsettled
  <2> QED BY <1>1, <1>2, <2>1, <2>2, <2>3, <2>4 DEF TypeOK
<1>5. ReplyIsStored'
  BY <1>1, <1>2, <1>3 DEF ReplyIsStored, TypeOK, Replies
<1>6. EditsAreStored'
  BY <1>3 DEF EditsAreStored, Idle
<1>7. FreshIsEmpty'
  BY <1>1, <1>3 DEF FreshIsEmpty
<1> QED
  BY <1>1, <1>3, <1>4, <1>5, <1>6, <1>7
  DEF ExecutionOwnsStatus, TurnIsCarried, WaiterIsCarried, DownIsEmpty

\* Recovery: the running turn is interrupted, the queued one is scheduled.
LEMMA BootInv ==
  ASSUME IInv, Boot
  PROVE  IInv'
<1> USE DEF IInv
<1>1. /\ proc = "down" /\ ~timer /\ phase = "idle" /\ waiting = {}
      /\ UNCHANGED <<phase, target, aborted, waiting, req>>
  BY DEF Boot, DownIsEmpty
<1>2. PICK m \in 0..MaxReplies :
       /\ IsActiveReply(m)
       /\ IF sub = "running" /\ InterruptThrows(m)
          THEN UNCHANGED <<proc, disk, timer>>
          ELSE /\ reply'  = IF sub = "running" THEN Stopped(m) ELSE reply
               /\ sub'    = IF sub = "running" THEN "interrupted" ELSE sub
               /\ active' = IF sub = "running" THEN 0 ELSE active
               /\ timer'  = (sub = "queued")
               /\ proc'   = "up"
  BY DEF Boot
<1>3. CASE sub = "running" /\ InterruptThrows(m)
  BY <1>1, <1>2, <1>3
  DEF disk, TypeOK, ExecutionOwnsStatus, TurnIsCarried, WaiterIsCarried, DownIsEmpty,
      FreshIsEmpty, ReplyIsStored, EditsAreStored, ReplyIsGone
<1>4. CASE sub = "running" /\ ~InterruptThrows(m)
  <2>1. /\ reply' = Stopped(m) /\ sub' = "interrupted" /\ active' = 0 /\ timer' = FALSE
        /\ proc' = "up"
    BY <1>2, <1>4
  <2>2. /\ reply' \in [Replies -> Status]
        /\ \A k \in Replies : reply[k] # "none" => reply'[k] # "none"
    BY <1>2, <1>4, <2>1, StoppedReplies
  <2>3. TypeOK'
    <3>1. sub' \in {"none"} \union Unsettled \union Finished
      BY <2>1 DEF Finished, Ready
    <3>2. active' \in 0..MaxReplies
      BY <2>1
    <3>3. timer' \in BOOLEAN /\ proc' \in {"up", "down"}
      BY <2>1
    <3> QED BY <1>1, <2>2, <3>1, <3>2, <3>3 DEF TypeOK
  <2>4. EditsAreStored'
    <3>1. \A r \in Callers : req'[r] = req[r]
      BY <1>1
    <3> QED BY <2>2, <3>1, EditsFrame
  <2> QED
    BY <1>1, <2>1, <2>3, <2>4
    DEF ExecutionOwnsStatus, TurnIsCarried, WaiterIsCarried, DownIsEmpty, FreshIsEmpty,
        ReplyIsStored, Unsettled
<1>5. CASE sub # "running"
  <2>1. /\ UNCHANGED <<reply, sub, active>> /\ timer' = (sub = "queued") /\ proc' = "up"
    BY <1>2, <1>5
  <2>2. TypeOK'
    BY <1>1, <2>1 DEF TypeOK
  <2>3. ReplyIsStored' /\ EditsAreStored'
    BY <1>1, <2>1 DEF ReplyIsStored, EditsAreStored
  <2> QED
    BY <1>1, <1>5, <2>1, <2>2, <2>3
    DEF ExecutionOwnsStatus, TurnIsCarried, WaiterIsCarried, DownIsEmpty, FreshIsEmpty, Unsettled
<1> QED BY <1>3, <1>4, <1>5

\* Every step keeps the invariant.
THEOREM StepIInv == IInv /\ [Next]_vars => IInv'
<1> SUFFICES ASSUME IInv, [Next]_vars PROVE IInv'
  OBVIOUS
<1>1. CASE Spawn \/ SendInput
  BY <1>1, SubmitInv
<1>2. CASE TimerFires
  BY <1>2, TimerFiresInv
<1>3. CASE GenerationFails \/ GenerationReturns \/ CompactionDone \/ Continues \/ PruneDone
           \/ ReplyGrows
  BY <1>3, ExecutionInv
<1>4. CASE \E w \in Waiters : Wait(w) \/ WaitTimesOut(w)
  BY <1>4, WaitInv
<1>5. CASE \E r \in Callers : CallerStep(r)
  BY <1>5, AbortExecutionInv, WithdrawInv, EditInv DEF CallerStep
<1>6. CASE Crash \/ CrashBetweenWrites
  BY <1>6, CrashInv
<1>7. CASE Boot
  BY <1>7, BootInv
<1>8. CASE UNCHANGED vars
  BY <1>8
  DEF vars, disk, memory, IInv, TypeOK, ExecutionOwnsStatus, TurnIsCarried, WaiterIsCarried,
      DownIsEmpty, FreshIsEmpty, ReplyIsStored, EditsAreStored, ReplyIsGone
<1> QED BY <1>1, <1>2, <1>3, <1>4, <1>5, <1>6, <1>7, <1>8 DEF Next, TurnStep

\* The inductive invariant holds in every state of every behaviour.
THEOREM SpecIInv == Spec => []IInv
  BY InitIInv, StepIInv, PTL DEF Spec

------------------------------------------------------------------------------

\* The variables keep to their types.
THEOREM TypeCorrect == Spec => []TypeOK
  BY SpecIInv, PTL DEF IInv

\* An active execution owns the status, and no timer fires for a turn that is
\* over: activeExecutions and scheduledExecutionTimers agree with the store.
THEOREM ExecutionOwns == Spec => []ExecutionOwnsStatus
  BY SpecIInv, PTL DEF IInv

\* Interrupts, closes, waits, edits, crashes and torn writes leave no queued or
\* running turn, and no waitSubagent, without a timer or an execution that will
\* end or notify it, unless the turn's reply was deleted.
THEOREM NobodyForgotten == Spec => []NobodyIsForgotten
  BY SpecIInv, PTL DEF IInv, NobodyIsForgotten

(***************************************************************************)
(* How an execution can end: with an outcome, or without one because its   *)
(* reply was deleted.                                                      *)
(***************************************************************************)
LEMMA ExecutionOutcome ==
  ASSUME IInv, GenerationFails \/ GenerationReturns \/ PruneDone, phase' = "idle"
  PROVE  /\ phase # "idle"
         /\ sub' \in Finished \/ (sub' = "running" /\ ReplyIsGone)
<1>1. /\ phase # "idle" /\ sub = "running"
      /\ target \in Replies /\ active \in {0, target} /\ reply[target] # "none"
  BY DEF GenerationFails, GenerationReturns, PruneDone, IInv, ExecutionOwnsStatus, ReplyIsStored
<1>2. ASSUME Rejects, ~Exists(target)
      PROVE  sub' \in Finished \/ (sub' = "running" /\ ReplyIsGone)
  <2>1. reply[target] = "deleted"
    BY <1>1, <1>2 DEF Exists, Absent
  <2> QED BY <1>1, <1>2, <2>1 DEF Rejects, ExecutionEnds, Finished, ReplyIsGone
<1>3. ASSUME NEW outcome \in Ready, NEW activeNow, ExecutionEnds(outcome, activeNow)
      PROVE  sub' \in Finished
  BY <1>3 DEF ExecutionEnds, Finished
<1>4. CASE GenerationFails
  <2>1. (IF aborted THEN "interrupted" ELSE "error") \in Ready
    BY DEF Ready
  <2> QED BY <1>1, <1>2, <1>3, <1>4, <2>1 DEF GenerationFails
<1>5. CASE GenerationReturns
  BY <1>1, <1>2, <1>5 DEF GenerationReturns
<1>6. CASE PruneDone
  BY <1>1, <1>3, <1>6 DEF PruneDone, Ready
<1> QED BY <1>1, <1>4, <1>5, <1>6

\* The ends of waitSubagent other than its timeout and a crash.
LEMMA StepSeesOutcome ==
  ASSUME IInv, [Next]_vars, NEW w \in waiting, w \notin waiting', proc' = "up", ~WaitTimesOut(w)
  PROVE  sub' \in Finished \/ ReplyIsGone
<1> USE DEF IInv
<1>1. CASE Spawn \/ SendInput \/ CompactionDone \/ Continues \/ ReplyGrows \/ Boot
           \/ UNCHANGED vars
  BY <1>1 DEF Spawn, SendInput, CompactionDone, Continues, ReplyGrows, Boot, vars, memory
<1>2. CASE TimerFires
  <2>1. sub \in Unsettled
    BY <1>2 DEF TimerFires, ExecutionOwnsStatus
  <2>2. active # 0 /\ ~Exists(active)
    BY <1>2, <2>1 DEF TimerFires, TurnStarts, Unsettled
  <2>3. active \in Replies /\ reply[active] = "deleted"
    BY <2>2 DEF TypeOK, ReplyIsStored, Exists, Absent, Replies
  <2> QED BY <2>3 DEF ReplyIsGone
<1>3. CASE GenerationFails \/ GenerationReturns \/ PruneDone
  <2>1. phase' = "idle"
    BY <1>3 DEF GenerationFails, GenerationReturns, PruneDone, Rejects, ExecutionEnds
  <2> QED BY <1>3, <2>1, ExecutionOutcome
<1>4. CASE \E x \in Waiters : Wait(x) \/ WaitTimesOut(x)
  BY <1>4 DEF Wait, WaitTimesOut
<1>5. CASE \E r \in Callers : InterruptQueued(r) \/ CloseQueued(r)
  BY <1>5 DEF InterruptQueued, CloseQueued, Finished, Ready
<1>6. CASE \E r \in Callers :
             \/ AbortExecution(r, "interrupting") \/ AbortExecution(r, "closing")
             \/ \E m \in Replies : EditMessage(r, m, "updateHooks") \/ EditMessage(r, m, "deleteHooks")
             \/ \E s \in {req[r].saved} \union HookStatuses : UpdateMessageWrites(r, s)
             \/ DeleteMessageRemoves(r)
  BY <1>6 DEF AbortExecution, EditMessage, UpdateMessageWrites, DeleteMessageRemoves
<1>7. CASE Crash \/ CrashBetweenWrites
  BY <1>7 DEF Crash, CrashBetweenWrites
<1> QED BY <1>1, <1>2, <1>3, <1>4, <1>5, <1>6, <1>7 DEF Next, TurnStep, CallerStep

\* A waitSubagent that was notified reports how the turn ended.
THEOREM WaitsSeeOutcomes == Spec => WaitSeesOutcome
<1>1. IInv /\ [Next]_vars
        => [\A w \in waiting : w \notin waiting' /\ proc' = "up" /\ ~WaitTimesOut(w)
              => sub' \in Finished \/ ReplyIsGone]_vars
  BY StepSeesOutcome
<1> QED BY <1>1, SpecIInv, PTL DEF Spec, WaitSeesOutcome

------------------------------------------------------------------------------
(* Histories that nobody edits, and writes that are not torn.              *)

(***************************************************************************)
(* What makes TurnEndsItsReplies inductive there: no reply is ever         *)
(* deleted, the reply in progress is the recorded one, the execution works *)
(* on that reply and has completed it before it compacts, and a running    *)
(* turn without an execution is one that a crash cut off.                  *)
(***************************************************************************)
UneditedInv ==
  /\ \A m \in Replies : reply[m] # "deleted"
  /\ \A r \in Callers : req[r].at \notin {"updateHooks", "deleteHooks"}

TurnInv ==
  /\ sub \in {"none"} \union Finished => OpenReplies = {}
  /\ sub = "queued" => active \in Replies /\ OpenReplies = {active}
  /\ sub = "running" => /\ active \in Replies /\ OpenReplies \subseteq {active}
                        /\ ~timer
                        /\ proc = "up" => phase # "idle"
  /\ phase # "idle" => target = active
  /\ phase \in {"compacting", "pruning"} => OpenReplies = {}

QuietInv == UneditedInv /\ TurnInv

\* The caller records of a step that starts no edit.
LEMMA UneditedCallers ==
  ASSUME UneditedInv,
         \A m \in Replies : reply'[m] # "deleted",
         \A r \in Callers : \/ req'[r].at = req[r].at
                            \/ req'[r].at \in {"idle", "interrupting", "closing"}
  PROVE  UneditedInv'
  BY DEF UneditedInv

\* A new reply is the only one in progress: no earlier one is.
LEMMA SubmitQuiet ==
  ASSUME IInv, QuietInv, Spawn \/ SendInput
  PROVE  QuietInv'
<1>1. PICK m \in Replies : /\ reply' = [reply EXCEPT ![m] = "pending"]
                           /\ active' = m
  BY DEF Spawn, SendInput
<1>2. /\ sub' = "queued" /\ OpenReplies = {}
      /\ phase = "idle" /\ UNCHANGED <<phase, target, req>>
  BY DEF Spawn, SendInput, QuietInv, TurnInv, Ready, Finished, IInv, ExecutionOwnsStatus
<1>3. OpenReplies' = {m}
  BY <1>1, <1>2 DEF OpenReplies, Open, IInv, TypeOK
<1>4. UneditedInv'
  BY <1>1, <1>2, UneditedCallers DEF QuietInv, UneditedInv, IInv, TypeOK
<1> QED BY <1>1, <1>2, <1>3, <1>4 DEF QuietInv, TurnInv, Finished, Ready

\* The timer finds a queued turn, whose recorded reply exists.
LEMMA TimerQuiet ==
  ASSUME IInv, QuietInv, TimerFires
  PROVE  QuietInv'
<1>1. /\ sub = "queued" /\ phase = "idle"
      /\ active \in Replies /\ OpenReplies = {active} /\ Exists(active)
  BY DEF TimerFires, IInv, ExecutionOwnsStatus, Unsettled, QuietInv, TurnInv, OpenReplies, Open,
         Exists, Absent
<1>2. /\ sub' = "running" /\ timer' = FALSE
      /\ reply' = [reply EXCEPT ![active] = "streaming"]
      /\ phase' = "generating" /\ target' = active
      /\ UNCHANGED <<proc, active, req>>
  BY <1>1 DEF TimerFires, TurnStarts, Generate, Replies
<1>3. OpenReplies' = {active}
  BY <1>1, <1>2 DEF OpenReplies, Open, IInv, TypeOK
<1>4. UneditedInv'
  BY <1>2, UneditedCallers DEF QuietInv, UneditedInv, IInv, TypeOK
<1> QED BY <1>1, <1>2, <1>3, <1>4 DEF QuietInv, TurnInv, Finished, Ready

(***************************************************************************)
(* An execution ends with an outcome when the replies in progress are gone.*)
(***************************************************************************)
LEMMA ExecutionEndsQuiet ==
  ASSUME IInv, QuietInv, phase # "idle", NEW outcome \in Ready, ExecutionEnds(outcome, 0),
         \A m \in Replies : reply'[m] # "deleted",
         OpenReplies' = {}
  PROVE  QuietInv'
<1>1. /\ sub' \in Finished
      /\ phase' = "idle"
  BY DEF ExecutionEnds, Finished
<1>2. \A r \in Callers : req'[r].at = req[r].at \/ req'[r].at = "idle"
  BY DEF ExecutionEnds, Idle
<1>3. UneditedInv'
  BY <1>2, UneditedCallers DEF QuietInv
<1> QED BY <1>1, <1>3 DEF QuietInv, TurnInv, Finished, Ready

\* The steps of an execution: its reply exists, is completed before the
\* compaction, and a continuation is the only reply in progress.
LEMMA ExecutionQuiet ==
  ASSUME IInv, QuietInv,
         GenerationFails \/ GenerationReturns \/ CompactionDone \/ Continues \/ PruneDone
         \/ ReplyGrows
  PROVE  QuietInv'
<1>1. /\ phase # "idle" /\ sub = "running" /\ proc = "up"
      /\ active \in Replies /\ target = active /\ OpenReplies \subseteq {target}
      /\ ~timer /\ Exists(target)
  BY DEF GenerationFails, GenerationReturns, CompactionDone, Continues, PruneDone, ReplyGrows,
         IInv, ExecutionOwnsStatus, ReplyIsStored, DownIsEmpty, TypeOK, QuietInv, TurnInv,
         UneditedInv, Exists, Absent
<1>2. \A m \in Replies : reply[m] # "deleted"
  BY DEF QuietInv, UneditedInv
<1>3. CASE GenerationFails
  <2> DEFINE s == IF aborted THEN "stopped" ELSE "error"
  <2>1. /\ reply' = [reply EXCEPT ![target] = s]
        /\ ExecutionEnds(IF aborted THEN "interrupted" ELSE "error", 0)
    BY <1>1, <1>3 DEF GenerationFails
  <2>2. OpenReplies' = {} /\ \A m \in Replies : reply'[m] # "deleted"
    BY <1>1, <1>2, <2>1 DEF OpenReplies, Open, IInv, TypeOK
  <2>3. (IF aborted THEN "interrupted" ELSE "error") \in Ready
    BY DEF Ready
  <2> QED BY <1>1, <2>1, <2>2, <2>3, ExecutionEndsQuiet
<1>4. CASE GenerationReturns
  <2>1. /\ reply' = [reply EXCEPT ![target] = "completed"]
        /\ phase' = "compacting"
        /\ UNCHANGED <<proc, sub, active, timer, target, req>>
    BY <1>1, <1>4 DEF GenerationReturns
  <2>2. OpenReplies' = {} /\ \A m \in Replies : reply'[m] # "deleted"
    BY <1>1, <1>2, <2>1 DEF OpenReplies, Open, IInv, TypeOK
  <2>3. UneditedInv'
    BY <2>1, <2>2, UneditedCallers DEF QuietInv
  <2> QED BY <1>1, <2>1, <2>2, <2>3 DEF QuietInv, TurnInv, Finished, Ready
<1>5. CASE CompactionDone
  BY <1>1, <1>5 DEF CompactionDone, disk, QuietInv, TurnInv, UneditedInv, OpenReplies
<1>6. CASE Continues
  <2>1. PICK m \in Replies : Generate(m, reply) /\ active' = m
    BY <1>6 DEF Continues
  <2>2. /\ reply' = [reply EXCEPT ![m] = "streaming"]
        /\ phase' = "generating" /\ target' = m /\ active' = m /\ sub' = "running"
        /\ UNCHANGED <<proc, timer, req>>
        /\ OpenReplies = {}
    BY <1>6, <2>1 DEF Continues, Generate, QuietInv, TurnInv
  <2>3. OpenReplies' = {m} /\ \A k \in Replies : reply'[k] # "deleted"
    BY <1>2, <2>2 DEF OpenReplies, Open, IInv, TypeOK
  <2>4. UneditedInv'
    BY <2>2, <2>3, UneditedCallers DEF QuietInv
  <2> QED BY <1>1, <2>2, <2>3, <2>4 DEF QuietInv, TurnInv, Finished, Ready
<1>7. CASE PruneDone
  <2>1. /\ ExecutionEnds("completed", 0) /\ UNCHANGED reply /\ OpenReplies = {}
    BY <1>7 DEF PruneDone, QuietInv, TurnInv
  <2>2. OpenReplies' = {}
    BY <2>1 DEF OpenReplies
  <2> QED BY <1>1, <1>2, <2>1, <2>2, ExecutionEndsQuiet DEF Ready
<1>8. CASE ReplyGrows
  <2>1. /\ reply' = [reply EXCEPT ![target] = "streaming"]
        /\ UNCHANGED <<proc, sub, active, timer, phase, target, req>>
        /\ phase = "generating"
    BY <1>8 DEF ReplyGrows, memory
  <2>2. OpenReplies' \subseteq {target} /\ \A k \in Replies : reply'[k] # "deleted"
    BY <1>1, <1>2, <2>1 DEF OpenReplies, Open, IInv, TypeOK
  <2>3. UneditedInv'
    BY <2>1, <2>2, UneditedCallers DEF QuietInv
  <2> QED BY <1>1, <2>1, <2>2, <2>3 DEF QuietInv, TurnInv, Finished, Ready
<1> QED BY <1>3, <1>4, <1>5, <1>6, <1>7, <1>8

\* Stopping the reply in progress leaves none.
LEMMA StoppedQuiet ==
  ASSUME IInv, QuietInv, NEW m \in 0..MaxReplies, IsActiveReply(m), ~InterruptThrows(m),
         OpenReplies \subseteq {m}, reply' = Stopped(m)
  PROVE  OpenReplies' = {} /\ \A k \in Replies : reply'[k] # "deleted"
<1>1. CASE m = 0
  BY <1>1 DEF Stopped, OpenReplies, Replies, QuietInv, UneditedInv
<1>2. CASE m # 0
  BY <1>2 DEF Stopped, OpenReplies, Open, Replies, QuietInv, UneditedInv, IInv, TypeOK
<1> QED BY <1>1, <1>2

\* The reply a caller or the boot would stop is there, and it is the only one
\* in progress.
LEMMA ActiveReplyQuiet ==
  ASSUME IInv, QuietInv, NEW m \in 0..MaxReplies, IsActiveReply(m)
  PROVE  OpenReplies \subseteq {m} /\ ~InterruptThrows(m)
<1>1. ~InterruptThrows(m)
  <2>1. ~ReplyIsGone
    BY DEF QuietInv, UneditedInv, ReplyIsGone
  <2> QED BY <2>1, ThrowsMeansGone DEF IInv
<1>2. OpenReplies = {} \/ (active \in Replies /\ OpenReplies \subseteq {active})
  BY DEF QuietInv, TurnInv, IInv, TypeOK, Unsettled
<1>3. active \in Replies => m = active
  BY DEF IsActiveReply, Replies
<1> QED BY <1>1, <1>2, <1>3

\* What the requests of callers do: interrupts and closes, but no edits.
LEMMA CallerQuiet ==
  ASSUME IInv, QuietInv, ~EditsHistory, NEW r \in Callers, CallerStep(r)
  PROVE  QuietInv'
<1>1. CASE AbortExecution(r, "interrupting") \/ AbortExecution(r, "closing")
  <2>1. /\ UNCHANGED <<proc, sub, active, reply, timer, phase, target>>
        /\ \A q \in Callers : \/ req'[q].at = req[q].at
                              \/ req'[q].at \in {"idle", "interrupting", "closing"}
    BY <1>1 DEF AbortExecution, disk, IInv, TypeOK, Request
  <2>2. UneditedInv'
    BY <2>1, UneditedCallers DEF QuietInv, UneditedInv
  <2> QED BY <2>1, <2>2 DEF QuietInv, TurnInv, OpenReplies
<1>2. CASE InterruptQueued(r) \/ CloseQueued(r)
  <2>1. PICK m \in 0..MaxReplies :
          /\ IsActiveReply(m)
          /\ ~InterruptThrows(m) =>
               /\ sub' \in {"interrupted", "closed"}
               /\ reply' = Stopped(m)
    BY <1>2 DEF InterruptQueued, CloseQueued
  <2>2. /\ sub' \in {"interrupted", "closed"}
        /\ OpenReplies' = {} /\ \A k \in Replies : reply'[k] # "deleted"
    BY <2>1, ActiveReplyQuiet, StoppedQuiet
  <2>3. /\ phase = "idle" /\ UNCHANGED <<proc, phase, target, req>>
    BY <1>2 DEF InterruptQueued, CloseQueued
  <2>4. UneditedInv'
    BY <2>2, <2>3, UneditedCallers DEF QuietInv
  <2> QED BY <2>2, <2>3, <2>4 DEF QuietInv, TurnInv, Finished, Ready
<1> QED
  BY <1>1, <1>2
  DEF CallerStep, EditMessage, UpdateMessageWrites, DeleteMessageRemoves, QuietInv, UneditedInv

\* A crash leaves the replies to the boot, which stops the one of a running turn.
LEMMA RecoveryQuiet ==
  ASSUME IInv, QuietInv, Crash \/ Boot
  PROVE  QuietInv'
<1>1. CASE Crash
  <2>1. UneditedInv'
    BY <1>1 DEF Crash, MemoryLost, disk, QuietInv, UneditedInv, Idle
  <2> QED BY <1>1, <2>1 DEF Crash, MemoryLost, disk, QuietInv, TurnInv, OpenReplies
<1>2. CASE Boot
  <2>1. PICK m \in 0..MaxReplies :
          /\ IsActiveReply(m)
          /\ ~InterruptThrows(m) =>
               /\ reply'  = IF sub = "running" THEN Stopped(m) ELSE reply
               /\ sub'    = IF sub = "running" THEN "interrupted" ELSE sub
               /\ active' = IF sub = "running" THEN 0 ELSE active
    BY <1>2 DEF Boot
  <2>2. /\ ~InterruptThrows(m) /\ OpenReplies \subseteq {m}
    BY <2>1, ActiveReplyQuiet
  <2>3. /\ phase = "idle" /\ UNCHANGED <<phase, target, req>>
    BY <1>2 DEF Boot, IInv, DownIsEmpty
  <2>4. CASE sub = "running"
    <3>1. OpenReplies' = {} /\ \A k \in Replies : reply'[k] # "deleted"
      BY <2>1, <2>2, <2>4, StoppedQuiet
    <3>2. UneditedInv'
      BY <2>3, <3>1, UneditedCallers DEF QuietInv
    <3> QED BY <2>1, <2>2, <2>3, <2>4, <3>1, <3>2 DEF QuietInv, TurnInv
  <2>5. CASE sub # "running"
    BY <2>1, <2>2, <2>3, <2>5 DEF QuietInv, TurnInv, UneditedInv, OpenReplies
  <2> QED BY <2>4, <2>5
<1> QED BY <1>1, <1>2

\* Every step keeps QuietInv when nobody edits and no write is torn.
LEMMA StepQuiet ==
  ASSUME ~EditsHistory, ~TearsWrites, IInv, QuietInv, [Next]_vars
  PROVE  QuietInv'
<1>1. CASE Spawn \/ SendInput
  BY <1>1, SubmitQuiet
<1>2. CASE TimerFires
  BY <1>2, TimerQuiet
<1>3. CASE GenerationFails \/ GenerationReturns \/ CompactionDone \/ Continues \/ PruneDone
           \/ ReplyGrows
  BY <1>3, ExecutionQuiet
<1>4. ASSUME NEW w \in Waiters, Wait(w) \/ WaitTimesOut(w)
      PROVE  QuietInv'
  <2>1. /\ UNCHANGED <<proc, sub, active, reply, phase, target, req>>
        /\ phase # "idle" \/ sub = "queued" \/ timer' = timer
    BY <1>4 DEF Wait, WaitTimesOut, Schedule, disk, QuietInv, TurnInv, Unsettled
  <2>2. sub = "running" => ~timer'
    BY <1>4 DEF Wait, WaitTimesOut, Schedule, QuietInv, TurnInv
  <2> QED BY <2>1, <2>2 DEF QuietInv, TurnInv, UneditedInv, OpenReplies
<1>5. CASE \E r \in Callers : CallerStep(r)
  BY <1>5, CallerQuiet
<1>6. CASE Crash \/ Boot
  BY <1>6, RecoveryQuiet
<1>7. CASE UNCHANGED vars
  BY <1>7 DEF vars, disk, memory, QuietInv, TurnInv, UneditedInv, OpenReplies
<1> QED BY <1>1, <1>2, <1>3, <1>4, <1>5, <1>6, <1>7 DEF Next, TurnStep, CrashBetweenWrites

\* When nobody edits the history and no write is torn, a subagent that finished
\* shows no reply in progress, and a queued one only that of its next turn,
\* through interrupts, closes, continuations, crashes and boots.
THEOREM RepliesEndWithTurns ==
  ASSUME ~EditsHistory, ~TearsWrites
  PROVE  Spec => []TurnEndsItsReplies
<1>1. Init => QuietInv
  BY DEF Init, QuietInv, UneditedInv, TurnInv, OpenReplies, Open, Idle, Finished, Ready
<1>2. IInv /\ QuietInv /\ [Next]_vars => QuietInv'
  BY StepQuiet
<1>3. QuietInv => TurnEndsItsReplies
  BY DEF QuietInv, TurnInv, TurnEndsItsReplies
<1> QED BY <1>1, <1>2, <1>3, SpecIInv, PTL DEF Spec

(***************************************************************************)
(* Crashes never keep the server down: without edits of a history no reply *)
(* that a running turn has recorded is ever missing, whatever crashed      *)
(* between two writes, so that resumePendingSubagents does not throw. With *)
(* edits it may, and then at every start.                                  *)
(***************************************************************************)
THEOREM EveryStartSucceeds ==
  ASSUME ~EditsHistory
  PROVE  Spec => [][Boot => proc' = "up"]_vars
<1>1. Init => UneditedInv
  BY DEF Init, UneditedInv, Idle
<1>2. IInv /\ UneditedInv /\ [Next]_vars => UneditedInv'
  <2> SUFFICES ASSUME IInv, UneditedInv, [Next]_vars PROVE UneditedInv'
    OBVIOUS
  <2> DEFINE Written(m) == \E s \in Open \union {"completed", "stopped", "error"} :
                             reply' = [reply EXCEPT ![m] = s]
  <2>1. ASSUME UNCHANGED reply \/ \E m \in Replies : Written(m)
        PROVE  \A m \in Replies : reply'[m] # "deleted"
    BY <2>1 DEF UneditedInv, IInv, TypeOK, Open
  <2>2. ASSUME NEW m \in 0..MaxReplies, IsActiveReply(m)
        PROVE  Stopped(m) = reply \/ \E k \in Replies : Stopped(m) = [reply EXCEPT ![k] = "stopped"]
    BY DEF Stopped, Replies
  <2>3. CASE Spawn \/ SendInput
    <3>1. (\E m \in Replies : Written(m)) /\ UNCHANGED req
      BY <2>3 DEF Spawn, SendInput, Open
    <3> QED BY <2>1, <3>1 DEF UneditedInv
  <2>4. CASE TimerFires
    <3>1. (UNCHANGED reply \/ \E m \in Replies : Written(m)) /\ UNCHANGED req
      BY <2>4 DEF TimerFires, TurnStarts, Generate, Exists, Absent, IInv, TypeOK, Open, Replies
    <3> QED BY <2>1, <3>1 DEF UneditedInv
  <2>5. CASE GenerationFails \/ GenerationReturns \/ CompactionDone \/ Continues \/ PruneDone
             \/ ReplyGrows
    <3>1. UNCHANGED reply \/ \E m \in Replies : Written(m)
      <4>1. phase # "idle" => target \in Replies
        BY DEF IInv, ReplyIsStored
      <4> QED BY <2>5, <4>1 DEF GenerationFails, GenerationReturns, CompactionDone, Continues,
                 PruneDone, ReplyGrows, Generate, Rejects, Open, disk
    <3>2. \A r \in Callers : req'[r].at \in {req[r].at, "idle"}
      BY <2>5 DEF GenerationFails, GenerationReturns, CompactionDone, Continues, PruneDone,
                  ReplyGrows, Rejects, ExecutionEnds, disk, memory, Idle, IInv, TypeOK
    <3> QED BY <2>1, <3>1, <3>2, UneditedCallers
  <2>6. CASE \E w \in Waiters : Wait(w) \/ WaitTimesOut(w)
    BY <2>6 DEF Wait, WaitTimesOut, disk, UneditedInv
  <2>7. ASSUME NEW r \in Callers, CallerStep(r) PROVE UneditedInv'
    <3>1. CASE AbortExecution(r, "interrupting") \/ AbortExecution(r, "closing")
      <4>1. \A k \in Callers : \/ req'[k].at = req[k].at
                                \/ req'[k].at \in {"idle", "interrupting", "closing"}
        BY <3>1 DEF AbortExecution, IInv, TypeOK, Request
      <4>2. UNCHANGED reply
        BY <3>1 DEF AbortExecution, disk
      <4> QED BY <2>1, <4>1, <4>2, UneditedCallers
    <3>2. CASE InterruptQueued(r) \/ CloseQueued(r)
      <4>1. (UNCHANGED reply \/ \E m \in Replies : Written(m)) /\ UNCHANGED req
        BY <2>2, <3>2 DEF InterruptQueued, CloseQueued, disk
      <4> QED BY <2>1, <4>1 DEF UneditedInv
    <3> QED BY <2>7, <3>1, <3>2 DEF CallerStep, EditMessage, UpdateMessageWrites,
               DeleteMessageRemoves, UneditedInv
  <2>8. CASE Crash \/ CrashBetweenWrites
    <3>1. UNCHANGED reply \/ \E m \in Replies : Written(m)
      <4>1. phase # "idle" => target \in Replies
        BY DEF IInv, ReplyIsStored
      <4>2. CASE Crash
        BY <4>2 DEF Crash, disk
      <4>3. CASE TornSpawn \/ TornAppend
        BY <4>3 DEF TornSpawn, TornAppend, Open
      <4>4. CASE TornEnd
        <5>1. CASE \E m \in Replies : IsActiveReply(m) /\ reply' = Stopped(m)
          BY <5>1 DEF Stopped, Replies
        <5>2. CASE phase = "generating" /\ \E s \in {"stopped", "error"} :
                                            reply' = [reply EXCEPT ![target] = s]
          BY <4>1, <5>2
        <5> QED BY <4>4, <5>1, <5>2 DEF TornEnd
      <4> QED BY <2>8, <4>2, <4>3, <4>4 DEF CrashBetweenWrites
    <3>2. req' = [r \in Callers |-> Idle]
      BY <2>8 DEF Crash, CrashBetweenWrites, MemoryLost
    <3> QED BY <2>1, <3>1, <3>2, UneditedCallers DEF Idle
  <2>9. CASE Boot
    <3>1. (UNCHANGED reply \/ \E m \in Replies : Written(m)) /\ UNCHANGED req
      BY <2>2, <2>9 DEF Boot, disk
    <3> QED BY <2>1, <3>1 DEF UneditedInv
  <2>10. CASE UNCHANGED vars
    BY <2>10 DEF vars, disk, memory, UneditedInv
  <2> QED BY <2>3, <2>4, <2>5, <2>6, <2>7, <2>8, <2>9, <2>10 DEF Next, TurnStep
<1>3. IInv /\ UneditedInv /\ [Next]_vars => [Boot => proc' = "up"]_vars
  <2> SUFFICES ASSUME IInv, UneditedInv, Boot PROVE proc' = "up"
    OBVIOUS
  <2>1. ASSUME NEW m \in 0..MaxReplies, IsActiveReply(m) PROVE ~InterruptThrows(m)
    BY <2>1 DEF IsActiveReply, InterruptThrows, OpenReplies, Open, Exists, Absent, UneditedInv,
                IInv, ReplyIsStored, TypeOK, Replies
  <2> QED BY <2>1 DEF Boot
<1> QED BY <1>1, <1>2, <1>3, SpecIInv, PTL DEF Spec

------------------------------------------------------------------------------
(* SubagentRunner implements SubagentJob.                                  *)

\* Every step of the service is a step of the job, or changes nothing of it.
LEMMA StepRefines ==
  ASSUME IInv, [Next]_vars
  PROVE  [Job!Next]_<<sub, (phase # "idle")>>
<1> USE DEF IInv, Job!Next
<1>1. CASE Spawn \/ SendInput
  <2>1. phase = "idle"
    BY <1>1 DEF Spawn, SendInput, ExecutionOwnsStatus, FreshIsEmpty, Ready
  <2> QED BY <1>1, <2>1 DEF Spawn, SendInput, Ready, Job!Submit, Job!Ready
<1>2. CASE TimerFires
  <2>1. sub \in {"queued", "running"} /\ phase = "idle" /\ sub' = "running"
    BY <1>2 DEF TimerFires, ExecutionOwnsStatus, Unsettled
  <2> QED BY <2>1 DEF Job!Start
<1>3. CASE GenerationFails \/ GenerationReturns \/ PruneDone
  <2>1. CASE phase' = "idle"
    BY <1>3, <2>1, ExecutionOutcome DEF Finished, Ready, Job!Finish, Job!Ready
  <2>2. CASE phase' # "idle"
    <3>1. phase # "idle" /\ sub' = sub
      BY <1>3, <2>2
      DEF GenerationFails, GenerationReturns, PruneDone, Rejects, ExecutionEnds
    <3> QED BY <2>2, <3>1
  <2> QED BY <2>1, <2>2
<1>4. CASE CompactionDone \/ Continues \/ ReplyGrows
  <2>1. phase # "idle" /\ phase' # "idle" /\ sub = "running" /\ sub' = "running"
    BY <1>4
    DEF CompactionDone, Continues, ReplyGrows, Generate, disk, memory, ExecutionOwnsStatus
  <2> QED BY <2>1
<1>5. CASE \E w \in Waiters : Wait(w) \/ WaitTimesOut(w)
  BY <1>5 DEF Wait, WaitTimesOut, disk
<1>6. CASE \E r \in Callers : InterruptQueued(r) \/ CloseQueued(r)
  BY <1>6 DEF InterruptQueued, CloseQueued, Free, disk, Job!Withdraw
<1>7. CASE \E r \in Callers :
             \/ AbortExecution(r, "interrupting") \/ AbortExecution(r, "closing")
             \/ \E m \in Replies : EditMessage(r, m, "updateHooks") \/ EditMessage(r, m, "deleteHooks")
             \/ \E s \in {req[r].saved} \union HookStatuses : UpdateMessageWrites(r, s)
             \/ DeleteMessageRemoves(r)
  BY <1>7 DEF AbortExecution, EditMessage, UpdateMessageWrites, DeleteMessageRemoves, disk
<1>8. CASE Crash
  BY <1>8 DEF Crash, MemoryLost, disk, Job!Lose
<1>9. CASE CrashBetweenWrites
  <2>1. CASE TornSpawn
    BY <1>9, <2>1
    DEF CrashBetweenWrites, TornSpawn, MemoryLost, FreshIsEmpty, Job!Submit
  <2>2. CASE TornAppend \/ TornEnd
    BY <1>9, <2>2 DEF CrashBetweenWrites, TornAppend, TornEnd, MemoryLost, Job!Lose
  <2> QED BY <1>9, <2>1, <2>2 DEF CrashBetweenWrites
<1>10. CASE Boot
  <2>1. phase = "idle" /\ phase' = "idle"
    BY <1>10 DEF Boot, DownIsEmpty
  <2>2. sub' = sub \/ (sub = "running" /\ sub' = "interrupted")
    BY <1>10 DEF Boot, disk
  <2> QED BY <2>1, <2>2 DEF Job!Withdraw
<1>11. CASE UNCHANGED vars
  BY <1>11 DEF vars, disk, memory
<1> QED
  BY <1>1, <1>2, <1>3, <1>4, <1>5, <1>6, <1>7, <1>8, <1>9, <1>10, <1>11
  DEF Next, TurnStep, CallerStep

\* The status with its execution is what SubagentJob promises to plugins.
THEOREM ImplementsJob == Spec => JobSpec
<1>1. Init => Job!Init
  BY DEF Init, Job!Init
<1>2. IInv /\ [Next]_vars => [Job!Next]_<<sub, (phase # "idle")>>
  BY StepRefines
<1> QED BY <1>1, <1>2, SpecIInv, PTL DEF Spec, JobSpec, Job!Spec
===============================================================================
