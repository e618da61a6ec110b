---------------------------- MODULE SubagentRunner ----------------------------
(***************************************************************************)
(* SubagentRunnerService: one subagent conversation, its turns (queued,    *)
(* running, finished), the 0 ms timer and the execution that carry a turn, *)
(* the calls that wait for, interrupt or close the subagent, the HTTP      *)
(* edits of its messages, crashes and the recovery at boot.                *)
(*                                                                         *)
(* One action is a run of code between two awaits that really wait.  The   *)
(* store is a file written once per update, so a crash can also fall       *)
(* between two writes of one action (CrashBetweenWrites).                  *)
(***************************************************************************)
EXTENDS Integers

CONSTANTS
  MaxReplies,     \* bound: assistant messages the conversation can get
  Waiters,        \* waitSubagent calls
  Callers,        \* interrupt, close, edit and delete requests in progress
  EditsHistory,   \* clients edit and delete messages of the conversation
  HookStatuses,   \* statuses that message:updated hooks return for a message
  TearsWrites     \* a crash can fall between two writes of one action

Open    == {"pending", "streaming"}
Absent  == {"none", "deleted"}
Stored  == Open \union {"completed", "stopped", "error"}
Status  == Stored \union Absent

ASSUME ConstantsAssumption ==
  /\ MaxReplies \in Nat
  /\ EditsHistory \in BOOLEAN
  /\ HookStatuses \subseteq Stored
  /\ TearsWrites \in BOOLEAN

VARIABLES
  proc,     \* "up", or "down" until the server has booted
  sub,      \* conversation.subagent.status (on disk)
  active,   \* subagent.activeAssistantMessageId, 0 when absent (on disk)
  reply,    \* status of each assistant message, in order (on disk)
  timer,    \* scheduledExecutionTimers holds the conversation
  phase,    \* the await of the execution in activeExecutions, or "idle"
  target,   \* the execution's assistantMessageId
  aborted,  \* the execution's abortController.signal.aborted
  waiting,  \* the waitSubagent calls that are in waiters
  req       \* what each interrupt, close, edit or delete is doing

disk   == <<sub, active, reply>>
memory == <<timer, phase, target, aborted, waiting, req>>
vars   == <<proc, disk, memory>>

Replies == 1..MaxReplies

Ready    == {"completed", "interrupted", "error"}   \* takes a next input
Finished == Ready \union {"closed"}
Unsettled == {"queued", "running"}

Idle    == [at |-> "idle", msg |-> 0, saved |-> "none"]
Request == [at : {"idle", "interrupting", "closing", "updateHooks", "deleteHooks"},
            msg : 0..MaxReplies, saved : Status]

TypeOK ==
  /\ proc \in {"up", "down"}
  /\ sub \in {"none"} \union Unsettled \union Finished
  /\ active \in 0..MaxReplies
  /\ reply \in [Replies -> Status]
  /\ timer \in BOOLEAN
  /\ phase \in {"idle", "generating", "compacting", "pruning"}
  /\ target \in 0..MaxReplies
  /\ aborted \in BOOLEAN
  /\ waiting \subseteq Waiters
  /\ req \in [Callers -> Request]

Init ==
  /\ proc    = "up"
  /\ sub     = "none"
  /\ active  = 0
  /\ reply   = [m \in Replies |-> "none"]
  /\ timer   = FALSE
  /\ phase   = "idle"
  /\ target  = 0
  /\ aborted = FALSE
  /\ waiting = {}
  /\ req     = [r \in Callers |-> Idle]

MemoryLost ==
  /\ timer'   = FALSE
  /\ phase'   = "idle"
  /\ target'  = 0
  /\ aborted' = FALSE
  /\ waiting' = {}
  /\ req'     = [r \in Callers |-> Idle]

------------------------------------------------------------------------------
(* The conversation.                                                       *)

Exists(m) == m \in Replies /\ reply[m] \notin Absent

\* The id the next appended assistant message gets.
IsNext(m) == reply[m] = "none" /\ \A k \in Replies : k < m => reply[k] # "none"

(***************************************************************************)
(* readConversationActiveAssistantMessageId: the recorded message, or else *)
(* the last one that is pending or streaming, or none (0).                 *)
(***************************************************************************)
OpenReplies == {m \in Replies : reply[m] \in Open}
IsActiveReply(m) ==
  IF active # 0 THEN m = active
  ELSE IF OpenReplies = {} THEN m = 0
  ELSE m \in OpenReplies /\ \A k \in OpenReplies : k <= m

\* writeInterruptedAssistantMessage throws: the message was deleted.
InterruptThrows(m) == m # 0 /\ ~Exists(m)
Stopped(m) == IF m = 0 THEN reply ELSE [reply EXCEPT ![m] = "stopped"]

------------------------------------------------------------------------------
(* Turns.                                                                  *)

\* scheduleSubagentExecution: nothing to do when a timer or an execution is there.
Schedule == timer' = (timer \/ phase = "idle")

\* spawnSubagent, all of its writes.
Spawn ==
  /\ proc = "up"
  /\ sub = "none"
  /\ \E m \in Replies :
       /\ IsNext(m)
       /\ reply' = [reply EXCEPT ![m] = "pending"]
       /\ active' = m
  /\ sub' = "queued"
  /\ Schedule
  /\ UNCHANGED <<proc, phase, target, aborted, waiting, req>>

\* Fault: a running subagent takes the next input too.
SendInputAnytime ==
  /\ proc = "up"
  /\ sub \in Ready \union Unsettled
  /\ \E m \in Replies :
       /\ IsNext(m)
       /\ reply' = [reply EXCEPT ![m] = "pending"]
       /\ active' = m
  /\ sub' = "queued"
  /\ Schedule
  /\ UNCHANGED <<proc, phase, target, aborted, waiting, req>>

\* sendInputSubagent: refused while a turn is queued or running, and when closed.
SendInput ==
  /\ proc = "up"
  /\ sub \in Ready
  /\ \E m \in Replies :
       /\ IsNext(m)
       /\ reply' = [reply EXCEPT ![m] = "pending"]
       /\ active' = m
  /\ sub' = "queued"
  /\ Schedule
  /\ UNCHANGED <<proc, phase, target, aborted, waiting, req>>

\* Fault: the waiters are not notified.
ExecutionEndsSilently(outcome, activeNow) ==
  LET closes == \E r \in Callers : req[r].at = "closing" IN
  /\ sub'     = IF closes THEN "closed" ELSE outcome
  /\ active'  = IF closes THEN 0 ELSE activeNow
  /\ phase'   = "idle"
  /\ target'  = 0
  /\ aborted' = FALSE
  /\ req'     = [r \in Callers |-> IF req[r].at \in {"interrupting", "closing"} THEN Idle
                                                                             ELSE req[r]]
  /\ UNCHANGED <<proc, timer, waiting>>

(***************************************************************************)
(* The execution ends, with outcome as the subagent's status: it leaves    *)
(* activeExecutions and notifies the waiters; the interrupts that awaited  *)
(* its completion return, and a close goes on to write "closed".           *)
(***************************************************************************)
ExecutionEnds(outcome, activeNow) ==
  LET closes == \E r \in Callers : req[r].at = "closing" IN
  /\ sub'     = IF closes THEN "closed" ELSE outcome
  /\ active'  = IF closes THEN 0 ELSE activeNow
  /\ phase'   = "idle"
  /\ target'  = 0
  /\ aborted' = FALSE
  /\ waiting' = {}
  /\ req'     = [r \in Callers |-> IF req[r].at \in {"interrupting", "closing"} THEN Idle
                                                                             ELSE req[r]]
  /\ UNCHANGED <<proc, timer>>

\* The catch block cannot write to a deleted message either: the execution
\* rejects, its error is dropped, the status stays "running".
Rejects == ExecutionEnds("running", active) /\ UNCHANGED reply

\* A reply becomes "streaming" and executeSubagent is called.
Generate(m, replyNow) ==
  /\ reply' = [replyNow EXCEPT ![m] = "streaming"]
  /\ phase' = "generating"
  /\ target' = m

(***************************************************************************)
(* The 0 ms timer: runSubagentConversation up to executeSubagent.  Without *)
(* a recorded message it appends one, whose id it does not record; with a  *)
(* deleted one it rejects at once.                                         *)
(***************************************************************************)
TurnStarts ==
  \/ /\ Exists(active)
     /\ Generate(active, reply)
     /\ UNCHANGED waiting
  \/ /\ active = 0
     /\ \E m \in Replies : IsNext(m) /\ Generate(m, reply)
     /\ UNCHANGED waiting
  \/ /\ active # 0
     /\ ~Exists(active)
     /\ waiting' = {}
     /\ UNCHANGED <<reply, phase, target>>

TimerFires ==
  /\ timer
  /\ timer' = FALSE
  /\ IF sub \in {"closed", "interrupted"}
     THEN /\ waiting' = {}
          /\ UNCHANGED <<sub, reply, phase, target>>
     ELSE /\ sub' = "running"
          /\ TurnStarts
  /\ UNCHANGED <<proc, active, aborted, req>>

\* Text or a tool event: the reply is written as streaming.
ReplyGrows ==
  /\ phase = "generating"
  /\ Exists(target)
  /\ reply' = [reply EXCEPT ![target] = "streaming"]
  /\ UNCHANGED <<proc, sub, active, memory>>

\* executeSubagent failed: provider, hook, tool, abort, or a write to a
\* deleted message.
GenerationFails ==
  /\ phase = "generating"
  /\ IF Exists(target)
     THEN /\ reply' = [reply EXCEPT ![target] = IF aborted THEN "stopped" ELSE "error"]
          /\ ExecutionEnds(IF aborted THEN "interrupted" ELSE "error", 0)
     ELSE Rejects

\* Fault: the waiters are notified when the reply is complete.
GenerationReturnsNotifies ==
  /\ phase = "generating"
  /\ IF Exists(target)
     THEN /\ reply' = [reply EXCEPT ![target] = "completed"]
          /\ phase' = "compacting"
          /\ waiting' = {}
          /\ UNCHANGED <<proc, sub, active, timer, target, aborted, req>>
     ELSE Rejects

\* executeSubagent returned; the abort signal is not looked at any more.
GenerationReturns ==
  /\ phase = "generating"
  /\ IF Exists(target)
     THEN /\ reply' = [reply EXCEPT ![target] = "completed"]
          /\ phase' = "compacting"
          /\ UNCHANGED <<proc, sub, active, timer, target, aborted, waiting, req>>
     ELSE Rejects

\* The compaction after the response is over, and no continuation is due.
CompactionDone ==
  /\ phase = "compacting"
  /\ phase' = "pruning"
  /\ UNCHANGED <<proc, disk, timer, target, aborted, waiting, req>>

\* queueSubagentAutoCompactionContinuation: the same execution goes on with a
\* new reply.
Continues ==
  /\ phase = "compacting"
  /\ \E m \in Replies : IsNext(m) /\ Generate(m, reply) /\ active' = m
  /\ sub' = "running"
  /\ UNCHANGED <<proc, timer, aborted, waiting, req>>

\* pruneToolOutputs is over: the turn is complete.
PruneDone ==
  /\ phase = "pruning"
  /\ ExecutionEnds("completed", 0)
  /\ UNCHANGED reply

------------------------------------------------------------------------------
(* Callers.                                                                *)

\* waitSubagent on an unsettled subagent; otherwise it returns at once.
Wait(w) ==
  /\ proc = "up"
  /\ sub \in Unsettled
  /\ waiting' = waiting \union {w}
  /\ Schedule
  /\ UNCHANGED <<proc, disk, phase, target, aborted, req>>

\* The wait's timeoutMs is over first.
WaitTimesOut(w) ==
  /\ w \in waiting
  /\ waiting' = waiting \ {w}
  /\ UNCHANGED <<proc, disk, timer, phase, target, aborted, req>>

Free(r) == proc = "up" /\ sub # "none" /\ req[r] = Idle

\* interruptSubagent and closeSubagent while an execution is active.
AbortExecution(r, stage) ==
  /\ Free(r)
  /\ phase # "idle"
  /\ aborted' = TRUE
  /\ req' = [req EXCEPT ![r].at = stage]
  /\ UNCHANGED <<proc, disk, timer, phase, target, waiting>>

\* Fault: the timer is not cleared.
InterruptQueuedKeepsTimer(r) ==
  /\ Free(r)
  /\ phase = "idle"
  /\ \E m \in 0..MaxReplies :
       /\ IsActiveReply(m)
       /\ IF InterruptThrows(m)
          THEN UNCHANGED <<disk, waiting>>
          ELSE /\ reply' = Stopped(m)
               /\ sub' = "interrupted"
               /\ active' = 0
               /\ waiting' = {}
  /\ UNCHANGED <<proc, timer, phase, target, aborted, req>>

(***************************************************************************)
(* interruptSubagent without an execution, in whatever status: the timer   *)
(* is cleared, then the reply in progress is stopped, then the status is   *)
(* written.  If that reply was deleted the second step throws.             *)
(***************************************************************************)
InterruptQueued(r) ==
  /\ Free(r)
  /\ phase = "idle"
  /\ timer' = FALSE
  /\ \E m \in 0..MaxReplies :
       /\ IsActiveReply(m)
       /\ IF InterruptThrows(m)
          THEN UNCHANGED <<disk, waiting>>
          ELSE /\ reply' = Stopped(m)
               /\ sub' = "interrupted"
               /\ active' = 0
               /\ waiting' = {}
  /\ UNCHANGED <<proc, phase, target, aborted, req>>

\* Fault: a close only writes the status.
CloseQueuedOnlyStatus(r) ==
  /\ Free(r)
  /\ phase = "idle"
  /\ sub' = "closed"
  /\ active' = 0
  /\ waiting' = {}
  /\ UNCHANGED <<proc, reply, timer, phase, target, aborted, req>>

\* closeSubagent without an execution; an interrupt that throws is ignored.
CloseQueued(r) ==
  /\ Free(r)
  /\ phase = "idle"
  /\ timer' = FALSE
  /\ \E m \in 0..MaxReplies :
       /\ IsActiveReply(m)
       /\ reply' = IF InterruptThrows(m) THEN reply ELSE Stopped(m)
  /\ sub' = "closed"
  /\ active' = 0
  /\ waiting' = {}
  /\ UNCHANGED <<proc, phase, target, aborted, req>>

\* The HTTP PATCH and DELETE of a message: there is no conversation task to
\* stop, the hooks start.
EditMessage(r, m, stage) ==
  /\ EditsHistory
  /\ Free(r)
  /\ Exists(m)
  /\ req' = [req EXCEPT ![r] = [at |-> stage, msg |-> m, saved |-> reply[m]]]
  /\ UNCHANGED <<proc, disk, timer, phase, target, aborted, waiting>>

\* The message:updated hooks returned: the message is written with status s,
\* that of before the hooks unless a hook returned another one.
UpdateMessageWrites(r, s) ==
  /\ req[r].at = "updateHooks"
  /\ reply' = IF Exists(req[r].msg) THEN [reply EXCEPT ![req[r].msg] = s] ELSE reply
  /\ req' = [req EXCEPT ![r] = Idle]
  /\ UNCHANGED <<proc, sub, active, timer, phase, target, aborted, waiting>>

DeleteMessageRemoves(r) ==
  /\ req[r].at = "deleteHooks"
  /\ reply' = [reply EXCEPT ![req[r].msg] = "deleted"]
  /\ req' = [req EXCEPT ![r] = Idle]
  /\ UNCHANGED <<proc, sub, active, timer, phase, target, aborted, waiting>>

------------------------------------------------------------------------------
(* Crashes and recovery.                                                   *)

Crash ==
  /\ proc = "up"
  /\ proc' = "down"
  /\ MemoryLost
  /\ UNCHANGED disk

\* A spawn is torn after the conversation, "queued", is on disk: without its
\* reply, or with the reply that nothing records.
TornSpawn ==
  /\ sub = "none"
  /\ sub' = "queued"
  /\ \/ UNCHANGED reply
     \/ \E m \in Replies : IsNext(m) /\ reply' = [reply EXCEPT ![m] = "pending"]

\* A next input, or a continuation: the new reply is on disk, nothing records it.
TornAppend ==
  /\ sub \in Ready \/ phase = "compacting"
  /\ \E m \in Replies : IsNext(m) /\ reply' = [reply EXCEPT ![m] = "pending"]
  /\ UNCHANGED sub

\* The reply's end is on disk, the status is not: a failed turn, or an interrupt.
TornEnd ==
  /\ \/ /\ phase = "generating"
        /\ Exists(target)
        /\ reply' = [reply EXCEPT ![target] = IF aborted THEN "stopped" ELSE "error"]
     \/ /\ sub # "none"
        /\ phase = "idle"
        /\ \E m \in Replies : IsActiveReply(m) /\ Exists(m) /\ reply' = Stopped(m)
  /\ UNCHANGED sub

CrashBetweenWrites ==
  /\ TearsWrites
  /\ proc = "up"
  /\ TornSpawn \/ TornAppend \/ TornEnd
  /\ proc' = "down"
  /\ MemoryLost
  /\ UNCHANGED active

\* Fault: queued subagents are left alone.
BootForgetsQueued ==
  /\ proc = "down"
  /\ \E m \in 0..MaxReplies :
       /\ IsActiveReply(m)
       /\ IF sub = "running" /\ InterruptThrows(m)
          THEN UNCHANGED <<proc, disk>>
          ELSE /\ reply'  = IF sub = "running" THEN Stopped(m) ELSE reply
               /\ sub'    = IF sub = "running" THEN "interrupted" ELSE sub
               /\ active' = IF sub = "running" THEN 0 ELSE active
               /\ proc'   = "up"
  /\ UNCHANGED memory

(***************************************************************************)
(* onModuleInit: resumePendingSubagents.  A turn that was running is       *)
(* written as interrupted, a queued one is scheduled.  If the running      *)
(* turn's reply was deleted the write throws and the server does not come  *)
(* up.                                                                     *)
(***************************************************************************)
Boot ==
  /\ proc = "down"
  /\ \E m \in 0..MaxReplies :
       /\ IsActiveReply(m)
       /\ IF sub = "running" /\ InterruptThrows(m)
          THEN UNCHANGED <<proc, disk, timer>>
          ELSE /\ reply'  = IF sub = "running" THEN Stopped(m) ELSE reply
               /\ sub'    = IF sub = "running" THEN "interrupted" ELSE sub
               /\ active' = IF sub = "running" THEN 0 ELSE active
               /\ timer'  = (sub = "queued")
               /\ proc'   = "up"
  /\ UNCHANGED <<phase, target, aborted, waiting, req>>

\* What carries a turn to its end.
TurnStep ==
  \/ TimerFires
  \/ GenerationFails
  \/ GenerationReturns
  \/ CompactionDone
  \/ Continues
  \/ PruneDone

CallerStep(r) ==
  \/ AbortExecution(r, "interrupting")
  \/ AbortExecution(r, "closing")
  \/ InterruptQueued(r)
  \/ CloseQueued(r)
  \/ \E m \in Replies : EditMessage(r, m, "updateHooks")
  \/ \E m \in Replies : EditMessage(r, m, "deleteHooks")
  \/ \E s \in {req[r].saved} \union HookStatuses : UpdateMessageWrites(r, s)
  \/ DeleteMessageRemoves(r)

Next ==
  \/ Spawn
  \/ SendInput
  \/ TurnStep
  \/ ReplyGrows
  \/ \E w \in Waiters : Wait(w) \/ WaitTimesOut(w)
  \/ \E r \in Callers : CallerStep(r)
  \/ Crash
  \/ CrashBetweenWrites
  \/ Boot

Spec == Init /\ [][Next]_vars
===============================================================================
