------------------------ MODULE ConversationTaskProofs ------------------------
(***************************************************************************)
(* Proofs about ConversationTask, for every number of messages, handles,   *)
(* requests and retries: the inductive invariant IInv and what follows     *)
(* from it, the refinement of ResponseOwnership, the promises that need    *)
(* disciplined clients (CalmInv), and why a task comes to its end (Fuel).  *)
(***************************************************************************)
EXTENDS ConversationTaskProps, TLAPS

(***************************************************************************)
(* What the invariants need of the phases of tasks and requests.           *)
(***************************************************************************)
HandlePhases ==
  /\ \A h \in Handles : ~settled[h] => pc[h] # "free"
  /\ \A h \in Handles : pc[h] = "sending" => finished[h]

RequestPhases ==
  \A r \in Requests :
    /\ req[r].at \notin {"idle", "sendHooks"} => req[r].msg \in Messages
    /\ req[r].at = "updateHooks" => req[r].saved \notin Absent

OwnedIsStored == \A m \in Messages : tasks[m] # NoHandle => status[m] # "none"

CrashedIsEmpty ==
  proc = "crashed" =>
    /\ \A h \in Handles : pc[h] = "free"
    /\ \A r \in Requests : req[r] = Idle

IInv ==
  /\ TypeOK
  /\ HandlePhases
  /\ RequestPhases
  /\ OwnedIsStored
  /\ CrashedIsEmpty
  /\ TableMatchesHandles
  /\ FinishAnnounced
  /\ WaitersAreServed

\* The empty conversation a server starts with satisfies the invariant.
THEOREM InitIInv == Init => IInv
  BY ConstantsAssumption
  DEF Init, IInv, TypeOK, HandlePhases, RequestPhases, OwnedIsStored, CrashedIsEmpty,
      TableMatchesHandles, FinishAnnounced, WaitersAreServed,
      Status, Active, Outcome, Absent, Phases, Hearing, Deaf, Hooks, Stopping, Idle, Request

------------------------------------------------------------------------------
(* The helpers of ConversationTask.                                        *)

(***************************************************************************)
(* Losing the memory, by a crash or by a restart.                          *)
(***************************************************************************)
LEMMA FreshMemoryInv ==
  ASSUME FreshMemory,
         proc' \in {"running", "crashed"},
         status' \in [Messages -> Status]
  PROVE  IInv'
  BY ConstantsAssumption
  DEF FreshMemory, IInv, TypeOK, HandlePhases, RequestPhases, OwnedIsStored, CrashedIsEmpty,
      TableMatchesHandles, FinishAnnounced, WaitersAreServed,
      Status, Active, Outcome, Absent, Phases, Hearing, Deaf, Hooks, Stopping, Idle, Request

(***************************************************************************)
(* AfterStopTask returns a request that is well formed and waits for       *)
(* nothing.                                                                *)
(***************************************************************************)
LEMMA AfterStopTaskOK ==
  ASSUME NEW q \in Request, NEW statusNow \in [Messages -> Status],
         q.at \in Stopping, q.msg \in Messages
  PROVE  /\ AfterStopTask(q, statusNow) \in Request
         /\ AfterStopTask(q, statusNow).at \notin Stopping
         /\ AfterStopTask(q, statusNow).at \notin {"idle", "sendHooks"} =>
              AfterStopTask(q, statusNow).msg \in Messages
         /\ AfterStopTask(q, statusNow).at = "updateHooks" =>
              AfterStopTask(q, statusNow).saved \notin Absent
  BY DEF AfterStopTask, BehindHooks, Request, Stopping, Idle, Status, Active, Outcome, Absent

(***************************************************************************)
(* The end of a handle h that is not settled: its message leaves the table *)
(* and its waiters go on.  What became of the message is statusNow.        *)
(***************************************************************************)
LEMMA FinalizeInv ==
  ASSUME IInv, NEW h \in Handles, ~settled[h], proc = "running",
         NEW statusNow \in [Messages -> Status],
         FinalizeHandle(h, statusNow)
  PROVE  /\ settled' \in [Handles -> BOOLEAN]
         /\ tasks' \in [Messages -> Handles \union {NoHandle}]
         /\ req' \in [Requests -> Request]
         /\ RequestPhases'
         /\ settled' = [settled EXCEPT ![h] = TRUE]
         /\ tasks' = [tasks EXCEPT ![hmsg[h]] = NoHandle]
         /\ \A r \in Requests : req'[r].at \in Stopping => req'[r] = req[r] /\ req[r].task # h
<1> USE DEF IInv
<1>1. settled' = [settled EXCEPT ![h] = TRUE] /\ tasks' = [tasks EXCEPT ![hmsg[h]] = NoHandle]
  BY DEF FinalizeHandle
<1>2. \A r \in Requests : WaitsOn(r, h) => req[r].msg = hmsg[h]
  BY ConstantsAssumption DEF WaitsOn, WaitersAreServed, TableMatchesHandles, RequestPhases, Stopping
<1>3. ASSUME NEW r \in Requests
      PROVE  /\ req'[r] \in Request
             /\ req'[r].at \notin {"idle", "sendHooks"} => req'[r].msg \in Messages
             /\ req'[r].at = "updateHooks" => req'[r].saved \notin Absent
             /\ req'[r].at \in Stopping => req'[r] = req[r] /\ req[r].task # h
  <2>1. CASE WaitsOn(r, h)
    <3>1. req'[r] = AfterStopTask(req[r], statusNow)
      BY <2>1 DEF FinalizeHandle
    <3>2. /\ req[r] \in Request
          /\ req[r].at \in Stopping
          /\ req[r].msg \in Messages
      BY <2>1 DEF WaitsOn, TypeOK, RequestPhases, Stopping
    <3> QED BY <3>1, <3>2, AfterStopTaskOK
  <2>2. CASE ~WaitsOn(r, h)
    <3>1. req'[r] = req[r]
      BY <2>2 DEF FinalizeHandle
    <3> QED BY <3>1, <2>2 DEF WaitsOn, TypeOK, RequestPhases
  <2> QED BY <2>1, <2>2
<1>4. req' \in [Requests -> Request]
  <2>1. req' = [r \in Requests |-> req'[r]]
    BY DEF FinalizeHandle
  <2> QED BY <1>3, <2>1
<1> QED BY <1>1, <1>3, <1>4 DEF TypeOK, RequestPhases

(***************************************************************************)
(* finishTask with an outcome other than "completed".                      *)
(***************************************************************************)
LEMMA FinishTaskInv ==
  ASSUME IInv, NEW h \in Handles, NEW outcome \in {"stopped", "error"},
         pc[h] # "free", FinishTask(h, outcome)
  PROVE  IInv'
<1> USE DEF IInv
<1>1. proc = "running"
  BY DEF CrashedIsEmpty, TypeOK
<1>2. CASE WriteThrows(h)
  BY <1>2, FreshMemoryInv DEF FinishTask, UnhandledRejection, TypeOK
<1>3. CASE ~WriteThrows(h) /\ settled[h]
  <2>1. /\ UNCHANGED <<proc, status, tasks, hmsg, aborted, settled, attempt, req>>
        /\ finished' = finished
        /\ pc' = [pc EXCEPT ![h] = "free"]
    BY <1>3 DEF FinishTask, Snapshot, EmitFinish, FinalizeHandle, TypeOK
  <2> QED
    BY <1>1, <1>3, <2>1
    DEF TypeOK, HandlePhases, RequestPhases, OwnedIsStored, CrashedIsEmpty,
        TableMatchesHandles, FinishAnnounced, WaitersAreServed, Phases
<1>4. CASE ~WriteThrows(h) /\ ~settled[h]
  <2> DEFINE statusNow == [status EXCEPT ![hmsg[h]] = outcome]
  <2>1. /\ status' = statusNow
        /\ finished' = [finished EXCEPT ![h] = TRUE]
        /\ FinalizeHandle(h, statusNow)
        /\ pc' = [pc EXCEPT ![h] = "free"]
        /\ UNCHANGED <<proc, hmsg, aborted, attempt>>
    BY <1>4 DEF FinishTask, Snapshot, EmitFinish, TypeOK
  <2>2. hmsg[h] \in Messages /\ tasks[hmsg[h]] = h
    BY <1>4 DEF TableMatchesHandles
  <2>3. /\ statusNow \in [Messages -> Status]
        /\ statusNow[hmsg[h]] = outcome
        /\ \A m \in Messages : m # hmsg[h] => statusNow[m] = status[m]
    BY <2>2 DEF TypeOK, Status, Outcome
  <2> HIDE DEF statusNow
  <2>4. /\ settled' \in [Handles -> BOOLEAN]
        /\ tasks' \in [Messages -> Handles \union {NoHandle}]
        /\ req' \in [Requests -> Request]
        /\ RequestPhases'
        /\ settled' = [settled EXCEPT ![h] = TRUE]
        /\ tasks' = [tasks EXCEPT ![hmsg[h]] = NoHandle]
        /\ \A r \in Requests : req'[r].at \in Stopping => req'[r] = req[r] /\ req[r].task # h
    BY <1>1, <1>4, <2>1, <2>3, FinalizeInv
  <2>5. TypeOK'
    BY <2>1, <2>3, <2>4 DEF TypeOK, Phases
  <2>6. HandlePhases' /\ OwnedIsStored' /\ CrashedIsEmpty' /\ FinishAnnounced'
    BY <1>1, <2>1, <2>2, <2>3, <2>4
    DEF TypeOK, HandlePhases, OwnedIsStored, CrashedIsEmpty, FinishAnnounced
  <2>7. TableMatchesHandles'
    BY <2>1, <2>2, <2>4 DEF TypeOK, TableMatchesHandles
  <2>8. WaitersAreServed'
    BY <2>1, <2>2, <2>4 DEF TypeOK, WaitersAreServed, RequestPhases, Stopping, TableMatchesHandles
  <2> QED BY <2>4, <2>5, <2>6, <2>7, <2>8
<1> QED BY <1>2, <1>3, <1>4

(***************************************************************************)
(* A snapshot in the middle of a task.                                     *)
(***************************************************************************)
LEMMA ProceedInv ==
  ASSUME IInv, NEW h \in Handles, NEW s \in {"streaming", "completed"}, NEW phase \in Phases,
         pc[h] # "free",
         s = "streaming" => phase = "reading",
         phase \notin {"free", "sending"},
         Proceed(h, s, phase)
  PROVE  IInv'
<1> USE DEF IInv
<1>1. proc = "running"
  BY DEF CrashedIsEmpty, TypeOK
<1>2. CASE WriteThrows(h)
  BY <1>2, FreshMemoryInv DEF Proceed, UnhandledRejection, TypeOK
<1>3. CASE ~WriteThrows(h)
  <2>1. /\ status' = IF settled[h] THEN status ELSE [status EXCEPT ![hmsg[h]] = s]
        /\ pc' = [pc EXCEPT ![h] = phase]
        /\ UNCHANGED <<proc, tasks, hmsg, aborted, settled, finished, attempt, req>>
    BY <1>3 DEF Proceed, Snapshot
  <2>2. TypeOK'
    BY <2>1 DEF TypeOK, Status, Active, Outcome
  <2>3. HandlePhases' /\ RequestPhases' /\ CrashedIsEmpty' /\ FinishAnnounced'
    BY <1>1, <2>1
    DEF TypeOK, HandlePhases, RequestPhases, CrashedIsEmpty, FinishAnnounced
  <2>4. OwnedIsStored'
    BY <2>1 DEF TypeOK, OwnedIsStored
  <2>5. TableMatchesHandles' /\ WaitersAreServed'
    BY <2>1 DEF TableMatchesHandles, WaitersAreServed
  <2> QED BY <2>2, <2>3, <2>4, <2>5
<1> QED BY <1>2, <1>3

(***************************************************************************)
(* A new task h for message m: h was free, the table did not hold m.       *)
(***************************************************************************)
LEMMA StartTaskInv ==
  ASSUME IInv, NEW m \in Messages, NEW h \in Handles,
         tasks[m] = NoHandle,
         status' = [status EXCEPT ![m] = "pending"],
         StartTask(m, h, tasks, pc, settled),
         req' \in [Requests -> Request],
         \A r \in Requests : req'[r] = req[r] \/ req'[r] = Idle,
         proc = "running", UNCHANGED proc
  PROVE  IInv'
<1> USE DEF IInv
<1>1. /\ tasks'    = [tasks EXCEPT ![m] = h]
      /\ hmsg'     = [hmsg EXCEPT ![h] = m]
      /\ pc'       = [pc EXCEPT ![h] = "scheduled"]
      /\ aborted'  = [aborted EXCEPT ![h] = FALSE]
      /\ settled'  = [settled EXCEPT ![h] = FALSE]
      /\ finished' = [finished EXCEPT ![h] = FALSE]
      /\ attempt'  = [attempt EXCEPT ![h] = 0]
  BY DEF StartTask
<1>2. settled[h] /\ \A k \in Messages : tasks[k] # h
  BY ConstantsAssumption DEF StartTask, HandlePhases, TableMatchesHandles
<1>3. TypeOK'
  BY <1>1, ConstantsAssumption DEF TypeOK, Status, Active, Phases
<1>4. HandlePhases' /\ FinishAnnounced'
  BY <1>1, <1>2 DEF TypeOK, HandlePhases, FinishAnnounced
<1>5. RequestPhases' /\ CrashedIsEmpty'
  BY DEF RequestPhases, CrashedIsEmpty, Idle
<1>6. OwnedIsStored'
  BY <1>1 DEF TypeOK, OwnedIsStored
<1>7. TableMatchesHandles'
  BY <1>1, <1>2, ConstantsAssumption DEF TypeOK, TableMatchesHandles
<1>8. WaitersAreServed'
  <2> SUFFICES ASSUME NEW r \in Requests, req'[r].at \in Stopping
               PROVE  /\ req'[r].task = tasks'[req'[r].msg]
                      /\ req'[r].task \in Handles
                      /\ aborted'[req'[r].task]
    BY DEF WaitersAreServed
  <2>1. req'[r] = req[r]
    BY DEF Idle, Stopping
  <2>2. /\ req[r].msg \in Messages
        /\ req[r].task = tasks[req[r].msg]
        /\ req[r].task \in Handles
        /\ aborted[req[r].task]
    BY <2>1 DEF WaitersAreServed, RequestPhases, Stopping
  <2> QED BY <1>1, <1>2, <2>1, <2>2, ConstantsAssumption DEF TypeOK
<1> QED BY <1>3, <1>4, <1>5, <1>6, <1>7, <1>8

(***************************************************************************)
(* A request that writes a status and goes on, and leaves the tasks alone. *)
(***************************************************************************)
LEMMA RequestWriteInv ==
  ASSUME IInv, proc = "running", UNCHANGED <<proc, taskVars>>,
         status' \in [Messages -> Status],
         \A m \in Messages : status'[m] = "none" => status[m] = "none",
         req' \in [Requests -> Request],
         \A r \in Requests :
           \/ req'[r] = req[r]
           \/ /\ req'[r].at \notin Stopping
              /\ req'[r].at \notin {"idle", "sendHooks"} => req'[r].msg \in Messages
              /\ req'[r].at = "updateHooks" => req'[r].saved \notin Absent
  PROVE  IInv'
<1> USE DEF IInv, taskVars
<1>1. TypeOK' /\ HandlePhases' /\ FinishAnnounced' /\ TableMatchesHandles' /\ CrashedIsEmpty'
  BY DEF TypeOK, HandlePhases, FinishAnnounced, TableMatchesHandles, CrashedIsEmpty
<1>2. RequestPhases'
  BY DEF RequestPhases
<1>3. OwnedIsStored'
  BY DEF OwnedIsStored
<1>4. WaitersAreServed'
  BY DEF WaitersAreServed
<1> QED BY <1>1, <1>2, <1>3, <1>4

(***************************************************************************)
(* stopTask up to its wait.                                                *)
(***************************************************************************)
LEMMA BeginStopTaskInv ==
  ASSUME IInv, NEW r \in Requests, NEW m \in Messages, NEW phase \in Stopping,
         Free(r), BeginStopTask(r, m, phase)
  PROVE  IInv'
<1> USE DEF IInv
<1>1. /\ proc = "running"
      /\ tasks[m] \in Handles
      /\ aborted' = [aborted EXCEPT ![tasks[m]] = TRUE]
      /\ req' = [req EXCEPT ![r] = [at |-> phase, msg |-> m, task |-> tasks[m], saved |-> "none"]]
      /\ UNCHANGED <<proc, status, tasks, hmsg, pc, settled, finished, attempt>>
  BY DEF Free, BeginStopTask, TypeOK
<1>2. TypeOK'
  BY <1>1 DEF TypeOK, Request, Stopping, Status, Absent
<1>3. HandlePhases' /\ FinishAnnounced' /\ TableMatchesHandles' /\ CrashedIsEmpty'
      /\ OwnedIsStored'
  BY <1>1
  DEF HandlePhases, FinishAnnounced, TableMatchesHandles, CrashedIsEmpty, OwnedIsStored
<1>4. RequestPhases' /\ WaitersAreServed'
  BY <1>1 DEF TypeOK, RequestPhases, WaitersAreServed, Stopping
<1> QED BY <1>2, <1>3, <1>4

------------------------------------------------------------------------------
(* The steps of a task.                                                    *)

\* The 0 ms timer of a new task leaves the invariant true.
LEMMA RunTaskInv ==
  ASSUME IInv, NEW h \in Handles, RunTask(h)
  PROVE  IInv'
  BY DEF IInv, RunTask, TypeOK, Phases, Deaf, HandlePhases, RequestPhases, OwnedIsStored,
         CrashedIsEmpty, TableMatchesHandles, FinishAnnounced, WaitersAreServed

\* So does the end of a stream, which writes nothing yet.
LEMMA StreamEndsInv ==
  ASSUME IInv, NEW h \in Handles, StreamEnds(h)
  PROVE  IInv'
  BY DEF IInv, StreamEnds, TypeOK, Phases, Deaf, HandlePhases, RequestPhases, OwnedIsStored,
         CrashedIsEmpty, TableMatchesHandles, FinishAnnounced, WaitersAreServed

\* So does the end of a retry delay, which starts the next attempt.
LEMMA RetryDelayOverInv ==
  ASSUME IInv, NEW h \in Handles, RetryDelayOver(h)
  PROVE  IInv'
  BY DEF IInv, RetryDelayOver, TypeOK, Phases, Deaf, HandlePhases, RequestPhases, OwnedIsStored,
         CrashedIsEmpty, TableMatchesHandles, FinishAnnounced, WaitersAreServed

\* So do the steps of a task while it reads: snapshots, and the end by a stop.
LEMMA ReadingInv ==
  ASSUME IInv, NEW h \in Handles,
         StreamReady(h) \/ ReadChunk(h) \/ UsageRead(h) \/ AbortSeen(h)
  PROVE  IInv'
<1>1. pc[h] # "free"
  BY DEF StreamReady, ReadChunk, UsageRead, AbortSeen, Hearing
<1>2. CASE StreamReady(h) \/ ReadChunk(h)
  BY <1>1, <1>2, ProceedInv DEF StreamReady, ReadChunk, Phases, Hearing
<1>3. CASE UsageRead(h)
  BY <1>1, <1>3, ProceedInv, FinishTaskInv DEF UsageRead, Phases, Deaf, Hooks
<1>4. CASE AbortSeen(h)
  BY <1>1, <1>4, FinishTaskInv DEF AbortSeen
<1> QED BY <1>2, <1>3, <1>4

(***************************************************************************)
(* Catch: the end of the task, or one of the MaxRetries retries.           *)
(***************************************************************************)
LEMMA CatchInv ==
  ASSUME IInv, NEW h \in Handles, NEW retryable \in BOOLEAN, Catch(h, retryable)
  PROVE  IInv'
<1> USE DEF IInv
<1>1. pc[h] # "free" /\ proc = "running"
  BY DEF Catch, CrashedIsEmpty, TypeOK
<1>2. CASE aborted[h] \/ ~retryable \/ attempt[h] >= MaxRetries
  BY <1>1, <1>2, FinishTaskInv DEF Catch
<1>3. CASE ~(aborted[h] \/ ~retryable \/ attempt[h] >= MaxRetries) /\ WriteThrows(h)
  BY <1>3, FreshMemoryInv DEF Catch, UnhandledRejection, TypeOK
<1>4. CASE ~(aborted[h] \/ ~retryable \/ attempt[h] >= MaxRetries) /\ ~WriteThrows(h)
  <2>1. /\ status' = IF settled[h] THEN status ELSE [status EXCEPT ![hmsg[h]] = "pending"]
        /\ attempt' = [attempt EXCEPT ![h] = @ + 1]
        /\ attempt[h] < MaxRetries
        /\ pc' = [pc EXCEPT ![h] = "backoff"]
        /\ UNCHANGED <<proc, tasks, hmsg, aborted, settled, finished, req>>
    BY <1>4, ConstantsAssumption DEF Catch, Snapshot, TypeOK
  <2>2. attempt' \in [Handles -> 0..MaxRetries]
    BY <2>1, ConstantsAssumption DEF TypeOK
  <2>3. TypeOK'
    BY <2>1, <2>2 DEF TypeOK, Status, Active, Phases, Hearing
  <2>4. HandlePhases' /\ RequestPhases' /\ CrashedIsEmpty' /\ FinishAnnounced'
    BY <1>1, <2>1 DEF TypeOK, HandlePhases, RequestPhases, CrashedIsEmpty, FinishAnnounced
  <2>5. TableMatchesHandles' /\ WaitersAreServed'
    BY <2>1 DEF TableMatchesHandles, WaitersAreServed
  <2>6. OwnedIsStored'
    BY <1>1, <2>1, ConstantsAssumption
    DEF TypeOK, OwnedIsStored, TableMatchesHandles
  <2> QED BY <2>3, <2>4, <2>5, <2>6
<1> QED BY <1>2, <1>3, <1>4

\* So does the return of onComplete, even for a task that was settled meanwhile.
LEMMA HooksDoneInv ==
  ASSUME IInv, NEW h \in Handles, NEW rewrites \in BOOLEAN, HooksDone(h, rewrites)
  PROVE  IInv'
<1> USE DEF IInv
<1>1. pc[h] = "completing" /\ proc = "running"
  BY DEF HooksDone, CrashedIsEmpty, TypeOK
<1>2. CASE rewrites /\ ~Exists(hmsg[h])
  BY <1>1, <1>2, FinishTaskInv DEF HooksDone
<1>3. CASE ~(rewrites /\ ~Exists(hmsg[h]))
  <2>1. /\ status' = IF rewrites THEN [status EXCEPT ![hmsg[h]] = "completed"] ELSE status
        /\ finished' = IF settled[h] THEN finished ELSE [finished EXCEPT ![h] = TRUE]
        /\ pc' = [pc EXCEPT ![h] = "sending"]
        /\ UNCHANGED <<proc, tasks, hmsg, aborted, settled, attempt, req>>
    BY <1>3 DEF HooksDone, EmitFinish
  <2>2. TypeOK'
    BY <2>1 DEF TypeOK, Status, Outcome, Phases, Deaf, Hooks
  <2>3. HandlePhases' /\ RequestPhases' /\ CrashedIsEmpty' /\ FinishAnnounced'
    BY <1>1, <2>1 DEF TypeOK, HandlePhases, RequestPhases, CrashedIsEmpty, FinishAnnounced
  <2>4. TableMatchesHandles' /\ WaitersAreServed'
    BY <2>1 DEF TableMatchesHandles, WaitersAreServed
  <2>5. OwnedIsStored'
    BY <1>1, <2>1, ConstantsAssumption
    DEF TypeOK, OwnedIsStored, TableMatchesHandles
  <2> QED BY <2>2, <2>3, <2>4, <2>5
<1> QED BY <1>2, <1>3

\* So does the return of onSent, which finalizes the handle.
LEMMA AfterSendInv ==
  ASSUME IInv, NEW h \in Handles, AfterSend(h)
  PROVE  IInv'
<1> USE DEF IInv
<1>1. /\ pc[h] = "sending"
      /\ proc = "running"
      /\ finished[h]
      /\ pc' = [pc EXCEPT ![h] = "free"]
      /\ UNCHANGED <<proc, status, hmsg, aborted, finished, attempt>>
  BY DEF AfterSend, CrashedIsEmpty, HandlePhases, TypeOK
<1>2. CASE settled[h]
  <2>1. UNCHANGED <<settled, tasks, req>>
    BY <1>2 DEF AfterSend, FinalizeHandle
  <2> QED
    BY <1>1, <1>2, <2>1
    DEF TypeOK, HandlePhases, RequestPhases, OwnedIsStored, CrashedIsEmpty,
        TableMatchesHandles, FinishAnnounced, WaitersAreServed, Phases
<1>3. CASE ~settled[h]
  <2>1. hmsg[h] \in Messages /\ tasks[hmsg[h]] = h
    BY <1>3 DEF TableMatchesHandles
  <2>2. FinalizeHandle(h, status)
    BY DEF AfterSend
  <2>3. /\ settled' \in [Handles -> BOOLEAN]
        /\ tasks' \in [Messages -> Handles \union {NoHandle}]
        /\ req' \in [Requests -> Request]
        /\ RequestPhases'
        /\ settled' = [settled EXCEPT ![h] = TRUE]
        /\ tasks' = [tasks EXCEPT ![hmsg[h]] = NoHandle]
        /\ \A r \in Requests : req'[r].at \in Stopping => req'[r] = req[r] /\ req[r].task # h
    BY <1>1, <1>3, <2>2, FinalizeInv DEF TypeOK
  <2>4. TypeOK'
    BY <1>1, <2>3 DEF TypeOK, Phases
  <2>5. HandlePhases' /\ OwnedIsStored' /\ CrashedIsEmpty' /\ FinishAnnounced'
    BY <1>1, <2>1, <2>3
    DEF TypeOK, HandlePhases, OwnedIsStored, CrashedIsEmpty, FinishAnnounced
  <2>6. TableMatchesHandles'
    BY <1>1, <2>1, <2>3 DEF TypeOK, TableMatchesHandles
  <2>7. WaitersAreServed'
    BY <1>1, <2>1, <2>3 DEF TypeOK, WaitersAreServed, RequestPhases, Stopping, TableMatchesHandles
  <2> QED BY <2>3, <2>4, <2>5, <2>6, <2>7
<1> QED BY <1>2, <1>3

(***************************************************************************)
(* The continuation: h ends and h2 starts on the new message m2.           *)
(***************************************************************************)
LEMMA AfterSendContinuesInv ==
  ASSUME IInv, NEW h \in Handles, NEW m2 \in Messages, NEW h2 \in Handles,
         AfterSendContinues(h, m2, h2)
  PROVE  IInv'
<1> USE DEF IInv
<1> DEFINE statusNow == [status EXCEPT ![m2] = "pending"]
           table == IF settled[h] THEN tasks ELSE [tasks EXCEPT ![hmsg[h]] = NoHandle]
<1>1. /\ pc[h] = "sending" /\ finished[h]
      /\ proc = "running" /\ UNCHANGED proc
      /\ status[m2] = "none" /\ tasks[m2] = NoHandle
      /\ pc[h2] = "free" /\ settled[h2] /\ h2 # h
  BY DEF AfterSendContinues, StartTask, CrashedIsEmpty, HandlePhases, OwnedIsStored, TypeOK
<1>2. /\ status'   = statusNow
      /\ tasks'    = [table EXCEPT ![m2] = h2]
      /\ hmsg'     = [hmsg EXCEPT ![h2] = m2]
      /\ pc'       = [pc EXCEPT ![h] = "free", ![h2] = "scheduled"]
      /\ aborted'  = [aborted EXCEPT ![h2] = FALSE]
      /\ settled'  = [settled EXCEPT ![h] = TRUE, ![h2] = FALSE]
      /\ finished' = [finished EXCEPT ![h2] = FALSE]
      /\ attempt'  = [attempt EXCEPT ![h2] = 0]
      /\ req' = [r \in Requests |-> IF ~settled[h] /\ WaitsOn(r, h)
                                    THEN AfterStopTask(req[r], statusNow) ELSE req[r]]
  BY DEF AfterSendContinues, StartTask
<1>3. /\ table \in [Messages -> Handles \union {NoHandle}]
      /\ \A m \in Messages : table[m] = tasks[m] \/ (table[m] = NoHandle /\ tasks[m] = h)
      /\ \A m \in Messages : table[m] # h /\ table[m] # h2
      /\ \A m \in Messages : tasks[m] # h => table[m] = tasks[m]
  BY <1>1, ConstantsAssumption DEF TypeOK, TableMatchesHandles
<1>4. ASSUME NEW r \in Requests
      PROVE  /\ req'[r] \in Request
             /\ req'[r].at \notin {"idle", "sendHooks"} => req'[r].msg \in Messages
             /\ req'[r].at = "updateHooks" => req'[r].saved \notin Absent
             /\ req'[r].at \in Stopping => req'[r] = req[r] /\ req[r].task # h
  <2>1. CASE ~settled[h] /\ WaitsOn(r, h)
    <3>1. req'[r] = AfterStopTask(req[r], statusNow)
      BY <1>2, <2>1
    <3>2. req[r].msg = hmsg[h] /\ hmsg[h] \in Messages
      BY <1>1, <2>1, ConstantsAssumption
      DEF WaitsOn, WaitersAreServed, TableMatchesHandles, RequestPhases, Stopping
    <3>3. statusNow \in [Messages -> Status]
      BY DEF TypeOK, Status, Active
    <3>4. req[r] \in Request /\ req[r].at \in Stopping
      BY <2>1 DEF TypeOK, WaitsOn
    <3> HIDE DEF statusNow
    <3> QED BY <3>1, <3>2, <3>3, <3>4, AfterStopTaskOK
  <2>2. CASE ~(~settled[h] /\ WaitsOn(r, h))
    <3>1. req'[r] = req[r]
      BY <1>2, <2>2
    <3>2. req[r].at \in Stopping => req[r].task # h
      BY <2>2, ConstantsAssumption
      DEF WaitsOn, WaitersAreServed, TableMatchesHandles, RequestPhases, Stopping
    <3> QED BY <3>1, <3>2 DEF TypeOK, RequestPhases
  <2> QED BY <2>1, <2>2
<1>5. req' \in [Requests -> Request]
  BY <1>2, <1>4
<1> HIDE DEF table
<1>6. TypeOK'
  <2>1. status' \in [Messages -> Status] /\ proc' \in {"running", "crashed"}
    BY <1>1, <1>2 DEF TypeOK, Status, Active
  <2>2. tasks' \in [Messages -> Handles \union {NoHandle}]
    BY <1>2, <1>3
  <2>3. /\ hmsg' \in [Handles -> Messages \union {NoMessage}]
        /\ pc' \in [Handles -> Phases]
        /\ aborted' \in [Handles -> BOOLEAN]
        /\ settled' \in [Handles -> BOOLEAN]
        /\ finished' \in [Handles -> BOOLEAN]
    BY <1>2 DEF TypeOK, Phases
  <2>4. attempt' \in [Handles -> 0..MaxRetries]
    BY <1>2, ConstantsAssumption DEF TypeOK
  <2> QED BY <1>5, <2>1, <2>2, <2>3, <2>4 DEF TypeOK
<1>7. HandlePhases' /\ FinishAnnounced' /\ CrashedIsEmpty'
  BY <1>1, <1>2 DEF TypeOK, HandlePhases, FinishAnnounced, CrashedIsEmpty
<1>8. RequestPhases'
  BY <1>4 DEF RequestPhases
<1>9. OwnedIsStored'
  BY <1>1, <1>2, <1>3 DEF TypeOK, OwnedIsStored
<1>10. TableMatchesHandles'
  BY <1>1, <1>2, <1>3, ConstantsAssumption DEF TypeOK, TableMatchesHandles
<1>11. WaitersAreServed'
  <2> SUFFICES ASSUME NEW r \in Requests, req'[r].at \in Stopping
               PROVE  /\ req'[r].task = tasks'[req'[r].msg]
                      /\ req'[r].task \in Handles
                      /\ aborted'[req'[r].task]
    BY DEF WaitersAreServed
  <2>1. /\ req'[r] = req[r]
        /\ req[r].msg \in Messages
        /\ req[r].task = tasks[req[r].msg]
        /\ req[r].task \in Handles /\ req[r].task # h
        /\ aborted[req[r].task]
    BY <1>4 DEF WaitersAreServed, RequestPhases, Stopping
  <2>2. req[r].task # h2 /\ req[r].msg # m2
    BY <1>1, <2>1, ConstantsAssumption DEF TableMatchesHandles
  <2> QED BY <1>2, <1>3, <2>1, <2>2 DEF TypeOK
<1> QED BY <1>6, <1>7, <1>8, <1>9, <1>10, <1>11

\* Every step of a task preserves the invariant.
LEMMA TaskStepInv ==
  ASSUME IInv, NEW h \in Handles, TaskStep(h)
  PROVE  IInv'
<1>1. CASE RunTask(h) \/ StreamEnds(h) \/ RetryDelayOver(h)
  BY <1>1, RunTaskInv, StreamEndsInv, RetryDelayOverInv
<1>2. CASE StreamReady(h) \/ UsageRead(h) \/ AbortSeen(h)
  BY <1>2, ReadingInv
<1>3. CASE \E retryable \in BOOLEAN : Catch(h, retryable)
  BY <1>3, CatchInv
<1>4. CASE \E rewrites \in BOOLEAN : HooksDone(h, rewrites)
  BY <1>4, HooksDoneInv
<1>5. CASE AfterSend(h)
  BY <1>5, AfterSendInv
<1>6. CASE \E m2 \in Messages, h2 \in Handles : AfterSendContinues(h, m2, h2)
  BY <1>6, AfterSendContinuesInv
<1> QED BY <1>1, <1>2, <1>3, <1>4, <1>5, <1>6 DEF TaskStep

------------------------------------------------------------------------------
(* The steps of a request.                                                 *)

\* A send that enters its hooks changes only its own request.
LEMMA SendMessageInv ==
  ASSUME IInv, NEW r \in Requests, SendMessage(r)
  PROVE  IInv'
<1>1. /\ proc = "running" /\ UNCHANGED <<proc, status, taskVars>>
      /\ req' = [req EXCEPT ![r].at = "sendHooks"]
  BY DEF SendMessage, Free
<1>2. req' \in [Requests -> Request] /\ req'[r].at = "sendHooks"
  BY <1>1 DEF IInv, TypeOK, Request
<1>3. \A q \in Requests : q # r => req'[q] = req[q]
  BY <1>1 DEF IInv, TypeOK
<1>4. status' \in [Messages -> Status]
  BY <1>1 DEF IInv, TypeOK
<1> QED BY <1>1, <1>2, <1>3, <1>4, RequestWriteInv DEF Stopping

\* A request that is over is a request record.
LEMMA IdleRequest == Idle \in Request
  BY DEF Idle, Request, Status, Absent

\* The two requests that start a task (send after its hooks, and retry) preserve the invariant.
LEMMA StartingInv ==
  ASSUME IInv, NEW r \in Requests, NEW m \in Messages, NEW h \in Handles,
         SendMessageCreates(r, m, h) \/ RetryMessage(r, m, h)
  PROVE  IInv'
<1>1. CASE SendMessageCreates(r, m, h)
  <2>1. proc = "running" /\ tasks[m] = NoHandle
    BY <1>1 DEF SendMessageCreates, IInv, CrashedIsEmpty, OwnedIsStored, TypeOK, Idle
  <2>2. /\ req' = [req EXCEPT ![r] = Idle]
        /\ StartTask(m, h, tasks, pc, settled)
        /\ status' = [status EXCEPT ![m] = "pending"]
        /\ UNCHANGED proc
    BY <1>1 DEF SendMessageCreates
  <2>3. /\ req' \in [Requests -> Request]
        /\ \A q \in Requests : req'[q] = req[q] \/ req'[q] = Idle
    BY <2>2, IdleRequest DEF IInv, TypeOK
  <2> QED BY <2>1, <2>2, <2>3, StartTaskInv
<1>2. CASE RetryMessage(r, m, h)
  <2>1. /\ proc = "running" /\ UNCHANGED <<proc, req>>
        /\ status' = [status EXCEPT ![m] = "pending"]
        /\ Exists(m)
    BY <1>2 DEF RetryMessage, Free
  <2>2. CASE tasks[m] = NoHandle
    <3>1. StartTask(m, h, tasks, pc, settled)
      BY <1>2, <2>2 DEF RetryMessage
    <3>2. /\ req' \in [Requests -> Request]
          /\ \A q \in Requests : req'[q] = req[q] \/ req'[q] = Idle
      BY <2>1 DEF IInv, TypeOK
    <3> QED BY <2>1, <2>2, <3>1, <3>2, StartTaskInv
  <2>3. CASE tasks[m] # NoHandle
    <3>1. UNCHANGED taskVars
      BY <1>2, <2>3 DEF RetryMessage
    <3>2. /\ status' \in [Messages -> Status]
          /\ \A n \in Messages : status'[n] = "none" => status[n] = "none"
          /\ req' \in [Requests -> Request]
          /\ \A q \in Requests : req'[q] = req[q]
      BY <2>1 DEF IInv, TypeOK, Status, Active
    <3> QED BY <2>1, <3>1, <3>2, RequestWriteInv
  <2> QED BY <2>2, <2>3
<1> QED BY <1>1, <1>2

\* A stop, of a live task or of a reply without one, preserves the invariant.
LEMMA StopMessageInv ==
  ASSUME IInv, NEW r \in Requests, NEW m \in Messages, StopMessage(r, m)
  PROVE  IInv'
<1>1. CASE BeginStopTask(r, m, "stopping")
  BY <1>1, BeginStopTaskInv DEF StopMessage, Stopping
<1>2. CASE ~BeginStopTask(r, m, "stopping")
  <2>1. /\ proc = "running" /\ UNCHANGED <<proc, taskVars, req>>
        /\ status' = [status EXCEPT ![m] = "stopped"]
    BY <1>2 DEF StopMessage, Free
  <2>2. /\ status' \in [Messages -> Status]
        /\ \A n \in Messages : status'[n] = "none" => status[n] = "none"
        /\ req' \in [Requests -> Request]
        /\ \A q \in Requests : req'[q] = req[q]
    BY <2>1 DEF IInv, TypeOK, Status, Outcome
  <2> QED BY <2>1, <2>2, RequestWriteInv
<1> QED BY <1>1, <1>2

\* An edit or a delete, which stops the task first, preserves the invariant.
LEMMA EditMessageInv ==
  ASSUME IInv, NEW r \in Requests, NEW m \in Messages, NEW stopping \in Stopping,
         NEW hooks \in {"updateHooks", "deleteHooks"},
         EditMessage(r, m, stopping, hooks)
  PROVE  IInv'
<1>1. CASE BeginStopTask(r, m, stopping)
  BY <1>1, BeginStopTaskInv DEF EditMessage
<1>2. CASE ~BeginStopTask(r, m, stopping)
  <2> DEFINE q == BehindHooks(hooks, m, status[m])
  <2>1. /\ proc = "running" /\ UNCHANGED <<proc, status, taskVars>>
        /\ tasks[m] = NoHandle /\ Exists(m)
        /\ req' = [req EXCEPT ![r] = q]
    BY <1>2 DEF EditMessage, Free
  <2>2. q.at = hooks /\ q.msg = m /\ (q.at = "updateHooks" => q.saved \notin Absent)
    BY <2>1 DEF BehindHooks, Exists
  <2>3. q \in Request
    BY DEF BehindHooks, IInv, TypeOK, Request, Status, Absent
  <2> HIDE DEF q
  <2>4. /\ req' \in [Requests -> Request]
        /\ req'[r] = q
        /\ \A k \in Requests : k # r => req'[k] = req[k]
        /\ status' \in [Messages -> Status]
    BY <2>1, <2>3 DEF IInv, TypeOK
  <2> QED BY <2>1, <2>2, <2>4, RequestWriteInv DEF Stopping
<1> QED BY <1>1, <1>2

(***************************************************************************)
(* forceStopTask.                                                          *)
(***************************************************************************)
LEMMA GraceExpiresInv ==
  ASSUME IInv, NEW r \in Requests, GraceExpires(r)
  PROVE  IInv'
<1> USE DEF IInv
<1> DEFINE h == req[r].task
           statusNow == [status EXCEPT ![hmsg[h]] = "stopped"]
<1>1. /\ proc = "running" /\ UNCHANGED proc
      /\ h \in Handles
      /\ req[r].msg \in Messages
      /\ ~settled[h] /\ hmsg[h] \in Messages /\ tasks[hmsg[h]] = h
  BY ConstantsAssumption
  DEF GraceExpires, CrashedIsEmpty, TypeOK, WaitersAreServed, RequestPhases, TableMatchesHandles,
      Stopping, Idle
<1>2. CASE ~Exists(hmsg[h])
  <2>1. /\ req' = [req EXCEPT ![r] = Idle]
        /\ UNCHANGED <<status, taskVars>>
    BY <1>2 DEF GraceExpires
  <2>2. /\ req' \in [Requests -> Request]
        /\ req'[r] = Idle
        /\ \A k \in Requests : k # r => req'[k] = req[k]
        /\ status' \in [Messages -> Status]
    BY <2>1, IdleRequest DEF TypeOK
  <2> QED BY <1>1, <2>1, <2>2, RequestWriteInv DEF Stopping, Idle
<1>3. CASE Exists(hmsg[h])
  <2>1. /\ status' = statusNow
        /\ finished' = [finished EXCEPT ![h] = TRUE]
        /\ FinalizeHandle(h, statusNow)
        /\ UNCHANGED <<hmsg, pc, aborted, attempt>>
    BY <1>1, <1>3 DEF GraceExpires, EmitFinish
  <2>2. /\ statusNow \in [Messages -> Status]
        /\ statusNow[hmsg[h]] = "stopped"
        /\ \A m \in Messages : m # hmsg[h] => statusNow[m] = status[m]
    BY <1>1 DEF TypeOK, Status, Outcome
  <2> HIDE DEF statusNow, h
  <2>3. /\ settled' \in [Handles -> BOOLEAN]
        /\ tasks' \in [Messages -> Handles \union {NoHandle}]
        /\ req' \in [Requests -> Request]
        /\ RequestPhases'
        /\ settled' = [settled EXCEPT ![h] = TRUE]
        /\ tasks' = [tasks EXCEPT ![hmsg[h]] = NoHandle]
        /\ \A k \in Requests : req'[k].at \in Stopping => req'[k] = req[k] /\ req[k].task # h
    BY <1>1, <2>1, <2>2, FinalizeInv
  <2>4. TypeOK'
    BY <1>1, <2>1, <2>2, <2>3 DEF TypeOK
  <2>5. HandlePhases' /\ OwnedIsStored' /\ CrashedIsEmpty' /\ FinishAnnounced'
    BY <1>1, <2>1, <2>2, <2>3
    DEF TypeOK, HandlePhases, OwnedIsStored, CrashedIsEmpty, FinishAnnounced
  <2>6. TableMatchesHandles'
    BY <1>1, <2>1, <2>3 DEF TypeOK, TableMatchesHandles
  <2>7. WaitersAreServed'
    BY <1>1, <2>1, <2>3 DEF TypeOK, WaitersAreServed, RequestPhases, Stopping, TableMatchesHandles
  <2> QED BY <2>3, <2>4, <2>5, <2>6, <2>7
<1> QED BY <1>2, <1>3

\* What a hook returns is the status of a stored message.
LEMMA HookStatusStored == HookStatuses \subseteq Status \ Absent
  BY ConstantsAssumption DEF Stored, Status, Active, Outcome, Absent

\* The writes at the end of an edit and of a delete preserve the invariant.
LEMMA WritingInv ==
  ASSUME IInv, NEW r \in Requests,
         \/ \E s \in {req[r].saved} \union HookStatuses : UpdateMessageWrites(r, s)
         \/ DeleteMessageRemoves(r)
  PROVE  IInv'
<1>1. /\ proc = "running" /\ UNCHANGED <<proc, taskVars>>
      /\ req' = [req EXCEPT ![r] = Idle]
      /\ req[r].msg \in Messages
  BY DEF UpdateMessageWrites, DeleteMessageRemoves, IInv, CrashedIsEmpty, RequestPhases, TypeOK, Idle
<1>2. /\ req' \in [Requests -> Request]
      /\ req'[r] = Idle
      /\ \A k \in Requests : k # r => req'[k] = req[k]
  BY <1>1, IdleRequest DEF IInv, TypeOK
<1>3. /\ status' \in [Messages -> Status]
      /\ \A m \in Messages : status'[m] = "none" => status[m] = "none"
  <2>1. ASSUME NEW s \in {req[r].saved} \union HookStatuses, UpdateMessageWrites(r, s)
        PROVE  /\ status' \in [Messages -> Status]
               /\ \A m \in Messages : status'[m] = "none" => status[m] = "none"
    <3>1. s \in Status \ Absent
      BY <2>1, HookStatusStored DEF UpdateMessageWrites, IInv, RequestPhases, TypeOK, Request
    <3> QED BY <1>1, <2>1, <3>1 DEF UpdateMessageWrites, IInv, TypeOK, Absent
  <2>2. CASE DeleteMessageRemoves(r)
    BY <1>1, <2>2 DEF DeleteMessageRemoves, IInv, TypeOK, Status, Absent
  <2> QED BY <2>1, <2>2
<1> QED BY <1>1, <1>2, <1>3, RequestWriteInv DEF Stopping, Idle

\* Every step of a request preserves the invariant.
LEMMA RequestStepInv ==
  ASSUME IInv, NEW r \in Requests, RequestStep(r)
  PROVE  IInv'
<1>1. CASE SendMessage(r)
  BY <1>1, SendMessageInv
<1>2. CASE \E m \in Messages, h \in Handles : SendMessageCreates(r, m, h) \/ RetryMessage(r, m, h)
  BY <1>2, StartingInv
<1>3. CASE \E m \in Messages : StopMessage(r, m)
  BY <1>3, StopMessageInv
<1>4. CASE \E m \in Messages : UpdateMessage(r, m) \/ DeleteMessage(r, m)
  BY <1>4, EditMessageInv DEF UpdateMessage, DeleteMessage, Stopping
<1>5. CASE GraceExpires(r)
  BY <1>5, GraceExpiresInv
<1>6. CASE \/ \E s \in {req[r].saved} \union HookStatuses : UpdateMessageWrites(r, s)
           \/ DeleteMessageRemoves(r)
  BY <1>6, WritingInv
<1> QED BY <1>1, <1>2, <1>3, <1>4, <1>5, <1>6 DEF RequestStep

\* A crash with the repair at the next boot restores the invariant.
LEMMA RestartInv ==
  ASSUME IInv, Restart
  PROVE  IInv'
<1>1. /\ FreshMemory
      /\ proc' = "running"
      /\ status' = [m \in Messages |-> IF status[m] \in Active THEN "stopped" ELSE status[m]]
  BY DEF Restart
<1>2. status' \in [Messages -> Status]
  BY <1>1 DEF IInv, TypeOK, Status, Active, Outcome
<1> QED BY <1>1, <1>2, FreshMemoryInv

------------------------------------------------------------------------------
(* The invariant is inductive, and what follows from it.                   *)

(***************************************************************************)
(* Every step of the server, a stutter included, preserves the invariant.  *)
(***************************************************************************)
THEOREM StepIInv == IInv /\ [Next]_vars => IInv'
<1> SUFFICES ASSUME IInv, [Next]_vars PROVE IInv'
  OBVIOUS
<1>1. CASE \E h \in Handles : TaskStep(h) \/ ReadChunk(h)
  BY <1>1, TaskStepInv, ReadingInv
<1>2. CASE \E r \in Requests : RequestStep(r)
  BY <1>2, RequestStepInv
<1>3. CASE Restart
  BY <1>3, RestartInv
<1>4. CASE UNCHANGED vars
  BY <1>4
  DEF vars, taskVars, IInv, TypeOK, HandlePhases, RequestPhases, OwnedIsStored, CrashedIsEmpty,
      TableMatchesHandles, FinishAnnounced, WaitersAreServed
<1> QED BY <1>1, <1>2, <1>3, <1>4 DEF Next

(***************************************************************************)
(* The inductive invariant holds in every state the server can reach.      *)
(***************************************************************************)
THEOREM SpecIInv == Spec => []IInv
  BY InitIInv, StepIInv, PTL DEF Spec

(***************************************************************************)
(* Every variable keeps its type; in particular runTask never counts more  *)
(* retries than chatAutoRetry allows.                                      *)
(***************************************************************************)
THEOREM TypeCorrect == Spec => []TypeOK
<1>1. IInv => TypeOK
  BY DEF IInv
<1> QED BY <1>1, SpecIInv, PTL

(***************************************************************************)
(* startTask, finalizeHandle and forceStopTask keep the task table and the *)
(* settled flags in agreement.                                             *)
(***************************************************************************)
THEOREM TableAgrees == Spec => []TableMatchesHandles
<1>1. IInv => TableMatchesHandles
  BY DEF IInv
<1> QED BY <1>1, SpecIInv, PTL

(***************************************************************************)
(* Whatever ends a task, its listeners got "finish" before they were cut   *)
(* off, and stopTask only ever waits for the live task of the message it   *)
(* stops.                                                                  *)
(***************************************************************************)
THEOREM NobodyWaits == Spec => []NobodyWaitsInVain
<1>1. IInv => NobodyWaitsInVain
  BY DEF IInv, NobodyWaitsInVain
<1> QED BY <1>1, SpecIInv, PTL

(***************************************************************************)
(* A task that was force-stopped and whose provider answers late writes    *)
(* nothing.                                                                *)
(***************************************************************************)
THEOREM LateAnswersIgnored == Spec => LateProviderAnswerIgnored
<1> DEFINE Ignored == \A h \in Handles :
             settled[h] /\ pc[h] \notin Hooks /\ (TaskStep(h) \/ ReadChunk(h)) => status' = status
<1>1. ASSUME NEW h \in Handles, NEW outcome, settled[h], FinishTask(h, outcome)
      PROVE  status' = status
  BY <1>1 DEF FinishTask, UnhandledRejection, Snapshot
<1>2. ASSUME NEW h \in Handles, NEW s, NEW phase, settled[h], Proceed(h, s, phase)
      PROVE  status' = status
  BY <1>2 DEF Proceed, UnhandledRejection, Snapshot
<1>3. ASSUME NEW h \in Handles, NEW retryable \in BOOLEAN, settled[h], Catch(h, retryable)
      PROVE  status' = status
  BY <1>1, <1>3 DEF Catch, UnhandledRejection, Snapshot
<1>4. Ignored
  <2> SUFFICES ASSUME NEW h \in Handles, settled[h], pc[h] \notin Hooks,
                      TaskStep(h) \/ ReadChunk(h)
               PROVE  status' = status
    OBVIOUS
  <2>1. CASE RunTask(h) \/ StreamEnds(h) \/ RetryDelayOver(h)
    BY <2>1 DEF RunTask, StreamEnds, RetryDelayOver
  <2>2. CASE StreamReady(h) \/ ReadChunk(h) \/ UsageRead(h) \/ AbortSeen(h)
    BY <1>1, <1>2, <2>2 DEF StreamReady, ReadChunk, UsageRead, AbortSeen
  <2>3. CASE \E retryable \in BOOLEAN : Catch(h, retryable)
    BY <1>3, <2>3
  <2> QED
    BY <2>1, <2>2, <2>3 DEF TaskStep, HooksDone, AfterSend, AfterSendContinues, Hooks
<1>5. Ignored => [Ignored]_vars
  OBVIOUS
<1> HIDE DEF Ignored
<1>6. [Next]_vars => [Ignored]_vars
  BY <1>4, <1>5
<1>7. Spec => [][Ignored]_vars
  BY <1>6, PTL DEF Spec
<1> QED BY <1>7 DEF LateProviderAnswerIgnored, Ignored

------------------------------------------------------------------------------
(* The task table implements ResponseOwnership.                            *)

ownershipVars == <<tasks, Shown, Feigned>>

\* What every step but the end of an edit does: it feigns no reply.
OwnersStep == (Ownership!Next \/ UNCHANGED ownershipVars) /\ Feigned' \subseteq Feigned

\* A crash, or an unhandled rejection, maps to Reset: no owner, nothing shown.
LEMMA ResetStep ==
  ASSUME FreshMemory, proc' = "running" => \A m \in Messages : status'[m] # "streaming",
         proc' \in {"running", "crashed"}
  PROVE  OwnersStep
<1>1. Shown' = {} /\ Feigned' = {}
  BY DEF Shown, Feigned
<1> QED BY <1>1 DEF OwnersStep, FreshMemory, Ownership!Next, Ownership!Reset

\* The task of handle h alone goes on, or no task: the work on the other
\* messages, and on all of them if h is settled, is what it was.
LEMMA OtherWork ==
  ASSUME IInv, NEW h \in Handles,
         UNCHANGED pc \/ \E phase \in Phases : pc' = [pc EXCEPT ![h] = phase],
         \A m \in Messages : m # hmsg[h] \/ settled[h] => tasks'[m] = tasks[m]
  PROVE  \A m \in Messages : m # hmsg[h] \/ settled[h] => (AtWork(m)' <=> AtWork(m))
<1> SUFFICES ASSUME NEW m \in Messages, m # hmsg[h] \/ settled[h]
             PROVE  AtWork(m)' <=> AtWork(m)
  OBVIOUS
<1>1. tasks'[m] = tasks[m] /\ tasks[m] # h
  BY ConstantsAssumption DEF IInv, TableMatchesHandles
<1>2. tasks[m] # NoHandle => tasks[m] \in Handles /\ pc'[tasks[m]] = pc[tasks[m]]
  BY <1>1 DEF IInv, TypeOK
<1> QED BY <1>1, <1>2 DEF AtWork

\* A task that goes on, writes nothing, and neither begins nor ends to read.
LEMMA PhaseStep ==
  ASSUME IInv, NEW h \in Handles, NEW phase \in Phases,
         settled[h] \/ (phase \in {"reading", "usage"} <=> pc[h] \in {"reading", "usage"}),
         pc' = [pc EXCEPT ![h] = phase], UNCHANGED <<proc, status, tasks>>
  PROVE  OwnersStep
<1>1. \A m \in Messages : m # hmsg[h] \/ settled[h] => (AtWork(m)' <=> AtWork(m))
  BY OtherWork
<1>2. ASSUME NEW m \in Messages, m = hmsg[h], ~settled[h]
      PROVE  AtWork(m)' <=> AtWork(m)
  BY <1>2 DEF AtWork, IInv, TypeOK, TableMatchesHandles
<1>3. UNCHANGED <<Shown, Feigned>>
  BY <1>1, <1>2 DEF Shown, Feigned
<1> QED BY <1>3 DEF OwnersStep, ownershipVars

\* A status other than "streaming" hides the message m and no other one.
LEMMA HideStep ==
  ASSUME IInv, NEW m \in Messages, NEW s \in Status \ {"streaming"},
         status' = [status EXCEPT ![m] = s], UNCHANGED <<proc, tasks>>,
         \A n \in Messages : n # m => (AtWork(n)' <=> AtWork(n))
  PROVE  OwnersStep
<1>1. Shown' = Shown \ {m} /\ Feigned' = Feigned \ {m}
  BY DEF Shown, Feigned, IInv, TypeOK
<1> QED BY <1>1 DEF OwnersStep, Ownership!Next, Ownership!Hide

\* The end of a task that the table holds: it takes back what it has shown.
LEMMA ReleaseStep ==
  ASSUME IInv, NEW h \in Handles, ~settled[h],
         tasks' = [tasks EXCEPT ![hmsg[h]] = NoHandle],
         UNCHANGED pc \/ pc' = [pc EXCEPT ![h] = "free"], UNCHANGED proc,
         status'[hmsg[h]] # "streaming" \/ (pc[h] = "sending" /\ UNCHANGED status),
         \A m \in Messages : m # hmsg[h] => status'[m] = status[m]
  PROVE  OwnersStep
<1>1. PICK m \in Messages : m = hmsg[h] /\ tasks[m] = h /\ h # NoHandle
  BY ConstantsAssumption DEF IInv, TableMatchesHandles
<1>2. tasks' = [tasks EXCEPT ![m] = NoHandle] /\ tasks'[m] = NoHandle
  BY <1>1 DEF IInv, TypeOK
<1>3. ~AtWork(m)' /\ (pc[h] = "sending" => ~AtWork(m))
  BY <1>1, <1>2 DEF AtWork
<1>4. \A n \in Messages : n # m => (AtWork(n)' <=> AtWork(n))
  <2>1. \A n \in Messages : n # m => tasks'[n] = tasks[n]
    BY <1>2 DEF IInv, TypeOK
  <2>2. "free" \in Phases
    BY DEF Phases
  <2> QED BY <1>1, <2>1, <2>2, OtherWork
<1>5. CASE status'[m] # "streaming"
  <2>1. Shown' = Shown \ {m} /\ Feigned' = Feigned \ {m}
    BY <1>1, <1>4, <1>5 DEF Shown, Feigned
  <2> QED BY <1>1, <1>2, <2>1 DEF OwnersStep, Ownership!Next, Ownership!Release
<1>6. CASE pc[h] = "sending" /\ UNCHANGED status
  <2>1. Shown' = Shown \ {m} /\ Feigned' = Feigned
    <3>1. \A n \in Messages : AtWork(n)' <=> AtWork(n)
      BY <1>3, <1>4, <1>6
    <3>2. m \notin Shown
      BY <1>3, <1>6 DEF Shown
    <3> QED BY <1>6, <3>1, <3>2 DEF Shown, Feigned
  <2> QED BY <1>1, <1>2, <2>1 DEF OwnersStep, Ownership!Next, Ownership!Release
<1> QED BY <1>1, <1>5, <1>6

\* The end of a task maps to Release, or to a stutter for a settled handle.
LEMMA FinishTaskRefines ==
  ASSUME IInv, NEW h \in Handles, NEW outcome \in {"stopped", "error"}, FinishTask(h, outcome)
  PROVE  OwnersStep
<1>1. CASE WriteThrows(h)
  BY <1>1, ResetStep DEF FinishTask, UnhandledRejection
<1>2. CASE ~WriteThrows(h) /\ settled[h]
  BY <1>2, PhaseStep DEF FinishTask, Snapshot, FinalizeHandle, Phases
<1>3. CASE ~WriteThrows(h) /\ ~settled[h]
  <2>1. /\ status' = [status EXCEPT ![hmsg[h]] = outcome]
        /\ tasks' = [tasks EXCEPT ![hmsg[h]] = NoHandle]
        /\ pc' = [pc EXCEPT ![h] = "free"]
        /\ UNCHANGED proc
    BY <1>3 DEF FinishTask, Snapshot, FinalizeHandle
  <2>2. hmsg[h] \in Messages
    BY <1>3 DEF IInv, TableMatchesHandles
  <2>3. /\ status'[hmsg[h]] # "streaming"
        /\ \A m \in Messages : m # hmsg[h] => status'[m] = status[m]
    BY <2>1, <2>2 DEF IInv, TypeOK
  <2> QED BY <1>3, <2>1, <2>3, ReleaseStep
<1> QED BY <1>1, <1>2, <1>3

\* A snapshot of a task maps to Show, to Hide or to a stutter.
LEMMA ProceedRefines ==
  ASSUME IInv, NEW h \in Handles, proc = "running",
         NEW s \in Status, NEW phase \in Phases,
         s = "streaming" => phase = "reading",
         Proceed(h, s, phase)
  PROVE  OwnersStep
<1>1. CASE WriteThrows(h)
  BY <1>1, ResetStep DEF Proceed, UnhandledRejection
<1>2. CASE ~WriteThrows(h) /\ settled[h]
  BY <1>2, PhaseStep DEF Proceed, Snapshot
<1>3. CASE ~WriteThrows(h) /\ ~settled[h]
  <2>1. /\ status' = [status EXCEPT ![hmsg[h]] = s]
        /\ pc' = [pc EXCEPT ![h] = phase]
        /\ UNCHANGED <<proc, tasks>>
    BY <1>3 DEF Proceed, Snapshot
  <2>2. hmsg[h] \in Messages /\ tasks[hmsg[h]] = h /\ h # NoHandle
    BY <1>3, ConstantsAssumption DEF IInv, TableMatchesHandles
  <2>3. \A m \in Messages : m # hmsg[h] => (AtWork(m)' <=> AtWork(m))
    BY <2>1, OtherWork
  <2>4. CASE s = "streaming"
    <3>1. AtWork(hmsg[h])'
      <4>1. pc'[h] = "reading" /\ hmsg' = hmsg /\ tasks'[hmsg[h]] = h
        BY <1>3, <2>1, <2>2, <2>4 DEF Proceed, IInv, TypeOK
      <4> QED BY <2>2, <4>1 DEF AtWork
    <3>2. Shown' = Shown \union {hmsg[h]} /\ Feigned' = Feigned \ {hmsg[h]}
      BY <1>3, <2>1, <2>2, <2>3, <2>4, <3>1 DEF Shown, Feigned, IInv, TypeOK, Proceed
    <3> QED BY <2>1, <2>2, <3>2 DEF OwnersStep, Ownership!Next, Ownership!Show
  <2>5. CASE s # "streaming"
    BY <2>1, <2>2, <2>3, <2>5, HideStep
  <2> QED BY <2>4, <2>5
<1> QED BY <1>1, <1>2, <1>3

\* A failure maps to Hide (retried), Release (given up) or a stutter.
LEMMA CatchRefines ==
  ASSUME IInv, NEW h \in Handles, NEW retryable \in BOOLEAN, Catch(h, retryable)
  PROVE  OwnersStep
<1>1. CASE aborted[h] \/ ~retryable \/ attempt[h] >= MaxRetries
  BY <1>1, FinishTaskRefines DEF Catch
<1>2. CASE ~(aborted[h] \/ ~retryable \/ attempt[h] >= MaxRetries)
  <2>1. CASE WriteThrows(h)
    BY <1>2, <2>1, ResetStep DEF Catch, UnhandledRejection
  <2>2. "backoff" \in Phases
    BY DEF Phases, Hearing
  <2>3. CASE ~WriteThrows(h) /\ settled[h]
    BY <1>2, <2>2, <2>3, PhaseStep DEF Catch, Snapshot
  <2>4. CASE ~WriteThrows(h) /\ ~settled[h]
    <3>1. /\ status' = [status EXCEPT ![hmsg[h]] = "pending"]
          /\ pc' = [pc EXCEPT ![h] = "backoff"]
          /\ UNCHANGED <<proc, tasks>>
      BY <1>2, <2>4 DEF Catch, Snapshot
    <3>2. hmsg[h] \in Messages /\ "pending" \in Status \ {"streaming"}
      BY <2>4 DEF IInv, TableMatchesHandles, Status, Active
    <3>3. \A m \in Messages : m # hmsg[h] => (AtWork(m)' <=> AtWork(m))
      BY <2>2, <3>1, OtherWork
    <3> QED BY <3>1, <3>2, <3>3, HideStep
  <2> QED BY <2>1, <2>3, <2>4
<1> QED BY <1>1, <1>2

\* The return of onComplete maps to Hide or to a stutter: it shows nothing as streaming.
LEMMA HooksDoneRefines ==
  ASSUME IInv, NEW h \in Handles, NEW rewrites \in BOOLEAN, HooksDone(h, rewrites)
  PROVE  OwnersStep
<1>1. CASE rewrites /\ ~Exists(hmsg[h])
  BY <1>1, FinishTaskRefines DEF HooksDone
<1>2. pc[h] = "completing" /\ "sending" \in Phases
  BY DEF HooksDone, Phases, Deaf, Hooks
<1>3. CASE rewrites /\ Exists(hmsg[h])
  <2>1. /\ status' = [status EXCEPT ![hmsg[h]] = "completed"]
        /\ pc' = [pc EXCEPT ![h] = "sending"]
        /\ UNCHANGED <<proc, tasks>>
    BY <1>3 DEF HooksDone
  <2>2. CASE hmsg[h] \in Messages
    <3>1. \A m \in Messages : m # hmsg[h] => (AtWork(m)' <=> AtWork(m))
      BY <1>2, <2>1, OtherWork
    <3>2. "completed" \in Status \ {"streaming"}
      BY DEF Status, Outcome
    <3> QED BY <2>1, <2>2, <3>1, <3>2, HideStep
  <2>3. CASE hmsg[h] \notin Messages
    <3>1. UNCHANGED status
      BY <2>1, <2>3 DEF IInv, TypeOK
    <3> QED BY <1>2, <2>1, <3>1, PhaseStep
  <2> QED BY <2>2, <2>3
<1>4. CASE ~rewrites
  BY <1>2, <1>4, PhaseStep DEF HooksDone
<1> QED BY <1>1, <1>3, <1>4

\* The return of onSent maps to Release or to a stutter.
LEMMA AfterSendRefines ==
  ASSUME IInv, NEW h \in Handles, AfterSend(h)
  PROVE  OwnersStep
<1>1. CASE settled[h]
  BY <1>1, PhaseStep DEF AfterSend, FinalizeHandle, Phases
<1>2. CASE ~settled[h]
  BY <1>2, ReleaseStep DEF AfterSend, FinalizeHandle
<1> QED BY <1>1, <1>2

\* A continuation maps to HandOver, or to Acquire when the old task was settled.
LEMMA AfterSendContinuesRefines ==
  ASSUME IInv, NEW h \in Handles, NEW m2 \in Messages, NEW h2 \in Handles,
         AfterSendContinues(h, m2, h2)
  PROVE  OwnersStep
<1>1. /\ pc[h] = "sending" /\ proc = "running" /\ UNCHANGED proc
      /\ status[m2] = "none" /\ tasks[m2] = NoHandle
      /\ pc[h2] = "free" /\ settled[h2]
      /\ status' = [status EXCEPT ![m2] = "pending"]
      /\ tasks' = [IF settled[h] THEN tasks ELSE [tasks EXCEPT ![hmsg[h]] = NoHandle]
                     EXCEPT ![m2] = h2]
      /\ pc' = [pc EXCEPT ![h] = "free", ![h2] = "scheduled"]
  BY DEF AfterSendContinues, StartTask, IInv, CrashedIsEmpty, HandlePhases, OwnedIsStored, TypeOK
<1>2. /\ \A m \in Messages : tasks[m] # h2
      /\ h2 # NoHandle /\ h # NoHandle
  BY <1>1, ConstantsAssumption DEF IInv, TableMatchesHandles
<1>3. ASSUME NEW m \in Messages, m # m2
      PROVE  AtWork(m)' <=> AtWork(m)
  <2>1. CASE tasks[m] = h
    <3>1. tasks'[m] = NoHandle
      BY <1>1, <1>2, <1>3, <2>1 DEF IInv, TableMatchesHandles, TypeOK
    <3> QED BY <1>1, <2>1, <3>1 DEF AtWork
  <2>2. CASE tasks[m] # h
    <3>1. tasks'[m] = tasks[m]
      BY <1>1, <1>2, <1>3, <2>2, ConstantsAssumption DEF IInv, TableMatchesHandles, TypeOK
    <3>2. tasks[m] # NoHandle => tasks[m] \in Handles /\ pc'[tasks[m]] = pc[tasks[m]]
      BY <1>1, <1>2, <2>2 DEF IInv, TypeOK
    <3> QED BY <3>1, <3>2 DEF AtWork
  <2> QED BY <2>1, <2>2
<1>4. UNCHANGED <<Shown, Feigned>> /\ m2 \notin Feigned
  BY <1>1, <1>3 DEF Shown, Feigned, IInv, TypeOK
<1>5. CASE settled[h]
  BY <1>1, <1>2, <1>4, <1>5 DEF OwnersStep, Ownership!Next, Ownership!Acquire
<1>6. CASE ~settled[h]
  <2>1. hmsg[h] \in Messages /\ tasks[hmsg[h]] = h /\ hmsg[h] # m2
    BY <1>1, <1>2, <1>6 DEF IInv, TableMatchesHandles
  <2>2. tasks' = [tasks EXCEPT ![hmsg[h]] = NoHandle, ![m2] = h2]
    BY <1>1, <1>6
  <2>3. hmsg[h] \notin Shown
    BY <1>1, <2>1 DEF Shown, AtWork
  <2>4. Ownership!HandOver(hmsg[h], m2, h2)
    BY <1>1, <1>2, <1>4, <2>1, <2>2, <2>3 DEF Ownership!HandOver
  <2> QED BY <1>4, <2>1, <2>4 DEF OwnersStep, Ownership!Next
<1> QED BY <1>5, <1>6

\* Every step of a task maps to a step of ResponseOwnership or to a stutter.
LEMMA TaskStepRefines ==
  ASSUME IInv, NEW h \in Handles, TaskStep(h) \/ ReadChunk(h)
  PROVE  OwnersStep
<1>1. CASE RunTask(h) \/ StreamEnds(h) \/ RetryDelayOver(h)
  BY <1>1, PhaseStep DEF RunTask, StreamEnds, RetryDelayOver, Phases, Deaf
<1>2. CASE StreamReady(h) \/ ReadChunk(h) \/ UsageRead(h) \/ AbortSeen(h)
  <2>1. proc = "running"
    BY <1>2
    DEF StreamReady, ReadChunk, UsageRead, AbortSeen, IInv, CrashedIsEmpty, TypeOK, Hearing
  <2>2. {"streaming", "completed"} \subseteq Status /\ {"reading", "completing"} \subseteq Phases
    BY DEF Status, Active, Outcome, Phases, Hearing, Deaf, Hooks
  <2> QED
    BY <1>2, <2>1, <2>2, ProceedRefines, FinishTaskRefines
    DEF StreamReady, ReadChunk, UsageRead, AbortSeen
<1>3. CASE \E retryable \in BOOLEAN : Catch(h, retryable)
  BY <1>3, CatchRefines
<1>4. CASE \E rewrites \in BOOLEAN : HooksDone(h, rewrites)
  BY <1>4, HooksDoneRefines
<1>5. CASE AfterSend(h)
  BY <1>5, AfterSendRefines
<1>6. CASE \E m2 \in Messages, h2 \in Handles : AfterSendContinues(h, m2, h2)
  BY <1>6, AfterSendContinuesRefines
<1> QED BY <1>1, <1>2, <1>3, <1>4, <1>5, <1>6 DEF TaskStep

\* A new task for a message that the table does not hold and nobody feigns.
LEMMA AcquireStep ==
  ASSUME IInv, NEW m \in Messages, NEW h \in Handles, tasks[m] = NoHandle,
         status[m] \notin Active,
         status' = [status EXCEPT ![m] = "pending"], proc = "running", UNCHANGED proc,
         StartTask(m, h, tasks, pc, settled)
  PROVE  OwnersStep
<1>1. /\ tasks' = [tasks EXCEPT ![m] = h]
      /\ pc' = [pc EXCEPT ![h] = "scheduled"]
      /\ \A n \in Messages : tasks[n] # h
  BY ConstantsAssumption DEF StartTask, IInv, HandlePhases, TableMatchesHandles
<1>2. ASSUME NEW n \in Messages, n # m
      PROVE  AtWork(n)' <=> AtWork(n)
  <2>1. tasks'[n] = tasks[n] /\ tasks[n] # h
    BY <1>1, <1>2 DEF IInv, TypeOK
  <2>2. tasks[n] # NoHandle => tasks[n] \in Handles /\ pc'[tasks[n]] = pc[tasks[n]]
    BY <1>1, <2>1 DEF IInv, TypeOK
  <2> QED BY <2>1, <2>2 DEF AtWork
<1>3. m \notin Feigned /\ UNCHANGED <<Shown, Feigned>>
  BY <1>2 DEF Shown, Feigned, IInv, TypeOK, Active
<1> QED BY <1>1, <1>3 DEF OwnersStep, Ownership!Next, Ownership!Acquire

\* A request that starts, or goes on without a write.
LEMMA QuietStep ==
  ASSUME UNCHANGED <<proc, status, tasks, pc>>
  PROVE  OwnersStep
  BY DEF OwnersStep, ownershipVars, Shown, Feigned, AtWork

\* The end of an edit maps to Show, to Hide, to Feign or to a stutter.
LEMMA EditRefines ==
  ASSUME IInv, NEW r \in Requests, NEW s \in {req[r].saved} \union HookStatuses,
         UpdateMessageWrites(r, s)
  PROVE  /\ Ownership!Next \/ UNCHANGED ownershipVars
         /\ Feigned' \subseteq Feigned \union {req[r].msg}
         /\ Feigned' \subseteq Feigned \/ s = "streaming"
<1> DEFINE m == req[r].msg
<1>1. /\ m \in Messages /\ s \in Status
      /\ proc = "running" /\ UNCHANGED <<proc, tasks, pc>>
      /\ status' = IF Exists(m) THEN [status EXCEPT ![m] = s] ELSE status
      /\ \A n \in Messages : AtWork(n)' <=> AtWork(n)
  BY HookStatusStored
  DEF UpdateMessageWrites, IInv, RequestPhases, CrashedIsEmpty, TypeOK, Request, Idle, taskVars,
      AtWork
<1> HIDE DEF m
<1>2. CASE ~Exists(m)
  BY <1>1, <1>2, QuietStep DEF OwnersStep
<1>3. CASE Exists(m) /\ s # "streaming"
  BY <1>1, <1>3, HideStep DEF OwnersStep
<1>4. CASE Exists(m) /\ s = "streaming" /\ AtWork(m)
  <2>1. Shown' = Shown \union {m} /\ Feigned' = Feigned \ {m}
    BY <1>1, <1>4 DEF Shown, Feigned, IInv, TypeOK
  <2>2. tasks[m] # NoHandle
    BY <1>4 DEF AtWork
  <2> QED BY <1>1, <2>1, <2>2 DEF Ownership!Next, Ownership!Show
<1>5. CASE Exists(m) /\ s = "streaming" /\ ~AtWork(m)
  <2>1. m \notin Shown /\ Shown' = Shown /\ Feigned' = Feigned \union {m}
    BY <1>1, <1>5 DEF Shown, Feigned, IInv, TypeOK
  <2> QED BY <1>1, <1>5, <2>1 DEF Ownership!Next, Ownership!Feign, m
<1> QED BY <1>2, <1>3, <1>4, <1>5

\* Every other step of a request maps to a step of ResponseOwnership or to a stutter.
LEMMA RequestStepRefines ==
  ASSUME IInv, NEW r \in Requests, RequestStep(r),
         ~\E s \in {req[r].saved} \union HookStatuses : UpdateMessageWrites(r, s)
  PROVE  OwnersStep
<1>1. CASE SendMessage(r)
  BY <1>1, QuietStep DEF SendMessage, taskVars
<1>2. ASSUME NEW m \in Messages, NEW h \in Handles, SendMessageCreates(r, m, h)
      PROVE  OwnersStep
  <2>1. proc = "running" /\ tasks[m] = NoHandle
    BY <1>2 DEF SendMessageCreates, IInv, CrashedIsEmpty, OwnedIsStored, TypeOK, Idle
  <2> QED BY <1>2, <2>1, AcquireStep DEF SendMessageCreates, Active
<1>3. ASSUME NEW m \in Messages, NEW h \in Handles, RetryMessage(r, m, h)
      PROVE  OwnersStep
  <2>1. CASE tasks[m] = NoHandle
    BY <1>3, <2>1, AcquireStep DEF RetryMessage, Free, SomeActive
  <2>2. CASE tasks[m] # NoHandle
    <3>1. \A n \in Messages : AtWork(n)' <=> AtWork(n)
      BY <1>3, <2>2 DEF RetryMessage, taskVars, AtWork
    <3> QED BY <1>3, <2>2, <3>1, HideStep DEF RetryMessage, taskVars, Status, Active
  <2> QED BY <2>1, <2>2
<1>4. ASSUME NEW m \in Messages, StopMessage(r, m)
      PROVE  OwnersStep
  <2>1. CASE BeginStopTask(r, m, "stopping")
    BY <2>1, QuietStep DEF BeginStopTask
  <2>2. CASE ~BeginStopTask(r, m, "stopping")
    <3>1. status' = [status EXCEPT ![m] = "stopped"] /\ UNCHANGED <<proc, taskVars>>
      BY <1>4, <2>2 DEF StopMessage
    <3>2. \A n \in Messages : AtWork(n)' <=> AtWork(n)
      BY <3>1 DEF taskVars, AtWork
    <3> QED BY <3>1, <3>2, HideStep DEF taskVars, Status, Outcome
  <2> QED BY <2>1, <2>2
<1>5. ASSUME NEW m \in Messages, UpdateMessage(r, m) \/ DeleteMessage(r, m)
      PROVE  OwnersStep
  BY <1>5, QuietStep DEF UpdateMessage, DeleteMessage, EditMessage, BeginStopTask, taskVars
<1>6. CASE GraceExpires(r)
  <2> DEFINE h == req[r].task
  <2>1. h \in Handles /\ ~settled[h] /\ hmsg[h] \in Messages
    BY <1>6, ConstantsAssumption
    DEF GraceExpires, IInv, WaitersAreServed, RequestPhases, TableMatchesHandles, Stopping
  <2>2. CASE ~Exists(hmsg[h])
    BY <1>6, <2>2, QuietStep DEF GraceExpires, taskVars
  <2>3. CASE Exists(hmsg[h])
    <3>1. /\ status' = [status EXCEPT ![hmsg[h]] = "stopped"]
          /\ tasks' = [tasks EXCEPT ![hmsg[h]] = NoHandle]
          /\ UNCHANGED <<proc, pc>>
      BY <1>6, <2>1, <2>3 DEF GraceExpires, FinalizeHandle
    <3>2. /\ status'[hmsg[h]] # "streaming"
          /\ \A m \in Messages : m # hmsg[h] => status'[m] = status[m]
      BY <2>1, <3>1 DEF IInv, TypeOK
    <3> HIDE DEF h
    <3> QED BY <2>1, <3>1, <3>2, ReleaseStep
  <2> QED BY <2>2, <2>3
<1>7. CASE DeleteMessageRemoves(r)
  <2>1. req[r].msg \in Messages /\ "deleted" \in Status \ {"streaming"}
    BY <1>7 DEF DeleteMessageRemoves, IInv, RequestPhases, Status, Absent
  <2>2. \A n \in Messages : AtWork(n)' <=> AtWork(n)
    BY <1>7 DEF DeleteMessageRemoves, taskVars, AtWork
  <2> QED BY <1>7, <2>1, <2>2, HideStep DEF DeleteMessageRemoves, taskVars
<1> QED BY <1>1, <1>2, <1>3, <1>4, <1>5, <1>6, <1>7 DEF RequestStep

\* Every step but the end of an edit.
LEMMA StepOwners ==
  ASSUME IInv, [Next]_vars,
         ~\E r \in Requests : \E s \in {req[r].saved} \union HookStatuses : UpdateMessageWrites(r, s)
  PROVE  OwnersStep
<1>1. CASE \E h \in Handles : TaskStep(h) \/ ReadChunk(h)
  BY <1>1, TaskStepRefines
<1>2. CASE \E r \in Requests : RequestStep(r)
  BY <1>2, RequestStepRefines
<1>3. CASE Restart
  <2>1. \A m \in Messages : status'[m] # "streaming"
    BY <1>3 DEF Restart, Active
  <2> QED BY <1>3, <2>1, ResetStep DEF Restart
<1>4. CASE UNCHANGED vars
  BY <1>4, QuietStep DEF vars, taskVars
<1> QED BY <1>1, <1>2, <1>3, <1>4 DEF Next

(***************************************************************************)
(* Every step of the server is a step of ResponseOwnership or leaves the   *)
(* table and the streaming replies, shown and feigned, as they are.        *)
(***************************************************************************)
THEOREM StepRefines == IInv /\ [Next]_vars => [Ownership!Next]_ownershipVars
  BY StepOwners, EditRefines DEF OwnersStep

(***************************************************************************)
(* ConversationTask implements ResponseOwnership.                          *)
(***************************************************************************)
THEOREM ImplementsOwnership == Spec => OwnershipSpec
<1>1. Init => Ownership!Init
  BY DEF Init, Ownership!Init, Shown, Feigned
<1>2. IInv /\ [Next]_vars => [Ownership!Next]_<<tasks, Shown, Feigned>>
  BY StepRefines DEF ownershipVars
<1> QED BY <1>1, <1>2, SpecIInv, PTL DEF Spec, OwnershipSpec, Ownership!Spec

\* What an edit behind its hooks will write back is what it held before the
\* step, or the status of a reply without a task.
LEMMA SavedIsRead ==
  ASSUME IInv, [Next]_vars, NEW r \in Requests, req'[r].at = "updateHooks"
  PROVE  \/ req'[r] = req[r]
         \/ /\ req'[r].msg \in Messages /\ proc' = "running"
            /\ req'[r].saved = status'[req'[r].msg]
            /\ tasks'[req'[r].msg] = NoHandle
<1> DEFINE Read == /\ req'[r].msg \in Messages /\ proc' = "running"
                   /\ req'[r].saved = status'[req'[r].msg]
                   /\ tasks'[req'[r].msg] = NoHandle
<1> HIDE DEF Read
<1>1. ASSUME NEW h \in Handles, ~settled[h], FinalizeHandle(h, status'), UNCHANGED proc,
             proc = "running"
      PROVE  req'[r] = req[r] \/ Read
  <2>1. hmsg[h] \in Messages /\ tasks' = [tasks EXCEPT ![hmsg[h]] = NoHandle]
    BY <1>1 DEF FinalizeHandle, IInv, TableMatchesHandles
  <2>2. CASE WaitsOn(r, h)
    <3>1. req'[r] = AfterStopTask(req[r], status') /\ req[r].msg = hmsg[h]
      BY <1>1, <2>2, ConstantsAssumption
      DEF FinalizeHandle, WaitsOn, IInv, WaitersAreServed, TableMatchesHandles, RequestPhases,
          Stopping
    <3>2. req'[r].msg = hmsg[h] /\ req'[r].saved = status'[hmsg[h]]
      BY <3>1 DEF AfterStopTask, BehindHooks, Idle
    <3>3. tasks'[hmsg[h]] = NoHandle
      BY <2>1 DEF IInv, TypeOK
    <3> QED BY <1>1, <2>1, <3>2, <3>3 DEF Read
  <2>3. CASE ~WaitsOn(r, h)
    BY <1>1, <2>3 DEF FinalizeHandle
  <2> QED BY <2>2, <2>3
<1>2. ASSUME NEW h \in Handles, NEW outcome, FinishTask(h, outcome), proc = "running"
      PROVE  req'[r] = req[r] \/ Read
  <2>1. ~WriteThrows(h)
    BY <1>2 DEF FinishTask, UnhandledRejection, FreshMemory, Idle
  <2>2. FinalizeHandle(h, status') /\ UNCHANGED proc
    BY <1>2, <2>1 DEF FinishTask
  <2> QED BY <1>1, <1>2, <2>2 DEF FinalizeHandle
<1>3. ASSUME NEW h \in Handles, TaskStep(h) \/ ReadChunk(h)
      PROVE  req'[r] = req[r] \/ Read
  <2>1. proc = "running"
    BY <1>3
    DEF TaskStep, RunTask, StreamReady, ReadChunk, StreamEnds, UsageRead, AbortSeen, Catch,
        RetryDelayOver, HooksDone, AfterSend, AfterSendContinues, IInv, CrashedIsEmpty, TypeOK,
        Hearing
  <2>2. CASE RunTask(h) \/ StreamEnds(h) \/ RetryDelayOver(h)
    BY <2>2 DEF RunTask, StreamEnds, RetryDelayOver
  <2>3. CASE StreamReady(h) \/ ReadChunk(h) \/ UsageRead(h) \/ AbortSeen(h)
    BY <1>2, <2>1, <2>3
    DEF StreamReady, ReadChunk, UsageRead, AbortSeen, Proceed, UnhandledRejection, FreshMemory, Idle
  <2>4. CASE \E retryable \in BOOLEAN : Catch(h, retryable)
    BY <1>2, <2>1, <2>4 DEF Catch, UnhandledRejection, FreshMemory, Idle
  <2>5. CASE \E rewrites \in BOOLEAN : HooksDone(h, rewrites)
    BY <1>2, <2>1, <2>5 DEF HooksDone
  <2>6. CASE AfterSend(h)
    BY <1>1, <2>1, <2>6 DEF AfterSend, FinalizeHandle
  <2>7. ASSUME NEW m2 \in Messages, NEW h2 \in Handles, AfterSendContinues(h, m2, h2)
        PROVE  req'[r] = req[r] \/ Read
    <3>1. CASE ~settled[h] /\ WaitsOn(r, h)
      <4>1. /\ req'[r] = AfterStopTask(req[r], status') /\ req[r].msg = hmsg[h]
            /\ hmsg[h] \in Messages /\ hmsg[h] # m2
        BY <2>7, <3>1, ConstantsAssumption
        DEF AfterSendContinues, StartTask, WaitsOn, IInv, WaitersAreServed, TableMatchesHandles,
            RequestPhases, Stopping, OwnedIsStored
      <4>2. req'[r].msg = hmsg[h] /\ req'[r].saved = status'[hmsg[h]]
        BY <4>1 DEF AfterStopTask, BehindHooks, Idle
      <4>3. tasks'[hmsg[h]] = NoHandle /\ proc' = "running"
        BY <2>1, <2>7, <3>1, <4>1 DEF AfterSendContinues, StartTask, IInv, TypeOK
      <4> QED BY <4>1, <4>2, <4>3 DEF Read
    <3>2. CASE ~(~settled[h] /\ WaitsOn(r, h))
      BY <2>7, <3>2 DEF AfterSendContinues
    <3> QED BY <3>1, <3>2
  <2> QED BY <1>3, <2>2, <2>3, <2>4, <2>5, <2>6, <2>7 DEF TaskStep
<1>4. ASSUME NEW q \in Requests, RequestStep(q)
      PROVE  req'[r] = req[r] \/ Read
  <2>1. CASE \E m \in Messages : UpdateMessage(q, m) \/ DeleteMessage(q, m)
    <3>1. PICK m \in Messages : UpdateMessage(q, m) \/ DeleteMessage(q, m)
      BY <2>1
    <3>2. CASE /\ tasks[m] = NoHandle
               /\ req' = [req EXCEPT ![q] = BehindHooks("updateHooks", m, status[m])]
               /\ proc = "running" /\ UNCHANGED <<proc, status, tasks>>
      <4>1. r = q => req'[r].msg = m /\ req'[r].saved = status[m]
        BY <3>2 DEF BehindHooks, IInv, TypeOK
      <4> QED BY <3>2, <4>1 DEF Read, IInv, TypeOK
    <3>3. CASE \E other : other.at # "updateHooks" /\ req' = [req EXCEPT ![q] = other]
      BY <3>3 DEF IInv, TypeOK
    <3> QED
      BY <3>1, <3>2, <3>3
      DEF UpdateMessage, DeleteMessage, EditMessage, BeginStopTask, BehindHooks, Free, taskVars
  <2>2. CASE GraceExpires(q)
    <3>1. /\ proc = "running" /\ UNCHANGED proc
          /\ req[q].task \in Handles /\ ~settled[req[q].task]
      BY <2>2, ConstantsAssumption
      DEF GraceExpires, IInv, CrashedIsEmpty, TypeOK, WaitersAreServed, RequestPhases,
          TableMatchesHandles, Stopping, Idle
    <3>2. CASE ~Exists(hmsg[req[q].task])
      BY <2>2, <3>2 DEF GraceExpires, IInv, TypeOK, Idle
    <3>3. CASE Exists(hmsg[req[q].task])
      <4>1. FinalizeHandle(req[q].task, status')
        BY <2>2, <3>3 DEF GraceExpires
      <4> QED BY <1>1, <3>1, <4>1
    <3> QED BY <3>2, <3>3
  <2>3. CASE \E other : other.at # "updateHooks" /\ req' = [req EXCEPT ![q] = other]
    BY <2>3 DEF IInv, TypeOK
  <2>4. CASE SendMessage(q)
    <3>1. req' = [req EXCEPT ![q] = [req[q] EXCEPT !.at = "sendHooks"]] /\ req[q] = Idle
      BY <2>4 DEF SendMessage, Free
    <3> QED BY <2>3, <3>1 DEF Idle
  <2>5. CASE \E m \in Messages : StopMessage(q, m)
    BY <2>3, <2>5 DEF StopMessage, BeginStopTask
  <2>6. CASE \/ \E m \in Messages, h \in Handles : SendMessageCreates(q, m, h) \/ RetryMessage(q, m, h)
             \/ \E s \in {req[q].saved} \union HookStatuses : UpdateMessageWrites(q, s)
             \/ DeleteMessageRemoves(q)
    BY <2>3, <2>6
    DEF SendMessageCreates, RetryMessage, UpdateMessageWrites, DeleteMessageRemoves, Idle
  <2> QED BY <1>4, <2>1, <2>2, <2>4, <2>5, <2>6 DEF RequestStep
<1>5. CASE Restart
  BY <1>5 DEF Restart, FreshMemory, Idle
<1>6. CASE UNCHANGED vars
  BY <1>6 DEF vars
<1> QED BY <1>3, <1>4, <1>5, <1>6 DEF Next, Read

(***************************************************************************)
(* No late snapshot, no end of a task, no retry and no restart shows a     *)
(* reply as "streaming" that nobody generates, and an edit only writes     *)
(* back what was feigned when it read it: the origin is always a hook.     *)
(***************************************************************************)
THEOREM OriginOfFeigned == Spec => OnlyHooksFeign
<1> DEFINE Kept == \A m \in Messages : Deceives(m)' => Deceives(m) \/ HookChooses(m)
<1>1. ASSUME IInv, [Next]_vars, NEW m \in Messages, m \in Feigned'
      PROVE  Deceives(m) \/ HookChooses(m)
  <2>1. CASE \E r \in Requests : \E s \in {req[r].saved} \union HookStatuses : UpdateMessageWrites(r, s)
    <3>1. PICK r \in Requests : \E s \in {req[r].saved} \union HookStatuses : UpdateMessageWrites(r, s)
      BY <2>1
    <3>2. PICK s \in {req[r].saved} \union HookStatuses : UpdateMessageWrites(r, s)
      BY <3>1
    <3>3. m \in Feigned \/ (m = req[r].msg /\ s = "streaming")
      BY <1>1, <3>2, EditRefines
    <3>4. CASE m = req[r].msg /\ s = "streaming" /\ s = req[r].saved
      BY <3>2, <3>4 DEF Deceives, UpdateMessageWrites
    <3>5. CASE m = req[r].msg /\ s # req[r].saved
      BY <3>2, <3>5 DEF HookChooses
    <3> QED BY <3>3, <3>4, <3>5 DEF Deceives
  <2>2. CASE ~\E r \in Requests : \E s \in {req[r].saved} \union HookStatuses : UpdateMessageWrites(r, s)
    BY <1>1, <2>2, StepOwners DEF OwnersStep, Deceives
  <2> QED BY <2>1, <2>2
<1>2. ASSUME IInv, [Next]_vars, NEW m \in Messages, NEW r \in Requests,
             req'[r].at = "updateHooks", req'[r].msg = m, req'[r].saved = "streaming"
      PROVE  Deceives(m) \/ HookChooses(m)
  <2>1. CASE req'[r] = req[r]
    BY <1>2, <2>1 DEF Deceives
  <2>2. CASE req'[r] # req[r]
    <3>1. m \in Feigned'
      BY <1>2, <2>2, SavedIsRead DEF Feigned, AtWork
    <3> QED BY <1>1, <1>2, <3>1
  <2> QED BY <2>1, <2>2
<1>3. IInv /\ [Next]_vars => Kept
  BY <1>1, <1>2 DEF Deceives
<1>4. Kept => [Kept]_vars
  OBVIOUS
<1> HIDE DEF Kept
<1>5. IInv /\ [Next]_vars => [Kept]_vars
  BY <1>3, <1>4
<1>6. Spec => [][Kept]_vars
  BY <1>5, SpecIInv, PTL DEF Spec
<1> QED BY <1>6 DEF OnlyHooksFeign, Kept

------------------------------------------------------------------------------
(* Disciplined clients and quick hooks.                                    *)

\* The clients send one request at a time and ask only after [DONE], and the
\* hooks end within the grace period.
Disciplined == WaitsForDone /\ ~HooksOutliveGrace /\ \A r, q \in Requests : r = q

\* The status that a live task has given its reply.
PhaseStatus(p) ==
  IF p \in {"scheduled", "creating", "backoff"} THEN "pending"
  ELSE IF p \in {"reading", "usage"} THEN "streaming"
  ELSE "completed"

(***************************************************************************)
(* What makes OneReplyAtWork inductive.  The table holds one task, and the *)
(* status of a reply says how far its task is.  Who was force-stopped and  *)
(* still runs was told to abort and waits for its provider, so it will     *)
(* write nothing.  A request behind its hooks deals with a stored reply    *)
(* without a task; if it is an edit, the status it has read still stands.  *)
(***************************************************************************)
StatusFollowsTask == \A h \in Handles : ~settled[h] => status[hmsg[h]] = PhaseStatus(pc[h])

LeftOvers ==
  \A h \in Handles : settled[h] /\ pc[h] # "free" =>
    aborted[h] /\ pc[h] \in {"creating", "reading", "usage"}

HooksAreAlone ==
  \A r \in Requests :
    /\ req[r].at = "sendHooks" => \A m \in Messages : tasks[m] = NoHandle
    /\ req[r].at \in {"updateHooks", "deleteHooks"} =>
         tasks[req[r].msg] = NoHandle /\ status[req[r].msg] # "none"
    /\ req[r].at = "updateHooks" => status[req[r].msg] = req[r].saved

CalmInv ==
  /\ NoUnhandledRejection
  /\ OneTask
  /\ StatusFollowsTask
  /\ LeftOvers
  /\ HooksAreAlone

\* A step changes a stopped reply by a retry, by its deletion or by a hook only.
StoppedIsKept ==
  \A m \in Messages :
    status[m] = "stopped" => status'[m] \in {"stopped", "pending", "deleted"} \/ HookChooses(m)

\* Only a hook puts a reply in progress without a task.
AttendedStep == \A m \in Messages : Unattended(m)' => Unattended(m) \/ HookChooses(m)

RepliesStep == StoppedIsKept /\ AttendedStep

(***************************************************************************)
(* What a step can do to a live task: take it to its next await, or end it *)
(* with the outcome that its listeners are told.  If a task is in the      *)
(* table then, it is the one of a reply that is new.                       *)
(***************************************************************************)
MayFollow(p, q) ==
  \/ q = p
  \/ p = "scheduled"  /\ q = "creating"
  \/ p = "creating"   /\ q \in {"reading", "backoff"}
  \/ p = "reading"    /\ q \in {"usage", "backoff"}
  \/ p = "usage"      /\ q = "completing"
  \/ p = "completing" /\ q \in {"sending", "backoff"}
  \/ p = "backoff"    /\ q = "creating"

GoesOn(h) == ~settled'[h] /\ hmsg'[h] = hmsg[h] /\ MayFollow(pc[h], pc'[h])

Ends(h) ==
  /\ settled'[h]
  /\ IF pc[h] = "sending"
     THEN status'[hmsg[h]] = "completed" /\ pc'[h] = "free"
     ELSE /\ status'[hmsg[h]] = IF aborted[h] THEN "stopped" ELSE "error"
          /\ pc'[h] \in {"free", pc[h]}
  /\ \A m \in Messages : tasks'[m] # NoHandle => status[m] = "none" /\ status'[m] # "none"

LiveTasksStep == \A h \in Handles : ~settled[h] => GoesOn(h) \/ Ends(h)

CalmStep == CalmInv' /\ RepliesStep /\ LiveTasksStep

\* The one task of the table, seen from its handle and from its message.
LEMMA OneHandle ==
  ASSUME IInv, CalmInv, NEW h \in Handles, ~settled[h]
  PROVE  /\ hmsg[h] \in Messages /\ tasks[hmsg[h]] = h
         /\ \A k \in Handles : ~settled[k] => k = h
         /\ \A m \in Messages : m # hmsg[h] => tasks[m] = NoHandle
         /\ pc[h] # "free" /\ status[hmsg[h]] = PhaseStatus(pc[h]) /\ Exists(hmsg[h])
<1>1. hmsg[h] \in Messages /\ tasks[hmsg[h]] = h /\ h # NoHandle
  BY ConstantsAssumption DEF IInv, TableMatchesHandles
<1>2. \A m \in Messages : m # hmsg[h] => tasks[m] = NoHandle
  BY <1>1 DEF CalmInv, OneTask
<1>3. \A k \in Handles : ~settled[k] => k = h
  BY <1>1, <1>2, ConstantsAssumption DEF IInv, TableMatchesHandles
<1>4. pc[h] # "free" /\ status[hmsg[h]] = PhaseStatus(pc[h])
  BY DEF IInv, HandlePhases, CalmInv, StatusFollowsTask
<1> QED BY <1>1, <1>2, <1>3, <1>4 DEF Exists, Absent, PhaseStatus

(***************************************************************************)
(* A task goes on to its next await, or the task of a settled handle ends. *)
(***************************************************************************)
LEMMA PhaseCalm ==
  ASSUME IInv, CalmInv, NEW h \in Handles, NEW phase \in Phases, pc[h] # "free",
         IF settled[h] THEN phase \in {"free", "creating", "reading", "usage"}
                       ELSE phase # "free" /\ MayFollow(pc[h], phase),
         pc' = [pc EXCEPT ![h] = phase],
         UNCHANGED <<proc, tasks, hmsg, aborted, settled, req>>,
         \A m \in Messages : m # hmsg[h] \/ settled[h] => status'[m] = status[m],
         ~settled[h] => status'[hmsg[h]] = PhaseStatus(phase)
  PROVE  CalmStep
<1>1. \A k \in Handles : pc'[k] = IF k = h THEN phase ELSE pc[k]
  BY DEF IInv, TypeOK
<1>2. CASE settled[h]
  <2>1. \A k \in Handles : ~settled[k] => hmsg[k] \in Messages /\ k # h
    BY <1>2 DEF IInv, TableMatchesHandles
  <2>2. NoUnhandledRejection' /\ OneTask' /\ HooksAreAlone' /\ RepliesStep
    BY <1>2
    DEF CalmInv, NoUnhandledRejection, OneTask, HooksAreAlone, RepliesStep, StoppedIsKept,
        AttendedStep, Unattended, IInv, RequestPhases
  <2>3. StatusFollowsTask'
    BY <1>1, <1>2, <2>1 DEF CalmInv, StatusFollowsTask
  <2>4. LeftOvers'
    BY <1>1, <1>2 DEF CalmInv, LeftOvers
  <2>5. LiveTasksStep
    BY <1>1, <2>1 DEF LiveTasksStep, GoesOn, MayFollow
  <2> QED BY <2>2, <2>3, <2>4, <2>5 DEF CalmStep, CalmInv
<1>3. CASE ~settled[h]
  <2>1. /\ hmsg[h] \in Messages /\ tasks[hmsg[h]] = h
        /\ \A k \in Handles : ~settled[k] => k = h
        /\ \A m \in Messages : m # hmsg[h] => tasks[m] = NoHandle
        /\ status[hmsg[h]] = PhaseStatus(pc[h])
    BY <1>3, OneHandle
  <2>2. h # NoHandle
    BY ConstantsAssumption
  <2>3. NoUnhandledRejection' /\ OneTask'
    BY DEF CalmInv, NoUnhandledRejection, OneTask
  <2>4. StatusFollowsTask' /\ LeftOvers'
    BY <1>1, <1>3, <2>1 DEF CalmInv, StatusFollowsTask, LeftOvers
  <2>5. HooksAreAlone'
    BY <1>3, <2>1, <2>2 DEF CalmInv, HooksAreAlone, IInv, RequestPhases
  <2>6. RepliesStep
    BY <1>3, <2>1, <2>2 DEF RepliesStep, StoppedIsKept, AttendedStep, Unattended, PhaseStatus
  <2>7. LiveTasksStep
    BY <1>1, <1>3, <2>1 DEF LiveTasksStep, GoesOn
  <2> QED BY <2>3, <2>4, <2>5, <2>6, <2>7 DEF CalmStep, CalmInv
<1> QED BY <1>2, <1>3

\* An edit or a delete goes on with the message its stop was about.
LEMMA AfterStopTaskReads ==
  ASSUME NEW q, NEW statusNow, AfterStopTask(q, statusNow).at \in {"updateHooks", "deleteHooks"}
  PROVE  /\ AfterStopTask(q, statusNow).msg = q.msg
         /\ statusNow[q.msg] # "none"
         /\ AfterStopTask(q, statusNow).at = "updateHooks" =>
              AfterStopTask(q, statusNow).saved = statusNow[q.msg]
  BY DEF AfterStopTask, BehindHooks, Idle, Absent

(***************************************************************************)
(* A live task ends, by itself or by force: what its reply became is the   *)
(* outcome, and who waited for it finds a reply without a task.            *)
(***************************************************************************)
LEMMA EndCalm ==
  ASSUME IInv, CalmInv, NEW h \in Handles, ~settled[h], NEW statusNow,
         FinalizeHandle(h, statusNow), status' = statusNow, statusNow \in [Messages -> Status],
         UNCHANGED <<proc, hmsg, aborted>>,
         pc' = [pc EXCEPT ![h] = "free"]
           \/ (UNCHANGED pc /\ aborted[h] /\ pc[h] \in {"creating", "usage"}),
         \A m \in Messages : m # hmsg[h] => statusNow[m] = status[m],
         statusNow[hmsg[h]] = IF pc[h] = "sending" THEN "completed"
                              ELSE IF aborted[h] THEN "stopped" ELSE "error"
  PROVE  CalmStep
<1>1. /\ hmsg[h] \in Messages /\ tasks[hmsg[h]] = h
      /\ \A k \in Handles : ~settled[k] => k = h
      /\ \A m \in Messages : m # hmsg[h] => tasks[m] = NoHandle
      /\ status[hmsg[h]] = PhaseStatus(pc[h])
  BY OneHandle
<1>2. /\ settled' = [settled EXCEPT ![h] = TRUE]
      /\ tasks' = [tasks EXCEPT ![hmsg[h]] = NoHandle]
      /\ \A r \in Requests : req'[r] = IF WaitsOn(r, h) THEN AfterStopTask(req[r], statusNow)
                                                        ELSE req[r]
  BY DEF FinalizeHandle
<1>3. /\ \A m \in Messages : tasks'[m] = NoHandle
      /\ \A k \in Handles : settled'[k]
      /\ status'[hmsg[h]] \notin Active
  BY <1>1, <1>2 DEF IInv, TypeOK, Active
<1>4. \A k \in Handles : pc'[k] = pc[k] \/ (k = h /\ pc'[k] = "free")
  BY DEF IInv, TypeOK
<1>5. NoUnhandledRejection' /\ OneTask' /\ StatusFollowsTask'
  BY <1>1, <1>3 DEF CalmInv, NoUnhandledRejection, OneTask, StatusFollowsTask
<1>6. LeftOvers'
  <2> SUFFICES ASSUME NEW k \in Handles, pc'[k] # "free"
               PROVE  aborted[k] /\ pc'[k] \in {"creating", "reading", "usage"}
    BY DEF LeftOvers
  <2>1. CASE k = h
    BY <2>1 DEF IInv, TypeOK
  <2>2. CASE k # h
    BY <1>1, <1>4, <2>2 DEF CalmInv, LeftOvers
  <2> QED BY <2>1, <2>2
<1>7. HooksAreAlone'
  <2> SUFFICES ASSUME NEW r \in Requests
               PROVE  /\ req'[r].at \in {"updateHooks", "deleteHooks"} =>
                           tasks'[req'[r].msg] = NoHandle /\ status'[req'[r].msg] # "none"
                      /\ req'[r].at = "updateHooks" => status'[req'[r].msg] = req'[r].saved
    BY <1>3 DEF HooksAreAlone
  <2>1. CASE WaitsOn(r, h)
    <3>1. req[r].msg \in Messages
      BY <2>1 DEF WaitsOn, Stopping, IInv, RequestPhases
    <3>2. req'[r] = AfterStopTask(req[r], statusNow)
      BY <1>2, <2>1
    <3>3. req'[r].at \in {"updateHooks", "deleteHooks"} =>
            /\ req'[r].msg = req[r].msg /\ statusNow[req[r].msg] # "none"
            /\ req'[r].at = "updateHooks" => req'[r].saved = statusNow[req[r].msg]
      BY <3>2, AfterStopTaskReads
    <3> QED BY <1>3, <3>1, <3>3
  <2>2. CASE ~WaitsOn(r, h)
    <3>1. req'[r] = req[r]
      BY <1>2, <2>2
    <3>2. req[r].at \in {"updateHooks", "deleteHooks"} =>
            req[r].msg \in Messages /\ req[r].msg # hmsg[h]
      BY <1>1, ConstantsAssumption DEF IInv, RequestPhases, CalmInv, HooksAreAlone
    <3> QED BY <1>3, <3>1, <3>2 DEF CalmInv, HooksAreAlone
  <2> QED BY <2>1, <2>2
<1>8. RepliesStep
  BY <1>1, <1>3 DEF RepliesStep, StoppedIsKept, AttendedStep, Unattended, PhaseStatus
<1>9. LiveTasksStep
  <2>1. Ends(h)
    BY <1>3 DEF Ends, IInv, TypeOK
  <2> QED BY <1>1, <2>1 DEF LiveTasksStep
<1> QED BY <1>5, <1>6, <1>7, <1>8, <1>9 DEF CalmStep, CalmInv

\* The end of a task, live or force-stopped before.
LEMMA FinishTaskCalm ==
  ASSUME IInv, CalmInv, NEW h \in Handles, pc[h] \notin {"free", "sending"},
         FinishTask(h, IF aborted[h] THEN "stopped" ELSE "error")
  PROVE  CalmStep
<1>1. ~WriteThrows(h)
  BY OneHandle DEF WriteThrows
<1>2. CASE settled[h]
  <2>1. /\ UNCHANGED <<proc, status, tasks, hmsg, aborted, settled, req>>
        /\ pc' = [pc EXCEPT ![h] = "free"]
    BY <1>1, <1>2 DEF FinishTask, Snapshot, FinalizeHandle
  <2>2. "free" \in Phases
    BY DEF Phases
  <2> QED BY <1>2, <2>1, <2>2, PhaseCalm
<1>3. CASE ~settled[h]
  <2> DEFINE outcome == IF aborted[h] THEN "stopped" ELSE "error"
             statusNow == [status EXCEPT ![hmsg[h]] = outcome]
  <2>1. /\ FinalizeHandle(h, statusNow) /\ status' = statusNow
        /\ UNCHANGED <<proc, hmsg, aborted>>
        /\ pc' = [pc EXCEPT ![h] = "free"]
    BY <1>1, <1>3 DEF FinishTask, Snapshot
  <2>2. hmsg[h] \in Messages
    BY <1>3, OneHandle
  <2>3. /\ statusNow \in [Messages -> Status]
        /\ statusNow[hmsg[h]] = outcome
        /\ \A m \in Messages : m # hmsg[h] => statusNow[m] = status[m]
    BY <2>2 DEF IInv, TypeOK, Status, Outcome
  <2> HIDE DEF statusNow
  <2> QED BY <1>3, <2>1, <2>3, EndCalm
<1> QED BY <1>2, <1>3

\* A snapshot of a task, or none if it was force-stopped.
LEMMA ProceedCalm ==
  ASSUME IInv, CalmInv, NEW h \in Handles, NEW phase \in Phases \ {"free"}, pc[h] # "free",
         Proceed(h, PhaseStatus(phase), phase),
         MayFollow(pc[h], phase),
         settled[h] => phase = "reading"
  PROVE  CalmStep
<1>1. ~WriteThrows(h)
  BY OneHandle DEF WriteThrows
<1>2. /\ status' = IF settled[h] THEN status ELSE [status EXCEPT ![hmsg[h]] = PhaseStatus(phase)]
      /\ pc' = [pc EXCEPT ![h] = phase]
      /\ UNCHANGED <<proc, tasks, hmsg, aborted, settled, req>>
  BY <1>1 DEF Proceed, Snapshot
<1>3. ~settled[h] => hmsg[h] \in Messages
  BY OneHandle
<1>4. /\ \A m \in Messages : m # hmsg[h] \/ settled[h] => status'[m] = status[m]
      /\ ~settled[h] => status'[hmsg[h]] = PhaseStatus(phase)
  BY <1>2, <1>3 DEF IInv, TypeOK
<1> QED BY <1>2, <1>4, PhaseCalm

\* The steps of a task up to its completion hooks.
LEMMA WorkingCalm ==
  ASSUME IInv, CalmInv, NEW h \in Handles,
         \/ RunTask(h) \/ StreamReady(h) \/ ReadChunk(h) \/ StreamEnds(h) \/ UsageRead(h)
         \/ AbortSeen(h) \/ RetryDelayOver(h)
  PROVE  CalmStep
<1>1. settled[h] /\ pc[h] # "free" => aborted[h] /\ pc[h] \in {"creating", "reading", "usage"}
  BY DEF CalmInv, LeftOvers
<1>2. ~settled[h] => status[hmsg[h]] = PhaseStatus(pc[h])
  BY DEF CalmInv, StatusFollowsTask
<1>3. {"creating", "reading", "usage", "completing"} \subseteq Phases \ {"free"}
  BY DEF Phases, Hearing, Deaf, Hooks
<1>4. CASE RunTask(h) \/ RetryDelayOver(h)
  <2>1. /\ pc[h] \in {"scheduled", "backoff"}
        /\ pc' = [pc EXCEPT ![h] = "creating"]
        /\ UNCHANGED <<proc, status, tasks, hmsg, aborted, settled, req>>
    BY <1>4 DEF RunTask, RetryDelayOver
  <2> QED BY <1>2, <1>3, <2>1, PhaseCalm DEF MayFollow, PhaseStatus
<1>5. CASE StreamEnds(h)
  <2>1. /\ pc[h] = "reading"
        /\ pc' = [pc EXCEPT ![h] = "usage"]
        /\ UNCHANGED <<proc, status, tasks, hmsg, aborted, settled, req>>
    BY <1>5 DEF StreamEnds
  <2> QED BY <1>2, <1>3, <2>1, PhaseCalm DEF MayFollow, PhaseStatus
<1>6. CASE StreamReady(h) \/ ReadChunk(h)
  <2>1. Proceed(h, PhaseStatus("reading"), "reading") /\ pc[h] \in {"creating", "reading"}
    BY <1>6 DEF StreamReady, ReadChunk, PhaseStatus
  <2> QED BY <1>3, <2>1, ProceedCalm DEF MayFollow
<1>7. CASE UsageRead(h) /\ ~aborted[h]
  <2>1. /\ Proceed(h, PhaseStatus("completing"), "completing")
        /\ pc[h] = "usage" /\ ~settled[h]
    BY <1>1, <1>7 DEF UsageRead, PhaseStatus
  <2> QED BY <1>3, <2>1, ProceedCalm DEF MayFollow
<1>8. CASE (UsageRead(h) /\ aborted[h]) \/ AbortSeen(h)
  BY <1>8, FinishTaskCalm DEF UsageRead, AbortSeen, Hearing
<1> QED BY <1>4, <1>5, <1>6, <1>7, <1>8

\* A failure: the task was told to abort, gives up, or waits to try again.
LEMMA CatchCalm ==
  ASSUME IInv, CalmInv, NEW h \in Handles, NEW retryable \in BOOLEAN, Catch(h, retryable)
  PROVE  CalmStep
<1>1. pc[h] \in {"creating", "reading", "completing"}
  BY DEF Catch
<1>2. CASE aborted[h] \/ ~retryable \/ attempt[h] >= MaxRetries
  BY <1>1, <1>2, FinishTaskCalm DEF Catch
<1>3. CASE ~(aborted[h] \/ ~retryable \/ attempt[h] >= MaxRetries)
  <2>1. ~settled[h]
    BY <1>1, <1>3 DEF CalmInv, LeftOvers
  <2>2. hmsg[h] \in Messages /\ ~WriteThrows(h)
    BY <2>1, OneHandle DEF WriteThrows
  <2>3. /\ status' = [status EXCEPT ![hmsg[h]] = "pending"]
        /\ pc' = [pc EXCEPT ![h] = "backoff"]
        /\ UNCHANGED <<proc, tasks, hmsg, aborted, settled, req>>
    BY <1>3, <2>1, <2>2 DEF Catch, Snapshot
  <2>4. /\ "backoff" \in Phases
        /\ \A m \in Messages : m # hmsg[h] => status'[m] = status[m]
        /\ status'[hmsg[h]] = PhaseStatus("backoff")
    BY <2>2, <2>3 DEF Phases, Hearing, PhaseStatus, IInv, TypeOK
  <2> QED BY <1>1, <2>1, <2>3, <2>4, PhaseCalm DEF MayFollow
<1> QED BY <1>2, <1>3

\* The hooks return: nobody was force-stopped in them.
LEMMA HooksCalm ==
  ASSUME IInv, CalmInv, NEW h \in Handles,
         AfterSend(h) \/ \E rewrites \in BOOLEAN : HooksDone(h, rewrites)
  PROVE  CalmStep
<1>1. pc[h] \in Hooks /\ ~settled[h]
  BY DEF AfterSend, HooksDone, Hooks, CalmInv, LeftOvers
<1>2. hmsg[h] \in Messages /\ status[hmsg[h]] = "completed"
  BY <1>1, OneHandle DEF PhaseStatus, Hooks
<1>3. CASE AfterSend(h)
  <2>1. /\ pc[h] = "sending" /\ FinalizeHandle(h, status)
        /\ pc' = [pc EXCEPT ![h] = "free"]
        /\ UNCHANGED <<proc, status, hmsg, aborted>>
    BY <1>3 DEF AfterSend
  <2>2. status \in [Messages -> Status]
    BY DEF IInv, TypeOK
  <2> QED BY <1>1, <1>2, <2>1, <2>2, EndCalm
<1>4. ASSUME NEW rewrites \in BOOLEAN, HooksDone(h, rewrites)
      PROVE  CalmStep
  <2>1. /\ pc[h] = "completing"
        /\ status' = IF rewrites THEN [status EXCEPT ![hmsg[h]] = "completed"] ELSE status
        /\ pc' = [pc EXCEPT ![h] = "sending"]
        /\ UNCHANGED <<proc, tasks, hmsg, aborted, settled, req>>
    BY <1>2, <1>4 DEF HooksDone, Exists, Absent
  <2>2. /\ "sending" \in Phases
        /\ \A m \in Messages : m # hmsg[h] => status'[m] = status[m]
        /\ status'[hmsg[h]] = PhaseStatus("sending")
    BY <1>2, <2>1 DEF Phases, Deaf, Hooks, PhaseStatus, IInv, TypeOK
  <2> QED BY <1>1, <2>1, <2>2, PhaseCalm DEF MayFollow
<1> QED BY <1>3, <1>4

(***************************************************************************)
(* The continuation: the one task of the table is replaced by the next.    *)
(***************************************************************************)
LEMMA ContinuesCalm ==
  ASSUME IInv, CalmInv, NEW h \in Handles, NEW m2 \in Messages, NEW h2 \in Handles,
         AfterSendContinues(h, m2, h2)
  PROVE  CalmStep
<1>1. pc[h] = "sending" /\ ~settled[h]
  BY DEF AfterSendContinues, CalmInv, LeftOvers
<1>2. /\ hmsg[h] \in Messages /\ tasks[hmsg[h]] = h
      /\ \A k \in Handles : ~settled[k] => k = h
      /\ \A m \in Messages : m # hmsg[h] => tasks[m] = NoHandle
      /\ status[hmsg[h]] = "completed"
  BY <1>1, OneHandle DEF PhaseStatus
<1>3. /\ status[m2] = "none" /\ pc[h2] = "free" /\ h2 # h /\ m2 # hmsg[h]
      /\ UNCHANGED proc
      /\ h # NoHandle /\ h2 # NoHandle
  BY <1>1, <1>2, ConstantsAssumption DEF AfterSendContinues, StartTask
<1> DEFINE statusNow == [status EXCEPT ![m2] = "pending"]
<1>4. /\ \A m \in Messages : status'[m] = statusNow[m]
      /\ \A m \in Messages : tasks'[m] = IF m = m2 THEN h2 ELSE NoHandle
      /\ \A k \in Handles : hmsg'[k] = IF k = h2 THEN m2 ELSE hmsg[k]
      /\ \A k \in Handles : pc'[k] = IF k = h2 THEN "scheduled" ELSE IF k = h THEN "free" ELSE pc[k]
      /\ \A k \in Handles : k # h2 => aborted'[k] = aborted[k]
      /\ \A k \in Handles : settled'[k] = (k # h2)
      /\ \A r \in Requests : req'[r] = IF WaitsOn(r, h) THEN AfterStopTask(req[r], statusNow)
                                                        ELSE req[r]
  BY <1>1, <1>2, <1>3 DEF AfterSendContinues, StartTask, IInv, TypeOK
<1>5. \A m \in Messages : statusNow[m] = IF m = m2 THEN "pending" ELSE status[m]
  BY DEF IInv, TypeOK
<1> HIDE DEF statusNow
<1>6. /\ \A k \in Handles : ~settled'[k] => k = h2
      /\ hmsg'[h2] = m2 /\ pc'[h2] = "scheduled" /\ status'[m2] = "pending"
      /\ \A m \in Messages : m # m2 => tasks'[m] = NoHandle
      /\ tasks'[m2] # NoHandle
  BY <1>3, <1>4, <1>5
<1>7. NoUnhandledRejection' /\ OneTask' /\ StatusFollowsTask' /\ LeftOvers'
  <2>1. NoUnhandledRejection' /\ OneTask'
    BY <1>3, <1>6 DEF CalmInv, NoUnhandledRejection, OneTask
  <2>2. StatusFollowsTask'
    BY <1>6 DEF StatusFollowsTask, PhaseStatus
  <2>3. ASSUME NEW k \in Handles, settled'[k], pc'[k] # "free"
        PROVE  aborted'[k] /\ pc'[k] \in {"creating", "reading", "usage"}
    <3>1. k # h2 /\ k # h
      BY <1>3, <1>4, <2>3
    <3>2. settled[k] /\ pc'[k] = pc[k] /\ aborted'[k] = aborted[k]
      BY <1>2, <1>4, <3>1
    <3> QED BY <2>3, <3>2 DEF CalmInv, LeftOvers
  <2>4. LeftOvers'
    BY <2>3 DEF LeftOvers
  <2> QED BY <2>1, <2>2, <2>4
<1>8. HooksAreAlone'
  <2> SUFFICES ASSUME NEW r \in Requests
               PROVE  /\ req'[r].at # "sendHooks"
                      /\ req'[r].at \in {"updateHooks", "deleteHooks"} =>
                           tasks'[req'[r].msg] = NoHandle /\ status'[req'[r].msg] # "none"
                      /\ req'[r].at = "updateHooks" => status'[req'[r].msg] = req'[r].saved
    BY DEF HooksAreAlone
  <2>1. CASE WaitsOn(r, h)
    <3>1. req[r].msg \in Messages /\ req[r].msg = hmsg[h]
      BY <1>1, <2>1, <1>2, <1>3
      DEF WaitsOn, Stopping, IInv, RequestPhases, WaitersAreServed, TableMatchesHandles
    <3>2. req'[r] = AfterStopTask(req[r], statusNow)
      BY <1>4, <2>1
    <3>3. req'[r].at \in {"updateHooks", "deleteHooks"} =>
            /\ req'[r].msg = req[r].msg /\ statusNow[req[r].msg] # "none"
            /\ req'[r].at = "updateHooks" => req'[r].saved = statusNow[req[r].msg]
      BY <3>2, AfterStopTaskReads
    <3>4. req'[r].at # "sendHooks"
      BY <3>2 DEF AfterStopTask, BehindHooks, Idle
    <3> QED BY <1>3, <1>4, <3>1, <3>3, <3>4
  <2>2. CASE ~WaitsOn(r, h)
    <3>1. req'[r] = req[r]
      BY <1>4, <2>2
    <3>2. req[r].at # "sendHooks"
      BY <1>2, <1>3 DEF CalmInv, HooksAreAlone
    <3>3. req[r].at \in {"updateHooks", "deleteHooks"} =>
            /\ req[r].msg \in Messages /\ req[r].msg # m2
            /\ status[req[r].msg] # "none"
            /\ req[r].at = "updateHooks" => status[req[r].msg] = req[r].saved
      BY <1>3 DEF IInv, RequestPhases, CalmInv, HooksAreAlone
    <3>4. req[r].at \in {"updateHooks", "deleteHooks"} =>
            tasks'[req[r].msg] = NoHandle /\ status'[req[r].msg] = status[req[r].msg]
      BY <1>4, <1>5, <3>3
    <3> QED BY <3>1, <3>2, <3>3, <3>4
  <2> QED BY <2>1, <2>2
<1>9. RepliesStep
  <2>1. StoppedIsKept
    BY <1>3, <1>4, <1>5 DEF StoppedIsKept
  <2>2. AttendedStep
    BY <1>2, <1>3, <1>4, <1>5 DEF AttendedStep, Unattended, Active
  <2> QED BY <2>1, <2>2 DEF RepliesStep
<1>10. LiveTasksStep
  <2>1. settled'[h] /\ pc'[h] = "free"
    BY <1>3, <1>4
  <2>2. status'[hmsg[h]] = "completed"
    BY <1>2, <1>3, <1>4, <1>5
  <2>3. \A m \in Messages : tasks'[m] # NoHandle => status[m] = "none" /\ status'[m] # "none"
    BY <1>3, <1>4, <1>5
  <2>4. Ends(h)
    BY <1>1, <2>1, <2>2, <2>3 DEF Ends
  <2> QED BY <1>2, <2>4 DEF LiveTasksStep
<1> QED BY <1>7, <1>8, <1>9, <1>10 DEF CalmStep, CalmInv

(***************************************************************************)
(* The requests.                                                           *)
(***************************************************************************)

\* The first task of an empty table.
LEMMA StartCalm ==
  ASSUME IInv, CalmInv, NEW m \in Messages, NEW h \in Handles,
         StartTask(m, h, tasks, pc, settled),
         \A n \in Messages : tasks[n] = NoHandle,
         status' = [status EXCEPT ![m] = "pending"], UNCHANGED proc,
         \A r \in Requests : req'[r] = Idle
  PROVE  CalmStep
<1>1. h # NoHandle
  BY ConstantsAssumption
<1>2. \A k \in Handles : settled[k]
  BY ConstantsAssumption DEF IInv, TableMatchesHandles
<1>3. /\ \A n \in Messages : status'[n] = IF n = m THEN "pending" ELSE status[n]
      /\ \A n \in Messages : tasks'[n] = IF n = m THEN h ELSE NoHandle
      /\ hmsg'[h] = m
      /\ \A k \in Handles : pc'[k] = IF k = h THEN "scheduled" ELSE pc[k]
      /\ \A k \in Handles : k # h => aborted'[k] = aborted[k]
      /\ \A k \in Handles : settled'[k] = (k # h)
  BY <1>2 DEF StartTask, IInv, TypeOK
<1>4. NoUnhandledRejection' /\ OneTask'
  BY <1>3 DEF CalmInv, NoUnhandledRejection, OneTask
<1>5. StatusFollowsTask'
  <2>1. \A k \in Handles : ~settled'[k] => k = h
    BY <1>3
  <2> QED BY <1>3, <2>1 DEF StatusFollowsTask, PhaseStatus
<1>6. LeftOvers'
  BY <1>2, <1>3 DEF CalmInv, LeftOvers
<1>7. HooksAreAlone'
  BY DEF HooksAreAlone, Idle
<1>8. RepliesStep
  BY <1>1, <1>3 DEF RepliesStep, StoppedIsKept, AttendedStep, Unattended
<1>9. LiveTasksStep
  BY <1>2 DEF LiveTasksStep
<1> QED BY <1>4, <1>5, <1>6, <1>7, <1>8, <1>9 DEF CalmStep, CalmInv

\* A request that changes no reply: at most it tells a live task to abort.
LEMMA RequestCalm ==
  ASSUME IInv, CalmInv, UNCHANGED <<proc, status, tasks, hmsg, pc, settled>>,
         \A k \in Handles : settled[k] => aborted'[k] = aborted[k],
         HooksAreAlone'
  PROVE  CalmStep
<1>1. NoUnhandledRejection' /\ OneTask' /\ StatusFollowsTask' /\ LeftOvers'
  BY DEF CalmInv, NoUnhandledRejection, OneTask, StatusFollowsTask, LeftOvers
<1>2. RepliesStep /\ LiveTasksStep
  BY DEF RepliesStep, StoppedIsKept, AttendedStep, Unattended, LiveTasksStep, GoesOn, MayFollow
<1> QED BY <1>1, <1>2 DEF CalmStep, CalmInv

\* A request that sets the status of a reply without a task, and is over.
LEMMA SettingCalm ==
  ASSUME IInv, CalmInv, NEW m \in Messages, NEW s \in Status, tasks[m] = NoHandle,
         status' = [status EXCEPT ![m] = s],
         UNCHANGED <<proc, tasks, hmsg, pc, aborted, settled>>,
         \A q \in Requests : req'[q] = Idle,
         status[m] = "stopped" => s \in {"stopped", "deleted"} \/ HookChooses(m),
         s \in Active => HookChooses(m)
  PROVE  CalmStep
<1>1. \A n \in Messages : status'[n] = IF n = m THEN s ELSE status[n]
  BY DEF IInv, TypeOK
<1>2. \A k \in Handles : ~settled[k] => hmsg[k] \in Messages /\ hmsg[k] # m
  BY ConstantsAssumption DEF IInv, TableMatchesHandles
<1>3. NoUnhandledRejection' /\ OneTask' /\ HooksAreAlone'
  BY DEF CalmInv, NoUnhandledRejection, OneTask, HooksAreAlone, Idle
<1>4. StatusFollowsTask' /\ LeftOvers'
  BY <1>1, <1>2 DEF CalmInv, StatusFollowsTask, LeftOvers
<1>5. RepliesStep
  BY <1>1 DEF RepliesStep, StoppedIsKept, AttendedStep, Unattended
<1>6. LiveTasksStep
  BY DEF LiveTasksStep, GoesOn, MayFollow
<1> QED BY <1>3, <1>4, <1>5, <1>6 DEF CalmStep, CalmInv

\* The client is told [DONE] and hears of an empty table.
LEMMA SendingCalm ==
  ASSUME Disciplined, IInv, CalmInv, NEW r \in Requests,
         \/ SendMessage(r)
         \/ \E m \in Messages, h \in Handles : SendMessageCreates(r, m, h) \/ RetryMessage(r, m, h)
  PROVE  CalmStep
<1>1. CASE SendMessage(r)
  <2>1. /\ UNCHANGED <<proc, status, tasks, hmsg, pc, aborted, settled>>
        /\ \A m \in Messages : tasks[m] = NoHandle
        /\ req[r] = Idle
        /\ req' = [req EXCEPT ![r].at = "sendHooks"]
    BY <1>1 DEF SendMessage, ClientMayAsk, Disciplined, Free, taskVars
  <2>2. req'[r].at = "sendHooks"
    BY <2>1 DEF IInv, TypeOK, Request
  <2>3. HooksAreAlone'
    BY <2>1, <2>2 DEF HooksAreAlone, Disciplined
  <2> QED BY <2>1, <2>3, RequestCalm
<1>2. ASSUME NEW m \in Messages, NEW h \in Handles, SendMessageCreates(r, m, h)
      PROVE  CalmStep
  <2>1. /\ StartTask(m, h, tasks, pc, settled)
        /\ status' = [status EXCEPT ![m] = "pending"]
        /\ UNCHANGED proc
        /\ req' = [req EXCEPT ![r] = Idle]
    BY <1>2 DEF SendMessageCreates
  <2>2. \A n \in Messages : tasks[n] = NoHandle
    BY <1>2 DEF SendMessageCreates, CalmInv, HooksAreAlone
  <2>3. \A q \in Requests : req'[q] = Idle
    BY <2>1 DEF Disciplined, IInv, TypeOK
  <2> QED BY <2>1, <2>2, <2>3, StartCalm
<1>3. ASSUME NEW m \in Messages, NEW h \in Handles, RetryMessage(r, m, h)
      PROVE  CalmStep
  <2>1. \A n \in Messages : tasks[n] = NoHandle
    BY <1>3 DEF RetryMessage, ClientMayAsk, Disciplined
  <2>2. /\ StartTask(m, h, tasks, pc, settled)
        /\ status' = [status EXCEPT ![m] = "pending"]
        /\ UNCHANGED <<proc, req>>
        /\ req[r] = Idle
    BY <1>3, <2>1 DEF RetryMessage, Free
  <2>3. \A q \in Requests : req'[q] = Idle
    BY <2>2 DEF Disciplined
  <2> QED BY <2>1, <2>2, <2>3, StartCalm
<1> QED BY <1>1, <1>2, <1>3

\* A stop, an edit or a delete: the task of the reply is told to abort, or
\* the reply has no task.
LEMMA StoppingCalm ==
  ASSUME Disciplined, IInv, CalmInv, NEW r \in Requests, NEW m \in Messages,
         StopMessage(r, m) \/ UpdateMessage(r, m) \/ DeleteMessage(r, m)
  PROVE  CalmStep
<1>1. ASSUME NEW phase \in Stopping, BeginStopTask(r, m, phase)
      PROVE  CalmStep
  <2>1. /\ aborted' = [aborted EXCEPT ![tasks[m]] = TRUE]
        /\ ~settled[tasks[m]]
        /\ UNCHANGED <<proc, status, tasks, hmsg, pc, settled>>
        /\ req' = [req EXCEPT ![r] = [at |-> phase, msg |-> m, task |-> tasks[m], saved |-> "none"]]
    BY <1>1 DEF BeginStopTask, IInv, TableMatchesHandles
  <2>2. \A k \in Handles : settled[k] => aborted'[k] = aborted[k]
    BY <2>1 DEF IInv, TypeOK
  <2>3. req'[r].at \in Stopping
    BY <2>1 DEF IInv, TypeOK
  <2>4. HooksAreAlone'
    BY <2>3 DEF HooksAreAlone, Disciplined, Stopping
  <2> QED BY <2>1, <2>2, <2>4, RequestCalm
<1>2. CASE StopMessage(r, m)
  <2>1. CASE BeginStopTask(r, m, "stopping")
    BY <1>1, <2>1 DEF Stopping
  <2>2. CASE ~BeginStopTask(r, m, "stopping")
    <3>1. /\ tasks[m] = NoHandle /\ status[m] \in Active
          /\ status' = [status EXCEPT ![m] = "stopped"]
          /\ UNCHANGED <<proc, tasks, hmsg, pc, aborted, settled, req>>
          /\ req[r] = Idle
      BY <1>2, <2>2 DEF StopMessage, taskVars, Free
    <3>2. \A q \in Requests : req'[q] = Idle
      BY <3>1 DEF Disciplined
    <3> QED BY <3>1, <3>2, SettingCalm DEF Status, Active, Outcome
  <2> QED BY <2>1, <2>2
<1>3. ASSUME NEW stopping \in Stopping, NEW hooks \in {"updateHooks", "deleteHooks"},
             EditMessage(r, m, stopping, hooks)
      PROVE  CalmStep
  <2>1. CASE BeginStopTask(r, m, stopping)
    BY <1>1, <2>1
  <2>2. CASE ~BeginStopTask(r, m, stopping)
    <3>1. /\ tasks[m] = NoHandle /\ Exists(m)
          /\ req' = [req EXCEPT ![r] = BehindHooks(hooks, m, status[m])]
          /\ UNCHANGED <<proc, status, tasks, hmsg, pc, aborted, settled>>
      BY <1>3, <2>2 DEF EditMessage, taskVars
    <3>2. /\ req'[r].at = hooks /\ req'[r].msg = m
          /\ hooks = "updateHooks" => req'[r].saved = status[m]
      BY <3>1 DEF BehindHooks, IInv, TypeOK
    <3>3. HooksAreAlone'
      BY <3>1, <3>2 DEF HooksAreAlone, Disciplined, Exists, Absent
    <3> QED BY <3>1, <3>3, RequestCalm
  <2> QED BY <2>1, <2>2
<1>4. CASE UpdateMessage(r, m)
  BY <1>3, <1>4 DEF UpdateMessage, Stopping
<1>5. CASE DeleteMessage(r, m)
  BY <1>3, <1>5 DEF DeleteMessage, Stopping
<1> QED BY <1>2, <1>4, <1>5

\* The end of an edit writes the status that the reply has, or that a hook
\* has chosen; the end of a delete removes a reply without a task.
LEMMA WritingCalm ==
  ASSUME Disciplined, IInv, CalmInv, NEW r \in Requests,
         \/ \E s \in {req[r].saved} \union HookStatuses : UpdateMessageWrites(r, s)
         \/ DeleteMessageRemoves(r)
  PROVE  CalmStep
<1>1. PICK m \in Messages : m = req[r].msg /\ tasks[m] = NoHandle
  BY DEF UpdateMessageWrites, DeleteMessageRemoves, IInv, RequestPhases, CalmInv, HooksAreAlone
<1>2. req' = [req EXCEPT ![r] = Idle] /\ UNCHANGED <<proc, tasks, hmsg, pc, aborted, settled>>
  BY DEF UpdateMessageWrites, DeleteMessageRemoves, taskVars
<1>3. \A q \in Requests : req'[q] = Idle
  BY <1>2 DEF Disciplined, IInv, TypeOK
<1>4. ASSUME NEW s \in {req[r].saved} \union HookStatuses, UpdateMessageWrites(r, s)
      PROVE  CalmStep
  <2>1. CASE status' = status
    <3>1. HooksAreAlone'
      BY <1>3 DEF HooksAreAlone, Idle
    <3> QED BY <1>2, <2>1, <3>1, RequestCalm
  <2>2. CASE status' # status
    <3>1. status' = [status EXCEPT ![m] = s]
      BY <1>1, <1>4, <2>2 DEF UpdateMessageWrites
    <3>2. req[r].saved = status[m]
      BY <1>1, <1>4 DEF UpdateMessageWrites, CalmInv, HooksAreAlone
    <3>3. s # req[r].saved
      BY <2>2, <3>1, <3>2 DEF IInv, TypeOK
    <3>4. HookChooses(m) /\ s \in Status
      BY <1>1, <1>4, <3>3, HookStatusStored DEF HookChooses
    <3> QED BY <1>1, <1>2, <1>3, <3>1, <3>4, SettingCalm
  <2> QED BY <2>1, <2>2
<1>5. CASE DeleteMessageRemoves(r)
  <2>1. status' = [status EXCEPT ![m] = "deleted"]
    BY <1>1, <1>5 DEF DeleteMessageRemoves
  <2> QED BY <1>1, <1>2, <1>3, <2>1, SettingCalm DEF Status, Absent, Active
<1> QED BY <1>4, <1>5

\* The grace period ends a task that waits for its provider.
LEMMA GraceCalm ==
  ASSUME Disciplined, IInv, CalmInv, NEW r \in Requests, GraceExpires(r)
  PROVE  CalmStep
<1> DEFINE h == req[r].task
           statusNow == [status EXCEPT ![hmsg[h]] = "stopped"]
<1>1. h \in Handles /\ h = tasks[req[r].msg] /\ aborted[h] /\ req[r].msg \in Messages
  BY DEF GraceExpires, IInv, WaitersAreServed, RequestPhases, Stopping
<1>2. ~settled[h]
  BY <1>1, ConstantsAssumption DEF IInv, TableMatchesHandles
<1>3. pc[h] \in {"creating", "usage"}
  BY DEF GraceExpires, Disciplined, Deaf
<1>4. hmsg[h] \in Messages /\ Exists(hmsg[h])
  BY <1>1, <1>2, OneHandle
<1>5. /\ FinalizeHandle(h, statusNow) /\ status' = statusNow
      /\ UNCHANGED <<proc, hmsg, pc, aborted>>
  BY <1>4 DEF GraceExpires
<1>6. /\ statusNow \in [Messages -> Status]
      /\ statusNow[hmsg[h]] = "stopped"
      /\ \A m \in Messages : m # hmsg[h] => statusNow[m] = status[m]
  BY <1>4 DEF IInv, TypeOK, Status, Outcome
<1> HIDE DEF h, statusNow
<1> QED BY <1>1, <1>2, <1>3, <1>5, <1>6, EndCalm

------------------------------------------------------------------------------
(* The promises.                                                           *)

LEMMA InitCalm == Init => CalmInv
  BY DEF Init, CalmInv, NoUnhandledRejection, OneTask, StatusFollowsTask, LeftOvers,
         HooksAreAlone, Idle

\* A restart empties the table and settles every reply.
LEMMA RestartCalm ==
  ASSUME IInv, Restart
  PROVE  CalmInv' /\ RepliesStep
<1>1. NoUnhandledRejection' /\ OneTask' /\ StatusFollowsTask' /\ LeftOvers'
  BY DEF Restart, FreshMemory, NoUnhandledRejection, OneTask, StatusFollowsTask, LeftOvers
<1>2. HooksAreAlone'
  BY DEF Restart, FreshMemory, HooksAreAlone, Idle
<1>3. RepliesStep
  BY DEF Restart, RepliesStep, StoppedIsKept, AttendedStep, Unattended, Active
<1> QED BY <1>1, <1>2, <1>3 DEF CalmInv

\* Every step of disciplined clients with quick hooks.
LEMMA StepCalm ==
  ASSUME Disciplined, IInv, CalmInv, [Next]_vars
  PROVE  CalmInv' /\ RepliesStep /\ (Restart \/ LiveTasksStep)
<1>1. ASSUME NEW h \in Handles, TaskStep(h) \/ ReadChunk(h)
      PROVE  CalmStep
  BY <1>1, WorkingCalm, CatchCalm, HooksCalm, ContinuesCalm DEF TaskStep
<1>2. ASSUME NEW r \in Requests, RequestStep(r)
      PROVE  CalmStep
  BY <1>2, SendingCalm, StoppingCalm, WritingCalm, GraceCalm DEF RequestStep
<1>3. CASE Restart
  BY <1>3, RestartCalm
<1>4. CASE UNCHANGED vars
  <2>1. UNCHANGED <<proc, status, tasks, hmsg, pc, aborted, settled, req>>
    BY <1>4 DEF vars, taskVars
  <2>2. HooksAreAlone'
    BY <2>1 DEF CalmInv, HooksAreAlone
  <2> QED BY <2>1, <2>2, RequestCalm DEF CalmStep
<1> QED BY <1>1, <1>2, <1>3, <1>4 DEF Next, CalmStep

\* The invariant of disciplined clients and quick hooks.
THEOREM SpecCalm == ASSUME Disciplined PROVE Spec => []CalmInv
<1>1. IInv /\ CalmInv /\ [Next]_vars => CalmInv'
  BY StepCalm
<1> QED BY InitCalm, SpecIInv, <1>1, PTL DEF Spec

(***************************************************************************)
(* startMessageGeneration, retryMessageGeneration and the continuation     *)
(* never start a second task of the conversation, no task rejects          *)
(* unhandled, and nothing but a message:updated hook that says so puts a   *)
(* reply in progress without a task: if the clients ask one by one after   *)
(* [DONE] and the hooks of a stopped reply end within the grace period.    *)
(* Two sends that overlap, or a retry before [DONE], break it.             *)
(***************************************************************************)
THEOREM OneReply == ASSUME Disciplined PROVE Spec => OneReplyAtWork
<1>1. CalmInv => OneTask /\ NoUnhandledRejection
  BY DEF CalmInv
<1>2. IInv /\ CalmInv /\ [Next]_vars =>
        [\A m \in Messages : Unattended(m)' => Unattended(m) \/ HookChooses(m)]_vars
  BY StepCalm DEF RepliesStep, AttendedStep
<1> QED BY SpecIInv, SpecCalm, <1>1, <1>2, PTL DEF Spec, OneReplyAtWork

(***************************************************************************)
(* After stopTask, or the force-stop of its grace period, only a retry, a  *)
(* delete or a message:updated hook that returns another status touches a  *)
(* stopped reply again, under the same hypotheses: no end of a task, no    *)
(* late hook of one and no edit that brings no status of its own.          *)
(***************************************************************************)
THEOREM StopStaysFinal == ASSUME Disciplined PROVE Spec => StopIsFinal
<1>1. IInv /\ CalmInv /\ [Next]_vars =>
        [\A m \in Messages : status[m] = "stopped" /\ status'[m] # "stopped"
           => status'[m] \in {"pending", "deleted"} \/ HookChooses(m)]_vars
  BY StepCalm DEF RepliesStep, StoppedIsKept
<1> QED BY SpecIInv, SpecCalm, <1>1, PTL DEF Spec, StopIsFinal

------------------------------------------------------------------------------
(* Why a task comes to its end.                                            *)

(***************************************************************************)
(* The awaits that a task in phase p has left in its attempt, and those it *)
(* has left in the attempts that chatAutoRetry still grants it.            *)
(***************************************************************************)
AwaitsLeft(p) ==
  CASE p = "free"       -> 0
    [] p = "sending"    -> 1
    [] p = "completing" -> 2
    [] p = "usage"      -> 3
    [] p = "reading"    -> 4
    [] p = "creating"   -> 5
    [] OTHER            -> 6

Fuel(p, a) == IF p = "free" THEN 0 ELSE 7 * (MaxRetries - a) + AwaitsLeft(p)

Burns(h) ==
  /\ Fuel(pc'[h], attempt'[h]) \in Nat
  /\ Fuel(pc'[h], attempt'[h]) < Fuel(pc[h], attempt[h])

\* A task that is not free leaves its phase and its attempt alone, or its
\* handle is freed.
LeftAlone(h) ==
  pc[h] # "free" => \/ pc'[h] = pc[h] /\ attempt'[h] = attempt[h]
                    \/ pc'[h] = "free"

\* Phases follow each other with fewer awaits left; an attempt outweighs them.
LEMMA FuelRuns ==
  ASSUME NEW p \in Phases, NEW q \in Phases, NEW a \in 0..MaxRetries, p # "free"
  PROVE  /\ Fuel(p, a) \in Nat
         /\ Fuel("free", a) = 0 /\ 0 < Fuel(p, a)
         /\ q # "free" /\ AwaitsLeft(q) < AwaitsLeft(p) =>
              Fuel(q, a) \in Nat /\ Fuel(q, a) < Fuel(p, a)
         /\ a < MaxRetries =>
              Fuel("backoff", a + 1) \in Nat /\ Fuel("backoff", a + 1) < Fuel(p, a)
  BY ConstantsAssumption DEF Fuel, AwaitsLeft, Phases, Hearing, Deaf, Hooks

\* Whatever frees a handle takes all its fuel.
LEMMA FreedBurns ==
  ASSUME TypeOK, NEW h \in Handles, pc[h] # "free", pc'[h] = "free"
  PROVE  Burns(h)
<1>1. pc[h] \in Phases /\ attempt[h] \in 0..MaxRetries
  BY DEF TypeOK
<1>2. 0 < Fuel(pc[h], attempt[h])
  BY <1>1, FuelRuns
<1>3. Fuel(pc'[h], attempt'[h]) = 0
  BY DEF Fuel
<1> QED BY <1>2, <1>3 DEF Burns

\* A step of one attempt to a later await.
LEMMA LaterBurns ==
  ASSUME TypeOK, NEW h \in Handles, pc[h] # "free", pc'[h] \in Phases \ {"free"},
         attempt'[h] = attempt[h], AwaitsLeft(pc'[h]) < AwaitsLeft(pc[h])
  PROVE  Burns(h)
<1>1. pc[h] \in Phases /\ attempt[h] \in 0..MaxRetries
  BY DEF TypeOK
<1> QED BY <1>1, FuelRuns DEF Burns

\* The end of a task, or the crash of the process.
LEMMA FinishBurns ==
  ASSUME TypeOK, NEW h \in Handles, pc[h] # "free", NEW outcome, FinishTask(h, outcome)
  PROVE  Burns(h) /\ \A g \in Handles \ {h} : LeftAlone(g)
<1>1. pc'[h] = "free"
  BY DEF FinishTask, UnhandledRejection, FreshMemory, TypeOK
<1>2. \A g \in Handles \ {h} : LeftAlone(g)
  BY DEF FinishTask, UnhandledRejection, FreshMemory, TypeOK, LeftAlone
<1> QED BY <1>1, <1>2, FreedBurns

\* A snapshot and the next await, or the crash of the process.
LEMMA ProceedBurns ==
  ASSUME TypeOK, NEW h \in Handles, pc[h] # "free", NEW s, NEW phase \in Phases \ {"free"},
         AwaitsLeft(phase) < AwaitsLeft(pc[h]), Proceed(h, s, phase)
  PROVE  Burns(h) /\ \A g \in Handles \ {h} : LeftAlone(g)
<1>1. CASE WriteThrows(h)
  <2>1. \A g \in Handles : pc'[g] = "free"
    BY <1>1 DEF Proceed, UnhandledRejection, FreshMemory
  <2> QED BY <2>1, FreedBurns DEF LeftAlone
<1>2. CASE ~WriteThrows(h)
  <2>1. pc' = [pc EXCEPT ![h] = phase] /\ attempt' = attempt
    BY <1>2 DEF Proceed
  <2>2. Burns(h)
    BY <2>1, LaterBurns DEF TypeOK
  <2>3. \A g \in Handles \ {h} : LeftAlone(g)
    BY <2>1 DEF TypeOK, LeftAlone
  <2> QED BY <2>2, <2>3
<1> QED BY <1>1, <1>2

\* createStream, the stream or onComplete failed: another attempt, or the end.
LEMMA CatchBurns ==
  ASSUME TypeOK, NEW h \in Handles, NEW retryable \in BOOLEAN, Catch(h, retryable)
  PROVE  Burns(h) /\ \A g \in Handles \ {h} : LeftAlone(g)
<1>1. pc[h] # "free" /\ pc[h] \in Phases /\ attempt[h] \in 0..MaxRetries
  BY DEF Catch, TypeOK
<1>2. CASE \E outcome \in {"stopped", "error"} : FinishTask(h, outcome)
  BY <1>1, <1>2, FinishBurns
<1>3. CASE WriteThrows(h) /\ UnhandledRejection
  <2>1. \A g \in Handles : pc'[g] = "free"
    BY <1>3 DEF UnhandledRejection, FreshMemory
  <2> QED BY <1>1, <2>1, FreedBurns DEF LeftAlone
<1>4. CASE /\ attempt[h] < MaxRetries
           /\ attempt' = [attempt EXCEPT ![h] = @ + 1]
           /\ pc' = [pc EXCEPT ![h] = "backoff"]
  <2>1. pc'[h] = "backoff" /\ attempt'[h] = attempt[h] + 1
    BY <1>4 DEF TypeOK
  <2>2. /\ Fuel("backoff", attempt[h] + 1) \in Nat
        /\ Fuel("backoff", attempt[h] + 1) < Fuel(pc[h], attempt[h])
    BY <1>1, <1>4, FuelRuns
  <2>3. \A g \in Handles \ {h} : LeftAlone(g)
    BY <1>4 DEF TypeOK, LeftAlone
  <2> QED BY <2>1, <2>2, <2>3 DEF Burns
<1> QED BY <1>1, <1>2, <1>3, <1>4, ConstantsAssumption DEF Catch

\* The awaits of runTask that succeed.
LEMMA PlainBurns ==
  ASSUME TypeOK, NEW h \in Handles,
         \/ RunTask(h)
         \/ StreamReady(h)
         \/ StreamEnds(h)
         \/ UsageRead(h)
         \/ AbortSeen(h)
         \/ RetryDelayOver(h)
  PROVE  Burns(h) /\ \A g \in Handles \ {h} : LeftAlone(g)
<1>1. CASE RunTask(h) \/ StreamEnds(h) \/ RetryDelayOver(h)
  <2>1. /\ pc[h] # "free"
        /\ pc'[h] \in Phases \ {"free"}
        /\ attempt'[h] = attempt[h]
        /\ AwaitsLeft(pc'[h]) < AwaitsLeft(pc[h])
    BY <1>1 DEF RunTask, StreamEnds, RetryDelayOver, TypeOK, AwaitsLeft, Phases, Hearing, Deaf
  <2>2. \A g \in Handles \ {h} : LeftAlone(g)
    BY <1>1 DEF RunTask, StreamEnds, RetryDelayOver, TypeOK, LeftAlone
  <2> QED BY <2>1, <2>2, LaterBurns
<1>2. CASE StreamReady(h)
  <2>1. /\ pc[h] # "free"
        /\ "reading" \in Phases \ {"free"}
        /\ AwaitsLeft("reading") < AwaitsLeft(pc[h])
    BY <1>2 DEF StreamReady, AwaitsLeft, Phases, Hearing
  <2> QED BY <1>2, <2>1, ProceedBurns DEF StreamReady
<1>3. CASE UsageRead(h)
  <2>1. /\ pc[h] # "free"
        /\ "completing" \in Phases \ {"free"}
        /\ AwaitsLeft("completing") < AwaitsLeft(pc[h])
    BY <1>3 DEF UsageRead, AwaitsLeft, Phases, Deaf, Hooks
  <2> QED BY <1>3, <2>1, ProceedBurns, FinishBurns DEF UsageRead
<1>4. CASE AbortSeen(h)
  BY <1>4, FinishBurns DEF AbortSeen, Hearing
<1> QED BY <1>1, <1>2, <1>3, <1>4

\* The hooks after the response, and the continuation they may ask for.
LEMMA HooksBurn ==
  ASSUME TypeOK, NEW h \in Handles,
         \/ \E rewrites \in BOOLEAN : HooksDone(h, rewrites)
         \/ AfterSend(h)
         \/ \E m2 \in Messages, h2 \in Handles : AfterSendContinues(h, m2, h2)
  PROVE  Burns(h) /\ \A g \in Handles \ {h} : LeftAlone(g)
<1>1. ASSUME NEW rewrites \in BOOLEAN, HooksDone(h, rewrites)
      PROVE  Burns(h) /\ \A g \in Handles \ {h} : LeftAlone(g)
  <2>1. pc[h] = "completing"
    BY <1>1 DEF HooksDone
  <2>2. CASE \E outcome \in {"stopped", "error"} : FinishTask(h, outcome)
    BY <2>1, <2>2, FinishBurns
  <2>3. CASE pc' = [pc EXCEPT ![h] = "sending"] /\ UNCHANGED attempt
    <3>1. /\ pc'[h] \in Phases \ {"free"}
          /\ attempt'[h] = attempt[h]
          /\ AwaitsLeft(pc'[h]) < AwaitsLeft(pc[h])
      BY <2>1, <2>3 DEF TypeOK, AwaitsLeft, Phases, Deaf, Hooks
    <3>2. \A g \in Handles \ {h} : LeftAlone(g)
      BY <2>3 DEF TypeOK, LeftAlone
    <3> QED BY <2>1, <3>1, <3>2, LaterBurns
  <2> QED BY <1>1, <2>2, <2>3 DEF HooksDone
<1>2. ASSUME AfterSend(h)
      PROVE  Burns(h) /\ \A g \in Handles \ {h} : LeftAlone(g)
  <2>1. pc[h] # "free" /\ pc'[h] = "free"
    BY <1>2 DEF AfterSend, TypeOK
  <2>2. \A g \in Handles \ {h} : LeftAlone(g)
    BY <1>2 DEF AfterSend, TypeOK, LeftAlone
  <2> QED BY <2>1, <2>2, FreedBurns
<1>3. ASSUME NEW m2 \in Messages, NEW h2 \in Handles, AfterSendContinues(h, m2, h2)
      PROVE  Burns(h) /\ \A g \in Handles \ {h} : LeftAlone(g)
  <2>1. /\ pc[h] = "sending"
        /\ pc[h2] = "free"
        /\ pc' = [[pc EXCEPT ![h] = "free"] EXCEPT ![h2] = "scheduled"]
        /\ attempt' = [attempt EXCEPT ![h2] = 0]
    BY <1>3 DEF AfterSendContinues, StartTask
  <2>2. pc[h] # "free" /\ pc'[h] = "free"
    BY <2>1 DEF TypeOK
  <2>3. \A g \in Handles \ {h} : LeftAlone(g)
    BY <2>1 DEF TypeOK, LeftAlone
  <2> QED BY <2>2, <2>3, FreedBurns
<1> QED BY <1>1, <1>2, <1>3

\* Requests, chunks and restarts start tasks and free them; they grant nothing.
LEMMA OthersLeaveAlone ==
  ASSUME TypeOK,
         \/ \E h \in Handles : ReadChunk(h)
         \/ \E r \in Requests : RequestStep(r)
         \/ Restart
         \/ UNCHANGED vars,
         NEW g \in Handles
  PROVE  LeftAlone(g)
<1>1. CASE \E h \in Handles : ReadChunk(h)
  BY <1>1 DEF ReadChunk, Proceed, UnhandledRejection, FreshMemory, TypeOK, LeftAlone
<1>2. ASSUME NEW r \in Requests, RequestStep(r)
      PROVE  LeftAlone(g)
  <2>1. CASE UNCHANGED <<pc, attempt>>
    BY <2>1 DEF LeftAlone
  <2>2. CASE \E h \in Handles : /\ pc[h] = "free"
                                /\ pc' = [pc EXCEPT ![h] = "scheduled"]
                                /\ attempt' = [attempt EXCEPT ![h] = 0]
    BY <2>2 DEF TypeOK, LeftAlone
  <2> QED
    BY <1>2, <2>1, <2>2
    DEF RequestStep, SendMessage, SendMessageCreates, RetryMessage, StopMessage, UpdateMessage,
        DeleteMessage, EditMessage, BeginStopTask, GraceExpires, UpdateMessageWrites,
        DeleteMessageRemoves, StartTask, taskVars
<1>3. CASE Restart
  BY <1>3 DEF Restart, FreshMemory, LeftAlone
<1>4. CASE UNCHANGED vars
  BY <1>4 DEF vars, taskVars, LeftAlone
<1> QED BY <1>1, <1>2, <1>3, <1>4

(***************************************************************************)
(* runTask cannot go on for ever but by reading chunks: no step of anybody *)
(* gives a task more awaits than it has left, and every step of its own    *)
(* other than a chunk takes some, whatever fails and however often it is   *)
(* retried.  This is the argument behind EveryReplyEnds, which a run       *)
(* checks where the answers come (AnsweringStreams of TaskStreamProps).    *)
(***************************************************************************)
TasksRunOut ==
  [][\A h \in Handles : pc[h] # "free" =>
       /\ Fuel(pc'[h], attempt'[h]) <= Fuel(pc[h], attempt[h])
       /\ TaskStep(h) => Fuel(pc'[h], attempt'[h]) < Fuel(pc[h], attempt[h])]_vars

THEOREM RunsOut == Spec => TasksRunOut
<1>1. ASSUME TypeOK, NEW h \in Handles, TaskStep(h)
      PROVE  Burns(h) /\ \A g \in Handles \ {h} : LeftAlone(g)
  BY <1>1, PlainBurns, CatchBurns, HooksBurn DEF TaskStep
<1>2. ASSUME TypeOK, [Next]_vars, NEW h \in Handles, pc[h] # "free"
      PROVE  Burns(h) \/ Fuel(pc'[h], attempt'[h]) = Fuel(pc[h], attempt[h])
  <2>1. CASE \E g \in Handles : TaskStep(g)
    BY <2>1, <1>1, <1>2, FreedBurns DEF LeftAlone
  <2>2. CASE \/ \E g \in Handles : ReadChunk(g)
             \/ \E r \in Requests : RequestStep(r)
             \/ Restart
             \/ UNCHANGED vars
    BY <2>2, <1>2, OthersLeaveAlone, FreedBurns DEF LeftAlone
  <2> QED BY <1>2, <2>1, <2>2 DEF Next
<1>3. ASSUME TypeOK, [Next]_vars, NEW h \in Handles, pc[h] # "free"
      PROVE  /\ Fuel(pc'[h], attempt'[h]) <= Fuel(pc[h], attempt[h])
             /\ TaskStep(h) => Fuel(pc'[h], attempt'[h]) < Fuel(pc[h], attempt[h])
  <2>1. Fuel(pc[h], attempt[h]) \in Nat
    BY <1>3, FuelRuns DEF TypeOK
  <2>2. TaskStep(h) => Burns(h)
    BY <1>1, <1>3
  <2>3. CASE Burns(h)
    BY <2>1, <2>2, <2>3 DEF Burns
  <2>4. CASE Fuel(pc'[h], attempt'[h]) = Fuel(pc[h], attempt[h])
    <3>1. \A a, b \in Nat : a = b => a <= b
      OBVIOUS
    <3>2. Fuel(pc'[h], attempt'[h]) \in Nat
      BY <2>1, <2>4
    <3>3. Fuel(pc'[h], attempt'[h]) <= Fuel(pc[h], attempt[h])
      BY <2>1, <2>4, <3>1, <3>2, Zenon
    <3> QED BY <2>2, <3>3 DEF Burns
  <2> QED BY <1>2, <1>3, <2>3, <2>4
<1>4. TypeOK /\ [Next]_vars =>
        [\A h \in Handles : pc[h] # "free" =>
           /\ Fuel(pc'[h], attempt'[h]) <= Fuel(pc[h], attempt[h])
           /\ TaskStep(h) => Fuel(pc'[h], attempt'[h]) < Fuel(pc[h], attempt[h])]_vars
  BY <1>3
<1> QED BY TypeCorrect, <1>4, PTL DEF Spec, TasksRunOut
===============================================================================
