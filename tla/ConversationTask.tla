--------------------------- MODULE ConversationTask ---------------------------
(***************************************************************************)
(* The replies of one main conversation and the tasks that produce them:   *)
(* ConversationTaskService (the task table, the generation loop, automatic *)
(* retries, stop with a grace period), ConversationMessageLifecycleService *)
(* (send, retry, stop, the continuation after a compaction) and the parts  *)
(* of ConversationMessageService and of the HTTP controller that write a   *)
(* reply's status (edit, delete).                                          *)
(*                                                                         *)
(* The server is one Node event loop: an action is a maximal run of code   *)
(* between two awaits that really wait (a provider, a plugin hook, a       *)
(* timer).  A promise that is already resolved costs a microtask only and  *)
(* lets no request in, so code on both sides of it is one action.          *)
(***************************************************************************)
EXTENDS Naturals, FiniteSets

CONSTANTS
  Messages,          \* ids a reply can get (uuidv7: never used twice)
  Handles,           \* task handles that can be in memory at the same time
  Requests,          \* HTTP requests that can be in progress at the same time
  NoMessage,         \* the message of a handle that was never used
  NoHandle,          \* the task of a message the task table does not hold
  MaxRetries,        \* chatAutoRetry.maxRetries
  HookStatuses,      \* statuses that message:updated hooks return for a reply
  WaitsForDone,      \* clients send and retry only after the stream's [DONE]
  HooksOutliveGrace  \* onComplete and onSent may last longer than the 20 ms
                     \* that stopTask waits for a task to end by itself

Active  == {"pending", "streaming"}
Absent  == {"none", "deleted"}
Outcome == {"completed", "stopped", "error"}
Stored  == Active \union Outcome
Status  == Active \union Outcome \union Absent

ASSUME ConstantsAssumption ==
  /\ MaxRetries \in Nat
  /\ HookStatuses \subseteq Stored
  /\ WaitsForDone \in BOOLEAN
  /\ HooksOutliveGrace \in BOOLEAN
  /\ NoHandle \notin Handles
  /\ NoMessage \notin Messages

VARIABLES
  proc,      \* "running", or "crashed" by an unhandled promise rejection
  status,    \* status of each reply in the conversation store (on disk)
  tasks,     \* ConversationTaskService.tasks: message id -> handle
  hmsg,      \* the handle's runtime.assistantMessageId
  pc,        \* the await the handle's runTask is suspended in
  aborted,   \* the handle's abortController.signal.aborted
  settled,   \* the handle's settled flag
  finished,  \* the handle's listeners got a "finish" event
  attempt,   \* runTask's retryAttempt
  req        \* what each HTTP request is doing

taskVars == <<tasks, hmsg, pc, aborted, settled, finished, attempt>>
vars == <<proc, status, taskVars, req>>

(***************************************************************************)
(* runTask's awaits.  An abort wakes a task that waits for a chunk or for  *)
(* a retry delay; the other awaits do not watch the signal.                *)
(***************************************************************************)
Hearing == {"reading", "backoff"}
Hooks   == {"completing", "sending"}
Deaf    == {"creating", "usage"} \union Hooks
Phases  == {"free", "scheduled"} \union Hearing \union Deaf

Stopping == {"stopping", "updateStopping", "deleteStopping"}
Idle     == [at |-> "idle", msg |-> NoMessage, task |-> NoHandle, saved |-> "none"]
Request  == [at : {"idle", "sendHooks", "updateHooks", "deleteHooks"} \union Stopping,
             msg : Messages \union {NoMessage},
             task : Handles \union {NoHandle},
             saved : Status]

TypeOK ==
  /\ proc \in {"running", "crashed"}
  /\ status \in [Messages -> Status]
  /\ tasks \in [Messages -> Handles \union {NoHandle}]
  /\ hmsg \in [Handles -> Messages \union {NoMessage}]
  /\ pc \in [Handles -> Phases]
  /\ aborted \in [Handles -> BOOLEAN]
  /\ settled \in [Handles -> BOOLEAN]
  /\ finished \in [Handles -> BOOLEAN]
  /\ attempt \in [Handles -> 0..MaxRetries]
  /\ req \in [Requests -> Request]

(***************************************************************************)
(* Memory of a dead process or after a boot: no task, no request.  A       *)
(* handle that is not in use looks like one whose task ended.              *)
(***************************************************************************)
FreshMemory ==
  /\ tasks'    = [m \in Messages |-> NoHandle]
  /\ hmsg'     = [h \in Handles |-> NoMessage]
  /\ pc'       = [h \in Handles |-> "free"]
  /\ aborted'  = [h \in Handles |-> FALSE]
  /\ settled'  = [h \in Handles |-> TRUE]
  /\ finished' = [h \in Handles |-> TRUE]
  /\ attempt'  = [h \in Handles |-> 0]
  /\ req'      = [r \in Requests |-> Idle]

Init ==
  /\ proc     = "running"
  /\ status   = [m \in Messages |-> "none"]
  /\ tasks    = [m \in Messages |-> NoHandle]
  /\ hmsg     = [h \in Handles |-> NoMessage]
  /\ pc       = [h \in Handles |-> "free"]
  /\ aborted  = [h \in Handles |-> FALSE]
  /\ settled  = [h \in Handles |-> TRUE]
  /\ finished = [h \in Handles |-> TRUE]
  /\ attempt  = [h \in Handles |-> 0]
  /\ req      = [r \in Requests |-> Idle]

------------------------------------------------------------------------------
(* The conversation store as the tasks and the requests see it.            *)

\* conversation.messages.some(isActiveResponseMessage)
SomeActive == \E m \in Messages : status[m] \in Active

\* writeMessage throws NotFound for a message that is gone.
Exists(m) == status[m] \notin Absent

\* A client that waits for [DONE] sees every stream of the conversation end.
ClientMayAsk == WaitsForDone => \A m \in Messages : tasks[m] = NoHandle

------------------------------------------------------------------------------
(* The task table.                                                         *)

(***************************************************************************)
(* startTask: a new handle for message m, with runTask on a 0 ms timer.    *)
(* The arguments are the values the rest of the same step gives to the     *)
(* variables that both change.                                             *)
(***************************************************************************)
StartTask(m, h, tasksNow, pcNow, settledNow) ==
  /\ pc[h] = "free"
  /\ tasks'    = [tasksNow EXCEPT ![m] = h]
  /\ hmsg'     = [hmsg EXCEPT ![h] = m]
  /\ pc'       = [pcNow EXCEPT ![h] = "scheduled"]
  /\ aborted'  = [aborted EXCEPT ![h] = FALSE]
  /\ settled'  = [settledNow EXCEPT ![h] = FALSE]
  /\ finished' = [finished EXCEPT ![h] = FALSE]
  /\ attempt'  = [attempt EXCEPT ![h] = 0]

\* A request behind its hooks: an edit has read the message, with status s,
\* that it will write back; a delete only has looked it up.
BehindHooks(hooks, m, s) ==
  [at |-> hooks, msg |-> m, task |-> NoHandle, saved |-> IF hooks = "updateHooks" THEN s ELSE "none"]

\* What a stop, edit or delete does once stopTask returned: a stop is over,
\* an edit and a delete go on to their hooks.
AfterStopTask(q, statusNow) ==
  IF q.at = "stopping" \/ statusNow[q.msg] \in Absent THEN Idle
  ELSE BehindHooks(IF q.at = "updateStopping" THEN "updateHooks" ELSE "deleteHooks",
                   q.msg, statusNow[q.msg])

WaitsOn(r, h) == req[r].at \in Stopping /\ req[r].task = h

\* Fault: the completion is not resolved.
FinalizeHandleUnresolved(h, statusNow) ==
  IF settled[h]
  THEN UNCHANGED <<settled, tasks, req>>
  ELSE /\ settled' = [settled EXCEPT ![h] = TRUE]
       /\ tasks'   = [tasks EXCEPT ![hmsg[h]] = NoHandle]
       /\ UNCHANGED req

\* Fault: a second call deletes whatever the table holds for the message.
FinalizeHandleTwice(h, statusNow) ==
  /\ settled' = [settled EXCEPT ![h] = TRUE]
  /\ tasks'   = [tasks EXCEPT ![hmsg[h]] = NoHandle]
  /\ req'     = [r \in Requests |-> IF WaitsOn(r, h) THEN AfterStopTask(req[r], statusNow)
                                                     ELSE req[r]]

(***************************************************************************)
(* finalizeHandle: the first call settles the handle, takes its message    *)
(* out of the table and resolves the completion that stopTask waits for;   *)
(* a later call does nothing.                                              *)
(***************************************************************************)
FinalizeHandle(h, statusNow) ==
  IF settled[h]
  THEN UNCHANGED <<settled, tasks, req>>
  ELSE /\ settled' = [settled EXCEPT ![h] = TRUE]
       /\ tasks'   = [tasks EXCEPT ![hmsg[h]] = NoHandle]
       /\ req'     = [r \in Requests |-> IF WaitsOn(r, h) THEN AfterStopTask(req[r], statusNow)
                                                          ELSE req[r]]

\* Fault: the handle is finalized first, so emit drops the event.
EmitFinishTooLate(h) == UNCHANGED finished

\* emit: listeners hear nothing from a settled handle.
EmitFinish(h) ==
  IF settled[h] THEN UNCHANGED finished ELSE finished' = [finished EXCEPT ![h] = TRUE]

\* Fault: writeTaskSnapshot does not look at settled.
SnapshotAlways(h, s) == [status EXCEPT ![hmsg[h]] = s]

\* writeTaskSnapshot: a settled handle writes nothing.
Snapshot(h, s) == IF settled[h] THEN status ELSE [status EXCEPT ![hmsg[h]] = s]

\* The write throws, the catch block writes again and throws again: runTask
\* rejects, nobody handles it and Node ends the process.
WriteThrows(h) == ~settled[h] /\ ~Exists(hmsg[h])
UnhandledRejection ==
  /\ proc' = "crashed"
  /\ FreshMemory
  /\ UNCHANGED status

\* The end of a task that did not complete: snapshot, "finish", finalize.
FinishTask(h, outcome) ==
  IF WriteThrows(h) THEN UnhandledRejection
  ELSE LET statusNow == Snapshot(h, outcome) IN
       /\ status' = statusNow
       /\ EmitFinish(h)
       /\ FinalizeHandle(h, statusNow)
       /\ pc' = [pc EXCEPT ![h] = "free"]
       /\ UNCHANGED <<proc, hmsg, aborted, attempt>>

\* A snapshot in the middle of the task, then the next await.
Proceed(h, s, phase) ==
  IF WriteThrows(h) THEN UnhandledRejection
  ELSE /\ status' = Snapshot(h, s)
       /\ pc' = [pc EXCEPT ![h] = phase]
       /\ UNCHANGED <<proc, tasks, hmsg, aborted, settled, finished, attempt, req>>

------------------------------------------------------------------------------
(* runTask.                                                                *)

\* The 0 ms timer fires: runTask calls createStream.
RunTask(h) ==
  /\ pc[h] = "scheduled"
  /\ pc' = [pc EXCEPT ![h] = "creating"]
  /\ UNCHANGED <<proc, status, tasks, hmsg, aborted, settled, finished, attempt, req>>

\* createStream returned a stream.
StreamReady(h) ==
  /\ pc[h] = "creating"
  /\ Proceed(h, "streaming", "reading")

\* A chunk arrived.
ReadChunk(h) ==
  /\ pc[h] = "reading"
  /\ ~aborted[h]
  /\ Proceed(h, "streaming", "reading")

\* The stream is exhausted, or a finished step reached the context threshold.
StreamEnds(h) ==
  /\ pc[h] = "reading"
  /\ ~aborted[h]
  /\ pc' = [pc EXCEPT ![h] = "usage"]
  /\ UNCHANGED <<proc, status, tasks, hmsg, aborted, settled, finished, attempt, req>>

\* The stream's usage is known: the reply is complete, or was stopped.
UsageRead(h) ==
  /\ pc[h] = "usage"
  /\ IF aborted[h] THEN FinishTask(h, "stopped") ELSE Proceed(h, "completed", "completing")

\* The abort signal ends the wait for a chunk or for a retry delay.
AbortSeen(h) ==
  /\ pc[h] \in Hearing
  /\ aborted[h]
  /\ FinishTask(h, "stopped")

\* Fault: the attempts are counted inside the loop, from 0 each time.
CatchForgetsAttempts(h, retryable) ==
  /\ pc[h] \in {"creating", "reading", "completing"}
  /\ IF aborted[h] THEN FinishTask(h, "stopped")
     ELSE IF ~retryable \/ attempt[h] >= MaxRetries THEN FinishTask(h, "error")
     ELSE IF WriteThrows(h) THEN UnhandledRejection
     ELSE /\ status'  = Snapshot(h, "pending")
          /\ pc'      = [pc EXCEPT ![h] = "backoff"]
          /\ UNCHANGED <<proc, tasks, hmsg, aborted, settled, finished, attempt, req>>

\* createStream, the stream or onComplete failed.
Catch(h, retryable) ==
  /\ pc[h] \in {"creating", "reading", "completing"}
  /\ IF aborted[h] THEN FinishTask(h, "stopped")
     ELSE IF ~retryable \/ attempt[h] >= MaxRetries THEN FinishTask(h, "error")
     ELSE IF WriteThrows(h) THEN UnhandledRejection
     ELSE /\ status'  = Snapshot(h, "pending")
          /\ attempt' = [attempt EXCEPT ![h] = @ + 1]
          /\ pc'      = [pc EXCEPT ![h] = "backoff"]
          /\ UNCHANGED <<proc, tasks, hmsg, aborted, settled, finished, req>>

\* The retry delay is over: createStream again.
RetryDelayOver(h) ==
  /\ pc[h] = "backoff"
  /\ ~aborted[h]
  /\ pc' = [pc EXCEPT ![h] = "creating"]
  /\ UNCHANGED <<proc, status, tasks, hmsg, aborted, settled, finished, attempt, req>>

(***************************************************************************)
(* onComplete returned.  A patched result, or a usage annotation, is       *)
(* written as "completed" without looking at settled; then "finish" is     *)
(* emitted and onSent starts.  If the message is gone that write fails,    *)
(* which only a settled handle survives.                                   *)
(***************************************************************************)
HooksDone(h, rewrites) ==
  /\ pc[h] = "completing"
  /\ IF rewrites /\ ~Exists(hmsg[h])
     THEN FinishTask(h, IF aborted[h] THEN "stopped" ELSE "error")
     ELSE /\ status' = IF rewrites THEN [status EXCEPT ![hmsg[h]] = "completed"] ELSE status
          /\ EmitFinish(h)
          /\ pc' = [pc EXCEPT ![h] = "sending"]
          /\ UNCHANGED <<proc, tasks, hmsg, aborted, settled, attempt, req>>

\* onSent returned or failed, and asks for no continuation.
AfterSend(h) ==
  /\ pc[h] = "sending"
  /\ FinalizeHandle(h, status)
  /\ pc' = [pc EXCEPT ![h] = "free"]
  /\ UNCHANGED <<proc, status, hmsg, aborted, finished, attempt>>

(***************************************************************************)
(* onSent compacted the history: startAutoCompactionContinuationTask       *)
(* creates the next reply m2 and starts its task, then h is finalized.     *)
(***************************************************************************)
AfterSendContinues(h, m2, h2) ==
  /\ pc[h] = "sending"
  /\ status[m2] = "none"
  /\ LET statusNow == [status EXCEPT ![m2] = "pending"] IN
     /\ status' = statusNow
     /\ StartTask(m2, h2,
                  IF settled[h] THEN tasks ELSE [tasks EXCEPT ![hmsg[h]] = NoHandle],
                  [pc EXCEPT ![h] = "free"],
                  [settled EXCEPT ![h] = TRUE])
     /\ req' = [r \in Requests |-> IF ~settled[h] /\ WaitsOn(r, h)
                                   THEN AfterStopTask(req[r], statusNow) ELSE req[r]]
  /\ UNCHANGED proc

------------------------------------------------------------------------------
(* Requests.                                                               *)

\* The server can take a request.
Free(r) == proc = "running" /\ req[r] = Idle

\* startMessageGeneration up to its first await (message:received hooks).
SendMessage(r) ==
  /\ Free(r)
  /\ ClientMayAsk
  /\ ~SomeActive
  /\ req' = [req EXCEPT ![r].at = "sendHooks"]
  /\ UNCHANGED <<proc, status, taskVars>>

\* ... and after the hooks: the pending reply and its task.
SendMessageCreates(r, m, h) ==
  /\ req[r].at = "sendHooks"
  /\ status[m] = "none"
  /\ status' = [status EXCEPT ![m] = "pending"]
  /\ StartTask(m, h, tasks, pc, settled)
  /\ req' = [req EXCEPT ![r] = Idle]
  /\ UNCHANGED proc

\* Fault: startTask replaces the task that the table holds.
RetryMessageReplaces(r, m, h) ==
  /\ Free(r)
  /\ ClientMayAsk
  /\ Exists(m)
  /\ ~SomeActive
  /\ status' = [status EXCEPT ![m] = "pending"]
  /\ StartTask(m, h, tasks, pc, settled)
  /\ UNCHANGED <<proc, req>>

(***************************************************************************)
(* retryMessageGeneration, which awaits nothing: the message is reset to   *)
(* "pending"; then startTask throws if the table still holds its last      *)
(* task.                                                                   *)
(***************************************************************************)
RetryMessage(r, m, h) ==
  /\ Free(r)
  /\ ClientMayAsk
  /\ Exists(m)
  /\ ~SomeActive
  /\ status' = [status EXCEPT ![m] = "pending"]
  /\ IF tasks[m] = NoHandle THEN StartTask(m, h, tasks, pc, settled) ELSE UNCHANGED taskVars
  /\ UNCHANGED <<proc, req>>

\* stopTask on a message with a task: abort, then wait for the completion or
\* for the grace period.
BeginStopTask(r, m, phase) ==
  /\ tasks[m] # NoHandle
  /\ aborted' = [aborted EXCEPT ![tasks[m]] = TRUE]
  /\ req' = [req EXCEPT ![r] = [at |-> phase, msg |-> m, task |-> tasks[m], saved |-> "none"]]
  /\ UNCHANGED <<proc, status, tasks, hmsg, pc, settled, finished, attempt>>

\* stopMessageGeneration; without a task it writes the status itself.
StopMessage(r, m) ==
  /\ Free(r)
  /\ Exists(m)
  /\ \/ BeginStopTask(r, m, "stopping")
     \/ /\ tasks[m] = NoHandle
        /\ status[m] \in Active
        /\ status' = [status EXCEPT ![m] = "stopped"]
        /\ UNCHANGED <<proc, taskVars, req>>

\* The controller's updateMessage and deleteMessage stop the task first.
EditMessage(r, m, stopping, hooks) ==
  /\ Free(r)
  /\ status[m] # "none"
  /\ \/ BeginStopTask(r, m, stopping)
     \/ /\ tasks[m] = NoHandle
        /\ Exists(m)
        /\ req' = [req EXCEPT ![r] = BehindHooks(hooks, m, status[m])]
        /\ UNCHANGED <<proc, status, taskVars>>

UpdateMessage(r, m) == EditMessage(r, m, "updateStopping", "updateHooks")

DeleteMessage(r, m) == EditMessage(r, m, "deleteStopping", "deleteHooks")

(***************************************************************************)
(* The 20 ms grace period is over: forceStopTask.  runTask's own timer was *)
(* due earlier, so the handle has a runtime, and a handle somebody waits   *)
(* for is not settled, so neither early return is taken.  runTask itself   *)
(* is not stopped: it goes on when the await it is suspended in returns.   *)
(***************************************************************************)
GraceExpires(r) ==
  /\ req[r].at \in Stopping
  /\ LET h == req[r].task IN
     /\ pc[h] \in Deaf
     /\ pc[h] \in Hooks => HooksOutliveGrace
     /\ IF ~Exists(hmsg[h])
        THEN /\ req' = [req EXCEPT ![r] = Idle]
             /\ UNCHANGED <<status, taskVars>>
        ELSE LET statusNow == [status EXCEPT ![hmsg[h]] = "stopped"] IN
             /\ status' = statusNow
             /\ EmitFinish(h)
             /\ FinalizeHandle(h, statusNow)
             /\ UNCHANGED <<hmsg, pc, aborted, attempt>>
  /\ UNCHANGED proc

(***************************************************************************)
(* The message:updated hooks returned: the message read before them is     *)
(* written, with its status s: that of then, unless a hook returned        *)
(* another one.                                                            *)
(***************************************************************************)
UpdateMessageWrites(r, s) ==
  /\ req[r].at = "updateHooks"
  /\ status' = IF Exists(req[r].msg) THEN [status EXCEPT ![req[r].msg] = s] ELSE status
  /\ req' = [req EXCEPT ![r] = Idle]
  /\ UNCHANGED <<proc, taskVars>>

\* The message:deleted broadcast returned: the message leaves the history.
DeleteMessageRemoves(r) ==
  /\ req[r].at = "deleteHooks"
  /\ status' = [status EXCEPT ![req[r].msg] = "deleted"]
  /\ req' = [req EXCEPT ![r] = Idle]
  /\ UNCHANGED <<proc, taskVars>>

------------------------------------------------------------------------------
\* Fault: the store does not settle interrupted replies.
RestartUnsettled ==
  /\ proc' = "running"
  /\ UNCHANGED status
  /\ FreshMemory

(***************************************************************************)
(* The process dies (or has died of a rejection) and boots again: memory   *)
(* is gone, the store settles the replies that were in progress.           *)
(***************************************************************************)
Restart ==
  /\ proc' = "running"
  /\ status' = [m \in Messages |-> IF status[m] \in Active THEN "stopped" ELSE status[m]]
  /\ FreshMemory

\* What a task does without anybody asking; ReadChunk may repeat for ever.
TaskStep(h) ==
  \/ RunTask(h)
  \/ StreamReady(h)
  \/ StreamEnds(h)
  \/ UsageRead(h)
  \/ AbortSeen(h)
  \/ \E retryable \in BOOLEAN : Catch(h, retryable)
  \/ RetryDelayOver(h)
  \/ \E rewrites \in BOOLEAN : HooksDone(h, rewrites)
  \/ AfterSend(h)
  \/ \E m2 \in Messages, h2 \in Handles : AfterSendContinues(h, m2, h2)

RequestStep(r) ==
  \/ SendMessage(r)
  \/ \E m \in Messages, h \in Handles : SendMessageCreates(r, m, h)
  \/ \E m \in Messages, h \in Handles : RetryMessage(r, m, h)
  \/ \E m \in Messages : StopMessage(r, m)
  \/ \E m \in Messages : UpdateMessage(r, m)
  \/ \E m \in Messages : DeleteMessage(r, m)
  \/ GraceExpires(r)
  \/ \E s \in {req[r].saved} \union HookStatuses : UpdateMessageWrites(r, s)
  \/ DeleteMessageRemoves(r)

Next ==
  \/ \E h \in Handles : TaskStep(h) \/ ReadChunk(h)
  \/ \E r \in Requests : RequestStep(r)
  \/ Restart

Spec == Init /\ [][Next]_vars
===============================================================================
