------------------------- MODULE ConversationTaskProps -------------------------
(***************************************************************************)
(* What is claimed of ConversationTask.                                    *)
(***************************************************************************)
EXTENDS ConversationTask

(***************************************************************************)
(* The task table and the handles agree: the table holds exactly the       *)
(* handles that are not settled, each under its own message.  Handles that *)
(* were force-stopped go on running and call finalizeHandle again, after a *)
(* retry may have put a new handle under the same message id.              *)
(***************************************************************************)
TableMatchesHandles ==
  /\ \A m \in Messages : tasks[m] # NoHandle => hmsg[tasks[m]] = m /\ ~settled[tasks[m]]
  /\ \A h \in Handles : ~settled[h] => hmsg[h] \in Messages /\ tasks[hmsg[h]] = h

(***************************************************************************)
(* A reply shown as "streaming" is shown so by its task, which reads its   *)
(* stream, or is feigned: nobody generates it.                             *)
(***************************************************************************)
AtWork(m) == tasks[m] # NoHandle /\ pc[tasks[m]] \in {"reading", "usage"}

Shown   == {m \in Messages : status[m] = "streaming" /\ proc = "running" /\ AtWork(m)}
Feigned == {m \in Messages : status[m] = "streaming" /\ proc = "running" /\ ~AtWork(m)}

\* A message:updated hook returned another status for m than the one that was read.
HookChooses(m) ==
  \E r \in Requests, s \in HookStatuses :
    req[r].msg = m /\ s # req[r].saved /\ UpdateMessageWrites(r, s)

(***************************************************************************)
(* Only a message:updated hook that says so feigns a "streaming" reply: no *)
(* late snapshot of a stopped task, no end of a task, no retry and no      *)
(* restart leaves "streaming" behind, and an edit writes it back only if   *)
(* it was feigned when the edit read it.                                   *)
(***************************************************************************)
Deceives(m) ==
  \/ m \in Feigned
  \/ \E r \in Requests : req[r].at = "updateHooks" /\ req[r].msg = m /\ req[r].saved = "streaming"

OnlyHooksFeign == [][\A m \in Messages : Deceives(m)' => Deceives(m) \/ HookChooses(m)]_vars

(***************************************************************************)
(* The listeners of a task that ended were told so: whatever ended it, the *)
(* "finish" event came before the listeners were cut off.                  *)
(***************************************************************************)
FinishAnnounced == \A h \in Handles : settled[h] => finished[h]

(***************************************************************************)
(* A request that stopTask keeps waiting, waits for a task that is still   *)
(* in the table and was told to abort: it can be neither forgotten nor     *)
(* left waiting for a task of somebody else.                               *)
(***************************************************************************)
WaitersAreServed ==
  \A r \in Requests : req[r].at \in Stopping =>
    /\ req[r].task = tasks[req[r].msg]
    /\ req[r].task \in Handles
    /\ aborted[req[r].task]

(***************************************************************************)
(* Nobody waits in vain for the end of a task: neither a stream nor a stop.*)
(***************************************************************************)
NobodyWaitsInVain == FinishAnnounced /\ WaitersAreServed

(***************************************************************************)
(* A reply that was stopped while its provider did not answer stays as the *)
(* stop left it: when the provider answers late, or fails late, the task   *)
(* ends without touching any message.                                      *)
(***************************************************************************)
LateProviderAnswerIgnored ==
  [][\A h \in Handles :
       settled[h] /\ pc[h] \notin Hooks /\ (TaskStep(h) \/ ReadChunk(h)) => status' = status]_vars

(***************************************************************************)
(* The task table with the replies shown as "streaming" implements         *)
(* ResponseOwnership: a message never passes from one task to another      *)
(* without being released, a task takes no message that is feigned, and    *)
(* what a task has shown it takes back before it lets its message go.      *)
(***************************************************************************)
Ownership == INSTANCE ResponseOwnership
  WITH Owners <- Handles, NoOwner <- NoHandle, owner <- tasks, streaming <- Shown,
       feigned <- Feigned

OwnershipSpec == Ownership!Spec

------------------------------------------------------------------------------
(* Promises that need disciplined clients and quick hooks.                 *)

(***************************************************************************)
(* "One reply at a time": the check in startMessageGeneration and          *)
(* retryMessageGeneration is there so that a conversation never generates  *)
(* two replies.                                                            *)
(***************************************************************************)
OneActiveReply ==
  \A m, n \in Messages : status[m] \in Active /\ status[n] \in Active => m = n

\* A reply in progress has a task that will end it.
Unattended(m) == status[m] \in Active /\ tasks[m] = NoHandle
ActiveHasTask == \A m \in Messages : ~Unattended(m)

\* The task table holds one task at most.
OneTask == \A m, n \in Messages : tasks[m] # NoHandle /\ tasks[n] # NoHandle => m = n

\* No task rejects without a handler, which would end the process.
NoUnhandledRejection == proc = "running"

(***************************************************************************)
(* The conversation generates one reply at most, and a reply in progress   *)
(* loses its task by no stop, end, failure or restart: the only one that   *)
(* is in progress without a task is one that a message:updated hook has    *)
(* set to "pending" or "streaming".                                        *)
(***************************************************************************)
OneReplyAtWork ==
  /\ [](OneTask /\ NoUnhandledRejection)
  /\ [][\A m \in Messages : Unattended(m)' => Unattended(m) \/ HookChooses(m)]_vars

(***************************************************************************)
(* Once a stop, an edit or a delete got its task settled, only a retry, a  *)
(* delete or a message:updated hook that returns another status makes the  *)
(* reply change again: "stopped" is final.                                 *)
(***************************************************************************)
StopIsFinal ==
  [][\A m \in Messages : status[m] = "stopped" /\ status'[m] # "stopped"
       => status'[m] \in {"pending", "deleted"} \/ HookChooses(m)]_vars

------------------------------------------------------------------------------
(* Liveness.                                                               *)

(***************************************************************************)
(* The event loop runs due timers and resolved promises: runTask starts,   *)
(* an abort is noticed, the grace period expires.  Nothing is assumed of   *)
(* providers, hooks or clients.                                            *)
(***************************************************************************)
TimersFair ==
  /\ \A h \in Handles : WF_vars(RunTask(h)) /\ WF_vars(AbortSeen(h))
  /\ \A r \in Requests : WF_vars(GraceExpires(r))

TimedSpec == Spec /\ TimersFair

(***************************************************************************)
(* stopTask always returns, even when the provider and the hooks never do: *)
(* the request goes on to its next step.                                   *)
(***************************************************************************)
StopReturns == \A r \in Requests : req[r].at \in Stopping ~> req[r].at \notin Stopping

\* Every reply that has a task ends: asked where providers answer, streams
\* end and hooks return (AnsweringStreams of TaskStreamProps).
EveryReplyEnds ==
  \A m \in Messages : status[m] \in Active /\ tasks[m] # NoHandle ~> status[m] \notin Active
===============================================================================
