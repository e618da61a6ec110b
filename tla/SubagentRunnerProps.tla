-------------------------- MODULE SubagentRunnerProps --------------------------
(***************************************************************************)
(* What is claimed of SubagentRunner.                                      *)
(***************************************************************************)
EXTENDS SubagentRunner

\* The reply of the turn was deleted (a turn without a recorded reply may have
\* lost any).
ReplyIsGone == \E m \in Replies : reply[m] = "deleted" /\ active \in {0, m}

(***************************************************************************)
(* While an execution is active the status is "running", no second         *)
(* execution is scheduled, and nobody but the execution ends it; a         *)
(* scheduled turn is one that is queued (or a running one that was         *)
(* abandoned): the timer of a turn that was interrupted, closed or         *)
(* finished never fires.                                                   *)
(***************************************************************************)
ExecutionOwnsStatus ==
  /\ phase # "idle" => sub = "running" /\ ~timer /\ target \in Replies
  /\ timer => sub \in Unsettled /\ proc = "up"

(***************************************************************************)
(* No turn is forgotten: while the server is up, a queued or running       *)
(* subagent has a timer or an execution, whatever was interrupted, crashed *)
(* or torn before; only deleting the turn's reply can leave it behind.     *)
(***************************************************************************)
TurnIsCarried ==
  proc = "up" /\ sub \in Unsettled => timer \/ phase # "idle" \/ ReplyIsGone

(***************************************************************************)
(* No wake-up is lost: who waits in waitSubagent has a timer or an         *)
(* execution that will notify it, with the same exception.                 *)
(***************************************************************************)
WaiterIsCarried == waiting # {} => timer \/ phase # "idle" \/ ReplyIsGone

\* Neither a turn nor who waits for it is forgotten.
NobodyIsForgotten == TurnIsCarried /\ WaiterIsCarried

(***************************************************************************)
(* A wait that was notified (not one whose timeout was first) reports the  *)
(* outcome of the turn, never "queued" or "running", unless the turn's     *)
(* reply was deleted.                                                      *)
(***************************************************************************)
WaitSeesOutcome ==
  [][\A w \in waiting : w \notin waiting' /\ proc' = "up" /\ ~WaitTimesOut(w)
       => sub' \in Finished \/ ReplyIsGone]_vars

(***************************************************************************)
(* The subagent's status with its execution implements SubagentJob.        *)
(***************************************************************************)
Job == INSTANCE SubagentJob WITH job <- sub, working <- (phase # "idle")

JobSpec == Job!Spec

------------------------------------------------------------------------------
(* Promises for histories that nobody edits and writes that are not torn.  *)

(***************************************************************************)
(* A subagent that finished, was interrupted or closed, or is queued for   *)
(* its next turn, shows no reply as still being generated, except the      *)
(* pending one of the queued turn.                                         *)
(***************************************************************************)
TurnEndsItsReplies ==
  /\ sub \in Finished => OpenReplies = {}
  /\ sub = "queued" => OpenReplies = {active}

------------------------------------------------------------------------------
(* Liveness.                                                               *)

\* The event loop fires the timer, providers, hooks and compactions return:
\* the code sets no timeout on any of them, so the latter is assumed.
Answering == WF_vars(TurnStep)

\* A process that went down is started again.
Restarted == WF_vars(Boot)

FairSpec == Spec /\ Answering /\ Restarted

(***************************************************************************)
(* waitSubagent without a timeout returns, and interruptSubagent and       *)
(* closeSubagent get their execution ended.                                *)
(***************************************************************************)
CallsReturn ==
  /\ \A w \in Waiters : w \in waiting ~> w \notin waiting
  /\ \A r \in Callers : req[r].at \in {"interrupting", "closing"} ~>
                        req[r].at \notin {"interrupting", "closing"}

(***************************************************************************)
(* "After a restart of the server a running subagent is marked interrupted *)
(* and a queued one goes on": the server comes up again.                   *)
(***************************************************************************)
ServerComesUp == proc = "down" ~> proc = "up"

\* Neither a call nor a start of the server hangs.
NothingHangs == CallsReturn /\ ServerComesUp
===============================================================================
