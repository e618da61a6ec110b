---------------------------- MODULE TaskStreamProps ----------------------------
(***************************************************************************)
(* What is claimed of the event streams, together with the promises of     *)
(* ConversationTaskProps that need the same clients and hooks.             *)
(***************************************************************************)
EXTENDS TaskStream, ConversationTaskProps

(***************************************************************************)
(* A stream that follows a reply listens to the task the table holds, and  *)
(* was last told the status the store has: whenever it attached, whatever  *)
(* failed or was retried since.  The one lag is the documented one, a      *)
(* complete reply is told when the completion hooks are through.           *)
(***************************************************************************)
ViewIsCurrent ==
  stream.at = "following" =>
    /\ stream.task = tasks[stream.msg]
    /\ \/ stream.told \in {"none", status[stream.msg]}
       \/ pc[stream.task] = "completing" /\ stream.told = "streaming"

(***************************************************************************)
(* [DONE] is the end: the stream leaves a reply with the outcome the store *)
(* has, and closes only when no task is left, so that the client's next    *)
(* send is accepted.  (A reply that is not the last one of the history is  *)
(* excepted: its continuation does not come right behind it.)              *)
(***************************************************************************)
Leaves == stream.at = "following" /\ stream'.msg # stream.msg /\ proc' = "running" /\ ~Restart

DoneIsTheEnd ==
  [][Leaves =>
       /\ Told(stream.task) \in {"none", status'[stream.msg]}
       /\ stream' = Closed /\ stream.msg = newest => \A m \in Messages : tasks'[m] = NoHandle
    ]_streamVars

(***************************************************************************)
(* Providers answer, streams end, hooks return: the code sets no timeout   *)
(* on any of them, so this is an assumption on the environment.            *)
(***************************************************************************)
AnsweringStreams == StreamSpec /\ \A h \in Handles : WF_streamVars(ViewedTaskStep(h))

(***************************************************************************)
(* Then every reply that was started ends, whatever fails and however      *)
(* often it is retried, and so does every stream that follows one, through *)
(* all continuations.                                                      *)
(***************************************************************************)
FollowingEnds == stream.at = "following" ~> stream.at # "following"
RepliesAndStreamsEnd == EveryReplyEnds /\ FollowingEnds
===============================================================================
