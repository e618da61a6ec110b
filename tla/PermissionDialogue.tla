-------------------------- MODULE PermissionDialogue ---------------------------
(***************************************************************************)
(* What the user of a conversation is promised about one tool call: a      *)
(* question is asked at most once and gets one verdict, the tool runs only *)
(* if nothing had to be asked or the answer was yes, and a call that was   *)
(* turned down never touches the session.                                  *)
(***************************************************************************)
CONSTANT Calls

VARIABLES
  verdict, \* [Calls -> {"none", "request", "approved", "rejected"}]
  running  \* the calls whose tool is at work

Init ==
  /\ verdict = [c \in Calls |-> "none"]
  /\ running = {}

Ask(c) ==
  /\ verdict[c] = "none" /\ c \notin running
  /\ verdict' = [verdict EXCEPT ![c] = "request"]
  /\ UNCHANGED running

Answer(c) ==
  /\ verdict[c] = "request"
  /\ \E v \in {"approved", "rejected"} : verdict' = [verdict EXCEPT ![c] = v]
  /\ UNCHANGED running

\* A call of a stopped task is turned down without a question.
TurnDown(c) ==
  /\ verdict[c] = "none" /\ c \notin running
  /\ verdict' = [verdict EXCEPT ![c] = "rejected"]
  /\ UNCHANGED running

Run(c) ==
  /\ verdict[c] \in {"none", "approved"}
  /\ running' = running \union {c}
  /\ UNCHANGED verdict

Return(c) ==
  /\ verdict[c] # "request"
  /\ verdict' = [verdict EXCEPT ![c] = "none"]
  /\ running' = running \ {c}

\* The server is lost with its questions and its tools.
Lose ==
  /\ verdict' = [c \in Calls |-> "none"]
  /\ running' = {}

Next ==
  \/ \E c \in Calls : Ask(c) \/ Answer(c) \/ TurnDown(c) \/ Run(c) \/ Return(c)
  \/ Lose

Spec == Init /\ [][Next]_<<verdict, running>>
===============================================================================
