----------------------------- MODULE SubagentJob ------------------------------
(***************************************************************************)
(* What a subagent's status promises to the plugins that use it: a turn is *)
(* worked on by one worker at most, it starts from "queued", the next one  *)
(* is queued when nobody works, and a status that is over is not taken     *)
(* back to "running" by a late worker.                                     *)
(***************************************************************************)
VARIABLES
  job,      \* the status
  working   \* somebody works on the turn

Ready == {"completed", "interrupted", "error"}

Init == job = "none" /\ working = FALSE

\* A turn is queued.
Submit ==
  /\ ~working
  /\ job \in {"none"} \union Ready
  /\ job' = "queued"
  /\ UNCHANGED working

\* Work starts; the worker may give up at once.
Start ==
  /\ ~working
  /\ job \in {"queued", "running"}
  /\ job' = "running"
  /\ working' \in BOOLEAN

\* The worker ends, with an outcome, or without one ("running" stays).
Finish ==
  /\ working
  /\ working' = FALSE
  /\ job' \in Ready \union {"closed", "running"}

\* Interrupt, close, or recovery after a crash.
Withdraw ==
  /\ ~working
  /\ job # "none"
  /\ job' \in {"interrupted", "closed"}
  /\ UNCHANGED working

\* The worker is lost.
Lose ==
  /\ working' = FALSE
  /\ UNCHANGED job

Next == Submit \/ Start \/ Finish \/ Withdraw \/ Lose

Spec == Init /\ [][Next]_<<job, working>>
===============================================================================
