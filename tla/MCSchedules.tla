------------------------------ MODULE MCSchedules ------------------------------
(* One automation, and one plugin with a declared and a registered job. *)
EXTENDS SchedulesProps
CONSTANTS p, m, h
MCHome == [j \in {m, h} |-> p]
================================================================================
