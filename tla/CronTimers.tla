------------------------------ MODULE CronTimers ------------------------------
(***************************************************************************)
(* The timers of cron expressions, as both schedulers of the server use    *)
(* them: one setTimeout until the next date, set anew each time.  A timer  *)
(* is far when it was just set and near when its time has come; who clears *)
(* a timer that is far and sets it again puts it off.                      *)
(***************************************************************************)
Phases == {"none", "far", "near"}

Armed(scheduled) == IF scheduled THEN "far" ELSE "none"
===============================================================================
