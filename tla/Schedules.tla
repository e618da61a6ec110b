------------------------------- MODULE Schedules -------------------------------
(***************************************************************************)
(* The two schedulers of the server, in one process that may end and start *)
(* again at any time.  They share nothing else, so that their steps        *)
(* commute: a behaviour uses both only if Together is TRUE (a bound).      *)
(***************************************************************************)
EXTENDS AutomationRuns, PluginCrons

CONSTANT Together

ASSUME TogetherAssumption == Together \in BOOLEAN

vars == <<automationVars, cronVars>>

Init == AutomationInit /\ CronInit

NoAutomations == \A a \in Automations : status[a] = "new"
NoPlugins == known = {} /\ \A j \in Jobs : jobs[j] = "absent" /\ ticks[j] = 0

Restart == AutomationRestart /\ CronRestart

Next ==
  \/ (Together \/ NoPlugins) /\ AutomationStep /\ UNCHANGED cronVars
  \/ (Together \/ NoAutomations) /\ CronStep /\ UNCHANGED automationVars
  \/ Restart

Spec == Init /\ [][Next]_vars

\* Time passes, and a timer whose time has come fires. How long runs and hooks
\* take, and what anybody asks for, is left open.
TimersRun ==
  /\ \A a \in Automations :
       /\ WF_vars(TimerExpires(a) /\ UNCHANGED cronVars)
       /\ WF_vars(AutomationFires(a) /\ UNCHANGED cronVars)
  /\ \A j \in Jobs :
       /\ WF_vars(JobExpires(j) /\ UNCHANGED automationVars)
       /\ WF_vars(JobFires(j) /\ UNCHANGED automationVars)

FairSpec == Spec /\ TimersRun
===============================================================================
