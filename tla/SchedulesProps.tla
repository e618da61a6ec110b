----------------------------- MODULE SchedulesProps -----------------------------
(* What the schedulers must satisfy. *)
EXTENDS Schedules

RunRecords == [pc : {"idle", "pruning", "acting"},
               automation : Automations \union {NoAutomation},
               child : Children \union {NoChild},
               doomed : SUBSET Children, kept : SUBSET Children]

\* Every variable has the shape the handlers give it.
TypeOK ==
  /\ status \in [Automations -> {"new", "listed", "removed"}]
  /\ def \in [Automations -> Definitions]
  /\ history \in [Automations -> SUBSET Children]
  /\ saved \in [Automations -> SUBSET Children]
  /\ timer \in [Automations -> Phases]
  /\ runs \in [Slots -> RunRecords]
  /\ parent \in BOOLEAN
  /\ children \in [Children -> Automations \union {NoAutomation}]
  /\ unsaved \subseteq Children
  /\ lost \subseteq Children
  /\ touched \subseteq Automations
  /\ known \subseteq Plugins
  /\ crons \in [ManifestJobs -> JobStates]
  /\ jobs \in [Jobs -> JobStates]
  /\ cronTimer \in [Jobs -> Phases]
  /\ ticks \in [Jobs -> 0 .. MaxTicks]
  /\ reread \subseteq Jobs

\* Whatever is on has a timer or a run that will set it when it ends, although
\* definitions, lists and plugins change during runs; and a plugin's job that is
\* not on has no timer.
ScheduleIsKept ==
  /\ \A a \in Automations : Scheduled(a) => timer[a] # "none" \/ Running(a)
  /\ \A j \in Jobs : jobs[j] = "on" => cronTimer[j] # "none" \/ ticks[j] > 0
  /\ \A j \in Jobs : cronTimer[j] # "none" => jobs[j] = "on"

\* Two runs of one automation, or two ticks of one job, go on at once only if
\* the automation was changed, or the jobs listed, during the first.
OneRunAtATime ==
  /\ \A a \in Automations : \A r, q \in Slots :
       r # q /\ runs[r].automation = a /\ runs[q].automation = a => a \in touched
  /\ \A j \in Jobs : ticks[j] > 1 => j \in reread

Held(a) == UNION {{runs[r].child} \union runs[r].doomed \union runs[r].kept :
                    r \in {q \in Slots : runs[q].automation = a}}

\* The conversations of an automation's runs are in its history or in the hands
\* of a run, so that they will be pruned, and it never keeps more than asked:
\* unless the process ended during a run, or two runs overlapped.
RunsAreRemembered ==
  \A a \in Automations :
    LET mine == {c \in Children : children[c] = a /\ c \notin unsaved \union lost}
    IN status[a] = "listed" =>
         /\ mine \subseteq history[a] \union Held(a)
         /\ ~Running(a) => Cardinality(mine) <= MaxHistory

\* An automation or a job whose timer nobody sets anew runs again and again, or
\* stays in a run that does not end: if it is on, and the server stays up. An
\* automation whose conversation is gone is tried again and again, in vain: that
\* is ticking, not a request.
KeepsTicking ==
  /\ \A a \in Automations :
       \/ []<>~Scheduled(a)
       \/ []<>Running(a)
       \/ []<><<FiresInVain(a)>>_vars
       \/ []<><<(AutomationAsked(a) /\ ~FiresInVain(a)) \/ AutomationRestart>>_vars
       \/ []<>(\A c \in Children : ~Unused(c))
  /\ \A j \in Jobs :
       \/ []<>(jobs[j] # "on")
       \/ []<>(ticks[j] > 0)
       \/ []<><<Reconciles(Home[j]) \/ CronRestart>>_vars
================================================================================
