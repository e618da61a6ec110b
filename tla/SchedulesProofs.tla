---------------------------- MODULE SchedulesProofs ----------------------------
(***************************************************************************)
(* Proofs about Schedules, for any number of automations, runs,            *)
(* conversations, plugins and jobs.                                        *)
(*                                                                         *)
(* TimersInv and CronsInv add to the properties that a timer which is set  *)
(* during a run was set by a request, and why a job whose timer is not set *)
(* has a tick under way.  MemoryInv, further down, is why the history of   *)
(* an automation misses no conversation.                                   *)
(***************************************************************************)
EXTENDS SchedulesProps, FiniteSetTheorems, TLAPS

TimersInv ==
  /\ \A a \in Automations :
       /\ Scheduled(a) => timer[a] # "none" \/ Running(a)
       /\ timer[a] # "none" /\ Running(a) => a \in touched
       /\ \A r, q \in Slots :
            r # q /\ runs[r].automation = a /\ runs[q].automation = a => a \in touched
       /\ status[a] = "new" => timer[a] = "none" /\ ~Running(a)
  /\ \A r \in Slots : /\ runs[r].pc = "idle" => runs[r] = NoRun
                      /\ runs[r].pc # "idle" => runs[r].automation \in Automations
                      /\ runs[r].pc = "pruning" => runs[r].child \in Children

CronsInv ==
  \A j \in Jobs :
    /\ jobs[j] = "on" => cronTimer[j] # "none" \/ ticks[j] > 0
    /\ cronTimer[j] # "none" => jobs[j] = "on"
    /\ cronTimer[j] # "none" /\ ticks[j] > 0 => j \in reread
    /\ ticks[j] > 1 => j \in reread

USE AutomationAssumption, CronAssumption

-------------------------------------------------------------------------------
(* Types. *)

LEMMA GoesOnTypes ==
  ASSUME TypeOK, NEW r \in Slots,
         NEW run \in RunRecords, run.automation \in Automations,
         NEW cs \in [Children -> Automations \union {NoAutomation}],
         NEW gone \in SUBSET Children,
         GoesOn(r, run, cs, gone)
  PROVE  /\ children' \in [Children -> Automations \union {NoAutomation}]
         /\ history' \in [Automations -> SUBSET Children]
         /\ runs' \in [Slots -> RunRecords]
         /\ unsaved' \subseteq Children
<1>1. children' = cs
  BY DEF GoesOn
<1>2. PICK rest \in SUBSET Children :
        \/ /\ history' = [history EXCEPT ![run.automation] = run.kept]
           /\ runs' = [runs EXCEPT ![r] =
                         [run EXCEPT !.pc = "acting", !.doomed = {}, !.kept = {}]]
           /\ unsaved' = gone
        \/ \E c \in rest :
             /\ runs' = [runs EXCEPT ![r] =
                           [run EXCEPT !.pc = "pruning", !.doomed = rest \ {c}]]
             /\ unsaved' = gone \union {c}
             /\ UNCHANGED history
  <2> DEFINE rest == {c \in run.doomed : cs[c] # NoAutomation /\ c \notin gone}
  <2>1. rest \in SUBSET Children
    BY DEF RunRecords
  <2>2. \/ /\ history' = [history EXCEPT ![run.automation] = run.kept]
           /\ runs' = [runs EXCEPT ![r] =
                         [run EXCEPT !.pc = "acting", !.doomed = {}, !.kept = {}]]
           /\ unsaved' = gone
        \/ \E c \in rest :
             /\ runs' = [runs EXCEPT ![r] =
                           [run EXCEPT !.pc = "pruning", !.doomed = rest \ {c}]]
             /\ unsaved' = gone \union {c}
             /\ UNCHANGED history
    BY DEF GoesOn
  <2> HIDE DEF rest
  <2> QED BY <2>1, <2>2
<1>3. CASE /\ history' = [history EXCEPT ![run.automation] = run.kept]
           /\ runs' = [runs EXCEPT ![r] =
                         [run EXCEPT !.pc = "acting", !.doomed = {}, !.kept = {}]]
           /\ unsaved' = gone
  <2>1. [run EXCEPT !.pc = "acting", !.doomed = {}, !.kept = {}]
          \in RunRecords
    BY DEF RunRecords
  <2>2. run.kept \in SUBSET Children
    BY DEF RunRecords
  <2> QED BY <1>1, <1>3, <2>1, <2>2 DEF TypeOK
<1>4. ASSUME NEW c \in rest,
             runs' = [runs EXCEPT ![r] = [run EXCEPT !.pc = "pruning", !.doomed = rest \ {c}]],
             unsaved' = gone \union {c}, UNCHANGED history
      PROVE  /\ history' \in [Automations -> SUBSET Children]
             /\ runs' \in [Slots -> RunRecords]
             /\ unsaved' \subseteq Children
  <2>1. [run EXCEPT !.pc = "pruning", !.doomed = rest \ {c}]
          \in RunRecords
    BY DEF RunRecords
  <2> QED BY <1>4, <2>1 DEF TypeOK
<1>5. children' \in [Children -> Automations \union {NoAutomation}]
  BY <1>1
<1> QED BY <1>2, <1>3, <1>4, <1>5

LEMMA RequestTypes ==
  ASSUME TypeOK, NEW a \in Automations, AutomationAsked(a), UNCHANGED cronVars
  PROVE  TypeOK'
<1>1. ASSUME NEW d \in Definitions, Sync(a, d)
      PROVE  timer' \in [Automations -> Phases] /\ touched' \subseteq Automations
  BY <1>1 DEF Sync, Armed, Phases, TypeOK
<1>2. ASSUME NEW d \in Definitions, Create(a, d) PROVE TypeOK'
  BY <1>1, <1>2 DEF Create, TypeOK, Persist, cronVars
<1>3. ASSUME NEW d \in Definitions, Update(a, d) PROVE TypeOK'
  BY <1>1, <1>3 DEF Update, TypeOK, Persist, cronVars
<1>4. ASSUME Toggle(a) PROVE TypeOK'
  <2>1. def' \in [Automations -> Definitions] /\ def'[a] \in Definitions
    <3> DEFINE d == [cron |-> def[a].cron, enabled |-> ~def[a].enabled, keep |-> def[a].keep]
    <3>1. def[a] \in Definitions
      BY DEF TypeOK
    <3>a. def[a].enabled \in BOOLEAN
      BY <3>1 DEF Definitions
    <3>2. (~def[a].enabled) \in BOOLEAN
      BY <3>a
    <3>3. d \in Definitions
      BY <3>1, <3>2 DEF Definitions
    <3>4. [def[a] EXCEPT !.enabled = ~@] = d
      BY <3>1 DEF Definitions
    <3>5. def' = [def EXCEPT ![a] = d]
      BY <1>4, <3>4 DEF Toggle
    <3> QED BY <3>3, <3>5 DEF TypeOK
  <2>2. timer' \in [Automations -> Phases] /\ touched' \subseteq Automations
    BY <1>4, <2>1, <1>1 DEF Toggle
  <2> QED BY <1>4, <2>1, <2>2 DEF Toggle, TypeOK, Persist, cronVars
<1>5. ASSUME Remove(a) PROVE TypeOK'
  BY <1>5 DEF Remove, TypeOK, Persist, cronVars, Phases
<1> QED BY <1>2, <1>3, <1>4, <1>5 DEF AutomationAsked

LEMMA RunTypes ==
  ASSUME TypeOK, TimersInv, AutomationStep, UNCHANGED cronVars
  PROVE  TypeOK'
<1>1. Saved \in [Children -> Automations \union {NoAutomation}]
  BY DEF Saved, TypeOK
<1>2. ASSUME NEW a \in Automations, TimerExpires(a) \/ FiresForNothing(a) \/ FiresWithoutChild(a)
                                    \/ FiresInVain(a)
      PROVE  TypeOK'
  <2>1. CASE TimerExpires(a)
    BY <2>1 DEF TimerExpires, TypeOK, Phases, cronVars
  <2>2. CASE FiresForNothing(a)
    BY <2>2 DEF FiresForNothing, TypeOK, Phases, cronVars
  <2>3. CASE FiresWithoutChild(a)
    <3>1. PICK r \in Slots :
            runs' = [runs EXCEPT ![r] = [NoRun EXCEPT !.pc = "acting", !.automation = a]]
      BY <2>3 DEF FiresWithoutChild
    <3>2. [NoRun EXCEPT !.pc = "acting", !.automation = a]
            \in RunRecords
      BY DEF NoRun, RunRecords
    <3> HIDE DEF NoRun
    <3> QED BY <2>3, <3>1, <3>2 DEF FiresWithoutChild, Fired, TypeOK, Phases, cronVars
  <2>4. CASE FiresInVain(a)
    BY <2>4 DEF FiresInVain, Armed, Persist, TypeOK, Phases, cronVars
  <2> QED BY <1>2, <2>1, <2>2, <2>3, <2>4
<1>3. ASSUME NEW a \in Automations, FiresWithChild(a) PROVE TypeOK'
  <2>1. PICK r \in Slots, c \in Children, doomed \in SUBSET Children :
          GoesOn(r, [NoRun EXCEPT !.automation = a, !.child = c, !.doomed = doomed,
                       !.kept = ({d \in history[a] : Exists(d)} \ doomed) \union {c}],
                 [Saved EXCEPT ![c] = a], {})
    BY <1>3 DEF FiresWithChild, TypeOK
  <2> DEFINE run == [NoRun EXCEPT !.automation = a, !.child = c, !.doomed = doomed,
                       !.kept = ({d \in history[a] : Exists(d)} \ doomed) \union {c}]
  <2>2. run \in RunRecords /\ run.automation \in Automations
    BY DEF NoRun, TypeOK, RunRecords
  <2>3. [Saved EXCEPT ![c] = a] \in [Children -> Automations \union {NoAutomation}]
    BY <1>1
  <2>4. /\ children' \in [Children -> Automations \union {NoAutomation}]
        /\ history' \in [Automations -> SUBSET Children]
        /\ runs' \in [Slots -> RunRecords]
        /\ unsaved' \subseteq Children
    BY <2>1, <2>2, <2>3, GoesOnTypes
  <2>5. lost' \subseteq Children
    BY <1>3, <2>4 DEF FiresWithChild, TypeOK, TimersInv
  <2>6. timer' \in [Automations -> Phases]
    BY <1>3 DEF FiresWithChild, Fired, TypeOK, Phases
  <2> QED BY <1>3, <2>4, <2>5, <2>6 DEF FiresWithChild, TypeOK, cronVars
<1>4. ASSUME NEW r \in Slots, NEW well \in BOOLEAN, PruneEnds(r, well) PROVE TypeOK'
  <2>1. runs[r] \in RunRecords /\ runs[r].automation \in Automations
    BY <1>4 DEF PruneEnds, TimersInv, TypeOK
  <2>2. /\ children' \in [Children -> Automations \union {NoAutomation}]
        /\ history' \in [Automations -> SUBSET Children]
        /\ runs' \in [Slots -> RunRecords]
        /\ unsaved' \subseteq Children
    <3>1. CASE well
      <4>1. GoesOn(r, runs[r], Saved, {})
        BY <1>4, <3>1 DEF PruneEnds
      <4> QED BY <1>1, <2>1, <4>1, GoesOnTypes
    <3>2. CASE ~well
      <4>1. GoesOn(r, runs[r], children, unsaved)
        BY <1>4, <3>2 DEF PruneEnds
      <4>2. children \in [Children -> Automations \union {NoAutomation}] /\ unsaved \in SUBSET Children
        BY DEF TypeOK
      <4> QED BY <2>1, <4>1, <4>2, GoesOnTypes
    <3> QED BY <3>1, <3>2
  <2> QED BY <1>4, <2>2 DEF PruneEnds, TypeOK, cronVars
<1>5. ASSUME NEW r \in Slots, RunEnds(r) PROVE TypeOK'
  BY <1>5 DEF RunEnds, Armed, Persist, NoRun, TypeOK, RunRecords, Phases, cronVars
<1>6. CASE OtherRunEnds
  BY <1>6 DEF OtherRunEnds, Persist, TypeOK, cronVars
<1>7. ASSUME NEW c \in Children, DeleteChild(c) PROVE TypeOK'
  BY <1>1, <1>7 DEF DeleteChild, TypeOK, cronVars
<1>8. CASE DeleteParent
  BY <1>8 DEF DeleteParent, TypeOK, cronVars
<1>9. CASE StoreSaves
  BY <1>1, <1>9 DEF StoreSaves, TypeOK, cronVars
<1> QED BY <1>2, <1>3, <1>4, <1>5, <1>6, <1>7, <1>8, <1>9, RequestTypes
        DEF AutomationStep, AutomationFires

LEMMA CronTypes ==
  ASSUME TypeOK, CronStep, UNCHANGED automationVars
  PROVE  TypeOK'
<1>1. ASSUME NEW p \in Plugins, NEW list \in [Jobs -> JobStates], Writes(p, list),
             UNCHANGED <<known, crons, ticks>>
      PROVE  TypeOK'
  BY <1>1 DEF Writes, Synced, Armed, JobsOf, Phases, TypeOK, automationVars
<1>2. ASSUME NEW p \in Plugins PROVE Merged(p) \in [Jobs -> JobStates]
  BY DEF Merged, TypeOK, JobStates, Jobs
<1>3. ASSUME NEW p \in Plugins, Reconciles(p) PROVE TypeOK'
  <2>1. PICK list \in [Jobs -> JobStates], q \in Plugins : Writes(q, list)
    <3>1. CASE ListJobs(p)
      BY <3>1, <1>2 DEF ListJobs
    <3>2. ASSUME NEW j \in HostJobs, NEW state \in {"on", "off"}, Register(j, state)
          PROVE  \E list \in [Jobs -> JobStates], q \in Plugins : Writes(q, list)
      <4>1. Home[j] \in Plugins
        BY DEF Jobs
      <4>2. [Merged(Home[j]) EXCEPT ![j] = state] \in [Jobs -> JobStates]
        BY <1>2, <4>1 DEF JobStates
      <4> QED BY <3>2, <4>1, <4>2 DEF Register
    <3>3. ASSUME NEW j \in JobsOf(p), DeleteJob(j)
          PROVE  \E list \in [Jobs -> JobStates], q \in Plugins : Writes(q, list)
      <4>1. j \in Jobs /\ Home[j] \in Plugins
        BY DEF JobsOf
      <4>2. Merged(Home[j]) \in [Jobs -> JobStates]
        BY <1>2, <4>1
      <4>3. [Merged(Home[j]) EXCEPT ![j] = "absent"] \in [Jobs -> JobStates]
        BY <4>2 DEF JobStates
      <4> QED BY <3>3, <4>1, <4>2, <4>3 DEF DeleteJob
    <3> QED BY <1>3, <3>1, <3>2, <3>3 DEF Reconciles
  <2>2. UNCHANGED <<known, crons, ticks>>
    BY <1>3 DEF Reconciles, ListJobs, Register, DeleteJob
  <2> QED BY <1>1, <2>1, <2>2
<1>4. ASSUME NEW p \in Plugins, UpsertPlugin(p) PROVE TypeOK'
  BY <1>4 DEF UpsertPlugin, TypeOK, automationVars
<1>5. ASSUME NEW p \in Plugins, DeletePlugin(p) PROVE TypeOK'
  BY <1>5 DEF DeletePlugin, TypeOK, JobStates, Phases, automationVars
<1>6. ASSUME NEW j \in Jobs, JobExpires(j) \/ JobFires(j) \/ TickEnds(j) PROVE TypeOK'
  <2>1. CASE JobExpires(j)
    BY <2>1 DEF JobExpires, TypeOK, Phases, automationVars
  <2>2. CASE JobFires(j)
    BY <2>2 DEF JobFires, TypeOK, Phases, automationVars
  <2>3. CASE TickEnds(j)
    BY <2>3 DEF TickEnds, AfterTick, Armed, TypeOK, Phases, automationVars
  <2> QED BY <1>6, <2>1, <2>2, <2>3
<1> QED BY <1>3, <1>4, <1>5, <1>6 DEF CronStep
-------------------------------------------------------------------------------
(* Timers and runs. *)

\* How GoesOn changes a run.
LEMMA RunGoesOn ==
  ASSUME TypeOK, NEW r \in Slots, NEW run \in RunRecords, run.automation \in Automations,
         NEW cs, NEW gone,
         GoesOn(r, run, cs, gone)
  PROVE  /\ \A q \in Slots : q # r => runs'[q] = runs[q]
         /\ runs'[r].automation = run.automation
         /\ runs'[r].child = run.child
         /\ runs'[r].pc \in {"acting", "pruning"}
         /\ runs'[r].pc = "pruning" => runs'[r].kept = run.kept
<1> DEFINE rest == {c \in run.doomed : cs[c] # NoAutomation /\ c \notin gone}
<1>1. \/ runs' = [runs EXCEPT ![r] = [run EXCEPT !.pc = "acting", !.doomed = {}, !.kept = {}]]
      \/ \E c \in rest :
           runs' = [runs EXCEPT ![r] = [run EXCEPT !.pc = "pruning", !.doomed = rest \ {c}]]
  BY DEF GoesOn
<1> HIDE DEF rest
<1>2. CASE runs' = [runs EXCEPT ![r] = [run EXCEPT !.pc = "acting", !.doomed = {}, !.kept = {}]]
  BY <1>2 DEF TypeOK, RunRecords
<1>3. ASSUME NEW c \in rest,
             runs' = [runs EXCEPT ![r] = [run EXCEPT !.pc = "pruning", !.doomed = rest \ {c}]]
      PROVE  /\ \A q \in Slots : q # r => runs'[q] = runs[q]
             /\ runs'[r].automation = run.automation
             /\ runs'[r].child = run.child
             /\ runs'[r].pc \in {"acting", "pruning"}
             /\ runs'[r].pc = "pruning" => runs'[r].kept = run.kept
  BY <1>3 DEF TypeOK, RunRecords
<1> QED BY <1>1, <1>2, <1>3

LEMMA RequestTimers ==
  ASSUME TypeOK, TimersInv, NEW a \in Automations, AutomationAsked(a), UNCHANGED cronVars
  PROVE  TimersInv'
<1>1. UNCHANGED runs
  BY DEF AutomationAsked, Create, Update, Toggle, Remove
<1>2. \A b \in Automations \ {a} :
        /\ timer'[b] = timer[b] /\ status'[b] = status[b] /\ def'[b] = def[b]
        /\ b \in touched => b \in touched'
  BY DEF AutomationAsked, Create, Update, Toggle, Remove, Sync, TypeOK
<1>3. /\ Scheduled(a)' => timer'[a] # "none"
      /\ timer'[a] # "none" /\ Running(a) => a \in touched'
      /\ a \in touched => a \in touched'
      /\ status'[a] # "new"
  <2>1. CASE Remove(a)
    BY <2>1 DEF Remove, Scheduled, TypeOK
  <2>2. ASSUME NEW d, Sync(a, d)
        PROVE  /\ timer'[a] = Armed(d.enabled /\ d.cron)
               /\ Running(a) => a \in touched'
               /\ a \in touched => a \in touched'
    BY <2>2 DEF Sync, TypeOK
  <2>3. ASSUME NEW d \in Definitions, Create(a, d) \/ Update(a, d)
        PROVE  Sync(a, d) /\ def'[a] = d /\ status'[a] = "listed"
    BY <2>3 DEF Create, Update, TypeOK
  <2>4. CASE Toggle(a)
    <3>1. Sync(a, def'[a]) /\ status'[a] = "listed"
      BY <2>4 DEF Toggle
    <3> QED BY <2>2, <3>1 DEF Scheduled, Armed
  <2>5. CASE \E d \in Definitions : Create(a, d) \/ Update(a, d)
    BY <2>2, <2>3, <2>5 DEF Scheduled, Armed
  <2> QED BY <2>1, <2>4, <2>5 DEF AutomationAsked
<1>4. \A b \in Automations : Running(b)' <=> Running(b)
  BY <1>1 DEF Running
<1>5. ASSUME NEW b \in Automations
      PROVE  /\ Scheduled(b)' => timer'[b] # "none" \/ Running(b)'
             /\ timer'[b] # "none" /\ Running(b)' => b \in touched'
             /\ \A r, q \in Slots :
                  r # q /\ runs'[r].automation = b /\ runs'[q].automation = b => b \in touched'
             /\ status'[b] = "new" => timer'[b] = "none" /\ ~Running(b)'
  <2>1. CASE b = a
    BY <1>1, <1>3, <1>4, <2>1 DEF TimersInv
  <2>2. CASE b # a
    <3>1. Scheduled(b)' <=> Scheduled(b)
      BY <1>2, <2>2 DEF Scheduled
    <3> QED BY <1>1, <1>2, <1>4, <2>2, <3>1 DEF TimersInv
  <2> QED BY <2>1, <2>2
<1> QED BY <1>1, <1>5 DEF TimersInv

\* A run that begins, or a step that leaves the runs of an automation as they are.
LEMMA FiringTimers ==
  ASSUME TypeOK, TimersInv, NEW a \in Automations,
         TimerExpires(a) \/ AutomationFires(a), UNCHANGED cronVars
  PROVE  TimersInv'
<1>1. UNCHANGED <<status, def, touched>>
  BY DEF TimerExpires, AutomationFires, FiresForNothing, FiresWithoutChild, FiresInVain,
         FiresWithChild
<1>2. timer[a] # "none"
  BY DEF TimerExpires, AutomationFires, FiresForNothing, FiresWithoutChild, FiresInVain,
         FiresWithChild
<1>3. \A b \in Automations : b # a => timer'[b] = timer[b]
  BY DEF TimerExpires, AutomationFires, FiresForNothing, FiresWithoutChild, FiresInVain,
         FiresWithChild, Fired, TypeOK
<1>4. CASE UNCHANGED runs /\ (Scheduled(a) => timer'[a] # "none")
  BY <1>1, <1>2, <1>3, <1>4 DEF TimersInv, Scheduled, Running
<1>5. ASSUME NEW r \in Slots, runs[r] = NoRun, timer'[a] = "none",
             \A q \in Slots : q # r => runs'[q] = runs[q],
             runs'[r].automation = a, runs'[r].pc \in {"acting", "pruning"},
             runs'[r].pc = "pruning" => runs'[r].child \in Children
      PROVE  TimersInv'
  <2>1. ASSUME NEW q \in Slots, q # r, runs[q].automation = a PROVE a \in touched
    BY <1>2, <2>1 DEF TimersInv, Running
  <2>2. runs[r].automation \notin Automations
    BY <1>5 DEF NoRun
  <2>3. \A b \in Automations : b # a => (Running(b)' <=> Running(b))
    BY <1>5, <2>2 DEF Running
  <2>4. Running(a)'
    BY <1>5 DEF Running
  <2>5. ASSUME NEW b \in Automations
        PROVE  /\ Scheduled(b)' => timer'[b] # "none" \/ Running(b)'
               /\ timer'[b] # "none" /\ Running(b)' => b \in touched'
               /\ \A s, q \in Slots :
                    s # q /\ runs'[s].automation = b /\ runs'[q].automation = b => b \in touched'
               /\ status'[b] = "new" => timer'[b] = "none" /\ ~Running(b)'
    <3>1. CASE b = a
      BY <1>1, <1>2, <1>5, <2>1, <2>4, <3>1 DEF TimersInv
    <3>2. CASE b # a
      <4>1. Scheduled(b)' <=> Scheduled(b)
        BY <1>1 DEF Scheduled
      <4>2. \A s, q \in Slots :
              s # q /\ runs'[s].automation = b /\ runs'[q].automation = b => b \in touched'
        BY <1>1, <1>5, <2>2, <3>2 DEF TimersInv
      <4> QED BY <1>1, <1>3, <2>3, <3>2, <4>1, <4>2 DEF TimersInv
    <3> QED BY <3>1, <3>2
  <2>6. \A q \in Slots : /\ runs'[q].pc = "idle" => runs'[q] = NoRun
                         /\ runs'[q].pc # "idle" => runs'[q].automation \in Automations
                         /\ runs'[q].pc = "pruning" => runs'[q].child \in Children
    BY <1>5 DEF TimersInv
  <2> QED BY <2>5, <2>6 DEF TimersInv
<1>6. CASE TimerExpires(a)
  BY <1>4, <1>6 DEF TimerExpires, TypeOK
<1>7. CASE FiresForNothing(a)
  BY <1>4, <1>7 DEF FiresForNothing
<1>8. CASE FiresInVain(a)
  BY <1>4, <1>8 DEF FiresInVain, Armed, TypeOK
<1>9. CASE FiresWithoutChild(a)
  <2>1. PICK r \in Slots :
          /\ runs[r] = NoRun
          /\ runs' = [runs EXCEPT ![r] = [NoRun EXCEPT !.pc = "acting", !.automation = a]]
    BY <1>9 DEF FiresWithoutChild
  <2>2. timer'[a] = "none"
    BY <1>9 DEF FiresWithoutChild, Fired, TypeOK
  <2>3. /\ \A q \in Slots : q # r => runs'[q] = runs[q]
        /\ runs'[r].automation = a /\ runs'[r].pc = "acting"
    BY <2>1 DEF NoRun, TypeOK
  <2> QED BY <1>5, <2>1, <2>2, <2>3
<1>10. CASE FiresWithChild(a)
  <2>1. PICK r \in Slots, c \in Children, doomed \in SUBSET {d \in history[a] : Exists(d)} :
          /\ runs[r] = NoRun
          /\ GoesOn(r, [NoRun EXCEPT !.automation = a, !.child = c, !.doomed = doomed,
                         !.kept = ({d \in history[a] : Exists(d)} \ doomed) \union {c}],
                    [Saved EXCEPT ![c] = a], {})
    BY <1>10 DEF FiresWithChild
  <2> DEFINE run == [NoRun EXCEPT !.automation = a, !.child = c, !.doomed = doomed,
                         !.kept = ({d \in history[a] : Exists(d)} \ doomed) \union {c}]
  <2>4. /\ \A q \in Slots : q # r => runs'[q] = runs[q]
        /\ runs'[r].automation = a /\ runs'[r].child = c
        /\ runs'[r].pc \in {"acting", "pruning"}
    <3>1. run \in RunRecords /\ run.automation = a /\ run.child = c
      BY DEF NoRun, TypeOK, RunRecords
    <3>2. GoesOn(r, run, [Saved EXCEPT ![c] = a], {})
      BY <2>1
    <3> HIDE DEF run
    <3> QED BY <3>1, <3>2, RunGoesOn
  <2>5. timer'[a] = "none"
    BY <1>10 DEF FiresWithChild, Fired, TypeOK
  <2> QED BY <1>5, <2>1, <2>4, <2>5
<1> QED BY <1>6, <1>7, <1>8, <1>9, <1>10 DEF AutomationFires

LEMMA RunEndsTimers ==
  ASSUME TypeOK, TimersInv, NEW r \in Slots, RunEnds(r), UNCHANGED cronVars
  PROVE  TimersInv'
<1>1. PICK a \in Automations : a = runs[r].automation
  BY DEF RunEnds, TimersInv
<1>2. /\ timer' = [timer EXCEPT ![a] = Armed(def[a].enabled /\ def[a].cron)]
      /\ runs' = [runs EXCEPT ![r] = NoRun]
      /\ UNCHANGED <<status, def>>
      /\ touched' = IF \E q \in Slots \ {r} : runs[q].automation = a
                    THEN touched ELSE touched \ {a}
  BY <1>1 DEF RunEnds
<1>3. /\ \A q \in Slots : q # r => runs'[q] = runs[q]
      /\ runs'[r] = NoRun /\ NoRun.automation \notin Automations /\ NoRun.pc = "idle"
  BY <1>2 DEF TypeOK, NoRun
<1>4. status[a] # "new"
  BY <1>1 DEF TimersInv, Running
<1>5. ASSUME NEW b \in Automations
      PROVE  /\ Scheduled(b)' => timer'[b] # "none" \/ Running(b)'
             /\ timer'[b] # "none" /\ Running(b)' => b \in touched'
             /\ \A s, q \in Slots :
                  s # q /\ runs'[s].automation = b /\ runs'[q].automation = b => b \in touched'
             /\ status'[b] = "new" => timer'[b] = "none" /\ ~Running(b)'
  <2>1. CASE b = a
    <3>1. Scheduled(a)' => timer'[a] # "none"
      BY <1>2 DEF Scheduled, Armed, TypeOK
    <3>2. ASSUME NEW q \in Slots, q # r, runs[q].automation = a
          PROVE  a \in touched'
      BY <1>1, <1>2, <3>2 DEF TimersInv
    <3>3. Running(a)' => a \in touched'
      BY <1>3, <3>2 DEF Running
    <3>4. \A s, q \in Slots :
            s # q /\ runs'[s].automation = a /\ runs'[q].automation = a => a \in touched'
      BY <1>3, <3>2
    <3> QED BY <1>2, <1>4, <2>1, <3>1, <3>3, <3>4
  <2>2. CASE b # a
    <3>1. timer'[b] = timer[b] /\ (Scheduled(b)' <=> Scheduled(b))
          /\ (b \in touched' <=> b \in touched)
      BY <1>2, <2>2 DEF TypeOK, Scheduled
    <3>2. \A q \in Slots : runs'[q].automation = b <=> runs[q].automation = b
      BY <1>1, <1>3, <2>2
    <3>3. Running(b)' <=> Running(b)
      BY <3>2 DEF Running
    <3> QED BY <1>2, <3>1, <3>2, <3>3 DEF TimersInv
  <2> QED BY <2>1, <2>2
<1>6. \A q \in Slots : /\ runs'[q].pc = "idle" => runs'[q] = NoRun
                       /\ runs'[q].pc # "idle" => runs'[q].automation \in Automations
                       /\ runs'[q].pc = "pruning" => runs'[q].child \in Children
  BY <1>3 DEF TimersInv
<1> QED BY <1>5, <1>6 DEF TimersInv

LEMMA StepTimers ==
  ASSUME TypeOK, TimersInv, AutomationStep, UNCHANGED cronVars
  PROVE  TimersInv'
<1>1. ASSUME NEW r \in Slots, NEW well \in BOOLEAN, PruneEnds(r, well) PROVE TimersInv'
  <2>1. runs[r].automation \in Automations /\ runs[r].child \in Children
        /\ runs[r] \in RunRecords /\ runs[r].pc = "pruning"
    BY <1>1 DEF PruneEnds, TimersInv, TypeOK
  <2>2. PICK cs, gone : GoesOn(r, runs[r], cs, gone)
    BY <1>1 DEF PruneEnds
  <2>3. /\ \A q \in Slots : q # r => runs'[q] = runs[q]
        /\ runs'[r].automation = runs[r].automation
        /\ runs'[r].child = runs[r].child
        /\ runs'[r].pc \in {"acting", "pruning"}
    BY <2>1, <2>2, RunGoesOn
  <2>4. UNCHANGED <<status, def, timer, touched>>
    BY <1>1 DEF PruneEnds
  <2>5. \A q \in Slots : runs'[q].automation = runs[q].automation
    BY <2>3
  <2>6. \A a \in Automations : (Running(a)' <=> Running(a)) /\ (Scheduled(a)' <=> Scheduled(a))
    BY <2>4, <2>5 DEF Running, Scheduled
  <2>7. \A q \in Slots : /\ runs'[q].pc = "idle" => runs'[q] = NoRun
                         /\ runs'[q].pc # "idle" => runs'[q].automation \in Automations
                         /\ runs'[q].pc = "pruning" => runs'[q].child \in Children
    BY <2>1, <2>3 DEF TimersInv
  <2> QED BY <2>4, <2>5, <2>6, <2>7 DEF TimersInv
<1>2. ASSUME UNCHANGED <<status, def, timer, runs, touched>> PROVE TimersInv'
  BY <1>2 DEF TimersInv, Scheduled, Running
<1>3. CASE OtherRunEnds
  BY <1>2, <1>3 DEF OtherRunEnds
<1>4. ASSUME NEW c \in Children, DeleteChild(c) PROVE TimersInv'
  BY <1>2, <1>4 DEF DeleteChild
<1>5. CASE DeleteParent
  BY <1>2, <1>5 DEF DeleteParent
<1>6. CASE StoreSaves
  BY <1>2, <1>6 DEF StoreSaves
<1> QED BY <1>1, <1>3, <1>4, <1>5, <1>6, RequestTimers, FiringTimers, RunEndsTimers
        DEF AutomationStep

\* A plugin's jobs.
LEMMA StepCrons ==
  ASSUME TypeOK, CronsInv, CronStep
  PROVE  CronsInv'
<1>1. ASSUME NEW p \in Plugins, NEW list \in [Jobs -> JobStates], Writes(p, list),
             UNCHANGED ticks, \A j \in Jobs : Home[j] # p => list[j] = jobs[j]
      PROVE  CronsInv'
  <2>1. ASSUME NEW j \in Jobs
        PROVE  /\ jobs'[j] = "on" => cronTimer'[j] # "none" \/ ticks'[j] > 0
               /\ cronTimer'[j] # "none" => jobs'[j] = "on"
               /\ cronTimer'[j] # "none" /\ ticks'[j] > 0 => j \in reread'
               /\ ticks'[j] > 1 => j \in reread'
    <3>1. jobs'[j] = list[j] /\ ticks'[j] = ticks[j]
      BY <1>1 DEF Writes
    <3>2. CASE Home[j] # p
      BY <1>1, <3>1, <3>2 DEF Writes, Synced, CronsInv
    <3>3. CASE Home[j] = p /\ list[j] = "absent" /\ jobs[j] = "absent"
      BY <1>1, <3>1, <3>3 DEF Writes, Synced, CronsInv
    <3>4. CASE Home[j] = p /\ ~(list[j] = "absent" /\ jobs[j] = "absent")
      <4>1. cronTimer'[j] = Armed(list[j] = "on")
        BY <1>1, <3>4 DEF Writes, Synced
      <4>2. ticks[j] > 0 => j \in reread'
        BY <1>1, <3>4 DEF Writes, JobsOf
      <4>3. ticks[j] > 1 => ticks[j] > 0
        BY DEF TypeOK
      <4> QED BY <3>1, <4>1, <4>2, <4>3 DEF Armed
    <3> QED BY <3>2, <3>3, <3>4
  <2> QED BY <2>1 DEF CronsInv
<1>2. ASSUME NEW p \in Plugins
      PROVE  /\ Merged(p) \in [Jobs -> JobStates]
             /\ \A j \in Jobs : Home[j] # p => Merged(p)[j] = jobs[j]
  BY DEF Merged, TypeOK, JobStates, Jobs
<1>3. ASSUME NEW p \in Plugins, ListJobs(p) PROVE CronsInv'
  BY <1>1, <1>2, <1>3 DEF ListJobs
<1>4. ASSUME NEW j \in HostJobs, NEW state \in {"on", "off"}, Register(j, state) PROVE CronsInv'
  <2>1. Home[j] \in Plugins /\ j \in Jobs
    BY DEF Jobs
  <2>2. PICK list : list = [Merged(Home[j]) EXCEPT ![j] = state]
    OBVIOUS
  <2>3. list \in [Jobs -> JobStates] /\ \A k \in Jobs : Home[k] # Home[j] => list[k] = jobs[k]
    BY <1>2, <2>1, <2>2 DEF JobStates
  <2> QED BY <1>1, <1>4, <2>1, <2>2, <2>3 DEF Register
<1>5. ASSUME NEW p \in Plugins, NEW j \in JobsOf(p), DeleteJob(j) PROVE CronsInv'
  <2>1. Home[j] \in Plugins /\ j \in Jobs
    BY DEF JobsOf
  <2>2. PICK list : list = IF j \in HostJobs THEN [Merged(Home[j]) EXCEPT ![j] = "absent"]
                           ELSE Merged(Home[j])
    OBVIOUS
  <2>3. list \in [Jobs -> JobStates] /\ \A k \in Jobs : Home[k] # Home[j] => list[k] = jobs[k]
    <3>1. [Merged(Home[j]) EXCEPT ![j] = "absent"] \in [Jobs -> JobStates]
      BY <1>2, <2>1 DEF JobStates
    <3>2. \A k \in Jobs : Home[k] # Home[j]
                            => [Merged(Home[j]) EXCEPT ![j] = "absent"][k] = jobs[k]
      BY <1>2, <2>1
    <3> QED BY <1>2, <2>1, <2>2, <3>1, <3>2
  <2> QED BY <1>1, <1>5, <2>1, <2>2, <2>3 DEF DeleteJob
<1>6. ASSUME NEW p \in Plugins, UpsertPlugin(p) PROVE CronsInv'
  BY <1>6 DEF UpsertPlugin, CronsInv
<1>7. ASSUME NEW p \in Plugins, DeletePlugin(p) PROVE CronsInv'
  BY <1>7 DEF DeletePlugin, CronsInv, TypeOK
<1>8. ASSUME NEW j \in Jobs, JobExpires(j) PROVE CronsInv'
  BY <1>8 DEF JobExpires, CronsInv, TypeOK
<1>9. ASSUME NEW j \in Jobs, JobFires(j) PROVE CronsInv'
  <2>1. CASE jobs[j] = "on"
    BY <1>9, <2>1 DEF JobFires, CronsInv, TypeOK
  <2>2. CASE jobs[j] # "on"
    BY <1>9, <2>2 DEF JobFires, CronsInv, TypeOK
  <2> QED BY <2>1, <2>2
<1>10. ASSUME NEW j \in Jobs, TickEnds(j) PROVE CronsInv'
  <2>1. /\ ticks' = [ticks EXCEPT ![j] = @ - 1] /\ ticks[j] > 0
        /\ cronTimer' = [cronTimer EXCEPT ![j] = Armed(jobs[j] = "on")]
        /\ reread' = IF ticks[j] = 1 THEN reread \ {j} ELSE reread
        /\ jobs' = jobs
    BY <1>10 DEF TickEnds, AfterTick
  <2>2. ASSUME NEW k \in Jobs, k # j
        PROVE  /\ ticks'[k] = ticks[k] /\ cronTimer'[k] = cronTimer[k]
               /\ k \in reread' <=> k \in reread
    BY <2>1, <2>2 DEF TypeOK
  <2>3. /\ ticks'[j] = ticks[j] - 1 /\ cronTimer'[j] = Armed(jobs[j] = "on")
        /\ ticks[j] \in Int
    BY <2>1 DEF TypeOK
  <2>4. ticks'[j] > 0 => j \in reread'
    BY <2>1, <2>3 DEF CronsInv
  <2>5. ASSUME NEW k \in Jobs
        PROVE  /\ jobs'[k] = "on" => cronTimer'[k] # "none" \/ ticks'[k] > 0
               /\ cronTimer'[k] # "none" => jobs'[k] = "on"
               /\ cronTimer'[k] # "none" /\ ticks'[k] > 0 => k \in reread'
               /\ ticks'[k] > 1 => k \in reread'
    <3>1. CASE k = j
      BY <2>1, <2>3, <2>4, <3>1 DEF Armed
    <3>2. CASE k # j
      BY <2>1, <2>2, <3>2 DEF CronsInv
    <3> QED BY <3>1, <3>2
  <2> QED BY <2>5 DEF CronsInv
<1> QED BY <1>3, <1>4, <1>5, <1>6, <1>7, <1>8, <1>9, <1>10 DEF CronStep, Reconciles

-------------------------------------------------------------------------------
(* The whole. *)

TimedInv == TypeOK /\ TimersInv /\ CronsInv

LEMMA InitTimed == Init => TimedInv
<1> SUFFICES ASSUME Init PROVE TimedInv
  OBVIOUS
<1>1. TypeOK
  <2>1. NoRun \in RunRecords
    BY DEF NoRun, RunRecords
  <2>2. NoDefinition \in Definitions
    BY DEF NoDefinition, Definitions
  <2> QED BY <2>1, <2>2 DEF Init, AutomationInit, CronInit, TypeOK, Phases, JobStates
<1>2. TimersInv
  BY DEF Init, AutomationInit, TimersInv, Scheduled, Running, NoRun
<1>3. CronsInv
  BY <1>1 DEF Init, CronInit, CronsInv, TypeOK
<1> QED BY <1>1, <1>2, <1>3 DEF TimedInv

LEMMA RestartTimed ==
  ASSUME TimedInv, Restart
  PROVE  TimedInv'
<1>1. ASSUME NEW j \in Jobs PROVE jobs'[j] = Merged(Home[j])[j] /\ jobs'[j] \in JobStates
  BY <1>1 DEF Restart, CronRestart, Merged, TimedInv, TypeOK, JobStates, Jobs
<1>2. TypeOK'
  <2>1. NoRun \in RunRecords
    BY DEF NoRun, RunRecords
  <2>2. jobs' \in [Jobs -> JobStates] /\ cronTimer' \in [Jobs -> Phases]
    BY <1>1 DEF Restart, CronRestart, Armed, Phases
  <2>3. lost' \subseteq Children
    <3>1. \A r \in Slots : runs[r].child \in Children \union {NoChild}
      BY DEF TimedInv, TypeOK, RunRecords
    <3> QED BY <3>1 DEF Restart, AutomationRestart, TimedInv, TypeOK
  <2>4. timer' \in [Automations -> Phases]
    BY DEF Restart, AutomationRestart, Armed, Phases
  <2>5. ticks' \in [Jobs -> 0 .. MaxTicks]
    BY DEF Restart, CronRestart
  <2> HIDE DEF NoRun
  <2> QED BY <2>1, <2>2, <2>3, <2>4, <2>5
          DEF Restart, AutomationRestart, CronRestart, TimedInv, TypeOK
<1>3. TimersInv'
  <2>1. /\ UNCHANGED <<status, def>> /\ runs' = [r \in Slots |-> NoRun]
        /\ timer' = [a \in Automations |-> Armed(Scheduled(a))]
    BY DEF Restart, AutomationRestart
  <2>2. \A a \in Automations : ~Running(a)' /\ (Scheduled(a)' <=> Scheduled(a))
    BY <2>1 DEF Running, Scheduled, NoRun
  <2>3. \A a \in Automations : status[a] = "new" => timer'[a] = "none"
    BY <2>1 DEF Scheduled, Armed
  <2>4. \A a \in Automations : Scheduled(a) => timer'[a] # "none"
    BY <2>1 DEF Armed
  <2>5. \A r \in Slots : runs'[r] = NoRun /\ NoRun.automation = NoAutomation /\ NoRun.pc = "idle"
    BY <2>1 DEF NoRun
  <2> HIDE DEF NoRun
  <2> QED BY <2>1, <2>2, <2>3, <2>4, <2>5 DEF TimersInv
<1>4. CronsInv'
  BY DEF Restart, CronRestart, CronsInv, Armed
<1> QED BY <1>2, <1>3, <1>4 DEF TimedInv

LEMMA NextTimed == TimedInv /\ [Next]_vars => TimedInv'
<1> SUFFICES ASSUME TimedInv, [Next]_vars PROVE TimedInv'
  OBVIOUS
<1>1. CASE AutomationStep /\ UNCHANGED cronVars
  <2>1. TypeOK' /\ TimersInv'
    BY <1>1, RunTypes, StepTimers DEF TimedInv
  <2>2. CronsInv'
    BY <1>1 DEF cronVars, CronsInv, TimedInv
  <2> QED BY <2>1, <2>2 DEF TimedInv
<1>2. CASE CronStep /\ UNCHANGED automationVars
  <2>1. TypeOK' /\ CronsInv'
    BY <1>2, CronTypes, StepCrons DEF TimedInv
  <2>2. TimersInv'
    BY <1>2 DEF automationVars, TimersInv, TimedInv, Scheduled, Running
  <2> QED BY <2>1, <2>2 DEF TimedInv
<1>3. CASE Restart
  BY <1>3, RestartTimed
<1>4. CASE UNCHANGED vars
  BY <1>4 DEF vars, automationVars, cronVars, TimedInv, TypeOK, TimersInv, CronsInv, Scheduled,
              Running
<1> QED BY <1>1, <1>2, <1>3, <1>4 DEF Next

LEMMA Timed == Spec => []TimedInv
<1> QED BY InitTimed, NextTimed, PTL DEF Spec

\* The variables keep their types, whatever is created, run, deleted or restarted.
THEOREM TypeCorrect == Spec => []TypeOK
<1>1. TimedInv => TypeOK
  BY DEF TimedInv
<1> QED BY <1>1, Timed, PTL

\* Nothing that is on is left without a timer or a run that will set it.
THEOREM ScheduleKept == Spec => []ScheduleIsKept
<1>1. TimedInv => ScheduleIsKept
  BY DEF TimedInv, TimersInv, CronsInv, ScheduleIsKept
<1> QED BY <1>1, Timed, PTL

\* Runs and ticks overlap only where a request set the timer during the first.
THEOREM NoOverlap == Spec => []OneRunAtATime
<1>1. TimedInv => OneRunAtATime
  BY DEF TimedInv, TimersInv, CronsInv, OneRunAtATime
<1> QED BY <1>1, Timed, PTL

-------------------------------------------------------------------------------
(***************************************************************************)
(* Why the history of an automation misses no conversation: the invariant  *)
(* MemoryInv and its proof, for any number of automations, runs and        *)
(* conversations.  A run that prunes keeps or deletes what the history had *)
(* when it began; what it writes back at its end adds its own conversation *)
(* and nothing the history has lost meanwhile, except where two runs prune *)
(* at once, which lose theirs.                                             *)
(***************************************************************************)

\* The conversations of an automation's runs that a restart would bring back and
\* that no crash or overlap has lost.
Reach(a) == {c \in Children : children[c] = a /\ c \notin unsaved \union lost}
Pruning(r, a) == runs[r].pc = "pruning" /\ runs[r].automation = a

\* The history recalls what it does not leave to a run that prunes.
RecallInv ==
  \A a \in Automations : status[a] = "listed" =>
    \A c \in Reach(a) : \/ c \in history[a]
                        \/ \E r \in Slots : Pruning(r, a) /\ runs[r].child = c

\* What the file does not have is in the hands of a run.
SavedInv ==
  \A a \in Automations : status[a] = "listed" =>
    \A c \in Reach(a) \intersect history[a] :
      \/ c \in saved[a]
      \/ \E r \in Slots : runs[r].automation = a /\ runs[r].child = c

\* What a run read of the history is what it will keep or delete, and it brings
\* back nothing that the history has no more.
PruneInv ==
  \A a \in Automations : \A r \in Slots : Pruning(r, a) =>
    /\ runs[r].child \in runs[r].kept
    /\ \A c \in Reach(a) :
         /\ c \in history[a] => c \in runs[r].kept \union runs[r].doomed
         /\ c \in runs[r].kept => c \in history[a] \/ c = runs[r].child
    /\ \A q \in Slots : q # r /\ Pruning(q, a) => runs[r].child \notin Reach(a)

\* Conversations do not change hands.
OwnInv ==
  /\ \A a \in Automations : \A c \in history[a] \union saved[a] :
       children[c] \in {a, NoAutomation}
  /\ \A a \in Automations : \A r \in Slots : Pruning(r, a) =>
       \A c \in runs[r].kept : children[c] \in {a, NoAutomation}
  /\ \A a \in Automations : status[a] = "new" =>
       history[a] = {} /\ saved[a] = {} /\ \A c \in Children : children[c] # a

Fits(s) == IsFiniteSet(s) /\ Cardinality(s) <= MaxHistory

SizeInv ==
  /\ \A a \in Automations : Fits(history[a]) /\ Fits(saved[a])
  /\ \A r \in Slots : runs[r].pc = "pruning" => Fits(runs[r].kept)

MemoryInv == RecallInv /\ SavedInv /\ PruneInv /\ OwnInv /\ SizeInv

-------------------------------------------------------------------------------
(* Steps that leave the runs that prune, and the histories, as they are. *)

LEMMA Unmoved ==
  ASSUME TypeOK, MemoryInv, UNCHANGED history,
         \A a \in Automations : Reach(a)' \subseteq Reach(a),
         \A a \in Automations :
           /\ status'[a] = "listed" => status[a] = "listed" \/ Reach(a) = {}
           /\ status'[a] = "new" => status[a] = "new",
         \A c \in Children : children'[c] \in {children[c], NoAutomation},
         \A r \in Slots : runs[r].pc = "pruning" \/ runs'[r].pc = "pruning"
                            => runs'[r] = runs[r],
         Persist \/ /\ UNCHANGED saved
                    /\ \A r \in Slots : runs[r].automation \in Automations
                                          => runs'[r] = runs[r]
  PROVE  MemoryInv'
<1>1. \A a \in Automations, r \in Slots :
        /\ Pruning(r, a)' <=> Pruning(r, a)
        /\ Pruning(r, a) => runs'[r] = runs[r]
  BY DEF Pruning
<1>2. \A a \in Automations : saved'[a] \in {saved[a], history[a], {}}
  BY DEF Persist, TypeOK
<1>3. RecallInv'
  BY <1>1 DEF MemoryInv, RecallInv
<1>4. SavedInv'
  <2>1. CASE Persist
    BY <2>1 DEF Persist, SavedInv, TypeOK
  <2>2. CASE /\ UNCHANGED saved
             /\ \A r \in Slots : runs[r].automation \in Automations => runs'[r] = runs[r]
    BY <2>2 DEF MemoryInv, SavedInv
  <2> QED BY <2>1, <2>2
<1>5. PruneInv'
  <2> SUFFICES ASSUME NEW a \in Automations, NEW r \in Slots, Pruning(r, a)'
               PROVE  /\ runs'[r].child \in runs'[r].kept
                      /\ \A c \in Reach(a)' :
                           /\ c \in history'[a] => c \in runs'[r].kept \union runs'[r].doomed
                           /\ c \in runs'[r].kept => c \in history'[a] \/ c = runs'[r].child
                      /\ \A q \in Slots : q # r /\ Pruning(q, a)' => runs'[r].child \notin Reach(a)'
    BY DEF PruneInv
  <2>1. Pruning(r, a) /\ runs'[r] = runs[r]
    BY <1>1
  <2> QED BY <1>1, <2>1 DEF MemoryInv, PruneInv
<1>6. OwnInv'
  <2>1. ASSUME NEW a \in Automations, NEW c \in history'[a] \union saved'[a]
        PROVE  children'[c] \in {a, NoAutomation}
    <3>1. c \in history[a] \union saved[a] /\ c \in Children
      BY <1>2, <2>1 DEF TypeOK
    <3> QED BY <3>1 DEF MemoryInv, OwnInv
  <2>2. ASSUME NEW a \in Automations, NEW r \in Slots, Pruning(r, a)', NEW c \in runs'[r].kept
        PROVE  children'[c] \in {a, NoAutomation}
    <3>1. Pruning(r, a) /\ c \in runs[r].kept /\ c \in Children
      BY <1>1, <2>2 DEF TypeOK, RunRecords
    <3> QED BY <3>1 DEF MemoryInv, OwnInv
  <2>3. ASSUME NEW a \in Automations, status'[a] = "new"
        PROVE  history'[a] = {} /\ saved'[a] = {} /\ \A c \in Children : children'[c] # a
    <3>1. status[a] = "new"
      BY <2>3
    <3>2. history[a] = {} /\ saved[a] = {} /\ \A c \in Children : children[c] # a
      BY <3>1 DEF MemoryInv, OwnInv
    <3> QED BY <1>2, <3>2
  <2> QED BY <2>1, <2>2, <2>3 DEF OwnInv
<1>7. SizeInv'
  <2>1. \A a \in Automations : Fits(saved'[a])
    <3>1. Fits({})
      BY FS_EmptySet DEF Fits
    <3> QED BY <1>2, <3>1 DEF MemoryInv, SizeInv
  <2>2. \A r \in Slots : runs'[r].pc = "pruning" => Fits(runs'[r].kept)
    BY DEF MemoryInv, SizeInv
  <2> QED BY <2>1, <2>2 DEF MemoryInv, SizeInv, Fits
<1> QED BY <1>3, <1>4, <1>5, <1>6, <1>7 DEF MemoryInv

-------------------------------------------------------------------------------
(* Runs that begin to prune, go on, or end it. *)

\* The two outcomes of GoesOn. What was doomed and is so no more is out of reach.
LEMMA PruningGoesOn ==
  ASSUME TypeOK, NEW r \in Slots, NEW run \in RunRecords, run.automation \in Automations,
         NEW cs, NEW gone, GoesOn(r, run, cs, gone)
  PROVE  \/ /\ history' = [history EXCEPT ![run.automation] = run.kept]
            /\ runs'[r].pc = "acting"
            /\ \A a \in Automations : run.doomed \intersect Reach(a)' = {}
         \/ /\ UNCHANGED history
            /\ runs'[r].pc = "pruning"
            /\ \A a \in Automations : run.doomed \intersect Reach(a)' \subseteq runs'[r].doomed
<1> DEFINE rest == {c \in run.doomed : cs[c] # NoAutomation /\ c \notin gone}
<1>1. /\ children' = cs
      /\ \/ /\ rest = {}
            /\ history' = [history EXCEPT ![run.automation] = run.kept]
            /\ runs' = [runs EXCEPT ![r] =
                          [run EXCEPT !.pc = "acting", !.doomed = {}, !.kept = {}]]
            /\ unsaved' = gone
         \/ \E c \in rest :
              /\ runs' = [runs EXCEPT ![r] =
                            [run EXCEPT !.pc = "pruning", !.doomed = rest \ {c}]]
              /\ unsaved' = gone \union {c}
              /\ UNCHANGED history
  BY DEF GoesOn
<1>2. gone \subseteq unsaved'
  BY <1>1
<1>3. \A a \in Automations : run.doomed \intersect Reach(a)' \subseteq rest
  BY <1>1, <1>2 DEF Reach
<1>4. CASE /\ rest = {}
           /\ history' = [history EXCEPT ![run.automation] = run.kept]
           /\ runs' = [runs EXCEPT ![r] =
                         [run EXCEPT !.pc = "acting", !.doomed = {}, !.kept = {}]]
  <2>1. runs'[r].pc = "acting"
    BY <1>4 DEF TypeOK, RunRecords
  <2> QED BY <1>3, <1>4, <2>1
<1>5. ASSUME NEW c \in rest,
             runs' = [runs EXCEPT ![r] = [run EXCEPT !.pc = "pruning", !.doomed = rest \ {c}]],
             unsaved' = gone \union {c}, UNCHANGED history
      PROVE  /\ UNCHANGED history
             /\ runs'[r].pc = "pruning"
             /\ \A a \in Automations : run.doomed \intersect Reach(a)' \subseteq runs'[r].doomed
  <2>1. runs'[r] = [run EXCEPT !.pc = "pruning", !.doomed = rest \ {c}]
    BY <1>5 DEF TypeOK
  <2>2. runs'[r].pc = "pruning" /\ runs'[r].doomed = rest \ {c}
    BY <2>1 DEF RunRecords
  <2>3. \A a \in Automations : c \notin Reach(a)'
    BY <1>5 DEF Reach
  <2> QED BY <1>3, <1>5, <2>2, <2>3
<1> QED BY <1>1, <1>4, <1>5

\* run is what the run of a in slot r is about to do, which may be its beginning.
LEMMA GoesOnRemembers ==
  ASSUME TypeOK, MemoryInv, UNCHANGED <<saved, status>>,
         NEW r \in Slots, NEW a \in Automations, NEW run \in RunRecords,
         run.automation = a, run.child \in run.kept,
         NEW cs, NEW gone, GoesOn(r, run, cs, gone),
         \/ runs[r].automation \notin Automations
         \/ runs[r].automation = a /\ runs[r].child = run.child,
         status[a] # "new",
         \A b \in Automations : Reach(b)' \subseteq Reach(b) \union (IF b = a THEN {run.child} ELSE {}),
         \A c \in Reach(a)' : /\ c \in history[a] => c \in run.kept \union run.doomed
                              /\ c \in run.kept => c \in history[a] \/ c = run.child,
         \A q \in Slots : q # r /\ Pruning(q, a) =>
           run.child \notin Reach(a)' /\ runs[q].child \notin Reach(a)',
         \A b \in Automations : \A c \in history[b] \union saved[b] :
           children'[c] \in {b, NoAutomation},
         \A b \in Automations : \A q \in Slots : Pruning(q, b) =>
           \A c \in runs[q].kept : children'[c] \in {b, NoAutomation},
         \A c \in run.kept : children'[c] \in {a, NoAutomation},
         \A c \in Children : children'[c] \in {children[c], NoAutomation, a},
         Fits(run.kept)
  PROVE  MemoryInv'
<1>1. /\ \A q \in Slots : q # r => runs'[q] = runs[q]
      /\ runs'[r].automation = a /\ runs'[r].child = run.child
      /\ runs'[r].pc = "pruning" => runs'[r].kept = run.kept
  BY RunGoesOn
<1>2. \/ /\ history' = [history EXCEPT ![a] = run.kept]
         /\ runs'[r].pc = "acting"
         /\ run.doomed \intersect Reach(a)' = {}
      \/ /\ UNCHANGED history
         /\ runs'[r].pc = "pruning"
         /\ run.doomed \intersect Reach(a)' \subseteq runs'[r].doomed
  BY PruningGoesOn
<1>3. ASSUME NEW b \in Automations, b # a
      PROVE  /\ history'[b] = history[b]
             /\ Reach(b)' \subseteq Reach(b)
             /\ \A q \in Slots : Pruning(q, b)' <=> Pruning(q, b)
             /\ \A q \in Slots : Pruning(q, b) \/ runs[q].automation = b => runs'[q] = runs[q]
  BY <1>1, <1>2, <1>3 DEF TypeOK, Pruning
<1>4. \A q \in Slots : q # r => (Pruning(q, a)' <=> Pruning(q, a))
  BY <1>1 DEF Pruning
<1>5. history'[a] \in {history[a], run.kept}
  BY <1>2 DEF TypeOK
<1>6. RecallInv'
  <2> SUFFICES ASSUME NEW b \in Automations, status'[b] = "listed", NEW c \in Reach(b)'
               PROVE  \/ c \in history'[b]
                      \/ \E q \in Slots : Pruning(q, b)' /\ runs'[q].child = c
    BY DEF RecallInv
  <2>1. CASE b # a
    <3>1. c \in history[b] \/ \E q \in Slots : Pruning(q, b) /\ runs[q].child = c
      BY <1>3, <2>1 DEF MemoryInv, RecallInv
    <3> QED BY <1>3, <2>1, <3>1
  <2>2. CASE b = a /\ c = run.child
    BY <1>1, <1>2, <2>2 DEF Pruning, TypeOK
  <2>3. CASE b = a /\ c # run.child
    <3>1. c \in history[a] \/ \E q \in Slots : Pruning(q, a) /\ runs[q].child = c
      BY <2>3 DEF MemoryInv, RecallInv
    <3>2. ASSUME NEW q \in Slots, Pruning(q, a), runs[q].child = c
          PROVE  FALSE
      BY <2>3, <3>2 DEF Pruning
    <3>3. c \in history[a]
      BY <3>1, <3>2
    <3> QED BY <1>2, <2>3, <3>3 DEF TypeOK
  <2> QED BY <2>1, <2>2, <2>3
<1>7. SavedInv'
  <2> SUFFICES ASSUME NEW b \in Automations, status'[b] = "listed",
                      NEW c \in Reach(b)', c \in history'[b]
               PROVE  \/ c \in saved'[b]
                      \/ \E q \in Slots : runs'[q].automation = b /\ runs'[q].child = c
    BY DEF SavedInv
  <2>1. CASE b # a
    <3>1. c \in saved[b] \/ \E q \in Slots : runs[q].automation = b /\ runs[q].child = c
      BY <1>3, <2>1 DEF MemoryInv, SavedInv
    <3> QED BY <1>3, <2>1, <3>1
  <2>2. CASE b = a /\ c = run.child
    BY <1>1, <2>2
  <2>3. CASE b = a /\ c # run.child
    <3>1. c \in Reach(a) /\ c \in history[a]
      BY <1>5, <2>3
    <3>2. c \in saved[a] \/ \E q \in Slots : runs[q].automation = a /\ runs[q].child = c
      BY <2>3, <3>1 DEF MemoryInv, SavedInv
    <3> QED BY <1>1, <2>3, <3>2
  <2> QED BY <2>1, <2>2, <2>3
<1>8. PruneInv'
  <2> SUFFICES ASSUME NEW b \in Automations, NEW q \in Slots, Pruning(q, b)'
               PROVE  /\ runs'[q].child \in runs'[q].kept
                      /\ \A c \in Reach(b)' :
                           /\ c \in history'[b] => c \in runs'[q].kept \union runs'[q].doomed
                           /\ c \in runs'[q].kept => c \in history'[b] \/ c = runs'[q].child
                      /\ \A s \in Slots : s # q /\ Pruning(s, b)' => runs'[q].child \notin Reach(b)'
    BY DEF PruneInv
  <2>1. CASE b # a
    <3>1. Pruning(q, b) /\ runs'[q] = runs[q]
      BY <1>3, <2>1
    <3> QED BY <1>3, <2>1, <3>1 DEF MemoryInv, PruneInv
  <2>2. CASE b = a /\ q = r
    <3>1. UNCHANGED history /\ runs'[r].kept = run.kept
          /\ run.doomed \intersect Reach(a)' \subseteq runs'[r].doomed
      BY <1>1, <1>2, <2>2 DEF Pruning
    <3> QED BY <1>1, <1>4, <2>2, <3>1
  <2>3. CASE b = a /\ q # r
    <3>1. Pruning(q, a) /\ runs'[q] = runs[q]
      BY <1>1, <1>4, <2>3
    <3>2. run.child \notin Reach(a)' /\ runs[q].child \notin Reach(a)'
      BY <2>3, <3>1
    <3>3. ASSUME NEW c \in Reach(a)'
          PROVE  /\ c \in history'[a] => c \in runs[q].kept \union runs[q].doomed
                 /\ c \in runs[q].kept => c \in history'[a] \/ c = runs[q].child
      <4>1. c \in Reach(a) /\ c # run.child
        BY <3>2
      <4>2. /\ c \in history[a] => c \in runs[q].kept \union runs[q].doomed
            /\ c \in runs[q].kept => c \in history[a] \/ c = runs[q].child
        BY <3>1, <4>1 DEF MemoryInv, PruneInv
      <4>3. c \in history'[a] <=> c \in history[a]
        BY <1>2, <4>1 DEF TypeOK
      <4> QED BY <4>2, <4>3
    <3>4. runs[q].child \in runs[q].kept
      BY <3>1 DEF MemoryInv, PruneInv
    <3> QED BY <2>3, <3>1, <3>2, <3>3, <3>4
  <2> QED BY <2>1, <2>2, <2>3
<1>9. OwnInv'
  <2>1. ASSUME NEW b \in Automations, NEW c \in history'[b] \union saved'[b]
        PROVE  children'[c] \in {b, NoAutomation}
    BY <1>3, <1>5, <2>1
  <2>2. ASSUME NEW b \in Automations, NEW q \in Slots, Pruning(q, b)', NEW c \in runs'[q].kept
        PROVE  children'[c] \in {b, NoAutomation}
    <3>1. CASE q = r
      BY <1>1, <2>2, <3>1 DEF Pruning
    <3>2. CASE q # r
      <4>1. Pruning(q, b) /\ runs'[q] = runs[q]
        BY <1>1, <2>2, <3>2 DEF Pruning
      <4> QED BY <2>2, <4>1
    <3> QED BY <3>1, <3>2
  <2>3. ASSUME NEW b \in Automations, status'[b] = "new"
        PROVE  history'[b] = {} /\ saved'[b] = {} /\ \A c \in Children : children'[c] # b
    <3>1. b # a /\ status[b] = "new"
      BY <2>3
    <3> QED BY <1>3, <3>1 DEF MemoryInv, OwnInv
  <2> QED BY <2>1, <2>2, <2>3 DEF OwnInv
<1>10. SizeInv'
  <2>1. \A b \in Automations : Fits(history'[b])
    BY <1>3, <1>5 DEF MemoryInv, SizeInv
  <2>2. \A q \in Slots : runs'[q].pc = "pruning" => Fits(runs'[q].kept)
    BY <1>1 DEF MemoryInv, SizeInv
  <2> QED BY <2>1, <2>2 DEF MemoryInv, SizeInv, Fits
<1> QED BY <1>6, <1>7, <1>8, <1>9, <1>10 DEF MemoryInv

LEMMA PruningRemembers ==
  ASSUME TypeOK, TimersInv, MemoryInv, NEW r \in Slots, NEW well \in BOOLEAN, PruneEnds(r, well)
  PROVE  MemoryInv'
<1>0. PICK a \in Automations, run \in RunRecords : run = runs[r] /\ a = run.automation
  BY DEF PruneEnds, TimersInv, TypeOK
<1>1. /\ Pruning(r, a) /\ UNCHANGED <<saved, status, lost>>
  BY <1>0 DEF PruneEnds, Pruning
<1>2. PICK cs, gone : /\ GoesOn(r, run, cs, gone)
                      /\ \/ cs = Saved /\ gone = {}
                         \/ cs = children /\ gone = unsaved
  BY <1>0 DEF PruneEnds
<1>3. children' = cs /\ gone \subseteq unsaved'
  BY <1>2 DEF GoesOn
<1>4. \A c \in Children : children'[c] \in {children[c], NoAutomation}
  BY <1>2, <1>3 DEF Saved
<1>5. \A b \in Automations : Reach(b)' \subseteq Reach(b)
  BY <1>1, <1>2, <1>3 DEF Saved, Reach
<1>6. status[a] # "new"
  BY <1>1 DEF TimersInv, Running, Pruning
<1>7. Fits(run.kept) /\ run.child \in run.kept /\ run.kept \subseteq Children
  BY <1>0, <1>1 DEF MemoryInv, SizeInv, PruneInv, Pruning, RunRecords
<1>8. \A c \in Reach(a)' : /\ c \in history[a] => c \in run.kept \union run.doomed
                           /\ c \in run.kept => c \in history[a] \/ c = run.child
  BY <1>0, <1>1, <1>5 DEF MemoryInv, PruneInv
<1>9. \A q \in Slots : q # r /\ Pruning(q, a) =>
        run.child \notin Reach(a)' /\ runs[q].child \notin Reach(a)'
  BY <1>0, <1>1, <1>5 DEF MemoryInv, PruneInv
<1>10. \A b \in Automations : \A c \in history[b] \union saved[b] :
         children'[c] \in {b, NoAutomation}
  <2>1. \A b \in Automations : history[b] \union saved[b] \subseteq Children
    BY DEF TypeOK
  <2> QED BY <1>4, <2>1 DEF MemoryInv, OwnInv
<1>11. \A b \in Automations : \A q \in Slots : Pruning(q, b) =>
         \A c \in runs[q].kept : children'[c] \in {b, NoAutomation}
  <2>1. \A q \in Slots : runs[q].kept \subseteq Children
    BY DEF TypeOK, RunRecords
  <2> QED BY <1>4, <2>1 DEF MemoryInv, OwnInv
<1>12. \A c \in run.kept : children'[c] \in {a, NoAutomation}
  BY <1>0, <1>1, <1>11
<1>13. run.automation = a /\ runs[r].automation = a /\ runs[r].child = run.child
  BY <1>0
<1>14. \A b \in Automations :
         Reach(b)' \subseteq Reach(b) \union (IF b = a THEN {run.child} ELSE {})
  BY <1>5
<1>15. \A c \in Children : children'[c] \in {children[c], NoAutomation, a}
  BY <1>4
<1> QED BY <1>1, <1>2, <1>6, <1>7, <1>8, <1>9, <1>10, <1>11, <1>12, <1>13, <1>14, <1>15,
           GoesOnRemembers

\* A run that begins keeps as many as it may, its own among them.
LEMMA KeepsSome ==
  ASSUME NEW earlier, Fits(earlier), NEW doomed \in SUBSET earlier, NEW c,
         NEW keep \in 0 .. MaxHistory, keep > 0,
         Cardinality(doomed) = Overflow(Cardinality(earlier), keep)
  PROVE  Fits((earlier \ doomed) \union {c})
<1>1. /\ IsFiniteSet(earlier \ doomed)
      /\ Cardinality(earlier \ doomed) = Cardinality(earlier) - Cardinality(doomed)
  <2>1. earlier \intersect doomed = doomed
    OBVIOUS
  <2>2. /\ IsFiniteSet(earlier \ doomed)
        /\ Cardinality(earlier \ doomed)
             = Cardinality(earlier) - Cardinality(earlier \intersect doomed)
    <3>1. IsFiniteSet(earlier)
      BY DEF Fits
    <3> QED BY <3>1, FS_Difference, Zenon
  <2> QED BY <2>1, <2>2, Zenon
<1>2. Cardinality(earlier) \in Nat /\ Cardinality(earlier \ doomed) \in Nat
  BY <1>1, FS_CardinalityType DEF Fits
<1>3. Cardinality(earlier \ doomed) + 1 <= keep
  BY <1>1, <1>2 DEF Overflow
<1>4. /\ IsFiniteSet((earlier \ doomed) \union {c})
      /\ Cardinality((earlier \ doomed) \union {c}) <= Cardinality(earlier \ doomed) + 1
  <2> DEFINE rest == earlier \ doomed
  <2>1. IsFiniteSet(rest) /\ Cardinality(rest) \in Nat
    BY <1>1, <1>2
  <2> HIDE DEF rest
  <2>2. /\ IsFiniteSet(rest \union {c})
        /\ Cardinality(rest \union {c}) = IF c \in rest THEN Cardinality(rest)
                                          ELSE Cardinality(rest) + 1
    BY <2>1, FS_AddElement, Zenon
  <2>3. /\ IsFiniteSet(rest \union {c})
        /\ Cardinality(rest \union {c}) <= Cardinality(rest) + 1
    BY <2>1, <2>2
  <2> QED BY <2>3 DEF rest
<1>5. Cardinality((earlier \ doomed) \union {c}) \in Nat
  BY <1>4, FS_CardinalityType
<1> QED BY <1>2, <1>3, <1>4, <1>5 DEF Fits

LEMMA BeginningRemembers ==
  ASSUME TypeOK, TimersInv, MemoryInv, NEW a \in Automations, FiresWithChild(a)
  PROVE  MemoryInv'
<1> DEFINE earlier == {d \in history[a] : Exists(d)}
           others == {q \in Slots : runs[q].pc = "pruning" /\ runs[q].automation = a}
<1>1. PICK r \in Slots, c \in Children, doomed \in SUBSET earlier :
        /\ runs[r] = NoRun
        /\ Unused(c)
        /\ Cardinality(doomed) = Overflow(Cardinality(earlier), def[a].keep)
        /\ GoesOn(r, [NoRun EXCEPT !.automation = a, !.child = c, !.doomed = doomed,
                       !.kept = (earlier \ doomed) \union {c}],
                  [Saved EXCEPT ![c] = a], {})
        /\ lost' = IF others = {} THEN lost \ {c}
                   ELSE lost \union {c} \union {runs[q].child : q \in others}
  BY DEF FiresWithChild
<1> DEFINE run == [NoRun EXCEPT !.automation = a, !.child = c, !.doomed = doomed,
                       !.kept = (earlier \ doomed) \union {c}]
           cs == [Saved EXCEPT ![c] = a]
<1>2. /\ run \in RunRecords /\ run.automation = a /\ run.child = c /\ run.doomed = doomed
      /\ run.kept = (earlier \ doomed) \union {c}
  BY DEF NoRun, TypeOK, RunRecords
<1>3. runs[r].automation \notin Automations
  BY <1>1 DEF NoRun
<1>4. GoesOn(r, run, cs, {})
  BY <1>1
<1>5. UNCHANGED <<saved, status>> /\ status[a] # "new"
  BY DEF FiresWithChild, Scheduled
<1> HIDE DEF run
<1>6. children' = cs /\ cs = [Saved EXCEPT ![c] = a]
  BY <1>4 DEF GoesOn
<1>7. children' = [d \in Children |-> IF d = c THEN a
                                      ELSE IF d \in unsaved THEN NoAutomation ELSE children[d]]
  BY <1>6 DEF Saved
<1> HIDE DEF cs
<1>8. \A d \in Children : children'[d] \in {children[d], NoAutomation, a}
  BY <1>7
<1>9. \A b \in Automations : Reach(b)' \subseteq Reach(b) \union (IF b = a THEN {c} ELSE {})
  <2> SUFFICES ASSUME NEW b \in Automations, NEW d \in Reach(b)', ~(b = a /\ d = c)
               PROVE  d \in Reach(b)
    OBVIOUS
  <2>1. d # c /\ children[d] = b /\ d \notin unsaved
    BY <1>7 DEF Reach
  <2>2. d \notin lost
    BY <1>1, <2>1 DEF Reach
  <2> QED BY <2>1, <2>2 DEF Reach
<1>10. /\ \A b \in Automations : c \notin history[b] \union saved[b]
       /\ \A q \in Slots : c # runs[q].child /\ c \notin runs[q].kept
  BY <1>1 DEF Unused
<1>11. \A d \in Reach(a)' : /\ d \in history[a] => d \in run.kept \union run.doomed
                            /\ d \in run.kept => d \in history[a] \/ d = run.child
  <2> SUFFICES ASSUME NEW d \in Reach(a)', d # c, d \in history[a]
               PROVE  d \in earlier
    BY <1>2
  <2>1. children[d] = a /\ d \notin unsaved
    BY <1>9 DEF Reach
  <2> QED BY <2>1 DEF Exists
<1>12. \A q \in Slots : q # r /\ Pruning(q, a) =>
         run.child \notin Reach(a)' /\ runs[q].child \notin Reach(a)'
  <2> SUFFICES ASSUME NEW q \in Slots, Pruning(q, a)
               PROVE  c \in lost' /\ runs[q].child \in lost'
    BY <1>2 DEF Reach
  <2>1. q \in others
    BY DEF Pruning
  <2> QED BY <1>1, <2>1
<1>13. \A b \in Automations : \A d \in history[b] \union saved[b] :
         children'[d] \in {b, NoAutomation}
  <2>1. \A b \in Automations : history[b] \union saved[b] \subseteq Children
    BY DEF TypeOK
  <2> QED BY <1>7, <1>10, <2>1 DEF MemoryInv, OwnInv
<1>14. \A b \in Automations : \A q \in Slots : Pruning(q, b) =>
         \A d \in runs[q].kept : children'[d] \in {b, NoAutomation}
  <2>1. \A q \in Slots : runs[q].kept \subseteq Children
    BY DEF TypeOK, RunRecords
  <2> QED BY <1>7, <1>10, <2>1 DEF MemoryInv, OwnInv
<1>15. \A d \in run.kept : children'[d] \in {a, NoAutomation}
  BY <1>2, <1>7, <1>13
<1>16. Fits(run.kept)
  <2>1. Fits(history[a]) /\ earlier \in SUBSET history[a]
    BY DEF MemoryInv, SizeInv
  <2>2. Fits(earlier)
    <3>1. /\ IsFiniteSet(history[a]) /\ IsFiniteSet(earlier)
          /\ Cardinality(earlier) <= Cardinality(history[a])
          /\ Cardinality(history[a]) <= MaxHistory
      BY <2>1, FS_Subset DEF Fits
    <3>2. Cardinality(earlier) \in Nat /\ Cardinality(history[a]) \in Nat
      BY <3>1, FS_CardinalityType
    <3> QED BY <3>1, <3>2 DEF Fits
  <2>3. def[a].keep \in 0 .. MaxHistory /\ def[a].keep > 0
    BY DEF FiresWithChild, TypeOK, Definitions
  <2>4. Cardinality(doomed) = Overflow(Cardinality(earlier), def[a].keep)
    BY <1>1
  <2> HIDE DEF earlier
  <2>5. Fits((earlier \ doomed) \union {c})
    BY <2>2, <2>3, <2>4, KeepsSome
  <2> QED BY <1>2, <2>5
<1> QED BY <1>2, <1>3, <1>4, <1>5, <1>8, <1>9, <1>11, <1>12, <1>13, <1>14, <1>15, <1>16,
           GoesOnRemembers

-------------------------------------------------------------------------------
(* All other steps. *)

LEMMA AskedRemembers ==
  ASSUME TypeOK, TimersInv, MemoryInv, NEW a \in Automations, AutomationAsked(a)
  PROVE  MemoryInv'
<1>1. /\ UNCHANGED <<runs, children, unsaved, lost>> /\ Persist
      /\ \A b \in Automations : b # a => status'[b] = status[b]
      /\ status'[a] # "new"
  BY DEF AutomationAsked, Create, Update, Toggle, Remove, TypeOK
<1>2. \A b \in Automations : Reach(b)' = Reach(b)
  BY <1>1 DEF Reach
<1>3. UNCHANGED history /\ (status'[a] = "listed" => status[a] = "listed" \/ Reach(a) = {})
  <2>1. ASSUME NEW d \in Definitions, Create(a, d)
        PROVE  UNCHANGED history /\ Reach(a) = {}
    <3>1. history[a] = {} /\ \A c \in Children : children[c] # a
      BY <2>1 DEF Create, MemoryInv, OwnInv
    <3> QED BY <2>1, <3>1 DEF Create, Reach, TypeOK
  <2>2. CASE Remove(a)
    BY <2>2 DEF Remove, TypeOK
  <2>3. CASE Toggle(a) \/ \E d \in Definitions : Update(a, d)
    BY <2>3 DEF Toggle, Update
  <2> QED BY <2>1, <2>2, <2>3 DEF AutomationAsked
<1> QED BY <1>1, <1>2, <1>3, Unmoved

LEMMA OthersRemember ==
  ASSUME TypeOK, TimersInv, MemoryInv,
         \/ OtherRunEnds \/ DeleteParent \/ StoreSaves
         \/ \E c \in Children : DeleteChild(c)
         \/ \E a \in Automations :
              TimerExpires(a) \/ FiresForNothing(a) \/ FiresInVain(a) \/ FiresWithoutChild(a)
         \/ \E r \in Slots : RunEnds(r)
  PROVE  MemoryInv'
<1>1. UNCHANGED <<status, history>>
  BY DEF OtherRunEnds, DeleteParent, StoreSaves, DeleteChild, TimerExpires, FiresForNothing,
         FiresInVain, FiresWithoutChild, RunEnds
<1>2. /\ \A a \in Automations : Reach(a)' \subseteq Reach(a)
      /\ \A c \in Children : children'[c] \in {children[c], NoAutomation}
  <2>1. CASE DeleteParent
    BY <2>1 DEF DeleteParent, Reach
  <2>2. CASE StoreSaves
    BY <2>2 DEF StoreSaves, Saved, Reach
  <2>3. ASSUME NEW c \in Children, DeleteChild(c)
        PROVE  /\ \A a \in Automations : Reach(a)' \subseteq Reach(a)
               /\ \A d \in Children : children'[d] \in {children[d], NoAutomation}
    <3>1. children' = [d \in Children |-> IF d = c \/ d \in unsaved THEN NoAutomation
                                          ELSE children[d]]
      BY <2>3 DEF DeleteChild, Saved
    <3>2. lost' = lost \ {c}
      BY <2>3 DEF DeleteChild
    <3> QED BY <3>1, <3>2 DEF Reach
  <2>4. CASE UNCHANGED <<children, unsaved, lost>>
    BY <2>4 DEF Reach
  <2> QED BY <2>1, <2>2, <2>3, <2>4
          DEF OtherRunEnds, TimerExpires, FiresForNothing, FiresInVain, FiresWithoutChild, RunEnds
<1>3. /\ \A r \in Slots : runs[r].pc = "pruning" \/ runs'[r].pc = "pruning" => runs'[r] = runs[r]
      /\ \/ Persist
         \/ /\ UNCHANGED saved
            /\ \A r \in Slots : runs[r].automation \in Automations => runs'[r] = runs[r]
  <2>1. ASSUME NEW r \in Slots, RunEnds(r)
        PROVE  /\ Persist
               /\ \A q \in Slots : runs[q].pc = "pruning" \/ runs'[q].pc = "pruning"
                                     => runs'[q] = runs[q]
    BY <2>1 DEF RunEnds, NoRun, TypeOK
  <2>2. ASSUME NEW a \in Automations, FiresWithoutChild(a)
        PROVE  /\ UNCHANGED saved
               /\ \A q \in Slots : /\ runs[q].pc = "pruning" \/ runs'[q].pc = "pruning"
                                        => runs'[q] = runs[q]
                                   /\ runs[q].automation \in Automations => runs'[q] = runs[q]
    <3>1. PICK r \in Slots :
            /\ runs[r] = NoRun
            /\ runs' = [runs EXCEPT ![r] = [NoRun EXCEPT !.pc = "acting", !.automation = a]]
      BY <2>2 DEF FiresWithoutChild
    <3>2. /\ runs[r].pc = "idle" /\ runs[r].automation \notin Automations
          /\ runs'[r].pc = "acting"
          /\ \A q \in Slots : q # r => runs'[q] = runs[q]
      BY <3>1 DEF NoRun, TypeOK
    <3> QED BY <2>2, <3>2 DEF FiresWithoutChild
  <2>3. CASE UNCHANGED runs /\ (Persist \/ UNCHANGED saved)
    BY <2>3
  <2> QED BY <2>1, <2>2, <2>3
          DEF OtherRunEnds, DeleteParent, StoreSaves, DeleteChild, TimerExpires, FiresForNothing,
              FiresInVain
<1> QED BY <1>1, <1>2, <1>3, Unmoved

\* What the file has comes back, and nothing else that is in reach.
LEMMA RestartRemembers ==
  ASSUME TypeOK, MemoryInv, AutomationRestart
  PROVE  MemoryInv'
<1>1. /\ history' = saved /\ UNCHANGED <<status, saved, children>>
      /\ lost' = lost \union ((unsaved \union {runs[r].child : r \in Slots})
                               \ ({NoChild} \union UNION {saved[a] : a \in Automations}))
  BY DEF AutomationRestart
<1>2. \A r \in Slots : runs'[r].pc = "idle"
  BY DEF AutomationRestart, NoRun
<1>3. ASSUME NEW a \in Automations, status[a] = "listed", NEW c \in Reach(a)'
      PROVE  c \in saved[a]
  <2>1. c \in Children /\ children[c] = a /\ c \notin lost /\ c # NoChild
    BY <1>1 DEF Reach
  <2>2. ASSUME NEW b \in Automations, c \in saved[b] PROVE c \in saved[a]
    BY <2>1, <2>2 DEF MemoryInv, OwnInv
  <2>3. ASSUME c \in unsaved \union {runs[r].child : r \in Slots} PROVE c \in saved[a]
    BY <1>1, <2>1, <2>2, <2>3 DEF Reach
  <2>4. ASSUME c \notin unsaved \union {runs[r].child : r \in Slots} PROVE c \in saved[a]
    <3>1. c \in Reach(a)
      BY <2>1, <2>4 DEF Reach
    <3>2. c \in history[a]
      BY <1>3, <2>4, <3>1 DEF MemoryInv, RecallInv
    <3> QED BY <1>3, <2>4, <3>1, <3>2 DEF MemoryInv, SavedInv
  <2> QED BY <2>3, <2>4
<1>4. RecallInv' /\ SavedInv' /\ PruneInv'
  BY <1>1, <1>2, <1>3 DEF RecallInv, SavedInv, PruneInv, Pruning
<1>5. OwnInv'
  BY <1>1, <1>2 DEF MemoryInv, OwnInv, Pruning
<1>6. SizeInv'
  BY <1>1, <1>2 DEF MemoryInv, SizeInv, Fits
<1> QED BY <1>4, <1>5, <1>6 DEF MemoryInv

-------------------------------------------------------------------------------
(* The whole. *)

LEMMA NextMemory == TimedInv /\ MemoryInv /\ [Next]_vars => MemoryInv'
<1> SUFFICES ASSUME TimedInv, MemoryInv, [Next]_vars PROVE MemoryInv'
  OBVIOUS
<1>1. TypeOK /\ TimersInv
  BY DEF TimedInv
<1>2. CASE AutomationStep
  <2>1. ASSUME NEW a \in Automations, FiresWithChild(a) PROVE MemoryInv'
    BY <1>1, <2>1, BeginningRemembers
  <2>2. ASSUME NEW a \in Automations, AutomationAsked(a) PROVE MemoryInv'
    BY <1>1, <2>2, AskedRemembers
  <2>3. ASSUME NEW r \in Slots, NEW well \in BOOLEAN, PruneEnds(r, well) PROVE MemoryInv'
    BY <1>1, <2>3, PruningRemembers
  <2> QED BY <1>1, <1>2, <2>1, <2>2, <2>3, OthersRemember DEF AutomationStep, AutomationFires
<1>3. CASE Restart
  BY <1>1, <1>3, RestartRemembers DEF Restart
<1>4. CASE UNCHANGED automationVars
  BY <1>4 DEF automationVars, MemoryInv, RecallInv, SavedInv, PruneInv, OwnInv, SizeInv, Fits,
              Reach, Pruning
<1> QED BY <1>2, <1>3, <1>4 DEF Next, vars

LEMMA InitMemory == Init => MemoryInv
<1> SUFFICES ASSUME Init PROVE MemoryInv
  OBVIOUS
<1>1. Fits({})
  BY FS_EmptySet DEF Fits
<1>2. \A a \in Automations, r \in Slots : ~Pruning(r, a) /\ runs[r].pc = "idle"
  BY DEF Init, AutomationInit, NoRun, Pruning
<1>3. \A a \in Automations : /\ history[a] = {} /\ saved[a] = {} /\ Reach(a) = {}
                             /\ status[a] = "new" /\ \A c \in Children : children[c] # a
  BY DEF Init, AutomationInit, Reach
<1>4. \A r \in Slots : runs[r].pc = "idle"
  BY DEF Init, AutomationInit, NoRun
<1> QED BY <1>1, <1>2, <1>3, <1>4 DEF MemoryInv, RecallInv, SavedInv, PruneInv, OwnInv, SizeInv

\* Pruning, failing deletions, requests and restarts leave no conversation of a
\* run outside the history, and the history keeps no more than it may.
THEOREM HistoryRemembers == Spec => []RunsAreRemembered
<1>1. TimedInv /\ MemoryInv => RunsAreRemembered
  <2> SUFFICES ASSUME TimedInv, MemoryInv, NEW a \in Automations, status[a] = "listed"
               PROVE  /\ Reach(a) \subseteq history[a] \union Held(a)
                      /\ ~Running(a) => Cardinality(Reach(a)) <= MaxHistory
    BY DEF RunsAreRemembered, Reach
  <2>1. \A c \in Reach(a) : c \in history[a] \/ \E r \in Slots : Pruning(r, a) /\ runs[r].child = c
    BY DEF MemoryInv, RecallInv
  <2>2. Reach(a) \subseteq history[a] \union Held(a)
    BY <2>1 DEF Held, Pruning
  <2>3. ASSUME ~Running(a) PROVE Cardinality(Reach(a)) <= MaxHistory
    <3>1. Reach(a) \subseteq history[a]
      BY <2>1, <2>3 DEF Running, Pruning
    <3>2. Fits(history[a])
      BY DEF MemoryInv, SizeInv
    <3>3. /\ IsFiniteSet(history[a]) /\ IsFiniteSet(Reach(a))
          /\ Cardinality(Reach(a)) <= Cardinality(history[a])
          /\ Cardinality(history[a]) <= MaxHistory
      BY <3>1, <3>2, FS_Subset DEF Fits
    <3>4. Cardinality(Reach(a)) \in Nat /\ Cardinality(history[a]) \in Nat
      BY <3>3, FS_CardinalityType
    <3> QED BY <3>3, <3>4
  <2> QED BY <2>2, <2>3
<1>2. Spec => []MemoryInv
  BY InitMemory, NextMemory, Timed, PTL DEF Spec
<1> QED BY <1>1, <1>2, Timed, PTL
===============================================================================
