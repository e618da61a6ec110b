------------------------------ MODULE PluginCrons ------------------------------
(***************************************************************************)
(* The cron jobs of the plugins (PluginRuntimeService): those the manifest *)
(* declares, merged into the stored list whenever the list is read, and    *)
(* those a plugin registers.  Every reading starts all timers of the       *)
(* plugin anew.  The list is in the file after every change.               *)
(***************************************************************************)
EXTENDS Naturals, CronTimers

CONSTANTS Plugins, ManifestJobs, HostJobs,
          Home,           \* the plugin of each job
          MaxTicks        \* ticks of one job that may go on at once (a bound)

Jobs == ManifestJobs \union HostJobs

ASSUME CronAssumption ==
  /\ ManifestJobs \intersect HostJobs = {}
  /\ Home \in [Jobs -> Plugins]
  /\ MaxTicks \in Nat

VARIABLES known,      \* the plugins that have a record
          crons,      \* what the manifests say: each job is on, off or absent
          jobs,       \* cronJobs, in memory and in the file
          cronTimer,  \* cronTimers
          ticks,      \* the ticks of each job that wait for the plugin's hook
          reread      \* history: jobs whose timer was set anew during a tick

cronVars == <<known, crons, jobs, cronTimer, ticks, reread>>

JobStates == {"absent", "off", "on"}

CronInit ==
  /\ known = {}
  /\ crons = [j \in ManifestJobs |-> "absent"]
  /\ jobs = [j \in Jobs |-> "absent"]
  /\ cronTimer = [j \in Jobs |-> "none"]
  /\ ticks = [j \in Jobs |-> 0]
  /\ reread = {}

JobsOf(p) == {j \in Jobs : Home[j] = p}

\* mergeRuntimeCronJobs: the registered jobs stay, the others are the manifest's.
Merged(p) ==
  [j \in Jobs |-> IF Home[j] # p THEN jobs[j]
                  ELSE IF p \notin known THEN "absent"
                  ELSE IF j \in ManifestJobs THEN crons[j] ELSE jobs[j]]

\* Fault: a job that is taken off the list keeps its timer.
SyncedPresent(p, list) ==
  [j \in Jobs |-> IF Home[j] # p \/ list[j] = "absent" THEN cronTimer[j]
                  ELSE Armed(list[j] = "on")]
\* syncCronTimer of the jobs of a list, clearCronTimer of those it has no more.
Synced(p, list) ==
  [j \in Jobs |-> IF Home[j] # p \/ (list[j] = "absent" /\ jobs[j] = "absent")
                  THEN cronTimer[j]
                  ELSE Armed(list[j] = "on")]

\* reconcilePluginCronJobs and writePluginCronJobs: the list and all its timers.
Writes(p, list) ==
  /\ jobs' = list
  /\ cronTimer' = Synced(p, list)
  /\ reread' = reread \union {j \in JobsOf(p) : ticks[j] > 0}

-------------------------------------------------------------------------------
ListJobs(p) ==
  /\ Writes(p, Merged(p))
  /\ UNCHANGED <<known, crons, ticks>>

\* A new id each time.
Register(j, state) ==
  /\ Home[j] \in known
  /\ jobs[j] = "absent"
  /\ ticks[j] = 0
  /\ Writes(Home[j], [Merged(Home[j]) EXCEPT ![j] = state])
  /\ UNCHANGED <<known, crons, ticks>>

\* Jobs of the manifest stay.
DeleteJob(j) ==
  /\ Writes(Home[j], IF j \in HostJobs THEN [Merged(Home[j]) EXCEPT ![j] = "absent"]
                     ELSE Merged(Home[j]))
  /\ UNCHANGED <<known, crons, ticks>>

\* A plugin registers; nobody looks at its jobs.
UpsertPlugin(p) ==
  /\ known' = known \union {p}
  /\ \E said \in [ManifestJobs -> JobStates] :
       crons' = [j \in ManifestJobs |-> IF Home[j] = p THEN said[j] ELSE crons[j]]
  /\ UNCHANGED <<jobs, cronTimer, ticks, reread>>

\* The record is deleted, and deletePluginRuntimeState clears the jobs.
DeletePlugin(p) ==
  /\ p \in known
  /\ known' = known \ {p}
  /\ crons' = [j \in ManifestJobs |-> IF Home[j] = p THEN "absent" ELSE crons[j]]
  /\ jobs' = [j \in Jobs |-> IF Home[j] = p THEN "absent" ELSE jobs[j]]
  /\ cronTimer' = [j \in Jobs |-> IF Home[j] = p /\ jobs[j] # "absent"
                                  THEN "none" ELSE cronTimer[j]]
  /\ UNCHANGED <<ticks, reread>>

-------------------------------------------------------------------------------
JobExpires(j) ==
  /\ cronTimer[j] = "far"
  /\ cronTimer' = [cronTimer EXCEPT ![j] = "near"]
  /\ UNCHANGED <<known, crons, jobs, ticks, reread>>

\* runCronJob: a job that is gone or disabled does not run.
JobFires(j) ==
  /\ cronTimer[j] = "near"
  /\ cronTimer' = [cronTimer EXCEPT ![j] = "none"]
  /\ IF jobs[j] = "on"
     THEN /\ ticks[j] < MaxTicks
          /\ ticks' = [ticks EXCEPT ![j] = @ + 1]
     ELSE UNCHANGED ticks
  /\ UNCHANGED <<known, crons, jobs, reread>>

\* Fault: a job ticks once.
AfterTickOnce(j) == "none"
\* updateCronJob looks the job up again.
AfterTick(j) == Armed(jobs[j] = "on")

\* The hook answered or threw, or there is no plugin or no hook.
TickEnds(j) ==
  /\ ticks[j] > 0
  /\ ticks' = [ticks EXCEPT ![j] = @ - 1]
  /\ cronTimer' = [cronTimer EXCEPT ![j] = AfterTick(j)]
  /\ reread' = IF ticks[j] = 1 THEN reread \ {j} ELSE reread
  /\ UNCHANGED <<known, crons, jobs>>

\* The process ends and starts again: every plugin's jobs are reconciled.
CronRestart ==
  /\ jobs' = [j \in Jobs |-> Merged(Home[j])[j]]
  /\ cronTimer' = [j \in Jobs |-> Armed(jobs'[j] = "on")]
  /\ ticks' = [j \in Jobs |-> 0]
  /\ reread' = {}
  /\ UNCHANGED <<known, crons>>

-------------------------------------------------------------------------------
\* What reconciles the jobs of a plugin.
Reconciles(p) ==
  \/ ListJobs(p)
  \/ \E j \in HostJobs \intersect JobsOf(p), state \in {"on", "off"} : Register(j, state)
  \/ \E j \in JobsOf(p) : DeleteJob(j)

CronStep ==
  \/ \E p \in Plugins : Reconciles(p) \/ UpsertPlugin(p) \/ DeletePlugin(p)
  \/ \E j \in Jobs : JobExpires(j) \/ JobFires(j) \/ TickEnds(j)
===============================================================================
