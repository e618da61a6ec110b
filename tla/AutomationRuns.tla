---------------------------- MODULE AutomationRuns ----------------------------
(***************************************************************************)
(* AutomationService: the automations with a cron trigger, their timers,   *)
(* and the cron runs, each of which may create a conversation of its own   *)
(* and delete earlier ones.  The order of the history is left out: where   *)
(* the code deletes the oldest, a run here deletes any of the earlier.  A  *)
(* removed automation stays an object its runs hold.                       *)
(***************************************************************************)
EXTENDS Naturals, FiniteSets, CronTimers

CONSTANTS Automations,
          Slots,          \* cron runs that may go on at once (a bound)
          Children,       \* conversations of cron runs (a bound)
          NoAutomation, NoChild,
          MaxHistory      \* the largest maxHistoryConversations (a bound)

ASSUME AutomationAssumption ==
  /\ NoAutomation \notin Automations
  /\ NoChild \notin Children
  /\ MaxHistory \in Nat

VARIABLES status,     \* new, listed (in the map of its user) or removed
          def,        \* its trigger, is it enabled, and how many conversations it keeps
          history,    \* cronRunConversationIds
          saved,      \* the history of each that automations.json has
          timer,      \* cronJobs
          runs,       \* the cron runs
          parent,     \* does the conversation exist that runs create theirs under
          children,   \* conversations of runs in the store: the automation of each
          unsaved,    \* those gone from the store's memory and not from its file
          lost,       \* history: those of a crashed or an overlapping run
          touched     \* history: automations whose timer was set during a run

automationVars == <<status, def, history, saved, timer, runs, parent, children,
                    unsaved, lost, touched>>

\* cron: has it a cron trigger with a valid expression; keep: 0 if its runs have
\* no conversations of their own (conversationMode).
Definitions == [cron : BOOLEAN, enabled : BOOLEAN, keep : 0 .. MaxHistory]
NoDefinition == [cron |-> FALSE, enabled |-> FALSE, keep |-> 0]

\* The list of automations and their definitions are in the file: every change
\* to them is followed by persist at once.
NoRun == [pc |-> "idle", automation |-> NoAutomation, child |-> NoChild,
          doomed |-> {}, kept |-> {}]

AutomationInit ==
  /\ status = [a \in Automations |-> "new"]
  /\ def = [a \in Automations |-> NoDefinition]
  /\ history = [a \in Automations |-> {}]
  /\ saved = history
  /\ timer = [a \in Automations |-> "none"]
  /\ runs = [r \in Slots |-> NoRun]
  /\ parent = TRUE
  /\ children = [c \in Children |-> NoAutomation]
  /\ unsaved = {}
  /\ lost = {}
  /\ touched = {}

Scheduled(a) == status[a] = "listed" /\ def[a].enabled /\ def[a].cron
Running(a) == \E r \in Slots : runs[r].automation = a
Exists(c) == children[c] # NoAutomation /\ c \notin unsaved

\* What persist writes.
Persist == saved' = [a \in Automations |->
                       IF status'[a] = "listed" THEN history'[a] ELSE {}]

\* The conversations once the store has saved what it has in memory.
Saved == [c \in Children |-> IF c \in unsaved THEN NoAutomation ELSE children[c]]

\* A conversation that nothing mentions stands for a new one.
Unused(c) ==
  /\ children[c] = NoAutomation
  /\ \A a \in Automations : c \notin history[a] \union saved[a]
  /\ \A r \in Slots : c \notin {runs[r].child} \union runs[r].doomed \union runs[r].kept

-------------------------------------------------------------------------------
(* What a user asks for. *)

\* syncCronJob of a definition, by a request.
Sync(a, d) ==
  /\ timer' = [timer EXCEPT ![a] = Armed(d.enabled /\ d.cron)]
  /\ touched' = IF Running(a) THEN touched \union {a} ELSE touched

Create(a, d) ==
  /\ status[a] = "new"
  /\ d.enabled
  /\ status' = [status EXCEPT ![a] = "listed"]
  /\ def' = [def EXCEPT ![a] = d]
  /\ history' = [history EXCEPT ![a] = {}]
  /\ Sync(a, d)
  /\ Persist
  /\ UNCHANGED <<runs, parent, children, unsaved, lost>>

Update(a, d) ==
  /\ status[a] = "listed"
  /\ d.enabled = def[a].enabled
  /\ def' = [def EXCEPT ![a] = d]
  /\ Sync(a, d)
  /\ UNCHANGED <<status, history>>
  /\ Persist
  /\ UNCHANGED <<runs, parent, children, unsaved, lost>>

Toggle(a) ==
  /\ status[a] = "listed"
  /\ def' = [def EXCEPT ![a].enabled = ~@]
  /\ Sync(a, def'[a])
  /\ UNCHANGED <<status, history>>
  /\ Persist
  /\ UNCHANGED <<runs, parent, children, unsaved, lost>>

Remove(a) ==
  /\ status[a] = "listed"
  /\ status' = [status EXCEPT ![a] = "removed"]
  /\ timer' = [timer EXCEPT ![a] = "none"]
  /\ UNCHANGED history
  /\ Persist
  /\ UNCHANGED <<def, runs, parent, children, unsaved, lost, touched>>

\* A run by hand or by an event changes nothing here but persists.
OtherRunEnds ==
  /\ \E a \in Automations : status[a] # "new"
  /\ UNCHANGED <<status, history>>
  /\ Persist
  /\ UNCHANGED <<def, timer, runs, parent, children, unsaved, lost, touched>>

\* The user deletes the conversation of a run, or the one above them all.
DeleteChild(c) ==
  /\ Exists(c)
  /\ children' = [Saved EXCEPT ![c] = NoAutomation]
  /\ unsaved' = {}
  /\ lost' = lost \ {c}
  /\ UNCHANGED <<status, def, history, saved, timer, runs, parent, touched>>

DeleteParent ==
  /\ parent
  /\ parent' = FALSE
  /\ children' = [c \in Children |-> NoAutomation]
  /\ unsaved' = {}
  /\ lost' = {}
  /\ UNCHANGED <<status, def, history, saved, timer, runs, touched>>

-------------------------------------------------------------------------------
(* The cron runs. *)

TimerExpires(a) ==
  /\ timer[a] = "far"
  /\ timer' = [timer EXCEPT ![a] = "near"]
  /\ UNCHANGED <<status, def, history, saved, runs, parent, children, unsaved,
                 lost, touched>>

\* A fired timer is set again when the run has ended.
\* Fault: it is set again when the run begins.
FiredOften(a) == [timer EXCEPT ![a] = "far"]
Fired(a) == [timer EXCEPT ![a] = "none"]

\* It was removed, disabled or given another trigger: nothing runs.
FiresForNothing(a) ==
  /\ timer[a] = "near"
  /\ ~Scheduled(a)
  /\ timer' = [timer EXCEPT ![a] = "none"]
  /\ UNCHANGED <<status, def, history, saved, runs, parent, children, unsaved,
                 lost, touched>>

FiresWithoutChild(a) ==
  /\ timer[a] = "near"
  /\ Scheduled(a)
  /\ def[a].keep = 0
  /\ \E r \in Slots :
       /\ runs[r] = NoRun
       /\ runs' = [runs EXCEPT ![r] = [NoRun EXCEPT !.pc = "acting", !.automation = a]]
  /\ timer' = Fired(a)
  /\ UNCHANGED <<status, def, history, saved, parent, children, unsaved, lost, touched>>

\* requireConversation throws: the failure is logged, and the timer set.
FiresInVain(a) ==
  /\ timer[a] = "near"
  /\ Scheduled(a)
  /\ def[a].keep > 0
  /\ ~parent
  /\ timer' = [timer EXCEPT ![a] = Armed(TRUE)]
  /\ UNCHANGED <<status, history>>
  /\ Persist
  /\ UNCHANGED <<def, runs, parent, children, unsaved, lost, touched>>

\* A run goes on to its actions when there is nothing left to delete. Deleting
\* takes a conversation from memory and waits for its files to go; one that is
\* gone already is passed over.
\* cs, gone: the conversations, and those of them that memory has no more.
GoesOn(r, run, cs, gone) ==
  LET rest == {c \in run.doomed : cs[c] # NoAutomation /\ c \notin gone}
  IN /\ children' = cs
     /\ \/ /\ rest = {}
           /\ history' = [history EXCEPT ![run.automation] = run.kept]
           /\ runs' = [runs EXCEPT ![r] =
                         [run EXCEPT !.pc = "acting", !.doomed = {}, !.kept = {}]]
           /\ unsaved' = gone
        \/ \E c \in rest :
             /\ runs' = [runs EXCEPT ![r] =
                           [run EXCEPT !.pc = "pruning", !.doomed = rest \ {c}]]
             /\ unsaved' = gone \union {c}
             /\ UNCHANGED history

\* Fault: the new conversation is not counted.
OverflowBefore(earlier, keep) == IF earlier > keep THEN earlier - keep ELSE 0
Overflow(earlier, keep) == IF earlier + 1 > keep THEN earlier + 1 - keep ELSE 0

\* A run creates its conversation and begins to delete those that are too many.
FiresWithChild(a) ==
  /\ timer[a] = "near"
  /\ Scheduled(a)
  /\ def[a].keep > 0
  /\ parent
  /\ \E r \in Slots, c \in Children :
       /\ runs[r] = NoRun
       /\ Unused(c)
       /\ LET earlier == {d \in history[a] : Exists(d)}
              others == {q \in Slots : runs[q].pc = "pruning" /\ runs[q].automation = a}
          IN /\ \E doomed \in SUBSET earlier :
                  /\ Cardinality(doomed) = Overflow(Cardinality(earlier), def[a].keep)
                  /\ GoesOn(r, [NoRun EXCEPT !.automation = a, !.child = c, !.doomed = doomed,
                                             !.kept = (earlier \ doomed) \union {c}],
                            [Saved EXCEPT ![c] = a], {})
             /\ lost' = IF others = {} THEN lost \ {c}
                        ELSE lost \union {c} \union {runs[q].child : q \in others}
  /\ timer' = Fired(a)
  /\ UNCHANGED <<status, def, saved, parent, touched>>

\* The deletion a run waits for ends, well (then the store saves) or not.
PruneEnds(r, well) ==
  /\ runs[r].pc = "pruning"
  /\ IF well THEN GoesOn(r, runs[r], Saved, {}) ELSE GoesOn(r, runs[r], children, unsaved)
  /\ UNCHANGED <<status, def, saved, timer, parent, lost, touched>>

\* Logged, saved, and the timer set from the object the run holds.
RunEnds(r) ==
  /\ runs[r].pc = "acting"
  /\ LET a == runs[r].automation IN
       /\ timer' = [timer EXCEPT ![a] = Armed(def[a].enabled /\ def[a].cron)]
       /\ touched' = IF \E q \in Slots \ {r} : runs[q].automation = a
                     THEN touched ELSE touched \ {a}
  /\ runs' = [runs EXCEPT ![r] = NoRun]
  /\ UNCHANGED <<status, history>>
  /\ Persist
  /\ UNCHANGED <<def, parent, children, unsaved, lost>>

\* Any other save of the store.
StoreSaves ==
  /\ unsaved # {}
  /\ children' = Saved
  /\ unsaved' = {}
  /\ UNCHANGED <<status, def, history, saved, timer, runs, parent, lost, touched>>

-------------------------------------------------------------------------------
\* The process ends and starts again with what the files have.
AutomationRestart ==
  /\ history' = saved
  /\ timer' = [a \in Automations |-> Armed(Scheduled(a))]
  /\ runs' = [r \in Slots |-> NoRun]
  /\ lost' = lost \union ((unsaved \union {runs[r].child : r \in Slots})
                            \ ({NoChild} \union UNION {saved[a] : a \in Automations}))
  /\ unsaved' = {}
  /\ touched' = {}
  /\ UNCHANGED <<status, def, saved, parent, children>>

AutomationAsked(a) ==
  \/ \E d \in Definitions : Create(a, d) \/ Update(a, d)
  \/ Toggle(a)
  \/ Remove(a)

AutomationFires(a) ==
  \/ FiresForNothing(a)
  \/ FiresWithoutChild(a)
  \/ FiresInVain(a)
  \/ FiresWithChild(a)

AutomationStep ==
  \/ \E a \in Automations : AutomationAsked(a) \/ TimerExpires(a) \/ AutomationFires(a)
  \/ OtherRunEnds
  \/ \E r \in Slots : RunEnds(r) \/ \E well \in BOOLEAN : PruneEnds(r, well)
  \/ \E c \in Children : DeleteChild(c)
  \/ DeleteParent
  \/ StoreSaves
===============================================================================
