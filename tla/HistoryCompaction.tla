--------------------------- MODULE HistoryCompaction ---------------------------
(***************************************************************************)
(* The summary strategy of conversation/context-governance.service.ts: a   *)
(* compaction reads the history and its revision, asks a model for the     *)
(* summary of a prefix, perhaps of a longer one, and replaces the history  *)
(* if the revision is still the one it read. Several may be under way:     *)
(* before a model call, after a response, by the user's command.           *)
(***************************************************************************)
EXTENDS ConversationRecords

CONSTANT NoConversation

ASSUME CompactionConstants == NoConversation \notin Conversations

VARIABLES
  on,     \* the conversation each compaction works on
  seen,   \* the history it read
  chosen  \* the messages whose summary it asked for

compactionVars == <<on, seen, chosen>>

CompactionInit ==
  /\ on = [r \in Readers |-> NoConversation]
  /\ seen = [r \in Readers |-> [m \in {} |-> 0]]
  /\ chosen = [r \in Readers |-> {}]

(* readContextCompactionHistoryState *)

ActiveSummaries(history) == {m \in DOMAIN history : history[m].marks}
Visible(history) == {m \in DOMAIN history : history[m].by \notin ActiveSummaries(history)}
\* What is sent to a model: a summary without its annotation is a display message like any other.
Shown(history) == {m \in Visible(history) : history[m].summary => history[m].marks}

\* A summary stands behind the last message it covers.
Rank(history, m) ==
  LET covered == {n \in DOMAIN history : history[n].by = m}
  IN IF history[m].marks /\ covered # {}
     THEN 2 * (CHOOSE n \in covered : \A o \in covered : o <= n) + 1
     ELSE 2 * m

\* The nonempty prefixes of what is shown, whatever is kept of its end.
Prefixes(history) ==
  {S \in SUBSET Shown(history) \ {{}} :
     \A m \in S, n \in Shown(history) \ S : Rank(history, m) < Rank(history, n)}

\* Fault: the messages that were to be kept are covered too.
CoveredWithRecent(history, S, s) ==
  LET tells == UNION {history[m].tells : m \in S}
  IN [m \in DOMAIN history \union {s} |->
        IF m = s THEN [pending |-> FALSE, summary |-> TRUE, marks |-> TRUE, by |-> 0, tells |-> tells,
                       early |-> FALSE]
        ELSE [history[m] EXCEPT !.by = s, !.marks = FALSE, !.early = history[m].pending]]

\* applyContextCompaction: covering takes the compaction's own annotations off a message, those that
\* make it a summary too.
Covered(history, S, s) ==
  LET tells == UNION {history[m].tells : m \in S}
  IN [m \in DOMAIN history \union {s} |->
        IF m = s THEN [pending |-> FALSE, summary |-> TRUE, marks |-> TRUE, by |-> 0, tells |-> tells,
                       early |-> FALSE]
        ELSE IF m \in S
        THEN [history[m] EXCEPT !.by = s, !.marks = FALSE, !.early = history[m].pending]
        ELSE history[m]]

(* runCompaction *)

\* Above the threshold or forced; otherwise nothing happens.
StartCompaction(r, c) ==
  /\ server = "up" /\ on[r] = NoConversation /\ c \in Live
  /\ \E S \in Prefixes(records[c]) : chosen' = [chosen EXCEPT ![r] = S]
  /\ on' = [on EXCEPT ![r] = c]
  /\ seen' = [seen EXCEPT ![r] = records[c]]
  /\ held' = [held EXCEPT ![r] = {c}]
  /\ UNCHANGED <<server, born, parent, records, sessions, file, issued>>

Ends(r) ==
  /\ on' = [on EXCEPT ![r] = NoConversation]
  /\ seen' = [seen EXCEPT ![r] = [m \in {} |-> 0]]
  /\ chosen' = [chosen EXCEPT ![r] = {}]

\* Still over the budget: the summary of a longer prefix of the same history is asked for.
AsksAgain(r) ==
  /\ on[r] # NoConversation
  /\ \E S \in Prefixes(seen[r]) :
       chosen[r] \subseteq S /\ chosen[r] # S /\ chosen' = [chosen EXCEPT ![r] = S]
  /\ UNCHANGED <<recordVars, on, seen>>

\* No summary came, none was short enough, the model failed, or the conversation or its revision is
\* not the one that was read.
GivesUp(r) ==
  /\ on[r] # NoConversation
  /\ Ends(r)
  /\ UNCHANGED recordVars

\* Fault: the expected revision is not compared.
ReplacesAnyway(r) ==
  /\ on[r] # NoConversation /\ on[r] \in Live
  /\ issued < MaxMessages
  /\ issued' = issued + 1
  /\ Update(on[r], Covered(seen[r], chosen[r], issued + 1))
  /\ Ends(r)

\* replaceConversationHistory
Replaces(r) ==
  /\ on[r] # NoConversation /\ on[r] \in Live
  /\ on[r] \in held[r]
  /\ issued < MaxMessages
  /\ issued' = issued + 1
  /\ Update(on[r], Covered(seen[r], chosen[r], issued + 1))
  /\ Ends(r)

ForgetsCompactions ==
  /\ on' = [r \in Readers |-> NoConversation]
  /\ seen' = [r \in Readers |-> [m \in {} |-> 0]]
  /\ chosen' = [r \in Readers |-> {}]
===============================================================================
