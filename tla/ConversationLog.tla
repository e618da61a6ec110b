---------------------------- MODULE ConversationLog ----------------------------
(***************************************************************************)
(* What the store promises of a history: it grows by one new message or    *)
(* loses one at a time, a message that is gone does not come back, and     *)
(* what a restart brings back is what was saved after the last step, save  *)
(* for removals that were under way and conversations lost as a whole.     *)
(***************************************************************************)
EXTENDS Naturals

VARIABLES
  log,   \* [a set of conversations -> the ids of their messages]
  saved, \* what a restart would bring back
  last   \* the last id given to a message

Restricted(f, S) == [c \in S |-> f[c]]

Init ==
  /\ log = [c \in {} |-> {}]
  /\ saved = log
  /\ last = 0

Create(c) ==
  /\ c \notin DOMAIN log
  /\ log' = [d \in DOMAIN log \union {c} |-> IF d = c THEN {} ELSE log[d]]
  /\ saved' = log'
  /\ UNCHANGED last

Add(c) ==
  /\ c \in DOMAIN log
  /\ last' = last + 1
  /\ log' = [log EXCEPT ![c] = @ \union {last + 1}]
  /\ saved' = log'

Drop(c, m) ==
  /\ c \in DOMAIN log /\ m \in log[c]
  /\ log' = [log EXCEPT ![c] = @ \ {m}]
  /\ saved' = log'
  /\ UNCHANGED last

Save ==
  /\ saved' = log
  /\ UNCHANGED <<log, last>>

Delete(c) ==
  /\ c \in DOMAIN log
  /\ log' = Restricted(log, DOMAIN log \ {c})
  /\ UNCHANGED <<saved, last>>

\* The server goes down or comes up again.
Restart ==
  /\ \E kept \in SUBSET DOMAIN saved :
       /\ saved' = Restricted(saved, kept)
       /\ log' = saved'
  /\ UNCHANGED last

Next ==
  \/ \E c \in DOMAIN log' : Create(c)
  \/ \E c \in DOMAIN log : Add(c) \/ Delete(c) \/ \E m \in log[c] : Drop(c, m)
  \/ Save \/ Restart

Spec == Init /\ [][Next]_<<log, saved, last>>
===============================================================================
