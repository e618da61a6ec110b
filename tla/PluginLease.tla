------------------------------ MODULE PluginLease ------------------------------
(***************************************************************************)
(* What the gateway promises to those who call a remote plugin: one        *)
(* connection holds the plugin at a time, calls go to the holder, only the *)
(* holder answers them, and no call outlives the holder it was sent to.    *)
(***************************************************************************)
CONSTANTS Holders, Nobody, Calls

VARIABLES
  holder,    \* the connection that has the plugin, or Nobody
  waiting    \* the calls that are sent and not answered

Init == holder = Nobody /\ waiting = {}

\* Somebody takes the plugin, or takes it over.
Take == holder' \in Holders /\ holder' # holder /\ waiting' = {}

Issue(i) ==
  /\ holder # Nobody
  /\ i \notin waiting
  /\ waiting' = waiting \union {i}
  /\ UNCHANGED holder

Settle(i) ==
  /\ holder # Nobody
  /\ i \in waiting
  /\ waiting' = waiting \ {i}
  /\ UNCHANGED holder

GiveUp == holder' = Nobody /\ waiting' = {}

Next ==
  \/ Take
  \/ \E i \in Calls : Issue(i) \/ Settle(i)
  \/ GiveUp

Spec == Init /\ [][Next]_<<holder, waiting>>
===============================================================================
