--------------------------- MODULE ResponseOwnership ---------------------------
(***************************************************************************)
(* What the task table promises, without saying how: at any time a message *)
(* has at most one owner, an owner has at most one message, and what an    *)
(* owner shows as "streaming" it takes back when it lets its message go.   *)
(* Somebody else may feign a message, owned or not, that its owner does    *)
(* not show; an owner acquires no message that is feigned.                 *)
(***************************************************************************)
CONSTANTS Messages, Owners, NoOwner

VARIABLES
  owner,      \* who generates the message, or NoOwner
  streaming,  \* the messages their owners show as streaming
  feigned     \* the messages shown as streaming by somebody else

Init ==
  /\ owner = [m \in Messages |-> NoOwner]
  /\ streaming = {}
  /\ feigned = {}

Acquire(m, o) ==
  /\ owner[m] = NoOwner
  /\ \A n \in Messages : owner[n] # o
  /\ m \notin feigned
  /\ owner' = [owner EXCEPT ![m] = o]
  /\ UNCHANGED <<streaming, feigned>>

Show(m) ==
  /\ owner[m] # NoOwner
  /\ streaming' = streaming \union {m}
  /\ feigned' = feigned \ {m}
  /\ UNCHANGED owner

Hide(m) ==
  /\ streaming' = streaming \ {m}
  /\ feigned' = feigned \ {m}
  /\ UNCHANGED owner

\* Somebody shows a message as streaming that its owner, if any, does not.
Feign(m) ==
  /\ m \notin streaming
  /\ feigned' = feigned \union {m}
  /\ UNCHANGED <<owner, streaming>>

Release(m) ==
  /\ owner[m] # NoOwner
  /\ owner' = [owner EXCEPT ![m] = NoOwner]
  /\ streaming' = streaming \ {m}
  /\ feigned' \in {feigned, feigned \ {m}}

\* An owner gives its message up and another one takes the next message.
HandOver(m, n, o) ==
  /\ owner[m] # NoOwner
  /\ owner[n] = NoOwner
  /\ \A k \in Messages : owner[k] # o
  /\ m \notin streaming
  /\ n \notin feigned
  /\ owner' = [owner EXCEPT ![m] = NoOwner, ![n] = o]
  /\ UNCHANGED <<streaming, feigned>>

Reset ==
  /\ owner' = [m \in Messages |-> NoOwner]
  /\ streaming' = {}
  /\ feigned' = {}

Next ==
  \/ \E m \in Messages : Show(m) \/ Hide(m) \/ Feign(m) \/ Release(m)
  \/ \E m \in Messages, o \in Owners : Acquire(m, o)
  \/ \E m, n \in Messages, o \in Owners : HandOver(m, n, o)
  \/ Reset

Spec == Init /\ [][Next]_<<owner, streaming, feigned>>
===============================================================================
