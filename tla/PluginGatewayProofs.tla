-------------------------- MODULE PluginGatewayProofs --------------------------
(***************************************************************************)
(* Proofs about PluginGateway, for any processes, sockets, numbers of      *)
(* calls and of restarts.                                                  *)
(*                                                                         *)
(* The inductive invariant IInv adds to the invariants of the runs that    *)
(* calls wait on the connection of the index only, and that no id beyond   *)
(* the sequence is in use. CarryInv follows a call through the queues of   *)
(* its connection and the handlers of its process.                         *)
(***************************************************************************)
EXTENDS PluginGatewayProps, TLAPS

PendingAtOwner == \A i \in Ids : pending[i] \in {owner, NoSocket}

IdsAreIssued == \A i \in Ids : pending[i] # NoSocket => i <= issued

Tables ==
  /\ IndexAgrees
  /\ ConnectionsAreWatched
  /\ OnlineHasConnection
  /\ PendingAtOwner
  /\ IdsAreIssued

IInv == TypeOK /\ Tables

USE ConstantsAssumption DEF ConstantsAssumption

------------------------------------------------------------------------------
(* Types.                                                                  *)

\* The messages without content, and those of a call, are messages.
LEMMA Messages ==
  /\ \A type \in {"authenticate", "register", "ping", "auth_ok", "auth_fail"} :
       Plain(type) \in Message
  /\ \A type \in {"execute", "answer"}, i \in Ids, b \in 0..MaxBoots :
       [type |-> type, call |-> i, boot |-> b] \in Message
  BY DEF Message

\* A queue stays a queue when it is emptied, shortened or extended.
LEMMA Queues ==
  ASSUME NEW q \in [Sockets -> Seq(Message)], NEW s \in Sockets
  PROVE  /\ \A m \in Message : [q EXCEPT ![s] = Append(@, m)] \in [Sockets -> Seq(Message)]
         /\ \A m \in Message : [q EXCEPT ![s] = <<m>>] \in [Sockets -> Seq(Message)]
         /\ q[s] # <<>> => /\ [q EXCEPT ![s] = Tail(@)] \in [Sockets -> Seq(Message)]
                           /\ Head(q[s]) \in Message
         /\ [q EXCEPT ![s] = <<>>] \in [Sockets -> Seq(Message)]
  OBVIOUS

\* The start satisfies the invariant.
THEOREM InitIInv == Init => IInv
<1> SUFFICES ASSUME Init PROVE IInv
  OBVIOUS
<1>1. TypeOK
  BY DEF Init, TypeOK
<1>2. Tables
  BY DEF Init, Tables, IndexAgrees, ConnectionsAreWatched, OnlineHasConnection,
         PendingAtOwner, IdsAreIssued
<1> QED BY <1>1, <1>2 DEF IInv

\* The server's tables after a connection is disconnected.
LEMMA DisconnectTypes ==
  ASSUME TypeOK, NEW s \in Sockets, DisconnectConnection(s)
  PROVE  /\ conn' \in [Sockets -> {"none", "opened", "authenticated"}]
         /\ owner' \in Sockets \union {NoSocket}
         /\ record' \in {"absent", "offline", "online"}
         /\ pending' \in [Ids -> Sockets \union {NoSocket}]
  BY DEF TypeOK, DisconnectConnection, NothingDisconnected, Offline

LEMMA DisconnectOwnerTypes ==
  ASSUME TypeOK, DisconnectOwner
  PROVE  /\ conn' \in [Sockets -> {"none", "opened", "authenticated"}]
         /\ owner' \in Sockets \union {NoSocket}
         /\ record' \in {"absent", "offline", "online"}
         /\ pending' \in [Ids -> Sockets \union {NoSocket}]
<1>1. CASE owner # NoSocket /\ DisconnectConnection(owner)
  BY <1>1, DisconnectTypes DEF TypeOK
<1>2. CASE owner = NoSocket /\ record' = Offline /\ UNCHANGED <<conn, owner, pending>>
  BY <1>2 DEF TypeOK, Offline
<1> QED BY <1>1, <1>2 DEF DisconnectOwner

LEMMA SendTypes ==
  ASSUME TypeOK, NEW s \in Sockets, NEW m \in Message, Send(s, m)
  PROVE  toClient' \in [Sockets -> Seq(Message)]
  BY Queues DEF TypeOK, Send

LEMMA ReceivesTypes ==
  ASSUME TypeOK, NEW s \in Sockets, NEW types, Receives(s, types)
  PROVE  toServer' \in [Sockets -> Seq(Message)] /\ Head(toServer[s]) \in Message
  BY Queues DEF TypeOK, Receives

LEMMA LosesSocketTypes ==
  ASSUME TypeOK, NEW c \in Clients, LosesSocket(c)
  PROVE  /\ link' \in [Clients -> Sockets \union {NoSocket}]
         /\ beats' \in [Clients -> BOOLEAN]
         /\ toServer' \in [Sockets -> Seq(Message)]
         /\ toClient' \in [Sockets -> Seq(Message)]
<1>1. link[c] \in Sockets
  BY DEF TypeOK, LosesSocket
<1>2. toClient' \in [Sockets -> Seq(Message)]
  BY <1>1, Queues DEF TypeOK, LosesSocket
<1>3. toServer' \in [Sockets -> Seq(Message)]
  <2>1. [toServer EXCEPT ![link[c]] = <<>>] \in [Sockets -> Seq(Message)]
    BY <1>1, Queues DEF TypeOK
  <2> QED BY <2>1 DEF TypeOK, LosesSocket
<1>4. link' \in [Clients -> Sockets \union {NoSocket}]
  BY DEF TypeOK, LosesSocket
<1>5. beats' \in [Clients -> BOOLEAN]
  BY DEF TypeOK, LosesSocket
<1> QED BY <1>2, <1>3, <1>4, <1>5

\* A received message keeps the types.
LEMMA ReceivedTypes ==
  ASSUME TypeOK, NEW s \in Sockets,
         \/ ReceivesUnauthenticated(s) \/ RefusesAuthentication(s)
         \/ Authenticates(s) \/ ShowsOnline(s) \/ Settles(s)
  PROVE  TypeOK'
<1>1. CASE ReceivesUnauthenticated(s)
  <2>1. toServer' \in [Sockets -> Seq(Message)] /\ toClient' \in [Sockets -> Seq(Message)]
    BY <1>1, Messages, ReceivesTypes, SendTypes DEF ReceivesUnauthenticated
  <2> QED BY <1>1, <2>1 DEF TypeOK, ReceivesUnauthenticated, clientVars
<1>2. CASE RefusesAuthentication(s)
  <2>1. toServer' \in [Sockets -> Seq(Message)] /\ toClient' \in [Sockets -> Seq(Message)]
    BY <1>2, Messages, ReceivesTypes, SendTypes DEF RefusesAuthentication
  <2> QED BY <1>2, <2>1 DEF TypeOK, RefusesAuthentication, clientVars
<1>3. CASE Authenticates(s)
  <2>1. toServer' \in [Sockets -> Seq(Message)] /\ toClient' \in [Sockets -> Seq(Message)]
    BY <1>3, Messages, ReceivesTypes, SendTypes DEF Authenticates, TakesPlugin
  <2>2. /\ conn' \in [Sockets -> {"none", "opened", "authenticated"}]
        /\ pending' \in [Ids -> Sockets \union {NoSocket}]
        /\ record' \in {"absent", "offline", "online"}
        /\ owner' \in Sockets \union {NoSocket}
    BY <1>3 DEF TypeOK, Authenticates, TakesPlugin
  <2>3. timer' \in [Sockets -> BOOLEAN]
    BY <1>3 DEF TypeOK, Authenticates
  <2> QED BY <1>3, <2>1, <2>2, <2>3 DEF TypeOK, Authenticates, TakesPlugin, clientVars
<1>4. CASE ShowsOnline(s)
  <2>1. toServer' \in [Sockets -> Seq(Message)]
    BY <1>4, ReceivesTypes DEF ShowsOnline
  <2> QED BY <1>4, <2>1 DEF TypeOK, ShowsOnline, clientVars
<1>5. CASE Settles(s)
  <2>1. toServer' \in [Sockets -> Seq(Message)]
    BY <1>5, ReceivesTypes DEF Settles
  <2>2. pending' \in [Ids -> Sockets \union {NoSocket}]
    BY <1>5 DEF TypeOK, Settles
  <2> QED BY <1>5, <2>1, <2>2 DEF TypeOK, Settles, clientVars
<1> QED BY <1>1, <1>2, <1>3, <1>4, <1>5

\* What else happens at a socket keeps the types.
LEMMA SocketTypes ==
  ASSUME TypeOK, NEW s \in Sockets,
         AuthTimesOut(s) \/ Sweeps(s) \/ SocketCloses(s)
  PROVE  TypeOK'
<1>1. CASE AuthTimesOut(s)
  <2>1. toClient' \in [Sockets -> Seq(Message)]
    BY <1>1, Messages, SendTypes DEF AuthTimesOut
  <2>2. socket' \in [Sockets -> {"free", "open", "closing"}]
    BY <1>1 DEF TypeOK, AuthTimesOut, Close
  <2>3. timer' \in [Sockets -> BOOLEAN]
    BY <1>1 DEF TypeOK, AuthTimesOut
  <2> QED BY <1>1, <2>1, <2>2, <2>3 DEF TypeOK, AuthTimesOut, clientVars
<1>2. CASE Sweeps(s)
  <2>1. socket' \in [Sockets -> {"free", "open", "closing"}]
    BY <1>2 DEF TypeOK, Sweeps, Close
  <2> QED BY <1>2, <2>1, DisconnectTypes DEF TypeOK, Sweeps, clientVars
<1>3. CASE SocketCloses(s)
  <2>1. socket' \in [Sockets -> {"free", "open", "closing"}]
    BY <1>3 DEF TypeOK, SocketCloses, SocketGone
  <2>2. timer' \in [Sockets -> BOOLEAN]
    BY <1>3 DEF TypeOK, SocketCloses, SocketGone
  <2>3. /\ conn' \in [Sockets -> {"none", "opened", "authenticated"}]
        /\ owner' \in Sockets \union {NoSocket}
        /\ record' \in {"absent", "offline", "online"}
        /\ pending' \in [Ids -> Sockets \union {NoSocket}]
    BY <1>3, DisconnectTypes, DisconnectOwnerTypes DEF SocketCloses
  <2> QED BY <1>3, <2>1, <2>2, <2>3 DEF TypeOK, SocketCloses, SocketGone, clientVars
<1> QED BY <1>1, <1>2, <1>3

\* So does a step of a client.
LEMMA ClientTypes ==
  ASSUME TypeOK, NEW c \in Clients, ClientStep(c)
  PROVE  TypeOK'
<1>1. CASE Starts(c)
  BY <1>1 DEF TypeOK, Starts, Serverless
<1>2. ASSUME NEW s \in Sockets, Connects(c, s) PROVE TypeOK'
  <2>1. toServer' \in [Sockets -> Seq(Message)] /\ toClient' \in [Sockets -> Seq(Message)]
    BY <1>2, Messages, Queues DEF TypeOK, Connects
  <2>2. link' \in [Clients -> Sockets \union {NoSocket}]
    BY <1>2 DEF TypeOK, Connects
  <2>3. /\ socket' \in [Sockets -> {"free", "open", "closing"}]
        /\ conn' \in [Sockets -> {"none", "opened", "authenticated"}]
    BY <1>2 DEF TypeOK, Connects
  <2>4. timer' \in [Sockets -> BOOLEAN]
    BY <1>2 DEF TypeOK, Connects
  <2> QED BY <1>2, <2>1, <2>2, <2>3, <2>4 DEF TypeOK, Connects
<1>3. CASE ClientReceives(c)
  <2> DEFINE s == link[c]
             m == Head(toClient[s])
  <2>1. s \in Sockets /\ m \in Message
    BY <1>3, Queues DEF TypeOK, ClientReceives
  <2>2. toClient' \in [Sockets -> Seq(Message)]
    BY <1>3, <2>1, Queues DEF TypeOK, ClientReceives
  <2>3. toServer' \in [Sockets -> Seq(Message)]
    BY <1>3, <2>1, Queues, Messages DEF TypeOK, ClientReceives
  <2>4. m.type = "execute" => [call |-> m.call, boot |-> m.boot] \in Work
    BY <2>1 DEF Message, Plain, Work
  <2>5. works' \in [Clients -> SUBSET Work]
    BY <1>3, <2>4 DEF TypeOK, ClientReceives
  <2>6. beats' \in [Clients -> BOOLEAN]
    BY <1>3 DEF TypeOK, ClientReceives
  <2> QED BY <1>3, <2>2, <2>3, <2>5, <2>6 DEF TypeOK, ClientReceives, Serverless
<1>4. CASE Pings(c)
  <2>1. toServer' \in [Sockets -> Seq(Message)]
    <3>1. CASE link[c] \in Sockets
      BY <1>4, <3>1, Messages, Queues DEF TypeOK, Pings
    <3>2. CASE link[c] = NoSocket
      BY <1>4, <3>2 DEF TypeOK, Pings
    <3> QED BY <3>1, <3>2 DEF TypeOK
  <2> QED BY <1>4, <2>1 DEF TypeOK, Pings, Serverless, clientVars
<1>5. ASSUME NEW w \in works[c], Answers(c, w) PROVE TypeOK'
  <2>1. /\ w \in Work
        /\ [type |-> "answer", call |-> w.call, boot |-> w.boot] \in Message
    BY <1>5, Messages DEF TypeOK, Work
  <2>2. toServer' \in [Sockets -> Seq(Message)]
    BY <1>5, <2>1, Queues DEF TypeOK, Answers
  <2>3. works' \in [Clients -> SUBSET Work]
    BY <1>5 DEF TypeOK, Answers
  <2> QED BY <1>5, <2>2, <2>3 DEF TypeOK, Answers, Serverless
<1>6. CASE Disconnected(c)
  BY <1>6, LosesSocketTypes DEF TypeOK, Disconnected, Serverless
<1>7. CASE Stops(c)
  <2>1. /\ link' \in [Clients -> Sockets \union {NoSocket}]
        /\ beats' \in [Clients -> BOOLEAN]
        /\ toServer' \in [Sockets -> Seq(Message)]
        /\ toClient' \in [Sockets -> Seq(Message)]
    BY <1>7, LosesSocketTypes DEF TypeOK, Stops
  <2>2. on' \in [Clients -> BOOLEAN]
    BY <1>7 DEF TypeOK, Stops
  <2>3. works' \in [Clients -> SUBSET Work]
    BY <1>7 DEF TypeOK, Stops
  <2> QED BY <1>7, <2>1, <2>2, <2>3 DEF TypeOK, Stops, Serverless
<1> QED BY <1>1, <1>2, <1>3, <1>4, <1>5, <1>6, <1>7 DEF ClientStep

\* Every step keeps the types.
LEMMA StepTypes == TypeOK /\ [Next]_vars => TypeOK'
<1> SUFFICES ASSUME TypeOK, [Next]_vars PROVE TypeOK'
  OBVIOUS
<1>1. ASSUME NEW s \in Sockets, ServerStep(s) PROVE TypeOK'
  BY <1>1, ReceivedTypes, SocketTypes DEF ServerStep
<1>2. ASSUME NEW c \in Clients, ClientStep(c) PROVE TypeOK'
  BY <1>2, ClientTypes
<1>3. CASE Calls
  <2>1. owner \in Sockets /\ issued + 1 \in Ids /\ issued' \in 0..MaxCalls
    BY <1>3 DEF TypeOK, Calls, Ids
  <2>2. toClient' \in [Sockets -> Seq(Message)]
    BY <1>3, <2>1, Messages, SendTypes DEF TypeOK, Calls
  <2>3. pending' \in [Ids -> Sockets \union {NoSocket}]
    BY <1>3, <2>1 DEF TypeOK, Calls
  <2> QED BY <1>3, <2>1, <2>2, <2>3 DEF TypeOK, Calls, clientVars
<1>4. CASE DisconnectPlugin
  <2>1. socket' \in [Sockets -> {"free", "open", "closing"}]
    BY <1>4 DEF TypeOK, DisconnectPlugin, Close
  <2> QED BY <1>4, <2>1, DisconnectOwnerTypes DEF TypeOK, DisconnectPlugin, clientVars
<1>5. CASE UpsertRemotePlugin \/ DeletePlugin
  BY <1>5 DEF TypeOK, UpsertRemotePlugin, DeletePlugin, clientVars
<1>6. CASE Restarts
  <2>1. boot' \in 0..MaxBoots /\ issued' \in 0..MaxCalls
    BY <1>6 DEF TypeOK, Restarts
  <2>2. /\ toServer' \in [Sockets -> Seq(Message)]
        /\ toClient' \in [Sockets -> Seq(Message)]
        /\ link' \in [Clients -> Sockets \union {NoSocket}]
        /\ pending' \in [Ids -> Sockets \union {NoSocket}]
    BY <1>6 DEF Restarts
  <2>3. /\ socket' \in [Sockets -> {"free", "open", "closing"}]
        /\ conn' \in [Sockets -> {"none", "opened", "authenticated"}]
    BY <1>6 DEF Restarts
  <2>4. beats' \in [Clients -> BOOLEAN] /\ timer' \in [Sockets -> BOOLEAN]
    BY <1>6 DEF Restarts
  <2>5. UNCHANGED <<on, works, record>> /\ owner' = NoSocket
    BY <1>6 DEF Restarts
  <2> QED BY <2>1, <2>2, <2>3, <2>4, <2>5 DEF TypeOK
<1>7. CASE UNCHANGED vars
  BY <1>7 DEF TypeOK, vars, clientVars
<1> QED BY <1>1, <1>2, <1>3, <1>4, <1>5, <1>6, <1>7 DEF Next

------------------------------------------------------------------------------
(* The tables.                                                             *)

\* A connection that is disconnected leaves the tables in agreement, and its
\* entry is the only one that changes.
LEMMA DisconnectTables ==
  ASSUME TypeOK, Tables, NEW s \in Sockets, DisconnectConnection(s),
         UNCHANGED <<boot, issued>>
  PROVE  /\ IndexAgrees' /\ PendingAtOwner' /\ IdsAreIssued' /\ OnlineHasConnection'
         /\ conn' = [conn EXCEPT ![s] = "none"]
         /\ owner' = IF owner = s THEN NoSocket ELSE owner
<1>1. /\ conn' = [conn EXCEPT ![s] = "none"]
      /\ owner' = IF owner = s THEN NoSocket ELSE owner
  BY DEF TypeOK, Tables, IndexAgrees, DisconnectConnection, NothingDisconnected
<1>2. IndexAgrees'
  BY <1>1 DEF TypeOK, Tables, IndexAgrees
<1>3. \A i \in Ids : pending'[i] = IF pending[i] = s THEN NoSocket ELSE pending[i]
  BY DEF TypeOK, Tables, IndexAgrees, PendingAtOwner, DisconnectConnection, NothingDisconnected
<1>4. PendingAtOwner' /\ IdsAreIssued'
  BY <1>1, <1>3 DEF TypeOK, Tables, PendingAtOwner, IdsAreIssued
<1>5. OnlineHasConnection'
  BY <1>1 DEF TypeOK, Tables, IndexAgrees, OnlineHasConnection, DisconnectConnection,
         NothingDisconnected, Offline
<1> QED BY <1>1, <1>2, <1>4, <1>5

\* disconnectPlugin disconnects the connection of the index, if there is one.
LEMMA DisconnectOwnerTables ==
  ASSUME TypeOK, Tables, DisconnectOwner, UNCHANGED <<boot, issued>>
  PROVE  /\ IndexAgrees' /\ PendingAtOwner' /\ IdsAreIssued' /\ OnlineHasConnection'
         /\ owner' = NoSocket
         /\ \A t \in Sockets : conn'[t] = IF t = owner THEN "none" ELSE conn[t]
<1>1. CASE owner # NoSocket /\ DisconnectConnection(owner)
  BY <1>1, DisconnectTables DEF TypeOK
<1>2. CASE owner = NoSocket /\ record' = Offline /\ UNCHANGED <<conn, owner, pending>>
  BY <1>2 DEF TypeOK, Tables, IndexAgrees, PendingAtOwner, IdsAreIssued, OnlineHasConnection,
         Offline
<1> QED BY <1>1, <1>2 DEF DisconnectOwner

\* Every step of the server, of a client or of an administrator keeps the
\* tables in agreement.
LEMMA StepTables == IInv /\ [Next]_vars => Tables'
<1> SUFFICES ASSUME TypeOK, Tables, [Next]_vars PROVE Tables'
  BY DEF IInv
<1> USE DEF Tables
<1> DEFINE Same == UNCHANGED <<conn, owner, pending, record, issued, boot>>
<1>1. ASSUME Same, UNCHANGED <<socket, timer>> PROVE Tables'
  BY <1>1 DEF IndexAgrees, ConnectionsAreWatched, OnlineHasConnection, PendingAtOwner,
         IdsAreIssued, Ids
<1>2. ASSUME NEW s \in Sockets, ServerStep(s) PROVE Tables'
  <2>1. CASE ReceivesUnauthenticated(s)
    BY <2>1, <1>1 DEF ReceivesUnauthenticated
  <2>2. CASE RefusesAuthentication(s)
    BY <2>2, <1>1 DEF RefusesAuthentication
  <2>3. CASE Authenticates(s)
    <3>1. IndexAgrees' /\ OnlineHasConnection'
      BY <2>3 DEF TypeOK, Authenticates, TakesPlugin, IndexAgrees, OnlineHasConnection
    <3>2. PendingAtOwner' /\ IdsAreIssued'
      BY <2>3 DEF TypeOK, Authenticates, TakesPlugin, PendingAtOwner, IdsAreIssued
    <3>3. ConnectionsAreWatched'
      BY <2>3 DEF TypeOK, Authenticates, TakesPlugin, ConnectionsAreWatched
    <3> QED BY <3>1, <3>2, <3>3
  <2>4. CASE ShowsOnline(s)
    BY <2>4 DEF TypeOK, ShowsOnline, IndexAgrees, ConnectionsAreWatched, OnlineHasConnection,
           PendingAtOwner, IdsAreIssued
  <2>5. CASE Settles(s)
    BY <2>5 DEF TypeOK, Settles, IndexAgrees, ConnectionsAreWatched, OnlineHasConnection,
           PendingAtOwner, IdsAreIssued
  <2>6. CASE AuthTimesOut(s)
    <3>1. ConnectionsAreWatched'
      BY <2>6 DEF TypeOK, AuthTimesOut, Close, ConnectionsAreWatched
    <3> QED BY <2>6, <3>1 DEF AuthTimesOut, IndexAgrees, OnlineHasConnection, PendingAtOwner,
                  IdsAreIssued
  <2>7. CASE Sweeps(s)
    <3>1. conn' = [conn EXCEPT ![s] = "none"]
      BY <2>7, DisconnectTables DEF Sweeps
    <3>2. ConnectionsAreWatched'
      BY <2>7, <3>1 DEF TypeOK, Sweeps, Close, ConnectionsAreWatched
    <3> QED BY <2>7, <3>2, DisconnectTables DEF Sweeps
  <2>8. CASE SocketCloses(s)
    <3>1. \A t \in Sockets : conn'[t] = IF t = s THEN "none" ELSE conn[t]
      BY <2>8, DisconnectTables, DisconnectOwnerTables
         DEF TypeOK, SocketCloses, SocketGone, IndexAgrees
    <3>2. ConnectionsAreWatched'
      BY <2>8, <3>1 DEF TypeOK, SocketCloses, SocketGone, ConnectionsAreWatched
    <3> QED BY <2>8, <3>2, DisconnectTables, DisconnectOwnerTables DEF SocketCloses, SocketGone
  <2> QED BY <1>2, <2>1, <2>2, <2>3, <2>4, <2>5, <2>6, <2>7, <2>8 DEF ServerStep
<1>3. ASSUME NEW c \in Clients, ClientStep(c) PROVE Tables'
  <2>1. ASSUME NEW s \in Sockets, Connects(c, s) PROVE Tables'
    <3>1. conn[s] = "none" /\ owner # s
      BY <2>1 DEF TypeOK, Connects, ConnectionsAreWatched, IndexAgrees
    <3>2. IndexAgrees' /\ OnlineHasConnection'
      BY <2>1, <3>1 DEF TypeOK, Connects, IndexAgrees, OnlineHasConnection
    <3>3. ConnectionsAreWatched'
      BY <2>1, <3>1 DEF TypeOK, Connects, ConnectionsAreWatched
    <3> QED BY <2>1, <3>2, <3>3 DEF Connects, PendingAtOwner, IdsAreIssued
  <2>2. CASE Starts(c) \/ ClientReceives(c) \/ Pings(c) \/ (\E w \in works[c] : Answers(c, w))
             \/ Disconnected(c) \/ Stops(c)
    BY <2>2, <1>1 DEF Starts, ClientReceives, Pings, Answers, Disconnected, Stops, Serverless
  <2> QED BY <1>3, <2>1, <2>2 DEF ClientStep
<1>4. CASE Calls
  <2>1. \A i \in Ids : pending'[i] = IF i = issued + 1 THEN owner ELSE pending[i]
    BY <1>4 DEF TypeOK, Calls
  <2>2. PendingAtOwner' /\ IdsAreIssued'
    BY <1>4, <2>1 DEF TypeOK, Calls, PendingAtOwner, IdsAreIssued, Ids
  <2> QED BY <1>4, <2>2 DEF Calls, IndexAgrees, ConnectionsAreWatched, OnlineHasConnection
<1>5. CASE DisconnectPlugin
  <2>1. \A t \in Sockets : conn'[t] # "none" => conn'[t] = conn[t] /\ t # owner
    BY <1>5, DisconnectOwnerTables DEF DisconnectPlugin
  <2>2. ConnectionsAreWatched'
    BY <1>5, <2>1 DEF TypeOK, DisconnectPlugin, Close, ConnectionsAreWatched
  <2> QED BY <1>5, <2>2, DisconnectOwnerTables DEF DisconnectPlugin
<1>6. CASE UpsertRemotePlugin \/ DeletePlugin
  BY <1>6 DEF UpsertRemotePlugin, DeletePlugin, IndexAgrees, ConnectionsAreWatched,
         OnlineHasConnection, PendingAtOwner, IdsAreIssued
<1>7. CASE Restarts
  BY <1>7 DEF TypeOK, Restarts, IndexAgrees, ConnectionsAreWatched, OnlineHasConnection,
         PendingAtOwner, IdsAreIssued
<1>8. CASE UNCHANGED vars
  BY <1>8, <1>1 DEF vars
<1> QED BY <1>2, <1>3, <1>4, <1>5, <1>6, <1>7, <1>8 DEF Next

\* Every step of the gateway preserves the inductive invariant.
THEOREM StepIInv == IInv /\ [Next]_vars => IInv'
  BY StepTypes, StepTables DEF IInv

THEOREM Invariant == Spec => []IInv
  BY InitIInv, StepIInv, PTL DEF Spec

(***************************************************************************)
(* For any sets of processes and sockets the variables keep their types:   *)
(* every message that is sent is one that the protocol knows, and the      *)
(* answers and calls carry an id of the sequence.                          *)
(***************************************************************************)
THEOREM TypeCorrect == Spec => []TypeOK
<1>1. IInv => TypeOK
  BY DEF IInv
<1> QED BY <1>1, Invariant, PTL

(***************************************************************************)
(* The plugin has at most one authenticated connection, the one its calls  *)
(* go to; a connection the server lists has a socket whose end removes it, *)
(* and a timeout as long as it did not authenticate; until the first       *)
(* restart a plugin shown as online has a connection.                      *)
(***************************************************************************)
THEOREM ConnectionsAlwaysAgree == Spec => []ConnectionsAgree
<1>1. IInv => ConnectionsAgree
  BY DEF IInv, Tables, ConnectionsAgree
<1> QED BY <1>1, Invariant, PTL

------------------------------------------------------------------------------
(* Answers and calls.                                                      *)

(***************************************************************************)
(* An answer settles only a call that was sent on the connection it comes  *)
(* from.                                                                   *)
(***************************************************************************)
THEOREM AnswersStayHome == Spec => AnswersComeFromTheirConnection
<1> DEFINE A == \A s \in Sockets :
                  Settles(s) => pending[Head(toServer[s]).call] \in {s, NoSocket}
<1>1. IInv => A
  <2> SUFFICES ASSUME IInv, NEW s \in Sockets, Settles(s)
               PROVE  pending[Head(toServer[s]).call] \in {s, NoSocket}
    OBVIOUS
  <2>1. owner = s
    BY DEF IInv, Tables, IndexAgrees, Settles
  <2>2. Head(toServer[s]) \in Message /\ Head(toServer[s]).type = "answer"
    BY ReceivesTypes DEF IInv, Settles, Receives
  <2>3. Head(toServer[s]).call \in Ids
    BY <2>2 DEF Message, Plain
  <2> QED BY <2>1, <2>3 DEF IInv, Tables, PendingAtOwner
<1>2. IInv => [A]_vars
  BY <1>1
<1> QED BY <1>2, Invariant, PTL DEF AnswersComeFromTheirConnection

(***************************************************************************)
(* The index and the pending requests implement PluginLease: calls go to   *)
(* the holder, only the holder settles them, and none outlives it.         *)
(***************************************************************************)
THEOREM ImplementsLease == Spec => LeaseSpec
<1> DEFINE waits == {i \in Ids : pending[i] # NoSocket}
<1> USE DEF Lease!Next, Lease!Take, Lease!Issue, Lease!Settle, Lease!GiveUp
<1>1. Init => Lease!Init
  BY DEF Init, Lease!Init
<1>2. IInv /\ IInv' /\ [Next]_vars => [Lease!Next]_<<owner, waits>>
  <2> SUFFICES ASSUME IInv, IInv', [Next]_vars
               PROVE  Lease!Next \/ UNCHANGED <<owner, waits>>
    OBVIOUS
  <2>1. ASSUME UNCHANGED <<owner, pending>> PROVE UNCHANGED <<owner, waits>>
    BY <2>1
  <2>2. ASSUME owner' # owner, waits' = {} PROVE Lease!Next
    BY <2>2 DEF IInv, TypeOK
  <2>3. ASSUME NEW s \in Sockets, DisconnectConnection(s), UNCHANGED <<boot, issued>>
        PROVE  Lease!Next \/ UNCHANGED <<owner, waits>>
    <3>1. CASE owner = s
      <4>1. owner' = NoSocket /\ PendingAtOwner'
        BY <2>3, <3>1, DisconnectTables DEF IInv
      <4> QED BY <3>1, <4>1, <2>2 DEF PendingAtOwner, Ids
    <3>2. CASE owner # s
      <4>1. UNCHANGED <<owner, pending>>
        BY <2>3, <3>2 DEF IInv, TypeOK, Tables, PendingAtOwner, DisconnectConnection,
               NothingDisconnected
      <4> QED BY <4>1, <2>1
    <3> QED BY <3>1, <3>2
  <2>4. ASSUME DisconnectOwner, UNCHANGED <<boot, issued>>
        PROVE  Lease!Next \/ UNCHANGED <<owner, waits>>
    BY <2>4, <2>3, <2>1 DEF DisconnectOwner, IInv, TypeOK
  <2>5. ASSUME NEW s \in Sockets, ServerStep(s)
        PROVE  Lease!Next \/ UNCHANGED <<owner, waits>>
    <3>1. CASE Authenticates(s)
      <4>1. CASE owner = s
        <5>1. UNCHANGED <<owner, pending>>
          BY <3>1, <4>1 DEF IInv, TypeOK, Authenticates, TakesPlugin
        <5> QED BY <5>1, <2>1
      <4>2. CASE owner # s
        <5>1. owner' = s
          BY <3>1 DEF Authenticates, TakesPlugin
        <5>2. waits' = {}
          BY <3>1, <4>2 DEF IInv, TypeOK, Tables, PendingAtOwner, Authenticates, TakesPlugin
        <5> QED BY <4>2, <5>1, <5>2, <2>2
      <4> QED BY <4>1, <4>2
    <3>2. CASE Settles(s)
      <4> DEFINE i == Head(toServer[s]).call
      <4>1. owner = s /\ owner # NoSocket
        BY <3>2 DEF IInv, Tables, IndexAgrees, Settles
      <4>2. UNCHANGED owner /\ waits' = waits \ {i}
        BY <3>2 DEF IInv, TypeOK, Settles
      <4> QED BY <4>1, <4>2
    <3>3. CASE ReceivesUnauthenticated(s) \/ RefusesAuthentication(s) \/ ShowsOnline(s)
               \/ AuthTimesOut(s)
      BY <3>3, <2>1 DEF ReceivesUnauthenticated, RefusesAuthentication, ShowsOnline, AuthTimesOut
    <3>4. CASE Sweeps(s)
      BY <3>4, <2>3 DEF Sweeps
    <3>5. CASE SocketCloses(s)
      BY <3>5, <2>3, <2>4 DEF SocketCloses, SocketGone
    <3> QED BY <2>5, <3>1, <3>2, <3>3, <3>4, <3>5 DEF ServerStep
  <2>6. ASSUME NEW c \in Clients, ClientStep(c) PROVE UNCHANGED <<owner, waits>>
    BY <2>6, <2>1 DEF ClientStep, Starts, Connects, ClientReceives, Pings, Answers, Disconnected,
           Stops, Serverless
  <2>7. CASE Calls
    <3>1. owner # NoSocket /\ UNCHANGED owner /\ issued + 1 \in Ids /\ issued + 1 \notin waits
      BY <2>7 DEF Calls, IInv, TypeOK, Tables, IdsAreIssued, Ids
    <3>2. waits' = waits \union {issued + 1}
      BY <2>7, <3>1 DEF Calls, IInv, TypeOK
    <3> QED BY <3>1, <3>2
  <2>8. CASE DisconnectPlugin
    BY <2>8, <2>4 DEF DisconnectPlugin
  <2>9. CASE UpsertRemotePlugin \/ DeletePlugin
    BY <2>9, <2>1 DEF UpsertRemotePlugin, DeletePlugin
  <2>10. CASE Restarts
    <3>1. owner' = NoSocket /\ waits' = {}
      BY <2>10 DEF Restarts
    <3> QED BY <3>1
  <2>11. CASE UNCHANGED vars
    BY <2>11, <2>1 DEF vars
  <2> QED BY <2>5, <2>6, <2>7, <2>8, <2>9, <2>10, <2>11 DEF Next
<1> QED BY <1>1, <1>2, Invariant, PTL DEF Spec, LeaseSpec, Lease!Spec
------------------------------------------------------------------------------
(* What a waiting call waits for.                                          *)

Has(q, m) == \E k \in 1..Len(q) : q[k] = m

Execute(i, b) == [type |-> "execute", call |-> i, boot |-> b]
Answer(i, b)  == [type |-> "answer", call |-> i, boot |-> b]
Job(i, b)     == [call |-> i, boot |-> b]

\* Call i is on its way to the process at the other end of s, or worked on there, or answered.
Carries(s, i) ==
  \/ Has(toClient[s], Execute(i, boot))
  \/ \E c \in Clients : link[c] = s /\ Job(i, boot) \in works[c]
  \/ Has(toServer[s], Answer(i, boot))

Leaving(s) == (\A c \in Clients : link[c] # s) \/ socket[s] = "closing"

(***************************************************************************)
(* No call is forgotten: while the ledger waits for one, the message, the  *)
(* handler or the answer is on the connection it was sent on, or that      *)
(* connection is about to go and to reject it.                             *)
(***************************************************************************)
CallsAreCarried ==
  \A i \in Ids : pending[i] # NoSocket => Leaving(pending[i]) \/ Carries(pending[i], i)

\* A process has a socket to itself as long as the server has it in its table.
LinksAreOpen ==
  \A c \in Clients : link[c] # NoSocket =>
    /\ socket[link[c]] # "free"
    /\ \A d \in Clients : link[d] = link[c] => d = c

CarryInv == LinksAreOpen /\ CallsAreCarried

\* What a queue has after it was shortened or extended.
LEMMA QueueKeeps ==
  ASSUME NEW q \in Seq(Message), NEW m
  PROVE  /\ \A x \in Message : /\ Has(q, m) => Has(Append(q, x), m)
                               /\ Has(Append(q, x), x)
         /\ Has(q, m) => q # <<>> /\ (m = Head(q) \/ Has(Tail(q), m))
<1>1. ASSUME NEW x \in Message
      PROVE  (Has(q, m) => Has(Append(q, x), m)) /\ Has(Append(q, x), x)
  BY DEF Has
<1>2. ASSUME Has(q, m)
      PROVE  q # <<>> /\ (m = Head(q) \/ Has(Tail(q), m))
  <2>1. PICK k \in 1..Len(q) : q[k] = m
    BY <1>2 DEF Has
  <2>2. q # <<>>
    BY <2>1
  <2>3. CASE k = 1
    BY <2>1, <2>2, <2>3
  <2>4. CASE k # 1
    <3>1. k - 1 \in 1..Len(Tail(q)) /\ Tail(q)[k - 1] = q[k]
      BY <2>1, <2>2, <2>4
    <3> QED BY <2>1, <3>1 DEF Has
  <2> QED BY <2>2, <2>3, <2>4
<1> QED BY <1>1, <1>2

\* Where a call waits is the connection that has the plugin; it authenticated.
LEMMA WaitsAtOwner ==
  ASSUME IInv, NEW i \in Ids, pending[i] # NoSocket
  PROVE  /\ pending[i] \in Sockets
         /\ owner = pending[i]
         /\ conn[pending[i]] = "authenticated"
         /\ socket[pending[i]] # "free"
  BY DEF IInv, TypeOK, Tables, PendingAtOwner, IndexAgrees, ConnectionsAreWatched

\* Sending keeps what was sent.
LEMMA SendKeeps ==
  ASSUME TypeOK, NEW s \in Sockets, NEW x \in Message, Send(s, x), NEW t \in Sockets, NEW m
  PROVE  /\ Has(toClient[t], m) => Has(toClient'[t], m)
         /\ socket[s] = "open" /\ Attached(s) => Has(toClient'[s], x)
<1>1. toClient[t] \in Seq(Message) /\ toClient[s] \in Seq(Message)
  BY DEF TypeOK
<1>2. CASE socket[s] = "open" /\ Attached(s)
  <2>1. toClient'[s] = Append(toClient[s], x) /\ (t # s => toClient'[t] = toClient[t])
    BY <1>2 DEF Send, TypeOK
  <2>2. Has(toClient'[s], x) /\ (Has(toClient[s], m) => Has(toClient'[s], m))
    BY <1>1, <2>1, QueueKeeps
  <2> QED BY <2>1, <2>2
<1>3. CASE ~(socket[s] = "open" /\ Attached(s))
  BY <1>3 DEF Send
<1> QED BY <1>2, <1>3

\* Receiving a message takes that message from the queue, and no other.
LEMMA ReceivesKeeps ==
  ASSUME TypeOK, NEW s \in Sockets, NEW types, Receives(s, types), NEW t \in Sockets, NEW m,
         Has(toServer[t], m), s = t => m # Head(toServer[s])
  PROVE  Has(toServer'[t], m)
<1>1. toServer[t] \in Seq(Message)
  BY DEF TypeOK
<1>2. toServer'[t] = IF s = t THEN Tail(toServer[t]) ELSE toServer[t]
  BY DEF Receives, TypeOK
<1> QED BY <1>1, <1>2, QueueKeeps

\* Leaving or carrying, after a step.
CarriesOn(s, i) ==
  \/ \A c \in Clients : link'[c] # s
  \/ socket'[s] = "closing"
  \/ Has(toClient'[s], Execute(i, boot'))
  \/ \E c \in Clients : link'[c] = s /\ Job(i, boot') \in works'[c]
  \/ Has(toServer'[s], Answer(i, boot'))

LEMMA AllCarriedOn ==
  ASSUME \A i \in Ids : pending'[i] # NoSocket => CarriesOn(pending'[i], i)
  PROVE  CallsAreCarried'
  BY DEF CallsAreCarried, CarriesOn, Leaving, Carries

(***************************************************************************)
(* A step of the server: links and works are the clients', no call is      *)
(* added, a socket in use closes at most.  What is on the way stays there. *)
(***************************************************************************)
ServerKeeps ==
  /\ UNCHANGED <<link, works, boot>>
  /\ \A s \in Sockets : /\ socket[s] = "closing" => socket'[s] # "open"
                        /\ socket'[s] = "free" => socket[s] = "free" \/ ~Attached(s)
  /\ \A i \in Ids : pending'[i] # NoSocket =>
       /\ pending'[i] = pending[i]
       /\ Has(toClient[pending[i]], Execute(i, boot)) => Has(toClient'[pending[i]], Execute(i, boot))
       /\ Has(toServer[pending[i]], Answer(i, boot)) => Has(toServer'[pending[i]], Answer(i, boot))

LEMMA ServerLinks ==
  ASSUME TypeOK, LinksAreOpen, ServerKeeps
  PROVE  LinksAreOpen'
<1> SUFFICES ASSUME NEW c \in Clients, link[c] # NoSocket
             PROVE  /\ socket'[link[c]] # "free"
                    /\ \A d \in Clients : link[d] = link[c] => d = c
  BY DEF LinksAreOpen, ServerKeeps
<1>1. link[c] \in Sockets /\ Attached(link[c])
  BY DEF TypeOK, Attached
<1> QED BY <1>1 DEF LinksAreOpen, ServerKeeps

LEMMA ServerCarries ==
  ASSUME IInv, CarryInv, socket' \in [Sockets -> {"free", "open", "closing"}], ServerKeeps
  PROVE  CarryInv'
<1>1. LinksAreOpen'
  BY ServerLinks DEF IInv, CarryInv
<1>2. ASSUME NEW i \in Ids, pending'[i] # NoSocket
      PROVE  CarriesOn(pending'[i], i)
  <2>1. pending'[i] = pending[i] /\ pending[i] \in Sockets /\ UNCHANGED <<link, works, boot>>
    BY <1>2, WaitsAtOwner DEF ServerKeeps
  <2>2. CASE \A c \in Clients : link[c] # pending[i]
    BY <2>1, <2>2 DEF CarriesOn
  <2>3. CASE Attached(pending[i]) /\ socket[pending[i]] = "closing"
    BY <2>1, <2>3 DEF ServerKeeps, CarriesOn
  <2>4. CASE Carries(pending[i], i)
    BY <1>2, <2>1, <2>4 DEF ServerKeeps, Carries, CarriesOn
  <2> QED BY <1>2, <2>1, <2>2, <2>3, <2>4 DEF CarryInv, CallsAreCarried, Leaving, Attached
<1> QED BY <1>1, <1>2, AllCarriedOn DEF CarryInv

\* A connection that is disconnected takes its calls along.
LEMMA DisconnectKeeps ==
  ASSUME IInv, \/ DisconnectOwner
               \/ \E s \in Sockets : DisconnectConnection(s)
  PROVE  \A i \in Ids : pending'[i] # NoSocket => pending'[i] = pending[i]
  BY DEF IInv, TypeOK, DisconnectOwner, DisconnectConnection, NothingDisconnected

\* The messages the server receives.
LEMMA ReceivedCarries ==
  ASSUME IInv, CarryInv, NEW s \in Sockets,
         \/ ReceivesUnauthenticated(s)
         \/ RefusesAuthentication(s)
         \/ Authenticates(s)
         \/ ShowsOnline(s)
         \/ Settles(s)
  PROVE  CarryInv'
<1>1. TypeOK
  BY DEF IInv
<1>2. /\ UNCHANGED <<link, works, boot, socket>>
      /\ \A i \in Ids : pending'[i] # NoSocket => pending'[i] = pending[i]
  BY <1>1 DEF TypeOK, clientVars, ReceivesUnauthenticated, RefusesAuthentication, Authenticates,
              TakesPlugin, ShowsOnline, Settles
<1>3. \/ UNCHANGED toClient
      \/ \E x \in Message : Send(s, x)
  BY Messages DEF ReceivesUnauthenticated, RefusesAuthentication, Authenticates, TakesPlugin,
                  ShowsOnline, Settles
<1>4. ASSUME NEW i \in Ids, pending'[i] # NoSocket
      PROVE  /\ Has(toClient[pending[i]], Execute(i, boot)) =>
                  Has(toClient'[pending[i]], Execute(i, boot))
             /\ Has(toServer[pending[i]], Answer(i, boot)) =>
                  Has(toServer'[pending[i]], Answer(i, boot))
  <2>1. pending[i] \in Sockets /\ conn[pending[i]] = "authenticated" /\ pending'[i] = pending[i]
    BY <1>2, <1>4, WaitsAtOwner
  <2>2. Has(toClient[pending[i]], Execute(i, boot)) => Has(toClient'[pending[i]], Execute(i, boot))
    BY <1>1, <1>3, <2>1, SendKeeps
  <2>3. s = pending[i] => Answer(i, boot) # Head(toServer[s])
    <3>1. CASE ReceivesUnauthenticated(s)
      BY <2>1, <3>1 DEF ReceivesUnauthenticated
    <3>2. CASE RefusesAuthentication(s) \/ Authenticates(s) \/ ShowsOnline(s)
      BY <3>2 DEF RefusesAuthentication, Authenticates, TakesPlugin, ShowsOnline, Receives, Answer
    <3>3. CASE Settles(s)
      <4>1. pending'[Head(toServer[s]).call] = NoSocket \/ Head(toServer[s]).call \notin Ids
        BY <1>1, <3>3 DEF Settles, TypeOK
      <4> QED BY <1>4, <4>1 DEF Answer
    <3> QED BY <3>1, <3>2, <3>3
  <2>4. \E types : Receives(s, types)
    BY DEF ReceivesUnauthenticated, RefusesAuthentication, Authenticates, TakesPlugin,
           ShowsOnline, Settles
  <2>5. Has(toServer[pending[i]], Answer(i, boot)) => Has(toServer'[pending[i]], Answer(i, boot))
    BY <1>1, <2>1, <2>3, <2>4, ReceivesKeeps
  <2> QED BY <2>2, <2>5
<1>5. ServerKeeps
  BY <1>2, <1>4 DEF ServerKeeps
<1>6. socket' \in [Sockets -> {"free", "open", "closing"}]
  BY <1>1, <1>2 DEF TypeOK
<1> QED BY <1>5, <1>6, ServerCarries

\* Timeouts, the sweep, closed sockets and the administrator.
LEMMA ClosingCarries ==
  ASSUME IInv, CarryInv, TypeOK',
         \/ \E s \in Sockets : AuthTimesOut(s) \/ Sweeps(s) \/ SocketCloses(s)
         \/ DisconnectPlugin
         \/ UpsertRemotePlugin
         \/ DeletePlugin
  PROVE  CarryInv'
<1>1. TypeOK
  BY DEF IInv
<1>2. UNCHANGED <<link, works, boot, toServer>>
  BY DEF clientVars, AuthTimesOut, Sweeps, SocketCloses, SocketGone, DisconnectPlugin,
         UpsertRemotePlugin, DeletePlugin
<1>3. \A s \in Sockets : /\ socket[s] = "closing" => socket'[s] # "open"
                         /\ socket'[s] = "free" => socket[s] = "free" \/ ~Attached(s)
  <2>1. CASE \E s \in Sockets : Close(s)
    BY <1>1, <2>1 DEF TypeOK, Close
  <2>2. CASE \E s \in Sockets : SocketGone(s)
    BY <1>1, <2>2 DEF TypeOK, SocketGone
  <2>3. CASE UNCHANGED socket
    BY <1>1, <2>3 DEF TypeOK
  <2> QED BY <1>1, <2>1, <2>2, <2>3 DEF TypeOK, AuthTimesOut, Sweeps, SocketCloses,
             DisconnectPlugin, UpsertRemotePlugin, DeletePlugin
<1>4. \A i \in Ids : pending'[i] # NoSocket => pending'[i] = pending[i]
  BY DisconnectKeeps DEF AuthTimesOut, Sweeps, SocketCloses, DisconnectPlugin,
     UpsertRemotePlugin, DeletePlugin
<1>5. UNCHANGED toClient \/ \E s \in Sockets, x \in Message : Send(s, x)
  BY Messages DEF AuthTimesOut, Sweeps, SocketCloses, SocketGone, DisconnectPlugin,
     UpsertRemotePlugin, DeletePlugin
<1>6. \A i \in Ids : pending'[i] # NoSocket =>
        (Has(toClient[pending[i]], Execute(i, boot)) => Has(toClient'[pending[i]], Execute(i, boot)))
  BY <1>1, <1>4, <1>5, SendKeeps, WaitsAtOwner
<1>7. ServerKeeps
  BY <1>2, <1>3, <1>4, <1>6 DEF ServerKeeps
<1> QED BY <1>7, ServerCarries DEF TypeOK

\* A call is sent, or its connection is leaving.
LEMMA CallsCarries ==
  ASSUME IInv, CarryInv, Calls
  PROVE  CarryInv'
<1>1. TypeOK
  BY DEF IInv
<1> DEFINE n == issued + 1
<1>2. /\ owner \in Sockets /\ n \in Ids
      /\ Execute(n, boot) \in Message
      /\ Send(owner, Execute(n, boot))
      /\ pending' = [pending EXCEPT ![n] = owner]
      /\ UNCHANGED <<link, works, boot, socket, toServer>>
  BY <1>1, Messages DEF Calls, TypeOK, Ids, Execute, clientVars
<1>3. LinksAreOpen'
  BY <1>2 DEF CarryInv, LinksAreOpen
<1>4. ASSUME NEW i \in Ids, pending'[i] # NoSocket
      PROVE  CarriesOn(pending'[i], i)
  <2>1. CASE i = n
    <3>1. pending'[i] = owner /\ socket[owner] \in {"open", "closing"}
      BY <1>1, <1>2, <2>1 DEF TypeOK, IInv, Tables, IndexAgrees, ConnectionsAreWatched
    <3>2. socket[owner] = "open" /\ Attached(owner) => Has(toClient'[owner], Execute(i, boot))
      BY <1>1, <1>2, <2>1, SendKeeps
    <3> QED BY <1>2, <3>1, <3>2 DEF CarriesOn, Attached
  <2>2. CASE i # n
    <3>1. pending'[i] = pending[i] /\ pending[i] \in Sockets
      BY <1>1, <1>2, <1>4, <2>2 DEF TypeOK
    <3>2. Has(toClient[pending[i]], Execute(i, boot)) => Has(toClient'[pending[i]], Execute(i, boot))
      BY <1>1, <1>2, <3>1, SendKeeps
    <3>3. Leaving(pending[i]) \/ Carries(pending[i], i)
      BY <1>4, <3>1 DEF CarryInv, CallsAreCarried
    <3> QED BY <1>2, <3>1, <3>2, <3>3 DEF Leaving, Carries, CarriesOn
  <2> QED BY <2>1, <2>2
<1> QED BY <1>3, <1>4, AllCarriedOn DEF CarryInv

(***************************************************************************)
(* A step of process c: the server's tables are left alone, and so is what *)
(* is on the connections of others.                                        *)
(***************************************************************************)
LEMMA ConnectsCarries ==
  ASSUME IInv, CarryInv, NEW c \in Clients, NEW s \in Sockets, Connects(c, s)
  PROVE  CarryInv'
<1>1. TypeOK
  BY DEF IInv
<1>2. /\ link[c] = NoSocket /\ socket[s] = "free"
      /\ link' = [link EXCEPT ![c] = s]
      /\ socket' = [socket EXCEPT ![s] = "open"]
      /\ UNCHANGED <<works, pending, boot>>
      /\ \A t \in Sockets : t # s => toServer'[t] = toServer[t] /\ toClient'[t] = toClient[t]
  BY <1>1 DEF Connects, TypeOK
<1>3. LinksAreOpen'
  BY <1>1, <1>2 DEF TypeOK, CarryInv, LinksAreOpen
<1>4. ASSUME NEW i \in Ids, pending'[i] # NoSocket
      PROVE  CarriesOn(pending'[i], i)
  <2>1. pending'[i] = pending[i] /\ pending[i] \in Sockets \ {s}
    BY <1>2, <1>4, WaitsAtOwner
  <2>2. Leaving(pending[i]) \/ Carries(pending[i], i)
    BY <1>4, <2>1 DEF CarryInv, CallsAreCarried
  <2>3. CASE Leaving(pending[i])
    BY <1>1, <1>2, <2>1, <2>3 DEF TypeOK, Leaving, CarriesOn
  <2>4. CASE Carries(pending[i], i)
    BY <1>1, <1>2, <2>1, <2>4 DEF TypeOK, Carries, CarriesOn
  <2> QED BY <2>2, <2>3, <2>4
<1> QED BY <1>3, <1>4, AllCarriedOn DEF CarryInv

\* The process takes a message, and a call to its handler.
LEMMA ReceivesCarries ==
  ASSUME IInv, CarryInv, NEW c \in Clients, ClientReceives(c)
  PROVE  CarryInv'
<1>1. TypeOK
  BY DEF IInv
<1> DEFINE s == link[c]
           m == Head(toClient[s])
<1>2. /\ s \in Sockets /\ toClient[s] # <<>> /\ toClient[s] \in Seq(Message) /\ m \in Message
      /\ toClient' = [toClient EXCEPT ![s] = Tail(@)]
      /\ UNCHANGED <<link, socket, pending, boot>>
  BY <1>1, Queues DEF ClientReceives, TypeOK, Serverless
<1>3. LinksAreOpen'
  BY <1>2 DEF CarryInv, LinksAreOpen
<1>4. ASSUME NEW i \in Ids, pending'[i] # NoSocket
      PROVE  CarriesOn(pending'[i], i)
  <2>1. pending'[i] = pending[i] /\ pending[i] \in Sockets
    BY <1>2, <1>4, WaitsAtOwner
  <2>2. Has(toServer[pending[i]], Answer(i, boot)) => Has(toServer'[pending[i]], Answer(i, boot))
    <3>1. toServer[pending[i]] \in Seq(Message) /\ Plain("register") \in Message
      BY <1>1, <2>1, Messages DEF TypeOK
    <3>2. toServer'[pending[i]] \in {toServer[pending[i]], Append(toServer[pending[i]], Plain("register"))}
      BY <1>1, <1>2, <2>1 DEF ClientReceives, TypeOK
    <3>3. Has(toServer[pending[i]], Answer(i, boot)) =>
            Has(Append(toServer[pending[i]], Plain("register")), Answer(i, boot))
      BY <3>1, QueueKeeps
    <3> QED BY <3>2, <3>3
  <2>3. \A d \in Clients : works[d] \subseteq works'[d]
    BY <1>1 DEF ClientReceives, TypeOK
  <2>4. Has(toClient[pending[i]], Execute(i, boot)) =>
          \/ Has(toClient'[pending[i]], Execute(i, boot))
          \/ pending[i] = s /\ Job(i, boot) \in works'[c]
    <3> SUFFICES ASSUME Has(toClient[pending[i]], Execute(i, boot)), pending[i] = s
                 PROVE  Has(toClient'[s], Execute(i, boot)) \/ Job(i, boot) \in works'[c]
      BY <1>1, <1>2, <2>1 DEF TypeOK
    <3>1. m = Execute(i, boot) \/ Has(Tail(toClient[s]), Execute(i, boot))
      BY <1>2, QueueKeeps
    <3>2. CASE m = Execute(i, boot)
      <4>1. m.type = "execute" /\ [call |-> m.call, boot |-> m.boot] = Job(i, boot)
        BY <3>2 DEF Execute, Job
      <4>2. works' = [works EXCEPT ![c] = @ \union {Job(i, boot)}]
        BY <4>1 DEF ClientReceives
      <4> QED BY <1>1, <4>2 DEF TypeOK
    <3>3. CASE Has(Tail(toClient[s]), Execute(i, boot))
      BY <1>1, <1>2, <3>3 DEF TypeOK
    <3> QED BY <3>1, <3>2, <3>3
  <2>5. Leaving(pending[i]) \/ Carries(pending[i], i)
    BY <1>4, <2>1 DEF CarryInv, CallsAreCarried
  <2> HIDE DEF m
  <2> QED BY <1>2, <2>1, <2>2, <2>3, <2>4, <2>5 DEF Leaving, Carries, CarriesOn
<1> QED BY <1>3, <1>4, AllCarriedOn DEF CarryInv

\* A handler returns, and its answer is sent.
LEMMA AnswersCarries ==
  ASSUME IInv, CarryInv, NEW c \in Clients, NEW w \in works[c], Answers(c, w)
  PROVE  CarryInv'
<1>1. TypeOK
  BY DEF IInv
<1>2. UNCHANGED <<link, socket, pending, boot, toClient>>
  BY DEF Answers, Serverless
<1>3. LinksAreOpen'
  BY <1>2 DEF CarryInv, LinksAreOpen
<1>4. w \in Work /\ Answer(w.call, w.boot) \in Message
  BY <1>1, Messages DEF TypeOK, Work, Answer
<1>5. ASSUME NEW i \in Ids, pending'[i] # NoSocket
      PROVE  CarriesOn(pending'[i], i)
  <2>1. pending'[i] = pending[i] /\ pending[i] \in Sockets /\ toServer[pending[i]] \in Seq(Message)
    BY <1>1, <1>2, <1>5, WaitsAtOwner DEF TypeOK
  <2>2. toServer'[pending[i]] = IF link[c] = pending[i]
                                THEN Append(toServer[pending[i]], Answer(w.call, w.boot))
                                ELSE toServer[pending[i]]
    BY <1>1, <2>1 DEF Answers, TypeOK, Answer
  <2>3. Has(toServer[pending[i]], Answer(i, boot)) => Has(toServer'[pending[i]], Answer(i, boot))
    BY <1>4, <2>1, <2>2, QueueKeeps
  <2>4. ASSUME NEW d \in Clients, link[d] = pending[i], Job(i, boot) \in works[d]
        PROVE  Job(i, boot) \in works'[d] \/ Has(toServer'[pending[i]], Answer(i, boot))
    <3>1. CASE d = c /\ Job(i, boot) = w
      <4>1. w.call = i /\ w.boot = boot
        BY <3>1 DEF Job
      <4>2. toServer'[pending[i]] = Append(toServer[pending[i]], Answer(i, boot))
        BY <2>2, <2>4, <3>1, <4>1
      <4>3. Has(Append(toServer[pending[i]], Answer(i, boot)), Answer(i, boot))
        BY <1>4, <2>1, <4>1, QueueKeeps
      <4> QED BY <4>2, <4>3
    <3>2. CASE ~(d = c /\ Job(i, boot) = w)
      BY <1>1, <2>4, <3>2 DEF Answers, TypeOK
    <3> QED BY <3>1, <3>2
  <2>5. Leaving(pending[i]) \/ Carries(pending[i], i)
    BY <1>5, <2>1 DEF CarryInv, CallsAreCarried
  <2> QED BY <1>2, <2>1, <2>3, <2>4, <2>5 DEF Leaving, Carries, CarriesOn
<1> QED BY <1>3, <1>5, AllCarriedOn DEF CarryInv

\* A connection is lost, with the process or without.
LEMMA LosesCarries ==
  ASSUME IInv, CarryInv, NEW c \in Clients, Disconnected(c) \/ Stops(c)
  PROVE  CarryInv'
<1>1. TypeOK
  BY DEF IInv
<1>2. /\ UNCHANGED <<socket, pending, boot>>
      /\ link' = [link EXCEPT ![c] = NoSocket]
      /\ \A d \in Clients : d # c => works'[d] = works[d]
      /\ \A t \in Sockets : t # link[c] => toServer'[t] = toServer[t] /\ toClient'[t] = toClient[t]
  BY <1>1 DEF Disconnected, Stops, LosesSocket, TypeOK, Serverless
<1>3. LinksAreOpen'
  BY <1>1, <1>2 DEF TypeOK, CarryInv, LinksAreOpen
<1>4. ASSUME NEW i \in Ids, pending'[i] # NoSocket
      PROVE  CarriesOn(pending'[i], i)
  <2>1. pending'[i] = pending[i] /\ pending[i] \in Sockets
    BY <1>2, <1>4, WaitsAtOwner
  <2>2. CASE link[c] = pending[i]
    <3>1. \A d \in Clients : link'[d] # pending[i]
      BY <1>1, <1>2, <2>1, <2>2 DEF TypeOK, CarryInv, LinksAreOpen
    <3> QED BY <2>1, <3>1 DEF CarriesOn
  <2>3. CASE link[c] # pending[i]
    <3>1. Leaving(pending[i]) \/ Carries(pending[i], i)
      BY <1>4, <2>1 DEF CarryInv, CallsAreCarried
    <3>2. CASE Leaving(pending[i])
      BY <1>1, <1>2, <2>1, <2>3, <3>2 DEF TypeOK, Leaving, CarriesOn
    <3>3. CASE Carries(pending[i], i)
      BY <1>1, <1>2, <2>1, <2>3, <3>3 DEF TypeOK, Carries, CarriesOn
    <3> QED BY <3>1, <3>2, <3>3
  <2> QED BY <2>2, <2>3
<1> QED BY <1>3, <1>4, AllCarriedOn DEF CarryInv

\* Starting a process and pinging lose nothing.
LEMMA QuietCarries ==
  ASSUME IInv, CarryInv, \/ \E c \in Clients : Starts(c) \/ Pings(c)
                         \/ UNCHANGED vars
  PROVE  CarryInv'
<1>1. UNCHANGED <<link, works, boot, socket, pending, toClient>>
  BY DEF Starts, Pings, vars, clientVars, Serverless
<1>2. \A t \in Sockets : \A m : Has(toServer[t], m) => toServer'[t] = toServer[t]
  BY DEF IInv, TypeOK, Starts, Pings, vars, Has
<1>3. ServerKeeps
  BY <1>1, <1>2, WaitsAtOwner DEF IInv, TypeOK, ServerKeeps
<1> QED BY <1>1, <1>3, ServerCarries DEF IInv, TypeOK

LEMMA RestartCarries ==
  ASSUME Restarts
  PROVE  CarryInv'
  BY DEF Restarts, CarryInv, LinksAreOpen, CallsAreCarried

THEOREM CallsAreNotForgotten == Spec => []CallsAreCarried
<1>1. Init => CarryInv
  BY DEF Init, CarryInv, LinksAreOpen, CallsAreCarried
<1>2. IInv /\ IInv' /\ CarryInv /\ [Next]_vars => CarryInv'
  <2> SUFFICES ASSUME IInv, IInv', CarryInv, [Next]_vars PROVE CarryInv'
    OBVIOUS
  <2>1. CASE \E s \in Sockets : ServerStep(s)
    BY <2>1, ReceivedCarries, ClosingCarries DEF ServerStep, IInv
  <2>2. CASE \E c \in Clients : ClientStep(c)
    BY <2>2, ConnectsCarries, ReceivesCarries, AnswersCarries, LosesCarries, QuietCarries
    DEF ClientStep
  <2> QED BY <2>1, <2>2, ClosingCarries, CallsCarries, RestartCarries, QuietCarries DEF Next, IInv
<1>3. CarryInv => CallsAreCarried
  BY DEF CarryInv
<1> QED BY <1>1, <1>2, <1>3, Invariant, PTL DEF Spec
===============================================================================
