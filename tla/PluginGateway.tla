----------------------------- MODULE PluginGateway -----------------------------
(***************************************************************************)
(* One remote plugin: its record, the WebSocket connections of the         *)
(* processes that run it with the SDK's PluginClient, and the calls that   *)
(* the server makes through the connection that is authenticated           *)
(* (RuntimeGatewayConnectionLifecycleService, RuntimeGatewayRequestLedger, *)
(* RuntimeGatewayRemoteTransportService, PluginWsModule and                *)
(* PluginWsInboundService).                                                *)
(*                                                                         *)
(* Every handler of the server runs without awaiting, so a received        *)
(* message is one action.  Messages on a connection keep their order;      *)
(* those that a lost connection still carries arrive or are lost.  The     *)
(* 100 ms batches of outgoing calls are left out: a call is sent at once.  *)
(***************************************************************************)
EXTENDS Naturals, Sequences

CONSTANTS
  Clients,    \* processes that run the plugin
  Sockets,    \* connections that can exist at the same time
  NoSocket,
  MaxCalls,   \* bound: calls the server makes between two starts
  MaxBoots    \* bound: restarts of the server

ASSUME ConstantsAssumption ==
  /\ NoSocket \notin Sockets
  /\ MaxCalls \in Nat
  /\ MaxBoots \in Nat

VARIABLES
  on,        \* the client process runs and wants a connection (autoReconnect)
  link,      \* the client's open socket, or NoSocket while it waits to reconnect
  beats,     \* its heartbeat timer runs
  works,     \* the calls its handlers work on
  toServer,  \* what was sent and not yet received, per connection
  toClient,
  socket,    \* PluginWsModule.sockets: "free" (no entry), "open" or "closing"
  timer,     \* PluginWsModule.authTimeouts has the connection
  conn,      \* connections: "none", "opened" or "authenticated"
  owner,     \* connectionByPluginId of the plugin
  record,    \* the plugin's record (on disk): "absent", "offline", "online"
  pending,   \* pendingRequests: request id -> connection
  issued,    \* requestSequence
  boot       \* starts of the server so far

clientVars == <<on, link, beats, works>>
vars == <<clientVars, toServer, toClient, socket, timer, conn, owner, record,
          pending, issued, boot>>

Ids   == 1..MaxCalls
Work  == [call : Ids, boot : 0..MaxBoots]
Plain(type) == [type |-> type, call |-> 0, boot |-> 0]
Message ==
  {Plain(type) : type \in {"authenticate", "register", "ping", "auth_ok", "auth_fail"}}
  \union [type : {"execute", "answer"}, call : Ids, boot : 0..MaxBoots]

TypeOK ==
  /\ on \in [Clients -> BOOLEAN]
  /\ link \in [Clients -> Sockets \union {NoSocket}]
  /\ beats \in [Clients -> BOOLEAN]
  /\ works \in [Clients -> SUBSET Work]
  /\ toServer \in [Sockets -> Seq(Message)]
  /\ toClient \in [Sockets -> Seq(Message)]
  /\ socket \in [Sockets -> {"free", "open", "closing"}]
  /\ timer \in [Sockets -> BOOLEAN]
  /\ conn \in [Sockets -> {"none", "opened", "authenticated"}]
  /\ owner \in Sockets \union {NoSocket}
  /\ record \in {"absent", "offline", "online"}
  /\ pending \in [Ids -> Sockets \union {NoSocket}]
  /\ issued \in 0..MaxCalls
  /\ boot \in 0..MaxBoots

Init ==
  /\ on       = [c \in Clients |-> FALSE]
  /\ link     = [c \in Clients |-> NoSocket]
  /\ beats    = [c \in Clients |-> FALSE]
  /\ works    = [c \in Clients |-> {}]
  /\ toServer = [s \in Sockets |-> <<>>]
  /\ toClient = [s \in Sockets |-> <<>>]
  /\ socket   = [s \in Sockets |-> "free"]
  /\ timer    = [s \in Sockets |-> FALSE]
  /\ conn     = [s \in Sockets |-> "none"]
  /\ owner    = NoSocket
  /\ record   = "absent"
  /\ pending  = [i \in Ids |-> NoSocket]
  /\ issued   = 0
  /\ boot     = 0

Attached(s) == \E c \in Clients : link[c] = s

------------------------------------------------------------------------------
(* The server's tables.                                                    *)

Offline == IF record = "absent" THEN "absent" ELSE "offline"

NothingDisconnected == UNCHANGED <<conn, owner, pending, record>>

\* Fault: the pending requests are left alone.
DisconnectConnectionUndrained(s) ==
  \/ conn[s] = "none" /\ NothingDisconnected
  \/ /\ conn[s] # "none"
     /\ conn'   = [conn EXCEPT ![s] = "none"]
     /\ owner'  = IF owner = s THEN NoSocket ELSE owner
     /\ record' = IF conn[s] = "authenticated" THEN Offline ELSE record
     /\ UNCHANGED pending

\* disconnectConnection: a known connection is forgotten, its pending requests
\* are rejected, its plugin is marked offline.
DisconnectConnection(s) ==
  \/ conn[s] = "none" /\ NothingDisconnected
  \/ /\ conn[s] # "none"
     /\ conn'    = [conn EXCEPT ![s] = "none"]
     /\ owner'   = IF owner = s THEN NoSocket ELSE owner
     /\ pending' = [i \in Ids |-> IF pending[i] = s THEN NoSocket ELSE pending[i]]
     /\ record'  = IF conn[s] = "authenticated" THEN Offline ELSE record

\* disconnectPlugin: the connection of the index, or the record alone.
DisconnectOwner ==
  \/ owner # NoSocket /\ DisconnectConnection(owner)
  \/ /\ owner = NoSocket
     /\ record' = Offline
     /\ UNCHANGED <<conn, owner, pending>>

\* sendToConnection: nothing is sent on a socket that is not open.
Send(s, m) ==
  toClient' = IF socket[s] = "open" /\ Attached(s)
              THEN [toClient EXCEPT ![s] = Append(@, m)] ELSE toClient

Close(s) == socket' = [socket EXCEPT ![s] = IF @ = "free" THEN "free" ELSE "closing"]

------------------------------------------------------------------------------
(* Messages the server receives.                                           *)

Receives(s, types) ==
  /\ socket[s] # "free"
  /\ toServer[s] # <<>>
  /\ Head(toServer[s]).type \in types
  /\ toServer' = [toServer EXCEPT ![s] = Tail(@)]

\* Anything but "authenticate" on a connection that is not authenticated.
ReceivesUnauthenticated(s) ==
  /\ Receives(s, {"register", "ping", "answer"})
  /\ conn[s] # "authenticated"
  /\ Send(s, Plain("auth_fail"))
  /\ UNCHANGED <<clientVars, socket, timer, conn, owner, record, pending, issued, boot>>

\* authenticateConnection refuses: here, because there is no such plugin.
RefusesAuthentication(s) ==
  /\ Receives(s, {"authenticate"})
  /\ record = "absent"
  /\ Send(s, Plain("auth_fail"))
  /\ UNCHANGED <<clientVars, socket, timer, conn, owner, record, pending, issued, boot>>

\* What authenticateConnection does when it accepts and the replaced
\* connections are given.
TakesPlugin(s, replaced) ==
  /\ Receives(s, {"authenticate"})
  /\ record # "absent"
  /\ conn[s] # "none"
  /\ conn'    = [t \in Sockets |-> IF t \in replaced THEN "none"
                                   ELSE IF t = s THEN "authenticated" ELSE conn[t]]
  /\ pending' = [i \in Ids |-> IF pending[i] \in replaced THEN NoSocket ELSE pending[i]]
  /\ record'  = IF replaced = {} THEN record ELSE "offline"
  /\ owner'   = s
  /\ Send(s, Plain("auth_ok"))
  /\ UNCHANGED <<clientVars, socket, issued, boot>>

\* Fault: the connection that the plugin had stays.
AuthenticatesBeside(s) == TakesPlugin(s, {}) /\ timer' = [timer EXCEPT ![s] = FALSE]

\* Fault: the authentication timeout goes on.
AuthenticatesKeepsTimer(s) == TakesPlugin(s, {owner} \ {s, NoSocket}) /\ UNCHANGED timer

(***************************************************************************)
(* authenticateConnection: the connection that the plugin had is           *)
(* disconnected (its socket is not closed), then this one takes its place; *)
(* AUTH_OK clears the authentication timeout.  A client authenticates      *)
(* once, on connecting, so the connection is still known at that moment.   *)
(***************************************************************************)
Authenticates(s) ==
  /\ TakesPlugin(s, {owner} \ {s, NoSocket})
  /\ timer' = [timer EXCEPT ![s] = FALSE]

\* registerRemotePlugin and touchConnectionHeartbeat: the plugin is online; when
\* its record is gone both fail.  The client ignores what they reply.
ShowsOnline(s) ==
  /\ Receives(s, {"register", "ping"})
  /\ conn[s] = "authenticated"
  /\ record' = IF record = "absent" THEN "absent" ELSE "online"
  /\ UNCHANGED <<clientVars, toClient, socket, timer, conn, owner, pending, issued, boot>>

\* settlePendingRequest: an id that nobody waits for is ignored.
Settles(s) ==
  /\ Receives(s, {"answer"})
  /\ conn[s] = "authenticated"
  /\ pending' = [pending EXCEPT ![Head(toServer[s]).call] = NoSocket]
  /\ UNCHANGED <<clientVars, toClient, socket, timer, conn, owner, record, issued, boot>>

------------------------------------------------------------------------------
(* What else happens at the server.                                        *)

\* executeTool, invokeHook or invokeRoute of the remote transport.
Calls ==
  /\ owner # NoSocket
  /\ issued < MaxCalls
  /\ issued' = issued + 1
  /\ pending' = [pending EXCEPT ![issued + 1] = owner]
  /\ Send(owner, [type |-> "execute", call |-> issued + 1, boot |-> boot])
  /\ UNCHANGED <<clientVars, toServer, socket, timer, conn, owner, record, boot>>

\* 10 s after the connection was opened.
AuthTimesOut(s) ==
  /\ timer[s]
  /\ timer' = [timer EXCEPT ![s] = FALSE]
  /\ Send(s, Plain("auth_fail"))
  /\ Close(s)
  /\ UNCHANGED <<clientVars, toServer, conn, owner, record, pending, issued, boot>>

\* checkHeartbeats: nothing was heard for 90 s.
Sweeps(s) ==
  /\ conn[s] = "authenticated"
  /\ DisconnectConnection(s)
  /\ Close(s)
  /\ UNCHANGED <<clientVars, toServer, toClient, timer, issued, boot>>

SocketGone(s) ==
  /\ socket[s] # "free"
  /\ ~Attached(s)
  /\ toServer[s] = <<>>
  /\ socket' = [socket EXCEPT ![s] = "free"]
  /\ timer' = [timer EXCEPT ![s] = FALSE]
  /\ UNCHANGED <<clientVars, toServer, toClient, issued, boot>>

\* The socket's "close" event: handleDisconnect.
SocketCloses(s) ==
  /\ SocketGone(s)
  /\ IF conn[s] = "authenticated" THEN DisconnectOwner ELSE DisconnectConnection(s)

\* The actions "reload", "reconnect" and "refresh-metadata": disconnectPlugin,
\* which closes the socket that it forgets.
DisconnectPlugin ==
  /\ record # "absent"
  /\ DisconnectOwner
  /\ IF owner = NoSocket THEN UNCHANGED socket ELSE Close(owner)
  /\ UNCHANGED <<clientVars, toServer, toClient, timer, issued, boot>>

\* upsertRemotePlugin (PUT remote-access): the record is written as not
\* connected, whatever the connections are.
UpsertRemotePlugin ==
  /\ record' = "offline"
  /\ UNCHANGED <<clientVars, toServer, toClient, socket, timer, conn, owner, pending,
                 issued, boot>>

\* deletePlugin: refused while the record says connected.
DeletePlugin ==
  /\ record = "offline"
  /\ record' = "absent"
  /\ UNCHANGED <<clientVars, toServer, toClient, socket, timer, conn, owner, pending,
                 issued, boot>>

\* The server dies and starts again: its memory is gone, the record is not,
\* and every client sees its socket close.
Restarts ==
  /\ boot < MaxBoots
  /\ boot'     = boot + 1
  /\ link'     = [c \in Clients |-> NoSocket]
  /\ beats'    = [c \in Clients |-> FALSE]
  /\ toServer' = [s \in Sockets |-> <<>>]
  /\ toClient' = [s \in Sockets |-> <<>>]
  /\ socket'   = [s \in Sockets |-> "free"]
  /\ timer'    = [s \in Sockets |-> FALSE]
  /\ conn'     = [s \in Sockets |-> "none"]
  /\ owner'    = NoSocket
  /\ pending'  = [i \in Ids |-> NoSocket]
  /\ issued'   = 0
  /\ UNCHANGED <<on, works, record>>

------------------------------------------------------------------------------
(* The SDK's client.                                                       *)

Serverless == <<socket, timer, conn, owner, record, pending, issued, boot>>

Starts(c) ==
  /\ ~on[c]
  /\ on' = [on EXCEPT ![c] = TRUE]
  /\ UNCHANGED <<link, beats, works, toServer, toClient, Serverless>>

\* connect, the server's handleConnection, and authenticate on "open".
Connects(c, s) ==
  /\ on[c]
  /\ link[c] = NoSocket
  /\ socket[s] = "free"
  /\ link'     = [link EXCEPT ![c] = s]
  /\ toServer' = [toServer EXCEPT ![s] = <<Plain("authenticate")>>]
  /\ toClient' = [toClient EXCEPT ![s] = <<>>]
  /\ socket'   = [socket EXCEPT ![s] = "open"]
  /\ conn'     = [conn EXCEPT ![s] = "opened"]
  /\ timer'    = [timer EXCEPT ![s] = TRUE]
  /\ UNCHANGED <<on, beats, works, owner, record, pending, issued, boot>>

(***************************************************************************)
(* handleMessage: AUTH_OK registers the manifest and starts the            *)
(* heartbeat; a call goes to its handler.  The server sends "auth_fail"    *)
(* under the type "error", which the client does not look at.              *)
(***************************************************************************)
ClientReceives(c) ==
  /\ link[c] # NoSocket
  /\ toClient[link[c]] # <<>>
  /\ LET s == link[c]
         m == Head(toClient[s])
     IN /\ toClient' = [toClient EXCEPT ![s] = Tail(@)]
        /\ beats'    = [beats EXCEPT ![c] = @ \/ m.type = "auth_ok"]
        /\ toServer' = IF m.type = "auth_ok"
                       THEN [toServer EXCEPT ![s] = Append(@, Plain("register"))] ELSE toServer
        /\ works'    = IF m.type = "execute"
                       THEN [works EXCEPT ![c] = @ \union {[call |-> m.call, boot |-> m.boot]}]
                       ELSE works
  /\ UNCHANGED <<on, link, Serverless>>

\* The heartbeat timer (bound: one ping at a time is under way).
Pings(c) ==
  /\ beats[c]
  /\ LET s == link[c] IN
     /\ toServer[s] = <<>>
     /\ toClient[s] = <<>>
     /\ toServer' = [toServer EXCEPT ![s] = <<Plain("ping")>>]
  /\ UNCHANGED <<clientVars, toClient, Serverless>>

\* A handler returns or fails: the answer goes to the socket of that moment,
\* if it is open.
Answers(c, w) ==
  /\ w \in works[c]
  /\ works' = [works EXCEPT ![c] = @ \ {w}]
  /\ toServer' = IF link[c] = NoSocket THEN toServer
                 ELSE [toServer EXCEPT ![link[c]] =
                         Append(@, [type |-> "answer", call |-> w.call, boot |-> w.boot])]
  /\ UNCHANGED <<on, link, beats, toClient, Serverless>>

\* The client's end of its socket is gone; what it sent arrives or is lost.
LosesSocket(c) ==
  /\ link[c] # NoSocket
  /\ link' = [link EXCEPT ![c] = NoSocket]
  /\ beats' = [beats EXCEPT ![c] = FALSE]
  /\ toClient' = [toClient EXCEPT ![link[c]] = <<>>]
  /\ toServer' \in {toServer, [toServer EXCEPT ![link[c]] = <<>>]}

\* A failure of the network, or the "close" event after the server closed.
Disconnected(c) ==
  /\ LosesSocket(c)
  /\ UNCHANGED <<on, works, Serverless>>

\* The process ends.
Stops(c) ==
  /\ on[c]
  /\ on' = [on EXCEPT ![c] = FALSE]
  /\ works' = [works EXCEPT ![c] = {}]
  /\ \/ LosesSocket(c)
     \/ link[c] = NoSocket /\ UNCHANGED <<link, beats, toServer, toClient>>
  /\ UNCHANGED Serverless

ServerStep(s) ==
  \/ ReceivesUnauthenticated(s)
  \/ RefusesAuthentication(s)
  \/ Authenticates(s)
  \/ ShowsOnline(s)
  \/ Settles(s)
  \/ AuthTimesOut(s)
  \/ Sweeps(s)
  \/ SocketCloses(s)

ClientStep(c) ==
  \/ Starts(c)
  \/ \E s \in Sockets : Connects(c, s)
  \/ ClientReceives(c)
  \/ Pings(c)
  \/ \E w \in works[c] : Answers(c, w)
  \/ Disconnected(c)
  \/ Stops(c)

Next ==
  \/ \E s \in Sockets : ServerStep(s)
  \/ \E c \in Clients : ClientStep(c)
  \/ Calls
  \/ DisconnectPlugin
  \/ UpsertRemotePlugin
  \/ DeletePlugin
  \/ Restarts

Spec == Init /\ [][Next]_vars
===============================================================================
