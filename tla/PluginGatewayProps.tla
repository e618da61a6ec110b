-------------------------- MODULE PluginGatewayProps ---------------------------
(***************************************************************************)
(* What is claimed of PluginGateway.                                       *)
(***************************************************************************)
EXTENDS PluginGateway

(***************************************************************************)
(* The connections and the index of plugins agree: the plugin has at most  *)
(* one authenticated connection, the one its calls go to, however many     *)
(* processes authenticate, lose their sockets or are swept meanwhile.      *)
(***************************************************************************)
IndexAgrees == \A s \in Sockets : conn[s] = "authenticated" <=> owner = s

(***************************************************************************)
(* No connection is forgotten: one that the server still lists has a       *)
(* socket whose "close" event will remove it, and one that did not         *)
(* authenticate has a running timeout or is being closed.                  *)
(***************************************************************************)
ConnectionsAreWatched ==
  \A s \in Sockets :
    /\ conn[s] # "none" => socket[s] # "free"
    /\ conn[s] = "opened" => timer[s] \/ socket[s] = "closing"

(***************************************************************************)
(* Until the first restart, a plugin shown as online has a connection: the *)
(* one that made it online did not go away without marking it offline.     *)
(***************************************************************************)
OnlineHasConnection == boot = 0 /\ record = "online" => owner # NoSocket

\* Sockets, connections, timeouts, the index and the record fit together.
ConnectionsAgree == IndexAgrees /\ ConnectionsAreWatched /\ OnlineHasConnection

(***************************************************************************)
(* An answer settles only a call that was sent on the connection it comes  *)
(* from: a process that was replaced, or that answers late on a new        *)
(* connection, cannot settle a call of somebody else.                      *)
(***************************************************************************)
AnswersComeFromTheirConnection ==
  [][\A s \in Sockets : Settles(s) => pending[Head(toServer[s]).call] \in {s, NoSocket}]_vars

(***************************************************************************)
(* The index and the pending requests implement PluginLease.               *)
(***************************************************************************)
Lease == INSTANCE PluginLease
  WITH Holders <- Sockets, Nobody <- NoSocket, Calls <- Ids,
       holder <- owner, waiting <- {i \in Ids : pending[i] # NoSocket}

LeaseSpec == Lease!Spec

(***************************************************************************)
(* A call gets the answer that was given to it: "pending requests are      *)
(* matched by requestId", also when the server was started again since the *)
(* plugin began to work on a call.                                         *)
(***************************************************************************)
AnswersAreTheirs ==
  [][\A s \in Sockets :
       Settles(s) /\ pending[Head(toServer[s]).call] # NoSocket
         => Head(toServer[s]).boot = boot]_vars

------------------------------------------------------------------------------
(* Liveness.                                                               *)

(***************************************************************************)
(* Messages that were sent arrive, timers fire, a socket that the server   *)
(* closes ends, handlers return.  Nobody is obliged to start or stop, and  *)
(* a lost connection is noticed by the sweep only.                         *)
(***************************************************************************)
ServerFair ==
  \A s \in Sockets :
    /\ WF_vars(ReceivesUnauthenticated(s) \/ RefusesAuthentication(s)
               \/ Authenticates(s) \/ ShowsOnline(s) \/ Settles(s))
    /\ WF_vars(AuthTimesOut(s))
    /\ WF_vars(~Attached(s) /\ Sweeps(s))
    /\ WF_vars(socket[s] = "closing" /\ SocketCloses(s))

ClientFair ==
  \A c \in Clients :
    /\ WF_vars(\E s \in Sockets : Connects(c, s))
    /\ WF_vars(ClientReceives(c))
    /\ WF_vars(Pings(c))
    /\ WF_vars(\E w \in works[c] : Answers(c, w))
    /\ WF_vars(link[c] # NoSocket /\ socket[link[c]] = "closing" /\ Disconnected(c))

FairSpec == Spec /\ ServerFair /\ ClientFair

(***************************************************************************)
(* Every call ends: it is answered, or the connection it was sent on is    *)
(* lost, swept or replaced and the call rejected.                          *)
(***************************************************************************)
CallsEnd == \A i \in Ids : pending[i] # NoSocket ~> pending[i] = NoSocket

\* What may keep a plugin from being connected for a while: the network, the
\* administrator, a process that ends, a message on its way for 10 s or 90 s.
Disturbance ==
  \/ \E s \in Sockets : Sweeps(s) \/ (AuthTimesOut(s) /\ toServer[s] # <<>>)
  \/ \E c \in Clients : Stops(c) \/ (Disconnected(c) /\ socket[link[c]] = "open")
  \/ DisconnectPlugin
  \/ DeletePlugin
  \/ UpsertRemotePlugin

\* What keeps it from being connected for good: a socket that the client
\* already gave up authenticates and takes the plugin from the one in use; the
\* client, which goes on pinging there, is not told.
AuthenticatesInOrder ==
  \A s \in Sockets :
    ~Attached(s) /\ toServer[s] # <<>> => Head(toServer[s]).type # "authenticate"

(***************************************************************************)
(* A plugin process that keeps running comes back online once nothing      *)
(* disturbs it any more, whatever happened to its connections before,      *)
(* provided that no connection authenticates after its client left it.     *)
(***************************************************************************)
ComesBack ==
  []AuthenticatesInOrder /\ <>[][~Disturbance]_vars =>
    \A c \in Clients :
      <>[](on[c] /\ record # "absent") => <>[](record = "online" /\ link[c] = owner)
===============================================================================
