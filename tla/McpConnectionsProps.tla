-------------------------- MODULE McpConnectionsProps --------------------------
(* What the MCP connections must satisfy. *)
EXTENDS McpConnections

RecordType == [listed : BOOLEAN, enabled : BOOLEAN, connected : BOOLEAN]
SessionType == [state : {"open", "closing", "gone"}, server : Servers \union {NoServer},
                config : Configs \union {NoConfig}]
WorkType == [pc : {"idle", "closing", "spawning", "opening", "failed"},
             kind : {"none", "sync", "remove", "health"},
             name : Servers \union {NoServer}, next : Servers \union {NoServer},
             enabled : BOOLEAN, config : Configs \union {NoConfig},
             session : Sessions \union {NoSession}, waits : Sessions \union {NoSession},
             attempt : 0 .. MaxAttempts]
CallType == [pc : {"idle", "flight", "closing"}, name : Servers \union {NoServer},
             session : Sessions \union {NoSession}, waits : Sessions \union {NoSession}]

\* Every variable has the shape the handlers give it; no connection is attempted
\* a third time.
TypeOK ==
  /\ file \in [Servers -> Configs \union {NoConfig}]
  /\ memory \in [Servers -> Seq(Configs)]
  /\ override \in [Servers -> BOOLEAN]
  /\ records \in [Servers -> RecordType]
  /\ clients \in [Servers -> Sessions \union {NoSession}]
  /\ sessions \in [Sessions -> SessionType]
  /\ op \in [Workers -> WorkType]
  /\ todo \subseteq Servers
  /\ calls \in [Calls -> CallType]
  /\ disturbed \in [Servers -> BOOLEAN]

Busy(n) == \E p \in Workers : Active(p, n)
Quiet(n) == ~Busy(n) /\ ~(\E c \in Calls : Closing(c, n))
Undisturbed(n) == ~disturbed[n] /\ n \notin todo

\* Every process that runs is the client of its server or in the hands of the
\* worker that opened it, so that somebody will close it: a process is lost
\* (connectMcpServer overwrites a client, closeClient deletes one it did not
\* close) only on a server where two of them met.
NoProcessIsLost ==
  \A s \in Sessions :
    Open(s) => \/ \E n \in Servers : clients[n] = s
               \/ \E p \in Workers : op[p].session = s
               \/ disturbed[sessions[s].server]

\* When nobody is at work on a server and nobody ever met there, the tool layer
\* lists it exactly if it is configured, enabled as the override says.
RecordsFollowTheStore ==
  \A n \in Servers :
    Quiet(n) /\ Undisturbed(n) =>
      /\ records[n].listed <=> Configured(n)
      /\ records[n].listed => records[n].enabled = override[n]

\* Under the same condition a server whose tools are offered is enabled, has a
\* client, and this client, if its process still runs, was started for this
\* server with what the store now returns, which is what the file says unless
\* another server was renamed to this name.
OffersAreCurrent ==
  \A n \in Servers :
    Quiet(n) /\ Undisturbed(n) /\ records[n].connected /\ records[n].enabled =>
      /\ override[n]
      /\ clients[n] # NoSession
      /\ Open(clients[n]) => sessions[clients[n]] =
            [state |-> "open", server |-> n, config |-> Config(n)]
      /\ Len(memory[n]) = 1 => Config(n) = file[n]
================================================================================
