---------------------------- MODULE McpConnections ----------------------------
(***************************************************************************)
(* The MCP servers of the program: their configuration (file and memory),  *)
(* the records the tool layer lists, the client sessions (one child        *)
(* process each) and the requests, the boot and the tool calls that work   *)
(* on them.  Nothing serialises these: every await lets another in.        *)
(*                                                                         *)
(* A worker is an administrative request or the reload of the boot.  Its   *)
(* steps are the parts of its handler between two awaits that wait for a   *)
(* child process; the other awaits are on resolved promises.               *)
(***************************************************************************)
EXTENDS Naturals, Sequences

CONSTANTS Servers,      \* the names of the servers
          Configs,      \* what a server's configuration can say
          Requests,     \* administrative requests
          Calls,        \* tool calls
          Sessions,     \* client sessions that may exist at once (a bound)
          Boot,         \* the worker that reloads every server at the start
          NoServer, NoConfig, NoSession,
          MaxEntries,   \* entries of one name in memory (a bound)
          AsksOn        \* are there requests other than a reload for a server
                        \* where two workers met already (FALSE is a bound)

ASSUME NamesAreDistinct ==
  /\ Boot \notin Requests
  /\ NoServer \notin Servers
  /\ NoConfig \notin Configs
  /\ NoSession \notin Sessions
  /\ MaxEntries \in Nat
  /\ AsksOn \in BOOLEAN

VARIABLES file,       \* config/mcp/servers/<name>.json
          memory,     \* the entries of each name in the store's list
          override,   \* is the source enabled (no override is TRUE)
          records,    \* serverRecords
          clients,    \* the table of clients
          sessions,   \* the client sessions and their processes
          op,         \* what each worker is doing
          todo,       \* what the boot has still to visit
          calls,      \* the tool calls
          disturbed   \* history: did two workers ever meet on this server

vars == <<file, memory, override, records, clients, sessions, op, todo, calls,
          disturbed>>
store == <<file, memory, override>>

Workers == Requests \union {Boot}
MaxAttempts == 2

NotListed == [listed |-> FALSE, enabled |-> FALSE, connected |-> FALSE]
Record(enabled, connected) ==
  [listed |-> TRUE, enabled |-> enabled, connected |-> connected]

Gone == [state |-> "gone", server |-> NoServer, config |-> NoConfig]

\* next: the name a rename goes on with; session: the one being opened;
\* waits: the one whose end close() waits for.
NoOp == [pc |-> "idle", kind |-> "none", name |-> NoServer, next |-> NoServer,
         enabled |-> FALSE, config |-> NoConfig, session |-> NoSession,
         waits |-> NoSession, attempt |-> 0]
NoCall == [pc |-> "idle", name |-> NoServer, session |-> NoSession,
           waits |-> NoSession]

Init ==
  /\ file \in [Servers -> Configs \union {NoConfig}]
  /\ memory = [n \in Servers |->
                 IF file[n] = NoConfig THEN <<>> ELSE <<file[n]>>]
  /\ override \in [Servers -> BOOLEAN]
  /\ records = [n \in Servers |-> NotListed]
  /\ clients = [n \in Servers |-> NoSession]
  /\ sessions = [s \in Sessions |-> Gone]
  /\ op = [p \in Workers |-> NoOp]
  /\ todo = {n \in Servers : file[n] # NoConfig}
  /\ calls = [c \in Calls |-> NoCall]
  /\ disturbed = [n \in Servers |-> FALSE]

-------------------------------------------------------------------------------
Configured(n) == memory[n] # <<>>
Config(n) == Head(memory[n])

Active(p, n) == op[p].pc # "idle" /\ n \in {op[p].name, op[p].next}
Closing(c, n) == calls[c].pc = "closing" /\ calls[c].name = n

\* Somebody starts on the servers ns while the workers ps or the failed calls cs
\* may be at work on them.
Meets(ns, ps, cs) ==
  disturbed' = [n \in Servers |->
                  disturbed[n] \/ /\ n \in ns
                                  /\ \/ \E q \in ps : Active(q, n)
                                     \/ \E c \in cs : Closing(c, n)]
Begins(p, ns) == op[p].pc = "idle" /\ Meets(ns, Workers \ {p}, Calls)
Asked(p, ns) == Begins(p, ns) /\ (AsksOn \/ \A n \in ns : ~disturbed[n])

Open(s) == s # NoSession /\ sessions[s].state = "open"
Unused(s) ==
  /\ sessions[s] = Gone
  /\ \A n \in Servers : clients[n] # s
  /\ \A p \in Workers : s \notin {op[p].session, op[p].waits}
  /\ \A c \in Calls : s \notin {calls[c].session, calls[c].waits}

\* close() of a session waits only for a process that still runs.
Awaited(s) == IF Open(s) THEN s ELSE NoSession
Closes(s) ==
  sessions' = IF Open(s) THEN [sessions EXCEPT ![s].state = "closing"] ELSE sessions
Returned(s) == s # NoSession => sessions[s] = Gone

SetConnected(n, connected) ==
  records' = IF records[n].listed THEN [records EXCEPT ![n].connected = connected]
             ELSE records

\* The first part of syncServerRecord: a new record, then the old client goes.
\* rs: the records so far; config: what requireServerConfig returned.
StartSync(p, n, enabled, config, rs) ==
  /\ records' = [rs EXCEPT ![n] = Record(enabled, FALSE)]
  /\ Closes(clients[n])
  /\ op' = [op EXCEPT ![p] = [NoOp EXCEPT
              !.pc = "closing", !.kind = "sync", !.name = n, !.enabled = enabled,
              !.config = config, !.waits = Awaited(clients[n])]]

\* The first part of removeServer; next is the new name of a rename.
StartRemove(p, n, next) ==
  /\ Closes(clients[n])
  /\ op' = [op EXCEPT ![p] = [NoOp EXCEPT
              !.pc = "closing", !.kind = "remove", !.name = n, !.next = next,
              !.waits = Awaited(clients[n])]]
  /\ UNCHANGED records

-------------------------------------------------------------------------------
(* The requests. *)

\* POST, and PUT that keeps the name.
Save(p, n, config) ==
  /\ Asked(p, {n})
  /\ file' = [file EXCEPT ![n] = config]
  /\ memory' = [memory EXCEPT ![n] = <<config>>]
  /\ StartSync(p, n, override[n], config, records)
  /\ UNCHANGED <<override, clients, todo, calls>>

\* PUT that gives previous a new name.  An entry that has this name stays, and
\* the list is sorted by name: the new entry comes after it.
Rename(p, previous, n, config) ==
  /\ previous # n
  /\ Len(memory[n]) < MaxEntries
  /\ Asked(p, {previous, n})
  /\ file' = [file EXCEPT ![n] = config, ![previous] = NoConfig]
  /\ memory' = [memory EXCEPT ![n] = Append(@, config), ![previous] = <<>>]
  /\ StartRemove(p, previous, n)
  /\ UNCHANGED <<override, clients, todo, calls>>

Delete(p, n) ==
  /\ Configured(n)
  /\ Asked(p, {n})
  /\ file' = [file EXCEPT ![n] = NoConfig]
  /\ memory' = [memory EXCEPT ![n] = <<>>]
  /\ StartRemove(p, n, NoServer)
  /\ UNCHANGED <<override, clients, todo, calls>>

\* The override is written before the name is looked up.
SetEnabled(p, n, enabled) ==
  /\ Asked(p, {n})
  /\ override' = [override EXCEPT ![n] = enabled]
  /\ IF Configured(n) THEN StartSync(p, n, enabled, Config(n), records)
     ELSE UNCHANGED <<records, sessions, op>>
  /\ UNCHANGED <<file, memory, clients, todo, calls>>

\* Governance actions 'reload' and 'reconnect'.
Reload(p, n) ==
  /\ Configured(n)
  /\ Begins(p, {n})
  /\ StartSync(p, n, override[n], Config(n), records)
  /\ UNCHANGED <<store, clients, todo, calls>>

HealthCheck(p, n) ==
  /\ records[n].listed
  /\ Configured(n)
  /\ Asked(p, {n})
  /\ op' = [op EXCEPT ![p] = [NoOp EXCEPT
              !.pc = "spawning", !.kind = "health", !.name = n, !.attempt = 1,
              !.enabled = records[n].enabled, !.config = Config(n)]]
  /\ UNCHANGED <<store, records, clients, sessions, todo, calls>>

\* reloadServersFromConfig goes through the names it read at the start. (Their
\* order is left out.)
BootVisits(n) ==
  /\ n \in todo
  /\ Configured(n)
  /\ Begins(Boot, {n})
  /\ StartSync(Boot, n, override[n], Config(n), records)
  /\ todo' = todo \ {n}
  /\ UNCHANGED <<store, clients, calls>>

\* requireServerConfig throws for a server deleted meanwhile: the rest is not visited.
BootFails(n) ==
  /\ n \in todo
  /\ op[Boot].pc = "idle"
  /\ ~Configured(n)
  /\ op' = [op EXCEPT ![Boot].pc = "failed"]
  /\ UNCHANGED <<store, records, clients, sessions, todo, calls, disturbed>>

-------------------------------------------------------------------------------
(* What follows an await. *)

\* Whatever client is in the table now leaves it.
SyncGoesOn(p) ==
  /\ op[p].pc = "closing" /\ op[p].kind = "sync"
  /\ Returned(op[p].waits)
  /\ clients' = [clients EXCEPT ![op[p].name] = NoSession]
  /\ SetConnected(op[p].name, FALSE)
  /\ op' = [op EXCEPT ![p] =
              IF op[p].enabled
              THEN [@ EXCEPT !.pc = "spawning", !.waits = NoSession, !.attempt = 1]
              ELSE NoOp]
  /\ UNCHANGED <<store, sessions, todo, calls, disturbed>>

RemoveGoesOn(p) ==
  /\ op[p].pc = "closing" /\ op[p].kind = "remove"
  /\ Returned(op[p].waits)
  /\ clients' = [clients EXCEPT ![op[p].name] = NoSession]
  /\ override' = [override EXCEPT ![op[p].name] = TRUE]
  /\ LET rs == [records EXCEPT ![op[p].name] = NotListed]
         n == op[p].next
     IN IF n # NoServer /\ memory[n] # <<>>
        THEN StartSync(p, n, override[n], Config(n), rs)
        ELSE /\ records' = rs
             /\ op' = [op EXCEPT ![p] = NoOp]
             /\ UNCHANGED sessions
  /\ UNCHANGED <<file, memory, todo, calls, disturbed>>

\* An attempt of connectClientSession starts a process.
Spawns(p) ==
  /\ op[p].pc = "spawning"
  /\ \E s \in Sessions :
       /\ Unused(s)
       /\ sessions' = [sessions EXCEPT ![s] =
             [state |-> "open", server |-> op[p].name, config |-> op[p].config]]
       /\ op' = [op EXCEPT ![p].pc = "opening", ![p].session = s]
  /\ UNCHANGED <<store, records, clients, todo, calls, disturbed>>

TriesAgain(attempt) == attempt < MaxAttempts
\* Fault: an attempt that timed out leaves its process.
LeavesAttempt(s) == sessions' = [sessions EXCEPT ![s] = @]
EndsAttempt(s) == sessions' = [sessions EXCEPT ![s] = Gone]

\* It ends the process of an attempt that failed, and tries a second time.
AttemptFails(p) ==
  /\ op[p].pc = "opening"
  /\ EndsAttempt(op[p].session)
  /\ IF TriesAgain(op[p].attempt)
     THEN /\ op' = [op EXCEPT ![p].pc = "spawning", ![p].session = NoSession,
                              ![p].attempt = @ + 1]
          /\ UNCHANGED records
     ELSE /\ op' = [op EXCEPT ![p] = NoOp]
          /\ IF op[p].kind = "sync"
             THEN records' = [records EXCEPT ![op[p].name] = Record(TRUE, FALSE)]
             ELSE SetConnected(op[p].name, FALSE)
  /\ UNCHANGED <<store, clients, todo, calls, disturbed>>

\* connectMcpServer: a new client and a new record, enabled by default.
SyncConnects(p) ==
  /\ op[p].pc = "opening" /\ op[p].kind = "sync"
  /\ Open(op[p].session)
  /\ clients' = [clients EXCEPT ![op[p].name] = op[p].session]
  /\ records' = [records EXCEPT ![op[p].name] = Record(TRUE, TRUE)]
  /\ op' = [op EXCEPT ![p] = NoOp]
  /\ UNCHANGED <<store, sessions, todo, calls, disturbed>>

\* runHealthCheck: the new session replaces the client, or is closed at once.
HealthConnects(p) ==
  /\ op[p].pc = "opening" /\ op[p].kind = "health"
  /\ Open(op[p].session)
  /\ LET s == IF op[p].enabled THEN clients[op[p].name] ELSE op[p].session IN
       /\ Closes(s)
       /\ op' = [op EXCEPT ![p].pc = "closing", ![p].waits = Awaited(s)]
  /\ UNCHANGED <<store, records, clients, todo, calls, disturbed>>

\* Fault: the record of a health check has the default of 'enabled'.
CheckedByDefault(enabled) == Record(TRUE, enabled)
Checked(enabled) == Record(enabled, enabled)

HealthEnds(p) ==
  /\ op[p].pc = "closing" /\ op[p].kind = "health"
  /\ Returned(op[p].waits)
  /\ clients' = IF op[p].enabled
                THEN [clients EXCEPT ![op[p].name] = op[p].session] ELSE clients
  /\ records' = [records EXCEPT ![op[p].name] = Checked(op[p].enabled)]
  /\ op' = [op EXCEPT ![p] = NoOp]
  /\ UNCHANGED <<store, sessions, todo, calls, disturbed>>

-------------------------------------------------------------------------------
(* The tool calls, and the processes. *)

CallStarts(c, n) ==
  /\ calls[c].pc = "idle"
  /\ records[n].listed => records[n].enabled
  /\ clients[n] # NoSession
  /\ calls' = [calls EXCEPT ![c] = [NoCall EXCEPT
                 !.pc = "flight", !.name = n, !.session = clients[n]]]
  /\ UNCHANGED <<store, records, clients, sessions, op, todo, disturbed>>

CallFindsNoClient(c, n) ==
  /\ calls[c].pc = "idle"
  /\ records[n].listed => records[n].enabled
  /\ clients[n] = NoSession
  /\ SetConnected(n, FALSE)
  /\ UNCHANGED <<store, clients, sessions, op, todo, calls, disturbed>>

CallSucceeds(c) ==
  /\ calls[c].pc = "flight"
  /\ sessions[calls[c].session] # Gone
  /\ SetConnected(calls[c].name, TRUE)
  /\ calls' = [calls EXCEPT ![c] = NoCall]
  /\ UNCHANGED <<store, clients, sessions, op, todo, disturbed>>

\* An error or a timeout closes the client the table holds now.
CallFails(c) ==
  /\ calls[c].pc = "flight"
  /\ LET n == calls[c].name IN
       /\ Meets({n}, Workers, {})
       /\ Closes(clients[n])
       /\ calls' = [calls EXCEPT ![c] = [NoCall EXCEPT
                      !.pc = "closing", !.name = n, !.waits = Awaited(clients[n])]]
  /\ UNCHANGED <<store, records, clients, op, todo>>

\* Fault: the client goes, the status stays.
CallEndsSilently(c) ==
  /\ calls[c].pc = "closing"
  /\ Returned(calls[c].waits)
  /\ clients' = [clients EXCEPT ![calls[c].name] = NoSession]
  /\ calls' = [calls EXCEPT ![c] = NoCall]
  /\ UNCHANGED <<store, records, sessions, op, todo, disturbed>>

CallEnds(c) ==
  /\ calls[c].pc = "closing"
  /\ Returned(calls[c].waits)
  /\ clients' = [clients EXCEPT ![calls[c].name] = NoSession]
  /\ SetConnected(calls[c].name, FALSE)
  /\ calls' = [calls EXCEPT ![c] = NoCall]
  /\ UNCHANGED <<store, sessions, op, todo, disturbed>>

\* A process that was told to end ends; one that runs may end by itself.
ProcessEnds(s) ==
  /\ sessions[s] # Gone
  /\ sessions' = [sessions EXCEPT ![s] = Gone]
  /\ UNCHANGED <<store, records, clients, op, todo, calls, disturbed>>

-------------------------------------------------------------------------------
Asks(p) ==
  \E n \in Servers :
    \/ \E config \in Configs :
         \/ Save(p, n, config)
         \/ \E previous \in Servers : Rename(p, previous, n, config)
    \/ Delete(p, n)
    \/ \E enabled \in BOOLEAN : SetEnabled(p, n, enabled)
    \/ Reload(p, n)
    \/ HealthCheck(p, n)

Works(p) ==
  \/ SyncGoesOn(p)
  \/ RemoveGoesOn(p)
  \/ Spawns(p)
  \/ AttemptFails(p)
  \/ SyncConnects(p)
  \/ HealthConnects(p)
  \/ HealthEnds(p)

CallsTool(c) ==
  \/ \E n \in Servers : CallStarts(c, n) \/ CallFindsNoClient(c, n)
  \/ CallSucceeds(c)
  \/ CallFails(c)
  \/ CallEnds(c)

Next ==
  \/ \E p \in Requests : Asks(p)
  \/ \E n \in todo : BootVisits(n) \/ BootFails(n)
  \/ \E p \in Workers : Works(p)
  \/ \E c \in Calls : CallsTool(c)
  \/ \E s \in Sessions : ProcessEnds(s)

Spec == Init /\ [][Next]_vars
===============================================================================
