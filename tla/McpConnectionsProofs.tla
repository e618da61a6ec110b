-------------------------- MODULE McpConnectionsProofs --------------------------
(***************************************************************************)
(* Proofs about McpConnections, for any servers, configurations, requests, *)
(* calls and sessions.                                                     *)
(*                                                                         *)
(* McpInv is inductive.  Its parts follow a session through its life:      *)
(* whoever keeps a session keeps one of his own server (KeptInv), and      *)
(* whoever has told a process to end waits for it (WaitInv).  As a worker  *)
(* on an undisturbed server is alone there (MeetInv), what he waited for   *)
(* was the client he now drops (DropInv, CallInv), and nothing is lost;    *)
(* and what he found in the store when he began is what it still says      *)
(* (WorkInv), so that what he leaves is current (ClientInv, RestInv).      *)
(*                                                                         *)
(* One lemma per action: its first steps say what the action does entry by *)
(* entry, the others that the parts of the invariant survive this.         *)
(***************************************************************************)
EXTENDS McpConnectionsProps, TLAPS

Working(p) == op[p].pc \in {"closing", "spawning", "opening"}
Runs(s) == s # NoSession /\ sessions[s].state # "gone"

\* What a worker, a call and a session look like at each stage.
OpShape ==
  \A p \in Workers :
    /\ ~Working(p) => op[p].name = NoServer /\ op[p].next = NoServer
    /\ Working(p) => op[p].name \in Servers /\ op[p].kind # "none"
    /\ op[p].pc \in {"spawning", "opening"} =>
         op[p].kind # "remove" /\ (op[p].kind = "sync" => op[p].enabled)
    /\ op[p].next # NoServer => op[p].kind = "remove" /\ op[p].next # op[p].name
    /\ (op[p].session # NoSession) <=>
         (op[p].pc = "opening" \/ (op[p].pc = "closing" /\ op[p].kind = "health"))
    /\ op[p].waits # NoSession => op[p].pc = "closing"
    /\ op[p].pc = "closing" /\ op[p].kind = "health" /\ ~op[p].enabled => ~Open(op[p].session)

CallShape ==
  \A c \in Calls :
    /\ calls[c].pc # "idle" => calls[c].name \in Servers
    /\ (calls[c].session # NoSession) <=> (calls[c].pc = "flight")
    /\ calls[c].waits # NoSession => calls[c].pc = "closing"

StoreShape ==
  /\ \A s \in Sessions :
       IF sessions[s].state = "gone" THEN sessions[s] = Gone ELSE sessions[s].server \in Servers
  /\ \A n \in Servers :
       /\ Len(memory[n]) = 1 => file[n] = Head(memory[n])
       /\ ~records[n].listed => ~records[n].connected

\* A session that is not gone belongs to the server under whose name it is kept.
KeptInv ==
  /\ \A n \in Servers : Runs(clients[n]) => sessions[clients[n]].server = n
  /\ \A p \in Workers :
       /\ Runs(op[p].session) => /\ sessions[op[p].session].server = op[p].name
                                 /\ sessions[op[p].session].config = op[p].config
       /\ Runs(op[p].waits) => sessions[op[p].waits].server = op[p].name
  /\ \A c \in Calls : Runs(calls[c].waits) => sessions[calls[c].waits].server = calls[c].name

\* Somebody waits for each process that was told to end.
WaitInv ==
  \A s \in Sessions : sessions[s].state = "closing" =>
    \/ \E p \in Workers : op[p].waits = s
    \/ \E c \in Calls : calls[c].waits = s

\* Who works on an undisturbed server does so alone.
MeetInv ==
  \A n \in Servers : ~disturbed[n] =>
    \A p \in Workers : Active(p, n) =>
      /\ \A q \in Workers : Active(q, n) => q = p
      /\ \A c \in Calls : ~Closing(c, n)

\* What he works with is what the store says, and somewhere to go on is configured.
AtWork(p) ==
  LET n == op[p].name IN
    /\ op[p].kind = "remove" <=> ~Configured(n)
    /\ op[p].kind # "remove" => /\ op[p].config = Config(n)
                                /\ op[p].enabled = override[n]
                                /\ records[n].listed /\ records[n].enabled = op[p].enabled
WorkInv ==
  \A p \in Workers : Working(p) =>
    /\ ~disturbed[op[p].name] => AtWork(p)
    /\ op[p].next # NoServer => disturbed[op[p].next] \/ Configured(op[p].next)

\* No process runs that he is about to drop.
DropInv ==
  \A p \in Workers : Working(p) /\ ~disturbed[op[p].name] =>
    /\ op[p].pc = "closing" /\ (op[p].kind = "health" => op[p].enabled) => ~Open(clients[op[p].name])
    /\ op[p].kind = "sync" /\ op[p].pc # "closing" => clients[op[p].name] = NoSession

\* A call that failed does not drop a client that runs.
CallInv ==
  \A c \in Calls : calls[c].pc = "closing" /\ ~disturbed[calls[c].name] => ~Open(clients[calls[c].name])

\* The process a call waits for is its server's, if nobody else waits for its end.
FlightInv ==
  \A c \in Calls : calls[c].pc = "flight" /\ ~disturbed[calls[c].name] /\ Runs(calls[c].session) =>
    \/ calls[c].session = clients[calls[c].name]
    \/ \E d \in Calls : Closing(d, calls[c].name) /\ calls[d].waits = calls[c].session

\* A client that runs was started with what the store says.
ClientInv ==
  \A n \in Servers : ~disturbed[n] /\ Open(clients[n]) =>
    Configured(n) /\ sessions[clients[n]].config = Config(n)

\* What a server without a worker shows is what the store says.
RestInv ==
  \A n \in Servers : ~disturbed[n] /\ ~Busy(n) =>
    /\ records[n].listed => Configured(n) /\ records[n].enabled = override[n]
    /\ Configured(n) /\ n \notin todo => records[n].listed
    /\ Quiet(n) /\ records[n].connected => clients[n] # NoSession

Tables ==
  /\ OpShape /\ CallShape /\ StoreShape /\ KeptInv /\ WaitInv /\ MeetInv
  /\ WorkInv /\ DropInv /\ CallInv /\ FlightInv /\ ClientInv /\ RestInv /\ NoProcessIsLost

McpInv == TypeOK /\ Tables

USE NamesAreDistinct DEF NamesAreDistinct, Workers

-------------------------------------------------------------------------------
(* What the actions do, entry by entry. *)

OpGoes(p, pc, kind, name, next, enabled, config, session, waits) ==
  /\ op'[p].pc = pc /\ op'[p].kind = kind /\ op'[p].name = name /\ op'[p].next = next
  /\ op'[p].enabled = enabled /\ op'[p].config = config
  /\ op'[p].session = session /\ op'[p].waits = waits
  /\ \A q \in Workers : q # p => op'[q] = op[q]
OpRests(p) ==
  /\ op'[p].pc = "idle" /\ op'[p].kind = "none" /\ op'[p].name = NoServer
  /\ op'[p].next = NoServer /\ op'[p].session = NoSession /\ op'[p].waits = NoSession
  /\ \A q \in Workers : q # p => op'[q] = op[q]
CallGoes(c, pc, name, session, waits) ==
  /\ calls'[c].pc = pc /\ calls'[c].name = name
  /\ calls'[c].session = session /\ calls'[c].waits = waits
  /\ \A d \in Calls : d # c => calls'[d] = calls[d]
RecordGoes(n, listed, enabled, connected) ==
  /\ records'[n].listed = listed /\ records'[n].enabled = enabled
  /\ records'[n].connected = connected
  /\ \A m \in Servers : m # n => records'[m] = records[m]
ConnectedGoes(n, connected) ==
  /\ records'[n].listed = records[n].listed /\ records'[n].enabled = records[n].enabled
  /\ records[n].listed => records'[n].connected = connected
  /\ ~records[n].listed => records'[n].connected = records[n].connected
  /\ \A m \in Servers : m # n => records'[m] = records[m]
ClientGoes(n, s) == clients'[n] = s /\ \A m \in Servers : m # n => clients'[m] = clients[m]
MemoryGoes(n, list) == memory'[n] = list /\ \A m \in Servers : m # n => memory'[m] = memory[m]
OverrideGoes(n, on) ==
  override'[n] = on /\ \A m \in Servers : m # n => override'[m] = override[m]
SessionCloses(x) ==
  \A s \in Sessions :
    /\ sessions'[s].server = sessions[s].server /\ sessions'[s].config = sessions[s].config
    /\ sessions'[s].state = IF s = x /\ Open(x) THEN "closing" ELSE sessions[s].state
    /\ sessions[s].state # "open" => sessions'[s] = sessions[s]
SessionEnds(x) ==
  sessions'[x] = Gone /\ \A s \in Sessions : s # x => sessions'[s] = sessions[s]
Started(p, ns) ==
  \A m \in Servers :
    disturbed'[m] <=> \/ disturbed[m]
                      \/ m \in ns /\ \/ \E q \in Workers : q # p /\ Active(q, m)
                                     \/ \E c \in Calls : Closing(c, m)

\* The types, entry by entry.
LEMMA Types ==
  ASSUME TypeOK
  PROVE  /\ \A n \in Servers : clients[n] \in Sessions \union {NoSession} /\ override[n] \in BOOLEAN
         /\ \A n \in Servers : records[n].enabled \in BOOLEAN
         /\ \A p \in Workers : /\ op[p].enabled \in BOOLEAN
                               /\ op[p].session \in Sessions \union {NoSession}
                               /\ op[p].waits \in Sessions \union {NoSession}
                               /\ op[p].name \in Servers \union {NoServer}
                               /\ op[p].next \in Servers \union {NoServer}
                               /\ op[p].pc \in {"idle", "closing", "spawning", "opening", "failed"}
                               /\ op[p].kind \in {"none", "sync", "remove", "health"}
         /\ \A c \in Calls : /\ calls[c].session \in Sessions \union {NoSession}
                             /\ calls[c].waits \in Sessions \union {NoSession}
                             /\ calls[c].pc \in {"idle", "flight", "closing"}
         /\ \A s \in Sessions : sessions[s].state \in {"open", "closing", "gone"}
BY DEF TypeOK, RecordType, WorkType, SessionType, CallType

LEMMA SetConnectedDoes ==
  ASSUME TypeOK, NEW n \in Servers, NEW connected \in BOOLEAN, SetConnected(n, connected)
  PROVE  ConnectedGoes(n, connected)
<1>1. CASE records[n].listed
  <2>1. records' = [records EXCEPT ![n].connected = connected]
    BY <1>1 DEF SetConnected
  <2>2. records'[n] = [records[n] EXCEPT !.connected = connected]
    BY <2>1 DEF TypeOK
  <2>3. records'[n].connected = connected
    BY <2>2 DEF TypeOK, RecordType
  <2>4. records'[n].listed = records[n].listed /\ records'[n].enabled = records[n].enabled
    BY <2>2 DEF TypeOK, RecordType
  <2>5. \A m \in Servers : m # n => records'[m] = records[m]
    BY <2>1 DEF TypeOK
  <2> QED BY <1>1, <2>3, <2>4, <2>5 DEF ConnectedGoes
<1>2. CASE ~records[n].listed
  BY <1>2 DEF TypeOK, RecordType, SetConnected, ConnectedGoes
<1> QED BY <1>1, <1>2

LEMMA MeetsDoes ==
  ASSUME TypeOK, NEW n \in Servers, Meets({n}, Workers, {})
  PROVE  \A m \in Servers : disturbed'[m] <=> disturbed[m] \/ (m = n /\ \E q \in Workers : Active(q, n))
<1> SUFFICES ASSUME NEW m \in Servers
             PROVE  disturbed'[m] <=> disturbed[m] \/ (m = n /\ \E q \in Workers : Active(q, n))
  OBVIOUS
<1>1. disturbed'[m] = (disturbed[m] \/ (m \in {n} /\ (\/ \E q \in Workers : Active(q, m)
                                                       \/ \E d \in {} : Closing(d, m))))
  BY DEF Meets
<1> QED BY <1>1

-------------------------------------------------------------------------------
(* Types. *)

LEMMA Attempts ==
  /\ 1 \in 0 .. MaxAttempts /\ 0 \in 0 .. MaxAttempts
  /\ \A k \in 0 .. MaxAttempts : TriesAgain(k) => k + 1 \in 0 .. MaxAttempts
  BY DEF TriesAgain, MaxAttempts
LEMMA IdleTypes == NoOp \in WorkType /\ NoCall \in CallType /\ Gone \in SessionType
  BY Attempts DEF NoOp, NoCall, Gone, WorkType, CallType, SessionType
LEMMA RecordTypes ==
  /\ NotListed \in RecordType
  /\ \A enabled \in BOOLEAN, connected \in BOOLEAN : Record(enabled, connected) \in RecordType
  BY DEF NotListed, Record, RecordType

LEMMA SetConnectedTypes ==
  ASSUME TypeOK, NEW n \in Servers, NEW connected \in BOOLEAN, SetConnected(n, connected)
  PROVE  records' \in [Servers -> RecordType]
<1>1. [records EXCEPT ![n].connected = connected] \in [Servers -> RecordType]
  BY DEF TypeOK, RecordType
<1> QED BY <1>1 DEF TypeOK, SetConnected

LEMMA ClosesTypes ==
  ASSUME TypeOK, NEW s \in Sessions \union {NoSession}, Closes(s)
  PROVE  sessions' \in [Sessions -> SessionType] /\ Awaited(s) \in Sessions \union {NoSession}
<1>1. CASE Open(s)
  BY <1>1 DEF TypeOK, Closes, Awaited, Open, SessionType
<1>2. CASE ~Open(s)
  BY <1>2 DEF TypeOK, Closes, Awaited
<1> QED BY <1>1, <1>2

LEMMA StartSyncTypes ==
  ASSUME TypeOK, NEW p \in Workers, NEW n \in Servers, NEW enabled \in BOOLEAN, NEW config \in Configs,
         NEW rs \in [Servers -> RecordType], StartSync(p, n, enabled, config, rs)
  PROVE  /\ records' \in [Servers -> RecordType]
         /\ sessions' \in [Sessions -> SessionType]
         /\ op' \in [Workers -> WorkType]
<1>1. clients[n] \in Sessions \union {NoSession}
  BY DEF TypeOK
<1>2. sessions' \in [Sessions -> SessionType] /\ Awaited(clients[n]) \in Sessions \union {NoSession}
  BY <1>1, ClosesTypes DEF StartSync
<1>3. records' \in [Servers -> RecordType]
  BY DEF StartSync, Record, RecordType
<1>4. [NoOp EXCEPT !.pc = "closing", !.kind = "sync", !.name = n, !.enabled = enabled,
         !.config = config, !.waits = Awaited(clients[n])] \in WorkType
  BY <1>2, IdleTypes DEF WorkType
<1>5. op' \in [Workers -> WorkType]
  BY <1>4 DEF StartSync, TypeOK
<1> QED BY <1>2, <1>3, <1>5

LEMMA StartRemoveTypes ==
  ASSUME TypeOK, NEW p \in Workers, NEW n \in Servers, NEW next \in Servers \union {NoServer},
         StartRemove(p, n, next)
  PROVE  /\ records' \in [Servers -> RecordType]
         /\ sessions' \in [Sessions -> SessionType]
         /\ op' \in [Workers -> WorkType]
<1>1. clients[n] \in Sessions \union {NoSession}
  BY DEF TypeOK
<1>2. sessions' \in [Sessions -> SessionType] /\ Awaited(clients[n]) \in Sessions \union {NoSession}
  BY <1>1, ClosesTypes DEF StartRemove
<1>4. [NoOp EXCEPT !.pc = "closing", !.kind = "remove", !.name = n, !.next = next,
         !.waits = Awaited(clients[n])] \in WorkType
  BY <1>2, IdleTypes DEF WorkType
<1>5. op' \in [Workers -> WorkType]
  BY <1>4 DEF StartRemove, TypeOK
<1> QED BY <1>2, <1>5 DEF StartRemove, TypeOK

LEMMA MeetsTypes ==
  ASSUME TypeOK, NEW ns, NEW ps, NEW cs, Meets(ns, ps, cs)
  PROVE  disturbed' \in [Servers -> BOOLEAN]
  BY DEF TypeOK, Meets

LEMMA ConfigTypes ==
  ASSUME TypeOK, NEW n \in Servers, Configured(n)
  PROVE  Config(n) \in Configs
  BY DEF TypeOK, Configured, Config

LEMMA AskTypes ==
  ASSUME TypeOK, NEW p \in Workers, NEW n \in Servers,
         \/ \E config \in Configs :
              \/ Save(p, n, config)
              \/ \E previous \in Servers : Rename(p, previous, n, config)
         \/ Delete(p, n)
         \/ \E enabled \in BOOLEAN : SetEnabled(p, n, enabled)
         \/ Reload(p, n)
         \/ HealthCheck(p, n)
  PROVE  TypeOK'
<1> USE DEF Asked, Begins, store
<1>1. ASSUME NEW config \in Configs, Save(p, n, config) PROVE TypeOK'
  <2>1. memory' \in [Servers -> Seq(Configs)] /\ file' \in [Servers -> Configs \union {NoConfig}]
    BY <1>1 DEF Save, TypeOK
  <2>2. records \in [Servers -> RecordType] /\ override[n] \in BOOLEAN
    BY DEF TypeOK
  <2>3. StartSync(p, n, override[n], config, records) /\ Meets({n}, Workers \ {p}, Calls)
    BY <1>1 DEF Save
  <2>4. /\ records' \in [Servers -> RecordType] /\ sessions' \in [Sessions -> SessionType]
        /\ op' \in [Workers -> WorkType]
    BY <2>2, <2>3, StartSyncTypes
  <2>5. disturbed' \in [Servers -> BOOLEAN]
    BY <2>3, MeetsTypes
  <2> QED BY <1>1, <2>1, <2>4, <2>5 DEF Save, TypeOK
<1>2. ASSUME NEW config \in Configs, NEW previous \in Servers, Rename(p, previous, n, config)
      PROVE  TypeOK'
  <2>1. file' \in [Servers -> Configs \union {NoConfig}]
    BY <1>2 DEF Rename, TypeOK
  <2>2. Append(memory[n], config) \in Seq(Configs) /\ <<>> \in Seq(Configs)
    BY DEF TypeOK
  <2>3. memory' \in [Servers -> Seq(Configs)]
    BY <1>2, <2>2 DEF Rename, TypeOK
  <2> QED BY <1>2, <2>1, <2>3, StartRemoveTypes, MeetsTypes DEF Rename, TypeOK
<1>3. CASE Delete(p, n)
  <2>1. memory' \in [Servers -> Seq(Configs)] /\ file' \in [Servers -> Configs \union {NoConfig}]
    BY <1>3 DEF Delete, TypeOK
  <2> QED BY <1>3, <2>1, StartRemoveTypes, MeetsTypes DEF Delete, TypeOK
<1>4. ASSUME NEW enabled \in BOOLEAN, SetEnabled(p, n, enabled) PROVE TypeOK'
  <2>1. override' \in [Servers -> BOOLEAN]
    BY <1>4 DEF SetEnabled, TypeOK
  <2>2. records \in [Servers -> RecordType]
    BY DEF TypeOK
  <2>3. CASE Configured(n)
    <3>1. /\ StartSync(p, n, enabled, Config(n), records)
          /\ Meets({n}, Workers \ {p}, Calls) /\ Config(n) \in Configs
      BY <1>4, <2>3, ConfigTypes DEF SetEnabled
    <3>2. /\ records' \in [Servers -> RecordType] /\ sessions' \in [Sessions -> SessionType]
          /\ op' \in [Workers -> WorkType]
      BY <2>2, <3>1, StartSyncTypes
    <3>3. disturbed' \in [Servers -> BOOLEAN]
      BY <3>1, MeetsTypes
    <3> QED BY <1>4, <2>1, <3>2, <3>3 DEF SetEnabled, TypeOK
  <2>4. CASE ~Configured(n)
    BY <1>4, <2>1, <2>4, MeetsTypes DEF SetEnabled, TypeOK
  <2> QED BY <2>3, <2>4
<1>5. CASE Reload(p, n)
  <2>2. records \in [Servers -> RecordType] /\ override[n] \in BOOLEAN
    BY DEF TypeOK
  <2>3. /\ StartSync(p, n, override[n], Config(n), records)
        /\ Meets({n}, Workers \ {p}, Calls) /\ Config(n) \in Configs
    BY <1>5, ConfigTypes DEF Reload
  <2>4. /\ records' \in [Servers -> RecordType] /\ sessions' \in [Sessions -> SessionType]
        /\ op' \in [Workers -> WorkType]
    BY <2>2, <2>3, StartSyncTypes
  <2>5. disturbed' \in [Servers -> BOOLEAN]
    BY <2>3, MeetsTypes
  <2> QED BY <1>5, <2>4, <2>5 DEF Reload, TypeOK
<1>6. CASE HealthCheck(p, n)
  <2>1. records[n].enabled \in BOOLEAN
    BY DEF TypeOK, RecordType
  <2>2. [NoOp EXCEPT !.pc = "spawning", !.kind = "health", !.name = n, !.attempt = 1,
           !.enabled = records[n].enabled, !.config = Config(n)] \in WorkType
    BY <1>6, <2>1, ConfigTypes, IdleTypes, Attempts DEF HealthCheck, WorkType
  <2>3. op' \in [Workers -> WorkType]
    BY <1>6, <2>2 DEF HealthCheck, TypeOK
  <2> QED BY <1>6, <2>3, MeetsTypes DEF HealthCheck, TypeOK
<1> QED BY <1>1, <1>2, <1>3, <1>4, <1>5, <1>6

LEMMA BootTypes ==
  ASSUME TypeOK, NEW n \in todo, BootVisits(n) \/ BootFails(n)
  PROVE  TypeOK'
<1>0. n \in Servers /\ Boot \in Workers
  BY DEF TypeOK
<1>1. CASE BootVisits(n)
  <2>2. records \in [Servers -> RecordType] /\ override[n] \in BOOLEAN
    BY <1>0 DEF TypeOK
  <2>3. /\ StartSync(Boot, n, override[n], Config(n), records)
        /\ Meets({n}, Workers \ {Boot}, Calls) /\ Config(n) \in Configs
    BY <1>0, <1>1, ConfigTypes DEF BootVisits, Begins
  <2>4. /\ records' \in [Servers -> RecordType] /\ sessions' \in [Sessions -> SessionType]
        /\ op' \in [Workers -> WorkType]
    BY <1>0, <2>2, <2>3, StartSyncTypes
  <2>5. disturbed' \in [Servers -> BOOLEAN]
    BY <2>3, MeetsTypes
  <2> QED BY <1>1, <2>4, <2>5 DEF BootVisits, TypeOK, store
<1>2. CASE BootFails(n)
  <2>1. op' \in [Workers -> WorkType]
    <3>0. op[Boot] \in WorkType
      BY <1>0 DEF TypeOK
    <3>1. [op[Boot] EXCEPT !.pc = "failed"] \in WorkType
      BY <3>0 DEF WorkType
    <3> QED BY <1>0, <1>2, <3>1 DEF BootFails, TypeOK
  <2> QED BY <1>2, <2>1 DEF BootFails, TypeOK, store
<1> QED BY <1>1, <1>2

LEMMA WorkTypes ==
  ASSUME TypeOK, OpShape, NEW p \in Workers, Works(p)
  PROVE  TypeOK'
<1> USE DEF store
<1>0. /\ op[p].name \in Servers \union {NoServer} /\ op[p].next \in Servers \union {NoServer}
      /\ op[p].session \in Sessions \union {NoSession} /\ op[p].enabled \in BOOLEAN
      /\ op[p].config \in Configs \union {NoConfig} /\ op[p].attempt \in 0 .. MaxAttempts
      /\ op[p].pc \in {"closing", "spawning", "opening"} => op[p].name \in Servers
      /\ op[p] \in WorkType
  BY DEF TypeOK, OpShape, Working, WorkType
<1>1. CASE SyncGoesOn(p)
  <2>1. [op[p] EXCEPT !.pc = "spawning", !.waits = NoSession, !.attempt = 1] \in WorkType
    BY <1>0, Attempts DEF WorkType
  <2>2. op' \in [Workers -> WorkType]
    BY <1>1, <2>1, IdleTypes DEF SyncGoesOn, TypeOK
  <2>3. clients' \in [Servers -> Sessions \union {NoSession}]
    BY <1>1 DEF SyncGoesOn, TypeOK
  <2>4. records' \in [Servers -> RecordType]
    BY <1>0, <1>1, SetConnectedTypes DEF SyncGoesOn
  <2> QED BY <1>1, <2>2, <2>3, <2>4 DEF SyncGoesOn, TypeOK
<1>2. CASE RemoveGoesOn(p)
  <2>1. clients' \in [Servers -> Sessions \union {NoSession}] /\ override' \in [Servers -> BOOLEAN]
    BY <1>2 DEF RemoveGoesOn, TypeOK
  <2>2. [records EXCEPT ![op[p].name] = NotListed] \in [Servers -> RecordType]
    BY RecordTypes DEF TypeOK
  <2>3. CASE op[p].next # NoServer /\ memory[op[p].next] # <<>>
    <3>1. op[p].next \in Servers /\ Configured(op[p].next) /\ override[op[p].next] \in BOOLEAN
      BY <1>0, <2>3 DEF TypeOK, Configured
    <3>2. StartSync(p, op[p].next, override[op[p].next], Config(op[p].next),
                    [records EXCEPT ![op[p].name] = NotListed])
      BY <1>2, <2>3 DEF RemoveGoesOn
    <3>3. Config(op[p].next) \in Configs
      BY <3>1, ConfigTypes
    <3>4. /\ records' \in [Servers -> RecordType] /\ sessions' \in [Sessions -> SessionType]
          /\ op' \in [Workers -> WorkType]
      <4>1. PICK n \in Servers, on \in BOOLEAN, config \in Configs, rs \in [Servers -> RecordType] :
              StartSync(p, n, on, config, rs)
        BY <2>2, <3>1, <3>2, <3>3
      <4> QED BY <4>1, StartSyncTypes
    <3> QED BY <1>2, <2>1, <3>4 DEF RemoveGoesOn, TypeOK
  <2>4. CASE ~(op[p].next # NoServer /\ memory[op[p].next] # <<>>)
    <3>1. records' \in [Servers -> RecordType] /\ sessions' = sessions
      BY <1>2, <2>2, <2>4 DEF RemoveGoesOn
    <3>2. op' = [op EXCEPT ![p] = NoOp]
      BY <1>2, <2>4 DEF RemoveGoesOn
    <3>3. op' \in [Workers -> WorkType]
      BY <3>2, IdleTypes DEF TypeOK
    <3> QED BY <1>2, <2>1, <3>1, <3>3 DEF RemoveGoesOn, TypeOK
  <2> QED BY <2>3, <2>4
<1>3. CASE Spawns(p)
  <2>1. PICK s \in Sessions :
          /\ sessions' = [sessions EXCEPT ![s] =
                [state |-> "open", server |-> op[p].name, config |-> op[p].config]]
          /\ op' = [op EXCEPT ![p].pc = "opening", ![p].session = s]
    BY <1>3 DEF Spawns
  <2>2. sessions' \in [Sessions -> SessionType]
    BY <1>0, <2>1 DEF TypeOK, SessionType
  <2>3. op' \in [Workers -> WorkType]
    <3>1. [op[p] EXCEPT !.pc = "opening", !.session = s] \in WorkType
      BY <1>0 DEF WorkType
    <3>2. op' = [op EXCEPT ![p] = [op[p] EXCEPT !.pc = "opening", !.session = s]]
      BY <1>0, <2>1 DEF TypeOK, WorkType
    <3> QED BY <3>1, <3>2 DEF TypeOK
  <2> QED BY <1>3, <2>2, <2>3 DEF Spawns, TypeOK
<1>4. CASE AttemptFails(p)
  <2>1. sessions' \in [Sessions -> SessionType]
    BY <1>4, IdleTypes DEF AttemptFails, EndsAttempt, TypeOK
  <2>2. CASE TriesAgain(op[p].attempt)
    <3>1. op' \in [Workers -> WorkType]
      <4>1. PICK k \in 0 .. MaxAttempts : k = op[p].attempt + 1
        BY <1>0, <2>2, Attempts
      <4>2. [op[p] EXCEPT !.pc = "spawning", !.session = NoSession, !.attempt = k] \in WorkType
        BY <1>0 DEF WorkType
      <4>3. op' = [op EXCEPT ![p] = [op[p] EXCEPT !.pc = "spawning", !.session = NoSession, !.attempt = k]]
        BY <1>4, <2>2, <4>1 DEF AttemptFails, TypeOK
      <4> QED BY <4>2, <4>3 DEF TypeOK
    <3> QED BY <1>4, <2>1, <2>2, <3>1 DEF AttemptFails, TypeOK
  <2>3. CASE ~TriesAgain(op[p].attempt)
    <3>1. op' \in [Workers -> WorkType]
      BY <1>4, <2>3, IdleTypes DEF AttemptFails, TypeOK
    <3>2. records' \in [Servers -> RecordType]
      <4>1. CASE op[p].kind = "sync"
        BY <1>4, <2>3, <4>1, RecordTypes DEF AttemptFails, TypeOK
      <4>2. CASE op[p].kind # "sync"
        BY <1>0, <1>4, <2>3, <4>2, SetConnectedTypes DEF AttemptFails
      <4> QED BY <4>1, <4>2
    <3> QED BY <1>4, <2>1, <3>1, <3>2 DEF AttemptFails, TypeOK
  <2> QED BY <2>2, <2>3
<1>5. CASE SyncConnects(p)
  <2>1. clients' \in [Servers -> Sessions \union {NoSession}] /\ op' \in [Workers -> WorkType]
    BY <1>0, <1>5, IdleTypes DEF SyncConnects, TypeOK
  <2>2. records' \in [Servers -> RecordType]
    BY <1>5, RecordTypes DEF SyncConnects, TypeOK
  <2> QED BY <1>5, <2>1, <2>2 DEF SyncConnects, TypeOK
<1>6. CASE HealthConnects(p)
  <2>1. PICK s : /\ s = IF op[p].enabled THEN clients[op[p].name] ELSE op[p].session
                 /\ Closes(s)
                 /\ op' = [op EXCEPT ![p].pc = "closing", ![p].waits = Awaited(s)]
    BY <1>6 DEF HealthConnects
  <2>2. s \in Sessions \union {NoSession}
    BY <1>0, <1>6, <2>1 DEF HealthConnects, TypeOK
  <2>3. sessions' \in [Sessions -> SessionType] /\ Awaited(s) \in Sessions \union {NoSession}
    BY <2>1, <2>2, ClosesTypes
  <2>4. [op[p] EXCEPT !.pc = "closing", !.waits = Awaited(s)] \in WorkType
    BY <1>0, <2>3 DEF WorkType
  <2>5. op' = [op EXCEPT ![p] = [op[p] EXCEPT !.pc = "closing", !.waits = Awaited(s)]]
    BY <2>1 DEF TypeOK
  <2>6. op' \in [Workers -> WorkType]
    BY <2>4, <2>5 DEF TypeOK
  <2> QED BY <1>6, <2>3, <2>6 DEF HealthConnects, TypeOK
<1>7. CASE HealthEnds(p)
  <2>1. clients' \in [Servers -> Sessions \union {NoSession}] /\ op' \in [Workers -> WorkType]
    BY <1>0, <1>7, IdleTypes DEF HealthEnds, TypeOK
  <2>2. records' \in [Servers -> RecordType]
    BY <1>0, <1>7, RecordTypes DEF HealthEnds, Checked, TypeOK
  <2> QED BY <1>7, <2>1, <2>2 DEF HealthEnds, TypeOK
<1> QED BY <1>1, <1>2, <1>3, <1>4, <1>5, <1>6, <1>7 DEF Works

LEMMA CallsTypes ==
  ASSUME TypeOK, CallShape, NEW c \in Calls, CallsTool(c)
  PROVE  TypeOK'
<1> USE DEF store
<1>0. calls[c].pc # "idle" => calls[c].name \in Servers
  BY DEF CallShape
<1>1. ASSUME NEW n \in Servers, CallStarts(c, n) PROVE TypeOK'
  <2>1. calls' \in [Calls -> CallType]
    <3>1. [NoCall EXCEPT !.pc = "flight", !.name = n, !.session = clients[n]] \in CallType
      BY IdleTypes DEF CallType, TypeOK
    <3> QED BY <1>1, <3>1 DEF CallStarts, TypeOK
  <2> QED BY <1>1, <2>1 DEF CallStarts, TypeOK
<1>2. ASSUME NEW n \in Servers, CallFindsNoClient(c, n) PROVE TypeOK'
  BY <1>2, SetConnectedTypes DEF CallFindsNoClient, TypeOK
<1>3. CASE CallSucceeds(c)
  <2>1. calls' \in [Calls -> CallType]
    BY <1>3, IdleTypes DEF CallSucceeds, TypeOK
  <2>2. records' \in [Servers -> RecordType]
    BY <1>0, <1>3, SetConnectedTypes DEF CallSucceeds
  <2> QED BY <1>3, <2>1, <2>2 DEF CallSucceeds, TypeOK
<1>4. CASE CallFails(c)
  <2>1. PICK n \in Servers :
          /\ Meets({n}, Workers, {}) /\ Closes(clients[n])
          /\ calls' = [calls EXCEPT ![c] = [NoCall EXCEPT
                        !.pc = "closing", !.name = n, !.waits = Awaited(clients[n])]]
    BY <1>0, <1>4 DEF CallFails
  <2>2. clients[n] \in Sessions \union {NoSession}
    BY DEF TypeOK
  <2>3. sessions' \in [Sessions -> SessionType] /\ Awaited(clients[n]) \in Sessions \union {NoSession}
    BY <2>1, <2>2, ClosesTypes
  <2>4. [NoCall EXCEPT !.pc = "closing", !.name = n, !.waits = Awaited(clients[n])] \in CallType
    BY <2>3, IdleTypes DEF CallType
  <2>5. calls' \in [Calls -> CallType]
    BY <2>1, <2>4 DEF TypeOK
  <2>6. disturbed' \in [Servers -> BOOLEAN]
    BY <2>1, MeetsTypes
  <2> QED BY <1>4, <2>3, <2>5, <2>6 DEF CallFails, TypeOK
<1>5. CASE CallEnds(c)
  <2>1. calls' \in [Calls -> CallType] /\ clients' \in [Servers -> Sessions \union {NoSession}]
    BY <1>5, IdleTypes DEF CallEnds, TypeOK
  <2>2. records' \in [Servers -> RecordType]
    BY <1>0, <1>5, SetConnectedTypes DEF CallEnds
  <2> QED BY <1>5, <2>1, <2>2 DEF CallEnds, TypeOK
<1> QED BY <1>1, <1>2, <1>3, <1>4, <1>5 DEF CallsTool

LEMMA EndTypes ==
  ASSUME TypeOK, NEW s \in Sessions, ProcessEnds(s)
  PROVE  TypeOK'
  BY IdleTypes DEF ProcessEnds, TypeOK, store

-------------------------------------------------------------------------------
(* The actions. *)

LEMMA SaveKeeps ==
  ASSUME TypeOK, Tables, NEW p \in Workers, NEW n \in Servers, NEW config \in Configs,
         Save(p, n, config)
  PROVE  Tables'
<1> USE DEF Tables
<1>1. op[p].pc = "idle"
  BY DEF Save, Asked, Begins, StartSync
<1>2. OpGoes(p, "closing", "sync", n, NoServer, override[n], config, NoSession, Awaited(clients[n]))
  BY <1>1 DEF Save, Asked, Begins, StartSync, NoOp, TypeOK, WorkType, OpGoes
<1>3. SessionCloses(clients[n])
  BY <1>1
  DEF Save, Asked, Begins, StartSync, Closes, Open, Gone, TypeOK, SessionType, SessionCloses
<1>4. RecordGoes(n, TRUE, override[n], FALSE)
  BY <1>1 DEF Save, Asked, Begins, StartSync, Record, NotListed, TypeOK, RecordType, RecordGoes
<1>5. MemoryGoes(n, <<config>>)
  BY <1>1 DEF Save, Asked, Begins, StartSync, TypeOK, MemoryGoes
<1>6. file'[n] = config /\ \A m \in Servers : m # n => file'[m] = file[m]
  BY <1>1 DEF Save, Asked, Begins, StartSync, TypeOK
<1>7. Started(p, {n})
  BY <1>1 DEF Save, Asked, Begins, StartSync, Meets, Started
<1>8. override' = override /\ clients' = clients /\ todo' = todo /\ calls' = calls
  BY <1>1 DEF Save, Asked, Begins, StartSync, store
<1>9. OpShape'
  BY <1>1, <1>2, <1>3, Types DEF OpShape, Working, Open, CallShape, OpGoes, SessionCloses, Awaited
<1>10. CallShape'
  BY <1>8 DEF CallShape
<1>11. StoreShape'
  BY <1>3, <1>4, <1>5, <1>6 DEF StoreShape, RecordGoes, MemoryGoes, SessionCloses
<1>12. KeptInv'
  BY <1>1, <1>2, <1>3, <1>8, Types
  DEF KeptInv, Runs, OpShape, CallShape, Working, OpGoes, SessionCloses, Awaited
<1>13. WaitInv'
  BY <1>1, <1>2, <1>3, <1>8, Types
  DEF WaitInv, OpShape, CallShape, Open, Runs, OpGoes, SessionCloses, Awaited
<1>14. MeetInv'
  BY <1>2, <1>7, <1>8 DEF MeetInv, Active, Closing, OpGoes, Started
<1>15. WorkInv'
  <2> SUFFICES ASSUME NEW q \in Workers, Working(q)'
               PROVE  /\ ~disturbed'[op'[q].name] => AtWork(q)'
                      /\ op'[q].next # NoServer => disturbed'[op'[q].next] \/ memory'[op'[q].next] # <<>>
    BY DEF WorkInv, Configured
  <2>0. <<config>> # <<>> /\ Head(<<config>>) = config
    OBVIOUS
  <2>1. CASE q = p
    BY <2>0, <2>1, <1>1, <1>2, <1>3, <1>4, <1>5, <1>6, <1>7, <1>8 DEF AtWork, Configured, Config, OpGoes, RecordGoes, MemoryGoes
  <2>2. CASE q # p
    <3>1. op'[q] = op[q] /\ Working(q)
      BY <1>1, <1>2, <1>3, <1>4, <1>5, <1>6, <1>7, <1>8, <2>2 DEF OpGoes, Working
    <3>2. \A m \in Servers : Configured(m) => memory'[m] # <<>>
      BY <2>0, <1>1, <1>2, <1>3, <1>4, <1>5, <1>6, <1>7, <1>8 DEF Configured, MemoryGoes
    <3>3. op[q].name = n => disturbed'[n]
      BY <1>1, <1>2, <1>3, <1>4, <1>5, <1>6, <1>7, <1>8, <2>2, <3>1 DEF Started, Active, Working
    <3>4. ~disturbed'[op[q].name] => AtWork(q)'
      BY <1>1, <1>2, <1>3, <1>4, <1>5, <1>6, <1>7, <1>8, <3>1, <3>3
         DEF WorkInv, AtWork, Configured, Config, Started, OpShape, RecordGoes, MemoryGoes
    <3>5. op[q].next # NoServer => disturbed'[op[q].next] \/ memory'[op[q].next] # <<>>
      BY <1>1, <1>2, <1>3, <1>4, <1>5, <1>6, <1>7, <1>8, <3>1, <3>2, Types DEF WorkInv, Started
    <3> QED BY <3>1, <3>4, <3>5 DEF Configured
  <2> QED BY <2>1, <2>2
<1>16. DropInv'
  BY <1>1, <1>2, <1>3, <1>7, <1>8, Types
  DEF DropInv, OpShape, MeetInv, WorkInv, AtWork, Active, Closing, Working, Open, CallShape,
      OpGoes, SessionCloses, Started, Awaited
<1>17. CallInv'
  BY <1>1, <1>3, <1>7, <1>8, Types
  DEF CallInv, MeetInv, Active, Closing, CallShape, OpShape, Working, Open, SessionCloses,
      Started, Awaited
<1>18. FlightInv'
  BY <1>1, <1>3, <1>7, <1>8, Types
  DEF FlightInv, CallInv, DropInv, KeptInv, WaitInv, MeetInv, Active, Closing, CallShape,
      OpShape, Working, Open, Runs, SessionCloses, Started, Awaited
<1>19. ClientInv'
  BY <1>1, <1>3, <1>5, <1>7, <1>8, Types
  DEF ClientInv, MeetInv, WorkInv, AtWork, DropInv, CallInv, KeptInv, Active, Closing, OpShape,
      Working, Open, Runs, Configured, Config, MemoryGoes, SessionCloses, Started, Awaited
<1>20. RestInv'
  BY <1>1, <1>2, <1>4, <1>5, <1>7, <1>8, Types
  DEF RestInv, StoreShape, DropInv, WorkInv, AtWork, MeetInv, FlightInv, Quiet, Busy, Active,
      Closing, OpShape, CallShape, Working, Configured, Runs, OpGoes, RecordGoes, MemoryGoes,
      Started, Awaited
<1>21. NoProcessIsLost'
  BY <1>1, <1>2, <1>3, <1>7, <1>8, Types
  DEF NoProcessIsLost, StoreShape, DropInv, CallInv, KeptInv, MeetInv, Active, Closing, OpShape,
      CallShape, Working, Open, Runs, OpGoes, SessionCloses, Started, Awaited
<1> QED BY <1>9, <1>10, <1>11, <1>12, <1>13, <1>14, <1>15, <1>16, <1>17, <1>18, <1>19, <1>20, <1>21

LEMMA RenameKeeps ==
  ASSUME TypeOK, Tables, NEW p \in Workers, NEW previous \in Servers, NEW n \in Servers, NEW config \in Configs,
         Rename(p, previous, n, config)
  PROVE  Tables'
<1> USE DEF Tables
<1>1. op[p].pc = "idle" /\ previous # n
  BY DEF Rename, Asked, Begins, StartRemove
<1>2. OpGoes(p, "closing", "remove", previous, n, FALSE, NoConfig, NoSession, Awaited(clients[previous]))
  BY <1>1 DEF Rename, Asked, Begins, StartRemove, NoOp, TypeOK, WorkType, OpGoes
<1>3. SessionCloses(clients[previous])
  BY <1>1
  DEF Rename, Asked, Begins, StartRemove, Closes, Open, Gone, TypeOK, SessionType, SessionCloses
<1>4. memory'[n] = Append(memory[n], config) /\ memory'[previous] = <<>>
  BY <1>1 DEF Rename, Asked, Begins, StartRemove, TypeOK
<1>5. \A m \in Servers : m \notin {n, previous} => memory'[m] = memory[m] /\ file'[m] = file[m]
  BY <1>1 DEF Rename, Asked, Begins, StartRemove, TypeOK
<1>6. file'[n] = config /\ file'[previous] = NoConfig
  BY <1>1 DEF Rename, Asked, Begins, StartRemove, TypeOK
<1>7. Started(p, {n, previous})
  BY <1>1 DEF Rename, Asked, Begins, StartRemove, Meets, Started
<1>8. override' = override /\ clients' = clients /\ todo' = todo /\ calls' = calls /\ records' = records
  BY <1>1 DEF Rename, Asked, Begins, StartRemove, store
<1>9. OpShape'
  BY <1>1, <1>2, <1>3, Types DEF OpShape, Working, Open, CallShape, OpGoes, SessionCloses, Awaited
<1>10. CallShape'
  BY <1>8 DEF CallShape
<1>11. StoreShape'
  BY <1>3, <1>4, <1>5, <1>6, <1>8 DEF StoreShape, SessionCloses
<1>12. KeptInv'
  BY <1>1, <1>2, <1>3, <1>8, Types
  DEF KeptInv, Runs, OpShape, CallShape, Working, OpGoes, SessionCloses, Awaited
<1>13. WaitInv'
  BY <1>1, <1>2, <1>3, <1>8, Types
  DEF WaitInv, OpShape, CallShape, Open, Runs, OpGoes, SessionCloses, Awaited
<1>14. MeetInv'
  BY <1>2, <1>7, <1>8 DEF MeetInv, Active, Closing, OpGoes, Started
<1>15. WorkInv'
  BY <1>1, <1>2, <1>4, <1>5, <1>7, <1>8, Types
  DEF WorkInv, AtWork, OpShape, MeetInv, RestInv, Quiet, Busy, Active, Closing, Working,
      Configured, Config, OpGoes, Started, Awaited
<1>16. DropInv'
  BY <1>1, <1>2, <1>3, <1>7, <1>8, Types
  DEF DropInv, OpShape, MeetInv, WorkInv, AtWork, Active, Closing, Working, Open, CallShape,
      OpGoes, SessionCloses, Started, Awaited
<1>17. CallInv'
  BY <1>1, <1>3, <1>7, <1>8, Types
  DEF CallInv, MeetInv, Active, Closing, CallShape, OpShape, Working, Open, SessionCloses,
      Started, Awaited
<1>18. FlightInv'
  BY <1>1, <1>3, <1>7, <1>8, Types
  DEF FlightInv, CallInv, DropInv, KeptInv, WaitInv, MeetInv, Active, Closing, CallShape,
      OpShape, Working, Open, Runs, SessionCloses, Started, Awaited
<1>19. ClientInv'
  BY <1>1, <1>3, <1>4, <1>5, <1>7, <1>8, Types
  DEF ClientInv, MeetInv, WorkInv, AtWork, DropInv, CallInv, KeptInv, Active, Closing, OpShape,
      Working, Open, Runs, Configured, Config, SessionCloses, Started, Awaited
<1>20. RestInv'
  BY <1>1, <1>2, <1>4, <1>5, <1>7, <1>8, Types
  DEF RestInv, StoreShape, DropInv, WorkInv, AtWork, MeetInv, FlightInv, Quiet, Busy, Active,
      Closing, OpShape, CallShape, Working, Configured, Runs, OpGoes, Started, Awaited
<1>21. NoProcessIsLost'
  <2> SUFFICES ASSUME NEW s \in Sessions, Open(s)'
               PROVE  \/ \E m \in Servers : clients'[m] = s
                      \/ \E q \in Workers : op'[q].session = s
                      \/ disturbed'[sessions'[s].server]
    BY DEF NoProcessIsLost
  <2>1. Open(s) /\ sessions'[s].server = sessions[s].server /\ sessions[s].server \in Servers
    BY <1>1, <1>2, <1>3, <1>4, <1>5, <1>6, <1>7, <1>8 DEF SessionCloses, Open, StoreShape
  <2>2. disturbed[sessions[s].server] => disturbed'[sessions[s].server]
    BY <1>1, <1>2, <1>3, <1>4, <1>5, <1>6, <1>7, <1>8, <2>1 DEF Started
  <2>3. \A q \in Workers : op[q].session = s => op'[q].session = s
    BY <1>1, <1>2, <1>3, <1>4, <1>5, <1>6, <1>7, <1>8 DEF OpGoes, OpShape
  <2> QED BY <1>1, <1>2, <1>3, <1>4, <1>5, <1>6, <1>7, <1>8, <2>1, <2>2, <2>3 DEF NoProcessIsLost
<1> QED BY <1>9, <1>10, <1>11, <1>12, <1>13, <1>14, <1>15, <1>16, <1>17, <1>18, <1>19, <1>20, <1>21

LEMMA DeleteKeeps ==
  ASSUME TypeOK, Tables, NEW p \in Workers, NEW n \in Servers,
         Delete(p, n)
  PROVE  Tables'
<1> USE DEF Tables
<1>1. op[p].pc = "idle"
  BY DEF Delete, Asked, Begins, StartRemove
<1>2. OpGoes(p, "closing", "remove", n, NoServer, FALSE, NoConfig, NoSession, Awaited(clients[n]))
  BY <1>1 DEF Delete, Asked, Begins, StartRemove, NoOp, TypeOK, WorkType, OpGoes
<1>3. SessionCloses(clients[n])
  BY <1>1
  DEF Delete, Asked, Begins, StartRemove, Closes, Open, Gone, TypeOK, SessionType, SessionCloses
<1>4. MemoryGoes(n, <<>>)
  BY <1>1 DEF Delete, Asked, Begins, StartRemove, TypeOK, MemoryGoes
<1>5. \A m \in Servers : m # n => file'[m] = file[m]
  BY <1>1 DEF Delete, Asked, Begins, StartRemove, TypeOK
<1>6. Started(p, {n})
  BY <1>1 DEF Delete, Asked, Begins, StartRemove, Meets, Started
<1>7. override' = override /\ clients' = clients /\ todo' = todo /\ calls' = calls /\ records' = records
  BY <1>1 DEF Delete, Asked, Begins, StartRemove, store
<1>8. OpShape'
  BY <1>1, <1>2, <1>3, Types DEF OpShape, Working, Open, CallShape, OpGoes, SessionCloses, Awaited
<1>9. CallShape'
  BY <1>7 DEF CallShape
<1>10. StoreShape'
  BY <1>3, <1>4, <1>5, <1>7 DEF StoreShape, MemoryGoes, SessionCloses
<1>11. KeptInv'
  BY <1>1, <1>2, <1>3, <1>7, Types
  DEF KeptInv, Runs, OpShape, CallShape, Working, OpGoes, SessionCloses, Awaited
<1>12. WaitInv'
  BY <1>1, <1>2, <1>3, <1>7, Types
  DEF WaitInv, OpShape, CallShape, Open, Runs, OpGoes, SessionCloses, Awaited
<1>13. MeetInv'
  BY <1>2, <1>6, <1>7 DEF MeetInv, Active, Closing, OpGoes, Started
<1>14. WorkInv'
  BY <1>1, <1>2, <1>4, <1>6, <1>7, Types
  DEF WorkInv, AtWork, OpShape, MeetInv, RestInv, Quiet, Busy, Active, Closing, Working,
      Configured, Config, OpGoes, MemoryGoes, Started, Awaited
<1>15. DropInv'
  BY <1>1, <1>2, <1>3, <1>6, <1>7, Types
  DEF DropInv, OpShape, MeetInv, WorkInv, AtWork, Active, Closing, Working, Open, CallShape,
      OpGoes, SessionCloses, Started, Awaited
<1>16. CallInv'
  BY <1>1, <1>3, <1>6, <1>7, Types
  DEF CallInv, MeetInv, Active, Closing, CallShape, OpShape, Working, Open, SessionCloses,
      Started, Awaited
<1>17. FlightInv'
  BY <1>1, <1>3, <1>6, <1>7, Types
  DEF FlightInv, CallInv, DropInv, KeptInv, WaitInv, MeetInv, Active, Closing, CallShape,
      OpShape, Working, Open, Runs, SessionCloses, Started, Awaited
<1>18. ClientInv'
  BY <1>1, <1>3, <1>4, <1>6, <1>7, Types
  DEF ClientInv, MeetInv, WorkInv, AtWork, DropInv, CallInv, KeptInv, Active, Closing, OpShape,
      Working, Open, Runs, Configured, Config, MemoryGoes, SessionCloses, Started, Awaited
<1>19. RestInv'
  BY <1>1, <1>2, <1>4, <1>6, <1>7, Types
  DEF RestInv, StoreShape, DropInv, WorkInv, AtWork, MeetInv, FlightInv, Quiet, Busy, Active,
      Closing, OpShape, CallShape, Working, Configured, Runs, OpGoes, MemoryGoes, Started,
      Awaited
<1>20. NoProcessIsLost'
  BY <1>1, <1>2, <1>3, <1>6, <1>7, Types
  DEF NoProcessIsLost, StoreShape, DropInv, CallInv, KeptInv, MeetInv, Active, Closing, OpShape,
      CallShape, Working, Open, Runs, OpGoes, SessionCloses, Started, Awaited
<1> QED BY <1>8, <1>9, <1>10, <1>11, <1>12, <1>13, <1>14, <1>15, <1>16, <1>17, <1>18, <1>19, <1>20

LEMMA SetEnabledOnKeeps ==
  ASSUME TypeOK, Tables, NEW p \in Workers, NEW n \in Servers, NEW enabled \in BOOLEAN,
         SetEnabled(p, n, enabled), Configured(n)
  PROVE  Tables'
<1> USE DEF Tables
<1>a. StartSync(p, n, enabled, Config(n), records)
  BY DEF SetEnabled
<1>1. op[p].pc = "idle"
  BY DEF SetEnabled, Asked, Begins, StartSync
<1>2. OpGoes(p, "closing", "sync", n, NoServer, enabled, Config(n), NoSession, Awaited(clients[n]))
  BY <1>1, <1>a DEF StartSync, NoOp, TypeOK, WorkType, OpGoes
<1>3. SessionCloses(clients[n])
  BY <1>1, <1>a DEF StartSync, Closes, Open, Gone, TypeOK, SessionType, SessionCloses
<1>4. RecordGoes(n, TRUE, enabled, FALSE)
  BY <1>1, <1>a DEF StartSync, Record, NotListed, TypeOK, RecordType, RecordGoes
<1>5. OverrideGoes(n, enabled)
  BY <1>1 DEF SetEnabled, Asked, Begins, StartSync, TypeOK, OverrideGoes
<1>6. Config(n) \in Configs
  BY <1>1 DEF SetEnabled, Asked, Begins, StartSync, TypeOK, Configured, Config
<1>7. Started(p, {n})
  BY <1>1 DEF SetEnabled, Asked, Begins, StartSync, Meets, Started
<1>8. memory' = memory /\ file' = file /\ clients' = clients /\ todo' = todo /\ calls' = calls
  BY <1>1 DEF SetEnabled, Asked, Begins, StartSync, store
<1>9. OpShape'
  BY <1>1, <1>2, <1>3, <1>6, Types
  DEF OpShape, Working, Open, CallShape, OpGoes, SessionCloses, Awaited
<1>10. CallShape'
  BY <1>8 DEF CallShape
<1>11. StoreShape'
  BY <1>3, <1>4, <1>8 DEF StoreShape, RecordGoes, SessionCloses
<1>12. KeptInv'
  BY <1>1, <1>2, <1>3, <1>6, <1>8, Types
  DEF KeptInv, Runs, OpShape, CallShape, Working, OpGoes, SessionCloses, Awaited
<1>13. WaitInv'
  BY <1>1, <1>2, <1>3, <1>6, <1>8, Types
  DEF WaitInv, OpShape, CallShape, Open, Runs, OpGoes, SessionCloses, Awaited
<1>14. MeetInv'
  BY <1>2, <1>7, <1>8 DEF MeetInv, Active, Closing, OpGoes, Started
<1>15. WorkInv'
  BY <1>1, <1>2, <1>4, <1>5, <1>6, <1>7, <1>8, Types
  DEF WorkInv, AtWork, OpShape, MeetInv, RestInv, Quiet, Busy, Active, Closing, Working,
      Configured, Config, OpGoes, RecordGoes, OverrideGoes, Started, Awaited
<1>16. DropInv'
  BY <1>1, <1>2, <1>3, <1>6, <1>7, <1>8, Types
  DEF DropInv, OpShape, MeetInv, WorkInv, AtWork, Active, Closing, Working, Open, CallShape,
      OpGoes, SessionCloses, Started, Awaited
<1>17. CallInv'
  BY <1>1, <1>3, <1>6, <1>7, <1>8, Types
  DEF CallInv, MeetInv, Active, Closing, CallShape, OpShape, Working, Open, SessionCloses,
      Started, Awaited
<1>18. FlightInv'
  BY <1>1, <1>3, <1>6, <1>7, <1>8, Types
  DEF FlightInv, CallInv, DropInv, KeptInv, WaitInv, MeetInv, Active, Closing, CallShape,
      OpShape, Working, Open, Runs, SessionCloses, Started, Awaited
<1>19. ClientInv'
  BY <1>1, <1>3, <1>6, <1>7, <1>8, Types
  DEF ClientInv, MeetInv, WorkInv, AtWork, DropInv, CallInv, KeptInv, Active, Closing, OpShape,
      Working, Open, Runs, Configured, Config, SessionCloses, Started, Awaited
<1>20. RestInv'
  BY <1>1, <1>2, <1>4, <1>5, <1>6, <1>7, <1>8, Types
  DEF RestInv, StoreShape, DropInv, WorkInv, AtWork, MeetInv, FlightInv, Quiet, Busy, Active,
      Closing, OpShape, CallShape, Working, Configured, Runs, OpGoes, RecordGoes, OverrideGoes,
      Started, Awaited
<1>21. NoProcessIsLost'
  BY <1>1, <1>2, <1>3, <1>6, <1>7, <1>8, Types
  DEF NoProcessIsLost, StoreShape, DropInv, CallInv, KeptInv, MeetInv, Active, Closing, OpShape,
      CallShape, Working, Open, Runs, OpGoes, SessionCloses, Started, Awaited
<1> QED BY <1>9, <1>10, <1>11, <1>12, <1>13, <1>14, <1>15, <1>16, <1>17, <1>18, <1>19, <1>20, <1>21

LEMMA SetEnabledOffKeeps ==
  ASSUME TypeOK, Tables, NEW p \in Workers, NEW n \in Servers, NEW enabled \in BOOLEAN,
         SetEnabled(p, n, enabled), ~Configured(n)
  PROVE  Tables'
<1> USE DEF Tables
<1>1. OverrideGoes(n, enabled)
  BY DEF SetEnabled, Asked, Begins, TypeOK, OverrideGoes
<1>2. Started(p, {n})
  BY DEF SetEnabled, Asked, Begins, Meets, Started
<1>3. op' = op /\ sessions' = sessions /\ records' = records /\ memory' = memory /\ file' = file /\ clients' = clients /\ todo' = todo /\ calls' = calls
  BY DEF SetEnabled, Asked, Begins, store
<1>4. OpShape'
  BY <1>3 DEF OpShape, Working, Open
<1>5. CallShape'
  BY <1>3 DEF CallShape
<1>6. StoreShape'
  BY <1>3 DEF StoreShape
<1>7. KeptInv'
  BY <1>3 DEF KeptInv, Runs
<1>8. WaitInv'
  BY <1>3 DEF WaitInv
<1>9. MeetInv'
  BY <1>2, <1>3 DEF MeetInv, Active, Closing, Started
<1>10. WorkInv'
  BY <1>1, <1>2, <1>3, Types
  DEF WorkInv, AtWork, OpShape, MeetInv, RestInv, Quiet, Busy, Active, Closing, Working,
      Configured, Config, OverrideGoes, Started
<1>11. DropInv'
  BY <1>2, <1>3, Types
  DEF DropInv, OpShape, MeetInv, WorkInv, AtWork, Active, Closing, Working, Open, CallShape,
      Started
<1>12. CallInv'
  BY <1>2, <1>3, Types
  DEF CallInv, MeetInv, Active, Closing, CallShape, OpShape, Working, Open, Started
<1>13. FlightInv'
  BY <1>2, <1>3, Types
  DEF FlightInv, CallInv, DropInv, KeptInv, WaitInv, MeetInv, Active, Closing, CallShape,
      OpShape, Working, Open, Runs, Started
<1>14. ClientInv'
  BY <1>2, <1>3 DEF ClientInv, Open, Configured, Config, Started
<1>15. RestInv'
  BY <1>1, <1>2, <1>3 DEF RestInv, Quiet, Busy, Active, Closing, Configured, OverrideGoes, Started
<1>16. NoProcessIsLost'
  BY <1>2, <1>3, Types
  DEF NoProcessIsLost, StoreShape, DropInv, CallInv, KeptInv, MeetInv, Active, Closing, OpShape,
      CallShape, Working, Open, Runs, Started
<1> QED BY <1>4, <1>5, <1>6, <1>7, <1>8, <1>9, <1>10, <1>11, <1>12, <1>13, <1>14, <1>15, <1>16

LEMMA ReloadKeeps ==
  ASSUME TypeOK, Tables, NEW p \in Workers, NEW n \in Servers,
         Reload(p, n)
  PROVE  Tables'
<1> USE DEF Tables
<1>1. op[p].pc = "idle" /\ Configured(n)
  BY DEF Reload, Begins, StartSync
<1>2. OpGoes(p, "closing", "sync", n, NoServer, override[n], Config(n), NoSession, Awaited(clients[n]))
  BY <1>1 DEF Reload, Begins, StartSync, NoOp, TypeOK, WorkType, OpGoes
<1>3. SessionCloses(clients[n])
  BY <1>1 DEF Reload, Begins, StartSync, Closes, Open, Gone, TypeOK, SessionType, SessionCloses
<1>4. RecordGoes(n, TRUE, override[n], FALSE)
  BY <1>1 DEF Reload, Begins, StartSync, Record, NotListed, TypeOK, RecordType, RecordGoes
<1>5. Config(n) \in Configs
  BY <1>1 DEF Reload, Begins, StartSync, TypeOK, Configured, Config
<1>6. Started(p, {n})
  BY <1>1 DEF Reload, Begins, StartSync, Meets, Started
<1>7. override' = override /\ memory' = memory /\ file' = file /\ clients' = clients /\ todo' = todo /\ calls' = calls
  BY <1>1 DEF Reload, Begins, StartSync, store
<1>8. OpShape'
  BY <1>1, <1>2, <1>3, <1>5, Types
  DEF OpShape, Working, Open, CallShape, OpGoes, SessionCloses, Awaited
<1>9. CallShape'
  BY <1>7 DEF CallShape
<1>10. StoreShape'
  BY <1>3, <1>4, <1>7 DEF StoreShape, RecordGoes, SessionCloses
<1>11. KeptInv'
  BY <1>1, <1>2, <1>3, <1>5, <1>7, Types
  DEF KeptInv, Runs, OpShape, CallShape, Working, OpGoes, SessionCloses, Awaited
<1>12. WaitInv'
  BY <1>1, <1>2, <1>3, <1>5, <1>7, Types
  DEF WaitInv, OpShape, CallShape, Open, Runs, OpGoes, SessionCloses, Awaited
<1>13. MeetInv'
  BY <1>2, <1>6, <1>7 DEF MeetInv, Active, Closing, OpGoes, Started
<1>14. WorkInv'
  BY <1>1, <1>2, <1>4, <1>5, <1>6, <1>7, Types
  DEF WorkInv, AtWork, OpShape, MeetInv, RestInv, Quiet, Busy, Active, Closing, Working,
      Configured, Config, OpGoes, RecordGoes, Started, Awaited
<1>15. DropInv'
  BY <1>1, <1>2, <1>3, <1>5, <1>6, <1>7, Types
  DEF DropInv, OpShape, MeetInv, WorkInv, AtWork, Active, Closing, Working, Open, CallShape,
      OpGoes, SessionCloses, Started, Awaited
<1>16. CallInv'
  BY <1>1, <1>3, <1>5, <1>6, <1>7, Types
  DEF CallInv, MeetInv, Active, Closing, CallShape, OpShape, Working, Open, SessionCloses,
      Started, Awaited
<1>17. FlightInv'
  BY <1>1, <1>3, <1>5, <1>6, <1>7, Types
  DEF FlightInv, CallInv, DropInv, KeptInv, WaitInv, MeetInv, Active, Closing, CallShape,
      OpShape, Working, Open, Runs, SessionCloses, Started, Awaited
<1>18. ClientInv'
  BY <1>1, <1>3, <1>5, <1>6, <1>7, Types
  DEF ClientInv, MeetInv, WorkInv, AtWork, DropInv, CallInv, KeptInv, Active, Closing, OpShape,
      Working, Open, Runs, Configured, Config, SessionCloses, Started, Awaited
<1>19. RestInv'
  BY <1>1, <1>2, <1>4, <1>5, <1>6, <1>7, Types
  DEF RestInv, StoreShape, DropInv, WorkInv, AtWork, MeetInv, FlightInv, Quiet, Busy, Active,
      Closing, OpShape, CallShape, Working, Configured, Runs, OpGoes, RecordGoes, Started,
      Awaited
<1>20. NoProcessIsLost'
  BY <1>1, <1>2, <1>3, <1>5, <1>6, <1>7, Types
  DEF NoProcessIsLost, StoreShape, DropInv, CallInv, KeptInv, MeetInv, Active, Closing, OpShape,
      CallShape, Working, Open, Runs, OpGoes, SessionCloses, Started, Awaited
<1> QED BY <1>8, <1>9, <1>10, <1>11, <1>12, <1>13, <1>14, <1>15, <1>16, <1>17, <1>18, <1>19, <1>20

LEMMA BootVisitsKeeps ==
  ASSUME TypeOK, Tables, NEW n \in Servers,
         BootVisits(n)
  PROVE  Tables'
<1> USE DEF Tables
<1>1. op[Boot].pc = "idle" /\ Configured(n)
  BY DEF BootVisits, Begins, StartSync
<1>2. OpGoes(Boot, "closing", "sync", n, NoServer, override[n], Config(n), NoSession, Awaited(clients[n]))
  BY <1>1 DEF BootVisits, Begins, StartSync, NoOp, TypeOK, WorkType, OpGoes
<1>3. SessionCloses(clients[n])
  BY <1>1
  DEF BootVisits, Begins, StartSync, Closes, Open, Gone, TypeOK, SessionType, SessionCloses
<1>4. RecordGoes(n, TRUE, override[n], FALSE)
  BY <1>1 DEF BootVisits, Begins, StartSync, Record, NotListed, TypeOK, RecordType, RecordGoes
<1>5. Config(n) \in Configs
  BY <1>1 DEF BootVisits, Begins, StartSync, TypeOK, Configured, Config
<1>6. Started(Boot, {n})
  BY <1>1 DEF BootVisits, Begins, StartSync, Meets, Started
<1>7. todo' = todo \ {n}
  BY <1>1 DEF BootVisits, Begins, StartSync
<1>8. override' = override /\ memory' = memory /\ file' = file /\ clients' = clients /\ calls' = calls
  BY <1>1 DEF BootVisits, Begins, StartSync, store
<1>9. OpShape'
  BY <1>1, <1>2, <1>3, <1>5, Types
  DEF OpShape, Working, Open, CallShape, OpGoes, SessionCloses, Awaited
<1>10. CallShape'
  BY <1>8 DEF CallShape
<1>11. StoreShape'
  BY <1>3, <1>4, <1>8 DEF StoreShape, RecordGoes, SessionCloses
<1>12. KeptInv'
  BY <1>1, <1>2, <1>3, <1>5, <1>8, Types
  DEF KeptInv, Runs, OpShape, CallShape, Working, OpGoes, SessionCloses, Awaited
<1>13. WaitInv'
  BY <1>1, <1>2, <1>3, <1>5, <1>8, Types
  DEF WaitInv, OpShape, CallShape, Open, Runs, OpGoes, SessionCloses, Awaited
<1>14. MeetInv'
  BY <1>2, <1>6, <1>8 DEF MeetInv, Active, Closing, OpGoes, Started
<1>15. WorkInv'
  BY <1>1, <1>2, <1>4, <1>5, <1>6, <1>8, Types
  DEF WorkInv, AtWork, OpShape, MeetInv, RestInv, Quiet, Busy, Active, Closing, Working,
      Configured, Config, OpGoes, RecordGoes, Started, Awaited
<1>16. DropInv'
  BY <1>1, <1>2, <1>3, <1>5, <1>6, <1>8, Types
  DEF DropInv, OpShape, MeetInv, WorkInv, AtWork, Active, Closing, Working, Open, CallShape,
      OpGoes, SessionCloses, Started, Awaited
<1>17. CallInv'
  BY <1>1, <1>3, <1>5, <1>6, <1>8, Types
  DEF CallInv, MeetInv, Active, Closing, CallShape, OpShape, Working, Open, SessionCloses,
      Started, Awaited
<1>18. FlightInv'
  BY <1>1, <1>3, <1>5, <1>6, <1>8, Types
  DEF FlightInv, CallInv, DropInv, KeptInv, WaitInv, MeetInv, Active, Closing, CallShape,
      OpShape, Working, Open, Runs, SessionCloses, Started, Awaited
<1>19. ClientInv'
  BY <1>1, <1>3, <1>5, <1>6, <1>8, Types
  DEF ClientInv, MeetInv, WorkInv, AtWork, DropInv, CallInv, KeptInv, Active, Closing, OpShape,
      Working, Open, Runs, Configured, Config, SessionCloses, Started, Awaited
<1>20. RestInv'
  BY <1>1, <1>2, <1>4, <1>5, <1>6, <1>7, <1>8, Types
  DEF RestInv, StoreShape, DropInv, WorkInv, AtWork, MeetInv, FlightInv, Quiet, Busy, Active,
      Closing, OpShape, CallShape, Working, Configured, Runs, OpGoes, RecordGoes, Started,
      Awaited
<1>21. NoProcessIsLost'
  BY <1>1, <1>2, <1>3, <1>5, <1>6, <1>8, Types
  DEF NoProcessIsLost, StoreShape, DropInv, CallInv, KeptInv, MeetInv, Active, Closing, OpShape,
      CallShape, Working, Open, Runs, OpGoes, SessionCloses, Started, Awaited
<1> QED BY <1>9, <1>10, <1>11, <1>12, <1>13, <1>14, <1>15, <1>16, <1>17, <1>18, <1>19, <1>20, <1>21

LEMMA HealthCheckKeeps ==
  ASSUME TypeOK, Tables, NEW p \in Workers, NEW n \in Servers,
         HealthCheck(p, n)
  PROVE  Tables'
<1> USE DEF Tables
<1>1. op[p].pc = "idle" /\ Configured(n) /\ records[n].listed
  BY DEF HealthCheck, Asked, Begins
<1>2. OpGoes(p, "spawning", "health", n, NoServer, records[n].enabled, Config(n), NoSession, NoSession)
  BY <1>1 DEF HealthCheck, Asked, Begins, NoOp, TypeOK, WorkType, OpGoes
<1>3. Config(n) \in Configs
  BY <1>1 DEF HealthCheck, Asked, Begins, TypeOK, Configured, Config
<1>4. Started(p, {n})
  BY <1>1 DEF HealthCheck, Asked, Begins, Meets, Started
<1>5. override' = override /\ memory' = memory /\ file' = file /\ records' = records /\ sessions' = sessions /\ clients' = clients /\ todo' = todo /\ calls' = calls
  BY <1>1 DEF HealthCheck, Asked, Begins, store
<1>6. OpShape'
  BY <1>2, <1>5 DEF OpShape, Working, Open, OpGoes
<1>7. CallShape'
  BY <1>5 DEF CallShape
<1>8. StoreShape'
  BY <1>5 DEF StoreShape
<1>9. KeptInv'
  BY <1>2, <1>5 DEF KeptInv, Runs, OpGoes
<1>10. WaitInv'
  BY <1>1, <1>2, <1>3, <1>5, Types DEF WaitInv, OpShape, CallShape, Open, Runs, OpGoes
<1>11. MeetInv'
  BY <1>2, <1>4, <1>5 DEF MeetInv, Active, Closing, OpGoes, Started
<1>12. WorkInv'
  BY <1>1, <1>2, <1>3, <1>4, <1>5, Types
  DEF WorkInv, AtWork, OpShape, MeetInv, RestInv, Quiet, Busy, Active, Closing, Working,
      Configured, Config, OpGoes, Started
<1>13. DropInv'
  BY <1>1, <1>2, <1>3, <1>4, <1>5, Types
  DEF DropInv, OpShape, MeetInv, WorkInv, AtWork, Active, Closing, Working, Open, CallShape,
      OpGoes, Started
<1>14. CallInv'
  BY <1>1, <1>3, <1>4, <1>5, Types
  DEF CallInv, MeetInv, Active, Closing, CallShape, OpShape, Working, Open, Started
<1>15. FlightInv'
  BY <1>1, <1>3, <1>4, <1>5, Types
  DEF FlightInv, CallInv, DropInv, KeptInv, WaitInv, MeetInv, Active, Closing, CallShape,
      OpShape, Working, Open, Runs, Started
<1>16. ClientInv'
  BY <1>4, <1>5 DEF ClientInv, Open, Configured, Config, Started
<1>17. RestInv'
  BY <1>1, <1>2, <1>3, <1>4, <1>5, Types
  DEF RestInv, StoreShape, DropInv, WorkInv, AtWork, MeetInv, FlightInv, Quiet, Busy, Active,
      Closing, OpShape, CallShape, Working, Configured, Runs, OpGoes, Started
<1>18. NoProcessIsLost'
  BY <1>1, <1>2, <1>3, <1>4, <1>5, Types
  DEF NoProcessIsLost, StoreShape, DropInv, CallInv, KeptInv, MeetInv, Active, Closing, OpShape,
      CallShape, Working, Open, Runs, OpGoes, Started
<1> QED BY <1>6, <1>7, <1>8, <1>9, <1>10, <1>11, <1>12, <1>13, <1>14, <1>15, <1>16, <1>17, <1>18

LEMMA BootFailsKeeps ==
  ASSUME TypeOK, Tables, NEW n \in Servers,
         BootFails(n)
  PROVE  Tables'
<1> USE DEF Tables
<1>1. op[Boot].pc = "idle" /\ ~Configured(n)
  BY DEF BootFails
<1>2. OpGoes(Boot, "failed", op[Boot].kind, op[Boot].name, op[Boot].next, op[Boot].enabled, op[Boot].config, op[Boot].session, op[Boot].waits)
  BY <1>1 DEF BootFails, NoOp, TypeOK, WorkType, OpGoes
<1>3. override' = override /\ memory' = memory /\ file' = file /\ records' = records /\ sessions' = sessions /\ clients' = clients /\ todo' = todo /\ calls' = calls /\ disturbed' = disturbed
  BY <1>1 DEF BootFails, store
<1>4. OpShape'
  BY <1>1, <1>2, <1>3, Types DEF OpShape, Working, Open, CallShape, OpGoes
<1>5. CallShape'
  BY <1>3 DEF CallShape
<1>6. StoreShape'
  BY <1>3 DEF StoreShape
<1>7. KeptInv'
  BY <1>2, <1>3 DEF KeptInv, Runs, OpGoes
<1>8. WaitInv'
  BY <1>2, <1>3 DEF WaitInv, OpGoes
<1>9. MeetInv'
  BY <1>1, <1>2, <1>3, Types DEF MeetInv, Active, Closing, OpShape, CallShape, Working, OpGoes
<1>10. WorkInv'
  BY <1>2, <1>3 DEF WorkInv, AtWork, Working, Configured, Config, OpGoes
<1>11. DropInv'
  BY <1>2, <1>3 DEF DropInv, Working, Open, OpGoes
<1>12. CallInv'
  BY <1>3 DEF CallInv, Open
<1>13. FlightInv'
  BY <1>3 DEF FlightInv, Closing, Runs
<1>14. ClientInv'
  BY <1>3 DEF ClientInv, Open, Configured, Config
<1>15. RestInv'
  BY <1>2, <1>3 DEF RestInv, Quiet, Busy, Active, Closing, Configured, OpGoes
<1>16. NoProcessIsLost'
  BY <1>2, <1>3 DEF NoProcessIsLost, Open, OpGoes
<1> QED BY <1>4, <1>5, <1>6, <1>7, <1>8, <1>9, <1>10, <1>11, <1>12, <1>13, <1>14, <1>15, <1>16

LEMMA SyncGoesOnKeeps ==
  ASSUME TypeOK, Tables, NEW p \in Workers,
         SyncGoesOn(p)
  PROVE  Tables'
<1> USE DEF Tables
<1>1. op[p].pc = "closing" /\ op[p].kind = "sync" /\ op[p].name \in Servers
  BY DEF SyncGoesOn, OpShape, Working
<1>2. ~Runs(op[p].waits)
  BY <1>1 DEF SyncGoesOn, Returned, Runs, Gone
<1>3. IF op[p].enabled THEN OpGoes(p, "spawning", "sync", op[p].name, op[p].next, TRUE, op[p].config, op[p].session, NoSession) ELSE OpRests(p)
  BY <1>1 DEF SyncGoesOn, NoOp, TypeOK, WorkType, OpGoes, OpRests
<1>4. ClientGoes(op[p].name, NoSession)
  BY <1>1 DEF SyncGoesOn, TypeOK, ClientGoes
<1>5. ConnectedGoes(op[p].name, FALSE)
  BY <1>1, SetConnectedDoes DEF SyncGoesOn, OpShape, CallShape, Working
<1>6. override' = override /\ memory' = memory /\ file' = file /\ sessions' = sessions /\ todo' = todo /\ calls' = calls /\ disturbed' = disturbed
  BY <1>1 DEF SyncGoesOn, store
<1>7. OpShape'
  BY <1>1, <1>2, <1>3, <1>6, Types DEF OpShape, Working, Open, CallShape, OpGoes, OpRests
<1>8. CallShape'
  BY <1>6 DEF CallShape
<1>9. StoreShape'
  BY <1>5, <1>6 DEF StoreShape, ConnectedGoes
<1>10. KeptInv'
  BY <1>3, <1>4, <1>6 DEF KeptInv, Runs, OpGoes, OpRests, ClientGoes
<1>11. WaitInv'
  BY <1>1, <1>2, <1>3, <1>6, Types DEF WaitInv, OpShape, CallShape, Open, Runs, OpGoes, OpRests
<1>12. MeetInv'
  BY <1>1, <1>2, <1>3, <1>6, Types
  DEF MeetInv, Active, Closing, OpShape, CallShape, Working, OpGoes, OpRests
<1>13. WorkInv'
  <2> SUFFICES ASSUME NEW q \in Workers, Working(q)'
               PROVE  /\ ~disturbed[op'[q].name] => AtWork(q)'
                      /\ op'[q].next # NoServer => disturbed[op'[q].next] \/ Configured(op[q].next)'
    BY <1>1, <1>2, <1>3, <1>4, <1>5, <1>6 DEF WorkInv
  <2>0. \A n \in Servers : records'[n].listed = records[n].listed /\ records'[n].enabled = records[n].enabled
    BY <1>1, <1>2, <1>3, <1>4, <1>5, <1>6 DEF ConnectedGoes
  <2>1. CASE q = p
    <3>1. op[p].enabled /\ OpGoes(p, "spawning", "sync", op[p].name, op[p].next, TRUE, op[p].config, op[p].session, NoSession)
      BY <1>1, <1>2, <1>3, <1>4, <1>5, <1>6, <2>1 DEF OpRests, Working
    <3>2. op[p].enabled = TRUE
      BY <3>1, Types
    <3>3. op'[p].name = op[p].name /\ op'[p].next = op[p].next /\ op'[p].kind = op[p].kind
          /\ op'[p].config = op[p].config /\ op'[p].enabled = op[p].enabled
      BY <1>1, <1>2, <1>3, <1>4, <1>5, <1>6, <3>1, <3>2 DEF OpGoes
    <3> QED BY <1>1, <1>2, <1>3, <1>4, <1>5, <1>6, <2>0, <2>1, <3>3 DEF WorkInv, AtWork, Working, Configured, Config
  <2>2. CASE q # p
    <3>1. op'[q] = op[q]
      BY <1>1, <1>2, <1>3, <1>4, <1>5, <1>6, <2>2 DEF OpGoes, OpRests
    <3> QED BY <1>1, <1>2, <1>3, <1>4, <1>5, <1>6, <2>0, <3>1 DEF WorkInv, AtWork, Working, Configured, Config, OpShape
  <2> QED BY <2>1, <2>2
<1>14. DropInv'
  BY <1>1, <1>2, <1>3, <1>4, <1>6, Types
  DEF DropInv, OpShape, MeetInv, WorkInv, AtWork, Active, Closing, Working, Open, CallShape,
      OpGoes, OpRests, ClientGoes
<1>15. CallInv'
  BY <1>1, <1>2, <1>4, <1>6, Types
  DEF CallInv, MeetInv, Active, Closing, CallShape, OpShape, Working, Open, ClientGoes
<1>16. FlightInv'
  BY <1>1, <1>2, <1>3, <1>4, <1>5, <1>6, Types
  DEF FlightInv, CallInv, DropInv, KeptInv, WaitInv, MeetInv, Active, Closing, CallShape,
      OpShape, Working, Open, Runs, OpGoes, OpRests, ConnectedGoes, ClientGoes, Record,
      NotListed, Unused, Awaited, Gone
<1>17. ClientInv'
  BY <1>4, <1>6 DEF ClientInv, Open, Configured, Config, ClientGoes
<1>18. RestInv'
  BY <1>1, <1>2, <1>3, <1>4, <1>5, <1>6, Types
  DEF RestInv, StoreShape, DropInv, WorkInv, AtWork, MeetInv, FlightInv, Quiet, Busy, Active,
      Closing, OpShape, CallShape, Working, Configured, Runs, OpGoes, OpRests, ConnectedGoes,
      ClientGoes
<1>19. NoProcessIsLost'
  BY <1>1, <1>2, <1>3, <1>4, <1>6, Types
  DEF NoProcessIsLost, StoreShape, DropInv, CallInv, KeptInv, MeetInv, Active, Closing, OpShape,
      CallShape, Working, Open, Runs, OpGoes, OpRests, ClientGoes
<1> QED BY <1>7, <1>8, <1>9, <1>10, <1>11, <1>12, <1>13, <1>14, <1>15, <1>16, <1>17, <1>18, <1>19

LEMMA RemoveEndsKeeps ==
  ASSUME TypeOK, Tables, NEW p \in Workers,
         RemoveGoesOn(p), op[p].next = NoServer \/ memory[op[p].next] = <<>>
  PROVE  Tables'
<1> USE DEF Tables
<1>1. op[p].pc = "closing" /\ op[p].kind = "remove" /\ op[p].name \in Servers
  BY DEF RemoveGoesOn, OpShape, Working
<1>2. ~Runs(op[p].waits)
  BY <1>1 DEF RemoveGoesOn, Returned, Runs, Gone
<1>3. OpRests(p)
  BY <1>1 DEF RemoveGoesOn, NoOp, TypeOK, WorkType, OpRests
<1>4. ClientGoes(op[p].name, NoSession)
  BY <1>1 DEF RemoveGoesOn, TypeOK, ClientGoes
<1>5. OverrideGoes(op[p].name, TRUE)
  BY <1>1 DEF RemoveGoesOn, TypeOK, OverrideGoes
<1>6. RecordGoes(op[p].name, FALSE, FALSE, FALSE)
  BY <1>1 DEF RemoveGoesOn, Record, NotListed, TypeOK, RecordType, RecordGoes
<1>7. memory' = memory /\ file' = file /\ sessions' = sessions /\ todo' = todo /\ calls' = calls /\ disturbed' = disturbed
  BY <1>1 DEF RemoveGoesOn, store
<1>8. OpShape'
  BY <1>3, <1>7 DEF OpShape, Working, Open, OpRests
<1>9. CallShape'
  BY <1>7 DEF CallShape
<1>10. StoreShape'
  BY <1>6, <1>7 DEF StoreShape, RecordGoes
<1>11. KeptInv'
  BY <1>3, <1>4, <1>7 DEF KeptInv, Runs, OpRests, ClientGoes
<1>12. WaitInv'
  BY <1>1, <1>2, <1>3, <1>7, Types DEF WaitInv, OpShape, CallShape, Open, Runs, OpRests
<1>13. MeetInv'
  BY <1>3, <1>7 DEF MeetInv, Active, Closing, OpRests
<1>14. WorkInv'
  BY <1>1, <1>2, <1>3, <1>5, <1>6, <1>7, Types
  DEF WorkInv, AtWork, OpShape, MeetInv, RestInv, Quiet, Busy, Active, Closing, Working,
      Configured, Config, OpRests, RecordGoes, OverrideGoes
<1>15. DropInv'
  BY <1>1, <1>2, <1>3, <1>4, <1>7, Types
  DEF DropInv, OpShape, MeetInv, WorkInv, AtWork, Active, Closing, Working, Open, CallShape,
      OpRests, ClientGoes
<1>16. CallInv'
  BY <1>1, <1>2, <1>4, <1>7, Types
  DEF CallInv, MeetInv, Active, Closing, CallShape, OpShape, Working, Open, ClientGoes
<1>17. FlightInv'
  BY <1>1, <1>2, <1>4, <1>7, Types
  DEF FlightInv, CallInv, DropInv, KeptInv, WaitInv, MeetInv, Active, Closing, CallShape,
      OpShape, Working, Open, Runs, ClientGoes
<1>18. ClientInv'
  BY <1>4, <1>7 DEF ClientInv, Open, Configured, Config, ClientGoes
<1>19. RestInv'
  BY <1>1, <1>2, <1>3, <1>4, <1>5, <1>6, <1>7, Types
  DEF RestInv, StoreShape, DropInv, WorkInv, AtWork, MeetInv, FlightInv, Quiet, Busy, Active,
      Closing, OpShape, CallShape, Working, Configured, Runs, OpRests, RecordGoes, ClientGoes,
      OverrideGoes
<1>20. NoProcessIsLost'
  BY <1>1, <1>2, <1>3, <1>4, <1>7, Types
  DEF NoProcessIsLost, StoreShape, DropInv, CallInv, KeptInv, MeetInv, Active, Closing, OpShape,
      CallShape, Working, Open, Runs, OpRests, ClientGoes
<1> QED BY <1>8, <1>9, <1>10, <1>11, <1>12, <1>13, <1>14, <1>15, <1>16, <1>17, <1>18, <1>19, <1>20

LEMMA RenameGoesOnKeeps ==
  ASSUME TypeOK, Tables, NEW p \in Workers, NEW n \in Servers,
         RemoveGoesOn(p), op[p].next = n, memory[n] # <<>>
  PROVE  Tables'
<1> USE DEF Tables
<1>a. StartSync(p, n, override[n], Config(n), [records EXCEPT ![op[p].name] = NotListed])
  BY DEF RemoveGoesOn
<1>1. op[p].pc = "closing" /\ op[p].kind = "remove" /\ op[p].name \in Servers /\ n # op[p].name
  BY DEF RemoveGoesOn, StartSync, OpShape, Working
<1>2. ~Runs(op[p].waits)
  BY <1>1 DEF RemoveGoesOn, StartSync, Returned, Runs, Gone
<1>3. OpGoes(p, "closing", "sync", n, NoServer, override[n], Config(n), NoSession, Awaited(clients[n]))
  BY <1>1, <1>a DEF StartSync, NoOp, TypeOK, WorkType, OpGoes
<1>4. SessionCloses(clients[n])
  BY <1>1, <1>a DEF StartSync, Closes, Open, Gone, TypeOK, SessionType, SessionCloses
<1>5. Config(n) \in Configs
  BY <1>1 DEF RemoveGoesOn, StartSync, TypeOK, Configured, Config
<1>6. ClientGoes(op[p].name, NoSession)
  BY <1>1 DEF RemoveGoesOn, StartSync, TypeOK, ClientGoes
<1>7. OverrideGoes(op[p].name, TRUE)
  BY <1>1 DEF RemoveGoesOn, StartSync, TypeOK, OverrideGoes
<1>8. records'[n] = Record(override[n], FALSE) /\ records'[op[p].name] = NotListed
  BY <1>1, <1>a DEF StartSync, Record, NotListed, TypeOK, RecordType
<1>9. \A m \in Servers : m \notin {n, op[p].name} => records'[m] = records[m]
  BY <1>1 DEF RemoveGoesOn, StartSync, Record, NotListed, TypeOK, RecordType
<1>10. memory' = memory /\ file' = file /\ todo' = todo /\ calls' = calls /\ disturbed' = disturbed
  BY <1>1 DEF RemoveGoesOn, StartSync, store
<1>11. OpShape'
  BY <1>1, <1>2, <1>3, <1>4, <1>5, Types
  DEF OpShape, Working, Open, CallShape, OpGoes, SessionCloses, Awaited
<1>12. CallShape'
  BY <1>10 DEF CallShape
<1>13. StoreShape'
  BY <1>1, <1>2, <1>4, <1>5, <1>8, <1>9, <1>10, Types
  DEF StoreShape, OpShape, CallShape, Working, SessionCloses, Gone, Open, Record, NotListed
<1>14. KeptInv'
  BY <1>1, <1>2, <1>3, <1>4, <1>5, <1>6, <1>10, Types
  DEF KeptInv, Runs, OpShape, CallShape, Working, OpGoes, ClientGoes, SessionCloses, Awaited
<1>15. WaitInv'
  BY <1>1, <1>2, <1>3, <1>4, <1>5, <1>10, Types
  DEF WaitInv, OpShape, CallShape, Open, Runs, OpGoes, SessionCloses, Record, NotListed, Awaited
<1>16. MeetInv'
  BY <1>1, <1>2, <1>3, <1>5, <1>10, Types
  DEF MeetInv, Active, Closing, OpShape, CallShape, Working, OpGoes, Awaited
<1>17. WorkInv'
  BY <1>1, <1>2, <1>3, <1>5, <1>7, <1>8, <1>9, <1>10, Types
  DEF WorkInv, AtWork, OpShape, MeetInv, RestInv, Quiet, Busy, Active, Closing, Working,
      Configured, Config, OpGoes, OverrideGoes, Record, NotListed, Awaited
<1>18. DropInv'
  BY <1>1, <1>2, <1>3, <1>4, <1>5, <1>6, <1>10, Types
  DEF DropInv, OpShape, MeetInv, WorkInv, AtWork, Active, Closing, Working, Open, CallShape,
      OpGoes, ClientGoes, SessionCloses, Record, NotListed, Awaited
<1>19. CallInv'
  BY <1>1, <1>2, <1>4, <1>5, <1>6, <1>10, Types
  DEF CallInv, MeetInv, Active, Closing, CallShape, OpShape, Working, Open, ClientGoes,
      SessionCloses, Record, NotListed, Awaited
<1>20. FlightInv'
  BY <1>1, <1>2, <1>4, <1>5, <1>6, <1>10, Types
  DEF FlightInv, CallInv, DropInv, KeptInv, WaitInv, MeetInv, Active, Closing, CallShape,
      OpShape, Working, Open, Runs, ClientGoes, SessionCloses, Record, NotListed, Awaited
<1>21. ClientInv'
  BY <1>1, <1>2, <1>4, <1>5, <1>6, <1>10, Types
  DEF ClientInv, MeetInv, WorkInv, AtWork, DropInv, CallInv, KeptInv, Active, Closing, OpShape,
      Working, Open, Runs, Configured, Config, ClientGoes, SessionCloses, Record, NotListed,
      Awaited
<1>22. RestInv'
  BY <1>1, <1>2, <1>3, <1>5, <1>6, <1>7, <1>8, <1>9, <1>10, Types
  DEF RestInv, StoreShape, DropInv, WorkInv, AtWork, MeetInv, FlightInv, Quiet, Busy, Active,
      Closing, OpShape, CallShape, Working, Configured, Runs, OpGoes, ClientGoes, OverrideGoes,
      Record, NotListed, Awaited
<1>23. NoProcessIsLost'
  BY <1>1, <1>2, <1>3, <1>4, <1>5, <1>6, <1>10, Types
  DEF NoProcessIsLost, StoreShape, DropInv, CallInv, KeptInv, MeetInv, Active, Closing, OpShape,
      CallShape, Working, Open, Runs, OpGoes, ClientGoes, SessionCloses, Record, NotListed,
      Awaited
<1> QED BY <1>11, <1>12, <1>13, <1>14, <1>15, <1>16, <1>17, <1>18, <1>19, <1>20, <1>21, <1>22, <1>23

LEMMA SpawnsKeeps ==
  ASSUME TypeOK, Tables, NEW p \in Workers, NEW s \in Sessions,
         Spawns(p), op'[p].session = s
  PROVE  Tables'
<1> USE DEF Tables
<1>1. op[p].pc = "spawning" /\ Unused(s) /\ op[p].name \in Servers
  BY DEF Spawns, OpShape, Working, TypeOK, WorkType
<1>2. OpGoes(p, "opening", op[p].kind, op[p].name, op[p].next, op[p].enabled, op[p].config, s, op[p].waits)
  BY <1>1 DEF Spawns, NoOp, TypeOK, WorkType, OpGoes
<1>3. sessions'[s] = [state |-> "open", server |-> op[p].name, config |-> op[p].config]
  BY <1>1 DEF Spawns, Open, Gone, TypeOK, SessionType
<1>4. \A t \in Sessions : t # s => sessions'[t] = sessions[t]
  BY <1>1 DEF Spawns, Open, Gone, TypeOK, SessionType
<1>5. override' = override /\ memory' = memory /\ file' = file /\ records' = records /\ clients' = clients /\ todo' = todo /\ calls' = calls /\ disturbed' = disturbed
  BY <1>1 DEF Spawns, store
<1>6. OpShape'
  BY <1>1, <1>2, <1>3, <1>4, Types DEF OpShape, Working, Open, CallShape, OpGoes, Gone, Unused
<1>7. CallShape'
  BY <1>5 DEF CallShape
<1>8. StoreShape'
  BY <1>1, <1>3, <1>4, <1>5, Types DEF StoreShape, OpShape, CallShape, Working, Gone, Unused, Open
<1>9. KeptInv'
  BY <1>1, <1>2, <1>3, <1>4, <1>5, Types
  DEF KeptInv, Runs, OpShape, CallShape, Working, OpGoes, Gone, Unused
<1>10. WaitInv'
  BY <1>2, <1>3, <1>4, <1>5 DEF WaitInv, OpGoes
<1>11. MeetInv'
  BY <1>1, <1>2, <1>5, Types
  DEF MeetInv, Active, Closing, OpShape, CallShape, Working, OpGoes, Gone, Unused
<1>12. WorkInv'
  BY <1>1, <1>2, <1>5, Types
  DEF WorkInv, AtWork, OpShape, MeetInv, RestInv, Quiet, Busy, Active, Closing, Working,
      Configured, Config, OpGoes, Unused, Gone
<1>13. DropInv'
  BY <1>1, <1>2, <1>3, <1>4, <1>5, Types
  DEF DropInv, OpShape, MeetInv, WorkInv, AtWork, Active, Closing, Working, Open, CallShape,
      OpGoes, Unused, Gone
<1>14. CallInv'
  BY <1>1, <1>3, <1>4, <1>5, Types
  DEF CallInv, MeetInv, Active, Closing, CallShape, OpShape, Working, Open, Unused, Gone
<1>15. FlightInv'
  BY <1>1, <1>3, <1>4, <1>5, Types
  DEF FlightInv, CallInv, DropInv, KeptInv, WaitInv, MeetInv, Active, Closing, CallShape,
      OpShape, Working, Open, Runs, Unused, Gone
<1>16. ClientInv'
  BY <1>1, <1>3, <1>4, <1>5, Types
  DEF ClientInv, MeetInv, WorkInv, AtWork, DropInv, CallInv, KeptInv, Active, Closing, OpShape,
      Working, Open, Runs, Configured, Config, Unused, Gone
<1>17. RestInv'
  BY <1>2, <1>5 DEF RestInv, Quiet, Busy, Active, Closing, Configured, OpGoes
<1>18. NoProcessIsLost'
  BY <1>1, <1>2, <1>3, <1>4, <1>5, Types
  DEF NoProcessIsLost, StoreShape, DropInv, CallInv, KeptInv, MeetInv, Active, Closing, OpShape,
      CallShape, Working, Open, Runs, OpGoes, Unused, Gone
<1> QED BY <1>6, <1>7, <1>8, <1>9, <1>10, <1>11, <1>12, <1>13, <1>14, <1>15, <1>16, <1>17, <1>18

LEMMA AttemptAgainKeeps ==
  ASSUME TypeOK, Tables, NEW p \in Workers,
         AttemptFails(p), TriesAgain(op[p].attempt)
  PROVE  Tables'
<1> USE DEF Tables
<1>1. op[p].pc = "opening" /\ op[p].session \in Sessions
  BY DEF AttemptFails, TypeOK, WorkType, OpShape
<1>2. OpGoes(p, "spawning", op[p].kind, op[p].name, op[p].next, op[p].enabled, op[p].config, NoSession, op[p].waits)
  BY <1>1 DEF AttemptFails, NoOp, TypeOK, WorkType, OpGoes
<1>3. SessionEnds(op[p].session)
  BY <1>1 DEF AttemptFails, EndsAttempt, Open, Gone, TypeOK, SessionType, SessionEnds
<1>4. override' = override /\ memory' = memory /\ file' = file /\ records' = records /\ clients' = clients /\ todo' = todo /\ calls' = calls /\ disturbed' = disturbed
  BY <1>1 DEF AttemptFails, store
<1>5. OpShape'
  BY <1>1, <1>2, <1>3, Types DEF OpShape, Working, Open, CallShape, OpGoes, SessionEnds, Gone
<1>6. CallShape'
  BY <1>4 DEF CallShape
<1>7. StoreShape'
  BY <1>1, <1>3, <1>4, Types DEF StoreShape, OpShape, CallShape, Working, SessionEnds, Gone, Open
<1>8. KeptInv'
  BY <1>1, <1>2, <1>3, <1>4, Types
  DEF KeptInv, Runs, OpShape, CallShape, Working, OpGoes, SessionEnds, Gone
<1>9. WaitInv'
  BY <1>1, <1>2, <1>3, <1>4, Types
  DEF WaitInv, OpShape, CallShape, Working, OpGoes, SessionEnds, Gone
<1>10. MeetInv'
  BY <1>1, <1>2, <1>4, Types DEF MeetInv, Active, Closing, OpShape, CallShape, Working, OpGoes
<1>11. WorkInv'
  BY <1>1, <1>2, <1>4, Types
  DEF WorkInv, AtWork, OpShape, MeetInv, RestInv, Quiet, Busy, Active, Closing, Working,
      Configured, Config, OpGoes
<1>12. DropInv'
  BY <1>1, <1>2, <1>3, <1>4, Types
  DEF DropInv, Working, Open, OpShape, CallShape, OpGoes, SessionEnds, Gone
<1>13. CallInv'
  BY <1>1, <1>3, <1>4, Types DEF CallInv, Open, OpShape, CallShape, Working, SessionEnds, Gone
<1>14. FlightInv'
  BY <1>1, <1>3, <1>4, Types
  DEF FlightInv, Closing, Runs, OpShape, CallShape, Working, SessionEnds, Gone
<1>15. ClientInv'
  BY <1>1, <1>3, <1>4, Types
  DEF ClientInv, Open, Configured, Config, OpShape, CallShape, Working, SessionEnds, Gone
<1>16. RestInv'
  BY <1>2, <1>4 DEF RestInv, Quiet, Busy, Active, Closing, Configured, OpGoes
<1>17. NoProcessIsLost'
  BY <1>1, <1>2, <1>3, <1>4, Types
  DEF NoProcessIsLost, Open, OpShape, CallShape, Working, OpGoes, SessionEnds, Gone
<1> QED BY <1>5, <1>6, <1>7, <1>8, <1>9, <1>10, <1>11, <1>12, <1>13, <1>14, <1>15, <1>16, <1>17

LEMMA AttemptEndsKeeps ==
  ASSUME TypeOK, Tables, NEW p \in Workers,
         AttemptFails(p), ~TriesAgain(op[p].attempt)
  PROVE  Tables'
<1> USE DEF Tables
<1>1. op[p].pc = "opening" /\ op[p].name \in Servers /\ op[p].session \in Sessions
  BY DEF AttemptFails, OpShape, Working, TypeOK, WorkType
<1>2. OpRests(p)
  BY <1>1 DEF AttemptFails, NoOp, TypeOK, WorkType, OpRests
<1>3. SessionEnds(op[p].session)
  BY <1>1 DEF AttemptFails, EndsAttempt, Open, Gone, TypeOK, SessionType, SessionEnds
<1>4. IF op[p].kind = "sync" THEN RecordGoes(op[p].name, TRUE, TRUE, FALSE) ELSE ConnectedGoes(op[p].name, FALSE)
  <2>1. CASE op[p].kind = "sync"
    BY <1>1, <2>1 DEF AttemptFails, TypeOK, RecordType, Record, RecordGoes
  <2>2. CASE op[p].kind # "sync"
    BY <1>1, <2>2, SetConnectedDoes DEF AttemptFails
  <2> QED BY <2>1, <2>2
<1>5. override' = override /\ memory' = memory /\ file' = file /\ clients' = clients /\ todo' = todo /\ calls' = calls /\ disturbed' = disturbed
  BY <1>1 DEF AttemptFails, store
<1>6. OpShape'
  BY <1>1, <1>2, <1>3, Types DEF OpShape, Working, Open, CallShape, OpRests, SessionEnds, Gone
<1>7. CallShape'
  BY <1>5 DEF CallShape
<1>8. StoreShape'
  BY <1>1, <1>3, <1>4, <1>5, Types
  DEF StoreShape, OpShape, CallShape, Working, RecordGoes, ConnectedGoes, SessionEnds, Gone,
      Open
<1>9. KeptInv'
  BY <1>1, <1>2, <1>3, <1>5, Types
  DEF KeptInv, Runs, OpShape, CallShape, Working, OpRests, SessionEnds, Gone
<1>10. WaitInv'
  BY <1>1, <1>2, <1>3, <1>5, Types
  DEF WaitInv, OpShape, CallShape, Working, OpRests, SessionEnds, Gone
<1>11. MeetInv'
  BY <1>2, <1>5 DEF MeetInv, Active, Closing, OpRests
<1>12. WorkInv'
  BY <1>1, <1>2, <1>4, <1>5, Types
  DEF WorkInv, AtWork, OpShape, MeetInv, RestInv, Quiet, Busy, Active, Closing, Working,
      Configured, Config, OpRests, RecordGoes, ConnectedGoes
<1>13. DropInv'
  BY <1>1, <1>2, <1>3, <1>5, Types
  DEF DropInv, Working, Open, OpShape, CallShape, OpRests, SessionEnds, Gone
<1>14. CallInv'
  BY <1>1, <1>3, <1>5, Types DEF CallInv, Open, OpShape, CallShape, Working, SessionEnds, Gone
<1>15. FlightInv'
  BY <1>1, <1>3, <1>5, Types
  DEF FlightInv, Closing, Runs, OpShape, CallShape, Working, SessionEnds, Gone
<1>16. ClientInv'
  BY <1>1, <1>3, <1>5, Types
  DEF ClientInv, Open, Configured, Config, OpShape, CallShape, Working, SessionEnds, Gone
<1>17. RestInv'
  <2> SUFFICES ASSUME NEW n \in Servers, ~disturbed[n], ~Busy(n)'
               PROVE  /\ records'[n].listed => Configured(n)' /\ records'[n].enabled = override[n]
                      /\ Configured(n)' /\ n \notin todo => records'[n].listed
                      /\ Quiet(n)' /\ records'[n].connected => clients'[n] # NoSession
    BY <1>1, <1>2, <1>3, <1>4, <1>5 DEF RestInv
  <2>1. CASE n = op[p].name
    <3>1. op[p].kind # "remove" /\ Configured(n) /\ op[p].enabled = override[n]
          /\ records[n].listed /\ records[n].enabled = op[p].enabled
      BY <1>1, <1>2, <1>3, <1>4, <1>5, <2>1, Types DEF WorkInv, AtWork, Working, OpShape
    <3>2. CASE op[p].kind = "sync"
      <4>1. op[p].enabled = TRUE
        BY <1>1, <1>2, <1>3, <1>4, <1>5, <3>2, Types DEF OpShape
      <4>2. records'[n].listed = TRUE /\ records'[n].enabled = TRUE /\ records'[n].connected = FALSE
        BY <1>1, <1>2, <1>3, <1>4, <1>5, <2>1, <3>2 DEF RecordGoes
      <4> QED BY <1>1, <1>2, <1>3, <1>4, <1>5, <3>1, <4>1, <4>2 DEF Configured
    <3>3. CASE op[p].kind # "sync"
      <4>1. records'[n].listed /\ records'[n].enabled = records[n].enabled /\ records'[n].connected = FALSE
        BY <1>1, <1>2, <1>3, <1>4, <1>5, <2>1, <3>1, <3>3 DEF ConnectedGoes
      <4> QED BY <1>1, <1>2, <1>3, <1>4, <1>5, <3>1, <4>1 DEF Configured
    <3> QED BY <3>2, <3>3
  <2>2. CASE n # op[p].name
    <3>1. ~Active(p, n)
      BY <1>1, <1>2, <1>3, <1>4, <1>5, <2>2 DEF Active, OpShape
    <3>2. ~Busy(n)
      BY <1>1, <1>2, <1>3, <1>4, <1>5, <3>1 DEF Busy, Active, OpRests
    <3>3. records'[n] = records[n]
      BY <1>1, <1>2, <1>3, <1>4, <1>5, <2>2 DEF RecordGoes, ConnectedGoes
    <3> QED BY <1>1, <1>2, <1>3, <1>4, <1>5, <3>2, <3>3 DEF RestInv, Quiet, Closing, Configured
  <2> QED BY <2>1, <2>2
<1>18. NoProcessIsLost'
  BY <1>1, <1>2, <1>3, <1>5, Types
  DEF NoProcessIsLost, Open, OpShape, CallShape, Working, OpRests, SessionEnds, Gone
<1> QED BY <1>6, <1>7, <1>8, <1>9, <1>10, <1>11, <1>12, <1>13, <1>14, <1>15, <1>16, <1>17, <1>18

LEMMA SyncConnectsKeeps ==
  ASSUME TypeOK, Tables, NEW p \in Workers,
         SyncConnects(p)
  PROVE  Tables'
<1> USE DEF Tables
<1>1. op[p].pc = "opening" /\ op[p].kind = "sync" /\ op[p].name \in Servers /\ op[p].session \in Sessions
  BY DEF SyncConnects, OpShape, Working, TypeOK, WorkType
<1>2. Open(op[p].session)
  BY <1>1 DEF SyncConnects, TypeOK, WorkType, OpShape
<1>3. OpRests(p)
  BY <1>1 DEF SyncConnects, NoOp, TypeOK, WorkType, OpRests
<1>4. ClientGoes(op[p].name, op[p].session)
  BY <1>1 DEF SyncConnects, TypeOK, ClientGoes
<1>5. RecordGoes(op[p].name, TRUE, TRUE, TRUE)
  BY <1>1 DEF SyncConnects, Record, NotListed, TypeOK, RecordType, RecordGoes
<1>6. override' = override /\ memory' = memory /\ file' = file /\ sessions' = sessions /\ todo' = todo /\ calls' = calls /\ disturbed' = disturbed
  BY <1>1 DEF SyncConnects, store
<1>7. OpShape'
  BY <1>3, <1>6 DEF OpShape, Working, Open, OpRests
<1>8. CallShape'
  BY <1>6 DEF CallShape
<1>9. StoreShape'
  BY <1>5, <1>6 DEF StoreShape, RecordGoes
<1>10. KeptInv'
  BY <1>3, <1>4, <1>6 DEF KeptInv, Runs, OpRests, ClientGoes
<1>11. WaitInv'
  BY <1>1, <1>2, <1>3, <1>6, Types DEF WaitInv, OpShape, CallShape, Open, Runs, OpRests
<1>12. MeetInv'
  BY <1>3, <1>6 DEF MeetInv, Active, Closing, OpRests
<1>13. WorkInv'
  BY <1>1, <1>2, <1>3, <1>5, <1>6, Types
  DEF WorkInv, AtWork, OpShape, MeetInv, RestInv, Quiet, Busy, Active, Closing, Working,
      Configured, Config, OpRests, RecordGoes
<1>14. DropInv'
  BY <1>1, <1>2, <1>3, <1>4, <1>6, Types
  DEF DropInv, OpShape, MeetInv, WorkInv, AtWork, Active, Closing, Working, Open, CallShape,
      OpRests, ClientGoes
<1>15. CallInv'
  BY <1>1, <1>2, <1>4, <1>6, Types
  DEF CallInv, MeetInv, Active, Closing, CallShape, OpShape, Working, Open, ClientGoes
<1>16. FlightInv'
  BY <1>1, <1>2, <1>4, <1>6, Types
  DEF FlightInv, CallInv, DropInv, KeptInv, WaitInv, MeetInv, Active, Closing, CallShape,
      OpShape, Working, Open, Runs, ClientGoes
<1>17. ClientInv'
  BY <1>1, <1>2, <1>4, <1>6, Types
  DEF ClientInv, MeetInv, WorkInv, AtWork, DropInv, CallInv, KeptInv, Active, Closing, OpShape,
      Working, Open, Runs, Configured, Config, ClientGoes
<1>18. RestInv'
  <2> SUFFICES ASSUME NEW n \in Servers, ~disturbed[n], ~Busy(n)'
               PROVE  /\ records'[n].listed => Configured(n)' /\ records'[n].enabled = override[n]
                      /\ Configured(n)' /\ n \notin todo => records'[n].listed
                      /\ Quiet(n)' /\ records'[n].connected => clients'[n] # NoSession
    BY <1>1, <1>2, <1>3, <1>4, <1>5, <1>6 DEF RestInv
  <2>1. CASE n = op[p].name
    <3>1. op[p].enabled = TRUE
      BY <1>1, <1>2, <1>3, <1>4, <1>5, <1>6, Types DEF OpShape
    <3>2. Configured(n) /\ override[n] = TRUE
      BY <1>1, <1>2, <1>3, <1>4, <1>5, <1>6, <2>1, <3>1, Types DEF WorkInv, AtWork, Working
    <3>3. records'[n].listed = TRUE /\ records'[n].enabled = TRUE /\ clients'[n] # NoSession
      BY <1>1, <1>2, <1>3, <1>4, <1>5, <1>6, <2>1 DEF RecordGoes, ClientGoes
    <3> QED BY <1>1, <1>2, <1>3, <1>4, <1>5, <1>6, <3>2, <3>3 DEF Configured
  <2>2. CASE n # op[p].name
    <3>1. ~Active(p, n)
      BY <1>1, <1>2, <1>3, <1>4, <1>5, <1>6, <2>2 DEF Active, OpShape
    <3>2. ~Busy(n)
      BY <1>1, <1>2, <1>3, <1>4, <1>5, <1>6, <3>1 DEF Busy, Active, OpRests
    <3>3. records'[n] = records[n] /\ clients'[n] = clients[n]
      BY <1>1, <1>2, <1>3, <1>4, <1>5, <1>6, <2>2 DEF RecordGoes, ClientGoes
    <3> QED BY <1>1, <1>2, <1>3, <1>4, <1>5, <1>6, <3>2, <3>3 DEF RestInv, Quiet, Closing, Configured
  <2> QED BY <2>1, <2>2
<1>19. NoProcessIsLost'
  BY <1>1, <1>2, <1>3, <1>4, <1>6, Types
  DEF NoProcessIsLost, StoreShape, DropInv, CallInv, KeptInv, MeetInv, Active, Closing, OpShape,
      CallShape, Working, Open, Runs, OpRests, ClientGoes
<1> QED BY <1>7, <1>8, <1>9, <1>10, <1>11, <1>12, <1>13, <1>14, <1>15, <1>16, <1>17, <1>18, <1>19

LEMMA HealthConnectsKeeps ==
  ASSUME TypeOK, Tables, NEW p \in Workers, NEW x,
         HealthConnects(p), x = IF op[p].enabled THEN clients[op[p].name] ELSE op[p].session
  PROVE  Tables'
<1> USE DEF Tables
<1>1. op[p].pc = "opening" /\ op[p].kind = "health" /\ op[p].name \in Servers
  BY DEF HealthConnects, OpShape, Working, Open
<1>2. Open(op[p].session)
  BY <1>1 DEF HealthConnects, TypeOK, WorkType, OpShape, Open
<1>3. OpGoes(p, "closing", "health", op[p].name, op[p].next, op[p].enabled, op[p].config, op[p].session, Awaited(x))
  BY <1>1 DEF HealthConnects, NoOp, TypeOK, WorkType, OpGoes
<1>4. SessionCloses(x)
  <2>1. Closes(x) /\ x \in Sessions \union {NoSession}
    BY <1>1, Types DEF HealthConnects
  <2> QED BY <2>1 DEF Closes, Open, TypeOK, SessionType, SessionCloses
<1>5. override' = override /\ memory' = memory /\ file' = file /\ records' = records /\ clients' = clients /\ todo' = todo /\ calls' = calls /\ disturbed' = disturbed
  BY <1>1 DEF HealthConnects, store
<1>6. OpShape'
  BY <1>1, <1>2, <1>3, <1>4, Types
  DEF OpShape, Working, Open, CallShape, OpGoes, SessionCloses, Awaited
<1>7. CallShape'
  BY <1>5 DEF CallShape
<1>8. StoreShape'
  BY <1>4, <1>5 DEF StoreShape, SessionCloses
<1>9. KeptInv'
  BY <1>1, <1>2, <1>3, <1>4, <1>5, Types
  DEF KeptInv, Runs, OpShape, CallShape, Working, OpGoes, SessionCloses, Awaited
<1>10. WaitInv'
  BY <1>1, <1>2, <1>3, <1>4, <1>5, Types
  DEF WaitInv, OpShape, CallShape, Open, Runs, OpGoes, SessionCloses, Awaited
<1>11. MeetInv'
  BY <1>1, <1>2, <1>3, <1>5, Types
  DEF MeetInv, Active, Closing, OpShape, CallShape, Working, OpGoes, Awaited
<1>12. WorkInv'
  BY <1>1, <1>2, <1>3, <1>5, Types
  DEF WorkInv, AtWork, OpShape, MeetInv, RestInv, Quiet, Busy, Active, Closing, Working,
      Configured, Config, OpGoes, Awaited
<1>13. DropInv'
  BY <1>1, <1>2, <1>3, <1>4, <1>5, Types
  DEF DropInv, OpShape, MeetInv, WorkInv, AtWork, Active, Closing, Working, Open, CallShape,
      OpGoes, SessionCloses, Awaited
<1>14. CallInv'
  BY <1>1, <1>2, <1>4, <1>5, Types
  DEF CallInv, MeetInv, Active, Closing, CallShape, OpShape, Working, Open, SessionCloses,
      Awaited
<1>15. FlightInv'
  BY <1>1, <1>2, <1>4, <1>5, Types
  DEF FlightInv, CallInv, DropInv, KeptInv, WaitInv, MeetInv, Active, Closing, CallShape,
      OpShape, Working, Open, Runs, SessionCloses, Awaited
<1>16. ClientInv'
  BY <1>1, <1>2, <1>4, <1>5, Types
  DEF ClientInv, MeetInv, WorkInv, AtWork, DropInv, CallInv, KeptInv, Active, Closing, OpShape,
      Working, Open, Runs, Configured, Config, SessionCloses, Awaited
<1>17. RestInv'
  BY <1>3, <1>5 DEF RestInv, Quiet, Busy, Active, Closing, Configured, OpGoes
<1>18. NoProcessIsLost'
  BY <1>3, <1>4, <1>5 DEF NoProcessIsLost, Open, OpGoes, SessionCloses
<1> QED BY <1>6, <1>7, <1>8, <1>9, <1>10, <1>11, <1>12, <1>13, <1>14, <1>15, <1>16, <1>17, <1>18

LEMMA HealthEndsKeeps ==
  ASSUME TypeOK, Tables, NEW p \in Workers,
         HealthEnds(p)
  PROVE  Tables'
<1> USE DEF Tables
<1>1. op[p].pc = "closing" /\ op[p].kind = "health" /\ op[p].name \in Servers /\ op[p].session \in Sessions
  BY DEF HealthEnds, OpShape, Working, TypeOK, WorkType
<1>2. ~Runs(op[p].waits)
  BY <1>1 DEF HealthEnds, Returned, Runs, Gone
<1>3. OpRests(p)
  BY <1>1 DEF HealthEnds, NoOp, TypeOK, WorkType, OpRests
<1>4. IF op[p].enabled THEN ClientGoes(op[p].name, op[p].session) ELSE clients' = clients
  BY <1>1 DEF HealthEnds, TypeOK, ClientGoes
<1>5. RecordGoes(op[p].name, TRUE, op[p].enabled, op[p].enabled)
  BY <1>1 DEF HealthEnds, Record, NotListed, TypeOK, RecordType, Checked, RecordGoes
<1>6. override' = override /\ memory' = memory /\ file' = file /\ sessions' = sessions /\ todo' = todo /\ calls' = calls /\ disturbed' = disturbed
  BY <1>1 DEF HealthEnds, store
<1>7. OpShape'
  BY <1>3, <1>6 DEF OpShape, Working, Open, OpRests
<1>8. CallShape'
  BY <1>6 DEF CallShape
<1>9. StoreShape'
  BY <1>5, <1>6 DEF StoreShape, RecordGoes
<1>10. KeptInv'
  BY <1>3, <1>4, <1>6 DEF KeptInv, Runs, OpRests, ClientGoes
<1>11. WaitInv'
  BY <1>1, <1>2, <1>3, <1>6, Types DEF WaitInv, OpShape, CallShape, Open, Runs, OpRests
<1>12. MeetInv'
  BY <1>3, <1>6 DEF MeetInv, Active, Closing, OpRests
<1>13. WorkInv'
  BY <1>1, <1>2, <1>3, <1>5, <1>6, Types
  DEF WorkInv, AtWork, OpShape, MeetInv, RestInv, Quiet, Busy, Active, Closing, Working,
      Configured, Config, OpRests, RecordGoes
<1>14. DropInv'
  BY <1>1, <1>2, <1>3, <1>4, <1>6, Types
  DEF DropInv, OpShape, MeetInv, WorkInv, AtWork, Active, Closing, Working, Open, CallShape,
      OpRests, ClientGoes
<1>15. CallInv'
  BY <1>1, <1>2, <1>4, <1>6, Types
  DEF CallInv, MeetInv, Active, Closing, CallShape, OpShape, Working, Open, ClientGoes
<1>16. FlightInv'
  BY <1>1, <1>2, <1>4, <1>6, Types
  DEF FlightInv, CallInv, DropInv, KeptInv, WaitInv, MeetInv, Active, Closing, CallShape,
      OpShape, Working, Open, Runs, ClientGoes
<1>17. ClientInv'
  BY <1>1, <1>2, <1>4, <1>6, Types
  DEF ClientInv, MeetInv, WorkInv, AtWork, DropInv, CallInv, KeptInv, Active, Closing, OpShape,
      Working, Open, Runs, Configured, Config, ClientGoes
<1>18. RestInv'
  BY <1>1, <1>2, <1>3, <1>4, <1>5, <1>6, Types
  DEF RestInv, StoreShape, DropInv, WorkInv, AtWork, MeetInv, FlightInv, Quiet, Busy, Active,
      Closing, OpShape, CallShape, Working, Configured, Runs, OpRests, RecordGoes, ClientGoes
<1>19. NoProcessIsLost'
  BY <1>1, <1>2, <1>3, <1>4, <1>6, Types
  DEF NoProcessIsLost, StoreShape, DropInv, CallInv, KeptInv, MeetInv, Active, Closing, OpShape,
      CallShape, Working, Open, Runs, OpRests, ClientGoes
<1> QED BY <1>7, <1>8, <1>9, <1>10, <1>11, <1>12, <1>13, <1>14, <1>15, <1>16, <1>17, <1>18, <1>19

LEMMA CallStartsKeeps ==
  ASSUME TypeOK, Tables, NEW c \in Calls, NEW n \in Servers,
         CallStarts(c, n)
  PROVE  Tables'
<1> USE DEF Tables
<1>1. calls[c].pc = "idle" /\ clients[n] # NoSession
  BY DEF CallStarts
<1>2. CallGoes(c, "flight", n, clients[n], NoSession)
  BY <1>1 DEF CallStarts, NoCall, TypeOK, CallType, CallGoes
<1>3. op' = op /\ sessions' = sessions /\ records' = records /\ override' = override /\ memory' = memory /\ file' = file /\ clients' = clients /\ todo' = todo /\ disturbed' = disturbed
  BY <1>1 DEF CallStarts, store
<1>4. OpShape'
  BY <1>3 DEF OpShape, Working, Open
<1>5. CallShape'
  BY <1>1, <1>2, Types DEF CallShape, OpShape, Working, CallGoes
<1>6. StoreShape'
  BY <1>3 DEF StoreShape
<1>7. KeptInv'
  BY <1>2, <1>3 DEF KeptInv, Runs, CallGoes
<1>8. WaitInv'
  BY <1>1, <1>2, <1>3, Types DEF WaitInv, OpShape, CallShape, Open, Runs, CallGoes
<1>9. MeetInv'
  BY <1>2, <1>3 DEF MeetInv, Active, Closing, CallGoes
<1>10. WorkInv'
  BY <1>3 DEF WorkInv, AtWork, Working, Configured, Config
<1>11. DropInv'
  BY <1>3 DEF DropInv, Working, Open
<1>12. CallInv'
  BY <1>2, <1>3 DEF CallInv, Open, CallGoes
<1>13. FlightInv'
  BY <1>1, <1>2, <1>3, Types
  DEF FlightInv, CallInv, DropInv, KeptInv, WaitInv, MeetInv, Active, Closing, CallShape,
      OpShape, Working, Open, Runs, CallGoes
<1>14. ClientInv'
  BY <1>3 DEF ClientInv, Open, Configured, Config
<1>15. RestInv'
  BY <1>1, <1>2, <1>3, Types
  DEF RestInv, StoreShape, DropInv, WorkInv, AtWork, MeetInv, FlightInv, Quiet, Busy, Active,
      Closing, OpShape, CallShape, Working, Configured, Runs, CallGoes
<1>16. NoProcessIsLost'
  BY <1>3 DEF NoProcessIsLost, Open
<1> QED BY <1>4, <1>5, <1>6, <1>7, <1>8, <1>9, <1>10, <1>11, <1>12, <1>13, <1>14, <1>15, <1>16

LEMMA CallFindsNoClientKeeps ==
  ASSUME TypeOK, Tables, NEW c \in Calls, NEW n \in Servers,
         CallFindsNoClient(c, n)
  PROVE  Tables'
<1> USE DEF Tables
<1>1. ConnectedGoes(n, FALSE)
  BY SetConnectedDoes DEF CallFindsNoClient, OpShape, CallShape, Working
<1>2. op' = op /\ sessions' = sessions /\ calls' = calls /\ override' = override /\ memory' = memory /\ file' = file /\ clients' = clients /\ todo' = todo /\ disturbed' = disturbed
  BY DEF CallFindsNoClient, store
<1>3. OpShape'
  BY <1>2 DEF OpShape, Working, Open
<1>4. CallShape'
  BY <1>2 DEF CallShape
<1>5. StoreShape'
  BY <1>1, <1>2 DEF StoreShape, ConnectedGoes
<1>6. KeptInv'
  BY <1>2 DEF KeptInv, Runs
<1>7. WaitInv'
  BY <1>2 DEF WaitInv
<1>8. MeetInv'
  BY <1>2 DEF MeetInv, Active, Closing
<1>9. WorkInv'
  BY <1>1, <1>2, Types
  DEF WorkInv, AtWork, OpShape, MeetInv, RestInv, Quiet, Busy, Active, Closing, Working,
      Configured, Config, ConnectedGoes
<1>10. DropInv'
  BY <1>2 DEF DropInv, Working, Open
<1>11. CallInv'
  BY <1>2 DEF CallInv, Open
<1>12. FlightInv'
  BY <1>2 DEF FlightInv, Closing, Runs
<1>13. ClientInv'
  BY <1>2 DEF ClientInv, Open, Configured, Config
<1>14. RestInv'
  BY <1>1, <1>2 DEF RestInv, Quiet, Busy, Active, Closing, Configured, ConnectedGoes
<1>15. NoProcessIsLost'
  BY <1>2 DEF NoProcessIsLost, Open
<1> QED BY <1>3, <1>4, <1>5, <1>6, <1>7, <1>8, <1>9, <1>10, <1>11, <1>12, <1>13, <1>14, <1>15

LEMMA CallSucceedsKeeps ==
  ASSUME TypeOK, Tables, NEW c \in Calls,
         CallSucceeds(c)
  PROVE  Tables'
<1> USE DEF Tables
<1>1. calls[c].pc = "flight" /\ calls[c].name \in Servers /\ calls[c].session \in Sessions
  BY DEF CallSucceeds, CallShape, TypeOK, CallType
<1>2. Runs(calls[c].session)
  BY <1>1 DEF CallSucceeds, TypeOK, CallType, CallShape, StoreShape, Runs, Gone
<1>3. CallGoes(c, "idle", NoServer, NoSession, NoSession)
  BY <1>1 DEF CallSucceeds, NoCall, TypeOK, CallType, CallGoes
<1>4. ConnectedGoes(calls[c].name, TRUE)
  BY <1>1, SetConnectedDoes DEF CallSucceeds, OpShape, CallShape, Working
<1>5. op' = op /\ sessions' = sessions /\ override' = override /\ memory' = memory /\ file' = file /\ clients' = clients /\ todo' = todo /\ disturbed' = disturbed
  BY <1>1 DEF CallSucceeds, store
<1>6. OpShape'
  BY <1>5 DEF OpShape, Working, Open
<1>7. CallShape'
  BY <1>3 DEF CallShape, CallGoes
<1>8. StoreShape'
  BY <1>4, <1>5 DEF StoreShape, ConnectedGoes
<1>9. KeptInv'
  BY <1>3, <1>5 DEF KeptInv, Runs, CallGoes
<1>10. WaitInv'
  BY <1>1, <1>2, <1>3, <1>5, Types DEF WaitInv, OpShape, CallShape, Open, Runs, CallGoes
<1>11. MeetInv'
  BY <1>3, <1>5 DEF MeetInv, Active, Closing, CallGoes
<1>12. WorkInv'
  BY <1>1, <1>2, <1>4, <1>5, Types
  DEF WorkInv, AtWork, OpShape, MeetInv, RestInv, Quiet, Busy, Active, Closing, Working,
      Configured, Config, ConnectedGoes
<1>13. DropInv'
  BY <1>5 DEF DropInv, Working, Open
<1>14. CallInv'
  BY <1>3, <1>5 DEF CallInv, Open, CallGoes
<1>15. FlightInv'
  BY <1>1, <1>2, <1>3, <1>5, Types
  DEF FlightInv, CallInv, DropInv, KeptInv, WaitInv, MeetInv, Active, Closing, CallShape,
      OpShape, Working, Open, Runs, CallGoes
<1>16. ClientInv'
  BY <1>5 DEF ClientInv, Open, Configured, Config
<1>17. RestInv'
  BY <1>1, <1>2, <1>3, <1>4, <1>5, Types
  DEF RestInv, StoreShape, DropInv, WorkInv, AtWork, MeetInv, FlightInv, Quiet, Busy, Active,
      Closing, OpShape, CallShape, Working, Configured, Runs, CallGoes, ConnectedGoes
<1>18. NoProcessIsLost'
  BY <1>5 DEF NoProcessIsLost, Open
<1> QED BY <1>6, <1>7, <1>8, <1>9, <1>10, <1>11, <1>12, <1>13, <1>14, <1>15, <1>16, <1>17, <1>18

LEMMA CallFailsKeeps ==
  ASSUME TypeOK, Tables, NEW c \in Calls, NEW n,
         CallFails(c), n = calls[c].name
  PROVE  Tables'
<1> USE DEF Tables
<1>1. calls[c].pc = "flight" /\ n \in Servers
  BY DEF CallFails, CallShape
<1>2. CallGoes(c, "closing", n, NoSession, Awaited(clients[n]))
  BY <1>1 DEF CallFails, NoCall, TypeOK, CallType, CallGoes
<1>3. SessionCloses(clients[n])
  BY <1>1 DEF CallFails, Closes, Open, Gone, TypeOK, SessionType, SessionCloses
<1>4. \A m \in Servers : disturbed'[m] <=> disturbed[m] \/ (m = n /\ \E q \in Workers : Active(q, n))
  BY MeetsDoes, <1>1 DEF CallFails
<1>5. op' = op /\ records' = records /\ override' = override /\ memory' = memory /\ file' = file /\ clients' = clients /\ todo' = todo
  BY <1>1 DEF CallFails, store
<1>6. OpShape'
  BY <1>1, <1>3, <1>5, Types DEF OpShape, Working, Open, CallShape, SessionCloses
<1>7. CallShape'
  BY <1>1, <1>2, Types DEF CallShape, OpShape, Working, CallGoes, Awaited
<1>8. StoreShape'
  BY <1>3, <1>5 DEF StoreShape, SessionCloses
<1>9. KeptInv'
  BY <1>1, <1>2, <1>3, <1>5, Types
  DEF KeptInv, Runs, OpShape, CallShape, Working, CallGoes, SessionCloses, Awaited
<1>10. WaitInv'
  BY <1>1, <1>2, <1>3, <1>5, Types
  DEF WaitInv, OpShape, CallShape, Open, Runs, CallGoes, SessionCloses, Awaited
<1>11. MeetInv'
  BY <1>2, <1>4, <1>5 DEF MeetInv, Active, Closing, CallGoes
<1>12. WorkInv'
  BY <1>1, <1>4, <1>5, Types
  DEF WorkInv, AtWork, OpShape, MeetInv, RestInv, Quiet, Busy, Active, Closing, Working,
      Configured, Config, Awaited
<1>13. DropInv'
  BY <1>1, <1>3, <1>4, <1>5, Types
  DEF DropInv, OpShape, MeetInv, WorkInv, AtWork, Active, Closing, Working, Open, CallShape,
      SessionCloses, Awaited
<1>14. CallInv'
  BY <1>1, <1>2, <1>3, <1>4, <1>5, Types
  DEF CallInv, MeetInv, Active, Closing, CallShape, OpShape, Working, Open, CallGoes,
      SessionCloses, Awaited
<1>15. FlightInv'
  BY <1>1, <1>2, <1>3, <1>4, <1>5, Types
  DEF FlightInv, CallInv, DropInv, KeptInv, WaitInv, MeetInv, Active, Closing, CallShape,
      OpShape, Working, Open, Runs, CallGoes, SessionCloses, Awaited
<1>16. ClientInv'
  BY <1>1, <1>3, <1>4, <1>5, Types
  DEF ClientInv, MeetInv, WorkInv, AtWork, DropInv, CallInv, KeptInv, Active, Closing, OpShape,
      Working, Open, Runs, Configured, Config, SessionCloses, Awaited
<1>17. RestInv'
  BY <1>2, <1>4, <1>5 DEF RestInv, Quiet, Busy, Active, Closing, Configured, CallGoes
<1>18. NoProcessIsLost'
  BY <1>1, <1>3, <1>4, <1>5, Types
  DEF NoProcessIsLost, StoreShape, DropInv, CallInv, KeptInv, MeetInv, Active, Closing, OpShape,
      CallShape, Working, Open, Runs, SessionCloses, Awaited
<1> QED BY <1>6, <1>7, <1>8, <1>9, <1>10, <1>11, <1>12, <1>13, <1>14, <1>15, <1>16, <1>17, <1>18

LEMMA CallEndsKeeps ==
  ASSUME TypeOK, Tables, NEW c \in Calls,
         CallEnds(c)
  PROVE  Tables'
<1> USE DEF Tables
<1>1. calls[c].pc = "closing" /\ calls[c].name \in Servers
  BY DEF CallEnds, CallShape
<1>2. ~Runs(calls[c].waits)
  BY <1>1 DEF CallEnds, Returned, Runs, Gone
<1>3. CallGoes(c, "idle", NoServer, NoSession, NoSession)
  BY <1>1 DEF CallEnds, NoCall, TypeOK, CallType, CallGoes
<1>4. ClientGoes(calls[c].name, NoSession)
  BY <1>1 DEF CallEnds, TypeOK, ClientGoes
<1>5. ConnectedGoes(calls[c].name, FALSE)
  BY <1>1, SetConnectedDoes DEF CallEnds, OpShape, CallShape, Working
<1>6. op' = op /\ sessions' = sessions /\ override' = override /\ memory' = memory /\ file' = file /\ todo' = todo /\ disturbed' = disturbed
  BY <1>1 DEF CallEnds, store
<1>7. OpShape'
  BY <1>6 DEF OpShape, Working, Open
<1>8. CallShape'
  BY <1>3 DEF CallShape, CallGoes
<1>9. StoreShape'
  BY <1>5, <1>6 DEF StoreShape, ConnectedGoes
<1>10. KeptInv'
  BY <1>3, <1>4, <1>6 DEF KeptInv, Runs, CallGoes, ClientGoes
<1>11. WaitInv'
  BY <1>1, <1>2, <1>3, <1>6, Types DEF WaitInv, OpShape, CallShape, Open, Runs, CallGoes
<1>12. MeetInv'
  BY <1>3, <1>6 DEF MeetInv, Active, Closing, CallGoes
<1>13. WorkInv'
  BY <1>1, <1>2, <1>5, <1>6, Types
  DEF WorkInv, AtWork, OpShape, MeetInv, RestInv, Quiet, Busy, Active, Closing, Working,
      Configured, Config, ConnectedGoes
<1>14. DropInv'
  BY <1>1, <1>2, <1>4, <1>6, Types
  DEF DropInv, OpShape, MeetInv, WorkInv, AtWork, Active, Closing, Working, Open, CallShape,
      ClientGoes
<1>15. CallInv'
  BY <1>1, <1>2, <1>3, <1>4, <1>6, Types
  DEF CallInv, MeetInv, Active, Closing, CallShape, OpShape, Working, Open, CallGoes, ClientGoes
<1>16. FlightInv'
  <2> SUFFICES ASSUME NEW d \in Calls, calls'[d].pc = "flight", ~disturbed[calls'[d].name], Runs(calls'[d].session)
               PROVE  \/ calls'[d].session = clients'[calls'[d].name]
                      \/ \E e \in Calls : Closing(e, calls[d].name)' /\ calls'[e].waits = calls'[d].session
    BY <1>1, <1>2, <1>3, <1>4, <1>5, <1>6 DEF FlightInv, Runs
  <2>1. d # c /\ calls'[d] = calls[d] /\ calls[d].name \in Servers /\ calls[d].session \in Sessions
    BY <1>1, <1>2, <1>3, <1>4, <1>5, <1>6, Types DEF CallGoes, CallShape
  <2>2. CASE \E e \in Calls : Closing(e, calls[d].name) /\ calls[e].waits = calls[d].session
    BY <1>1, <1>2, <1>3, <1>4, <1>5, <1>6, <2>1, <2>2 DEF CallGoes, Closing
  <2>3. CASE calls[d].session = clients[calls[d].name] /\ calls[d].name # calls[c].name
    BY <1>1, <1>2, <1>3, <1>4, <1>5, <1>6, <2>1, <2>3 DEF ClientGoes
  <2>4. CASE calls[d].session = clients[calls[d].name] /\ calls[d].name = calls[c].name
    <3>1. sessions[calls[d].session].state = "closing" /\ sessions[calls[d].session].server = calls[c].name
      BY <1>1, <1>2, <1>3, <1>4, <1>5, <1>6, <2>1, <2>4, Types DEF CallInv, KeptInv, Open, Runs
    <3>2. ASSUME NEW q \in Workers, op[q].waits = calls[d].session PROVE FALSE
      <4>1. Active(q, calls[c].name)
        BY <1>1, <1>2, <1>3, <1>4, <1>5, <1>6, <2>1, <3>1, <3>2 DEF KeptInv, Runs, Active, OpShape
      <4> QED BY <1>1, <1>2, <1>3, <1>4, <1>5, <1>6, <2>1, <2>4, <4>1 DEF MeetInv, Closing
    <3>3. PICK e \in Calls : calls[e].waits = calls[d].session
      BY <2>1, <3>1, <3>2 DEF WaitInv
    <3>4. e # c /\ calls[e].pc = "closing" /\ calls[e].name = calls[c].name
      BY <1>1, <1>2, <1>3, <1>4, <1>5, <1>6, <2>1, <3>1, <3>3 DEF KeptInv, Runs, CallShape
    <3> QED BY <1>1, <1>2, <1>3, <1>4, <1>5, <1>6, <2>1, <2>4, <3>3, <3>4 DEF CallGoes, Closing
  <2> QED BY <2>1, <2>2, <2>3, <2>4 DEF FlightInv
<1>17. ClientInv'
  BY <1>4, <1>6 DEF ClientInv, Open, Configured, Config, ClientGoes
<1>18. RestInv'
  BY <1>1, <1>2, <1>3, <1>4, <1>5, <1>6, Types
  DEF RestInv, StoreShape, DropInv, WorkInv, AtWork, MeetInv, FlightInv, Quiet, Busy, Active,
      Closing, OpShape, CallShape, Working, Configured, Runs, CallGoes, ConnectedGoes,
      ClientGoes
<1>19. NoProcessIsLost'
  BY <1>1, <1>2, <1>4, <1>6, Types
  DEF NoProcessIsLost, StoreShape, DropInv, CallInv, KeptInv, MeetInv, Active, Closing, OpShape,
      CallShape, Working, Open, Runs, ClientGoes
<1> QED BY <1>7, <1>8, <1>9, <1>10, <1>11, <1>12, <1>13, <1>14, <1>15, <1>16, <1>17, <1>18, <1>19

LEMMA ProcessEndsKeeps ==
  ASSUME TypeOK, Tables, NEW s \in Sessions,
         ProcessEnds(s)
  PROVE  Tables'
<1> USE DEF Tables
<1>1. SessionEnds(s)
  BY DEF ProcessEnds, Open, Gone, TypeOK, SessionType, SessionEnds
<1>2. op' = op /\ calls' = calls /\ records' = records /\ override' = override /\ memory' = memory /\ file' = file /\ clients' = clients /\ todo' = todo /\ disturbed' = disturbed
  BY DEF ProcessEnds, store
<1>3. OpShape'
  BY <1>1, <1>2, Types DEF OpShape, Working, Open, CallShape, SessionEnds, Gone
<1>4. CallShape'
  BY <1>2 DEF CallShape
<1>5. StoreShape'
  BY <1>1, <1>2, Types DEF StoreShape, OpShape, CallShape, Working, SessionEnds, Gone, Open
<1>6. KeptInv'
  BY <1>1, <1>2, Types DEF KeptInv, Runs, OpShape, CallShape, Working, SessionEnds, Gone
<1>7. WaitInv'
  BY <1>1, <1>2, Types DEF WaitInv, OpShape, CallShape, Working, SessionEnds, Gone
<1>8. MeetInv'
  BY <1>2 DEF MeetInv, Active, Closing
<1>9. WorkInv'
  BY <1>2 DEF WorkInv, AtWork, Working, Configured, Config
<1>10. DropInv'
  BY <1>1, <1>2, Types DEF DropInv, Working, Open, OpShape, CallShape, SessionEnds, Gone
<1>11. CallInv'
  BY <1>1, <1>2, Types DEF CallInv, Open, OpShape, CallShape, Working, SessionEnds, Gone
<1>12. FlightInv'
  BY <1>1, <1>2, Types
  DEF FlightInv, Closing, Runs, OpShape, CallShape, Working, SessionEnds, Gone
<1>13. ClientInv'
  BY <1>1, <1>2, Types
  DEF ClientInv, Open, Configured, Config, OpShape, CallShape, Working, SessionEnds, Gone
<1>14. RestInv'
  BY <1>2 DEF RestInv, Quiet, Busy, Active, Closing, Configured
<1>15. NoProcessIsLost'
  BY <1>1, <1>2, Types DEF NoProcessIsLost, Open, OpShape, CallShape, Working, SessionEnds, Gone
<1> QED BY <1>3, <1>4, <1>5, <1>6, <1>7, <1>8, <1>9, <1>10, <1>11, <1>12, <1>13, <1>14, <1>15

-------------------------------------------------------------------------------
(* The specification. *)

\* Nothing is configured that the boot will not visit, and nothing is connected.
THEOREM InitMcpInv == Init => McpInv
<1> SUFFICES ASSUME Init PROVE McpInv
  OBVIOUS
<1>1. ASSUME NEW n \in Servers
      PROVE  memory[n] \in Seq(Configs) /\ (memory[n] # <<>> => n \in todo)
  <2>1. CASE file[n] = NoConfig
    BY <2>1 DEF Init
  <2>2. CASE file[n] # NoConfig
    <3>1. file[n] \in Configs /\ memory[n] = <<file[n]>> /\ n \in todo
      BY <2>2 DEF Init
    <3> QED BY <3>1
  <2> QED BY <2>1, <2>2
<1>2. memory \in [Servers -> Seq(Configs)]
  BY <1>1 DEF Init
<1>3. TypeOK
  BY <1>2, IdleTypes, RecordTypes DEF Init, TypeOK
<1>4. OpShape /\ CallShape
  BY DEF Init, OpShape, CallShape, NoOp, NoCall, Working
<1>5. StoreShape
  BY DEF Init, StoreShape, Gone, NotListed
<1>6. KeptInv /\ WaitInv /\ MeetInv
  BY DEF Init, KeptInv, WaitInv, MeetInv, Runs, Active, NoOp, NoCall, Gone
<1>7. WorkInv /\ DropInv /\ CallInv /\ FlightInv
  BY DEF Init, WorkInv, DropInv, CallInv, FlightInv, Working, NoOp, NoCall
<1>8. ClientInv /\ NoProcessIsLost
  BY DEF Init, ClientInv, NoProcessIsLost, Open, Gone
<1>9. RestInv
  BY <1>1 DEF Init, RestInv, Configured, NotListed
<1> QED BY <1>3, <1>4, <1>5, <1>6, <1>7, <1>8, <1>9 DEF McpInv, Tables

LEMMA NextTypes ==
  ASSUME McpInv, Next
  PROVE  TypeOK'
<1> USE DEF McpInv, Tables
<1>1. ASSUME NEW p \in Requests, Asks(p) PROVE TypeOK'
  <2>1. PICK n \in Servers :
          \/ \E config \in Configs :
               \/ Save(p, n, config)
               \/ \E previous \in Servers : Rename(p, previous, n, config)
          \/ Delete(p, n)
          \/ \E enabled \in BOOLEAN : SetEnabled(p, n, enabled)
          \/ Reload(p, n)
          \/ HealthCheck(p, n)
    BY <1>1 DEF Asks
  <2> QED BY <2>1, AskTypes
<1>2. ASSUME NEW n \in todo, BootVisits(n) \/ BootFails(n) PROVE TypeOK'
  BY <1>2, BootTypes
<1>3. ASSUME NEW p \in Workers, Works(p) PROVE TypeOK'
  BY <1>3, WorkTypes
<1>4. ASSUME NEW c \in Calls, CallsTool(c) PROVE TypeOK'
  BY <1>4, CallsTypes
<1>5. ASSUME NEW s \in Sessions, ProcessEnds(s) PROVE TypeOK'
  BY <1>5, EndTypes
<1> QED BY <1>1, <1>2, <1>3, <1>4, <1>5 DEF Next

LEMMA AskTables ==
  ASSUME McpInv, NEW p \in Requests, Asks(p)
  PROVE  Tables'
<1> USE DEF McpInv
<1>1. PICK n \in Servers :
        \/ \E config \in Configs :
             \/ Save(p, n, config)
             \/ \E previous \in Servers : Rename(p, previous, n, config)
        \/ Delete(p, n)
        \/ \E enabled \in BOOLEAN : SetEnabled(p, n, enabled)
        \/ Reload(p, n)
        \/ HealthCheck(p, n)
  BY DEF Asks
<1>2. p \in Workers
  OBVIOUS
<1>3. ASSUME NEW config \in Configs, Save(p, n, config) PROVE Tables'
  BY <1>2, <1>3, SaveKeeps
<1>4. ASSUME NEW config \in Configs, NEW previous \in Servers, Rename(p, previous, n, config)
      PROVE  Tables'
  BY <1>2, <1>4, RenameKeeps
<1>5. ASSUME NEW enabled \in BOOLEAN, SetEnabled(p, n, enabled) PROVE Tables'
  <2>1. CASE Configured(n)
    BY <1>2, <1>5, <2>1, SetEnabledOnKeeps
  <2>2. CASE ~Configured(n)
    BY <1>2, <1>5, <2>2, SetEnabledOffKeeps
  <2> QED BY <2>1, <2>2
<1>6. CASE Delete(p, n)
  BY <1>2, <1>6, DeleteKeeps
<1>7. CASE Reload(p, n)
  BY <1>2, <1>7, ReloadKeeps
<1>8. CASE HealthCheck(p, n)
  BY <1>2, <1>8, HealthCheckKeeps
<1> QED BY <1>1, <1>3, <1>4, <1>5, <1>6, <1>7, <1>8

LEMMA WorkTables ==
  ASSUME McpInv, NEW p \in Workers, Works(p)
  PROVE  Tables'
<1> USE DEF McpInv
<1>1. CASE SyncGoesOn(p)
  BY <1>1, SyncGoesOnKeeps
<1>2. CASE RemoveGoesOn(p)
  <2>1. CASE op[p].next = NoServer \/ memory[op[p].next] = <<>>
    BY <1>2, <2>1, RemoveEndsKeeps
  <2>2. CASE ~(op[p].next = NoServer \/ memory[op[p].next] = <<>>)
    <3>1. PICK n \in Servers : n = op[p].next
      BY <2>2, Types
    <3> QED BY <1>2, <2>2, <3>1, RenameGoesOnKeeps
  <2> QED BY <2>1, <2>2
<1>3. CASE Spawns(p)
  <2>1. PICK s \in Sessions : op' = [op EXCEPT ![p].pc = "opening", ![p].session = s]
    BY <1>3 DEF Spawns
  <2>2. op'[p].session = s
    BY <2>1 DEF TypeOK, WorkType
  <2> QED BY <1>3, <2>2, SpawnsKeeps
<1>4. CASE AttemptFails(p)
  BY <1>4, AttemptAgainKeeps, AttemptEndsKeeps
<1>5. CASE SyncConnects(p)
  BY <1>5, SyncConnectsKeeps
<1>6. CASE HealthConnects(p)
  BY <1>6, HealthConnectsKeeps
<1>7. CASE HealthEnds(p)
  BY <1>7, HealthEndsKeeps
<1> QED BY <1>1, <1>2, <1>3, <1>4, <1>5, <1>6, <1>7 DEF Works

LEMMA CallTables ==
  ASSUME McpInv, NEW c \in Calls, CallsTool(c)
  PROVE  Tables'
<1> USE DEF McpInv
<1>1. ASSUME NEW n \in Servers, CallStarts(c, n) PROVE Tables'
  BY <1>1, CallStartsKeeps
<1>2. ASSUME NEW n \in Servers, CallFindsNoClient(c, n) PROVE Tables'
  BY <1>2, CallFindsNoClientKeeps
<1>3. CASE CallSucceeds(c)
  BY <1>3, CallSucceedsKeeps
<1>4. CASE CallFails(c)
  BY <1>4, CallFailsKeeps
<1>5. CASE CallEnds(c)
  BY <1>5, CallEndsKeeps
<1> QED BY <1>1, <1>2, <1>3, <1>4, <1>5 DEF CallsTool

\* Every step keeps the invariant.
THEOREM NextMcpInv == McpInv /\ [Next]_vars => McpInv'
<1> SUFFICES ASSUME McpInv, [Next]_vars PROVE McpInv'
  OBVIOUS
<1>1. CASE Next
  <2>1. TypeOK'
    BY <1>1, NextTypes
  <2>2. ASSUME NEW n \in todo, BootVisits(n) \/ BootFails(n) PROVE Tables'
    <3>1. n \in Servers
      BY DEF McpInv, TypeOK
    <3> QED BY <2>2, <3>1, BootVisitsKeeps, BootFailsKeeps DEF McpInv
  <2>3. ASSUME NEW s \in Sessions, ProcessEnds(s) PROVE Tables'
    BY <2>3, ProcessEndsKeeps DEF McpInv
  <2>4. Tables'
    BY <1>1, <2>2, <2>3, AskTables, WorkTables, CallTables DEF Next
  <2> QED BY <2>1, <2>4 DEF McpInv
<1>2. CASE UNCHANGED vars
  BY <1>2 DEF vars, McpInv, Tables, TypeOK, OpShape, CallShape, StoreShape, KeptInv, WaitInv, MeetInv,
              WorkInv, AtWork, DropInv, CallInv, FlightInv, ClientInv, RestInv, NoProcessIsLost,
              Working, Runs, Open, Active, Closing, Busy, Quiet, Configured, Config
<1> QED BY <1>1, <1>2

\* The invariant holds of every behaviour.
THEOREM AlwaysMcpInv == Spec => []McpInv
  BY InitMcpInv, NextMcpInv, PTL DEF Spec

\* The handlers keep the shape of every variable, and connect twice at most.
THEOREM TypeCorrect == Spec => []TypeOK
<1>1. McpInv => TypeOK
  BY DEF McpInv
<1> QED BY <1>1, AlwaysMcpInv, PTL

\* Every process that runs is in somebody's hands, except where two workers met.
THEOREM NothingIsLost == Spec => []NoProcessIsLost
<1>1. McpInv => NoProcessIsLost
  BY DEF McpInv, Tables
<1> QED BY <1>1, AlwaysMcpInv, PTL

\* At rest the tool layer lists what the store holds.
THEOREM ListsTheStore == Spec => []RecordsFollowTheStore
<1>1. McpInv => RecordsFollowTheStore
  BY DEF McpInv, Tables, RestInv, RecordsFollowTheStore, Quiet, Undisturbed
<1> QED BY <1>1, AlwaysMcpInv, PTL

\* At rest what is offered runs with what the store says.
THEOREM OffersTheStore == Spec => []OffersAreCurrent
<1>1. McpInv => OffersAreCurrent
  <2> SUFFICES ASSUME McpInv, NEW n \in Servers, Quiet(n), Undisturbed(n),
                      records[n].connected, records[n].enabled
               PROVE  /\ override[n]
                      /\ clients[n] # NoSession
                      /\ Open(clients[n]) => sessions[clients[n]] =
                            [state |-> "open", server |-> n, config |-> Config(n)]
                      /\ Len(memory[n]) = 1 => Config(n) = file[n]
    BY DEF OffersAreCurrent
  <2> USE DEF McpInv, Tables
  <2>1. records[n].listed /\ Configured(n) /\ records[n].enabled = override[n] /\ clients[n] # NoSession
    BY DEF StoreShape, RestInv, Quiet, Undisturbed
  <2>2. ASSUME Open(clients[n])
        PROVE  sessions[clients[n]] = [state |-> "open", server |-> n, config |-> Config(n)]
    <3>1. clients[n] \in Sessions /\ sessions[clients[n]] \in SessionType
      BY <2>2, Types DEF Open, TypeOK
    <3>2. /\ sessions[clients[n]].state = "open" /\ sessions[clients[n]].server = n
          /\ sessions[clients[n]].config = Config(n)
      BY <2>2 DEF Open, KeptInv, Runs, ClientInv, Undisturbed
    <3> QED BY <3>1, <3>2 DEF SessionType
  <2>3. Len(memory[n]) = 1 => Config(n) = file[n]
    BY DEF StoreShape, Config
  <2>4. override[n]
    BY <2>1, Types
  <2> QED BY <2>1, <2>2, <2>3, <2>4
<1> QED BY <1>1, AlwaysMcpInv, PTL
================================================================================
