------------------------ MODULE ConversationStoreProofs ------------------------
(***************************************************************************)
(* Proofs about ConversationStore, for any number of conversations,        *)
(* messages, compactions and deletions.                                    *)
(*                                                                         *)
(* GoodHistory is why a compaction forgets nothing: what an active summary *)
(* covers was told to it, and an active summary is itself not covered. A   *)
(* compaction whose revision is still held has seen the history that is    *)
(* there (CompactInv). What a deletion has still to stop contains whatever *)
(* of its tree worked when it was asked for (DeleteInv).                   *)
(***************************************************************************)
EXTENDS ConversationStoreProps, TLAPS

GoodHistory(h, n) ==
  /\ IsHistory(h) /\ DOMAIN h \subseteq 1..n
  /\ \A m \in DOMAIN h :
       /\ h[m].by \in 0..n
       /\ h[m].marks => h[m].summary /\ h[m].by = 0
       /\ h[m].summary => ~h[m].pending
       /\ ~h[m].summary /\ ~h[m].pending => m \in h[m].tells
       /\ ~h[m].summary /\ h[m].by \in ActiveSummaries(h) => h[m].early \/ m \in h[h[m].by].tells
  /\ \A m, k \in Pending(h) : m = k

Good(f, n) == AreRecords(f) /\ \A c \in DOMAIN f : GoodHistory(f[c], n)

MemoryInv ==
  /\ server \in {"up", "down"}
  /\ born \subseteq Conversations
  /\ parent \in [Conversations -> Conversations \union {NoParent}]
  /\ issued \in 0..MaxMessages
  /\ held \in [Readers -> SUBSET Conversations]
  /\ Good(records, issued) /\ sessions \subseteq Conversations
  /\ file = [records |-> file.records, sessions |-> file.sessions]
  /\ Good(file.records, issued) /\ file.sessions \subseteq Conversations
  /\ Live \subseteq born /\ DOMAIN file.records \subseteq born
  /\ \A c \in Conversations : parent[c] \in born \union {NoParent}
  /\ server = "down" => records = NoRecords /\ sessions = {}
  /\ failures \in 0..MaxFailures
  /\ SavedUnlessRemoving

WorkInv ==
  /\ work \in [Conversations -> 0..MaxMessages]
  /\ \A c \in Conversations : work[c] <= issued /\ (work[c] # 0 => c \in born)
  /\ \A c \in Live : Pending(records[c]) = IF work[c] = 0 THEN {} ELSE {work[c]}

CompactInv ==
  /\ on \in [Readers -> Conversations \union {NoConversation}]
  /\ seen = [r \in Readers |-> seen[r]]
  /\ \A r \in Readers : IsHistory(seen[r])
  /\ chosen \in [Readers -> SUBSET Ids]
  /\ \A r \in Readers :
       /\ on[r] # NoConversation /\ on[r] \in held[r] => on[r] \in Live /\ seen[r] = records[on[r]]
       /\ chosen[r] \subseteq Shown(seen[r])
       /\ server = "down" => on[r] = NoConversation

Follows(d) ==
  /\ server = "down" => stage[d] = "idle"
  /\ since[d] <= issued
  /\ stage[d] # "idle" => root[d] \in born
  /\ stage[d] = "stopping" /\ root[d] \in Live =>
       \A x \in Tree(root[d]) :
         work[x] # 0 /\ work[x] <= since[d] => x \in rest[d] /\ work[x] \in asked[d]
  /\ stage[d] = "removing" =>
       \A x \in rest[d] : work[x] # 0 => work[x] > since[d]

DeleteInv ==
  /\ stage \in [Deleters -> {"idle", "stopping", "removing"}]
  /\ root \in [Deleters -> Conversations \union {NoParent}]
  /\ since \in [Deleters -> 0..MaxMessages]
  /\ asked \in [Deleters -> SUBSET Ids]
  /\ rest \in [Deleters -> SUBSET Conversations]
  /\ \A d \in Deleters : Follows(d)

IInv == MemoryInv /\ WorkInv /\ CompactInv /\ DeleteInv

USE RecordConstants, CompactionConstants, DeletionConstants, StoreConstants

------------------------------------------------------------------------------
(* Histories. *)

\* The message a send adds is pending and covered by nothing.
LEMMA AddedReply ==
  ASSUME NEW n \in Nat, n + 1 <= MaxMessages, NEW h, GoodHistory(h, n), Pending(h) = {}
  PROVE  LET k == With(h, n + 1, NewReply)
         IN GoodHistory(k, n + 1) /\ Pending(k) = {n + 1} /\ DOMAIN k = DOMAIN h \union {n + 1}
<1> DEFINE k == With(h, n + 1, NewReply)
<1>1. DOMAIN k = DOMAIN h \union {n + 1} /\ n + 1 \notin DOMAIN h
  BY DEF With, GoodHistory
<1>2. k[n + 1] = NewReply /\ \A m \in DOMAIN h : k[m] = h[m]
  BY <1>1 DEF With
<1>3. IsHistory(k) /\ DOMAIN k \subseteq 1..(n + 1)
  BY <1>1 DEF With, IsHistory, GoodHistory, Messages, NewReply, Ids
<1>4. ActiveSummaries(k) = ActiveSummaries(h)
  BY <1>1, <1>2 DEF ActiveSummaries, NewReply
<1>5. Pending(k) = {n + 1}
  BY <1>1, <1>2 DEF Pending, NewReply
<1>6. ASSUME NEW m \in DOMAIN k
      PROVE  /\ k[m].by \in 0..(n + 1)
             /\ k[m].marks => k[m].summary /\ k[m].by = 0
             /\ k[m].summary => ~k[m].pending
             /\ ~k[m].summary /\ ~k[m].pending => m \in k[m].tells
             /\ ~k[m].summary /\ k[m].by \in ActiveSummaries(k) => k[m].early \/ m \in k[k[m].by].tells
  <2>1. CASE m = n + 1
    <3>1. k[m].by = 0 /\ ~k[m].summary /\ k[m].pending /\ ~k[m].marks
      BY <2>1, <1>2 DEF NewReply
    <3>2. 0 \notin ActiveSummaries(h)
      BY DEF ActiveSummaries, GoodHistory
    <3> QED BY <3>1, <3>2, <1>4
  <2>2. CASE m # n + 1
    <3>1. m \in DOMAIN h /\ k[m] = h[m]
      BY <2>2, <1>1, <1>2
    <3>2. h[m].by \in ActiveSummaries(h) => k[h[m].by] = h[h[m].by]
      BY <1>2 DEF ActiveSummaries
    <3> QED BY <3>1, <3>2, <1>4 DEF GoodHistory
  <2> QED BY <2>1, <2>2
<1> QED BY <1>1, <1>3, <1>5, <1>6 DEF GoodHistory

\* A settled history has nothing pending and tells of the same messages and one more.
LEMMA FinishedReply ==
  ASSUME NEW n \in Nat, NEW h, GoodHistory(h, n)
  PROVE  GoodHistory(Finished(h), n) /\ Pending(Finished(h)) = {} /\ DOMAIN Finished(h) = DOMAIN h
<1> DEFINE k == Finished(h)
<1>1. DOMAIN k = DOMAIN h
  BY DEF Finished
<1>2. ASSUME NEW m \in DOMAIN h
      PROVE  /\ k[m] \in Messages
             /\ k[m].by = h[m].by /\ k[m].marks = h[m].marks /\ k[m].summary = h[m].summary
             /\ k[m].early = h[m].early /\ ~k[m].pending
             /\ k[m].tells = IF h[m].pending THEN {m} ELSE h[m].tells
  <2>1. h[m] \in Messages /\ m \in Ids
    BY DEF GoodHistory, IsHistory
  <2>2. CASE h[m].pending
    <3>1. k[m] = [h[m] EXCEPT !.pending = FALSE, !.tells = {m}]
      BY <2>2, <1>1 DEF Finished
    <3>2. {m} \in SUBSET Ids
      BY <2>1
    <3> HIDE DEF k
    <3> QED BY <3>1, <3>2, <2>1, <2>2 DEF Messages
  <2>3. CASE ~h[m].pending
    <3>1. k[m] = h[m]
      BY <2>3, <1>1 DEF Finished
    <3> QED BY <3>1, <2>1, <2>3
  <2> QED BY <2>2, <2>3
<1>3. IsHistory(k)
  <2>1. k = [m \in DOMAIN h |-> k[m]]
    BY DEF Finished
  <2>2. k \in [DOMAIN h -> Messages]
    BY <2>1, <1>2
  <2> QED BY <1>1, <2>2 DEF IsHistory, GoodHistory
<1>4. ActiveSummaries(k) = ActiveSummaries(h)
  BY <1>1, <1>2 DEF ActiveSummaries
<1>5. Pending(k) = {}
  BY <1>1, <1>2 DEF Pending
<1>6. ASSUME NEW m \in DOMAIN k
      PROVE  /\ k[m].by \in 0..n
             /\ k[m].marks => k[m].summary /\ k[m].by = 0
             /\ k[m].summary => ~k[m].pending
             /\ ~k[m].summary /\ ~k[m].pending => m \in k[m].tells
             /\ ~k[m].summary /\ k[m].by \in ActiveSummaries(k) => k[m].early \/ m \in k[k[m].by].tells
  <2>1. h[m].by \in ActiveSummaries(h) => k[h[m].by].tells = h[h[m].by].tells
    BY <1>2 DEF ActiveSummaries, GoodHistory
  <2> QED BY <2>1, <1>1, <1>2, <1>4 DEF GoodHistory
<1> QED BY <1>1, <1>3, <1>5, <1>6 DEF GoodHistory

\* A message that is deleted was not pending; the summaries of the others are still there.
LEMMA DroppedMessage ==
  ASSUME NEW n \in Nat, NEW h, GoodHistory(h, n), NEW x \in DOMAIN h, ~h[x].pending
  PROVE  LET k == Without(h, x)
         IN GoodHistory(k, n) /\ Pending(k) = Pending(h) /\ DOMAIN k = DOMAIN h \ {x}
<1> DEFINE k == Without(h, x)
<1>1. DOMAIN k = DOMAIN h \ {x} /\ \A m \in DOMAIN k : k[m] = h[m]
  BY DEF Without, Restrict
<1>2. IsHistory(k)
  <2>1. k = [m \in DOMAIN k |-> h[m]]
    BY DEF Without, Restrict
  <2> QED BY <1>1, <2>1 DEF GoodHistory, IsHistory
<1>3. ActiveSummaries(k) = ActiveSummaries(h) \ {x}
  BY <1>1 DEF ActiveSummaries
<1>4. Pending(k) = Pending(h)
  BY <1>1 DEF Pending
<1>5. \A m \in DOMAIN k : k[m].by \in ActiveSummaries(k) => k[k[m].by] = h[h[m].by]
  BY <1>1 DEF ActiveSummaries
<1> QED BY <1>1, <1>2, <1>3, <1>4, <1>5 DEF GoodHistory

\* A new summary is told of what it covers.
LEMMA CoveredPrefix ==
  ASSUME NEW n \in Nat, n + 1 <= MaxMessages, NEW h, GoodHistory(h, n), NEW S \in SUBSET Shown(h)
  PROVE  LET k == Covered(h, S, n + 1)
         IN GoodHistory(k, n + 1) /\ Pending(k) = Pending(h) /\ DOMAIN k = DOMAIN h \union {n + 1}
<1> DEFINE s == n + 1
           k == Covered(h, S, s)
           tells == UNION {h[m].tells : m \in S}
<1>1. DOMAIN k = DOMAIN h \union {s} /\ s \notin DOMAIN h /\ s \in Ids
  BY DEF Covered, GoodHistory, Ids
<1>2. S \subseteq DOMAIN h
  BY DEF Shown, Visible
<1>3. k[s] = [pending |-> FALSE, summary |-> TRUE, marks |-> TRUE, by |-> 0, tells |-> tells, early |-> FALSE]
  BY <1>1 DEF Covered
<1>4. ASSUME NEW m \in S
      PROVE  k[m] = [h[m] EXCEPT !.by = s, !.marks = FALSE, !.early = h[m].pending]
  BY <1>1, <1>2 DEF Covered
<1>5. ASSUME NEW m \in DOMAIN h \ S
      PROVE  k[m] = h[m]
  BY <1>1 DEF Covered
<1>6. tells \subseteq Ids
  BY <1>2 DEF GoodHistory, IsHistory, Messages
<1>7. ASSUME NEW m \in S
      PROVE  /\ k[m] \in Messages
             /\ k[m].by = s /\ ~k[m].marks /\ k[m].summary = h[m].summary
             /\ k[m].early = h[m].pending /\ k[m].pending = h[m].pending /\ k[m].tells = h[m].tells
  <2>1. h[m] \in Messages
    BY <1>2 DEF GoodHistory, IsHistory
  <2>2. s \in 0..MaxMessages
    BY <1>1 DEF Ids
  <2> HIDE DEF k, s, tells
  <2> QED BY <1>4, <2>1, <2>2 DEF Messages
<1>8. IsHistory(k)
  <2>1. k[s] \in Messages
    <3>1. 0 \in 0..MaxMessages
      OBVIOUS
    <3> HIDE DEF k, s, tells
    <3> QED BY <3>1, <1>3, <1>6 DEF Messages
  <2>2. \A m \in DOMAIN k : k[m] \in Messages
    BY <2>1, <1>1, <1>5, <1>7 DEF GoodHistory, IsHistory
  <2>3. k = [m \in DOMAIN k |-> k[m]]
    BY DEF Covered
  <2>4. DOMAIN k \subseteq Ids
    BY <1>1 DEF GoodHistory, IsHistory
  <2> HIDE DEF k
  <2> QED BY <2>2, <2>3, <2>4 DEF IsHistory
<1>9. ActiveSummaries(k) = (ActiveSummaries(h) \ S) \union {s}
  <2>1. k[s].marks
    BY <1>3
  <2> HIDE DEF k, s
  <2> QED BY <2>1, <1>1, <1>2, <1>5, <1>7 DEF ActiveSummaries
<1>10. Pending(k) = Pending(h)
  <2>1. ~k[s].pending
    BY <1>3
  <2> HIDE DEF k, s
  <2> QED BY <2>1, <1>1, <1>2, <1>5, <1>7 DEF Pending
<1>11. ASSUME NEW m \in DOMAIN k
       PROVE  /\ k[m].by \in 0..s
              /\ k[m].marks => k[m].summary /\ k[m].by = 0
              /\ k[m].summary => ~k[m].pending
              /\ ~k[m].summary /\ ~k[m].pending => m \in k[m].tells
              /\ ~k[m].summary /\ k[m].by \in ActiveSummaries(k) => k[m].early \/ m \in k[k[m].by].tells
  <2>1. CASE m = s
    <3>1. k[m].by = 0 /\ k[m].summary /\ k[m].marks /\ ~k[m].pending
      BY <2>1, <1>3
    <3> HIDE DEF k
    <3> QED BY <3>1
  <2>2. CASE m \in S
    <3>1. ~h[m].summary /\ ~h[m].pending => m \in h[m].tells
      BY <2>2, <1>2 DEF GoodHistory
    <3>2. ~h[m].summary /\ ~h[m].pending => m \in k[s].tells
      BY <3>1, <2>2, <1>3
    <3>3. h[m].summary => ~h[m].pending
      BY <2>2, <1>2 DEF GoodHistory
    <3>4. s \in 0..s
      OBVIOUS
    <3> HIDE DEF k, s
    <3> QED BY <3>1, <3>2, <3>3, <3>4, <2>2, <1>7
  <2>3. CASE m \in DOMAIN h \ S
    <3>1. k[m] = h[m] /\ m \in DOMAIN h
      BY <2>3, <1>5
    <3>2. h[m].by # s
      BY <3>1 DEF GoodHistory
    <3>3. h[m].by \in ActiveSummaries(k) => h[m].by \in ActiveSummaries(h) /\ k[h[m].by] = h[h[m].by]
      BY <3>2, <1>5, <1>9 DEF ActiveSummaries
    <3>4. h[m].by \in 0..s
      BY <3>1 DEF GoodHistory
    <3> HIDE DEF k, s
    <3> QED BY <3>1, <3>3, <3>4 DEF GoodHistory
  <2> QED BY <2>1, <2>2, <2>3, <1>1
<1>12. DOMAIN k \subseteq 1..s
  BY <1>1 DEF GoodHistory
<1> QED BY <1>1, <1>8, <1>10, <1>11, <1>12 DEF GoodHistory

\* A good history stays good when ids are given out elsewhere.
LEMMA StillGood ==
  ASSUME NEW n \in Nat, NEW k \in Nat, n <= k, NEW h, GoodHistory(h, n)
  PROVE  GoodHistory(h, k)
BY DEF GoodHistory

LEMMA StillGoodRecords ==
  ASSUME NEW n \in Nat, NEW k \in Nat, n <= k, NEW f, Good(f, n)
  PROVE  Good(f, k)
BY StillGood DEF Good

\* In a good history the model is told of every finished message.
LEMMA GoodTells ==
  ASSUME NEW n \in Nat, NEW h, GoodHistory(h, n), NEW m \in DOMAIN h,
         ~h[m].pending, ~h[m].summary, ~h[m].early
  PROVE  m \in Told(h)
<1>1. CASE h[m].by \notin ActiveSummaries(h)
  <2>1. m \in Shown(h) /\ m \in h[m].tells
    BY <1>1 DEF Shown, Visible, GoodHistory
  <2> QED BY <2>1 DEF Told
<1>2. CASE h[m].by \in ActiveSummaries(h)
  <2> DEFINE s == h[m].by
  <2>1. s \in DOMAIN h /\ h[s].marks /\ m \in h[s].tells
    BY <1>2 DEF ActiveSummaries, GoodHistory
  <2>2. h[s].by = 0 /\ 0 \notin DOMAIN h
    BY <2>1 DEF GoodHistory
  <2>3. s \in Shown(h)
    BY <2>1, <2>2 DEF Shown, Visible, ActiveSummaries
  <2> QED BY <2>1, <2>3 DEF Told
<1> QED BY <1>1, <1>2

------------------------------------------------------------------------------
(* The store. *)

\* Whatever changed, a store that was just written is what a restart would read.
LEMMA PersistedMemory ==
  ASSUME MemoryInv, Persist,
         server' = "up", born' \subseteq Conversations,
         parent' \in [Conversations -> Conversations \union {NoParent}],
         \A c \in Conversations : parent'[c] \in born' \union {NoParent},
         issued' \in 0..MaxMessages, held' \in [Readers -> SUBSET Conversations],
         Good(records', issued'), sessions' \subseteq Conversations, Live' \subseteq born',
         failures' \in 0..MaxFailures
  PROVE  MemoryInv'
<1>1. file'.records = records' /\ file'.sessions = sessions'
      /\ file' = [records |-> file'.records, sessions |-> file'.sessions]
  BY DEF Persist
<1>2. DOMAIN file'.records = Live'
  BY <1>1 DEF Live
<1>3. SavedUnlessRemoving'
  BY <1>1, <1>2 DEF SavedUnlessRemoving, Live
<1> QED BY <1>1, <1>2, <1>3 DEF MemoryInv

\* A step that leaves the store alone and ends no removal by hand.
LEMMA MemoryKept ==
  ASSUME MemoryInv, UNCHANGED <<server, born, parent, records, sessions, file, issued>>,
         held' \in [Readers -> SUBSET Conversations],
         failures' \in 0..MaxFailures,
         failures' = 0 /\ (\A d \in Deleters : stage'[d] # "removing") =>
           failures = 0 /\ \A d \in Deleters : stage[d] # "removing"
  PROVE  MemoryInv'
<1>1. Live' = Live
  BY DEF Live
<1>2. SavedUnlessRemoving'
  BY <1>1 DEF MemoryInv, SavedUnlessRemoving, Live
<1> QED BY <1>1, <1>2 DEF MemoryInv

LEMMA BumpKeepsType ==
  ASSUME held \in [Readers -> SUBSET Conversations], NEW C, Bump(C)
  PROVE  held' \in [Readers -> SUBSET Conversations] /\ \A r \in Readers : held'[r] = held[r] \ C
BY DEF Bump

LEMMA UpdatedMemory ==
  ASSUME MemoryInv, NEW c, NEW h, Update(c, h), issued' \in 0..MaxMessages, issued <= issued',
         GoodHistory(h, issued'), failures' \in 0..MaxFailures
  PROVE  /\ MemoryInv' /\ Live' = Live /\ server = "up" /\ server' = "up"
         /\ records'[c] = h /\ \A d \in Live \ {c} : records'[d] = records[d]
<1>1. records' = [records EXCEPT ![c] = h] /\ c \in Live
  BY DEF Update
<1>2. Live' = Live /\ records'[c] = h /\ \A d \in Live \ {c} : records'[d] = records[d]
  BY <1>1 DEF Live
<1>3. server = "up" /\ server' = "up"
  BY <1>1 DEF MemoryInv, Update, Live, NoRecords
<1>4. Good(records', issued')
  <2>1. \A d \in Live' : GoodHistory(records'[d], issued')
    <3> SUFFICES ASSUME NEW d \in Live' PROVE GoodHistory(records'[d], issued')
      OBVIOUS
    <3>1. CASE d = c
      BY <3>1, <1>2
    <3>2. CASE d # c
      <4>1. GoodHistory(records[d], issued)
        BY <1>2, <3>2 DEF MemoryInv, Good, Live
      <4>2. issued \in Nat /\ issued' \in Nat
        BY DEF MemoryInv
      <4> QED BY <4>1, <4>2, <3>2, <1>2, StillGood
    <3> QED BY <3>1, <3>2
  <2>2. AreRecords(records')
    <3>1. \A d \in Live' : IsHistory(records'[d])
      BY <2>1 DEF GoodHistory
    <3>2. DOMAIN records' \subseteq Conversations
      BY <1>2 DEF MemoryInv, Good, AreRecords, Live
    <3>3. records' = [d \in DOMAIN records' |-> records'[d]]
      BY <1>1 DEF MemoryInv, Good, AreRecords, Live
    <3> QED BY <3>1, <3>2, <3>3 DEF AreRecords, Live
  <2> QED BY <2>1, <2>2 DEF Good, Live
<1>5. held' \in [Readers -> SUBSET Conversations]
  BY BumpKeepsType DEF MemoryInv, Update
<1>6. MemoryInv'
  BY <1>2, <1>3, <1>4, <1>5, PersistedMemory DEF MemoryInv, Update
<1> QED BY <1>2, <1>3, <1>6

LEMMA UpdatedWork ==
  ASSUME MemoryInv, WorkInv, NEW c, NEW h, Update(c, h), Live' = Live,
         records'[c] = h, \A d \in Live \ {c} : records'[d] = records[d],
         issued' \in 0..MaxMessages, issued <= issued',
         NEW w \in 0..issued', work' = [work EXCEPT ![c] = w],
         Pending(h) = IF w = 0 THEN {} ELSE {w}
  PROVE  WorkInv'
<1>1. c \in Live /\ c \in Conversations /\ c \in born /\ born' = born
  BY DEF Update, MemoryInv, Live
<1>2. work' \in [Conversations -> 0..MaxMessages] /\ work'[c] = w
      /\ \A d \in Conversations \ {c} : work'[d] = work[d]
  BY <1>1 DEF WorkInv, MemoryInv
<1>3. \A d \in Conversations : work'[d] <= issued' /\ (work'[d] # 0 => d \in born')
  BY <1>1, <1>2 DEF WorkInv, MemoryInv
<1>4. Live \subseteq Conversations
  BY DEF MemoryInv
<1>5. \A d \in Live' : Pending(records'[d]) = IF work'[d] = 0 THEN {} ELSE {work'[d]}
  BY <1>2, <1>4 DEF WorkInv
<1> QED BY <1>2, <1>3, <1>5 DEF WorkInv

\* An update takes its revision from every compaction that reads the same conversation.
LEMMA UpdatedCompact ==
  ASSUME MemoryInv, CompactInv, NEW c, NEW h, Update(c, h), server' = "up", Live' = Live,
         \A d \in Live \ {c} : records'[d] = records[d]
  PROVE  \A r \in Readers :
           on[r] # NoConversation /\ on[r] \in held'[r] => on[r] \in Live' /\ seen[r] = records'[on[r]]
<1>1. \A r \in Readers : held'[r] = held[r] \ {c}
  BY BumpKeepsType DEF Update, MemoryInv
<1> QED BY <1>1 DEF CompactInv

LEMMA CompactKept ==
  ASSUME CompactInv, server' = "up", UNCHANGED compactionVars,
         \A r \in Readers :
           on[r] # NoConversation /\ on[r] \in held'[r] => on[r] \in Live' /\ seen[r] = records'[on[r]]
  PROVE  CompactInv'
BY DEF CompactInv, compactionVars

------------------------------------------------------------------------------
(* Trees and deletions. *)

\* A tree only gains conversations that are new.
LEMMA TreeGains ==
  ASSUME NEW N, NEW r, r \in Live, r \in Live', Live' \ N \subseteq Live,
         \A y \in Live' \ N : parent'[y] = parent[y] /\ parent[y] \notin N
  PROVE  Tree(r)' \subseteq Tree(r) \union N
<1> SUFFICES ASSUME NEW x \in Tree(r)', x \notin N PROVE x \in Tree(r)
  OBVIOUS
<1>1. x \in Live' /\ x \in Live
  BY DEF Tree
<1>2. ASSUME NEW S \in SUBSET Live, r \in S, \A y \in Live : parent[y] \in S => y \in S
      PROVE  x \in S
  <2>1. PICK T : T = (S \union N) \intersect Live'
    OBVIOUS
  <2>2. T \in SUBSET Live' /\ r \in T
    BY <2>1, <1>2
  <2>3. \A y \in Live' : parent'[y] \in T => y \in T
    BY <2>1, <1>2
  <2>4. x \in T
    BY <2>2, <2>3 DEF Tree
  <2> QED BY <2>1, <2>4
<1> QED BY <1>1, <1>2 DEF Tree

LEMMA RootInTree ==
  ASSUME NEW c \in Live
  PROVE  c \in Tree(c) /\ Tree(c) \subseteq Live
BY DEF Tree

\* What else happens while a deletion is under way: new work is younger than the deletion.
LEMMA StillFollows ==
  ASSUME MemoryInv, WorkInv, NEW d \in Deleters, Follows(d), since[d] \in Nat,
         rest[d] \subseteq Conversations,
         server' = "up", issued' \in Nat, issued <= issued', born \subseteq born',
         stage'[d] = stage[d], root'[d] = root[d], since'[d] = since[d],
         asked'[d] = asked[d], rest'[d] = rest[d],
         NEW N, \A x \in N \intersect Conversations : work'[x] = 0,
         Live' \subseteq Conversations,
         \A x \in Conversations : work'[x] \in Nat /\ (work'[x] # 0 => work'[x] = work[x] \/ work'[x] > issued),
         Live' \ N \subseteq Live, N \intersect born = {},
         \A y \in Live' \ N : parent'[y] = parent[y] /\ parent[y] \notin N
  PROVE  Follows(d)'
<1>0. issued \in Nat /\ since'[d] <= issued' /\ since[d] <= issued
  BY DEF MemoryInv, Follows
<1>1. stage'[d] # "idle" => root'[d] \in born'
  BY DEF Follows
<1>2. ASSUME stage'[d] = "stopping", root'[d] \in Live', NEW x \in Tree(root[d])',
             work'[x] # 0, work'[x] <= since'[d]
      PROVE  x \in rest'[d] /\ work'[x] \in asked'[d]
  <2>1. PICK r : r = root[d]
    OBVIOUS
  <2>2. r \in born /\ r \in Live /\ r \in Live'
    <3>1. r \in born
      BY <1>2, <2>1 DEF Follows
    <3> QED BY <3>1, <1>2, <2>1
  <2>3. Tree(r)' \subseteq Tree(r) \union N
    BY <2>1, <2>2, <1>2, TreeGains
  <2>4. x \in Tree(r)' /\ x \in Live'
    BY <1>2, <2>1 DEF Tree
  <2>5. x \notin N /\ work'[x] = work[x]
    BY <2>4, <1>2, <1>0
  <2> QED BY <2>1, <2>2, <2>3, <2>4, <2>5, <1>2 DEF Follows
<1>3. ASSUME stage'[d] = "removing", NEW x \in rest'[d], work'[x] # 0
      PROVE  work'[x] > since'[d]
  BY <1>3, <1>0 DEF Follows
<1> QED BY <1>0, <1>1, <1>2, <1>3 DEF Follows

\* The same for every deletion.
LEMMA DeleteKept ==
  ASSUME MemoryInv, WorkInv, DeleteInv, UNCHANGED requestVars,
         server' = "up", issued' \in 0..MaxMessages, issued <= issued', born \subseteq born',
         NEW N, \A x \in N \intersect Conversations : work'[x] = 0,
         Live' \subseteq Conversations,
         \A x \in Conversations : work'[x] \in Nat /\ (work'[x] # 0 => work'[x] = work[x] \/ work'[x] > issued),
         Live' \ N \subseteq Live, N \intersect born = {},
         \A y \in Live' \ N : parent'[y] = parent[y] /\ parent[y] \notin N
  PROVE  DeleteInv'
<1>1. ASSUME NEW d \in Deleters PROVE Follows(d)'
  BY StillFollows DEF DeleteInv, requestVars
<1> QED BY <1>1 DEF DeleteInv, requestVars

------------------------------------------------------------------------------
(* What every step keeps: the invariant, work stopped before its record goes, *)
(* and the log.                                                               *)

LogVars == <<IF server = "up" THEN IdsOf(records) ELSE IdsOf(file.records), IdsOf(file.records), issued>>

Keeps ==
  /\ IInv'
  /\ \A c \in Live \ DOMAIN records' :
       server' = "up" /\ work[c] # 0 => \E d \in Deleters : stage[d] # "idle" /\ work[c] > since[d]
  /\ Log!Next \/ UNCHANGED LogVars

\* A step that writes the file and leaves the messages of every conversation alone saves the log.
LEMMA LogSaved ==
  ASSUME server = "up", server' = "up", file'.records = records', Live' = Live,
         \A c \in Live : DOMAIN records'[c] = DOMAIN records[c], UNCHANGED issued
  PROVE  Log!Next
<1>1. IdsOf(records') = IdsOf(records)
  BY DEF IdsOf, Live
<1>2. Log!Save
  BY <1>1 DEF Log!Save
<1> QED BY <1>2 DEF Log!Next

\* An update with one more message.
LEMMA LogGrows ==
  ASSUME MemoryInv, server = "up", server' = "up", file'.records = records', Live' = Live, NEW c \in Live,
         DOMAIN records'[c] = DOMAIN records[c] \union {issued + 1},
         \A d \in Live \ {c} : records'[d] = records[d], issued' = issued + 1
  PROVE  Log!Next
<1>1. IdsOf(records') = [IdsOf(records) EXCEPT ![c] = @ \union {issued + 1}]
  BY DEF IdsOf, Live
<1>2. c \in DOMAIN IdsOf(records)
  BY DEF IdsOf, Live
<1>3. Log!Add(c)
  BY <1>1, <1>2 DEF Log!Add
<1> QED BY <1>2, <1>3 DEF Log!Next

LEMMA NewReplyKeeps ==
  ASSUME IInv, NEW c \in Conversations, BeginsWork(c), UNCHANGED compactionVars
  PROVE  Keeps
<1> DEFINE h == With(records[c], issued + 1, NewReply)
<1>1. Update(c, h) /\ issued' = issued + 1 /\ issued' \in 0..MaxMessages /\ c \in Live
  BY DEF BeginsWork, AddReply, IInv, MemoryInv
<1>2. GoodHistory(records[c], issued) /\ Pending(records[c]) = {}
  BY <1>1 DEF BeginsWork, IInv, MemoryInv, WorkInv, Good, Live
<1>3. GoodHistory(h, issued') /\ Pending(h) = {issued'} /\ DOMAIN h = DOMAIN records[c] \union {issued'}
  <2>1. issued \in Nat /\ issued + 1 <= MaxMessages
    BY <1>1 DEF IInv, MemoryInv
  <2> QED BY <2>1, <1>1, <1>2, AddedReply
<1> HIDE DEF h
<1>4. failures' \in 0..MaxFailures
  BY DEF BeginsWork, IInv, MemoryInv
<1>5. /\ MemoryInv' /\ Live' = Live /\ server = "up" /\ server' = "up"
      /\ records'[c] = h /\ \A d \in Live \ {c} : records'[d] = records[d]
  <2>1. issued <= issued'
    BY <1>1 DEF IInv, MemoryInv
  <2> QED BY <2>1, <1>1, <1>3, <1>4, UpdatedMemory DEF IInv
<1>6. work' = [work EXCEPT ![c] = issued']
  BY <1>1 DEF BeginsWork
<1>7. WorkInv'
  <2>1. issued <= issued' /\ issued' \in 0..issued' /\ issued' # 0
    BY <1>1 DEF IInv, MemoryInv
  <2> QED BY <2>1, <1>1, <1>3, <1>5, <1>6, UpdatedWork DEF IInv
<1>8. CompactInv'
  BY <1>1, <1>5, UpdatedCompact, CompactKept DEF IInv
<1>9. DeleteInv'
  <2>1. \A x \in Conversations : work'[x] \in Nat /\ (work'[x] # 0 => work'[x] = work[x] \/ work'[x] > issued)
    BY <1>1, <1>6 DEF IInv, WorkInv, MemoryInv
  <2>2. UNCHANGED requestVars /\ born' = born /\ parent' = parent /\ issued <= issued'
    BY <1>1 DEF BeginsWork, Update, IInv, MemoryInv
  <2>3. Live' \subseteq Conversations /\ Live' \subseteq Live
    BY <1>5 DEF IInv, MemoryInv
  <2>4. {} \intersect born = {} /\ Live' \ {} \subseteq Live /\ born \subseteq born'
        /\ (\A x \in {} \intersect Conversations : work'[x] = 0)
        /\ \A y \in Live' \ {} : parent'[y] = parent[y] /\ parent[y] \notin {}
    BY <2>2, <2>3
  <2> QED BY <2>1, <2>2, <2>3, <2>4, <1>1, <1>5, DeleteKept DEF IInv
<1>10. Log!Next
  <2>1. file'.records = records'
    BY <1>1 DEF Update, Persist
  <2> QED BY <2>1, <1>1, <1>3, <1>5, LogGrows DEF IInv
<1> QED BY <1>5, <1>7, <1>8, <1>9, <1>10 DEF Keeps, IInv, Live

\* An update that gives out no id, with or without the end of the work that wrote the reply.
LEMMA QuietUpdate ==
  ASSUME IInv, NEW c \in Conversations, NEW h, Update(c, h), UNCHANGED <<issued, failures>>,
         UNCHANGED compactionVars,
         GoodHistory(h, issued),
         NEW w \in {0, work[c]}, work' = [work EXCEPT ![c] = w],
         Pending(h) = IF w = 0 THEN {} ELSE {w}
  PROVE  /\ MemoryInv' /\ WorkInv' /\ CompactInv'
         /\ server = "up" /\ server' = "up" /\ Live' = Live /\ file'.records = records'
         /\ records'[c] = h /\ \A d \in Live \ {c} : records'[d] = records[d]
         /\ born' = born /\ parent' = parent
<1>1. issued \in Nat /\ issued' \in 0..MaxMessages /\ issued <= issued' /\ failures' \in 0..MaxFailures
  BY DEF IInv, MemoryInv
<1>2. /\ MemoryInv' /\ Live' = Live /\ server = "up" /\ server' = "up"
      /\ records'[c] = h /\ \A d \in Live \ {c} : records'[d] = records[d]
  BY <1>1, UpdatedMemory DEF IInv
<1>3. w \in 0..issued'
  BY <1>1 DEF IInv, WorkInv
<1>4. WorkInv'
  BY <1>1, <1>2, <1>3, UpdatedWork DEF IInv
<1>5. CompactInv'
  BY <1>2, UpdatedCompact, CompactKept DEF IInv
<1> QED BY <1>2, <1>4, <1>5 DEF Update, Persist

\* Deletions and a step that neither starts work nor creates or removes a conversation.
LEMMA QuietDeletions ==
  ASSUME IInv, UNCHANGED <<issued, born, parent>>, server' = "up", Live' \subseteq Live,
         NEW d \in Deleters,
         \A x \in Conversations : work'[x] \in {0, work[x]},
         stage'[d] = stage[d], root'[d] = root[d], since'[d] = since[d],
         asked'[d] = asked[d], rest'[d] = rest[d]
  PROVE  Follows(d)'
<1>1. \A x \in Conversations : work'[x] \in Nat /\ (work'[x] # 0 => work'[x] = work[x] \/ work'[x] > issued)
  BY DEF IInv, WorkInv
<1>2. Live' \subseteq Conversations /\ issued' \in Nat /\ issued <= issued' /\ born \subseteq born'
  BY DEF IInv, MemoryInv
<1>3. Follows(d) /\ since[d] \in Nat /\ rest[d] \subseteq Conversations
  BY DEF IInv, DeleteInv
<1>4. {} \intersect born = {} /\ Live' \ {} \subseteq Live
      /\ (\A x \in {} \intersect Conversations : work'[x] = 0)
      /\ \A y \in Live' \ {} : parent'[y] = parent[y] /\ parent[y] \notin {}
  OBVIOUS
<1> QED BY <1>1, <1>2, <1>3, <1>4, StillFollows DEF IInv

LEMMA QuietRequests ==
  ASSUME IInv, UNCHANGED <<issued, born, parent>>, server' = "up", Live' = Live, UNCHANGED requestVars,
         \A x \in Conversations : work'[x] \in {0, work[x]}
  PROVE  DeleteInv'
<1>1. ASSUME NEW d \in Deleters PROVE Follows(d)'
  BY QuietDeletions DEF requestVars
<1>2. issued' = issued
  OBVIOUS
<1> QED BY <1>1, <1>2 DEF IInv, DeleteInv, requestVars

\* A step that leaves the store alone and ends at most work that has no record.
LEMMA StoreAlone ==
  ASSUME IInv, UNCHANGED recordVars, server = "up",
         failures' \in 0..MaxFailures,
         failures' = 0 /\ (\A d \in Deleters : stage'[d] # "removing") =>
           failures = 0 /\ \A d \in Deleters : stage[d] # "removing",
         work' \in [Conversations -> 0..MaxMessages],
         \A x \in Conversations : work'[x] \in {0, work[x]} /\ (x \in Live => work'[x] = work[x])
  PROVE  /\ MemoryInv' /\ WorkInv' /\ server' = "up" /\ Live' = Live
         /\ UNCHANGED <<issued, born, parent, records, held>> /\ UNCHANGED LogVars
         /\ UNCHANGED compactionVars => CompactInv'
<1>1. UNCHANGED <<server, born, parent, records, sessions, file, issued, held>> /\ Live' = Live
  BY DEF recordVars, Live
<1>2. MemoryInv'
  <2>1. held' \in [Readers -> SUBSET Conversations]
    BY <1>1 DEF IInv, MemoryInv
  <2> QED BY <1>1, <2>1, MemoryKept DEF IInv
<1>3. WorkInv'
  <2>1. \A x \in Conversations : work'[x] <= issued' /\ (work'[x] # 0 => x \in born')
    BY <1>1 DEF IInv, WorkInv, MemoryInv
  <2>2. \A x \in Live' : Pending(records'[x]) = IF work'[x] = 0 THEN {} ELSE {work'[x]}
    BY <1>1 DEF IInv, WorkInv, MemoryInv
  <2> QED BY <2>1, <2>2 DEF WorkInv
<1>4. UNCHANGED LogVars
  BY <1>1 DEF LogVars, IdsOf
<1>5. UNCHANGED compactionVars => CompactInv'
  BY <1>1, CompactKept DEF IInv, CompactInv
<1> QED BY <1>1, <1>2, <1>3, <1>4, <1>5

LEMMA EndsWorkKeeps ==
  ASSUME IInv, NEW c \in Conversations, EndsWork(c), UNCHANGED compactionVars
  PROVE  Keeps
<1>1. work' = [work EXCEPT ![c] = 0] /\ UNCHANGED requestVars /\ UNCHANGED failures
      /\ server = "up" /\ work \in [Conversations -> 0..MaxMessages]
  BY DEF EndsWork, Idles, IInv, WorkInv
<1>2. \A x \in Conversations : work'[x] \in {0, work[x]} /\ (x # c => work'[x] = work[x])
  BY <1>1
<1>3. CASE c \in Live
  <2>1. Update(c, Finished(records[c])) /\ UNCHANGED issued
    BY <1>3 DEF EndsWork, FinishReply
  <2>2. GoodHistory(records[c], issued) /\ issued \in Nat
    BY <1>3 DEF IInv, MemoryInv, Good, Live
  <2>3. GoodHistory(Finished(records[c]), issued) /\ Pending(Finished(records[c])) = {}
        /\ DOMAIN Finished(records[c]) = DOMAIN records[c]
    BY <2>2, FinishedReply
  <2>4. PICK h : h = Finished(records[c])
    OBVIOUS
  <2>5. /\ MemoryInv' /\ WorkInv' /\ CompactInv'
        /\ server = "up" /\ server' = "up" /\ Live' = Live /\ file'.records = records'
        /\ records'[c] = h /\ \A d \in Live \ {c} : records'[d] = records[d]
        /\ born' = born /\ parent' = parent
    <3>1. Pending(h) = IF 0 = 0 THEN {} ELSE {0}
      BY <2>3, <2>4
    <3> QED BY <3>1, <1>1, <2>1, <2>3, <2>4, QuietUpdate
  <2>6. DeleteInv'
    BY <2>1, <2>5, <1>1, <1>2, QuietRequests
  <2>7. Log!Next
    BY <2>1, <2>3, <2>4, <2>5, LogSaved
  <2> QED BY <2>5, <2>6, <2>7 DEF Keeps, IInv, Live
<1>4. CASE c \notin Live
  <2>1. UNCHANGED recordVars
    BY <1>4 DEF EndsWork
  <2>2. failures' \in 0..MaxFailures /\ stage' = stage
    BY <1>1 DEF IInv, MemoryInv, requestVars
  <2>3. work' \in [Conversations -> 0..MaxMessages]
    BY <1>1
  <2>4. /\ MemoryInv' /\ WorkInv' /\ CompactInv' /\ server' = "up" /\ Live' = Live
        /\ UNCHANGED <<issued, born, parent>> /\ UNCHANGED LogVars
    BY <1>1, <1>2, <1>4, <2>1, <2>2, <2>3, StoreAlone
  <2>5. DeleteInv'
    BY <2>4, <1>1, <1>2, QuietRequests
  <2> QED BY <2>4, <2>5 DEF Keeps, IInv, Live
<1> QED BY <1>3, <1>4

LEMMA CreateKeeps ==
  ASSUME IInv, NEW c \in Conversations, NEW p \in Parents, Create(c, p),
         UNCHANGED <<compactionVars, deletionVars>>
  PROVE  Keeps
<1>1. /\ server = "up" /\ server' = "up" /\ c \notin born /\ p # c
      /\ born' = born \union {c} /\ parent' = [parent EXCEPT ![c] = p]
      /\ UNCHANGED <<sessions, issued, held, work, failures, compactionVars, requestVars>> /\ Persist
  BY DEF Create, deletionVars
<1>2. c \notin Live /\ Live' = Live \union {c}
      /\ records'[c] = [m \in {} |-> 0] /\ \A d \in Live : records'[d] = records[d]
  BY <1>1 DEF Create, Live, IInv, MemoryInv
<1>3. p \in born \union {NoParent} /\ p \in Conversations \union {NoParent}
  BY DEF Parents, IInv, MemoryInv, WorkInv
<1>4. GoodHistory([m \in {} |-> 0], issued) /\ Pending([m \in {} |-> 0]) = {}
  BY DEF GoodHistory, IsHistory, Pending
<1>5. Good(records', issued')
  <2>1. \A d \in Live' : GoodHistory(records'[d], issued')
    BY <1>1, <1>2, <1>4 DEF IInv, MemoryInv, Good, Live
  <2>2. \A d \in Live' : IsHistory(records'[d])
    BY <2>1 DEF GoodHistory
  <2>3. DOMAIN records' \subseteq Conversations
    BY <1>2 DEF IInv, MemoryInv, Good, AreRecords, Live
  <2>4. records' = [d \in DOMAIN records' |-> records'[d]]
    BY DEF Create
  <2> QED BY <2>1, <2>2, <2>3, <2>4 DEF Good, AreRecords, Live
<1>6. MemoryInv'
  <2>1. parent' \in [Conversations -> Conversations \union {NoParent}]
    BY <1>1, <1>3 DEF IInv, MemoryInv
  <2>2. \A d \in Conversations : parent'[d] \in born' \union {NoParent}
    BY <1>1, <1>3 DEF IInv, MemoryInv
  <2>3. born' \subseteq Conversations /\ Live' \subseteq born' /\ sessions' \subseteq Conversations
        /\ issued' \in 0..MaxMessages /\ held' \in [Readers -> SUBSET Conversations]
        /\ failures' \in 0..MaxFailures
    BY <1>1, <1>2 DEF IInv, MemoryInv
  <2> QED BY <2>1, <2>2, <2>3, <1>1, <1>5, PersistedMemory DEF IInv
<1>7. WorkInv'
  <2>1. work[c] = 0
    BY <1>1 DEF IInv, WorkInv
  <2>2. \A d \in Live' : Pending(records'[d]) = IF work'[d] = 0 THEN {} ELSE {work'[d]}
    BY <2>1, <1>1, <1>2, <1>4 DEF IInv, WorkInv
  <2> QED BY <2>2, <1>1 DEF IInv, WorkInv
<1>8. CompactInv'
  BY <1>1, <1>2, CompactKept DEF IInv, CompactInv
<1>9. DeleteInv'
  <2>1. \A x \in Conversations : work'[x] \in Nat /\ (work'[x] # 0 => work'[x] = work[x] \/ work'[x] > issued)
    BY <1>1 DEF IInv, WorkInv
  <2>2. \A x \in {c} \intersect Conversations : work'[x] = 0
    BY <1>1 DEF IInv, WorkInv
  <2>3. Live' \subseteq Conversations /\ Live' \ {c} \subseteq Live /\ {c} \intersect born = {}
        /\ issued' \in 0..MaxMessages /\ issued <= issued' /\ born \subseteq born'
    BY <1>1, <1>2 DEF IInv, MemoryInv
  <2>4. \A y \in Live' \ {c} : parent'[y] = parent[y] /\ parent[y] \notin {c}
    BY <1>1, <1>2 DEF IInv, MemoryInv
  <2> QED BY <2>1, <2>2, <2>3, <2>4, <1>1, DeleteKept DEF IInv
<1>10. Log!Next
  <2>1. IdsOf(records') = [d \in DOMAIN IdsOf(records) \union {c} |-> IF d = c THEN {} ELSE IdsOf(records)[d]]
    BY <1>2 DEF IdsOf, Live
  <2>2. file'.records = records'
    BY <1>1 DEF Persist
  <2>3. c \notin DOMAIN IdsOf(records) /\ c \in DOMAIN IdsOf(records')
    BY <1>2 DEF IdsOf, Live
  <2>4. Log!Create(c)
    BY <2>1, <2>2, <2>3, <1>1 DEF Log!Create
  <2> QED BY <2>3, <2>4, <1>1 DEF Log!Next
<1> QED BY <1>2, <1>6, <1>7, <1>8, <1>9, <1>10 DEF Keeps, IInv, Live

\* Sessions: everything but the sessions and the file stays.
LEMMA SessionKeeps ==
  ASSUME IInv, server = "up", UNCHANGED <<server, born, parent, records, issued, held>>,
         sessions' \subseteq Conversations, Persist, UNCHANGED <<compactionVars, deletionVars>>
  PROVE  Keeps
<1>1. Live' = Live /\ server' = "up" /\ file'.records = records'
      /\ UNCHANGED <<work, requestVars, failures, compactionVars>>
  BY DEF Live, Persist, deletionVars
<1>2. MemoryInv'
  BY <1>1, PersistedMemory DEF IInv, MemoryInv, Good
<1>3. WorkInv'
  BY <1>1 DEF IInv, WorkInv
<1>4. CompactInv'
  BY <1>1, CompactKept DEF IInv, CompactInv
<1>5. DeleteInv'
  BY <1>1, QuietRequests
<1>6. Log!Next
  BY <1>1, LogSaved
<1> QED BY <1>1, <1>2, <1>3, <1>4, <1>5, <1>6 DEF Keeps, IInv, Live

LEMMA UsersKeep ==
  ASSUME IInv, Users
  PROVE  Keeps
<1>0. UNCHANGED <<compactionVars, deletionVars>>
  BY DEF Users
<1>1. PICK c \in Conversations :
        \/ \E p \in Parents : Create(c, p)
        \/ \E m \in Ids : DeleteMessage(c, m)
        \/ Touch(c) \/ StartSession(c) \/ EndSession(c)
  BY DEF Users
<1>2. ASSUME NEW h, Update(c, h), UNCHANGED issued, GoodHistory(h, issued),
             Pending(h) = Pending(records[c]),
             \/ DOMAIN h = DOMAIN records[c]
             \/ \E m \in DOMAIN records[c] : DOMAIN h = DOMAIN records[c] \ {m}
      PROVE  Keeps
  <2>1. c \in Live /\ UNCHANGED <<compactionVars, work, failures, requestVars>>
    BY <1>0, <1>2 DEF Update, deletionVars
  <2>2. work' = [work EXCEPT ![c] = work[c]]
    BY <2>1 DEF IInv, WorkInv
  <2>3. Pending(h) = IF work[c] = 0 THEN {} ELSE {work[c]}
    BY <2>1, <1>2 DEF IInv, WorkInv
  <2>4. /\ MemoryInv' /\ WorkInv' /\ CompactInv'
        /\ server = "up" /\ server' = "up" /\ Live' = Live /\ file'.records = records'
        /\ records'[c] = h /\ \A d \in Live \ {c} : records'[d] = records[d]
        /\ born' = born /\ parent' = parent
    BY <2>1, <2>2, <2>3, <1>2, QuietUpdate
  <2>5. DeleteInv'
    BY <2>1, <2>4, <1>2, QuietRequests
  <2>6. Log!Next
    <3>1. CASE DOMAIN h = DOMAIN records[c]
      BY <3>1, <2>4, <1>2, LogSaved
    <3>2. CASE \E m \in DOMAIN records[c] : DOMAIN h = DOMAIN records[c] \ {m}
      <4>1. PICK m \in DOMAIN records[c] : DOMAIN h = DOMAIN records[c] \ {m}
        BY <3>2
      <4>2. IdsOf(records') = [IdsOf(records) EXCEPT ![c] = @ \ {m}]
        BY <4>1, <2>1, <2>4 DEF IdsOf, Live
      <4>3. c \in DOMAIN IdsOf(records) /\ m \in IdsOf(records)[c]
        BY <2>1 DEF IdsOf, Live
      <4>4. Log!Drop(c, m)
        BY <4>2, <4>3, <2>4, <1>2 DEF Log!Drop
      <4> QED BY <4>3, <4>4, <2>4 DEF Log!Next
    <3> QED BY <3>1, <3>2, <1>2
  <2> QED BY <2>4, <2>5, <2>6 DEF Keeps, IInv, Live
<1>3. c \in Live => GoodHistory(records[c], issued) /\ issued \in Nat
  BY DEF IInv, MemoryInv, Good, Live
<1>4. CASE \E p \in Parents : Create(c, p)
  BY <1>0, <1>4, CreateKeeps
<1>5. ASSUME NEW m \in Ids, DeleteMessage(c, m)
      PROVE  Keeps
  <2>1. c \in Live /\ m \in DOMAIN records[c] /\ ~records[c][m].pending
        /\ Update(c, Without(records[c], m)) /\ UNCHANGED issued
    BY <1>5 DEF DeleteMessage
  <2>2. PICK h : h = Without(records[c], m)
    OBVIOUS
  <2>3. GoodHistory(h, issued) /\ Pending(h) = Pending(records[c]) /\ DOMAIN h = DOMAIN records[c] \ {m}
    BY <2>1, <2>2, <1>3, DroppedMessage
  <2> QED BY <2>1, <2>2, <2>3, <1>2
<1>6. CASE Touch(c)
  BY <1>6, <1>2, <1>3 DEF Touch
<1>7. CASE StartSession(c)
  <2>1. sessions' \subseteq Conversations
    BY <1>7 DEF StartSession, IInv, MemoryInv
  <2> QED BY <1>0, <1>7, <2>1, SessionKeeps DEF StartSession
<1>8. CASE EndSession(c)
  <2>1. sessions' \subseteq Conversations
    BY <1>8 DEF EndSession, IInv, MemoryInv
  <2> QED BY <1>0, <1>8, <2>1, SessionKeeps DEF EndSession
<1> QED BY <1>1, <1>4, <1>5, <1>6, <1>7, <1>8

------------------------------------------------------------------------------
(* Compactions. *)

LEMMA ShownIds ==
  ASSUME NEW h, IsHistory(h), NEW S \in Prefixes(h)
  PROVE  S \subseteq Shown(h) /\ S \subseteq Ids
BY DEF Prefixes, Shown, Visible, IsHistory

LEMMA CompactsKeep ==
  ASSUME IInv, Compacts
  PROVE  Keeps
<1>0. UNCHANGED <<work, failures, requestVars>> /\ stage' = stage
  BY DEF Compacts, deletionVars, requestVars
<1>1. PICK r \in Readers :
        (\E c \in Conversations : StartCompaction(r, c)) \/ AsksAgain(r) \/ GivesUp(r) \/ Replaces(r)
  BY DEF Compacts
<1>2. \A x \in Conversations : work'[x] \in {0, work[x]} /\ (x \in Live => work'[x] = work[x])
  BY <1>0
<1>3. failures' \in 0..MaxFailures /\ work' \in [Conversations -> 0..MaxMessages]
  BY <1>0 DEF IInv, MemoryInv, WorkInv
<1>4. ASSUME UNCHANGED recordVars, server = "up"
      PROVE  /\ MemoryInv' /\ WorkInv' /\ DeleteInv' /\ UNCHANGED LogVars
             /\ server' = "up" /\ Live' = Live /\ UNCHANGED <<records, held>>
  <2>1. /\ MemoryInv' /\ WorkInv' /\ server' = "up" /\ Live' = Live
        /\ UNCHANGED <<issued, born, parent, records, held>> /\ UNCHANGED LogVars
    BY <1>0, <1>2, <1>3, <1>4, StoreAlone
  <2>2. DeleteInv'
    BY <1>0, <1>2, <2>1, QuietRequests
  <2> QED BY <2>1, <2>2
<1>5. on[r] # NoConversation => server = "up"
  BY DEF IInv, CompactInv, MemoryInv
<1>6. ASSUME NEW c \in Conversations, StartCompaction(r, c)
      PROVE  Keeps
  <2>1. /\ server = "up" /\ c \in Live /\ c # NoConversation
        /\ on' = [on EXCEPT ![r] = c] /\ seen' = [seen EXCEPT ![r] = records[c]]
        /\ held' = [held EXCEPT ![r] = {c}]
        /\ UNCHANGED <<server, born, parent, records, sessions, file, issued>> /\ Live' = Live
    BY <1>6 DEF StartCompaction, Live
  <2>2. held' \in [Readers -> SUBSET Conversations]
    BY <2>1 DEF IInv, MemoryInv
  <2>3. MemoryInv'
    BY <2>1, <2>2, <1>0, <1>3, MemoryKept DEF IInv
  <2>4. WorkInv'
    BY <2>1, <1>0 DEF IInv, WorkInv
  <2>5. DeleteInv'
    BY <1>0, <1>2, <2>1, QuietRequests
  <2>6. PICK S \in Prefixes(records[c]) : chosen' = [chosen EXCEPT ![r] = S]
    BY <1>6 DEF StartCompaction
  <2>7. IsHistory(records[c])
    BY <2>1 DEF IInv, MemoryInv, Good, GoodHistory, Live
  <2>8. S \subseteq Shown(records[c]) /\ S \subseteq Ids
    BY <2>6, <2>7, ShownIds
  <2>9. CompactInv'
    <3>1. on' \in [Readers -> Conversations \union {NoConversation}] /\ chosen' \in [Readers -> SUBSET Ids]
          /\ seen' = [q \in Readers |-> seen'[q]]
      BY <2>1, <2>6, <2>8 DEF IInv, CompactInv
    <3>2. ASSUME NEW q \in Readers
          PROVE  /\ IsHistory(seen'[q])
                 /\ on'[q] # NoConversation /\ on'[q] \in held'[q] =>
                      on'[q] \in Live' /\ seen'[q] = records'[on'[q]]
                 /\ chosen'[q] \subseteq Shown(seen'[q])
                 /\ server' = "down" => on'[q] = NoConversation
      <4>1. CASE q = r
        <5>1. seen'[q] = records[c] /\ on'[q] = c /\ chosen'[q] = S
          BY <4>1, <2>1, <2>6 DEF IInv, CompactInv
        <5> QED BY <5>1, <2>1, <2>7, <2>8
      <4>2. CASE q # r
        <5>1. seen'[q] = seen[q] /\ on'[q] = on[q] /\ chosen'[q] = chosen[q] /\ held'[q] = held[q]
          BY <4>2, <2>1, <2>6 DEF IInv, CompactInv, MemoryInv
        <5> QED BY <5>1, <2>1 DEF IInv, CompactInv
      <4> QED BY <4>1, <4>2
    <3> QED BY <3>1, <3>2 DEF CompactInv
  <2>10. UNCHANGED LogVars
    BY <2>1 DEF LogVars, IdsOf
  <2> QED BY <2>1, <2>3, <2>4, <2>5, <2>9, <2>10 DEF Keeps, IInv, Live
<1>7. CASE AsksAgain(r)
  <2>1. UNCHANGED <<recordVars, on, seen>> /\ server = "up" /\ on[r] # NoConversation
    BY <1>5, <1>7 DEF AsksAgain
  <2>2. PICK S \in Prefixes(seen[r]) : chosen' = [chosen EXCEPT ![r] = S]
    BY <1>7 DEF AsksAgain
  <2>3. S \subseteq Shown(seen[r]) /\ S \subseteq Ids
    BY <2>2, ShownIds DEF IInv, CompactInv
  <2>4. MemoryInv' /\ WorkInv' /\ DeleteInv' /\ UNCHANGED LogVars /\ server' = "up" /\ Live' = Live
        /\ UNCHANGED <<records, held>>
    BY <2>1, <1>4
  <2>5. CompactInv'
    <3>1. chosen' \in [Readers -> SUBSET Ids]
          /\ \A q \in Readers : chosen'[q] = IF q = r THEN S ELSE chosen[q]
      BY <2>2, <2>3 DEF IInv, CompactInv
    <3>2. \A q \in Readers : chosen'[q] \subseteq Shown(seen[q])
      BY <3>1, <2>3 DEF IInv, CompactInv
    <3> QED BY <3>1, <3>2, <2>1, <2>4 DEF IInv, CompactInv
  <2> QED BY <2>4, <2>5 DEF Keeps, IInv, Live
<1>8. ASSUME Ends(r), server' = "up",
             \A q \in Readers : on[q] # NoConversation /\ on[q] \in held'[q] =>
               on[q] \in Live' /\ seen[q] = records'[on[q]]
      PROVE  CompactInv'
  <2>1. /\ on' = [on EXCEPT ![r] = NoConversation]
        /\ seen' = [seen EXCEPT ![r] = [m \in {} |-> 0]]
        /\ chosen' = [chosen EXCEPT ![r] = {}]
    BY <1>8 DEF Ends
  <2>2. on' \in [Readers -> Conversations \union {NoConversation}] /\ chosen' \in [Readers -> SUBSET Ids]
        /\ seen' = [q \in Readers |-> seen'[q]]
    BY <2>1 DEF IInv, CompactInv
  <2>3. IsHistory([m \in {} |-> 0])
    BY DEF IsHistory
  <2>4. ASSUME NEW q \in Readers
        PROVE  /\ IsHistory(seen'[q])
               /\ on'[q] # NoConversation /\ on'[q] \in held'[q] =>
                    on'[q] \in Live' /\ seen'[q] = records'[on'[q]]
               /\ chosen'[q] \subseteq Shown(seen'[q])
               /\ server' = "down" => on'[q] = NoConversation
    <3>1. CASE q = r
      <4>1. on'[q] = NoConversation /\ chosen'[q] = {} /\ seen'[q] = [m \in {} |-> 0]
        BY <3>1, <2>1 DEF IInv, CompactInv
      <4> QED BY <4>1, <2>3, <1>8
    <3>2. CASE q # r
      <4>1. on'[q] = on[q] /\ chosen'[q] = chosen[q] /\ seen'[q] = seen[q]
        BY <3>2, <2>1 DEF IInv, CompactInv
      <4> QED BY <4>1, <1>8 DEF IInv, CompactInv
    <3> QED BY <3>1, <3>2
  <2> QED BY <2>2, <2>4 DEF CompactInv
<1>9. CASE GivesUp(r)
  <2>1. UNCHANGED recordVars /\ server = "up" /\ Ends(r)
    BY <1>5, <1>9 DEF GivesUp
  <2>2. MemoryInv' /\ WorkInv' /\ DeleteInv' /\ UNCHANGED LogVars /\ server' = "up" /\ Live' = Live
        /\ UNCHANGED <<records, held>>
    BY <2>1, <1>4
  <2>3. CompactInv'
    BY <2>1, <2>2, <1>8 DEF IInv, CompactInv
  <2> QED BY <2>2, <2>3 DEF Keeps, IInv, Live
<1>10. CASE Replaces(r)
  <2>1. PICK c : c = on[r]
    OBVIOUS
  <2>2. PICK h : h = Covered(seen[r], chosen[r], issued + 1)
    OBVIOUS
  <2>3. /\ c \in Live /\ c \in Conversations /\ issued < MaxMessages /\ issued' = issued + 1
        /\ issued \in Nat /\ issued' \in 0..MaxMessages /\ issued <= issued' /\ issued + 1 <= MaxMessages
        /\ Update(c, h) /\ Ends(r)
    BY <1>10, <2>1, <2>2 DEF Replaces, IInv, MemoryInv
  <2>4. seen[r] = records[c] /\ chosen[r] \subseteq Shown(seen[r])
    BY <1>10, <2>1 DEF Replaces, IInv, CompactInv
  <2>5. GoodHistory(records[c], issued)
    BY <2>3 DEF IInv, MemoryInv, Good, Live
  <2>6. GoodHistory(h, issued') /\ Pending(h) = Pending(records[c])
        /\ DOMAIN h = DOMAIN records[c] \union {issued + 1}
    BY <2>2, <2>3, <2>4, <2>5, CoveredPrefix
  <2>7. /\ MemoryInv' /\ Live' = Live /\ server = "up" /\ server' = "up"
        /\ records'[c] = h /\ \A d \in Live \ {c} : records'[d] = records[d]
    BY <2>3, <2>6, <1>3, UpdatedMemory DEF IInv
  <2>8. WorkInv'
    <3>1. work' = [work EXCEPT ![c] = work[c]]
      BY <2>3, <1>0 DEF IInv, WorkInv
    <3>2. Pending(h) = IF work[c] = 0 THEN {} ELSE {work[c]}
      BY <2>3, <2>6 DEF IInv, WorkInv
    <3>3. work[c] \in 0..issued'
      BY <2>3 DEF IInv, WorkInv
    <3> QED BY <3>1, <3>2, <3>3, <2>3, <2>7, UpdatedWork DEF IInv
  <2>9. CompactInv'
    <3>1. \A q \in Readers : on[q] # NoConversation /\ on[q] \in held'[q] =>
            on[q] \in Live' /\ seen[q] = records'[on[q]]
      BY <2>3, <2>7, UpdatedCompact DEF IInv
    <3> QED BY <3>1, <2>3, <2>7, <1>8
  <2>10. DeleteInv'
    <3>1. \A x \in Conversations : work'[x] \in Nat /\ (work'[x] # 0 => work'[x] = work[x] \/ work'[x] > issued)
      BY <1>0 DEF IInv, WorkInv
    <3>2. born' = born /\ parent' = parent
      BY <2>3 DEF Update
    <3>3. Live' \subseteq Conversations /\ Live' \subseteq Live
      BY <2>7 DEF IInv, MemoryInv
    <3>4. {} \intersect born = {} /\ Live' \ {} \subseteq Live /\ born \subseteq born'
          /\ (\A x \in {} \intersect Conversations : work'[x] = 0)
          /\ \A y \in Live' \ {} : parent'[y] = parent[y] /\ parent[y] \notin {}
      BY <3>2, <3>3
    <3> QED BY <3>1, <3>3, <3>4, <1>0, <2>3, <2>7, DeleteKept DEF IInv
  <2>11. Log!Next
    <3>1. file'.records = records'
      BY <2>3 DEF Update, Persist
    <3> QED BY <3>1, <2>3, <2>6, <2>7, LogGrows DEF IInv
  <2> QED BY <2>7, <2>8, <2>9, <2>10, <2>11 DEF Keeps, IInv, Live
<1> QED BY <1>1, <1>6, <1>7, <1>9, <1>10

------------------------------------------------------------------------------
(* Deletions. *)

\* Every deletion but d goes on; what d did is shown by the step itself.
LEMMA OneDeletion ==
  ASSUME IInv, NEW d \in Deleters, UNCHANGED <<issued, born, parent>>, server' = "up", Live' \subseteq Live,
         \A x \in Conversations : work'[x] \in {0, work[x]},
         NEW s \in {"idle", "stopping", "removing"}, NEW r \in Conversations \union {NoParent},
         NEW n \in 0..MaxMessages, NEW A \in SUBSET Ids, NEW R \in SUBSET Conversations,
         stage' = [stage EXCEPT ![d] = s], root' = [root EXCEPT ![d] = r],
         since' = [since EXCEPT ![d] = n], asked' = [asked EXCEPT ![d] = A],
         rest' = [rest EXCEPT ![d] = R],
         Follows(d)'
  PROVE  DeleteInv'
<1>1. /\ stage' \in [Deleters -> {"idle", "stopping", "removing"}]
      /\ root' \in [Deleters -> Conversations \union {NoParent}]
      /\ since' \in [Deleters -> 0..MaxMessages]
      /\ asked' \in [Deleters -> SUBSET Ids]
      /\ rest' \in [Deleters -> SUBSET Conversations]
  BY DEF IInv, DeleteInv
<1>2. ASSUME NEW e \in Deleters, e # d PROVE Follows(e)'
  <2>1. stage'[e] = stage[e] /\ root'[e] = root[e] /\ since'[e] = since[e]
        /\ asked'[e] = asked[e] /\ rest'[e] = rest[e]
    BY <1>2 DEF IInv, DeleteInv
  <2> QED BY <2>1, QuietDeletions
<1> QED BY <1>1, <1>2 DEF DeleteInv

\* One thing less to do.
LEMMA DeletionAdvances ==
  ASSUME IInv, NEW d \in Deleters, NEW x, UNCHANGED <<issued, born, parent>>, server' = "up", Live' \subseteq Live,
         \A y \in Conversations : work'[y] \in {0, work[y]},
         UNCHANGED <<stage, root, since, asked>>, rest' = [rest EXCEPT ![d] = rest[d] \ {x}],
         Follows(d)'
  PROVE  DeleteInv'
<1>1. rest' \in [Deleters -> SUBSET Conversations] /\ \A e \in Deleters \ {d} : rest'[e] = rest[e]
  BY DEF IInv, DeleteInv
<1>2. ASSUME NEW e \in Deleters, e # d PROVE Follows(e)'
  BY <1>1, <1>2, QuietDeletions
<1> QED BY <1>1, <1>2 DEF IInv, DeleteInv

\* A deletion that is over has nothing to follow.
LEMMA OverKeeps ==
  ASSUME IInv, NEW d \in Deleters, Over(d), UNCHANGED <<issued, born, parent>>, server' = "up",
         Live' \subseteq Live, \A x \in Conversations : work'[x] \in {0, work[x]}
  PROVE  DeleteInv'
<1>1. Follows(d)'
  BY DEF Over, Goes, Follows, IInv, DeleteInv, MemoryInv
<1>2. "idle" \in {"idle", "stopping", "removing"} /\ NoParent \in Conversations \union {NoParent}
      /\ 0 \in 0..MaxMessages /\ {} \in SUBSET Ids /\ {} \in SUBSET Conversations
  OBVIOUS
<1> QED BY <1>1, <1>2, OneDeletion DEF Over, Goes

LEMMA RequestsKeep ==
  ASSUME IInv, Requests
  PROVE  Keeps
<1>1. PICK d \in Deleters, c \in Conversations : AsksToDelete(d, c)
  BY DEF Requests
<1>2. PICK C : C = {x \in Tree(c) : HasPending(x)}
  OBVIOUS
<1>3. PICK A : A = UNION {Pending(records[x]) : x \in C}
  OBVIOUS
<1>4. /\ server = "up" /\ c \in Live /\ stage[d] = "idle" /\ UNCHANGED <<recordVars, work, failures, compactionVars>>
      /\ stage' = [stage EXCEPT ![d] = "stopping"] /\ root' = [root EXCEPT ![d] = c]
      /\ rest' = [rest EXCEPT ![d] = C] /\ asked' = [asked EXCEPT ![d] = A]
      /\ since' = [since EXCEPT ![d] = issued]
  BY <1>1, <1>2, <1>3 DEF AsksToDelete, Goes, Notes, Requests
<1>5. C \subseteq Live /\ Live \subseteq Conversations
  BY <1>2 DEF Tree, IInv, MemoryInv
<1>6. \A x \in Live : Pending(records[x]) = IF work[x] = 0 THEN {} ELSE {work[x]}
  BY DEF IInv, WorkInv
<1>7. A \subseteq Ids
  <2>1. \A x \in Live : Pending(records[x]) \subseteq Ids
    BY DEF IInv, MemoryInv, Good, GoodHistory, IsHistory, Pending, Live
  <2> QED BY <2>1, <1>3, <1>5
<1>8. \A x \in Conversations : work'[x] \in {0, work[x]} /\ (x \in Live => work'[x] = work[x])
  BY <1>4
<1>9. work' \in [Conversations -> 0..MaxMessages] /\ failures' \in 0..MaxFailures
  BY <1>4 DEF IInv, WorkInv, MemoryInv
<1>10. failures' = 0 /\ (\A e \in Deleters : stage'[e] # "removing") =>
         failures = 0 /\ \A e \in Deleters : stage[e] # "removing"
  BY <1>4 DEF IInv, DeleteInv
<1>11. /\ MemoryInv' /\ WorkInv' /\ CompactInv' /\ server' = "up" /\ Live' = Live
       /\ UNCHANGED <<issued, born, parent, records>> /\ UNCHANGED LogVars
  BY <1>4, <1>8, <1>9, <1>10, StoreAlone
<1>12. stage'[d] = "stopping" /\ root'[d] = c /\ rest'[d] = C /\ asked'[d] = A /\ since'[d] = issued
  BY <1>4 DEF IInv, DeleteInv
<1>13. Follows(d)'
  <2>1. \A x \in Tree(c) : work[x] # 0 => x \in C /\ work[x] \in A
    <3> SUFFICES ASSUME NEW x \in Tree(c), work[x] # 0 PROVE x \in C /\ work[x] \in A
      OBVIOUS
    <3>1. x \in Live
      BY DEF Tree
    <3>2. Pending(records[x]) = {work[x]} /\ HasPending(x)
      BY <3>1, <1>6 DEF HasPending
    <3> QED BY <3>2, <1>2, <1>3
  <2>2. Tree(c)' = Tree(c)
    BY <1>11 DEF Tree
  <2>3. c \in born' /\ since'[d] <= issued' /\ work' = work
    BY <1>4, <1>11, <1>12 DEF IInv, MemoryInv
  <2>4. Tree(root[d])' = Tree(c)
    BY <2>2, <1>12 DEF Tree
  <2> QED BY <2>1, <2>3, <2>4, <1>11, <1>12 DEF Follows
<1>14. DeleteInv'
  <2>1. C \in SUBSET Conversations /\ A \in SUBSET Ids /\ issued \in 0..MaxMessages
        /\ c \in Conversations \union {NoParent}
    BY <1>5, <1>7 DEF IInv, MemoryInv
  <2>2. \A x \in Conversations : work'[x] \in {0, work[x]}
    BY <1>4
  <2> QED BY <2>1, <2>2, <1>4, <1>11, <1>13, OneDeletion
<1> QED BY <1>11, <1>14 DEF Keeps, IInv, Live

\* A conversation is removed from memory by a deletion that is removing then.
LEMMA RemovalKeeps ==
  ASSUME IInv, NEW d \in Deleters, NEW x \in Live, Removes(x), server = "up",
         UNCHANGED <<work, failures, compactionVars>>,
         stage'[d] = "removing",
         stage[d] # "idle" /\ (work[x] # 0 => work[x] > since[d]),
         DeleteInv'
  PROVE  Keeps
<1>1. /\ records' = Restrict(records, Live \ {x}) /\ sessions' = sessions \ {x} /\ Bump({x})
      /\ UNCHANGED <<server, born, parent, file, issued>> /\ server' = "up"
  BY DEF Removes
<1>2. Live' = Live \ {x} /\ \A c \in Live' : records'[c] = records[c]
  BY <1>1 DEF Restrict, Live
<1>3. held' \in [Readers -> SUBSET Conversations] /\ \A r \in Readers : held'[r] = held[r] \ {x}
  BY <1>1, BumpKeepsType DEF IInv, MemoryInv
<1>4. Good(records', issued')
  BY <1>1, <1>2 DEF IInv, MemoryInv, Good, AreRecords, Restrict, Live
<1>5. SavedUnlessRemoving'
  BY <1>1, <1>2 DEF IInv, MemoryInv, SavedUnlessRemoving, Live
<1>6. MemoryInv'
  BY <1>1, <1>2, <1>3, <1>4, <1>5 DEF IInv, MemoryInv
<1>7. WorkInv'
  BY <1>1, <1>2 DEF IInv, WorkInv
<1>8. CompactInv'
  <2>1. \A r \in Readers : on[r] # NoConversation /\ on[r] \in held'[r] =>
          on[r] \in Live' /\ seen[r] = records'[on[r]]
    BY <1>2, <1>3 DEF IInv, CompactInv
  <2> QED BY <2>1, <1>1, CompactKept DEF IInv
<1>9. Log!Next
  <2>1. IdsOf(records') = Log!Restricted(IdsOf(records), DOMAIN IdsOf(records) \ {x})
    BY <1>1, <1>2 DEF IdsOf, Restrict, Live, Log!Restricted
  <2>2. x \in DOMAIN IdsOf(records)
    BY DEF IdsOf, Live
  <2>3. Log!Delete(x)
    BY <2>1, <2>2, <1>1 DEF Log!Delete
  <2> QED BY <2>2, <2>3 DEF Log!Next
<1> QED BY <1>2, <1>6, <1>7, <1>8, <1>9 DEF Keeps, IInv, Live

LEMMA StopsKeep ==
  ASSUME IInv, NEW d \in Deleters, NEW x \in Conversations, Stops(d, x), UNCHANGED compactionVars
  PROVE  Keeps
<1>1. stage[d] = "stopping" /\ x \in rest[d] /\ UNCHANGED failures /\ server = "up"
  BY DEF Stops, Firsts, IInv, DeleteInv, Follows, MemoryInv
<1>2. work' = [work EXCEPT ![x] = IF StopReaches(d, x) THEN 0 ELSE work[x]]
  BY DEF Stops, Idles, IInv, WorkInv
<1>3. \A y \in Conversations : work'[y] \in {0, work[y]} /\ (y # x => work'[y] = work[y])
  BY <1>2 DEF IInv, WorkInv
<1>4. work' \in [Conversations -> 0..MaxMessages] /\ work'[x] = IF StopReaches(d, x) THEN 0 ELSE work[x]
  BY <1>2 DEF IInv, WorkInv
<1>5. /\ MemoryInv' /\ WorkInv' /\ CompactInv' /\ server' = "up" /\ Live' = Live
      /\ UNCHANGED <<issued, born, parent>>
      /\ Log!Next \/ UNCHANGED LogVars
  <2>1. CASE x \in Live /\ (StopReaches(d, x) \/ x \in Subagents)
    <3>1. Update(x, Finished(records[x])) /\ UNCHANGED issued
      BY <2>1 DEF Stops, FinishReply
    <3>2. GoodHistory(records[x], issued) /\ issued \in Nat
      BY <2>1 DEF IInv, MemoryInv, Good, Live
    <3>3. PICK h : h = Finished(records[x])
      OBVIOUS
    <3>4. GoodHistory(h, issued) /\ Pending(h) = {} /\ DOMAIN h = DOMAIN records[x]
      BY <3>2, <3>3, FinishedReply
    <3>5. work'[x] = 0 /\ work' = [work EXCEPT ![x] = 0]
      BY <2>1, <1>2, <1>4 DEF StopReaches
    <3>6. 0 \in {0, work[x]} /\ Pending(h) = IF 0 = 0 THEN {} ELSE {0}
      BY <3>4
    <3>7. /\ MemoryInv' /\ WorkInv' /\ CompactInv'
          /\ server = "up" /\ server' = "up" /\ Live' = Live /\ file'.records = records'
          /\ records'[x] = h /\ \A e \in Live \ {x} : records'[e] = records[e]
          /\ born' = born /\ parent' = parent
      BY <3>1, <3>3, <3>4, <3>5, <3>6, <1>1, QuietUpdate
    <3> QED BY <3>1, <3>3, <3>4, <3>7, LogSaved
  <2>2. CASE ~(x \in Live /\ (StopReaches(d, x) \/ x \in Subagents))
    <3>1. UNCHANGED recordVars
      BY <2>2 DEF Stops
    <3>2. \A y \in Conversations : work'[y] \in {0, work[y]} /\ (y \in Live => work'[y] = work[y])
      BY <2>2, <1>3, <1>4
    <3>3. failures' \in 0..MaxFailures
      BY <1>1 DEF IInv, MemoryInv
    <3>4. failures' = 0 /\ (\A e \in Deleters : stage'[e] # "removing") =>
            failures = 0 /\ \A e \in Deleters : stage[e] # "removing"
      <4>1. stage' = stage \/ stage' = [stage EXCEPT ![d] = "idle"]
        BY DEF Stops, Over, Goes
      <4> QED BY <4>1, <1>1 DEF IInv, DeleteInv
    <3> QED BY <3>1, <3>2, <3>3, <3>4, <1>1, <1>4, StoreAlone
  <2> QED BY <2>1, <2>2
<1>6. DeleteInv'
  <2>1. CASE Over(d)
    BY <2>1, <1>3, <1>5, OverKeeps
  <2>2. CASE rest' = [rest EXCEPT ![d] = @ \ {x}] /\ UNCHANGED <<stage, root, since, asked>>
    <3>1. rest'[d] = rest[d] \ {x}
      BY <2>2 DEF IInv, DeleteInv
    <3>2. Tree(root[d])' = Tree(root[d])
      BY <2>2, <1>5 DEF Tree
    <3>3. Follows(d)'
      <4>1. since'[d] <= issued' /\ root'[d] \in born' /\ stage'[d] = "stopping"
        BY <2>2, <1>1, <1>5 DEF IInv, DeleteInv, Follows
      <4>2. ASSUME root'[d] \in Live', NEW y \in Tree(root[d])', work'[y] # 0, work'[y] <= since'[d]
            PROVE  y \in rest'[d] /\ work'[y] \in asked'[d]
        <5>1. root[d] \in Live /\ y \in Tree(root[d]) /\ y \in Conversations
          BY <4>2, <3>2, <2>2, <1>5 DEF Tree, IInv, MemoryInv
        <5>2. work'[y] = work[y] /\ y \in rest[d] /\ work[y] \in asked[d]
          BY <5>1, <4>2, <1>1, <1>3, <2>2 DEF IInv, DeleteInv, Follows
        <5>3. y # x
          BY <5>2, <4>2, <1>4 DEF StopReaches
        <5> QED BY <5>2, <5>3, <3>1, <2>2
      <4> QED BY <4>1, <4>2, <1>5 DEF Follows
    <3> QED BY <2>2, <3>3, <1>3, <1>5, DeletionAdvances
  <2> QED BY <2>1, <2>2 DEF Stops
<1> QED BY <1>5, <1>6 DEF Keeps, IInv, Live

LEMMA RemovesRootKeeps ==
  ASSUME IInv, NEW d \in Deleters, RemovesRoot(d), UNCHANGED compactionVars
  PROVE  Keeps
<1>1. PICK x : x = root[d]
  OBVIOUS
<1>2. PICK R : R = Tree(x) \ {x}
  OBVIOUS
<1>3. /\ stage[d] = "stopping" /\ rest[d] = {} /\ x \in Live /\ Removes(x)
      /\ stage' = [stage EXCEPT ![d] = "removing"] /\ rest' = [rest EXCEPT ![d] = R]
      /\ UNCHANGED <<work, root, since, asked, failures>>
  BY <1>1, <1>2 DEF RemovesRoot, Goes
<1>4. server = "up" /\ server' = "up" /\ UNCHANGED <<issued, born, parent>>
  BY <1>3 DEF Removes, IInv, DeleteInv, Follows, MemoryInv
<1>5. Live' \subseteq Live /\ Live \subseteq Conversations
  BY <1>3 DEF Removes, Restrict, Live, IInv, MemoryInv
<1>6. \A y \in Tree(x) : work[y] # 0 => work[y] > since[d]
  <2>1. \A y \in Tree(x) : work[y] # 0 => ~(work[y] <= since[d])
    BY <1>1, <1>3 DEF IInv, DeleteInv, Follows
  <2>2. \A y \in Tree(x) : work[y] \in Nat /\ since[d] \in Nat
    BY <1>5 DEF Tree, IInv, WorkInv, DeleteInv
  <2> QED BY <2>1, <2>2
<1>7. R \in SUBSET Conversations
  BY <1>2, <1>5 DEF Tree
<1>8. stage'[d] = "removing" /\ rest'[d] = R /\ since'[d] = since[d] /\ root'[d] = x
  BY <1>1, <1>3 DEF IInv, DeleteInv
<1>9. Follows(d)'
  <2>1. x \in born' /\ since'[d] <= issued'
    BY <1>1, <1>3, <1>4 DEF IInv, DeleteInv, Follows
  <2>2. \A y \in R : work'[y] # 0 => work'[y] > since'[d]
    BY <1>2, <1>3, <1>6
  <2> QED BY <2>1, <2>2, <1>4, <1>8 DEF Follows
<1>10. DeleteInv'
  <2>1. root' = [root EXCEPT ![d] = root[d]] /\ since' = [since EXCEPT ![d] = since[d]]
        /\ asked' = [asked EXCEPT ![d] = asked[d]]
        /\ asked[d] \in SUBSET Ids /\ since[d] \in 0..MaxMessages /\ root[d] \in Conversations \union {NoParent}
    BY <1>3 DEF IInv, DeleteInv
  <2>2. \A y \in Conversations : work'[y] \in {0, work[y]}
    BY <1>3
  <2> QED BY <2>1, <2>2, <1>3, <1>4, <1>5, <1>7, <1>9, OneDeletion
<1>11. x \in Tree(x)
  BY <1>3, RootInTree
<1> QED BY <1>3, <1>4, <1>6, <1>8, <1>10, <1>11, RemovalKeeps

LEMMA RemovesNextKeeps ==
  ASSUME IInv, NEW d \in Deleters, NEW x \in Conversations, RemovesNext(d, x), UNCHANGED compactionVars
  PROVE  Keeps
<1>1. /\ stage[d] = "removing" /\ x \in rest[d] /\ Removes(x)
      /\ rest' = [rest EXCEPT ![d] = rest[d] \ {x}]
      /\ UNCHANGED <<work, stage, root, since, asked, failures>>
  BY DEF RemovesNext, Firsts
<1>2. server = "up" /\ server' = "up" /\ UNCHANGED <<issued, born, parent>>
  BY <1>1 DEF Removes, IInv, DeleteInv, Follows, MemoryInv
<1>3. Live' = Live \ {x} /\ Live \subseteq Conversations
  BY <1>1 DEF Removes, Restrict, Live, IInv, MemoryInv
<1>4. stage'[d] = "removing" /\ rest'[d] = rest[d] \ {x}
  BY <1>1 DEF IInv, DeleteInv
<1>5. Follows(d)'
  BY <1>1, <1>2, <1>4 DEF IInv, DeleteInv, Follows
<1>6. DeleteInv'
  <2>1. (\A y \in Conversations : work'[y] \in {0, work[y]}) /\ Live' \subseteq Live
    BY <1>1, <1>3
  <2> QED BY <2>1, <1>1, <1>2, <1>5, DeletionAdvances
<1>7. work[x] # 0 => work[x] > since[d]
  BY <1>1 DEF IInv, DeleteInv, Follows
<1>8. CASE x \in Live
  BY <1>1, <1>2, <1>4, <1>6, <1>7, <1>8, RemovalKeeps
<1>9. CASE x \notin Live
  <2>1. /\ records' = Restrict(records, Live) /\ sessions' = sessions \ {x} /\ Bump({x}) /\ Live' = Live
        /\ UNCHANGED <<server, born, parent, file, issued>>
    BY <1>1, <1>3, <1>9 DEF Removes
  <2>2. records' = records
    BY <2>1 DEF Restrict, Live, IInv, MemoryInv, Good, AreRecords
  <2>3. held' \in [Readers -> SUBSET Conversations] /\ \A r \in Readers : held'[r] = held[r] \ {x}
    BY <2>1, BumpKeepsType DEF IInv, MemoryInv
  <2>4. SavedUnlessRemoving'
    BY <2>1, <2>2, <1>1, <1>4 DEF IInv, MemoryInv, SavedUnlessRemoving, Live
  <2>5. MemoryInv'
    BY <2>1, <2>2, <2>3, <2>4, <1>1 DEF IInv, MemoryInv
  <2>6. WorkInv'
    BY <2>1, <2>2, <1>1 DEF IInv, WorkInv
  <2>7. CompactInv'
    <3>1. \A r \in Readers : on[r] # NoConversation /\ on[r] \in held'[r] =>
            on[r] \in Live' /\ seen[r] = records'[on[r]]
      BY <2>1, <2>2, <2>3 DEF IInv, CompactInv
    <3> QED BY <3>1, <1>2, CompactKept DEF IInv
  <2>8. UNCHANGED LogVars
    BY <2>1, <2>2 DEF LogVars, IdsOf
  <2> QED BY <2>1, <2>5, <2>6, <2>7, <2>8, <1>6 DEF Keeps, IInv, Live
<1> QED BY <1>8, <1>9

LEMMA DeletedKeeps ==
  ASSUME IInv, NEW d \in Deleters, Deleted(d), UNCHANGED compactionVars
  PROVE  Keeps
<1>1. /\ stage[d] = "removing" /\ Over(d)
      /\ file' = [records |-> records, sessions |-> sessions]
      /\ UNCHANGED <<server, born, parent, records, sessions, issued, held, work, failures>>
  BY DEF Deleted
<1>2. server = "up" /\ server' = "up" /\ Live' = Live /\ Persist /\ file'.records = records'
  BY <1>1 DEF IInv, DeleteInv, Follows, MemoryInv, Live, Persist
<1>3. MemoryInv'
  BY <1>1, <1>2, PersistedMemory DEF IInv, MemoryInv, Good
<1>4. WorkInv'
  BY <1>1, <1>2 DEF IInv, WorkInv
<1>5. CompactInv'
  BY <1>1, <1>2, CompactKept DEF IInv, CompactInv
<1>6. DeleteInv'
  BY <1>1, <1>2, OverKeeps
<1>7. Log!Next
  BY <1>1, <1>2, LogSaved
<1> QED BY <1>2, <1>3, <1>4, <1>5, <1>6, <1>7 DEF Keeps, IInv, Live

\* The root was removed by somebody else, or a directory could not be.
LEMMA EndedKeeps ==
  ASSUME IInv, NEW d \in Deleters, RootIsGone(d) \/ RemovalFails(d), UNCHANGED compactionVars
  PROVE  Keeps
<1>1. UNCHANGED <<recordVars, work>> /\ Over(d) /\ stage[d] # "idle"
  BY DEF RootIsGone, RemovalFails
<1>2. server = "up"
  BY <1>1 DEF IInv, DeleteInv, Follows, MemoryInv
<1>3. failures' \in 0..MaxFailures
      /\ (failures' = 0 /\ (\A e \in Deleters : stage'[e] # "removing") =>
            failures = 0 /\ \A e \in Deleters : stage[e] # "removing")
  <2>1. stage' = [stage EXCEPT ![d] = "idle"] /\ failures \in 0..MaxFailures
    BY <1>1 DEF Over, Goes, IInv, MemoryInv
  <2>2. CASE RootIsGone(d)
    BY <2>1, <2>2 DEF RootIsGone, IInv, DeleteInv
  <2>3. CASE RemovalFails(d)
    BY <2>1, <2>3 DEF RemovalFails
  <2> QED BY <2>2, <2>3
<1>4. /\ work' \in [Conversations -> 0..MaxMessages]
      /\ \A x \in Conversations : work'[x] \in {0, work[x]} /\ (x \in Live => work'[x] = work[x])
  BY <1>1 DEF IInv, WorkInv
<1>5. /\ MemoryInv' /\ WorkInv' /\ CompactInv' /\ server' = "up" /\ Live' = Live
      /\ UNCHANGED <<issued, born, parent>> /\ UNCHANGED LogVars
  BY <1>1, <1>2, <1>3, <1>4, StoreAlone
<1>6. DeleteInv'
  BY <1>1, <1>4, <1>5, OverKeeps
<1> QED BY <1>5, <1>6 DEF Keeps, IInv, Live

LEMMA DeletesKeep ==
  ASSUME IInv, NEW d \in Deleters, Deletes(d)
  PROVE  Keeps
BY StopsKeep, RemovesNextKeeps, RemovesRootKeeps, DeletedKeeps, EndedKeeps DEF Deletes, DeletionStep

------------------------------------------------------------------------------
(* Restarts. *)

LEMMA RestartedCompact ==
  ASSUME \A r \in Readers : on'[r] = NoConversation /\ seen'[r] = [m \in {} |-> 0] /\ chosen'[r] = {},
         on' = [r \in Readers |-> on'[r]], seen' = [r \in Readers |-> seen'[r]],
         chosen' = [r \in Readers |-> chosen'[r]]
  PROVE  CompactInv'
<1>1. IsHistory([m \in {} |-> 0])
  BY DEF IsHistory
<1>2. on' \in [Readers -> Conversations \union {NoConversation}] /\ chosen' \in [Readers -> SUBSET Ids]
  OBVIOUS
<1> QED BY <1>1, <1>2 DEF CompactInv

LEMMA RestartedDeletions ==
  ASSUME IInv, NEW resumed, ForgetsWork(resumed), issued' = issued
  PROVE  DeleteInv'
<1>1. \A d \in Deleters : stage'[d] = "idle" /\ since'[d] = 0
  BY DEF ForgetsWork
<1>2. \A d \in Deleters : Follows(d)'
  BY <1>1 DEF Follows, IInv, MemoryInv
<1> QED BY <1>2 DEF DeleteInv, ForgetsWork

LEMMA GoesDownKeeps ==
  ASSUME IInv, GoesDown
  PROVE  Keeps
<1>1. PICK torn \in BOOLEAN : Crash(torn)
  BY DEF GoesDown
<1>2. /\ server = "up" /\ server' = "down" /\ records' = NoRecords /\ sessions' = {}
      /\ held' = [r \in Readers |-> {}] /\ UNCHANGED <<born, parent, issued, failures>>
      /\ work' = [c \in Conversations |-> 0]
      /\ file' = IF torn THEN Empty ELSE file
      /\ Live' = {}
  BY <1>1 DEF Crash, LosesRecords, GoesDown, ForgetsWork, Live, NoRecords
<1>3. AreRecords(NoRecords) /\ Good(NoRecords, issued) /\ DOMAIN NoRecords = {}
  BY DEF NoRecords, AreRecords, Good
<1>4. file'.records = (IF torn THEN NoRecords ELSE file.records)
      /\ file' = [records |-> file'.records, sessions |-> file'.sessions]
      /\ file'.sessions \subseteq Conversations
  BY <1>2 DEF Empty, IInv, MemoryInv
<1>5. MemoryInv'
  <2>1. SavedUnlessRemoving'
    BY <1>2 DEF SavedUnlessRemoving
  <2>2. Good(file'.records, issued') /\ DOMAIN file'.records \subseteq born'
    BY <1>2, <1>3, <1>4 DEF IInv, MemoryInv
  <2> QED BY <2>1, <2>2, <1>2, <1>3, <1>4 DEF IInv, MemoryInv
<1>6. WorkInv'
  BY <1>2 DEF WorkInv, IInv, MemoryInv
<1>7. CompactInv'
  BY RestartedCompact DEF GoesDown, ForgetsCompactions
<1>8. DeleteInv'
  BY <1>2, RestartedDeletions DEF GoesDown
<1>9. Log!Next
  <2>1. IdsOf(file'.records) = Log!Restricted(IdsOf(file.records), IF torn THEN {} ELSE DOMAIN IdsOf(file.records))
    BY <1>3, <1>4 DEF IdsOf, Log!Restricted
  <2>2. Log!Restart
    BY <2>1, <1>2 DEF Log!Restart
  <2> QED BY <2>2 DEF Log!Next
<1> QED BY <1>2, <1>5, <1>6, <1>7, <1>8, <1>9 DEF Keeps, IInv

LEMMA ComesUpKeeps ==
  ASSUME IInv, ComesUp
  PROVE  Keeps
<1>1. PICK resumed \in SUBSET Conversations :
        Start(resumed) /\ ForgetsWork(resumed) /\ UNCHANGED compactionVars
  BY DEF ComesUp
<1>2. PICK f : f = file.records
  OBVIOUS
<1>3. PICK kept : kept = ValidRecords
  OBVIOUS
<1>4. /\ server = "down" /\ server' = "up" /\ UNCHANGED <<born, parent, issued, held, failures>>
      /\ sessions' \subseteq file.sessions
      /\ IF records' # f \/ sessions' # file.sessions THEN Persist ELSE UNCHANGED file
      /\ kept \subseteq DOMAIN f
      /\ records' = [c \in kept |-> IF c \in resumed THEN f[c] ELSE Finished(f[c])]
      /\ resumed \subseteq kept /\ \A c \in resumed : Pending(f[c]) # {}
  BY <1>1, <1>2, <1>3 DEF Start, ForgetsWork, ValidRecords, Interrupted
<1>5. Live = {} /\ Live' = kept
  BY <1>4 DEF IInv, MemoryInv, NoRecords, Live
<1>6. Good(f, issued) /\ issued \in Nat /\ DOMAIN f \subseteq born /\ DOMAIN f \subseteq Conversations
  BY <1>2 DEF IInv, MemoryInv, Good, AreRecords
<1>7. ASSUME NEW c \in kept
      PROVE  /\ GoodHistory(records'[c], issued) /\ DOMAIN records'[c] = DOMAIN f[c]
             /\ c \notin resumed => Pending(records'[c]) = {}
             /\ c \in resumed => records'[c] = f[c]
  <2>1. GoodHistory(f[c], issued)
    BY <1>4, <1>6 DEF Good
  <2>2. GoodHistory(Finished(f[c]), issued) /\ Pending(Finished(f[c])) = {}
        /\ DOMAIN Finished(f[c]) = DOMAIN f[c]
    BY <2>1, <1>6, FinishedReply
  <2>3. records'[c] = IF c \in resumed THEN f[c] ELSE Finished(f[c])
    BY <1>4
  <2> QED BY <2>1, <2>2, <2>3
<1>8. Good(records', issued')
  <2>1. \A c \in kept : IsHistory(records'[c])
    BY <1>7 DEF GoodHistory
  <2>2. DOMAIN records' = kept /\ kept \subseteq Conversations
    BY <1>4, <1>6
  <2>3. records' = [c \in DOMAIN records' |-> records'[c]]
    BY <1>4
  <2> QED BY <2>1, <2>2, <2>3, <1>4, <1>7 DEF Good, AreRecords
<1>9. MemoryInv'
  <2>1. /\ sessions' \subseteq Conversations /\ Live' \subseteq born' /\ born' \subseteq Conversations
        /\ parent' \in [Conversations -> Conversations \union {NoParent}]
        /\ (\A c \in Conversations : parent'[c] \in born' \union {NoParent})
        /\ issued' \in 0..MaxMessages /\ held' \in [Readers -> SUBSET Conversations]
        /\ failures' \in 0..MaxFailures
    BY <1>4, <1>5, <1>6 DEF IInv, MemoryInv
  <2>2. CASE Persist
    BY <2>1, <2>2, <1>4, <1>8, PersistedMemory DEF IInv
  <2>3. CASE UNCHANGED file /\ records' = f /\ sessions' = file.sessions
    <3>1. SavedUnlessRemoving'
      BY <2>3, <1>2, <1>5 DEF SavedUnlessRemoving, Live
    <3>2. file'.records = f
      BY <2>3, <1>2
    <3>3. Good(file'.records, issued')
      BY <3>2, <1>6, <1>4
    <3>4. file' = [records |-> file'.records, sessions |-> file'.sessions]
          /\ file'.sessions \subseteq Conversations /\ DOMAIN file'.records \subseteq born'
      BY <2>3, <3>2, <1>4, <1>6 DEF IInv, MemoryInv
    <3> QED BY <2>1, <3>1, <3>3, <3>4, <1>4, <1>8 DEF MemoryInv
  <2> QED BY <2>2, <2>3, <1>4
<1>10. ASSUME NEW c \in kept, c \in resumed
       PROVE  /\ work'[c] \in 0..issued /\ work'[c] # 0
              /\ Pending(records'[c]) = {work'[c]}
  <2>1. work'[c] = CHOOSE m \in Pending(f[c]) : TRUE
    <3>1. records'[c] = f[c]
      BY <1>7, <1>10
    <3> QED BY <3>1, <1>1, <1>10 DEF ForgetsWork
  <2>2. work'[c] \in Pending(f[c])
    BY <2>1, <1>4, <1>10
  <2>3. GoodHistory(f[c], issued)
    BY <1>4, <1>6 DEF Good
  <2>4. Pending(f[c]) = {work'[c]}
    BY <2>2, <2>3 DEF GoodHistory
  <2>5. work'[c] \in 1..issued
    BY <2>2, <2>3 DEF GoodHistory, Pending
  <2> QED BY <2>4, <2>5, <1>6, <1>7, <1>10
<1>11. \A c \in Conversations \ resumed : work'[c] = 0
  BY <1>1 DEF ForgetsWork
<1>12. WorkInv'
  <2>1. ASSUME NEW c \in Conversations
        PROVE  work'[c] \in 0..issued /\ (work'[c] # 0 => c \in born)
    BY <1>4, <1>6, <1>10, <1>11
  <2>2. work' = [c \in Conversations |-> work'[c]]
    BY <1>1 DEF ForgetsWork
  <2>3. issued <= MaxMessages
    BY DEF IInv, MemoryInv
  <2>4. work' \in [Conversations -> 0..MaxMessages]
    BY <2>1, <2>2, <2>3, <1>6
  <2>5. \A c \in Live' : Pending(records'[c]) = IF work'[c] = 0 THEN {} ELSE {work'[c]}
    BY <1>4, <1>5, <1>6, <1>7, <1>10, <1>11
  <2> QED BY <2>1, <2>4, <2>5, <1>4, <1>6 DEF WorkInv
<1>13. CompactInv'
  <2>1. \A r \in Readers : on[r] = NoConversation
    BY <1>4 DEF IInv, CompactInv
  <2> QED BY <2>1, <1>1, <1>4, CompactKept DEF IInv
<1>14. DeleteInv'
  BY <1>1, <1>4, RestartedDeletions
<1>15. Log!Next
  <2>1. IdsOf(records') = Log!Restricted(IdsOf(f), kept) /\ kept \subseteq DOMAIN IdsOf(f)
    BY <1>4, <1>7 DEF IdsOf, Log!Restricted
  <2>2. file'.records = records'
    BY <1>2, <1>4 DEF Persist
  <2>3. Log!Restart
    BY <2>1, <2>2, <1>2, <1>4 DEF Log!Restart
  <2> QED BY <2>3 DEF Log!Next
<1> QED BY <1>5, <1>9, <1>12, <1>13, <1>14, <1>15 DEF Keeps, IInv, Live

------------------------------------------------------------------------------
(* The theorems. *)

\* The initial state: nothing is stored, nothing is under way.
LEMMA Starts ==
  ASSUME Init
  PROVE  IInv /\ Log!Init
<1>1. MemoryInv
  BY DEF Init, RecordInit, CompactionInit, DeletionInit, MemoryInv, Good, AreRecords, NoRecords, Empty, Live,
         SavedUnlessRemoving
<1>2. WorkInv
  BY DEF Init, RecordInit, DeletionInit, WorkInv, NoRecords, Live
<1>3. CompactInv
  BY DEF Init, RecordInit, CompactionInit, CompactInv, IsHistory
<1>4. DeleteInv
  BY DEF Init, RecordInit, DeletionInit, DeleteInv, Follows
<1>5. Log!Init
  BY DEF Init, RecordInit, IdsOf, NoRecords, Empty, Log!Init
<1> QED BY <1>1, <1>2, <1>3, <1>4, <1>5 DEF IInv

\* Every step keeps all of it.
LEMMA Steps ==
  ASSUME IInv, [Next]_vars
  PROVE  Keeps
<1>1. CASE Users
  BY <1>1, UsersKeep
<1>2. CASE Works
  BY <1>2, NewReplyKeeps, EndsWorkKeeps DEF Works
<1>3. CASE Compacts
  BY <1>3, CompactsKeep
<1>4. CASE Requests
  BY <1>4, RequestsKeep
<1>5. CASE \E d \in Deleters : Deletes(d)
  BY <1>5, DeletesKeep
<1>6. CASE GoesDown
  BY <1>6, GoesDownKeeps
<1>7. CASE ComesUp
  BY <1>7, ComesUpKeeps
<1>8. CASE UNCHANGED vars
  <2>1. UNCHANGED <<server, born, parent, records, sessions, file, issued, held, on, seen, chosen,
                    work, stage, root, since, asked, rest, failures>>
    BY <1>8 DEF vars, recordVars, compactionVars, deletionVars, requestVars
  <2>2. Live' = Live /\ \A d \in Deleters : Follows(d)' <=> Follows(d)
    BY <2>1 DEF Live, Follows, Tree
  <2>3. MemoryInv' /\ WorkInv'
    BY <2>1, <2>2 DEF IInv, MemoryInv, WorkInv, SavedUnlessRemoving, Live
  <2>4. CompactInv' /\ DeleteInv'
    BY <2>1, <2>2 DEF IInv, CompactInv, DeleteInv
  <2>5. UNCHANGED LogVars
    BY <2>1 DEF LogVars, IdsOf
  <2> QED BY <2>2, <2>3, <2>4, <2>5 DEF Keeps, IInv, Live
<1> QED BY <1>1, <1>2, <1>3, <1>4, <1>5, <1>6, <1>7, <1>8 DEF Next

\* The inductive invariant of the stored conversations.
THEOREM Invariance == Spec => []IInv
<1>1. Init => IInv
  BY Starts
<1>2. IInv /\ [Next]_vars => IInv'
  BY Steps DEF Keeps
<1> QED BY <1>1, <1>2, PTL DEF Spec

\* The store, the compactions and the deletions keep their types (conversation-store.service.ts,
\* context-governance.service.ts).
THEOREM TypeCorrect == Spec => []TypeOK
<1>1. IInv => TypeOK
  BY DEF IInv, MemoryInv, WorkInv, CompactInv, DeleteInv, Good, TypeOK
<1> QED BY <1>1, Invariance, PTL

\* What is in memory is what a restart would read, but for removals (persistConversations).
THEOREM SavedWhatIsShown == Spec => []SavedUnlessRemoving
<1>1. IInv => SavedUnlessRemoving
  BY DEF IInv, MemoryInv
<1> QED BY <1>1, Invariance, PTL

\* Whatever is pending has the work that will settle it (settleInterruptedMainConversationResponses,
\* replaceConversationHistory).
THEOREM NoReplyIsAbandoned == Spec => []RepliesHaveWork
<1>1. IInv => RepliesHaveWork
  BY DEF IInv, WorkInv, RepliesHaveWork
<1> QED BY <1>1, Invariance, PTL

\* The model is told of every finished message, by itself or by a summary (applyContextCompaction).
THEOREM CompactionRemembers == Spec => []NothingIsForgotten
<1>1. IInv => NothingIsForgotten
  <2> SUFFICES ASSUME IInv, NEW c \in Live, NEW m \in DOMAIN records[c],
                      ~records[c][m].pending, ~records[c][m].summary, ~records[c][m].early
               PROVE  m \in Told(records[c])
    BY DEF NothingIsForgotten
  <2>1. GoodHistory(records[c], issued) /\ issued \in Nat
    BY DEF IInv, MemoryInv, Good, Live
  <2> QED BY <2>1, GoodTells
<1> QED BY <1>1, Invariance, PTL

\* Work of a conversation that is removed began after the deletion was asked for
\* (stopActiveConversationTreeWork).
THEOREM DeletionStopsWork == Spec => WorkIsStoppedFirst
<1>1. IInv /\ [Next]_vars =>
        [\A c \in Live \ DOMAIN records' :
           server' = "up" /\ work[c] # 0 =>
             \E d \in Deleters : stage[d] # "idle" /\ work[c] > since[d]]_vars
  BY Steps DEF Keeps
<1> QED BY <1>1, Invariance, PTL DEF Spec, WorkIsStoppedFirst

\* The stored histories implement the log of what was ever said (replaceConversationHistory,
\* deleteConversation, readStoredConversations).
THEOREM ImplementsLog == Spec => LogSpec
<1>1. Init => Log!Init
  BY Starts
<1>2. IInv /\ [Next]_vars => [Log!Next]_LogVars
  BY Steps DEF Keeps
<1> QED BY <1>1, <1>2, Invariance, PTL DEF Spec, LogSpec, Log!Spec, LogVars
===============================================================================
