------------------------ MODULE ConversationStoreProps -------------------------
(* What must hold of the stored conversations. *)
EXTENDS ConversationStore

AreRecords(f) ==
  /\ DOMAIN f \subseteq Conversations /\ f = [c \in DOMAIN f |-> f[c]]
  /\ \A c \in DOMAIN f : IsHistory(f[c])

\* The type of every variable.
TypeOK ==
  /\ server \in {"up", "down"}
  /\ born \subseteq Conversations
  /\ parent \in [Conversations -> Conversations \union {NoParent}]
  /\ AreRecords(records) /\ sessions \subseteq Conversations
  /\ file = [records |-> file.records, sessions |-> file.sessions]
  /\ AreRecords(file.records) /\ file.sessions \subseteq Conversations
  /\ issued \in 0..MaxMessages
  /\ held \in [Readers -> SUBSET Conversations]
  /\ on \in [Readers -> Conversations \union {NoConversation}]
  /\ \A r \in Readers : IsHistory(seen[r])
  /\ chosen \in [Readers -> SUBSET Ids]
  /\ work \in [Conversations -> 0..MaxMessages]
  /\ stage \in [Deleters -> {"idle", "stopping", "removing"}]
  /\ root \in [Deleters -> Conversations \union {NoParent}]
  /\ since \in [Deleters -> 0..MaxMessages]
  /\ asked \in [Deleters -> SUBSET Ids]
  /\ rest \in [Deleters -> SUBSET Conversations]
  /\ failures \in 0..MaxFailures

\* A restart brings back what the server answered with: a conversation in memory is in the file as
\* it is, and the file holds more only while a removal is under way or after one that failed.
SavedUnlessRemoving ==
  server = "up" =>
    /\ \A c \in Live : c \in DOMAIN file.records /\ file.records[c] = records[c]
    /\ sessions \subseteq file.sessions
    /\ (\A d \in Deleters : stage[d] # "removing") /\ failures = 0 =>
         DOMAIN file.records \subseteq Live /\ file.sessions = sessions

\* A reply in progress has the work that will settle it: none is left behind by a crash, a compaction
\* does not bring an earlier state of it back.
RepliesHaveWork ==
  server = "up" => \A c \in Live : Pending(records[c]) \subseteq {work[c]}

Told(history) == UNION {history[m].tells : m \in Shown(history)}

\* A compaction forgets nothing: what the model is shown tells of every finished message, except of
\* those that were covered while they were still being written.
NothingIsForgotten ==
  \A c \in Live : \A m \in DOMAIN records[c] :
    \/ records[c][m].pending \/ records[c][m].summary \/ records[c][m].early
    \/ m \in Told(records[c])

\* Deleting a conversation stops the work of its whole tree: what still works when its record goes
\* began after the request.
WorkIsStoppedFirst ==
  [][\A c \in Live \ DOMAIN records' :
       server' = "up" /\ work[c] # 0 => \E d \in Deleters : stage[d] # "idle" /\ work[c] > since[d]]_vars

(* Refinement *)

IdsOf(kept) == [c \in DOMAIN kept |-> DOMAIN kept[c]]
Log == INSTANCE ConversationLog WITH
  log <- IF server = "up" THEN IdsOf(records) ELSE IdsOf(file.records),
  saved <- IdsOf(file.records),
  last <- issued

\* Histories only grow by new messages and lose one at a time, and the file follows every step.
LogSpec == Log!Spec

\* "deletes persisted legacy conversations with non-v7 conversation or message ids"
\* (tests/runtime/host/conversation-store.service.spec.ts): a start reads every conversation that the
\* program of today wrote.
RestartKeepsConversations ==
  [][server = "down" /\ server' = "up" => Live' = DOMAIN file.records]_vars
===============================================================================
