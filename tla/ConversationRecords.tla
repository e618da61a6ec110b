-------------------------- MODULE ConversationRecords --------------------------
(***************************************************************************)
(* The conversations in memory and in their file                           *)
(* (runtime/host/conversation-store.service.ts). Every update changes the  *)
(* record in memory, moves its revision and writes the whole store with    *)
(* one synchronous writeFileSync in place. A message is an id with what    *)
(* the compaction reads and writes of it.                                  *)
(***************************************************************************)
EXTENDS Naturals

CONSTANTS
  Conversations,
  Subagents,    \* those of kind subagent
  NoParent,
  MaxMessages,  \* bound: message ids given out
  WithSession,  \* bound: those a plugin may hold a session of
  Readers       \* callers that hold an expectedRevision

ASSUME RecordConstants ==
  MaxMessages \in Nat /\ Subagents \subseteq Conversations /\ NoParent \notin Conversations

VARIABLES
  server,   \* "up" or "down"
  born,     \* conversations that were created
  parent,   \* parentId, given then
  records,  \* conversations: the histories of the conversations in memory
  sessions, \* conversationSessions: the conversations a plugin holds a session of
  file,     \* what a start reads from the storage file: nothing, when the file is torn
  issued,   \* message ids given out
  held      \* [Readers -> the conversations whose revision is still the one the reader holds]

recordVars == <<server, born, parent, records, sessions, file, issued, held>>

Ids == 1..MaxMessages

\* pending: status is pending or streaming. summary: written by a compaction, with an id of its own
\* form. marks: it carries the annotation of a summary. by: the compaction that covers the message,
\* named by its summary, or 0. tells: the messages whose text it holds. early: it was still pending
\* when it was covered.
Messages == [pending : BOOLEAN, summary : BOOLEAN, marks : BOOLEAN, by : 0..MaxMessages,
             tells : SUBSET Ids, early : BOOLEAN]
IsHistory(h) == DOMAIN h \subseteq Ids /\ h \in [DOMAIN h -> Messages]

Live == DOMAIN records
Restrict(f, S) == [x \in S |-> f[x]]
NoRecords == [c \in {} |-> [m \in {} |-> 0]]
Empty == [records |-> NoRecords, sessions |-> {}]

RecordInit ==
  /\ server = "up"
  /\ born = {}
  /\ parent = [c \in Conversations |-> NoParent]
  /\ records = NoRecords /\ sessions = {}
  /\ file = Empty
  /\ issued = 0
  /\ held = [r \in Readers |-> {}]

\* persistConversations
Persist == file' = [records |-> records', sessions |-> sessions']

\* A new revision: no reader holds it.
Bump(C) == held' = [r \in Readers |-> held[r] \ C]

\* updateConversationRecord
Update(c, history) ==
  /\ c \in Live
  /\ records' = [records EXCEPT ![c] = history]
  /\ Bump({c})
  /\ UNCHANGED <<server, born, parent, sessions>>
  /\ Persist

Pending(history) == {m \in DOMAIN history : history[m].pending}
HasPending(c) == c \in Live /\ Pending(records[c]) # {}
Finished(history) ==
  [m \in DOMAIN history |->
     IF history[m].pending THEN [history[m] EXCEPT !.pending = FALSE, !.tells = {m}] ELSE history[m]]
NewReply == [pending |-> TRUE, summary |-> FALSE, marks |-> FALSE, by |-> 0, tells |-> {}, early |-> FALSE]
With(history, m, message) == [n \in DOMAIN history \union {m} |-> IF n = m THEN message ELSE history[n]]
Without(history, m) == Restrict(history, DOMAIN history \ {m})

\* createConversation does not look for the parent.
Create(c, p) ==
  /\ server = "up"
  /\ c \notin born /\ p # c /\ (c \in Subagents => p # NoParent)
  /\ born' = born \union {c}
  /\ parent' = [parent EXCEPT ![c] = p]
  /\ records' = [d \in Live \union {c} |-> IF d = c THEN [m \in {} |-> 0] ELSE records[d]]
  /\ UNCHANGED <<server, sessions, issued, held>>
  /\ Persist

\* The reply of a send or of a subagent's turn; the user's message is left out.
AddReply(c) ==
  /\ server = "up" /\ c \in Live
  /\ issued < MaxMessages
  /\ issued' = issued + 1
  /\ Update(c, With(records[c], issued + 1, NewReply))

\* The reply in progress is settled.
FinishReply(c) == Update(c, Finished(records[c])) /\ UNCHANGED issued

\* deleteMessage, after its task was stopped; the route takes no id of a summary.
DeleteMessage(c, m) ==
  /\ server = "up" /\ c \in Live /\ m \in DOMAIN records[c]
  /\ ~records[c][m].pending /\ ~records[c][m].summary
  /\ Update(c, Without(records[c], m))
  /\ UNCHANGED issued

\* Edits, titles, personas, tool outputs: what they change is abstracted, their revision is not.
Touch(c) ==
  /\ server = "up" /\ c \in Live
  /\ Update(c, records[c])
  /\ UNCHANGED issued

StartSession(c) ==
  /\ server = "up" /\ c \in Live /\ c \in WithSession
  /\ sessions' = sessions \union {c}
  /\ UNCHANGED <<server, born, parent, records, issued, held>>
  /\ Persist

\* Fault: a session found expired is deleted in memory only.
EndSessionUnsaved(c) ==
  /\ server = "up" /\ c \in sessions
  /\ sessions' = sessions \ {c}
  /\ UNCHANGED <<server, born, parent, records, file, issued, held>>

\* Finished by the plugin, deleted with it, or found expired.
EndSession(c) ==
  /\ server = "up" /\ c \in sessions
  /\ sessions' = sessions \ {c}
  /\ UNCHANGED <<server, born, parent, records, issued, held>>
  /\ Persist

(* Restart *)

LosesRecords == records' = NoRecords /\ sessions' = {}

\* A crash, in the middle of a write or not.
Crash(torn) ==
  /\ server = "up"
  /\ server' = "down"
  /\ LosesRecords
  /\ file' = IF torn THEN Empty ELSE file
  /\ held' = [r \in Readers |-> {}]
  /\ UNCHANGED <<born, parent, issued>>

\* isPersistedConversationRecordValid: the id of a summary is no uuid.
IsValid(history) == \A m \in DOMAIN history : ~history[m].summary

ValidRecords == {c \in DOMAIN file.records : IsValid(file.records[c])}
Interrupted == {c \in ValidRecords : Pending(file.records[c]) # {}}

\* Fault: only the replies of subagents are settled.
StartUnsettled(resumed) ==
  /\ server = "down"
  /\ server' = "up"
  /\ resumed \subseteq Interrupted \intersect Subagents
  /\ records' = [c \in ValidRecords |->
                   IF c \in resumed \/ c \notin Subagents THEN file.records[c] ELSE Finished(file.records[c])]
  /\ sessions' \in SUBSET file.sessions
  /\ Persist
  /\ UNCHANGED <<born, parent, issued, held>>

\* The constructor reads the file, drops what is not valid and what has expired, and settles the
\* replies of main conversations; the subagent runner then settles or resumes those of subagents.
\* The store is written if any of this changed it: a torn file stays until the next update.
Start(resumed) ==
  /\ server = "down"
  /\ server' = "up"
  /\ resumed \subseteq Interrupted \intersect Subagents
  /\ records' = [c \in ValidRecords |->
                   IF c \in resumed THEN file.records[c] ELSE Finished(file.records[c])]
  /\ sessions' \in SUBSET file.sessions
  /\ IF records' # file.records \/ sessions' # file.sessions THEN Persist ELSE UNCHANGED file
  /\ UNCHANGED <<born, parent, issued, held>>
===============================================================================
