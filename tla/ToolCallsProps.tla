---------------------------- MODULE ToolCallsProps -----------------------------
(* What must hold of the tool calls of a conversation. *)
EXTENDS ToolCalls

PermissionTypes ==
  /\ exists \in BOOLEAN /\ loaded \in BOOLEAN
  /\ stored \subseteq Operations /\ approvals \subseteq Operations
  /\ stage \in [Calls -> Stages]
  /\ asks \in [Calls -> SUBSET Operations]
  /\ decision \in [Calls -> Decisions \union {"none"}]
  /\ pending \subseteq Calls /\ listening \subseteq Signalled /\ aborted \subseteq Signalled
  /\ told \in [Calls -> Events]

FileTypes ==
  /\ disk \in Contents \union {"absent"}
  /\ stamp \in {"none", "fresh", "stale"}
  /\ tail \in Calls \union {NoCall}
  /\ previous \in [Calls -> Calls \union {NoCall}]
  /\ phase \in [Calls -> Phases]
  /\ tool \in [Calls -> Tools \union {"none"}]
  /\ existed \subseteq Calls
  /\ base \in [Calls -> Contents \union {"none", "same", "absent"}]
  /\ lost \in BOOLEAN

\* The type of every variable of the permission service and of the file tools.
TypeOK == PermissionTypes /\ FileTypes

\* The table of pending requests, the reviews that wait and the requests the page was shown without
\* a result are the same calls; a stopped task never leaves a question that only it could withdraw.
QuestionsAgree ==
  /\ pending = {c \in Calls : stage[c] = "waiting"}
  /\ pending = {c \in Calls : told[c] = "request"}
  /\ listening = pending \intersect Signalled
  /\ aborted \intersect pending = {}

\* "Always" survives a restart: the cached approvals of a stored conversation are the stored ones.
ApprovalsAreStored == exists /\ loaded => approvals = stored

\* At most one write, append or edit of a file is past its lock.
OneWriter == \A c, d \in Calls : phase[c] \in Locked /\ phase[d] \in Locked => c = d

\* Read before write: a file tool never replaces a content that no tool of the session has returned or
\* written, unless a shell made it while a file tool was between two of its awaits.
ReplacesWhatWasRead == ~lost

\* The calls implement what the user is promised.
Dialogue == INSTANCE PermissionDialogue WITH verdict <- told, running <- {c \in Calls : phase[c] # "out"}
DialogueSpec == Dialogue!Spec

(* Fairness: the file system and the shell return, Node runs what is ready. *)
ToolFairness == \A c \in Calls : WF_vars(Works(c) /\ phase'[c] # phase[c])
FairSpec == Spec /\ ToolFairness

\* No call waits for ever in the lock chain of a file, whatever the calls before it did.
WritersGetTheirTurn == \A c \in Calls : phase[c] = "queued" ~> phase[c] # "queued"
===============================================================================
