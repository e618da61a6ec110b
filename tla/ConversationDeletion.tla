------------------------- MODULE ConversationDeletion --------------------------
(***************************************************************************)
(* DELETE conversations/:id (conversation/conversation.controller.ts): the *)
(* work of the tree as it was read first is stopped piece by piece, then   *)
(* the store removes the tree as it is then, conversation by conversation  *)
(* with its directory, and writes its file at the end.                     *)
(***************************************************************************)
EXTENDS ConversationRecords

CONSTANTS
  Deleters,
  MaxFailures \* bound: directories that cannot be removed

ASSUME DeletionConstants == MaxFailures \in Nat

VARIABLES
  work,     \* the reply that a task or a subagent's execution of the conversation writes, or 0
  stage,    \* where each deletion is
  root,     \* the conversation it was asked for
  since,    \* history variable: the ids given out when it was asked
  asked,    \* the replies it is to stop
  rest,     \* the conversations it has still to stop, or to remove
  failures  \* directories that could not be removed

requestVars == <<stage, root, since, asked, rest>>
deletionVars == <<work, requestVars, failures>>

DeletionInit ==
  /\ work = [c \in Conversations |-> 0]
  /\ stage = [d \in Deleters |-> "idle"]
  /\ root = [d \in Deleters |-> NoParent]
  /\ since = [d \in Deleters |-> 0]
  /\ asked = [d \in Deleters |-> {}]
  /\ rest = [d \in Deleters |-> {}]
  /\ failures = 0

\* collectConversationTreeIds: c and what descends from it, over the records in memory.
Tree(c) ==
  {x \in Live : \A S \in SUBSET Live :
     c \in S /\ (\A y \in Live : parent[y] \in S => y \in S) => x \in S}

\* Breadth first: a parent comes before its children.
Firsts(S) == {x \in S : parent[x] \notin S}

(* The work *)

Idles(c) == work' = [work EXCEPT ![c] = 0]

BeginsWork(c) ==
  /\ work[c] = 0
  /\ AddReply(c)
  /\ work' = [work EXCEPT ![c] = issued + 1]
  /\ UNCHANGED <<requestVars, failures>>

\* The task ends by itself. Without its record it has nothing to write to.
EndsWork(c) ==
  /\ server = "up" /\ work[c] # 0
  /\ Idles(c)
  /\ IF c \in Live THEN FinishReply(c) ELSE UNCHANGED recordVars
  /\ UNCHANGED <<requestVars, failures>>

(* The handler *)

Goes(d, s) == stage' = [stage EXCEPT ![d] = s]

Notes(d, C) ==
  /\ rest' = [rest EXCEPT ![d] = C]
  /\ asked' = [asked EXCEPT ![d] = UNION {Pending(records[x]) : x \in C}]
  /\ since' = [since EXCEPT ![d] = issued]

\* Fault: only the conversation itself is looked at.
AsksToDeleteOnly(d, c) ==
  /\ server = "up" /\ stage[d] = "idle" /\ c \in Live
  /\ Goes(d, "stopping")
  /\ root' = [root EXCEPT ![d] = c]
  /\ Notes(d, {x \in {c} : HasPending(x)})
  /\ UNCHANGED <<recordVars, work, failures>>

\* listConversationTreeRecords: whoever has a reply in progress is to be stopped.
AsksToDelete(d, c) ==
  /\ server = "up" /\ stage[d] = "idle" /\ c \in Live
  /\ Goes(d, "stopping")
  /\ root' = [root EXCEPT ![d] = c]
  /\ Notes(d, {x \in Tree(c) : HasPending(x)})
  /\ UNCHANGED <<recordVars, work, failures>>

Over(d) ==
  /\ Goes(d, "idle")
  /\ root' = [root EXCEPT ![d] = NoParent]
  /\ since' = [since EXCEPT ![d] = 0]
  /\ asked' = [asked EXCEPT ![d] = {}]
  /\ rest' = [rest EXCEPT ![d] = {}]

\* stopTask stops the reply that was read; interruptSubagent whatever the subagent does.
StopReaches(d, x) == work[x] # 0 /\ (x \in Subagents \/ work[x] \in asked[d])

\* The stop of the next one returned. A subagent that is gone ends the request.
Stops(d, x) ==
  /\ stage[d] = "stopping" /\ x \in Firsts(rest[d])
  /\ IF StopReaches(d, x) THEN Idles(x) ELSE UNCHANGED work
  /\ IF x \in Live /\ (StopReaches(d, x) \/ x \in Subagents)
     THEN FinishReply(x)
     ELSE UNCHANGED recordVars
  /\ IF x \notin Live /\ x \in Subagents
     THEN Over(d)
     ELSE rest' = [rest EXCEPT ![d] = @ \ {x}] /\ UNCHANGED <<stage, root, since, asked>>
  /\ UNCHANGED failures

Removes(x) ==
  /\ records' = Restrict(records, Live \ {x})
  /\ sessions' = sessions \ {x}
  /\ Bump({x})
  /\ UNCHANGED <<server, born, parent, file, issued>>

\* deleteConversation of the store, to the first await.
RemovesRoot(d) ==
  /\ stage[d] = "stopping" /\ rest[d] = {} /\ root[d] \in Live
  /\ Removes(root[d])
  /\ Goes(d, "removing")
  /\ rest' = [rest EXCEPT ![d] = Tree(root[d]) \ {root[d]}]
  /\ UNCHANGED <<work, root, since, asked, failures>>

RootIsGone(d) ==
  /\ stage[d] = "stopping" /\ rest[d] = {} /\ root[d] \notin Live
  /\ Over(d)
  /\ UNCHANGED <<recordVars, work, failures>>

\* The directory of the last one is removed, the next one follows.
RemovesNext(d, x) ==
  /\ stage[d] = "removing" /\ x \in Firsts(rest[d])
  /\ Removes(x)
  /\ rest' = [rest EXCEPT ![d] = @ \ {x}]
  /\ UNCHANGED <<work, stage, root, since, asked, failures>>

Deleted(d) ==
  /\ stage[d] = "removing" /\ rest[d] = {}
  /\ file' = [records |-> records, sessions |-> sessions]
  /\ Over(d)
  /\ UNCHANGED <<server, born, parent, records, sessions, issued, held, work, failures>>

\* A directory cannot be removed: the request fails and nothing is written.
RemovalFails(d) ==
  /\ stage[d] = "removing" /\ failures < MaxFailures
  /\ failures' = failures + 1
  /\ Over(d)
  /\ UNCHANGED <<recordVars, work>>

DeletionStep(d) ==
  \/ \E x \in Conversations : Stops(d, x) \/ RemovesNext(d, x)
  \/ RemovesRoot(d) \/ RootIsGone(d) \/ Deleted(d) \/ RemovalFails(d)

\* A restart; the executions of the subagents in resumed are scheduled again.
ForgetsWork(resumed) ==
  /\ work' = [c \in Conversations |->
                IF c \in resumed THEN CHOOSE m \in Pending(records'[c]) : TRUE ELSE 0]
  /\ stage' = [d \in Deleters |-> "idle"]
  /\ root' = [d \in Deleters |-> NoParent]
  /\ since' = [d \in Deleters |-> 0]
  /\ asked' = [d \in Deleters |-> {}]
  /\ rest' = [d \in Deleters |-> {}]
  /\ UNCHANGED failures
===============================================================================
