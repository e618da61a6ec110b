--------------------------- MODULE ConversationStore ---------------------------
(***************************************************************************)
(* The conversations of a server with everything that writes them: users,  *)
(* tasks and subagents, compactions, plugins, deletions and restarts.      *)
(***************************************************************************)
EXTENDS HistoryCompaction, ConversationDeletion

CONSTANT TearsWrites \* whether a crash may leave half a file

ASSUME StoreConstants == TearsWrites \in BOOLEAN

vars == <<recordVars, compactionVars, deletionVars>>

Init == RecordInit /\ CompactionInit /\ DeletionInit

\* A conversation is created by a user, or from a conversation that is there or at work.
Parents == {NoParent} \union Live \union {p \in Conversations : work[p] # 0}

Users ==
  /\ \/ \E c \in Conversations :
          \/ \E p \in Parents : Create(c, p)
          \/ \E m \in Ids : DeleteMessage(c, m)
          \/ Touch(c) \/ StartSession(c) \/ EndSession(c)
  /\ UNCHANGED <<compactionVars, deletionVars>>

Works == \E c \in Conversations : (BeginsWork(c) \/ EndsWork(c)) /\ UNCHANGED compactionVars

Compacts ==
  /\ \E r \in Readers :
       \/ \E c \in Conversations : StartCompaction(r, c)
       \/ AsksAgain(r) \/ GivesUp(r) \/ Replaces(r)
  /\ UNCHANGED deletionVars

Deletes(d) == DeletionStep(d) /\ UNCHANGED compactionVars

Requests ==
  /\ \E d \in Deleters, c \in Conversations : AsksToDelete(d, c)
  /\ UNCHANGED compactionVars

GoesDown ==
  /\ \E torn \in BOOLEAN : (torn => TearsWrites) /\ Crash(torn)
  /\ ForgetsCompactions
  /\ ForgetsWork({})

ComesUp ==
  \E resumed \in SUBSET Conversations :
    /\ Start(resumed)
    /\ ForgetsWork(resumed)
    /\ UNCHANGED compactionVars

Next ==
  \/ Users \/ Works \/ Compacts \/ Requests
  \/ \E d \in Deleters : Deletes(d)
  \/ GoesDown \/ ComesUp

Spec == Init /\ [][Next]_vars
===============================================================================
