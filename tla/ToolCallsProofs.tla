---------------------------- MODULE ToolCallsProofs ----------------------------
(***************************************************************************)
(* Proofs about ToolCalls, for any number of calls, operations and any     *)
(* policy.                                                                 *)
(*                                                                         *)
(* The lock is a chain of promises: Chain says that the waiting calls have *)
(* a position each, that only the first one's promise is resolved and that *)
(* the map holds the last one. Read before write rests on Unseen: while a  *)
(* call relies on what it has read or checked, the content is not foreign. *)
(***************************************************************************)
EXTENDS ToolCallsProps, Naturals, TLAPS, WellFoundedInduction

StagesAgree == \A c \in Calls :
  /\ stage[c] = "idle" => told[c] = "none"
  /\ stage[c] = "decided" => /\ decision[c] \in Decisions
                             /\ told[c] = IF decision[c] = "reject" THEN "rejected" ELSE "approved"
  /\ stage[c] = "allowed" => told[c] \in {"none", "approved"}

PermissionInv == PermissionTypes /\ QuestionsAgree /\ ApprovalsAreStored /\ StagesAgree

RunsAreAllowed == \A c \in Calls : phase[c] # "out" => stage[c] = "allowed"

InChain == {c \in Calls : phase[c] = "queued" \/ phase[c] \in Locked}

Ordered(pos) ==
  /\ \A c, d \in InChain : pos[c] = pos[d] => c = d
  /\ \A c \in InChain : previous[c] = NoCall => \A d \in InChain : pos[c] <= pos[d]
  /\ \A c \in InChain : previous[c] # NoCall =>
       /\ previous[c] \in InChain
       /\ pos[previous[c]] < pos[c]
       /\ \A d \in InChain : pos[d] < pos[c] => pos[d] <= pos[previous[c]]
  /\ tail = NoCall => InChain = {}
  /\ tail # NoCall => tail \in InChain /\ \A d \in InChain : pos[d] <= pos[tail]

Chain ==
  /\ \E pos \in [Calls -> Nat] : Ordered(pos)
  /\ \A c \in Calls : phase[c] \in Locked => previous[c] = NoCall

Unseen ==
  /\ disk = "foreign" => stamp # "fresh"
  /\ \A c \in Calls : disk = "foreign" =>
       /\ phase[c] # "reading"
       /\ phase[c] \in {"statted", "checked", "based", "written"} => c \in existed
       /\ phase[c] \in {"checked", "based", "written"} => tool[c] = "append"
       /\ phase[c] = "based" => base[c] = "same"
  /\ \A c \in Calls : phase[c] = "based" => base[c] # "none"
  /\ \A c \in Calls : phase[c] \in Locked \union {"queued"} => tool[c] \in Writers

FileInv == FileTypes /\ Chain /\ OneWriter /\ Unseen /\ ReplacesWhatWasRead

IInv == PermissionInv /\ FileInv /\ RunsAreAllowed

USE PermissionConstants, FileConstants, ToolConstants

------------------------------------------------------------------------------
(* The permission service. *)

\* A review keeps the questions in order.
LEMMA ReviewKeeps ==
  ASSUME PermissionInv, NEW c \in Calls, NEW operations \in SUBSET Operations,
         ReviewRefuses(c) \/ ReviewPasses(c) \/ ReviewAsks(c, operations)
  PROVE  PermissionInv'
<1>1. CASE ReviewRefuses(c)
  BY <1>1 DEF PermissionInv, PermissionTypes, QuestionsAgree, ApprovalsAreStored, StagesAgree,
              ReviewRefuses, ToStage, Stages
<1>2. CASE ReviewPasses(c)
  BY <1>2 DEF PermissionInv, PermissionTypes, QuestionsAgree, ApprovalsAreStored, StagesAgree,
              ReviewPasses, ToStage, Stages
<1>3. CASE ReviewAsks(c, operations)
  <2>1. PermissionTypes'
    BY <1>3 DEF PermissionInv, PermissionTypes, ReviewAsks, ReadsApprovalSet, ApprovalSet, ToStage,
                Tell, Stages, Events
  <2>2. QuestionsAgree'
    BY <1>3 DEF PermissionInv, PermissionTypes, QuestionsAgree, StagesAgree, ReviewAsks, ToStage, Tell
  <2>3. ApprovalsAreStored'
    BY <1>3 DEF PermissionInv, ApprovalsAreStored, ReviewAsks, ReadsApprovalSet, ApprovalSet
  <2>4. StagesAgree'
    BY <1>3 DEF PermissionInv, PermissionTypes, StagesAgree, ReviewAsks, ToStage, Tell
  <2> QED BY <2>1, <2>2, <2>3, <2>4 DEF PermissionInv
<1> QED BY <1>1, <1>2, <1>3

\* An answer, an abort and the deletion of the conversation do.
LEMMA AnswerKeeps ==
  ASSUME PermissionInv,
         \/ \E c \in Calls, d \in Decisions : Reply(c, d)
         \/ \E c \in Calls : Abort(c)
         \/ DeleteConversation
  PROVE  PermissionInv'
<1>1. CASE \E c \in Calls, d \in Decisions : Reply(c, d)
  <2> PICK c \in Calls, d \in Decisions : Reply(c, d)
    BY <1>1
  <2>1. PermissionTypes'
    BY DEF PermissionInv, PermissionTypes, Reply, ToStage, Tell, Stages, Events, Decisions
  <2>2. QuestionsAgree'
    BY DEF PermissionInv, PermissionTypes, QuestionsAgree, Reply, ToStage, Tell
  <2>3. ApprovalsAreStored' /\ StagesAgree'
    BY DEF PermissionInv, PermissionTypes, QuestionsAgree, ApprovalsAreStored, StagesAgree, Reply,
           ToStage, Tell, Decisions
  <2> QED BY <2>1, <2>2, <2>3 DEF PermissionInv
<1>2. CASE \E c \in Calls : Abort(c)
  <2> PICK c \in Calls : Abort(c)
    BY <1>2
  <2>1. PermissionTypes'
    BY DEF PermissionInv, PermissionTypes, Abort, ToStage, Tell, ReviewIsOver, Stages, Events
  <2>2. QuestionsAgree'
    BY DEF PermissionInv, PermissionTypes, QuestionsAgree, Abort, ToStage, Tell
  <2>3. ApprovalsAreStored' /\ StagesAgree'
    BY DEF PermissionInv, PermissionTypes, QuestionsAgree, ApprovalsAreStored, StagesAgree, Abort,
           ToStage, Tell, ReviewIsOver
  <2> QED BY <2>1, <2>2, <2>3 DEF PermissionInv
<1>3. CASE DeleteConversation
  BY <1>3 DEF PermissionInv, PermissionTypes, QuestionsAgree, ApprovalsAreStored, StagesAgree,
              DeleteConversation
<1> QED BY <1>1, <1>2, <1>3

\* The continuation of a review, the return of a call and a restart do.
LEMMA ReturnKeeps ==
  ASSUME PermissionInv,
         (\E c \in Calls : ReviewResumes(c) \/ EndCall(c)) \/ PermissionRestart
  PROVE  PermissionInv'
<1>1. CASE \E c \in Calls : ReviewResumes(c)
  <2> PICK c \in Calls : ReviewResumes(c)
    BY <1>1
  <2>1. PermissionTypes'
    BY DEF PermissionInv, PermissionTypes, ReviewResumes, ReviewIsOver, ToStage, Stages
  <2>2. QuestionsAgree'
    BY DEF PermissionInv, PermissionTypes, QuestionsAgree, ReviewResumes, ToStage
  <2>3. ApprovalsAreStored'
    BY DEF PermissionInv, ApprovalsAreStored, ReviewResumes
  <2>4. StagesAgree'
    BY DEF PermissionInv, PermissionTypes, StagesAgree, ReviewResumes, ReviewIsOver, ToStage
  <2> QED BY <2>1, <2>2, <2>3, <2>4 DEF PermissionInv
<1>2. CASE \E c \in Calls : EndCall(c)
  <2> PICK c \in Calls : EndCall(c)
    BY <1>2
  <2>1. PermissionTypes'
    BY DEF PermissionInv, PermissionTypes, EndCall, ToStage, Tell, Stages, Events
  <2>2. QuestionsAgree'
    BY DEF PermissionInv, PermissionTypes, QuestionsAgree, EndCall, ToStage, Tell
  <2>3. ApprovalsAreStored' /\ StagesAgree'
    BY DEF PermissionInv, PermissionTypes, ApprovalsAreStored, StagesAgree, EndCall, ToStage, Tell
  <2> QED BY <2>1, <2>2, <2>3 DEF PermissionInv
<1>3. CASE PermissionRestart
  BY <1>3 DEF PermissionInv, PermissionTypes, QuestionsAgree, ApprovalsAreStored, StagesAgree,
              PermissionRestart, Stages, Events
<1> QED BY <1>1, <1>2, <1>3

------------------------------------------------------------------------------
(* The chain of the lock.                                                  *)

\* An order of the chain is one as long as the calls in it and their promises stay.
LEMMA SameChain ==
  ASSUME NEW pos \in [Calls -> Nat], Ordered(pos), InChain' = InChain, UNCHANGED <<tail, previous>>
  PROVE  Ordered(pos)'
  BY DEF Ordered

\* A call that takes the end of the chain waits for the one that had it.
LEMMA EnqueueKeepsChain ==
  ASSUME FileTypes, Chain, NEW c \in Calls, Enqueues(c)
  PROVE  Chain'
<1>1. PICK pos \in [Calls -> Nat] : Ordered(pos)
  BY DEF Chain
<1>2. InChain' = InChain \union {c} /\ c \notin InChain
  BY DEF FileTypes, InChain, Enqueues, ToPhase, Locked
<1>3. \A d \in Calls : d # c => previous'[d] = previous[d]
  BY DEF FileTypes, Enqueues
<1>4. previous'[c] = tail /\ tail' = c /\ c # NoCall
  BY DEF FileTypes, Enqueues
<1>5. PICK last \in Nat : last = IF tail = NoCall THEN 0 ELSE pos[tail] + 1
  BY DEF FileTypes
<1>6. PICK next \in [Calls -> Nat] : next[c] = last /\ \A d \in Calls : d # c => next[d] = pos[d]
  <2>1. [pos EXCEPT ![c] = last] \in [Calls -> Nat]
    OBVIOUS
  <2> QED BY <2>1
<1>7. InChain \subseteq Calls /\ \A d \in InChain : d # c /\ pos[d] \in Nat /\ pos[d] < last
  <2>1. InChain \subseteq Calls /\ \A d \in InChain : d # c /\ pos[d] \in Nat
    BY <1>2 DEF InChain
  <2>2. CASE tail = NoCall
    BY <1>1, <2>1, <2>2 DEF Ordered
  <2>3. CASE tail # NoCall
    <3>1. tail \in InChain /\ \A d \in InChain : pos[d] <= pos[tail]
      BY <1>1, <2>3 DEF Ordered
    <3> QED BY <1>5, <2>1, <2>3, <3>1
  <2> QED BY <2>2, <2>3
<1>8. Ordered(next)'
  <2>1. \A a, b \in InChain' : next[a] = next[b] => a = b
    BY <1>1, <1>2, <1>5, <1>6, <1>7 DEF Ordered
  <2>2. \A a \in InChain' : previous'[a] = NoCall => \A b \in InChain' : next[a] <= next[b]
    <3> SUFFICES ASSUME NEW a \in InChain', previous'[a] = NoCall, NEW b \in InChain'
                 PROVE  next[a] <= next[b]
      OBVIOUS
    <3>1. CASE a = c
      <4>1. InChain = {}
        BY <1>1, <1>4, <3>1 DEF Ordered
      <4> QED BY <1>2, <1>5, <1>6, <3>1, <4>1
    <3>2. CASE a # c
      <4>1. a \in InChain /\ previous[a] = NoCall
        BY <1>2, <1>3, <1>7, <3>2
      <4>2. \A d \in InChain : pos[a] <= pos[d]
        BY <1>1, <4>1 DEF Ordered
      <4> QED BY <1>2, <1>5, <1>6, <1>7, <4>1, <4>2
    <3> QED BY <3>1, <3>2
  <2>3. \A a \in InChain' : previous'[a] # NoCall =>
          /\ previous'[a] \in InChain'
          /\ next[previous'[a]] < next[a]
          /\ \A d \in InChain' : next[d] < next[a] => next[d] <= next[previous'[a]]
    <3> SUFFICES ASSUME NEW a \in InChain', previous'[a] # NoCall
                 PROVE  /\ previous'[a] \in InChain'
                        /\ next[previous'[a]] < next[a]
                        /\ \A d \in InChain' : next[d] < next[a] => next[d] <= next[previous'[a]]
      OBVIOUS
    <3>1. CASE a = c
      <4>1. tail \in InChain /\ \A d \in InChain : pos[d] <= pos[tail]
        BY <1>1, <1>4, <3>1 DEF Ordered
      <4> QED BY <1>2, <1>4, <1>5, <1>6, <1>7, <3>1, <4>1
    <3>2. CASE a # c
      <4>1. a \in InChain /\ previous'[a] = previous[a]
        BY <1>2, <1>3, <1>7, <3>2
      <4>2. /\ previous[a] \in InChain
            /\ pos[previous[a]] < pos[a]
            /\ \A d \in InChain : pos[d] < pos[a] => pos[d] <= pos[previous[a]]
        BY <1>1, <3>2, <4>1 DEF Ordered
      <4> QED BY <1>2, <1>5, <1>6, <1>7, <4>1, <4>2
    <3> QED BY <3>1, <3>2
  <2>4. tail' # NoCall /\ tail' \in InChain' /\ \A d \in InChain' : next[d] <= next[tail']
    BY <1>2, <1>4, <1>5, <1>6, <1>7
  <2> QED BY <2>1, <2>2, <2>3, <2>4 DEF Ordered
<1>9. \A d \in Calls : phase'[d] \in Locked => previous'[d] = NoCall
  <2>1. \A d \in Calls : phase[d] \in Locked => previous[d] = NoCall
    BY DEF Chain
  <2>2. phase'[c] = "queued" /\ \A d \in Calls : d # c => phase'[d] = phase[d]
    BY DEF FileTypes, Enqueues, ToPhase
  <2> QED BY <1>3, <2>1, <2>2 DEF Locked
<1> QED BY <1>6, <1>8, <1>9 DEF Chain

\* The call that ends its section was the first: the one behind it is the first now.
LEMMA ReleaseKeepsChain ==
  ASSUME FileTypes, Chain, NEW c \in Calls, phase[c] \in Locked, Releases(c), ToPhase(c, "out")
  PROVE  Chain'
<1>1. PICK pos \in [Calls -> Nat] : Ordered(pos)
  BY DEF Chain
<1>2. /\ InChain \subseteq Calls /\ c \in InChain /\ InChain' = InChain \ {c}
      /\ \A d \in InChain : pos[d] \in Nat
  BY DEF FileTypes, InChain, ToPhase, Locked
<1>3. previous[c] = NoCall /\ c # NoCall
  BY DEF Chain
<1>4. \A d \in InChain : pos[c] <= pos[d]
  BY <1>1, <1>2, <1>3 DEF Ordered
<1>5. \A d \in InChain' : pos[c] < pos[d]
  BY <1>1, <1>2, <1>4 DEF Ordered
<1>6. \A d \in InChain : d # c => previous[d] # NoCall
  <2> SUFFICES ASSUME NEW d \in InChain, d # c, previous[d] = NoCall PROVE FALSE
    OBVIOUS
  <2>1. pos[d] <= pos[c]
    BY <1>1, <1>2 DEF Ordered
  <2> QED BY <1>2, <1>5, <2>1
<1>7. \A d \in Calls : previous'[d] = IF previous[d] = c THEN NoCall ELSE previous[d]
  BY DEF Releases
<1>8. Ordered(pos)'
  <2>1. \A a, b \in InChain' : pos[a] = pos[b] => a = b
    BY <1>1, <1>2 DEF Ordered
  <2>2. \A a \in InChain' : previous'[a] = NoCall => \A b \in InChain' : pos[a] <= pos[b]
    <3> SUFFICES ASSUME NEW a \in InChain', previous'[a] = NoCall, NEW b \in InChain'
                 PROVE  pos[a] <= pos[b]
      OBVIOUS
    <3>1. a \in InChain /\ previous[a] = c
      BY <1>2, <1>6, <1>7
    <3>2. pos[b] < pos[a] => pos[b] <= pos[c]
      BY <1>1, <1>2, <1>3, <3>1 DEF Ordered
    <3> QED BY <1>2, <1>5, <3>1, <3>2
  <2>3. \A a \in InChain' : previous'[a] # NoCall =>
          /\ previous'[a] \in InChain'
          /\ pos[previous'[a]] < pos[a]
          /\ \A d \in InChain' : pos[d] < pos[a] => pos[d] <= pos[previous'[a]]
    BY <1>1, <1>2, <1>7 DEF Ordered
  <2>4. tail' = NoCall => InChain' = {}
    <3>1. CASE tail = c
      <4>1. \A d \in InChain : pos[d] <= pos[c]
        BY <1>1, <1>3, <3>1 DEF Ordered
      <4> QED BY <1>2, <1>5, <4>1
    <3>2. CASE tail # c
      BY <1>1, <1>2, <3>2 DEF Releases, Ordered
    <3> QED BY <3>1, <3>2
  <2>5. tail' # NoCall => tail' \in InChain' /\ \A d \in InChain' : pos[d] <= pos[tail']
    BY <1>1, <1>2 DEF Ordered, Releases
  <2> QED BY <2>1, <2>2, <2>3, <2>4, <2>5 DEF Ordered
<1>9. \A d \in Calls : phase'[d] \in Locked => previous'[d] = NoCall
  BY <1>7 DEF Chain, FileTypes, ToPhase, Locked
<1> QED BY <1>8, <1>9 DEF Chain

\* The steps that leave the chain alone.
LEMMA OtherStepsKeepChain ==
  ASSUME FileTypes, Chain, UNCHANGED <<tail, previous>>,
         \A d \in Calls :
           \/ phase'[d] = phase[d]
           \/ phase[d] \in Locked /\ phase'[d] \in Locked
           \/ phase[d] = "queued" /\ previous[d] = NoCall /\ phase'[d] = "holding"
           \/ d \notin InChain /\ phase'[d] \notin Locked \union {"queued"}
  PROVE  Chain'
<1>1. InChain' = InChain
  BY DEF InChain, Locked
<1>2. \E pos \in [Calls -> Nat] : Ordered(pos)'
  BY <1>1, SameChain DEF Chain
<1>3. \A d \in Calls : phase'[d] \in Locked => previous'[d] = NoCall
  BY DEF Chain, Locked, InChain
<1> QED BY <1>2, <1>3 DEF Chain

\* Two calls in their sections would both be the first of the chain.
LEMMA ChainExcludes == Chain => OneWriter
<1> SUFFICES ASSUME Chain, NEW c \in Calls, NEW d \in Calls, phase[c] \in Locked, phase[d] \in Locked
             PROVE  c = d
  BY DEF OneWriter
<1>1. PICK pos \in [Calls -> Nat] : Ordered(pos)
  BY DEF Chain
<1>2. c \in InChain /\ d \in InChain /\ previous[c] = NoCall /\ previous[d] = NoCall
  BY DEF Chain, InChain
<1>3. pos[c] <= pos[d] /\ pos[d] <= pos[c]
  BY <1>1, <1>2 DEF Ordered
<1> QED BY <1>1, <1>2, <1>3 DEF Ordered

------------------------------------------------------------------------------
(* The file tools.                                                         *)

\* A step keeps the invariant of the files if it keeps its three parts.
LEMMA FileParts ==
  ASSUME FileTypes', Chain', Unseen', ReplacesWhatWasRead'
  PROVE  FileInv'
<1>1. OneWriter'
  BY ChainExcludes, PTL
<1> QED BY <1>1 DEF FileInv

\* A shell command changes the file at any time.
LEMMA ShellKeeps ==
  ASSUME FileInv, NEW c \in Calls, ShellWrites(c) \/ ShellRemoves(c) \/ ShellEnds(c)
  PROVE  FileInv'
<1>1. FileTypes'
  BY DEF FileInv, FileTypes, Phases, Contents, Tools, Writers, Locked, ShellWrites, ShellRemoves, ShellEnds, Becomes, Leaves, ToPhase
<1>2. Chain'
  BY OtherStepsKeepChain DEF FileInv, FileTypes, InChain, Locked, ShellWrites, ShellRemoves, ShellEnds, Becomes, Leaves, ToPhase
<1>3. Unseen'
  BY DEF FileInv, FileTypes, Unseen, OneWriter, Locked, Writers, Contents, Unguarded, ShellWrites, ShellRemoves, ShellEnds, Becomes, Leaves, ToPhase
<1>4. ReplacesWhatWasRead'
  BY DEF FileInv, FileTypes, ReplacesWhatWasRead, Unseen, Writers, ShellWrites, ShellRemoves, ShellEnds, Becomes, Leaves, ToPhase
<1> QED BY <1>1, <1>2, <1>3, <1>4, FileParts

\* A read makes the content known, and stamps whatever is there when it is done.
LEMMA ReadKeeps ==
  ASSUME FileInv, NEW c \in Calls, Reads(c) \/ RemembersRead(c)
  PROVE  FileInv'
<1>1. FileTypes'
  BY DEF FileInv, FileTypes, Phases, Contents, Tools, Writers, Locked, Reads, RemembersRead, RememberRead, Leaves, ToPhase
<1>2. Chain'
  BY OtherStepsKeepChain DEF FileInv, FileTypes, InChain, Locked, Reads, RemembersRead, RememberRead, Leaves, ToPhase
<1>3. Unseen'
  BY DEF FileInv, FileTypes, Unseen, OneWriter, Locked, Writers, Contents, Unguarded, Reads, RemembersRead, RememberRead, Leaves, ToPhase
<1>4. ReplacesWhatWasRead'
  BY DEF FileInv, FileTypes, ReplacesWhatWasRead, Unseen, Writers, Reads, RemembersRead, RememberRead, Leaves, ToPhase
<1> QED BY <1>1, <1>2, <1>3, <1>4, FileParts

\* The first call of the chain enters its section and looks at the file.
LEMMA AcquireKeeps ==
  ASSUME FileInv, NEW c \in Calls, Acquires(c) \/ StatsBeforeWrite(c) \/ ReadsBase(c)
  PROVE  FileInv'
<1>1. FileTypes'
  BY DEF FileInv, FileTypes, Phases, Contents, Tools, Writers, Locked, Acquires, StatsBeforeWrite, ReadsBase, ToPhase
<1>2. Chain'
  BY OtherStepsKeepChain DEF FileInv, FileTypes, InChain, Locked, Acquires, StatsBeforeWrite, ReadsBase, ToPhase
<1>3. Unseen'
  <2>1. CASE Acquires(c)
    BY <2>1 DEF FileInv, FileTypes, Unseen, Locked, Acquires, ToPhase
  <2>2. CASE StatsBeforeWrite(c)
    BY <2>2 DEF FileInv, FileTypes, Unseen, Locked, StatsBeforeWrite, ToPhase
  <2>3. CASE ReadsBase(c)
    BY <2>3 DEF FileInv, FileTypes, Unseen, Locked, ReadsBase, ToPhase
  <2> QED BY <2>1, <2>2, <2>3
<1>4. ReplacesWhatWasRead'
  BY DEF FileInv, FileTypes, ReplacesWhatWasRead, Unseen, Writers, Acquires, StatsBeforeWrite, ReadsBase, ToPhase
<1> QED BY <1>1, <1>2, <1>3, <1>4, FileParts

\* A writer joins the chain.
LEMMA EnqueueKeeps ==
  ASSUME FileInv, NEW c \in Calls, Enqueues(c)
  PROVE  FileInv'
<1>1. FileTypes'
  BY DEF FileInv, FileTypes, Phases, Contents, Tools, Writers, Locked, Enqueues, ToPhase
<1>2. Chain'
  BY EnqueueKeepsChain DEF FileInv
<1>3. Unseen'
  BY DEF FileInv, FileTypes, Unseen, OneWriter, Locked, Writers, Contents, Unguarded, Enqueues, ToPhase
<1>4. ReplacesWhatWasRead'
  BY DEF FileInv, FileTypes, ReplacesWhatWasRead, Unseen, Writers, Enqueues, ToPhase
<1> QED BY <1>1, <1>2, <1>3, <1>4, FileParts

\* A write that fails ends its section.
LEMMA WriteFailsKeeps ==
  ASSUME FileInv, NEW c \in Calls, WriteFails(c)
  PROVE  FileInv'
<1>1. FileTypes'
  BY DEF FileInv, FileTypes, Phases, Contents, Tools, Writers, Locked, WriteFails, Releases, Leaves, ToPhase
<1>2. Chain'
  BY ReleaseKeepsChain DEF FileInv, WriteFails, Leaves, Locked
<1>3. Unseen'
  BY DEF FileInv, FileTypes, Unseen, OneWriter, Locked, Writers, Contents, Unguarded, WriteFails, Releases, Leaves, ToPhase
<1>4. ReplacesWhatWasRead'
  BY DEF FileInv, FileTypes, ReplacesWhatWasRead, Unseen, Writers, WriteFails, Releases, Leaves, ToPhase
<1> QED BY <1>1, <1>2, <1>3, <1>4, FileParts

\* So does one that succeeds, after it stamped what it knows.
LEMMA RemembersKeeps ==
  ASSUME FileInv, NEW c \in Calls, RemembersWrite(c)
  PROVE  FileInv'
<1>1. FileTypes'
  BY DEF FileInv, FileTypes, Phases, Contents, Tools, Writers, Locked, RemembersWrite, RememberRead, Releases, Leaves, ToPhase
<1>2. Chain'
  BY ReleaseKeepsChain DEF FileInv, RemembersWrite, Leaves, Locked
<1>3. Unseen'
  BY DEF FileInv, FileTypes, Unseen, OneWriter, Locked, Writers, Contents, Unguarded, RemembersWrite, RememberRead, Releases, Leaves, ToPhase
<1>4. ReplacesWhatWasRead'
  BY DEF FileInv, FileTypes, ReplacesWhatWasRead, Unseen, Writers, RemembersWrite, RememberRead, Releases, Leaves, ToPhase
<1> QED BY <1>1, <1>2, <1>3, <1>4, FileParts

\* The check admits a writer only to a content that is not foreign, or to the end of any.
LEMMA CheckKeeps ==
  ASSUME FileInv, NEW c \in Calls, Checks(c)
  PROVE  FileInv'
<1>1. FileTypes'
  BY DEF FileInv, FileTypes, Phases, Contents, Tools, Writers, Locked, Checks, CanWrite, Releases, Leaves, ToPhase
<1>2. Chain'
  <2>1. CASE phase'[c] = "checked" /\ UNCHANGED <<tail, previous>>
    <3>1. phase[c] = "statted" /\ \A d \in Calls : d # c => phase'[d] = phase[d]
      BY <2>1 DEF FileInv, FileTypes, Checks, ToPhase, Leaves
    <3> QED BY <2>1, <3>1, OtherStepsKeepChain DEF FileInv, Locked
  <2>2. CASE Releases(c) /\ Leaves(c)
    <3>1. phase[c] \in Locked /\ ToPhase(c, "out")
      BY <2>2 DEF Checks, Leaves, Locked
    <3> QED BY <2>2, <3>1, ReleaseKeepsChain DEF FileInv
  <2> QED BY <2>1, <2>2 DEF Checks, FileInv, FileTypes, ToPhase
<1>3. Unseen'
  <2>1. CASE (tool[c] = "append" \/ CanWrite) /\ ToPhase(c, "checked")
    BY <2>1 DEF FileInv, FileTypes, Unseen, Locked, Checks, CanWrite, ToPhase
  <2>2. CASE ~(tool[c] = "append" \/ CanWrite) /\ Leaves(c)
    BY <2>2 DEF FileInv, FileTypes, Unseen, Locked, Checks, Leaves, ToPhase
  <2> QED BY <2>1, <2>2 DEF Checks
<1>4. ReplacesWhatWasRead'
  BY DEF FileInv, FileTypes, ReplacesWhatWasRead, Unseen, Writers, Checks, CanWrite, Releases, Leaves, ToPhase
<1> QED BY <1>1, <1>2, <1>3, <1>4, FileParts

\* A write replaces a content that it may replace.
LEMMA WriteKeeps ==
  ASSUME FileInv, NEW c \in Calls, Writes(c)
  PROVE  FileInv'
<1>1. base[c] \in Contents \union {"same", "absent"} /\ tool[c] \in Writers
  BY DEF FileInv, FileTypes, Unseen, Writes, Locked
<1>2. Origin(c) \in Contents \union {"absent"}
  BY <1>1 DEF FileInv, FileTypes, Origin, Contents
<1>3. Origin(c) = "foreign" => disk = "foreign" /\ tool[c] = "append" /\ c \in existed
  BY <1>1 DEF FileInv, FileTypes, Unseen, Origin, Contents, Writes
<1>4. FileTypes'
  BY <1>2 DEF FileInv, FileTypes, Phases, Contents, Writes, Becomes, ToPhase
<1>5. Chain'
  BY OtherStepsKeepChain DEF FileInv, FileTypes, InChain, Locked, Writes, ToPhase
<1>6. Unseen'
  BY <1>3 DEF FileInv, FileTypes, Unseen, OneWriter, Locked, Writes, Becomes, ToPhase
<1>7. ReplacesWhatWasRead'
  BY <1>1 DEF FileInv, FileTypes, ReplacesWhatWasRead, Unseen, Writers, Writes
<1> QED BY <1>4, <1>5, <1>6, <1>7, FileParts

\* Every step of a tool keeps the invariant.
LEMMA FileStepKeeps ==
  ASSUME FileInv, NEW c \in Calls, FileStep(c)
  PROVE  FileInv'
  BY ShellKeeps, ReadKeeps, AcquireKeeps, EnqueueKeeps, CheckKeeps, WriteFailsKeeps, WriteKeeps,
     RemembersKeeps DEF FileStep

\* So do the choice of a tool, its start, the end of a refused call and the removal of the environment.
LEMMA OutsideKeeps ==
  ASSUME FileInv, NEW c \in Calls, phase[c] = "out",
         \/ \E t \in Tools : Picks(c, t)
         \/ Starts(c)
         \/ Leaves(c) /\ UNCHANGED <<disk, stamp, tail, previous, lost>>
         \/ RemovesEnvironment
  PROVE  FileInv'
<1>1. FileTypes'
  BY DEF FileInv, FileTypes, Phases, Contents, Tools, Writers, Locked, Picks, Starts, Leaves, ToPhase, RemovesEnvironment, Becomes
<1>2. Chain'
  BY OtherStepsKeepChain DEF FileInv, FileTypes, InChain, Locked, Picks, Starts, Leaves, ToPhase, RemovesEnvironment
<1>3. Unseen'
  BY DEF FileInv, FileTypes, Unseen, OneWriter, Locked, Writers, Contents, Unguarded, Picks, Starts, Leaves, ToPhase, RemovesEnvironment, Becomes
<1>4. ReplacesWhatWasRead'
  BY DEF FileInv, FileTypes, ReplacesWhatWasRead, Unseen, Writers, Picks, Starts, Leaves, ToPhase, RemovesEnvironment, Becomes
<1> QED BY <1>1, <1>2, <1>3, <1>4, FileParts

------------------------------------------------------------------------------
(* The calls.                                                              *)

\* The start satisfies the invariant.
THEOREM InitIInv == Init => IInv
<1> SUFFICES ASSUME Init PROVE IInv
  OBVIOUS
<1>1. PermissionInv
  BY DEF Init, PermissionInit, PermissionInv, PermissionTypes, QuestionsAgree, ApprovalsAreStored,
         StagesAgree, Stages, Events
<1>2. FileTypes
  BY DEF Init, FilesInit, FileTypes, Contents, Phases
<1>3. Chain
  <2>1. PICK pos \in [Calls -> Nat] : TRUE
    <3>1. [c \in Calls |-> 0] \in [Calls -> Nat]
      OBVIOUS
    <3> QED BY <3>1
  <2>2. InChain = {}
    BY DEF Init, FilesInit, InChain, Locked
  <2> QED BY <2>1, <2>2 DEF Chain, Ordered, Init, FilesInit, Locked
<1>4. OneWriter
  BY <1>3, ChainExcludes
<1>5. Unseen /\ ReplacesWhatWasRead /\ RunsAreAllowed
  BY DEF Init, FilesInit, Unseen, ReplacesWhatWasRead, RunsAreAllowed, Locked
<1> QED BY <1>1, <1>2, <1>3, <1>4, <1>5 DEF IInv, FileInv

\* What the permission service does not touch, and what the file tools do not.
LEMMA UnchangedPermissions ==
  ASSUME PermissionInv, UNCHANGED permissionVars
  PROVE  PermissionInv'
  BY DEF PermissionInv, PermissionTypes, QuestionsAgree, ApprovalsAreStored, StagesAgree, permissionVars

LEMMA UnchangedFiles ==
  ASSUME FileInv, UNCHANGED fileVars
  PROVE  FileInv'
<1>1. FileTypes' /\ Unseen' /\ ReplacesWhatWasRead'
  BY DEF FileInv, FileTypes, Unseen, ReplacesWhatWasRead, fileVars
<1>2. Chain'
  BY OtherStepsKeepChain DEF FileInv, fileVars
<1> QED BY <1>1, <1>2, FileParts

\* Every step of a call keeps the invariant.
LEMMA CallKeeps ==
  ASSUME IInv, NEW c \in Calls,
         Reviews(c) \/ Resumes(c) \/ Begins(c) \/ Works(c) \/ IsRefused(c)
  PROVE  IInv'
<1>1. CASE Reviews(c)
  <2>1. \A needed : needed \intersect Asking \in SUBSET Operations
    OBVIOUS
  <2>2. PermissionInv'
    BY <1>1, <2>1, ReviewKeeps DEF IInv, Reviews
  <2>3. FileInv'
    BY <1>1, OutsideKeeps DEF IInv, Reviews
  <2>4. RunsAreAllowed'
    BY <1>1 DEF IInv, PermissionInv, PermissionTypes, RunsAreAllowed, Reviews, Picks, ReviewRefuses,
                ReviewPasses, ReviewAsks, ToStage
  <2> QED BY <2>2, <2>3, <2>4 DEF IInv
<1>2. CASE Resumes(c)
  <2>1. PermissionInv' /\ FileInv'
    BY <1>2, ReturnKeeps, UnchangedFiles DEF IInv, Resumes
  <2>2. RunsAreAllowed'
    BY <1>2 DEF IInv, PermissionInv, PermissionTypes, RunsAreAllowed, Resumes, ReviewResumes, ToStage, fileVars
  <2> QED BY <2>1, <2>2 DEF IInv
<1>3. CASE Begins(c)
  <2>1. PermissionInv' /\ FileInv'
    BY <1>3, UnchangedPermissions, OutsideKeeps DEF IInv, Begins, Starts
  <2>2. RunsAreAllowed'
    BY <1>3 DEF IInv, FileInv, FileTypes, RunsAreAllowed, Begins, Starts, ToPhase, permissionVars
  <2> QED BY <2>1, <2>2 DEF IInv
<1>4. CASE Works(c)
  <2>1. PermissionInv' /\ FileInv'
    BY <1>4, UnchangedPermissions, ReturnKeeps, FileStepKeeps DEF IInv, Works
  <2>2. \A d \in Calls : d # c => phase'[d] = phase[d]
    BY <1>4 DEF IInv, FileInv, FileTypes, Works, FileStep, ShellWrites, ShellRemoves, ShellEnds, Reads,
                RemembersRead, Enqueues, Acquires, StatsBeforeWrite, Checks, ReadsBase, WriteFails,
                Writes, RemembersWrite, Leaves, ToPhase
  <2>3. RunsAreAllowed'
    <3>1. phase[c] # "out"
      BY <1>4 DEF Works, FileStep, ShellWrites, ShellRemoves, ShellEnds, Reads, RemembersRead, Enqueues,
                  Acquires, StatsBeforeWrite, Checks, ReadsBase, WriteFails, Writes, RemembersWrite
    <3>2. \A d \in Calls : d # c => stage'[d] = stage[d]
      BY <1>4 DEF IInv, PermissionInv, PermissionTypes, Works, EndCall, ToStage, permissionVars
    <3>3. phase'[c] # "out" => stage'[c] = stage[c]
      BY <1>4 DEF Works, permissionVars
    <3> QED BY <2>2, <3>1, <3>2, <3>3 DEF IInv, RunsAreAllowed
  <2> QED BY <2>1, <2>3 DEF IInv
<1>5. CASE IsRefused(c)
  <2>1. phase[c] = "out"
    BY <1>5 DEF IInv, RunsAreAllowed, IsRefused
  <2>2. PermissionInv' /\ FileInv'
    BY <1>5, <2>1, ReturnKeeps, OutsideKeeps DEF IInv, IsRefused
  <2>3. RunsAreAllowed'
    BY <1>5, <2>1 DEF IInv, PermissionInv, PermissionTypes, FileInv, FileTypes, RunsAreAllowed, IsRefused,
                EndCall, Leaves, ToStage, ToPhase
  <2> QED BY <2>2, <2>3 DEF IInv
<1> QED BY <1>1, <1>2, <1>3, <1>4, <1>5

\* Every step keeps the invariant.
THEOREM StepIInv == IInv /\ [Next]_vars => IInv'
<1> SUFFICES ASSUME IInv, [Next]_vars PROVE IInv'
  OBVIOUS
<1>1. CASE \E c \in Calls : Reviews(c) \/ Resumes(c) \/ Begins(c) \/ Works(c) \/ IsRefused(c)
  BY <1>1, CallKeeps
<1>2. CASE Answers
  <2>1. PermissionInv' /\ FileInv'
    BY <1>2, AnswerKeeps, UnchangedFiles DEF IInv, Answers
  <2>2. \A c \in Calls : stage[c] = "allowed" => stage'[c] = "allowed"
    BY <1>2 DEF IInv, PermissionInv, PermissionTypes, QuestionsAgree, Answers, Reply, Abort,
                DeleteConversation, ToStage
  <2>3. RunsAreAllowed'
    BY <1>2, <2>2 DEF IInv, RunsAreAllowed, Answers, fileVars
  <2> QED BY <2>1, <2>3 DEF IInv
<1>3. CASE EnvironmentGoes
  <2>1. PermissionInv' /\ RunsAreAllowed'
    BY <1>3, UnchangedPermissions DEF IInv, RunsAreAllowed, EnvironmentGoes, RemovesEnvironment, permissionVars
  <2>2. FileTypes' /\ Unseen' /\ ReplacesWhatWasRead'
    BY <1>3 DEF IInv, FileInv, FileTypes, Unseen, ReplacesWhatWasRead, EnvironmentGoes, RemovesEnvironment, Becomes, Contents
  <2>3. Chain'
    BY <1>3, OtherStepsKeepChain DEF IInv, FileInv, EnvironmentGoes, RemovesEnvironment
  <2> QED BY <2>1, <2>2, <2>3, FileParts DEF IInv
<1>4. CASE Restart
  <2>1. PermissionInv'
    BY <1>4, ReturnKeeps DEF IInv, Restart
  <2>2. FileTypes' /\ Unseen' /\ ReplacesWhatWasRead' /\ RunsAreAllowed'
    BY <1>4 DEF IInv, FileInv, FileTypes, Unseen, ReplacesWhatWasRead, RunsAreAllowed, Restart, FilesRestart,
                Contents, Phases, Locked
  <2>3. Chain'
    <3>1. InChain' = {}
      BY <1>4 DEF Restart, FilesRestart, InChain, Locked
    <3>2. PICK pos \in [Calls -> Nat] : TRUE
      BY DEF IInv, FileInv, Chain
    <3>3. Ordered(pos)'
      BY <1>4, <3>1 DEF Ordered, Restart, FilesRestart
    <3>4. \A c \in Calls : phase'[c] \in Locked => previous'[c] = NoCall
      BY <1>4 DEF Restart, FilesRestart
    <3> QED BY <3>2, <3>3, <3>4 DEF Chain
  <2> QED BY <2>1, <2>2, <2>3, FileParts DEF IInv
<1>5. CASE UNCHANGED vars
  BY <1>5, UnchangedPermissions, UnchangedFiles DEF IInv, RunsAreAllowed, vars, permissionVars, fileVars
<1> QED BY <1>1, <1>2, <1>3, <1>4, <1>5 DEF Next

THEOREM Invariance == Spec => []IInv
  BY InitIInv, StepIInv, PTL DEF Spec

\* Every variable keeps its type.
THEOREM TypeCorrect == Spec => []TypeOK
<1>1. IInv => TypeOK
  BY DEF IInv, PermissionInv, FileInv, TypeOK
<1> QED BY <1>1, Invariance, PTL

\* The pending requests, the waiting reviews and the open questions are the same calls.
THEOREM QuestionsAlwaysAgree == Spec => []QuestionsAgree
<1>1. IInv => QuestionsAgree
  BY DEF IInv, PermissionInv
<1> QED BY <1>1, Invariance, PTL

\* The cached approvals of a stored conversation are the stored ones.
THEOREM ApprovalsSurvive == Spec => []ApprovalsAreStored
<1>1. IInv => ApprovalsAreStored
  BY DEF IInv, PermissionInv
<1> QED BY <1>1, Invariance, PTL

\* At most one writer of a file is past its lock.
THEOREM WritersExclude == Spec => []OneWriter
<1>1. IInv => OneWriter
  BY DEF IInv, FileInv
<1> QED BY <1>1, Invariance, PTL

(***************************************************************************)
(* While writers wait for the lock of a file, one of them has it or finds  *)
(* the promise it awaits resolved: the chain of withFileLock never ties    *)
(* itself into a knot, whatever the calls before did and wherever they     *)
(* failed. WritersGetTheirTurn, which a run checks, is this with fairness. *)
(***************************************************************************)
LockGoesOn ==
  (\E c \in Calls : phase[c] = "queued") =>
    \E c \in Calls : phase[c] \in Locked \/ (phase[c] = "queued" /\ previous[c] = NoCall)

\* Of the positions in a chain that is not empty one is the least.
LEMMA FirstInChain ==
  ASSUME NEW pos \in [Calls -> Nat], InChain # {}
  PROVE  \E c \in InChain : \A d \in InChain : pos[c] <= pos[d]
<1> DEFINE places == {pos[c] : c \in InChain}
           below == {ss \in Nat \X Nat : ss[1] < ss[2]}
<1>1. places \subseteq Nat /\ places # {}
  BY DEF InChain
<1>2. IsWellFoundedOn(below, Nat)
  BY NatLessThanWellFounded DEF OpToRel
<1>3. PICK n \in places : \A k \in places : <<k, n>> \notin below
  <2> HIDE DEF places, below
  <2> QED BY <1>1, <1>2, WFMin
<1>4. ASSUME NEW k \in places
      PROVE  n <= k
  <2>1. k \in Nat /\ n \in Nat
    BY <1>1, <1>3
  <2>2. ~(k < n)
    BY <1>3, <2>1
  <2> QED BY <2>1, <2>2
<1>5. PICK c \in InChain : n = pos[c]
  BY <1>3
<1>6. \A d \in InChain : pos[d] \in places
  OBVIOUS
<1> QED BY <1>4, <1>5, <1>6

THEOREM LockNeverSticks == Spec => []LockGoesOn
<1>1. ASSUME Chain, NEW w \in Calls, phase[w] = "queued"
      PROVE  \E c \in Calls : phase[c] \in Locked \/ (phase[c] = "queued" /\ previous[c] = NoCall)
  <2>1. PICK pos \in [Calls -> Nat] : Ordered(pos)
    BY <1>1 DEF Chain
  <2>2. InChain # {}
    BY <1>1 DEF InChain
  <2>3. PICK c \in InChain : \A d \in InChain : pos[c] <= pos[d]
    BY <2>2, FirstInChain
  <2>4. previous[c] = NoCall
    <3> SUFFICES ASSUME previous[c] # NoCall PROVE FALSE
      OBVIOUS
    <3>1. previous[c] \in InChain /\ pos[previous[c]] < pos[c]
      BY <2>1 DEF Ordered
    <3>2. pos[c] <= pos[previous[c]] /\ pos[c] \in Nat /\ pos[previous[c]] \in Nat
      BY <2>3, <3>1 DEF InChain
    <3> QED BY <3>1, <3>2
  <2> QED BY <2>4 DEF InChain
<1>2. IInv => LockGoesOn
  BY <1>1 DEF IInv, FileInv, LockGoesOn
<1> QED BY <1>2, Invariance, PTL

\* A file tool replaces a foreign content only if a shell changed it behind an await of a tool.
THEOREM ReadBeforeWrite == Spec => []ReplacesWhatWasRead
<1>1. IInv => ReplacesWhatWasRead
  BY DEF IInv, FileInv
<1> QED BY <1>1, Invariance, PTL

------------------------------------------------------------------------------
(* The refinement.                                                         *)

Running == {c \in Calls : phase[c] # "out"}

\* A step of a call is one of the dialogue about it, or none.
LEMMA CallImplements ==
  ASSUME IInv, NEW c \in Calls,
         Reviews(c) \/ Resumes(c) \/ Begins(c) \/ Works(c) \/ IsRefused(c)
  PROVE  Dialogue!Next \/ UNCHANGED <<told, Running>>
<1> USE DEF IInv, PermissionInv, PermissionTypes, FileInv, FileTypes
<1>1. CASE Reviews(c)
  <2>1. phase[c] = "out" /\ UNCHANGED phase /\ told[c] = "none"
    BY <1>1 DEF Reviews, Picks, ReviewRefuses, ReviewPasses, ReviewAsks, StagesAgree
  <2>2. \/ UNCHANGED told
        \/ told' = [told EXCEPT ![c] = "request"]
        \/ told' = [told EXCEPT ![c] = "rejected"]
    BY <1>1 DEF Reviews, ReviewRefuses, ReviewPasses, ReviewAsks, Tell
  <2>3. Dialogue!Ask(c) \/ Dialogue!TurnDown(c) \/ UNCHANGED <<told, Running>>
    BY <2>1, <2>2 DEF Dialogue!Ask, Dialogue!TurnDown, Running
  <2> QED BY <2>3 DEF Dialogue!Next
<1>2. CASE Resumes(c)
  BY <1>2 DEF Resumes, ReviewResumes, fileVars, Running
<1>3. CASE Begins(c)
  <2>1. told[c] \in {"none", "approved"} /\ UNCHANGED told
    BY <1>3 DEF Begins, StagesAgree, permissionVars
  <2>2. Running' = Running \union {c}
    BY <1>3 DEF Begins, Starts, ToPhase, Running
  <2>3. Dialogue!Run(c)
    BY <2>1, <2>2 DEF Dialogue!Run, Running
  <2> QED BY <2>3 DEF Dialogue!Next
<1>4. CASE Works(c)
  <2>1. \A d \in Calls : d # c => phase'[d] = phase[d]
    BY <1>4 DEF Works, FileStep, ShellWrites, ShellRemoves, ShellEnds, Reads, RemembersRead, Enqueues,
                Acquires, StatsBeforeWrite, Checks, ReadsBase, WriteFails, Writes, RemembersWrite, Leaves,
                ToPhase
  <2>2. phase[c] # "out"
    BY <1>4 DEF Works, FileStep, ShellWrites, ShellRemoves, ShellEnds, Reads, RemembersRead, Enqueues,
                Acquires, StatsBeforeWrite, Checks, ReadsBase, WriteFails, Writes, RemembersWrite
  <2>3. CASE phase'[c] = "out"
    <3>1. told[c] # "request" /\ told' = [told EXCEPT ![c] = "none"]
      BY <1>4, <2>2, <2>3 DEF Works, EndCall, Tell, RunsAreAllowed, StagesAgree
    <3>2. Running' = Running \ {c}
      BY <2>1, <2>3 DEF Running
    <3>3. Dialogue!Return(c)
      BY <3>1, <3>2 DEF Dialogue!Return, Running
    <3> QED BY <3>3 DEF Dialogue!Next
  <2>4. CASE phase'[c] # "out"
    BY <1>4, <2>1, <2>2, <2>4 DEF Works, Running, permissionVars
  <2> QED BY <2>3, <2>4
<1>5. CASE IsRefused(c)
  <2>1. told[c] # "request" /\ told' = [told EXCEPT ![c] = "none"]
    BY <1>5 DEF IsRefused, EndCall, Tell, QuestionsAgree
  <2>2. Running' = Running \ {c}
    BY <1>5 DEF IsRefused, Leaves, ToPhase, Running, RunsAreAllowed
  <2>3. Dialogue!Return(c)
    BY <2>1, <2>2 DEF Dialogue!Return, Running
  <2> QED BY <2>3 DEF Dialogue!Next
<1> QED BY <1>1, <1>2, <1>3, <1>4, <1>5

\* Questions get one verdict, and a call that was turned down never runs.
THEOREM ImplementsDialogue == Spec => DialogueSpec
<1>1. Init => Dialogue!Init
  BY DEF Init, PermissionInit, FilesInit, Dialogue!Init
<1>2. IInv /\ [Next]_vars => [Dialogue!Next]_<<told, Running>>
  <2> SUFFICES ASSUME IInv, [Next]_vars PROVE Dialogue!Next \/ UNCHANGED <<told, Running>>
    OBVIOUS
  <2>1. CASE \E c \in Calls : Reviews(c) \/ Resumes(c) \/ Begins(c) \/ Works(c) \/ IsRefused(c)
    BY <2>1, CallImplements
  <2>2. CASE Answers
    <3> USE DEF IInv, PermissionInv, PermissionTypes, QuestionsAgree
    <3>1. UNCHANGED Running
      BY <2>2 DEF Answers, fileVars, Running
    <3>2. CASE \E c \in Calls, d \in Decisions : Reply(c, d)
      <4> PICK c \in Calls, d \in Decisions : Reply(c, d)
        BY <3>2
      <4>1. told[c] = "request" /\ (told' = [told EXCEPT ![c] = "rejected"] \/ told' = [told EXCEPT ![c] = "approved"])
        BY DEF Reply, Tell
      <4>2. Dialogue!Answer(c)
        BY <3>1, <4>1 DEF Dialogue!Answer, Running
      <4> QED BY <4>2 DEF Dialogue!Next
    <3>3. CASE \E c \in Calls : Abort(c)
      <4> PICK c \in Calls : Abort(c)
        BY <3>3
      <4>1. CASE c \in listening
        <5>1. told[c] = "request" /\ told' = [told EXCEPT ![c] = "rejected"]
          BY <4>1 DEF Abort, Tell
        <5>2. Dialogue!Answer(c)
          BY <3>1, <5>1 DEF Dialogue!Answer, Running
        <5> QED BY <5>2 DEF Dialogue!Next
      <4>2. CASE c \notin listening
        BY <3>1, <4>2 DEF Abort
      <4> QED BY <4>1, <4>2
    <3>4. CASE DeleteConversation
      BY <3>1, <3>4 DEF DeleteConversation
    <3> QED BY <2>2, <3>2, <3>3, <3>4 DEF Answers
  <2>3. CASE EnvironmentGoes
    BY <2>3 DEF EnvironmentGoes, RemovesEnvironment, permissionVars, Running
  <2>4. CASE Restart
    <3>1. Dialogue!Lose
      BY <2>4 DEF Restart, PermissionRestart, FilesRestart, Dialogue!Lose
    <3> QED BY <3>1 DEF Dialogue!Next
  <2>5. CASE UNCHANGED vars
    BY <2>5 DEF vars, permissionVars, fileVars, Running
  <2> QED BY <2>1, <2>2, <2>3, <2>4, <2>5 DEF Next
<1>3. Spec => [][Dialogue!Next]_<<told, Running>>
  BY <1>2, Invariance, PTL DEF Spec
<1> QED BY <1>1, <1>3, PTL DEF Spec, DialogueSpec, Dialogue!Spec, Running
===============================================================================
