--------------------------- MODULE TaskStreamProofs ---------------------------
(***************************************************************************)
(* Proofs about TaskStream: what a client is told, for every number of     *)
(* messages and handles and any number of continuations.                   *)
(***************************************************************************)
EXTENDS TaskStreamProps, ConversationTaskProofs

\* A stream follows a reply of the store and a task of the server.
FollowsATask == stream.at = "following" => stream.msg \in Messages /\ stream.task \in Handles

StreamInv == StreamTypeOK /\ FollowsATask

------------------------------------------------------------------------------
(* Streams only watch.                                                     *)

LEMMA StreamStepIsStep == [StreamNext]_streamVars => [Next]_vars
<1> SUFFICES ASSUME [StreamNext]_streamVars PROVE [Next]_vars
  OBVIOUS
<1>1. CASE \E h \in Handles : ViewedTaskStep(h) \/ ViewedChunk(h)
  BY <1>1 DEF ViewedTaskStep, ViewedChunk, Next
<1>2. CASE \E r \in Requests : ViewedRequest(r)
  BY <1>2 DEF ViewedRequest, Next
<1>3. CASE \E r \in Requests, m \in Messages : OpenStream(r, m)
  BY <1>3 DEF OpenStream, Next, RequestStep
<1>4. CASE AttachStream \/ UNCHANGED streamVars
  BY <1>4 DEF AttachStream, streamVars
<1>5. CASE ViewedRestart
  BY <1>5 DEF ViewedRestart, Next
<1> QED BY <1>1, <1>2, <1>3, <1>4, <1>5 DEF StreamNext

(***************************************************************************)
(* streamTaskEvents and streamAttachedConversationTaskEvents read the      *)
(* store and the table and change neither: with streams the conversation   *)
(* behaves as without, so that its theorems hold of it.                    *)
(***************************************************************************)
THEOREM StreamsOnlyWatch == StreamSpec => Spec
<1>1. StreamInit => Init
  BY DEF StreamInit
<1> QED BY <1>1, StreamStepIsStep, PTL DEF StreamSpec, Spec

------------------------------------------------------------------------------
(* Where a stream goes.                                                    *)

(***************************************************************************)
(* What a step does to the stream, by what it leaves behind.               *)
(***************************************************************************)
Rests == stream' \in {Closed, Waiting} \/ (stream.at # "following" /\ UNCHANGED stream)

Begins ==
  \E c \in Messages : \E told \in {"none", status'[c]} :
    /\ tasks'[c] # NoHandle
    /\ stream' = [at |-> "following", msg |-> c, task |-> tasks'[c], told |-> told]

Stays ==
  /\ stream.at = "following"
  /\ proc' # "crashed"
  /\ ~settled'[stream.task]
  /\ stream' = [stream EXCEPT !.told = Told(stream.task)]

\* After a reply: a reply with a task, or the end of the stream.
LEMMA AfterReplyFound ==
  ASSUME NEW m \in Messages
  PROVE  \/ AfterReply(m) = Closed
         \/ \E c \in Messages : /\ tasks[c] # NoHandle
                                /\ AfterReply(m) = [at |-> "following", msg |-> c,
                                                    task |-> tasks[c], told |-> status[c]]
  BY DEF AfterReply, Reached, Follow

LEMMA FollowerMoves ==
  ASSUME FollowerReacts, stream.msg \in Messages, settled'[stream.task]
  PROVE  stream' = Closed \/ Begins
<1>1. \/ stream' = Closed
      \/ \E c \in Messages : /\ tasks'[c] # NoHandle
                             /\ stream' = [at |-> "following", msg |-> c,
                                           task |-> tasks'[c], told |-> status'[c]]
  BY DEF FollowerReacts, AfterReply, Reached, Continuation, Exists, Absent, Follow, Closed
<1> QED BY <1>1 DEF Begins

LEMMA StreamMoves ==
  ASSUME TypeOK, FollowsATask, [StreamNext]_streamVars
  PROVE  Rests \/ Begins \/ Stays \/ UNCHANGED <<vars, stream>>
<1>1. ASSUME StreamReacts
      PROVE  Rests \/ Begins \/ Stays
  <2>1. CASE proc' = "crashed"
    BY <1>1, <2>1 DEF StreamReacts, Rests
  <2>2. CASE proc' # "crashed" /\ FollowerReacts
    <3>1. CASE settled'[stream.task]
      BY <2>2, <3>1, FollowerMoves DEF FollowerReacts, FollowsATask, Rests
    <3>2. CASE ~settled'[stream.task]
      BY <2>2, <3>2 DEF FollowerReacts, Stays
    <3> QED BY <3>1, <3>2
  <2>3. CASE WaiterReacts
    BY <2>3 DEF WaiterReacts, Starts, Begins, Follow, Rests
  <2>4. CASE stream = Closed /\ UNCHANGED stream
    BY <2>4 DEF Rests
  <2> QED BY <1>1, <2>1, <2>2, <2>3, <2>4 DEF StreamReacts
<1>2. CASE \E h \in Handles : ViewedTaskStep(h) \/ ViewedChunk(h)
  BY <1>1, <1>2 DEF ViewedTaskStep, ViewedChunk
<1>3. CASE \E r \in Requests : ViewedRequest(r)
  BY <1>1, <1>3 DEF ViewedRequest
<1>4. ASSUME NEW r \in Requests, NEW m \in Messages, OpenStream(r, m)
      PROVE  Begins
  <2>1. /\ tasks'[m] # NoHandle
        /\ stream' = [at |-> "following", msg |-> m, task |-> tasks'[m], told |-> "pending"]
    BY <1>4 DEF OpenStream, Starts, Follow
  <2>2. status'[m] = "pending"
    BY <1>4 DEF OpenStream, SendMessageCreates, RetryMessage, TypeOK
  <2> QED BY <2>1, <2>2 DEF Begins
<1>5. CASE AttachStream
  <2>1. UNCHANGED <<status, tasks>>
    BY <1>5 DEF AttachStream, vars, taskVars
  <2>2. \/ stream' = Waiting
        \/ \E m \in Messages : stream' = AfterReply(m)
        \/ \E m \in Messages : \E told \in {"none", status[m]} :
             /\ tasks[m] # NoHandle
             /\ stream' = [at |-> "following", msg |-> m, task |-> tasks[m], told |-> told]
    BY <1>5 DEF AttachStream, Follow
  <2>3. \/ stream' = Waiting
        \/ stream' = Closed
        \/ \E m \in Messages : \E told \in {"none", status[m]} :
             /\ tasks[m] # NoHandle
             /\ stream' = [at |-> "following", msg |-> m, task |-> tasks[m], told |-> told]
    BY <2>2, AfterReplyFound
  <2> QED BY <2>1, <2>3 DEF Begins, Rests
<1>6. CASE ViewedRestart
  BY <1>6 DEF ViewedRestart, Rests
<1>7. CASE UNCHANGED streamVars
  BY <1>7 DEF streamVars
<1> QED BY <1>2, <1>3, <1>4, <1>5, <1>6, <1>7 DEF StreamNext

(***************************************************************************)
(* Types.                                                                  *)
(***************************************************************************)
LEMMA InitStream == StreamInit => StreamInv
  BY ConstantsAssumption
  DEF StreamInit, StreamInv, StreamTypeOK, FollowsATask, Closed, Status, Absent

LEMMA HistoryTypes ==
  ASSUME StreamTypeOK, TypeOK, [StreamNext]_streamVars
  PROVE  /\ newest' \in Messages \union {NoMessage}
         /\ continued' \in [Messages -> Messages \union {NoMessage}]
<1>1. ASSUME NEW p \in Messages \union {NoMessage}, HistoryGrows(p)
      PROVE  /\ newest' \in Messages \union {NoMessage}
             /\ continued' \in [Messages -> Messages \union {NoMessage}]
  BY <1>1 DEF HistoryGrows, StreamTypeOK, history
<1>2. CASE UNCHANGED history
  BY <1>2 DEF StreamTypeOK, history
<1>3. CASE \E h \in Handles : ViewedTaskStep(h) \/ ViewedChunk(h)
  BY <1>1, <1>2, <1>3 DEF ViewedTaskStep, ViewedChunk, TypeOK
<1>4. CASE \E r \in Requests : ViewedRequest(r) \/ \E m \in Messages : OpenStream(r, m)
  BY <1>1, <1>4 DEF ViewedRequest, OpenStream
<1> QED BY <1>2, <1>3, <1>4 DEF StreamNext, AttachStream, ViewedRestart, streamVars

LEMMA StreamTypes ==
  ASSUME TypeOK, TypeOK', StreamInv, [StreamNext]_streamVars
  PROVE  StreamInv'
<1>1. {"none", "pending", "streaming", "completed", "stopped", "error"} \subseteq Status
  BY DEF Status, Active, Outcome, Absent
<1> DEFINE Streams == [at : {"closed", "waiting", "following"}, msg : Messages \union {NoMessage},
                       task : Handles \union {NoHandle}, told : Status]
<1>2. stream \in Streams
  BY DEF StreamInv, StreamTypeOK
<1>3. CASE Rests
  <2>1. stream' \in Streams /\ stream'.at # "following"
    BY <1>1, <1>2, <1>3 DEF Rests, Closed, Waiting
  <2> QED BY <2>1, HistoryTypes DEF StreamInv, StreamTypeOK, FollowsATask
<1>4. CASE Begins
  <2>1. stream' \in Streams /\ FollowsATask'
    BY <1>1, <1>4 DEF Begins, FollowsATask, TypeOK
  <2> QED BY <2>1, HistoryTypes DEF StreamInv, StreamTypeOK
<1>5. CASE Stays
  <2>1. Told(stream.task) \in Status
    BY <1>1, <1>2 DEF Told
  <2>2. stream' \in Streams /\ FollowsATask'
    BY <1>2, <1>5, <2>1 DEF Stays, StreamInv, FollowsATask
  <2> QED BY <2>2, HistoryTypes DEF StreamInv, StreamTypeOK
<1>6. CASE UNCHANGED <<vars, stream>>
  BY <1>6, HistoryTypes DEF StreamInv, StreamTypeOK, FollowsATask
<1> QED BY <1>3, <1>4, <1>5, <1>6, StreamMoves DEF StreamInv

\* The variables of the streams keep their types, whoever asks for what.
THEOREM StreamTypeCorrect == StreamSpec => []StreamInv
<1>1. TypeOK /\ TypeOK' /\ StreamInv /\ [StreamNext]_streamVars => StreamInv'
  BY StreamTypes
<1>2. StreamSpec => []TypeOK
  BY StreamsOnlyWatch, TypeCorrect, PTL
<1> QED BY InitStream, <1>1, <1>2, PTL DEF StreamSpec

------------------------------------------------------------------------------
(* What a stream tells.                                                    *)

\* A task that goes on tells of the status it writes.
LEMMA GoingOnIsTold ==
  ASSUME IInv, IInv', CalmInv, CalmInv', LiveTasksStep, StreamInv, ViewIsCurrent, Stays
  PROVE  ViewIsCurrent'
<1> DEFINE h == stream.task
<1>1. h \in Handles /\ stream.msg \in Messages /\ ~settled'[h] /\ h # NoHandle
  BY ConstantsAssumption DEF Stays, StreamInv, FollowsATask
<1>2. ~settled[h] /\ tasks[stream.msg] = h /\ hmsg[h] = stream.msg
  BY <1>1 DEF Stays, ViewIsCurrent, IInv, TableMatchesHandles
<1>3. hmsg'[h] = stream.msg /\ MayFollow(pc[h], pc'[h])
  BY <1>1, <1>2 DEF LiveTasksStep, GoesOn, Ends
<1>4. tasks'[stream.msg] = h
  BY <1>1, <1>3 DEF IInv, TableMatchesHandles
<1>5. /\ status[stream.msg] = PhaseStatus(pc[h])
      /\ status'[stream.msg] = PhaseStatus(pc'[h])
  BY <1>1, <1>2, <1>3 DEF CalmInv, StatusFollowsTask
<1>6. /\ stream'.msg = stream.msg /\ stream'.task = h /\ stream'.told = Told(h)
  BY DEF Stays, StreamInv, StreamTypeOK
<1>7. \/ stream.told \in {"none", PhaseStatus(pc[h])}
      \/ pc[h] = "completing" /\ stream.told = "streaming"
  BY <1>5 DEF Stays, ViewIsCurrent
<1> HIDE DEF h
<1>8. \/ Told(h) \in {"none", PhaseStatus(pc'[h])}
      \/ pc'[h] = "completing" /\ Told(h) = "streaming"
  BY <1>1, <1>2, <1>3, <1>7 DEF Told, MayFollow, PhaseStatus, h
<1> QED BY <1>4, <1>5, <1>6, <1>8 DEF ViewIsCurrent

LEMMA StepTells ==
  ASSUME Disciplined, IInv, IInv', CalmInv, StreamInv, ViewIsCurrent, [StreamNext]_streamVars
  PROVE  ViewIsCurrent'
<1>1. CalmInv' /\ (Restart \/ LiveTasksStep)
  BY StreamStepIsStep, StepCalm
<1>2. CASE Rests
  <2>1. stream'.at # "following"
    BY <1>2 DEF Rests, Closed, Waiting
  <2> QED BY <2>1 DEF ViewIsCurrent
<1>3. CASE Begins
  BY <1>3 DEF Begins, ViewIsCurrent
<1>4. CASE Stays
  <2>1. ~Restart
    BY <1>4 DEF Restart, FreshMemory, Stays, StreamInv, FollowsATask
  <2> QED BY <1>1, <1>4, <2>1, GoingOnIsTold
<1>5. CASE UNCHANGED <<vars, stream>>
  BY <1>5 DEF vars, taskVars, ViewIsCurrent
<1> QED BY <1>2, <1>3, <1>4, <1>5, StreamMoves DEF IInv, StreamInv

(***************************************************************************)
(* prepareTaskRetry, emit and the start payloads: a client that follows a  *)
(* reply was last told the status that the store has, if clients ask one   *)
(* by one after [DONE] and hooks end within the grace period.              *)
(***************************************************************************)
THEOREM ViewsAreCurrent == ASSUME Disciplined PROVE StreamSpec => []ViewIsCurrent
<1>1. StreamInit => ViewIsCurrent
  BY DEF StreamInit, Closed, ViewIsCurrent
<1>2. IInv /\ IInv' /\ CalmInv /\ StreamInv /\ ViewIsCurrent /\ [StreamNext]_streamVars
        => ViewIsCurrent'
  BY StepTells
<1>3. StreamSpec => []IInv /\ []CalmInv
  BY StreamsOnlyWatch, SpecIInv, SpecCalm, PTL
<1> QED BY <1>1, <1>2, <1>3, StreamTypeCorrect, PTL DEF StreamSpec

------------------------------------------------------------------------------
(* When a stream says [DONE].                                              *)

\* The only new reply a task creates is its continuation, with its task.
LEMMA TaskAppends ==
  ASSUME IInv, CalmInv, NEW h \in Handles, TaskStep(h),
         NEW m \in Messages, Appends(m)
  PROVE  /\ ~settled[h] /\ pc[h] = "sending"
         /\ status'[m] = "pending" /\ tasks'[m] # NoHandle
<1>1. status[m] = "none" /\ status'[m] # "none"
  BY DEF Appends
<1>2. ~settled[h] => hmsg[h] # m /\ hmsg[h] \in Messages
  BY <1>1, OneHandle DEF Exists, Absent
<1>3. pc[h] \in Hooks => ~settled[h]
  BY DEF CalmInv, LeftOvers, Hooks
<1>4. ASSUME NEW outcome, FinishTask(h, outcome) PROVE FALSE
  BY <1>1, <1>2, <1>4 DEF FinishTask, UnhandledRejection, Snapshot, IInv, TypeOK
<1>5. ASSUME NEW s, NEW phase, Proceed(h, s, phase) PROVE FALSE
  BY <1>1, <1>2, <1>5 DEF Proceed, UnhandledRejection, Snapshot, IInv, TypeOK
<1>6. CASE RunTask(h) \/ StreamEnds(h) \/ RetryDelayOver(h) \/ AfterSend(h)
  BY <1>1, <1>6 DEF RunTask, StreamEnds, RetryDelayOver, AfterSend
<1>7. CASE StreamReady(h) \/ UsageRead(h) \/ AbortSeen(h)
  BY <1>4, <1>5, <1>7 DEF StreamReady, UsageRead, AbortSeen
<1>8. ASSUME NEW retryable \in BOOLEAN, Catch(h, retryable) PROVE FALSE
  <2>1. CASE aborted[h] \/ ~retryable \/ attempt[h] >= MaxRetries
    BY <1>4, <1>8, <2>1 DEF Catch
  <2>2. CASE ~(aborted[h] \/ ~retryable \/ attempt[h] >= MaxRetries)
    <3>1. UnhandledRejection \/ status' = Snapshot(h, "pending")
      BY <1>8, <2>2 DEF Catch
    <3> QED BY <1>1, <1>2, <3>1 DEF UnhandledRejection, Snapshot, IInv, TypeOK
  <2> QED BY <2>1, <2>2
<1>9. ASSUME NEW rewrites \in BOOLEAN, HooksDone(h, rewrites) PROVE FALSE
  <2>1. CASE rewrites /\ ~Exists(hmsg[h])
    BY <1>4, <1>9, <2>1 DEF HooksDone
  <2>2. CASE ~(rewrites /\ ~Exists(hmsg[h]))
    <3>1. /\ pc[h] = "completing"
          /\ status' = IF rewrites THEN [status EXCEPT ![hmsg[h]] = "completed"] ELSE status
      BY <1>9, <2>2 DEF HooksDone
    <3> QED BY <1>1, <1>2, <1>3, <3>1 DEF Hooks, IInv, TypeOK
  <2> QED BY <2>1, <2>2
<1>10. ASSUME NEW m2 \in Messages, NEW h2 \in Handles, AfterSendContinues(h, m2, h2)
       PROVE  /\ ~settled[h] /\ pc[h] = "sending"
              /\ status'[m] = "pending" /\ tasks'[m] # NoHandle
  <2>1. pc[h] = "sending" /\ ~settled[h]
    BY <1>3, <1>10 DEF AfterSendContinues, Hooks
  <2>2. /\ status' = [status EXCEPT ![m2] = "pending"]
        /\ tasks' = [[tasks EXCEPT ![hmsg[h]] = NoHandle] EXCEPT ![m2] = h2]
    BY <1>10, <2>1 DEF AfterSendContinues, StartTask
  <2>3. m = m2
    BY <1>1, <2>2 DEF IInv, TypeOK
  <2> QED BY <2>1, <2>2, <2>3, ConstantsAssumption DEF IInv, TypeOK
<1> QED BY <1>6, <1>7, <1>8, <1>9, <1>10 DEF TaskStep

\* A chunk creates none.
LEMMA ChunkAppends ==
  ASSUME IInv, CalmInv, NEW h \in Handles, ReadChunk(h)
  PROVE  ~\E m \in Messages : Appends(m)
<1>1. ~settled[h] => Exists(hmsg[h])
  BY OneHandle
<1> QED BY <1>1 DEF ReadChunk, Proceed, UnhandledRejection, Snapshot, Appends, Exists, Absent,
                    IInv, TypeOK

\* A request creates a reply only where there is no task.
LEMMA RequestAppends ==
  ASSUME IInv, CalmInv, NEW r \in Requests, RequestStep(r), NEW m \in Messages, Appends(m)
  PROVE  \A n \in Messages : tasks[n] = NoHandle
<1>1. status[m] = "none" /\ status'[m] # "none"
  BY DEF Appends
<1>2. CASE SendMessage(r)
  BY <1>1, <1>2 DEF SendMessage
<1>3. CASE \E n \in Messages, h \in Handles : SendMessageCreates(r, n, h)
  BY <1>3 DEF SendMessageCreates, CalmInv, HooksAreAlone
<1>4. CASE \E n \in Messages, h \in Handles : RetryMessage(r, n, h)
  BY <1>1, <1>4 DEF RetryMessage, Exists, Absent, IInv, TypeOK
<1>5. CASE \E n \in Messages : StopMessage(r, n) \/ UpdateMessage(r, n) \/ DeleteMessage(r, n)
  BY <1>1, <1>5
  DEF StopMessage, UpdateMessage, DeleteMessage, EditMessage, BeginStopTask, Exists, Absent,
      IInv, TypeOK
<1>6. CASE GraceExpires(r)
  BY <1>1, <1>6 DEF GraceExpires, Exists, Absent, IInv, TypeOK
<1>7. CASE \E s \in {req[r].saved} \union HookStatuses : UpdateMessageWrites(r, s)
  BY <1>1, <1>7 DEF UpdateMessageWrites, Exists, Absent, IInv, TypeOK
<1>8. CASE DeleteMessageRemoves(r)
  BY <1>1, <1>8 DEF DeleteMessageRemoves, CalmInv, HooksAreAlone, IInv, TypeOK
<1> QED BY <1>2, <1>3, <1>4, <1>5, <1>6, <1>7, <1>8 DEF RequestStep

(***************************************************************************)
(* The loop finds a stored continuation with a task right behind a stored  *)
(* reply, and goes on.                                                     *)
(***************************************************************************)
LEMMA ContinuationIsSeen ==
  ASSUME FollowerReacts, settled'[stream.task],
         NEW m \in Messages, stream.msg = m, status'[m] \notin Absent,
         NEW c \in Messages, continued'[m] = c, status'[c] \notin Absent, tasks'[c] # NoHandle
  PROVE  stream' # Closed
<1> DEFINE next(n) ==
             IF status'[n] \notin Absent /\ continued'[n] # NoMessage
                /\ status'[continued'[n]] \notin Absent
             THEN continued'[n] ELSE NoMessage
           R == {d \in Messages : \A S \in SUBSET Messages :
                   (\A n \in S \union {m} : (n # m => tasks'[n] = NoHandle) /\ next(n) # NoMessage
                                            => next(n) \in S)
                   => d \in S}
<1>1. stream' = IF \E d \in R : tasks'[d] # NoHandle
                THEN LET d == CHOOSE d \in R : tasks'[d] # NoHandle IN
                     [at |-> "following", msg |-> d, task |-> tasks'[d], told |-> status'[d]]
                ELSE Closed
  BY DEF FollowerReacts, AfterReply, Reached, Continuation, Exists, Follow, Closed
<1>2. next(m) = c /\ c # NoMessage
  BY ConstantsAssumption
<1> HIDE DEF next
<1>3. c \in R
  BY <1>2
<1>4. \E d \in R : tasks'[d] # NoHandle
  BY <1>3
<1> HIDE DEF R
<1>5. stream'.at = "following"
  BY <1>1, <1>4
<1> QED BY <1>5 DEF Closed

\* Where a reply ended and the stream closes, no task is left.
LEMMA DoneLeavesNoTask ==
  ASSUME Disciplined, IInv, CalmInv, StreamInv, [StreamNext]_streamVars, FollowerReacts,
         NEW h \in Handles, h = stream.task, ~settled[h], hmsg[h] = stream.msg, Ends(h),
         stream.msg \in Messages, stream.msg = newest, stream' = Closed,
         NEW m \in Messages, tasks'[m] # NoHandle
  PROVE  FALSE
<1>1. Appends(m) /\ settled'[h]
  BY DEF Ends, Appends
<1>2. newest # NoMessage
  BY ConstantsAssumption
<1>3. ASSUME NEW k \in Handles, ViewedTaskStep(k)
      PROVE  FALSE
  <2>1. k = h /\ pc[h] = "sending"
    BY <1>1, <1>3, TaskAppends, OneHandle DEF ViewedTaskStep
  <2>2. HistoryGrows(hmsg[h])
    BY <1>3, <2>1 DEF ViewedTaskStep
  <2>3. PICK c \in Messages : Appends(c) /\ continued' = [continued EXCEPT ![stream.msg] = c]
    BY <1>1, <1>2, <2>2 DEF HistoryGrows
  <2>4. continued'[stream.msg] = c
    BY <2>3 DEF StreamInv, StreamTypeOK
  <2>5. status'[c] = "pending" /\ tasks'[c] # NoHandle
    BY <1>3, <2>3, TaskAppends DEF ViewedTaskStep
  <2>6. status'[stream.msg] = "completed"
    BY <2>1 DEF Ends
  <2> QED BY <1>1, <2>4, <2>5, <2>6, ContinuationIsSeen DEF Absent
<1>4. ASSUME NEW k \in Handles, ViewedChunk(k)
      PROVE  FALSE
  BY <1>1, <1>4, ChunkAppends DEF ViewedChunk, Appends
<1>5. ASSUME NEW r \in Requests, RequestStep(r)
      PROVE  FALSE
  BY <1>1, <1>5, RequestAppends, OneHandle, ConstantsAssumption
<1>6. CASE AttachStream \/ ViewedRestart \/ UNCHANGED streamVars
  BY <1>1, <1>6
  DEF AttachStream, ViewedRestart, Restart, FreshMemory, streamVars, vars, taskVars, Appends
<1>7. ASSUME NEW r \in Requests, NEW n \in Messages, OpenStream(r, n)
      PROVE  FALSE
  BY <1>5, <1>7 DEF OpenStream, RequestStep
<1> QED BY <1>3, <1>4, <1>5, <1>6, <1>7 DEF StreamNext, ViewedRequest

\* A step in which the stream leaves its reply.
LEMMA LeavingStep ==
  ASSUME Disciplined, IInv, CalmInv, StreamInv, ViewIsCurrent, [StreamNext]_streamVars, Leaves
  PROVE  /\ Told(stream.task) \in {"none", status'[stream.msg]}
         /\ stream' = Closed /\ stream.msg = newest => \A m \in Messages : tasks'[m] = NoHandle
<1> DEFINE h == stream.task
<1>1. /\ h \in Handles /\ stream.msg \in Messages
      /\ ~settled[h] /\ tasks[stream.msg] = h /\ hmsg[h] = stream.msg
  BY ConstantsAssumption
  DEF Leaves, StreamInv, FollowsATask, ViewIsCurrent, IInv, TableMatchesHandles
<1>2. FollowerReacts
  <2>1. StreamReacts => FollowerReacts
    BY DEF StreamReacts, Leaves, WaiterReacts, Closed
  <2>2. ~AttachStream /\ ~(\E r \in Requests, m \in Messages : OpenStream(r, m))
    BY DEF AttachStream, OpenStream, Leaves, Closed
  <2>3. ~ViewedRestart /\ ~UNCHANGED streamVars
    BY DEF ViewedRestart, Leaves, streamVars
  <2> QED BY <2>1, <2>2, <2>3 DEF StreamNext, ViewedTaskStep, ViewedChunk, ViewedRequest
<1>3. settled'[h]
  BY <1>2 DEF FollowerReacts, Leaves, StreamInv, StreamTypeOK
<1>4. Ends(h)
  BY <1>1, <1>3, StreamStepIsStep, StepCalm DEF Leaves, LiveTasksStep, GoesOn
<1>5. Told(h) \in {"none", status'[stream.msg]}
  <2>1. CASE pc[h] = "sending"
    <3>1. Told(h) = stream.told
      BY <1>1, <1>3, <1>4, <2>1 DEF Told, Ends
    <3>2. status[stream.msg] = "completed" /\ status'[stream.msg] = "completed"
      BY <1>1, <1>4, <2>1 DEF Ends, CalmInv, StatusFollowsTask, PhaseStatus
    <3> QED BY <2>1, <3>1, <3>2 DEF ViewIsCurrent, Leaves
  <2>2. CASE pc[h] # "sending"
    <3>1. Told(h) = IF aborted[h] THEN "stopped" ELSE "error"
      BY <1>1, <1>3, <1>4, <2>2 DEF Told, Ends
    <3> QED BY <1>1, <1>4, <2>2, <3>1 DEF Ends
  <2> QED BY <2>1, <2>2
<1>6. ASSUME stream' = Closed, stream.msg = newest, NEW m \in Messages, tasks'[m] # NoHandle
      PROVE  FALSE
  BY <1>1, <1>2, <1>4, <1>6, DoneLeavesNoTask
<1> QED BY <1>5, <1>6

(***************************************************************************)
(* streamTaskEvents: a client is told the outcome the store has before the *)
(* stream leaves the reply, and [DONE] only when the conversation has no   *)
(* task left, after any number of continuations.                           *)
(***************************************************************************)
THEOREM DoneEndsAll == ASSUME Disciplined PROVE StreamSpec => DoneIsTheEnd
<1>1. IInv /\ CalmInv /\ StreamInv /\ ViewIsCurrent /\ [StreamNext]_streamVars =>
        [Leaves =>
           /\ Told(stream.task) \in {"none", status'[stream.msg]}
           /\ stream' = Closed /\ stream.msg = newest => \A m \in Messages : tasks'[m] = NoHandle
        ]_streamVars
  BY LeavingStep
<1>2. StreamSpec => []IInv /\ []CalmInv
  BY StreamsOnlyWatch, SpecIInv, SpecCalm, PTL
<1> QED BY <1>1, <1>2, StreamTypeCorrect, ViewsAreCurrent, PTL DEF StreamSpec, DoneIsTheEnd
===============================================================================
