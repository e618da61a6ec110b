------------------------------ MODULE TaskStream ------------------------------
(***************************************************************************)
(* The server-sent event streams of one main conversation, composed with   *)
(* the tasks they show: streamTaskEvents (the answer to a send or a retry) *)
(* and streamAttachedConversationTaskEvents (GET events).                  *)
(*                                                                         *)
(* Streams change nothing and do not see one another, so one stands for    *)
(* all, and a client that goes away is one nobody looks at any more.       *)
(*                                                                         *)
(* What a stream does after a task emitted an event, ended or was started  *)
(* costs microtasks only: it is part of the step that caused it.  For the  *)
(* same reason the gate that buffers events during an attach stays empty.  *)
(***************************************************************************)
EXTENDS ConversationTask

VARIABLES
  newest,     \* the last reply of the history
  continued,  \* the reply that directly continues a reply after a compaction
  stream      \* the stream: where it is, the reply and task it follows, and
              \* the status it was last told of that reply

history == <<newest, continued>>
streamVars == <<vars, history, stream>>

Closed  == [at |-> "closed", msg |-> NoMessage, task |-> NoHandle, told |-> "none"]
Waiting == [Closed EXCEPT !.at = "waiting"]

StreamTypeOK ==
  /\ newest \in Messages \union {NoMessage}
  /\ continued \in [Messages -> Messages \union {NoMessage}]
  /\ stream \in [at : {"closed", "waiting", "following"},
                 msg : Messages \union {NoMessage},
                 task : Handles \union {NoHandle},
                 told : Status]

StreamInit ==
  /\ Init
  /\ newest = NoMessage
  /\ continued = [m \in Messages |-> NoMessage]
  /\ stream = Closed

------------------------------------------------------------------------------
(* What a stream finds in the store and in the task table.                 *)

\* readConversationTaskContinuationStart: a deleted reply has none.
Continuation(m) ==
  IF Exists(m) /\ continued[m] # NoMessage /\ Exists(continued[m]) THEN continued[m]
  ELSE NoMessage

\* subscribe, before the task's 0 ms timer can fire.
Follow(m, told) == [at |-> "following", msg |-> m, task |-> tasks[m], told |-> told]

\* Fault: the loop ends with the first reply.
AfterReplyDone(m) == Closed

(***************************************************************************)
(* The replies the loop comes to after the end of reply m: the             *)
(* continuation of m, and that of each one it has come to without a task,  *)
(* whose waitForTask returns at once.                                      *)
(***************************************************************************)
Reached(m) ==
  {c \in Messages : \A S \in SUBSET Messages :
     (\A n \in S \union {m} : (n # m => tasks[n] = NoHandle) /\ Continuation(n) # NoMessage
                              => Continuation(n) \in S)
     => c \in S}

\* The loop after the end of reply m: to the first continuation that has a
\* task, or to [DONE].
AfterReply(m) ==
  IF \E c \in Reached(m) : tasks[c] # NoHandle
  THEN LET c == CHOOSE d \in Reached(m) : tasks[d] # NoHandle IN Follow(c, status[c])
  ELSE Closed

------------------------------------------------------------------------------
(* What a stream does within a step of the server.                         *)

\* Fault: a retry does not send the reply's new start.
ToldRestartless(h) ==
  IF settled[h] THEN stream.told
  ELSE IF pc[h] = "creating" /\ pc'[h] = "reading" THEN "streaming"
  ELSE IF pc[h] = "completing" /\ pc'[h] = "sending" THEN "completed"
  ELSE IF settled'[h] /\ ~(pc[h] = "sending" /\ pc'[h] = "free")
       THEN IF aborted[h] THEN "stopped" ELSE "error"
  ELSE stream.told

(***************************************************************************)
(* The status the stream was last told once the step is done.  Events with *)
(* a status: the first snapshot, the start of another attempt, "finish" of *)
(* a complete reply (the hooks' end), of a stopped and of a failed one.    *)
(***************************************************************************)
Told(h) ==
  IF settled[h] THEN stream.told
  ELSE IF pc[h] = "creating" /\ pc'[h] = "reading" THEN "streaming"
  ELSE IF pc[h] # "backoff" /\ pc'[h] = "backoff" THEN "pending"
  ELSE IF pc[h] = "completing" /\ pc'[h] = "sending" THEN "completed"
  ELSE IF settled'[h] /\ ~(pc[h] = "sending" /\ pc'[h] = "free")
       THEN IF aborted[h] THEN "stopped" ELSE "error"
  ELSE stream.told

\* The task the stream follows goes on, or ends and waitForTask returns.
FollowerReacts ==
  /\ stream.at = "following"
  /\ \E m \in Messages :
       /\ stream.msg = m
       /\ stream' = IF settled'[stream.task] THEN AfterReply(m)'
                    ELSE [stream EXCEPT !.told = Told(stream.task)]

Starts(m) == tasks'[m] \notin {NoHandle, tasks[m]}

\* waitForAttachedConversationTaskStart: the first task that starts.
WaiterReacts ==
  /\ stream.at = "waiting"
  /\ \/ \E m \in Messages : Starts(m) /\ stream' = Follow(m, status[m])'
     \/ /\ \A m \in Messages : ~Starts(m)
        /\ UNCHANGED stream

StreamReacts ==
  IF proc' = "crashed" THEN stream' = Closed
  ELSE \/ FollowerReacts
       \/ WaiterReacts
       \/ stream = Closed /\ UNCHANGED stream

(***************************************************************************)
(* createMessage appends the reply; one that continues reply p after a     *)
(* compaction comes right behind p if p was the last one, or if only       *)
(* display messages, which readNextAutoCompactionContinuation skips, came  *)
(* after p.                                                                *)
(***************************************************************************)
Appends(m) == status[m] = "none" /\ status'[m] # "none"

HistoryGrows(p) ==
  \/ \E m \in Messages :
       /\ Appends(m)
       /\ newest' = m
       /\ \/ p # NoMessage /\ continued' = [continued EXCEPT ![p] = m]
          \/ (p = NoMessage \/ p # newest) /\ UNCHANGED continued
  \/ /\ \A m \in Messages : ~Appends(m)
     /\ UNCHANGED history

------------------------------------------------------------------------------
(* Steps.                                                                  *)

\* Which of the unused ids and handles comes next makes no difference: one
\* of them is fixed.
TakesTheNext ==
  /\ \A m \in Messages : Appends(m) => m = CHOOSE n \in Messages : status[n] = "none"
  /\ \A m \in Messages : Starts(m) => tasks'[m] = CHOOSE h \in Handles : pc[h] = "free"

ViewedTaskStep(h) == TaskStep(h) /\ TakesTheNext /\ HistoryGrows(hmsg[h]) /\ StreamReacts

ViewedChunk(h) == ReadChunk(h) /\ StreamReacts /\ UNCHANGED history

ViewedRequest(r) == RequestStep(r) /\ TakesTheNext /\ HistoryGrows(NoMessage) /\ StreamReacts

\* The stream is the answer to the send or retry that starts the task.
OpenStream(r, m) ==
  /\ stream = Closed
  /\ \E h \in Handles : SendMessageCreates(r, m, h) \/ RetryMessage(r, m, h)
  /\ Starts(m)
  /\ TakesTheNext
  /\ HistoryGrows(NoMessage)
  /\ stream' = Follow(m, "pending")'

(***************************************************************************)
(* GET events.  readCurrentConversationTaskStart: the last reply in        *)
(* progress, whose current state is sent; else a reply whose task is still *)
(* at its hooks, without a word; else (no task, or that of a display       *)
(* message) the stream waits for a start.                                  *)
(***************************************************************************)
AttachStream ==
  /\ stream = Closed
  /\ proc = "running"
  /\ \/ \E m \in Messages :
          /\ status[m] \in Active
          /\ newest # NoMessage /\ status[newest] \in Active => m = newest
          /\ stream' = IF tasks[m] # NoHandle THEN Follow(m, status[m]) ELSE AfterReply(m)
     \/ /\ ~SomeActive
        /\ \E m \in Messages :
             /\ tasks[m] # NoHandle
             /\ stream' = Follow(m, "none")
     \/ ~SomeActive /\ stream' = Waiting
  /\ UNCHANGED <<vars, history>>

ViewedRestart == Restart /\ stream' = Closed /\ UNCHANGED history

StreamNext ==
  \/ \E h \in Handles : ViewedTaskStep(h) \/ ViewedChunk(h)
  \/ \E r \in Requests : ViewedRequest(r) \/ (\E m \in Messages : OpenStream(r, m))
  \/ AttachStream
  \/ ViewedRestart

StreamSpec == StreamInit /\ [][StreamNext]_streamVars
===============================================================================
