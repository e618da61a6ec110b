CONSTANTS
  Messages = {m1, m2}
  Handles = {h1, h2}
  Requests = {r1}
  NoMessage = NoMessage
  NoHandle = NoHandle
  MaxRetries = 1
  HookStatuses = {"pending", "completed"}
  WaitsForDone = TRUE
  HooksOutliveGrace = FALSE
SPECIFICATION AnsweringStreams
INVARIANT ViewIsCurrent
PROPERTY OneReplyAtWork
PROPERTY StopIsFinal
PROPERTY DoneIsTheEnd
PROPERTY RepliesAndStreamsEnd
