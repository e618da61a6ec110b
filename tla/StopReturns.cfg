CONSTANTS
  Messages = {m1, m2}
  Handles = {h1, h2}
  Requests = {r1}
  NoMessage = NoMessage
  NoHandle = NoHandle
  MaxRetries = 1
  HookStatuses = {"pending", "completed"}
  WaitsForDone = FALSE
  HooksOutliveGrace = TRUE
SPECIFICATION TimedSpec
PROPERTY StopReturns
