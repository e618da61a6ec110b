CONSTANTS
  Messages = {m1, m2}
  Handles = {h1, h2}
  Requests = {r1, r2}
  NoMessage = NoMessage
  NoHandle = NoHandle
  MaxRetries = 1
  HookStatuses = {"pending", "streaming"}
  WaitsForDone = FALSE
  HooksOutliveGrace = TRUE
SPECIFICATION Spec
SYMMETRY Symmetry
INVARIANT TableMatchesHandles
INVARIANT NobodyWaitsInVain
PROPERTY OnlyHooksFeign
PROPERTY LateProviderAnswerIgnored
PROPERTY OwnershipSpec
