CONSTANTS
  MaxReplies = 3
  Waiters = {w1, w2}
  Callers = {c1, c2}
  EditsHistory = TRUE
  HookStatuses = {"pending", "streaming", "completed", "stopped", "error"}
  TearsWrites = TRUE
SPECIFICATION Spec
SYMMETRY Symmetry
INVARIANT ExecutionOwnsStatus
INVARIANT NobodyIsForgotten
PROPERTY WaitSeesOutcome
PROPERTY JobSpec
