CONSTANTS
  MaxReplies = 4
  Waiters = {w1, w2}
  Callers = {c1, c2}
  EditsHistory = FALSE
  HookStatuses = {}
  TearsWrites = FALSE
SPECIFICATION FairSpec
INVARIANT TurnEndsItsReplies
PROPERTY NothingHangs
