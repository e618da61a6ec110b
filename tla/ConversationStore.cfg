CONSTANTS
  Conversations = {a, b}
  Subagents = {b}
  WithSession = {b}
  NoParent = NoParent
  NoConversation = NoConversation
  MaxMessages = 3
  Readers = {r1}
  Deleters = {d1}
  MaxFailures = 1
  TearsWrites = TRUE
SPECIFICATION Spec
INVARIANT SavedUnlessRemoving
INVARIANT RepliesHaveWork
INVARIANT NothingIsForgotten
PROPERTY WorkIsStoppedFirst
PROPERTY LogSpec
