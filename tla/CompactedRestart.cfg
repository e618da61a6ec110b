CONSTANTS
  Conversations = {a, b}
  Subagents = {b}
  WithSession = {}
  NoParent = NoParent
  NoConversation = NoConversation
  MaxMessages = 3
  Readers = {r1}
  Deleters = {d1}
  MaxFailures = 1
  TearsWrites = FALSE
SPECIFICATION Spec
PROPERTY RestartKeepsConversations
