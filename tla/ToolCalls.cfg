CONSTANTS
  Calls = {c1, c2}
  Signalled = {c1}
  Operations = {"file.read", "file.write", "file.edit", "command.execute", "network.access"}
  Asking = {"file.write"}
  NoCall = NoCall
SPECIFICATION FairSpec
INVARIANT QuestionsAgree
INVARIANT ApprovalsAreStored
INVARIANT OneWriter
INVARIANT ReplacesWhatWasRead
PROPERTY DialogueSpec
PROPERTY WritersGetTheirTurn
