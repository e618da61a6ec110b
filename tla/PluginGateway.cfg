CONSTANTS
  Clients = {c1, c2}
  Sockets = {s1, s2}
  NoSocket = NoSocket
  MaxCalls = 1
  MaxBoots = 1
SPECIFICATION Spec
SYMMETRY Symmetry
INVARIANT ConnectionsAgree
PROPERTY AnswersComeFromTheirConnection
PROPERTY LeaseSpec
