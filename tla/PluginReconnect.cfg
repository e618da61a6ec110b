CONSTANTS
  Clients = {c1}
  Sockets = {s1, s2}
  NoSocket = NoSocket
  MaxCalls = 1
  MaxBoots = 1
SPECIFICATION FairSpec
PROPERTY CallsEnd
PROPERTY ComesBack
