CONSTANTS
  Servers = {a, b}
  Configs = {v1, v2}
  Requests = {r1}
  Calls = {c1}
  Sessions = {s1, s2}
  Boot = Boot
  NoServer = NoServer
  NoConfig = NoConfig
  NoSession = NoSession
  MaxEntries = 2
  AsksOn = FALSE
SPECIFICATION Spec
SYMMETRY Symmetry
INVARIANT NoProcessIsLost
INVARIANT RecordsFollowTheStore
INVARIANT OffersAreCurrent
