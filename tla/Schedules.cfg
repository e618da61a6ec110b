CONSTANTS
  Automations = {a1}
  Slots = {r1, r2}
  Children = {x1, x2, x3}
  NoAutomation = NoAutomation
  NoChild = NoChild
  MaxHistory = 2
  p = p
  m = m
  h = h
  Plugins = {p}
  ManifestJobs = {m}
  HostJobs = {h}
  Home <- MCHome
  MaxTicks = 2
  Together = FALSE
SPECIFICATION FairSpec
INVARIANT ScheduleIsKept
INVARIANT OneRunAtATime
INVARIANT RunsAreRemembered
PROPERTY KeepsTicking
