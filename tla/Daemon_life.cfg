SPECIFICATION MCSpec
CONSTANTS
  c1 = c1
  c2 = c2
  Clients = {c1, c2}
  MaxServers = 2
  MaxRequests = 1
  Kills = TRUE
  Signals = {2}
  Dashboard = {1}
  IsRunning = TRUE
SYMMETRY Symmetry
INVARIANTS DependenciesOutliveRequests RefCountIsSessions ZeroIsSignalled OnlyLateSessionsAreCut
CHECK_DEADLOCK FALSE
