CONSTANTS
  Focuses = {"requests", "terminals", "links", "relay", "watchdog", "accounting", "vpn", "merges", "deploys", "storage", "storybook", "jobs"}
  Pair = {a, b}
  Agents = {1, 2}
  Sockets = {1, 2, 3}
  Owner <- OwnerOf
  NoSocket = 0
  Requests = {r1}
  Tabs = {a, b}
  Terms = {p1, p2}
  NoTab = NoTab
  MaxTerms = 1
  Links = {1, 2}
  Moves = 2
  Conns = {a, b}
  High = 3
  Low = 1
  MaxFlight = 1
  MaxFlow = 3
  MaxBuffer = 4
  Guarded = {1, 2}
  Walks = {w1, w2, w3}
  MaxFlips = 4
  Faults = 2
  Envs = {e1, e2}
  Devices = {a, b}
  Ports = {q1, q2}
  Exit = Exit
  Operations = 3
  Mishaps = 2
  TaskRuns = {1, 2}
  Machines = {m1, m2}
  UserCalls = {a, b}
  NoRun = NoRun
  MaxEdits = 1
  MaxVersion = 1
  Apps = {a, b}
  Artifacts = {v1, v2}
  Absent = Absent
  Deploys = {1, 2}
  NoDeploy = NoDeploy
  Commons = {l1}
  Plans = {1, 2}
  Items = {1, 2}
  Targets = {1, 2}
  Dest <- SameDest
  Nothing = Nothing
  Troubles = 2
  Books = {1, 2, 3}
  NoBook = 0
  Shells = {1, 2}
  ShellOf <- ShellOfBook
  Clients = {a, b}
  LastPort = 1
  MaxWishes = 2
  MaxLosses = 1
  Jobs = {j1, j2}
  Concurrency = 2
SPECIFICATION ServicesSpec
CHECK_DEADLOCK FALSE
INVARIANTS ServicesTypeOK
INVARIANTS PendingOnline NoOrphanCommand
INVARIANTS ForgottenTimed
INVARIANTS StateMatchesTunnel DeletedSilent
INVARIANTS HoldsAgree
INVARIANTS AlertsAlternate
INVARIANTS NoFreeWork HoldsFollowed
INVARIANTS AppliedIsReal
INVARIANTS OneActiveRun
INVARIANTS LockHeld ConfirmedRuns
INVARIANTS DeletedIsStored
INVARIANTS PortsApart WishesFollow
SYMMETRY Symmetry
