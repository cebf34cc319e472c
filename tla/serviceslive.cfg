CONSTANTS
  Focuses = {"requests", "links", "relay", "watchdog", "accounting", "storybook", "jobs"}
  Pair = {a, b}
  Agents = {1, 2}
  Sockets = {1, 2}
  Owner <- OwnerOf
  NoSocket = 0
  Requests = {r1}
  Tabs = {a, b}
  Terms = {p1}
  NoTab = NoTab
  MaxTerms = 1
  Links = {1}
  Moves = 2
  Conns = {a, b}
  High = 2
  Low = 1
  MaxFlight = 1
  MaxFlow = 2
  MaxBuffer = 3
  Guarded = {1, 2}
  Walks = {w1, w2}
  MaxFlips = 3
  Faults = 2
  Envs = {e1, e2}
  Devices = {a, b}
  Ports = {q1, q2}
  Exit = Exit
  Operations = 3
  Mishaps = 2
  TaskRuns = {1, 2}
  Machines = {m1, m2}
  UserCalls = {a, b}
  NoRun = NoRun
  MaxEdits = 1
  MaxVersion = 1
  Apps = {a, b}
  Artifacts = {v1, v2}
  Absent = Absent
  Deploys = {1, 2}
  NoDeploy = NoDeploy
  Commons = {l1}
  Plans = {1, 2}
  Items = {1, 2}
  Targets = {1, 2}
  Dest <- SameDest
  Nothing = Nothing
  Troubles = 2
  Books = {1}
  NoBook = 0
  Shells = {1, 2}
  ShellOf <- ShellOfBook
  Clients = {a}
  LastPort = 1
  MaxWishes = 2
  MaxLosses = 1
  Jobs = {j1, j2}
  Concurrency = 2
SPECIFICATION FairServices
CHECK_DEADLOCK FALSE
PROPERTIES CallsEnd LinkOpens ProducerResumes AlarmWithdrawn HoldSettled CancelTakesEffect StartSettles
