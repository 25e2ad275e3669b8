CONSTANTS
  h1 = h1  h2 = h2  h3 = h3  d1 = d1  d2 = d2  d3 = d3
  web = web  api = api  n1 = n1  n2 = n2
  Handlers = {h1}
  Cli = cli
  DepId = {d1}
  PerDep = 3
  Name = {web}
  Node = {n1, n2}
  LocalNode = n1
  Port = {0}
  Placement <- SpreadAll
  MaxReplicas = 2
  MaxCrashes = 1
  DockerFaults = TRUE
  LinkFaults = TRUE
  Requests = {"create", "scale"}
  None = None
SPECIFICATION FairSpec
INVARIANTS RunningHasContainers StartInv
PROPERTIES StartedIsRecorded  PendingResolves
