CONSTANTS
  h1 = h1  h2 = h2  h3 = h3  d1 = d1  d2 = d2  d3 = d3
  web = web  api = api  n1 = n1  n2 = n2
  Handlers = {h1}
  Cli = cli
  DepId = {d1}
  PerDep = 4
  Name = {web}
  Node = {n1}
  LocalNode = n1
  Port = {0}
  Placement <- LocalOnly
  MaxReplicas = 3
  MaxCrashes = 0
  DockerFaults = FALSE
  LinkFaults = FALSE
  Requests = {"create", "scale"}
  None = None
SPECIFICATION Spec
CHECK_DEADLOCK FALSE
INVARIANTS ScaleDoesNotFail
