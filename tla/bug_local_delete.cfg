CONSTANTS
  h1 = h1  h2 = h2  h3 = h3  d1 = d1  d2 = d2  d3 = d3
  web = web  api = api  n1 = n1  n2 = n2
  Handlers = {h1}
  Cli = cli
  DepId = {d1, d2}
  PerDep = 2
  Name = {web, api}
  Node = {n1}
  LocalNode = n1
  Port = {80}
  Placement <- LocalOnly
  MaxReplicas = 2
  MaxCrashes = 0
  DockerFaults = FALSE
  LinkFaults = FALSE
  Requests = {"create", "delete"}
  None = None
SPECIFICATION Spec
CHECK_DEADLOCK FALSE
PROPERTIES DeleteStopsContainers
