CONSTANTS
  h1 = h1  h2 = h2  h3 = h3  d1 = d1  d2 = d2  d3 = d3
  web = web  api = api  n1 = n1  n2 = n2
  Handlers = {h1, h2}
  Cli = cli
  DepId = {d1}
  PerDep = 2
  Name = {web}
  Node = {n1, n2}
  LocalNode = n1
  Port = {0}
  Placement <- SpreadAll
  MaxReplicas = 2
  MaxCrashes = 1
  DockerFaults = FALSE
  LinkFaults = TRUE
  Requests = {"create", "scale", "delete"}
  None = None
SPECIFICATION Spec
SYMMETRY Sym
INVARIANTS RunningIsReal IInv CountInv
PROPERTIES KeepsLife
