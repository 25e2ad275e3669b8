CONSTANTS
  r1 = r1  r2 = r2  here = here  h1 = h1  h2 = h2  db = db  web = web
  Run = {r1, r2}
  Host = {here, h1, h2}
  Local = here
  Name = {db, web}
  MaxReplicas = 3
  Faults = TRUE
  None = None
  File <- Files
  Service = {db, web}
  Options <- UpOptions
  RunCmd <- RunCmds
SPECIFICATION ComposeFairSpec
INVARIANTS ComposeTypeOK PrefixOnly SpreadEvenly AllServersFirst DependenciesFirst
PROPERTIES RunsEnd
CHECK_DEADLOCK FALSE
