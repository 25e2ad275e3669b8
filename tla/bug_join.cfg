CONSTANTS
  m1 = m1  m2 = m2  m3 = m3  u1 = u1  u2 = u2  o1 = o1
  Machine = {m1, m2}
  Founders = {m1}
  User = {u1, u2}
  Home <- OneEach
  MaxId = 2
  Object = {}
  MaxVersion = 1
  MaxDowns = 0
  MaxTimeouts = 0
  LinkFaults = FALSE
  None = None
SPECIFICATION ClusterSpec
PROPERTIES JoinReachesMaster
