CONSTANTS
  N = 3
  MaxFigure = 3
  Infos <- SomeInfos
SPECIFICATION LoopSpec
CHECK_DEADLOCK FALSE
INVARIANTS Contract FirstBest LoopIInv
