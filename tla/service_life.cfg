CONSTANTS
  t1 = t1  t2 = t2  t3 = t3
  Tool = {t1, t2}
  MaxLives = 2
  MaxDeaths = 1
SPECIFICATION ServiceFairSpec
INVARIANTS ServiceTypeOK  
PROPERTIES ClosesLast StopsWhenAsked CommandsEnd
CHECK_DEADLOCK FALSE
