-------------------------- MODULE SchedulerLoopProofs --------------------------
(***************************************************************************)
(* The loops of the scheduler keep to the contract that DeploymentManager  *)
(* relies on, and choose the first of the best nodes, for any number of    *)
(* nodes and whatever is known of them.                                    *)
(***************************************************************************)
EXTENDS SchedulerLoop, TLAPS

\* The figures are numbers below the first bound of the spread loop.
LEMMA FigureType ==
  ASSUME LoopTypeOK, NEW n \in Rank
  PROVE  /\ Figure[n] \in 0 .. MaxFigure - 1
         /\ Figure[n] \in Int /\ Figure[n] >= 0 /\ Figure[n] < MaxFigure
<1>1. info[n] \in Info
  BY LoopAssumption DEF LoopTypeOK
<1>2. info[n].figure \in 0 .. MaxFigure - 1
  BY <1>1 DEF Info
<1> QED BY <1>2, LoopAssumption DEF Figure

\* What a step that changes no input keeps.
LEMMA InputFrame ==
  ASSUME UNCHANGED input
  PROVE  /\ Online' = Online /\ Matching' = Matching /\ Fit' = Fit /\ Figure' = Figure
         /\ info' = info /\ strategy' = strategy /\ local' = local
  BY DEF input, Online, Matching, Fit, Figure, HasCapacity

\* A node fits when it passes both filters and has capacity.
LEMMA FitIsMatching == Fit = {n \in Matching : HasCapacity(n)}
  BY DEF Fit, Matching, Online

\* Moving on by one rank.
LEMMA SeenGrows ==
  ASSUME LoopTypeOK, i <= N, i' = i + 1
  PROVE  /\ Seen' = Seen \cup {i} /\ i \in Rank /\ i' \in 1 .. N + 1
         /\ \A n \in Seen : n < i
  BY LoopAssumption DEF LoopTypeOK, Seen, Rank

\* At the end everything has been seen; at the start nothing.
LEMMA SeenAll ==
  ASSUME LoopTypeOK, i = N + 1
  PROVE  Rank \cap Seen = Rank /\ Fit \cap Seen = Fit
         /\ Online \cap Seen = Online /\ Matching \cap Seen = Matching
  BY LoopAssumption DEF LoopTypeOK, Seen, Rank, Fit, Online, Matching

\* At the start of a loop nothing has been seen.
LEMMA SeenNone ==
  ASSUME i' = 1
  PROVE  Seen' = {}
  BY DEF Seen

\* The invariant holds before the first node.
LEMMA InitLoop == LoopInit => LoopIInv
<1> SUFFICES ASSUME LoopInit PROVE LoopIInv
  OBVIOUS
<1> USE LoopAssumption DEF LoopInit
<1>1. LoopTypeOK
  BY DEF LoopTypeOK, Rank
<1>2. Filtering
  BY DEF Filtering, Seen
<1>3. Picking /\ Contract /\ FirstBest
  BY DEF Picking, Contract, FirstBest
<1> QED BY <1>1, <1>2, <1>3 DEF LoopIInv

-----------------------------------------------------------------------------
(* The filters.                                                             *)

\* One round of getAvailableNodes.
LEMMA AvailableStep ==
  ASSUME LoopIInv, Available
  PROVE  LoopIInv'
<1>1. /\ pc = "available" /\ i <= N /\ i' = i + 1 /\ pc' = pc /\ list' = list
      /\ best' = best /\ bound' = bound /\ UNCHANGED input
      /\ kept' = IF info[i].online THEN kept \cup {i} ELSE kept
  BY DEF Available, Visit
<1>2. Seen' = Seen \cup {i} /\ i \in Rank /\ i' \in 1 .. N + 1
  BY <1>1, SeenGrows DEF LoopIInv
<1>3. LoopTypeOK'
  BY <1>1, <1>2 DEF LoopIInv, LoopTypeOK, input
<1>4. kept' = Online \cap Seen'
  BY <1>1, <1>2 DEF LoopIInv, Filtering, Online
<1>5. Filtering'
  BY <1>1, <1>4, InputFrame DEF LoopIInv, Filtering
<1>6. Picking' /\ Contract' /\ FirstBest'
  BY <1>1 DEF Picking, Contract, FirstBest
<1> QED BY <1>3, <1>5, <1>6 DEF LoopIInv

\* One round of applyPlacementConstraints.
LEMMA MatchStep ==
  ASSUME LoopIInv, Match
  PROVE  LoopIInv'
<1>1. /\ pc = "match" /\ i <= N /\ i' = i + 1 /\ pc' = pc /\ list' = list
      /\ best' = best /\ bound' = bound /\ UNCHANGED input
      /\ kept' = IF i \in list /\ info[i].match THEN kept \cup {i} ELSE kept
  BY DEF Match, Visit
<1>2. Seen' = Seen \cup {i} /\ i \in Rank /\ i' \in 1 .. N + 1
  BY <1>1, SeenGrows DEF LoopIInv
<1>3. LoopTypeOK'
  BY <1>1, <1>2 DEF LoopIInv, LoopTypeOK, input
<1>4. kept' = Matching \cap Seen'
  BY <1>1, <1>2 DEF LoopIInv, Filtering, Matching
<1>5. Filtering'
  BY <1>1, <1>4, InputFrame DEF LoopIInv, Filtering
<1>6. Picking' /\ Contract' /\ FirstBest'
  BY <1>1 DEF Picking, Contract, FirstBest
<1> QED BY <1>3, <1>5, <1>6 DEF LoopIInv

\* An error return: no node is left.
LEMMA ErrorReturn ==
  ASSUME LoopIInv, Return, UNCHANGED <<best, bound, input>>, Fit = {}, best = 0
  PROVE  LoopIInv'
<1>1. pc' = "done" /\ i' = i /\ list' = list /\ kept' = kept /\ best' = 0
      /\ bound' = bound /\ Fit' = {} /\ UNCHANGED input
  BY InputFrame DEF Return
<1>2. LoopTypeOK'
  BY <1>1 DEF LoopIInv, LoopTypeOK, input
<1>3. Filtering' /\ Picking' /\ Contract' /\ FirstBest'
  BY <1>1 DEF Filtering, Picking, Contract, FirstBest
<1> QED BY <1>2, <1>3 DEF LoopIInv

\* The end of getAvailableNodes: an error, or the next filter.
LEMMA AvailableEndStep ==
  ASSUME LoopIInv, AvailableEnd
  PROVE  LoopIInv'
<1>1. /\ pc = "available" /\ i = N + 1 /\ UNCHANGED <<best, bound, input>>
      /\ IF kept = {} THEN Return ELSE Loop("match", kept)
  BY DEF AvailableEnd, Over
<1>2. kept = Online /\ best = 0
  BY <1>1, SeenAll DEF LoopIInv, Filtering
<1>3. CASE kept = {}
  <2>1. Fit = {}
    BY <1>2, <1>3 DEF Fit, Online
  <2> QED BY <1>1, <1>2, <1>3, <2>1, ErrorReturn
<1>4. CASE kept # {}
  <2>1. /\ pc' = "match" /\ list' = Online /\ i' = 1 /\ kept' = {} /\ best' = 0
        /\ bound' = bound /\ UNCHANGED input
    BY <1>1, <1>2, <1>4 DEF Loop
  <2>2. LoopTypeOK'
    BY <1>2, <2>1, LoopAssumption DEF LoopIInv, LoopTypeOK, input
  <2>3. Filtering'
    BY <2>1, InputFrame, SeenNone DEF Filtering
  <2>4. Picking' /\ Contract' /\ FirstBest'
    BY <2>1 DEF Picking, Contract, FirstBest
  <2> QED BY <2>2, <2>3, <2>4 DEF LoopIInv
<1> QED BY <1>3, <1>4

\* The end of applyPlacementConstraints: an error, or the strategy.
LEMMA MatchEndStep ==
  ASSUME LoopIInv, MatchEnd
  PROVE  LoopIInv'
<1>1. /\ pc = "match" /\ i = N + 1 /\ UNCHANGED <<best, input>>
      /\ IF kept = {} THEN Return /\ UNCHANGED bound ELSE Choose
  BY DEF MatchEnd, Over
<1>2. kept = Matching /\ best = 0
  BY <1>1, SeenAll DEF LoopIInv, Filtering
<1>3. CASE kept = {}
  <2>1. Fit = {}
    BY <1>2, <1>3, FitIsMatching
  <2> QED BY <1>1, <1>2, <1>3, <2>1, ErrorReturn
<1>4. CASE kept # {}
  <2>1. strategy \in {"spread", "pack", "binpack", "local-first"} /\ UNCHANGED input
    BY <1>1 DEF LoopIInv, LoopTypeOK, Strategies
  <2>2. /\ list' = Matching /\ i' = 1 /\ kept' = {} /\ best' = 0
        /\ \/ pc' = "spread" /\ bound' = MaxFigure /\ strategy = "spread"
           \/ pc' = "pack" /\ bound' = -1 /\ strategy \in {"pack", "binpack"}
           \/ pc' = "local" /\ bound' = bound /\ strategy = "local-first"
    BY <1>1, <1>2, <1>4, <2>1 DEF Choose, Spread, Pack, Loop
  <2>3. LoopTypeOK'
    BY <1>2, <2>1, <2>2, LoopAssumption DEF LoopIInv, LoopTypeOK, input
  <2>4. Filtering'
    BY <2>1, <2>2, InputFrame DEF Filtering
  <2>5. Picking'
    BY <2>1, <2>2, InputFrame, SeenNone DEF Picking, BestSpread, BestPack
  <2>6. Contract' /\ FirstBest'
    BY <2>2 DEF Contract, FirstBest
  <2> QED BY <2>3, <2>4, <2>5, <2>6 DEF LoopIInv
<1> QED BY <1>3, <1>4

-----------------------------------------------------------------------------
(* The strategies.                                                          *)

\* One round of scheduleSpread.
LEMMA PickSpreadStep ==
  ASSUME LoopIInv, PickSpread
  PROVE  LoopIInv'
<1>1. /\ pc = "spread" /\ i <= N /\ i' = i + 1 /\ UNCHANGED <<pc, list, kept, input>>
      /\ IF i \in list /\ HasCapacity(i) /\ Figure[i] < bound THEN Take ELSE Pass
  BY DEF PickSpread, Visit
<1>2. /\ Seen' = Seen \cup {i} /\ i \in Rank /\ i' \in 1 .. N + 1
      /\ \A n \in Seen : n < i
  BY <1>1, SeenGrows DEF LoopIInv
<1>3. i \in list /\ HasCapacity(i) <=> i \in Fit
  BY <1>1, FitIsMatching DEF LoopIInv, Filtering
<1>4. /\ \A n \in Rank : Figure[n] \in Int /\ Figure[n] >= 0 /\ Figure[n] < MaxFigure
      /\ Fit \subseteq Rank /\ Rank \subseteq Int /\ i \in Int /\ best \in Int /\ bound \in Int
  BY FigureType, LoopAssumption DEF LoopIInv, LoopTypeOK, Fit, Rank
<1>5. BestSpread /\ strategy \in {"spread", "local-first"}
      /\ (strategy = "local-first" => local \notin Fit)
  BY <1>1 DEF LoopIInv, Picking
<1>6. Fit' = Fit /\ Figure' = Figure /\ strategy' = strategy /\ local' = local
  BY <1>1, InputFrame
<1>7. LoopTypeOK' /\ BestSpread'
  <2>1. CASE i \in Fit /\ Figure[i] < bound
    <3>1. best' = i /\ bound' = Figure[i]
      BY <1>1, <1>3, <2>1 DEF Take
    <3>2. \A n \in Fit \cap Seen : Figure[n] > Figure[i]
      BY <1>4, <1>5, <2>1 DEF BestSpread
    <3>3. \A n \in Fit : n < i => n \in Seen
      BY <1>2, <1>4 DEF Seen, Rank
    <3>4. LoopTypeOK'
      BY <1>1, <1>2, <1>4, <3>1, FigureType, LoopAssumption DEF LoopIInv, LoopTypeOK, input, Rank
    <3>5. i # 0
      BY <1>2 DEF Rank
    <3> QED BY <1>2, <1>4, <1>6, <2>1, <3>1, <3>2, <3>3, <3>4, <3>5 DEF BestSpread
  <2>2. CASE ~(i \in Fit /\ Figure[i] < bound)
    <3>1. best' = best /\ bound' = bound
      BY <1>1, <1>3, <2>2 DEF Pass
    <3>2. LoopTypeOK'
      BY <1>1, <1>2, <3>1 DEF LoopIInv, LoopTypeOK, input
    <3>3. i \in Fit => Figure[i] >= bound
      BY <1>4, <2>2
    <3> QED BY <1>2, <1>4, <1>5, <1>6, <3>1, <3>2, <3>3 DEF BestSpread
  <2> QED BY <2>1, <2>2
<1>8. Filtering'
  BY <1>1, InputFrame DEF LoopIInv, Filtering
<1>9. Picking' /\ Contract' /\ FirstBest'
  BY <1>1, <1>5, <1>6, <1>7 DEF Picking, Contract, FirstBest
<1> QED BY <1>7, <1>8, <1>9 DEF LoopIInv

\* One round of schedulePack or scheduleBinPack.
LEMMA PickPackStep ==
  ASSUME LoopIInv, PickPack
  PROVE  LoopIInv'
<1>1. /\ pc = "pack" /\ i <= N /\ i' = i + 1 /\ UNCHANGED <<pc, list, kept, input>>
      /\ IF i \in list /\ HasCapacity(i) /\ Figure[i] > bound THEN Take ELSE Pass
  BY DEF PickPack, Visit
<1>2. /\ Seen' = Seen \cup {i} /\ i \in Rank /\ i' \in 1 .. N + 1
      /\ \A n \in Seen : n < i
  BY <1>1, SeenGrows DEF LoopIInv
<1>3. i \in list /\ HasCapacity(i) <=> i \in Fit
  BY <1>1, FitIsMatching DEF LoopIInv, Filtering
<1>4. /\ \A n \in Rank : Figure[n] \in Int /\ Figure[n] >= 0 /\ Figure[n] < MaxFigure
      /\ Fit \subseteq Rank /\ Rank \subseteq Int /\ i \in Int /\ best \in Int /\ bound \in Int
  BY FigureType, LoopAssumption DEF LoopIInv, LoopTypeOK, Fit, Rank
<1>5. BestPack /\ strategy \in {"pack", "binpack"}
  BY <1>1 DEF LoopIInv, Picking
<1>6. Fit' = Fit /\ Figure' = Figure /\ strategy' = strategy
  BY <1>1, InputFrame
<1>7. LoopTypeOK' /\ BestPack'
  <2>1. CASE i \in Fit /\ Figure[i] > bound
    <3>1. best' = i /\ bound' = Figure[i]
      BY <1>1, <1>3, <2>1 DEF Take
    <3>2. \A n \in Fit \cap Seen : Figure[n] < Figure[i]
      BY <1>4, <1>5, <2>1 DEF BestPack
    <3>3. \A n \in Fit : n < i => n \in Seen
      BY <1>2, <1>4 DEF Seen, Rank
    <3>4. LoopTypeOK'
      BY <1>1, <1>2, <1>4, <3>1, FigureType, LoopAssumption DEF LoopIInv, LoopTypeOK, input, Rank
    <3>5. i # 0
      BY <1>2 DEF Rank
    <3> QED BY <1>2, <1>4, <1>6, <2>1, <3>1, <3>2, <3>3, <3>4, <3>5 DEF BestPack
  <2>2. CASE ~(i \in Fit /\ Figure[i] > bound)
    <3>1. best' = best /\ bound' = bound
      BY <1>1, <1>3, <2>2 DEF Pass
    <3>2. LoopTypeOK'
      BY <1>1, <1>2, <3>1 DEF LoopIInv, LoopTypeOK, input
    <3>3. i \in Fit => Figure[i] <= bound
      BY <1>4, <2>2
    <3> QED BY <1>2, <1>4, <1>5, <1>6, <3>1, <3>2, <3>3 DEF BestPack
  <2> QED BY <2>1, <2>2
<1>8. Filtering'
  BY <1>1, InputFrame DEF LoopIInv, Filtering
<1>9. Picking' /\ Contract' /\ FirstBest'
  BY <1>1, <1>5, <1>6, <1>7 DEF Picking, Contract, FirstBest
<1> QED BY <1>7, <1>8, <1>9 DEF LoopIInv

\* The end of the spread and pack loops: what was seen is everything.
LEMMA PickEndStep ==
  ASSUME LoopIInv, PickEnd
  PROVE  LoopIInv'
<1>1. /\ pc \in {"spread", "pack"} /\ i = N + 1 /\ pc' = "done"
      /\ UNCHANGED <<i, list, kept, best, bound, input>>
  BY DEF PickEnd, Over, Return
<1>2. LoopTypeOK'
  BY <1>1 DEF LoopIInv, LoopTypeOK, input
<1>3. Fit \cap Seen = Fit
  BY <1>1, SeenAll DEF LoopIInv
<1>4. Fit' = Fit /\ Figure' = Figure /\ strategy' = strategy /\ local' = local
  BY <1>1, InputFrame
<1>5. /\ \A n \in Fit : Figure[n] \in Int
      /\ 0 \notin Fit /\ Fit \subseteq Rank
  BY FigureType DEF LoopIInv, Fit, Rank
<1>6. Contract' /\ FirstBest'
  <2>1. CASE pc = "spread"
    <3>1. BestSpread /\ strategy \in {"spread", "local-first"}
          /\ (strategy = "local-first" => local \notin Fit)
      BY <2>1 DEF LoopIInv, Picking
    <3>2. Fit # {} => best \in SpreadChoices(Fit, Figure)
      BY <1>3, <1>5, <3>1 DEF BestSpread, SpreadChoices
    <3>3. Fit # {} => best \in Choices(strategy, Fit, Figure, local)
      BY <3>1, <3>2 DEF Choices, LocalFirstChoices
    <3>4. Fit = {} => best = 0
      BY <1>3, <3>1 DEF BestSpread
    <3>5. best # 0 => \A n \in Fit : n < best => Figure[n] > Figure[best]
      BY <3>1 DEF BestSpread
    <3> QED BY <1>1, <1>4, <3>1, <3>3, <3>4, <3>5 DEF Contract, FirstBest
  <2>2. CASE pc = "pack"
    <3>1. BestPack /\ strategy \in {"pack", "binpack"}
      BY <2>2 DEF LoopIInv, Picking
    <3>2. Fit # {} => best \in PackChoices(Fit, Figure) /\ best \in Fit
      BY <1>3, <1>5, <3>1 DEF BestPack, PackChoices
    <3>3. Fit # {} => best \in Choices(strategy, Fit, Figure, local)
      BY <3>1, <3>2 DEF Choices, BinPackChoices
    <3>4. Fit = {} => best = 0
      BY <1>3, <3>1 DEF BestPack
    <3>5. best # 0 => \A n \in Fit : n < best => Figure[n] < Figure[best]
      BY <3>1 DEF BestPack
    <3> QED BY <1>1, <1>4, <3>1, <3>3, <3>4, <3>5 DEF Contract, FirstBest
  <2> QED BY <1>1, <2>1, <2>2
<1>7. Filtering' /\ Picking'
  BY <1>1 DEF Filtering, Picking
<1> QED BY <1>2, <1>6, <1>7 DEF LoopIInv

\* One round of scheduleLocalFirst.
LEMMA PickLocalStep ==
  ASSUME LoopIInv, PickLocal
  PROVE  LoopIInv'
<1>1. /\ pc = "local" /\ i <= N /\ UNCHANGED <<bound, input>>
      /\ IF i \in list /\ i = local /\ HasCapacity(i)
         THEN Return /\ best' = i
         ELSE i' = i + 1 /\ UNCHANGED <<pc, list, kept, best>>
  BY DEF PickLocal
<1>2. i \in Rank /\ i \in Int
  BY <1>1, LoopAssumption DEF LoopIInv, LoopTypeOK, Rank
<1>3. i \in list /\ HasCapacity(i) <=> i \in Fit
  BY <1>1, FitIsMatching DEF LoopIInv, Filtering
<1>4. strategy = "local-first" /\ local \notin Fit \cap Seen /\ best = 0
  BY <1>1 DEF LoopIInv, Picking, Filtering
<1>5. CASE i \in Fit /\ i = local
  <2>1. pc' = "done" /\ UNCHANGED <<i, list, kept>> /\ best' = local /\ best' = i
    BY <1>1, <1>3, <1>5 DEF Return
  <2>2. LoopTypeOK'
    BY <1>1, <1>2, <2>1 DEF LoopIInv, LoopTypeOK, input, Rank
  <2>3. Contract' /\ FirstBest'
    BY <1>1, <1>4, <1>5, <2>1, InputFrame DEF Contract, FirstBest, Choices, LocalFirstChoices
  <2>4. Filtering' /\ Picking'
    BY <2>1 DEF Filtering, Picking
  <2> QED BY <2>2, <2>3, <2>4 DEF LoopIInv
<1>6. CASE ~(i \in Fit /\ i = local)
  <2>1. i' = i + 1 /\ UNCHANGED <<pc, list, kept, best, bound>>
    BY <1>1, <1>3, <1>6
  <2>2. Seen' = Seen \cup {i} /\ i' \in 1 .. N + 1
    BY <1>1, <2>1, SeenGrows DEF LoopIInv
  <2>3. LoopTypeOK'
    BY <1>1, <2>1, <2>2 DEF LoopIInv, LoopTypeOK, input
  <2>4. Filtering'
    BY <1>1, <2>1, InputFrame DEF LoopIInv, Filtering
  <2>5. Picking' /\ Contract' /\ FirstBest'
    BY <1>1, <1>4, <1>6, <2>1, <2>2, InputFrame DEF Picking, Contract, FirstBest
  <2> QED BY <2>3, <2>4, <2>5 DEF LoopIInv
<1> QED BY <1>5, <1>6

\* scheduleLocalFirst falls back to spread.
LEMMA PickLocalEndStep ==
  ASSUME LoopIInv, PickLocalEnd
  PROVE  LoopIInv'
<1>1. /\ pc = "local" /\ i = N + 1 /\ UNCHANGED <<best, input>>
      /\ pc' = "spread" /\ list' = list /\ i' = 1 /\ kept' = {} /\ bound' = MaxFigure
  BY DEF PickLocalEnd, Over, Loop
<1>2. strategy = "local-first" /\ local \notin Fit /\ best = 0 /\ list = Matching
  BY <1>1, SeenAll DEF LoopIInv, Picking, Filtering
<1>3. LoopTypeOK'
  BY <1>1, LoopAssumption DEF LoopIInv, LoopTypeOK, input
<1>4. Filtering'
  BY <1>1, <1>2, InputFrame DEF Filtering
<1>5. Picking' /\ Contract' /\ FirstBest'
  BY <1>1, <1>2, InputFrame, SeenNone DEF Picking, BestSpread, Contract, FirstBest
<1> QED BY <1>3, <1>4, <1>5 DEF LoopIInv

\* What each loop knows of the nodes it has passed holds at every step.
THEOREM LoopInvariant == LoopSpec => []LoopIInv
<1>1. LoopIInv /\ UNCHANGED loopVars => LoopIInv'
  <2> SUFFICES ASSUME LoopIInv, UNCHANGED loopVars PROVE LoopIInv'
    OBVIOUS
  <2>1. UNCHANGED <<pc, i, list, kept, best, bound, info, strategy, local>>
    BY DEF loopVars
  <2>2. LoopTypeOK' /\ Filtering' /\ Contract' /\ FirstBest'
    BY <2>1, InputFrame DEF LoopIInv, LoopTypeOK, Filtering, Contract, FirstBest, Seen, input
  <2>3. Picking'
    BY <2>1, InputFrame DEF LoopIInv, Picking, BestSpread, BestPack, Seen, input
  <2> QED BY <2>2, <2>3 DEF LoopIInv
<1>2. LoopIInv /\ [LoopNext]_loopVars => LoopIInv'
  BY <1>1, AvailableStep, AvailableEndStep, MatchStep, MatchEndStep, PickSpreadStep,
     PickPackStep, PickEndStep, PickLocalStep, PickLocalEndStep DEF LoopNext
<1> QED BY InitLoop, <1>2, PTL DEF LoopSpec

\* ScheduleContainer returns an error exactly when no node fits and otherwise one
\* of the nodes the strategy promises: what DeploymentManager takes for granted.
THEOREM LoopsKeepContract == LoopSpec => []Contract
<1>1. LoopIInv => Contract
  BY DEF LoopIInv
<1> QED BY LoopInvariant, <1>1, PTL

\* Among equally good nodes ScheduleContainer returns the first of the bucket.
THEOREM LoopsTakeFirst == LoopSpec => []FirstBest
<1>1. LoopIInv => FirstBest
  BY DEF LoopIInv
<1> QED BY LoopInvariant, <1>1, PTL
================================================================================
