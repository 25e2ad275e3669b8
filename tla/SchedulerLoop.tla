----------------------------- MODULE SchedulerLoop -----------------------------
(***************************************************************************)
(* internal/cluster/scheduler.go, one call of ScheduleContainer: the loops *)
(* that drop the nodes which are not available, drop those that do not     *)
(* match the placement, and choose one of the rest.  Scheduler says what   *)
(* the caller may rely on; Contract says that the loops keep to it.        *)
(*                                                                         *)
(* A node is its rank in the node bucket, the order in which ListNodes     *)
(* returns them; a list of nodes is a set of ranks, visited from 1 to N.   *)
(***************************************************************************)
EXTENDS Integers, Scheduler

CONSTANTS
    N,          \* nodes in the bucket
    Infos,      \* what the scheduler may know of a node
    MaxFigure   \* bound of container counts and scores (math.MaxInt32)

\* figure is what the strategy compares: the count of running and pending
\* containers, or for binpack the score.  res says what the Resources of the
\* node record tell, "unknown" when there are none; clash, whether a container
\* of the node uses a host port of the new one.
Info == [online : BOOLEAN, match : BOOLEAN, figure : 0 .. MaxFigure - 1,
         res : {"unknown", "free", "full"}, clash : BOOLEAN]

ASSUME LoopAssumption ==
    /\ N \in Nat /\ MaxFigure \in Nat
    /\ Infos \subseteq Info

Rank == 1 .. N

VARIABLES
    pc,        \* which loop
    i,         \* the rank it has come to
    list,      \* the nodes it goes through
    kept,      \* the nodes a filter has kept so far
    best,      \* bestNode, 0 for nil
    bound,     \* minContainers, maxContainers or bestScore
    info,      \* what is known of the nodes: input
    strategy,  \* input
    local      \* the rank of the machine that schedules, 0 if it is no node

loopVars == <<pc, i, list, kept, best, bound, info, strategy, local>>
input == <<info, strategy, local>>

Figure == [n \in Rank |-> info[n].figure]

\* hasCapacity: without resource figures everything fits, and the ports are
\* not looked at.
HasCapacity(n) == info[n].res = "unknown" \/ (info[n].res = "free" /\ ~info[n].clash)

\* The loop over a list is at its end, or at a node.
Over == i = N + 1
Visit == i <= N /\ i' = i + 1

\* The next loop goes through list l from the start.
Loop(label, l) == pc' = label /\ list' = l /\ i' = 1 /\ kept' = {}

\* The loop of the chosen strategy; spread stands for every unknown word.
Spread == Loop("spread", kept) /\ bound' = MaxFigure
Pack == Loop("pack", kept) /\ bound' = -1
Choose ==
    CASE strategy = "pack" -> Pack
      [] strategy = "binpack" -> Pack
      [] strategy = "local-first" -> Loop("local", kept) /\ bound' = bound
      [] OTHER -> Spread

Return == pc' = "done" /\ UNCHANGED <<i, list, kept>>

-----------------------------------------------------------------------------
\* getAvailableNodes
Available ==
    /\ pc = "available" /\ Visit
    /\ kept' = IF info[i].online THEN kept \cup {i} ELSE kept
    /\ UNCHANGED <<pc, list, best, bound, input>>
AvailableEnd ==
    /\ pc = "available" /\ Over
    /\ IF kept = {} THEN Return ELSE Loop("match", kept)
    /\ UNCHANGED <<best, bound, input>>

\* Slip: a node that does not match is kept.
Match_All ==
    /\ pc = "match" /\ Visit
    /\ kept' = IF i \in list THEN kept \cup {i} ELSE kept
    /\ UNCHANGED <<pc, list, best, bound, input>>

\* applyPlacementConstraints
Match ==
    /\ pc = "match" /\ Visit
    /\ kept' = IF i \in list /\ info[i].match THEN kept \cup {i} ELSE kept
    /\ UNCHANGED <<pc, list, best, bound, input>>
MatchEnd ==
    /\ pc = "match" /\ Over
    /\ IF kept = {} THEN Return /\ UNCHANGED bound ELSE Choose
    /\ UNCHANGED <<best, input>>

Take == best' = i /\ bound' = Figure[i]
Pass == UNCHANGED <<best, bound>>

\* Slip: of two equally good nodes the later one is taken.
PickSpread_Last ==
    /\ pc = "spread" /\ Visit
    /\ IF i \in list /\ HasCapacity(i) /\ Figure[i] <= bound THEN Take ELSE Pass
    /\ UNCHANGED <<pc, list, kept, input>>

\* scheduleSpread
PickSpread ==
    /\ pc = "spread" /\ Visit
    /\ IF i \in list /\ HasCapacity(i) /\ Figure[i] < bound THEN Take ELSE Pass
    /\ UNCHANGED <<pc, list, kept, input>>

\* schedulePack and scheduleBinPack
PickPack ==
    /\ pc = "pack" /\ Visit
    /\ IF i \in list /\ HasCapacity(i) /\ Figure[i] > bound THEN Take ELSE Pass
    /\ UNCHANGED <<pc, list, kept, input>>

PickEnd ==
    /\ pc \in {"spread", "pack"} /\ Over
    /\ Return
    /\ UNCHANGED <<best, bound, input>>

\* Slip: a local node without capacity is taken.
PickLocal_Full ==
    /\ pc = "local" /\ i <= N
    /\ IF i \in list /\ i = local
       THEN Return /\ best' = i
       ELSE i' = i + 1 /\ UNCHANGED <<pc, list, kept, best>>
    /\ UNCHANGED <<bound, input>>

\* scheduleLocalFirst, which falls back to spread.
PickLocal ==
    /\ pc = "local" /\ i <= N
    /\ IF i \in list /\ i = local /\ HasCapacity(i)
       THEN Return /\ best' = i
       ELSE i' = i + 1 /\ UNCHANGED <<pc, list, kept, best>>
    /\ UNCHANGED <<bound, input>>
PickLocalEnd ==
    /\ pc = "local" /\ Over
    /\ Loop("spread", list) /\ bound' = MaxFigure
    /\ UNCHANGED <<best, input>>

LoopInit ==
    /\ pc = "available" /\ i = 1 /\ list = Rank /\ kept = {}
    /\ best = 0 /\ bound = 0
    /\ info \in [Rank -> Infos] /\ strategy \in Strategies /\ local \in 0 .. N

LoopNext ==
    \/ Available \/ AvailableEnd \/ Match \/ MatchEnd
    \/ PickSpread \/ PickPack \/ PickEnd \/ PickLocal \/ PickLocalEnd

LoopSpec == LoopInit /\ [][LoopNext]_loopVars

-----------------------------------------------------------------------------
(* Properties.                                                              *)

\* Every variable keeps to its type.
LoopTypeOK ==
    /\ pc \in {"available", "match", "spread", "pack", "local", "done"}
    /\ i \in 1 .. N + 1
    /\ list \subseteq Rank /\ kept \subseteq Rank
    /\ best \in 0 .. N /\ bound \in -1 .. MaxFigure
    /\ info \in [Rank -> Infos] /\ strategy \in Strategies /\ local \in 0 .. N

\* The nodes a container may go to.
Fit == {n \in Rank : info[n].online /\ info[n].match /\ HasCapacity(n)}

\* ScheduleContainer returns an error exactly when no node fits, and otherwise
\* one of the nodes its caller may rely on, whatever the order of the bucket:
\* DeploymentManager takes any of them.
Contract ==
    pc = "done" => IF Fit = {} THEN best = 0
                   ELSE best \in Choices(strategy, Fit, Figure, local)

\* The choice does not depend on anything but the order of the bucket: every
\* fitting node before the chosen one is worse, so that two calls on one state
\* of the database agree.
FirstBest ==
    pc = "done" /\ best # 0 /\ ~(strategy = "local-first" /\ best = local) =>
        \A n \in Fit : n < best =>
            IF strategy \in {"pack", "binpack"} THEN Figure[n] < Figure[best]
                                                ELSE Figure[n] > Figure[best]

-----------------------------------------------------------------------------
(* Why: what each loop knows when it comes to rank i.  LoopIInv is          *)
(* inductive; SchedulerLoopProofs proves it.                                *)

Online == {n \in Rank : info[n].online}
Matching == {n \in Online : info[n].match}
Seen == 1 .. i - 1

Filtering ==
    /\ pc = "available" => list = Rank /\ kept = Online \cap Seen
    /\ pc = "match" => list = Online /\ kept = Matching \cap Seen
    /\ pc \in {"available", "match", "local"} => best = 0
    /\ pc \in {"spread", "pack", "local"} => list = Matching

\* The best of the nodes seen, and the first of those that are as good.
BestSpread ==
    IF best = 0 THEN bound = MaxFigure /\ Fit \cap Seen = {}
    ELSE /\ best \in Fit \cap Seen /\ bound = Figure[best]
         /\ \A n \in Fit \cap Seen : Figure[n] >= bound
         /\ \A n \in Fit : n < best => Figure[n] > bound
BestPack ==
    IF best = 0 THEN bound = -1 /\ Fit \cap Seen = {}
    ELSE /\ best \in Fit \cap Seen /\ bound = Figure[best]
         /\ \A n \in Fit \cap Seen : Figure[n] <= bound
         /\ \A n \in Fit : n < best => Figure[n] < bound

Picking ==
    /\ pc = "local" => strategy = "local-first" /\ local \notin Fit \cap Seen
    /\ pc = "spread" => /\ strategy \in {"spread", "local-first"}
                        /\ strategy = "local-first" => local \notin Fit
                        /\ BestSpread
    /\ pc = "pack" => strategy \in {"pack", "binpack"} /\ BestPack

\* What every loop has established of the nodes it has passed.
LoopIInv == LoopTypeOK /\ Filtering /\ Picking /\ Contract /\ FirstBest
================================================================================
