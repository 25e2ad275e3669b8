------------------------------- MODULE Scheduler -------------------------------
(***************************************************************************)
(* What internal/cluster/scheduler.go promises its caller: from the nodes  *)
(* that are online and match the placement, and the number of containers   *)
(* counted on each, the set of nodes a strategy may return.  The code      *)
(* returns one of them, the first in the order of the node bucket; that    *)
(* order is the order of random UUIDs, so the set says all a caller can    *)
(* rely on.  SchedulerLoop models the loops that compute the choice.       *)
(***************************************************************************)
EXTENDS Integers

\* The strategies ScheduleContainer knows; every other word means "spread".
Strategies == {"spread", "pack", "binpack", "local-first"}

\* scheduleSpread: a node with the fewest containers.
SpreadChoices(nodes, load) == {n \in nodes : \A m \in nodes : load[n] <= load[m]}

\* schedulePack: a node with the most containers.
PackChoices(nodes, load) == {n \in nodes : \A m \in nodes : load[n] >= load[m]}

\* scheduleBinPack: no node has resource figures, so every score is the
\* neutral one and any node may come first.
BinPackChoices(nodes) == nodes

\* scheduleLocalFirst: the machine that schedules, if it is available.
LocalFirstChoices(nodes, load, local) ==
    IF local \in nodes THEN {local} ELSE SpreadChoices(nodes, load)

\* ScheduleContainer on the nodes that match the placement.
Choices(strategy, nodes, load, local) ==
    CASE strategy = "pack" -> PackChoices(nodes, load)
      [] strategy = "binpack" -> BinPackChoices(nodes)
      [] strategy = "local-first" -> LocalFirstChoices(nodes, load, local)
      [] OTHER -> SpreadChoices(nodes, load)
================================================================================
