---------------------------- MODULE MCSchedulerLoop ----------------------------
(***************************************************************************)
(* Inputs for model-checking SchedulerLoop: of a node that is dropped by a *)
(* filter the rest does not matter.                                        *)
(***************************************************************************)
EXTENDS SchedulerLoop

Dropped(online, match) ==
    [online |-> online, match |-> match, figure |-> 0, res |-> "unknown", clash |-> FALSE]
SomeInfos ==
    {Dropped(FALSE, TRUE), Dropped(TRUE, FALSE)}
    \cup {r \in Info : r.online /\ r.match}
================================================================================
