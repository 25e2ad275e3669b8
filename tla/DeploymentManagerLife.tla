--------------------------- MODULE DeploymentManagerLife ---------------------------
(***************************************************************************)
(* The deployment manager implements ContainerLife: what its records, the  *)
(* Docker daemons, the requests at the workers and the memory of its       *)
(* processes say of a container, seen as the life of that container.       *)
(***************************************************************************)
EXTENDS DeploymentManagerInvariant

\* Somebody may still call ContainerCreate for c: the process that brings it up,
\* or the worker that has the request and has not looked at it.
Bringing == {"save_container", "docker_create", "post"}
Brings(p, c) == job[p].pc \in Bringing /\ job[p].cur = c
MayCome(c) == (\E p \in Process : Brings(p, c)) \/ Working(c, "sent")

LifeOf(c) ==
    CASE dock[c] # None /\ dock[c].on -> "on"
      [] dock[c] # None /\ ~dock[c].on -> "still"
      [] dock[c] = None /\ MayCome(c) -> "coming"
      [] dock[c] = None /\ ~MayCome(c) /\ c[2] <= drawn[c[1]] -> "over"
      [] dock[c] = None /\ ~MayCome(c) /\ c[2] > drawn[c[1]] -> "unborn"

TakingDown == {"docker_stop", "docker_remove", "save_stopped"}
TakesDown(p, c) == job[p].pc \in TakingDown /\ job[p].cur = c
Doomed(c) == (\E p \in Process : TakesDown(p, c)) \/ c \in cut

Claimed(c) == ctrs[c] # None /\ ctrs[c].status = "running"

Life == INSTANCE ContainerLife WITH
    life <- [c \in Cid |-> LifeOf(c)],
    claimed <- [c \in Cid |-> Claimed(c)],
    doomed <- [c \in Cid |-> Doomed(c)]

\* Whatever the interleaving of creates, scales, deletes, lost answers and deaths,
\* each container lives the life that ContainerLife describes: a request is not
\* carried out twice, an ID does not come back, "running" is written only of
\* what runs (scheduleContainers, startContainer, stopContainer).
KeepsLife == Life!LifeSpec

\* What IInv lacks for that: whoever may still make a container is the first to.
ComingOK ==
    /\ \A p \in Process, c \in Cid : Brings(p, c) => dock[c] = None /\ work[c] = None
    /\ \A c \in Cid : Working(c, "sent") => dock[c] = None
====================================================================================
