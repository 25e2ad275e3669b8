----------------------- MODULE DeploymentManagerInvariant -----------------------
(***************************************************************************)
(* The inductive invariant behind TypeOK and RunningIsReal.                *)
(* DeploymentManagerProofs proves it; dm_concurrent checks it.              *)
(***************************************************************************)
EXTENDS DeploymentManager

Starting == {"save_container", "docker_create", "docker_start", "post", "posted",
             "save_running", "save_remote_failed", "save_failed"}
Handling == {"docker_stop", "docker_remove", "save_stopped", "delete_record"}

\* Process p is bringing up container c; its record is job[p].obj.
Starts(p, c) == job[p].pc \in Starting /\ job[p].cur = c

\* Every piece of state that mentions container c and puts it on machine n.
PlacedOn(c, n) ==
    \/ ctrs[c] # None /\ ctrs[c].node = n
    \/ dock[c] # None /\ dock[c].node = n
    \/ work[c] # None /\ work[c].ctr.node = n
    \/ \E p \in Process : job[p].list[c] # None /\ job[p].list[c].node = n
    \/ \E p \in Process : Starts(p, c) /\ job[p].obj.node = n

\* What a process must have in memory at each point.
JobOK ==
    \A p \in Process :
        /\ job[p].pc # "idle" => job[p].dep \in DepId /\ job[p].op # "none"
        /\ job[p].op \in {"create", "scale"} => job[p].mem \in Deployment
        /\ job[p].pc \in Starting \cup {"fail", "schedule"} => job[p].op \in {"create", "scale"}
        /\ job[p].pc \in {"save_deployment", "count", "save_status"} => job[p].op = "create"
        /\ job[p].pc = "count_running" => job[p].op = "scale"
        /\ job[p].pc \in {"list", "stop"} \cup Handling => job[p].op \in {"delete", "scale"}
        /\ job[p].pc \in Starting
             => job[p].cur \in Cid /\ job[p].obj \in Container /\ job[p].left > 0
        /\ job[p].pc \in Handling => job[p].cur \in Cid /\ job[p].list[job[p].cur] \in Container

\* How far the container has come that a process is bringing up.
StartOK ==
    \A p \in Process :
        /\ job[p].pc \in Starting \ {"save_running"}
             => ~job[p].obj.docker /\ job[p].obj.status # "running"
        /\ job[p].pc \in {"docker_create", "docker_start"} => job[p].obj.node = LocalNode
        /\ job[p].pc \in {"post", "posted"} => job[p].obj.node # LocalNode
        /\ job[p].pc = "posted" => work[job[p].cur] # None
        /\ job[p].pc = "docker_start" => dock[job[p].cur] # None
        /\ job[p].pc = "save_running" =>
             /\ dock[job[p].cur] # None /\ dock[job[p].cur].on
             /\ job[p].obj.docker
             /\ work[job[p].cur] # None => work[job[p].cur].at = "answered"

\* docker stop is called only for a container of this machine whose record, as
\* listed, has a Docker ID.
StopOK ==
    \A p \in Process : job[p].pc \in {"docker_stop", "docker_remove"} =>
        job[p].list[job[p].cur].docker /\ job[p].list[job[p].cur].node = LocalNode

\* What a worker has done of a request it took.
WorkOK ==
    \A c \in Cid : work[c] # None =>
        /\ work[c].ctr.node # LocalNode
        /\ work[c].at \in {"created", "started", "answered"} => dock[c] # None
        /\ work[c].at \in {"started", "answered"} => dock[c].on
        /\ ctrs[c] # None /\ ctrs[c].docker => work[c].at = "answered"
        /\ \A p \in Process : job[p].list[c] # None /\ job[p].list[c].docker
                                => work[c].at = "answered"

\* One process brings up a container, and until it has saved the Docker ID no
\* record and no list knows one.
OneStarter ==
    \A p \in Process, c \in Cid : Starts(p, c) =>
        /\ \A q \in Process : Starts(q, c) => q = p
        /\ ctrs[c] # None => ~ctrs[c].docker
        /\ \A q \in Process : job[q].list[c] # None => ~job[q].list[c].docker

\* A running record has a Docker ID.
RunningHasDocker == \A c \in Cid : ctrs[c] # None /\ ctrs[c].status = "running" => ctrs[c].docker

\* All that is known of a container agrees on its machine.
OnePlace ==
    \A c \in Cid, m, n \in Node : PlacedOn(c, m) /\ PlacedOn(c, n) => m = n

\* Nothing mentions an ID that was not drawn.
Undrawn == \A c \in Cid, n \in Node : c[2] > drawn[c[1]] => ~PlacedOn(c, n)

IInv == /\ TypeOK /\ JobOK /\ StartOK /\ StopOK /\ WorkOK
        /\ OneStarter /\ RunningHasDocker /\ OnePlace /\ Undrawn /\ RunningIsReal
=================================================================================
