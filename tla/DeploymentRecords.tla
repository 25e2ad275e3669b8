--------------------------- MODULE DeploymentRecords ---------------------------
(***************************************************************************)
(* The inductive invariants behind what DeploymentManager says of the      *)
(* records of a deployment: how many of its containers run, that a name is *)
(* used once, that a delete leaves nothing.  CountInv holds for any number *)
(* of goroutines, StartInv as long as nothing is deleted, AloneInv and     *)
(* SerialInv as long as the server serves one request at a time, when the  *)
(* manager implements DeploymentRegistry.                                  *)
(***************************************************************************)
EXTENDS DeploymentManagerInvariant

Busy(p) == job[p].pc # "idle"

\* The records process p still has to stop, as it listed them.
InHand(p) == {c \in Cid : job[p].list[c] # None}

-----------------------------------------------------------------------------
(* With any number of goroutines.                                           *)

\* The database is open to the server's goroutines or to the tool, never to both.
LockOK ==
    \A p \in Process :
        /\ Busy(p) => lock = IF p = Cli THEN "cli" ELSE "server"
        /\ job[p].op # "none" => Busy(p)

\* A deployment ID is drawn once, by the process that creates the deployment,
\* before there is anything under it.
BornOK ==
    /\ \A d \in DepId \ born : deps[d] = None /\ drawn[d] = 0
    /\ \A p \in Process : Busy(p) => job[p].dep \in born
    /\ \A p, q \in Process : job[p].op = "create" /\ job[q].op = "create"
                             /\ job[p].dep = job[q].dep => p = q

\* A process works on containers of its own deployment; only the tool scales.
ScopeOK ==
    \A p \in Process :
        /\ job[p].op = "scale" => p = Cli
        /\ job[p].pc \in Starting => Owner(job[p].cur) = job[p].dep
        /\ job[p].pc \in {"stop"} \cup Handling
             => \A c \in InHand(p) : Owner(c) = job[p].dep
        /\ job[p].pc = "list" => job[p].op = "delete"
        /\ job[p].pc = "save_deployment" => job[p].mem.status = "pending"
        /\ job[p].pc = "save_running" => job[p].obj.status = "running"

\* What a create has brought up and has still to bring up is within what was
\* asked for, and nobody changes what was asked for meanwhile.
Creating(p) ==
    LET d == job[p].dep IN
    /\ Cardinality(RunningOf(d)) + job[p].left <= job[p].mem.replicas
    /\ deps[d] # None => /\ deps[d].replicas = job[p].mem.replicas
                         /\ deps[d].status # "scaling"

\* What a scale has still to bring up or to stop makes up the difference.
Scaling(p) ==
    LET d == job[p].dep IN
    /\ deps[d] = job[p].mem /\ job[p].mem.status = "scaling"
    /\ job[p].pc \in {"schedule"} \cup Starting
         => Cardinality(RunningOf(d)) + job[p].left = job[p].mem.replicas
    /\ job[p].pc \in {"stop"} \cup Handling
         => Cardinality(RunningOf(d) \ InHand(p)) = job[p].mem.replicas

CreateOK == \A p \in Process : job[p].op = "create" => Creating(p)
ScaleOK == \A p \in Process : job[p].op = "scale" => Scaling(p)

CountInv == LockOK /\ BornOK /\ ScopeOK /\ CreateOK /\ ScaleOK /\ WithinReplicas

-----------------------------------------------------------------------------
(* As long as nothing is deleted.                                           *)

NothingDeleted == "delete" \notin Requests

\* Whatever Docker is asked to make has a record; only containers with a
\* Docker ID are stopped; "running" is saved for a deployment with containers.
StartInv ==
    /\ \A p \in Process :
        /\ job[p].op # "delete"
        /\ job[p].pc \in {"stop"} \cup Handling
             => \A c \in InHand(p) : job[p].list[c].docker
        /\ job[p].pc \in Starting \ {"save_container"} => ctrs[job[p].cur] # None
        /\ job[p].pc = "save_status" /\ job[p].mem.status = "running"
             => RunningOf(job[p].dep) # {} \/ job[p].mem.replicas = 0
    /\ \A c \in Cid : Working(c, "sent") => ctrs[c] # None
    /\ RunningHasContainers

-----------------------------------------------------------------------------
(* As long as the server serves one request at a time.                      *)

OneRequest == \A p, q \in Handlers : p = q

\* What a process found when it looked is still so when it saves.
AloneInv ==
    /\ \A p \in Process :
        /\ job[p].pc = "save_deployment"
             => /\ deps[job[p].dep] = None
                /\ \A d \in DepId : deps[d] # None => deps[d].name # job[p].mem.name
        /\ job[p].op = "create" /\ job[p].pc # "save_deployment"
             => deps[job[p].dep] # None /\ deps[job[p].dep].name = job[p].mem.name
        /\ job[p].op = "delete" /\ job[p].pc \in {"stop"} \cup Handling
             => CtrsOf(job[p].dep) \subseteq InHand(p)
    /\ UniqueNames

\* What a create has not brought up yet is exactly what it has still to bring up,
\* and what it has in memory is what it saved; nobody has anything to do with a
\* deployment or a container whose record is gone.
SerialInv ==
    /\ \A p \in Process :
        LET d == job[p].dep IN
        /\ job[p].pc = "save_deployment" => job[p].mem.replicas \in 1 .. MaxReplicas
        /\ job[p].op = "create" =>
             /\ Cardinality(RunningOf(d)) + job[p].left = job[p].mem.replicas
             /\ job[p].pc # "save_deployment"
                  => deps[d] = [job[p].mem EXCEPT !.status = "pending"]
        /\ job[p].pc \in {"count", "save_status"} => job[p].left = 0
        /\ job[p].pc = "save_status" => job[p].mem.status = "running"
        /\ job[p].op = "delete" => deps[d] # None
        /\ job[p].pc \in Starting \ {"save_container"} => ctrs[job[p].cur] # None
        /\ job[p].pc \in {"stop"} \cup Handling => InHand(p) \subseteq CtrsOf(d)
    /\ \A d \in DepId : deps[d] = None => CtrsOf(d) = {}

\* The deployments as a user sees them between his requests.
Creates(d) == \E p \in Process : At(p, "save_deployment") /\ job[p].dep = d
StatusView == [d \in DepId |-> IF deps[d] # None THEN deps[d].status
                               ELSE IF d \notin born THEN "unborn"
                               ELSE IF Creates(d) THEN "coming" ELSE "gone"]
NameView == [d \in DepId |-> IF deps[d] # None THEN deps[d].name ELSE None]
WantView == [d \in DepId |-> IF deps[d] # None THEN deps[d].replicas ELSE 0]
HasView == [d \in DepId |-> CtrsOf(d)]
OnView == [d \in DepId |-> RunningOf(d)]
DoomedView == {d \in DepId : \E p \in Process : job[p].op = "delete" /\ job[p].dep = d}

Registry == INSTANCE DeploymentRegistry WITH
    status <- StatusView, name <- NameView, want <- WantView,
    has <- HasView, on <- OnView, doomed <- DoomedView

\* One request at a time, the deployment manager is the registry of
\* DeploymentRegistry: what lies between its looks and its saves shows in nothing
\* that is recorded, and a create that reports success has all its replicas.
KeepsRegistry == Registry!RegistrySpec
================================================================================
