--------------------------- MODULE DeploymentManager ---------------------------
(***************************************************************************)
(* internal/cluster/deployment_manager.go on one master: the create,       *)
(* scale and delete operations as they are run by the goroutines of the    *)
(* API server and by the command line tool, down to single storage         *)
(* transactions, Docker calls and HTTP exchanges with the workers.         *)
(*                                                                         *)
(* The database and the Docker daemons survive the death of a process;     *)
(* what a process holds in memory (job) does not.  bbolt locks the         *)
(* database file, so either the server or one run of the command line tool *)
(* has it open; inside the server every request is a goroutine of its own  *)
(* and nothing is locked across two storage calls.                         *)
(***************************************************************************)
EXTENDS Integers, FiniteSets, Scheduler

CONSTANTS
    Handlers,      \* goroutines of the API server that serve requests
    Cli,           \* a run of the command line tool on the master
    DepId,         \* deployment IDs (UUIDs)
    PerDep,        \* bound: containers ever drawn for one deployment
    Name,          \* deployment names
    Node,          \* machines
    LocalNode,     \* the machine of the master
    Port,          \* host ports a deployment may ask for, 0 for none
    Placement,     \* placement configurations
    MaxReplicas,   \* bound: replicas asked for
    MaxCrashes,    \* bound: deaths of the server, of the tool, of a worker
    DockerFaults,  \* TRUE if a Docker call may fail for no reason of ours
    LinkFaults,    \* TRUE if an HTTP exchange may fail or lose its answer
    Requests,      \* the operations users ask for
    None           \* no record

Process == Handlers \cup {Cli}
Cid == DepId \X (1 .. PerDep)      \* container IDs, <<deployment, draw>>
Owner(c) == c[1]

ASSUME ConstantAssumption ==
    /\ Cli \notin Handlers
    /\ IsFiniteSet(DepId)
    /\ LocalNode \in Node
    /\ PerDep \in Nat /\ MaxReplicas \in Nat /\ MaxCrashes \in Nat
    /\ MaxReplicas <= PerDep
    /\ Port \subseteq Nat
    /\ Placement \subseteq [strategy : Strategies, targets : SUBSET Node]
    /\ DockerFaults \in BOOLEAN /\ LinkFaults \in BOOLEAN
    /\ Requests \subseteq {"create", "scale", "delete", "remove"}

\* A container name is the deployment's name, with the index of the replica
\* when there are several (0 when there is one).
Deployment == [name : Name, replicas : Nat, port : Nat, place : Placement,
               status : {"pending", "running", "failed", "scaling"}]
Container == [node : Node, name : Name \X Nat, port : Nat, docker : BOOLEAN,
              status : {"pending", "running", "stopped", "failed"}]
DockerContainer == [node : Node, name : Name \X Nat, port : Nat, on : BOOLEAN]
Call == [at : {"sent", "created", "started", "answered", "refused", "lost"},
         ctr : Container]

ASSUME NoneAssumption ==
    /\ None \notin Deployment /\ None \notin Container
    /\ None \notin DockerContainer /\ None \notin Call
    /\ None \notin DepId /\ None \notin Cid

VARIABLES
    lock,      \* who has the database file open: "free", "server" or "cli"
    nodes,     \* node records of the database, all of them online
    deps,      \* deployment records of the database
    ctrs,      \* container records of the database
    dock,      \* Docker containers, on every machine, by the ID of the record
               \* they were made for
    work,      \* requests to start a container, at the workers
    workerDb,  \* container records of the workers' own databases
    job,       \* what each process is doing
    born,      \* deployment IDs that were drawn
    drawn,     \* how many container IDs were drawn for each deployment
    crashes,   \* how many processes have died
    cut        \* history: containers whose stop was cut short by a crash

vars == <<lock, nodes, deps, ctrs, dock, work, workerDb, job, born, drawn,
          crashes, cut>>
db == <<nodes, deps, ctrs>>
remote == <<work, workerDb>>
ids == <<born, drawn>>
history == <<crashes, cut>>

-----------------------------------------------------------------------------
(* What a process has in memory.                                            *)

NoContainers == [c \in Cid |-> None]

Label == {"idle", "save_deployment", "schedule", "save_container", "docker_create",
          "docker_start", "post", "posted", "save_running", "save_remote_failed",
          "save_failed", "fail", "count", "save_status", "list", "stop",
          "docker_stop", "docker_remove", "save_stopped", "delete_record",
          "count_running"}
Job == [pc : Label,
        op : {"none", "create", "scale", "delete"},
        dep : DepId \cup {None},           \* the deployment worked on
        mem : Deployment \cup {None},      \* its record, as last read or made
        left : Nat,                        \* containers still to schedule
        idx : Nat,                         \* replicas scheduled so far
        cur : Cid \cup {None},             \* the container worked on
        obj : Container \cup {None},       \* its record, in memory
        list : [Cid -> Container \cup {None}]]  \* records to stop, as listed

Idle == [pc |-> "idle", op |-> "none", dep |-> None, mem |-> None, left |-> 0,
         idx |-> 0, cur |-> None, obj |-> None, list |-> NoContainers]

Become(p, j) == job' = [job EXCEPT ![p] = j]
Goto(p, label) == job' = [job EXCEPT ![p].pc = label]
At(p, label) == job[p].pc = label

\* Slip: the database file is not locked.
Ready_NoLock(p) == At(p, "idle") /\ lock \in {"free", "server", "cli"}

\* A goroutine takes a request when the server runs; the tool first opens the
\* database, and closes it when its one operation is over.
Ready(p) == At(p, "idle") /\ lock = IF p = Cli THEN "free" ELSE "server"
Enter(p) == lock' = IF p = Cli THEN "cli" ELSE lock
Finish(p) == Become(p, Idle) /\ lock' = IF p = Cli THEN "free" ELSE lock

CtrsOf(d) == {c \in Cid : ctrs[c] # None /\ Owner(c) = d}
RunningOf(d) == {c \in CtrsOf(d) : ctrs[c].status = "running"}
FailedOf(d) == {c \in CtrsOf(d) : ctrs[c].status = "failed"}

\* getContainerCountsPerNode
Active(c) == ctrs[c] # None /\ ctrs[c].status \in {"pending", "running"}
Load == [n \in Node |-> Cardinality({c \in Cid : Active(c) /\ ctrs[c].node = n})]

-----------------------------------------------------------------------------
(* CreateDeployment                                                         *)

\* Validation, the look for a record of that name, the new record in memory.
BeginCreate(p, name, replicas, port, place) ==
    /\ "create" \in Requests
    /\ Ready(p)
    /\ \A d \in DepId : deps[d] # None => deps[d].name # name
    /\ \E d \in DepId \ born :
         /\ born' = born \cup {d}
         /\ Become(p, [Idle EXCEPT !.pc = "save_deployment", !.op = "create",
                !.dep = d, !.left = replicas,
                !.mem = [name |-> name, replicas |-> replicas, port |-> port,
                         place |-> place, status |-> "pending"]])
    /\ Enter(p)
    /\ UNCHANGED <<db, dock, remote, drawn, history>>

SaveDeployment(p) ==
    /\ At(p, "save_deployment")
    /\ deps' = [deps EXCEPT ![job[p].dep] = job[p].mem]
    /\ Goto(p, "schedule")
    /\ UNCHANGED <<lock, nodes, ctrs, dock, remote, ids, history>>

\* Slip: a failed create does not save its status.
Fail_Unsaved(p) ==
    /\ At(p, "fail") /\ Finish(p)
    /\ UNCHANGED <<db, dock, remote, ids, history>>

\* Slip: the error return saves "running".
Fail_Running(p) ==
    /\ At(p, "fail")
    /\ deps' = [deps EXCEPT ![job[p].dep] = [job[p].mem EXCEPT !.status = "running"]]
    /\ Finish(p)
    /\ UNCHANGED <<nodes, ctrs, dock, remote, ids, history>>

\* The error return of scheduleContainers.  Create marks the deployment
\* failed; scale returns at once.
Fail(p) ==
    /\ At(p, "fail")
    /\ \/ /\ job[p].op = "create"
          /\ deps' = [deps EXCEPT ![job[p].dep] = [job[p].mem EXCEPT !.status = "failed"]]
       \/ job[p].op = "scale" /\ UNCHANGED deps
    /\ Finish(p)
    /\ UNCHANGED <<nodes, ctrs, dock, remote, ids, history>>

-----------------------------------------------------------------------------
(* scheduleContainers: one round of the loop is Schedule, SaveContainer,    *)
(* the start of the container, SaveRunning.                                 *)

\* createContainer: names and host ports count up from the deployment's own
\* when it has several replicas.
NewContainer(j, n) ==
    LET many == j.mem.replicas > 1 IN
    [node |-> n, docker |-> FALSE, status |-> "pending",
     name |-> <<j.mem.name, IF many THEN j.idx + 1 ELSE 0>>,
     port |-> IF many /\ j.mem.port > 0 THEN j.mem.port + j.idx ELSE j.mem.port]

\* createContainer and ScheduleContainer
Schedule(p) ==
    /\ At(p, "schedule") /\ job[p].left > 0
    /\ LET place == job[p].mem.place
           eligible == nodes \cap place.targets
           d == job[p].dep
       IN \/ /\ eligible = {}
             /\ Goto(p, "fail")
             /\ UNCHANGED drawn
          \/ \E n \in Choices(place.strategy, eligible, Load, LocalNode) :
               /\ drawn[d] < PerDep
               /\ drawn' = [drawn EXCEPT ![d] = @ + 1]
               /\ Become(p, [job[p] EXCEPT !.pc = "save_container",
                      !.cur = <<d, drawn[d] + 1>>, !.obj = NewContainer(job[p], n)])
    /\ UNCHANGED <<lock, db, dock, remote, born, history>>

\* Slip: the record is saved as running before the container is started.
SaveContainer_Early(p) ==
    /\ At(p, "save_container")
    /\ ctrs' = [ctrs EXCEPT ![job[p].cur] = [job[p].obj EXCEPT !.status = "running"]]
    /\ Goto(p, IF job[p].obj.node = LocalNode THEN "docker_create" ELSE "post")
    /\ UNCHANGED <<lock, nodes, deps, dock, remote, ids, history>>

\* Slip: the record is saved only once the container runs.
SaveContainer_Late(p) ==
    /\ At(p, "save_container")
    /\ Goto(p, IF job[p].obj.node = LocalNode THEN "docker_create" ELSE "post")
    /\ UNCHANGED <<lock, db, dock, remote, ids, history>>

SaveContainer(p) ==
    /\ At(p, "save_container")
    /\ ctrs' = [ctrs EXCEPT ![job[p].cur] = job[p].obj]
    /\ Goto(p, IF job[p].obj.node = LocalNode THEN "docker_create" ELSE "post")
    /\ UNCHANGED <<lock, nodes, deps, dock, remote, ids, history>>

\* Slip: the loop goes round once more than it should.
SaveRunning_Again(p) ==
    /\ At(p, "save_running")
    /\ ctrs' = [ctrs EXCEPT ![job[p].cur] = job[p].obj]
    /\ \E left \in {job[p].left - 1, job[p].left} :
         Become(p, [job[p] EXCEPT !.pc = "schedule", !.left = left, !.idx = @ + 1,
                    !.cur = None, !.obj = None])
    /\ UNCHANGED <<lock, nodes, deps, dock, remote, ids, history>>

SaveRunning(p) ==
    /\ At(p, "save_running")
    /\ ctrs' = [ctrs EXCEPT ![job[p].cur] = job[p].obj]
    /\ Become(p, [job[p] EXCEPT !.pc = "schedule", !.left = @ - 1, !.idx = @ + 1,
                    !.cur = None, !.obj = None])
    /\ UNCHANGED <<lock, nodes, deps, dock, remote, ids, history>>

\* The record of a container that did not start is saved as failed, twice
\* when the container was meant for a worker.
SaveFailed(p) ==
    /\ \/ At(p, "save_remote_failed") /\ Goto(p, "save_failed")
       \/ At(p, "save_failed") /\ Goto(p, "fail")
    /\ ctrs' = [ctrs EXCEPT ![job[p].cur] = [job[p].obj EXCEPT !.status = "failed"]]
    /\ UNCHANGED <<lock, nodes, deps, dock, remote, ids, history>>

-----------------------------------------------------------------------------
(* The Docker daemon of a machine, as RunContainer uses it.                 *)

NameFree(n, name) ==
    \A c \in Cid : dock[c] # None => ~(dock[c].node = n /\ dock[c].name = name)
PortFree(n, port) ==
    port > 0 => \A c \in Cid : dock[c] # None
                    => ~(dock[c].node = n /\ dock[c].on /\ dock[c].port = port)

\* ContainerCreate: reserves the name.
Created(c, ctr) ==
    /\ NameFree(ctr.node, ctr.name)
    /\ dock' = [dock EXCEPT ![c] = [node |-> ctr.node, name |-> ctr.name,
                                    port |-> ctr.port, on |-> FALSE]]
NotCreated(ctr) == (DockerFaults \/ ~NameFree(ctr.node, ctr.name)) /\ UNCHANGED dock

\* ContainerStart: binds the host port.  RunContainer leaves the created
\* container behind when this fails.
Started(c, ctr) ==
    /\ PortFree(ctr.node, ctr.port)
    /\ dock' = [dock EXCEPT ![c].on = TRUE]
NotStarted(ctr) == (DockerFaults \/ ~PortFree(ctr.node, ctr.port)) /\ UNCHANGED dock

\* startContainer on the master's own machine
DockerCreate(p) ==
    /\ At(p, "docker_create")
    /\ \/ Created(job[p].cur, job[p].obj) /\ Goto(p, "docker_start")
       \/ NotCreated(job[p].obj) /\ Goto(p, "save_failed")
    /\ UNCHANGED <<lock, db, remote, ids, history>>

DockerStart(p) ==
    /\ At(p, "docker_start")
    /\ \/ /\ Started(job[p].cur, job[p].obj)
          /\ Become(p, [job[p] EXCEPT !.pc = "save_running", !.obj.docker = TRUE,
                                      !.obj.status = "running"])
       \/ NotStarted(job[p].obj) /\ Goto(p, "save_failed")
    /\ UNCHANGED <<lock, db, remote, ids, history>>

-----------------------------------------------------------------------------
(* startContainerOnRemoteNode and the worker's handleCreateContainer.  The  *)
(* POST has no timeout; it is sent once.                                    *)

Post(p) ==
    /\ At(p, "post")
    /\ \/ /\ work' = [work EXCEPT ![job[p].cur] = [at |-> "sent", ctr |-> job[p].obj]]
          /\ Goto(p, "posted")
       \/ LinkFaults /\ Goto(p, "save_remote_failed") /\ UNCHANGED work
    /\ UNCHANGED <<lock, db, dock, workerDb, ids, history>>

\* Slip: an error answer of the worker is not looked at.
Answer_NoError(p) ==
    /\ At(p, "posted")
    /\ work[job[p].cur].at = "answered"
    /\ Become(p, [job[p] EXCEPT !.pc = "save_running", !.obj.docker = TRUE,
                                !.obj.status = "running"])
    /\ UNCHANGED <<lock, db, dock, remote, ids, history>>

\* Slip: a request without a good answer is posted again.
Answer_Retry(p) ==
    /\ At(p, "posted")
    /\ \/ /\ work[job[p].cur].at = "answered"
          /\ Become(p, [job[p] EXCEPT !.pc = "save_running", !.obj.docker = TRUE,
                                      !.obj.status = "running"])
       \/ /\ work[job[p].cur].at \in {"refused", "lost"} \/ LinkFaults
          /\ Goto(p, "post")
    /\ UNCHANGED <<lock, db, dock, remote, ids, history>>

\* The answer arrives, or the connection breaks while the worker goes on.
Answer(p) ==
    /\ At(p, "posted")
    /\ LET at == work[job[p].cur].at IN
       \/ /\ at = "answered"
          /\ Become(p, [job[p] EXCEPT !.pc = "save_running", !.obj.docker = TRUE,
                                      !.obj.status = "running"])
       \/ /\ at \in {"refused", "lost"} \/ LinkFaults
          /\ Goto(p, "save_remote_failed")
    /\ UNCHANGED <<lock, db, dock, remote, ids, history>>

Working(c, at) == work[c] # None /\ work[c].at = at

WorkerCreate(c) ==
    /\ Working(c, "sent")
    /\ \/ Created(c, work[c].ctr) /\ work' = [work EXCEPT ![c].at = "created"]
       \/ NotCreated(work[c].ctr) /\ work' = [work EXCEPT ![c].at = "refused"]
    /\ UNCHANGED <<lock, db, workerDb, job, ids, history>>

WorkerStart(c) ==
    /\ Working(c, "created")
    /\ \/ Started(c, work[c].ctr) /\ work' = [work EXCEPT ![c].at = "started"]
       \/ NotStarted(work[c].ctr) /\ work' = [work EXCEPT ![c].at = "refused"]
    /\ UNCHANGED <<lock, db, workerDb, job, ids, history>>

\* The worker saves the record in its own database and answers.
WorkerSave(c) ==
    /\ Working(c, "started")
    /\ workerDb' = [workerDb EXCEPT ![c] =
                       [work[c].ctr EXCEPT !.docker = TRUE, !.status = "running"]]
    /\ work' = [work EXCEPT ![c].at = "answered"]
    /\ UNCHANGED <<lock, db, dock, job, ids, history>>

\* A worker's server dies and is restarted; its Docker containers stay.
WorkerCrash(n) ==
    LET hit(c) == /\ work[c] # None /\ work[c].ctr.node = n
                  /\ work[c].at \in {"sent", "created", "started"}
    IN /\ crashes < MaxCrashes /\ \E c \in Cid : hit(c)
       /\ work' = [c \in Cid |-> IF hit(c) THEN [work[c] EXCEPT !.at = "lost"]
                                           ELSE work[c]]
       /\ crashes' = crashes + 1
       /\ UNCHANGED <<lock, db, dock, workerDb, job, ids, cut>>

-----------------------------------------------------------------------------
(* updateDeploymentStatus, when every container was started: three storage  *)
(* calls.                                                                   *)

UpdateGet(p) ==
    /\ At(p, "schedule") /\ job[p].left = 0 /\ job[p].op = "create"
    /\ LET d == job[p].dep IN
       \/ deps[d] = None /\ Finish(p)
       \/ /\ deps[d] # None
          /\ Become(p, [job[p] EXCEPT !.pc = "count", !.mem = deps[d]])
          /\ UNCHANGED lock
    /\ UNCHANGED <<db, dock, remote, ids, history>>

StatusOf(replicas, running, failed) ==
    IF running = replicas THEN "running"
    ELSE IF failed > 0 /\ running = 0 THEN "failed"
    ELSE IF running > 0 THEN "running"
    ELSE "pending"

UpdateCount(p) ==
    /\ At(p, "count")
    /\ LET d == job[p].dep IN
       Become(p, [job[p] EXCEPT !.pc = "save_status", !.mem.status =
                    StatusOf(job[p].mem.replicas, Cardinality(RunningOf(d)),
                             Cardinality(FailedOf(d)))])
    /\ UNCHANGED <<lock, db, dock, remote, ids, history>>

UpdateSave(p) ==
    /\ At(p, "save_status")
    /\ deps' = [deps EXCEPT ![job[p].dep] = job[p].mem]
    /\ Finish(p)
    /\ UNCHANGED <<nodes, ctrs, dock, remote, ids, history>>

-----------------------------------------------------------------------------
(* DeleteDeployment                                                         *)

BeginDelete(p, d) ==
    /\ "delete" \in Requests
    /\ Ready(p) /\ deps[d] # None
    /\ Become(p, [Idle EXCEPT !.pc = "list", !.op = "delete", !.dep = d])
    /\ Enter(p)
    /\ UNCHANGED <<db, dock, remote, ids, history>>

Listed(S) == [c \in Cid |-> IF c \in S THEN ctrs[c] ELSE None]

\* Slip: only running containers are listed for deletion.
DeleteList_Running(p) ==
    /\ At(p, "list")
    /\ Become(p, [job[p] EXCEPT !.pc = "stop", !.list = Listed(RunningOf(job[p].dep))])
    /\ UNCHANGED <<lock, db, dock, remote, ids, history>>

DeleteList(p) ==
    /\ At(p, "list")
    /\ Become(p, [job[p] EXCEPT !.pc = "stop", !.list = Listed(CtrsOf(job[p].dep))])
    /\ UNCHANGED <<lock, db, dock, remote, ids, history>>

DeleteDeploymentRecord(p) ==
    /\ At(p, "stop") /\ job[p].op = "delete" /\ job[p].list = NoContainers
    /\ deps' = [deps EXCEPT ![job[p].dep] = None]
    /\ Finish(p)
    /\ UNCHANGED <<nodes, ctrs, dock, remote, ids, history>>

-----------------------------------------------------------------------------
(* stopContainer, on the record as it was listed, and DeleteContainer       *)

\* GetNode.  When the node is gone delete goes on to drop the record, while
\* scale gives up.  A container on another machine is not stopped at all.
StopContainer(p, c) ==
    /\ At(p, "stop") /\ job[p].list[c] # None
    /\ LET r == job[p].list[c]
           to(label) == Become(p, [job[p] EXCEPT !.pc = label, !.cur = c])
                        /\ UNCHANGED lock
       IN \/ r.node \in nodes /\ r.node = LocalNode /\ r.docker /\ to("docker_stop")
          \/ r.node \in nodes /\ ~(r.node = LocalNode /\ r.docker) /\ to("save_stopped")
          \/ r.node \notin nodes /\ job[p].op = "delete" /\ to("delete_record")
          \/ r.node \notin nodes /\ job[p].op = "scale" /\ Finish(p)
    /\ UNCHANGED <<db, dock, remote, ids, history>>

\* ContainerStop, then a forced ContainerRemove.  An error of either is only
\* printed.
DockerStop(p) ==
    /\ At(p, "docker_stop")
    /\ \/ dock[job[p].cur] # None /\ dock' = [dock EXCEPT ![job[p].cur].on = FALSE]
       \/ (DockerFaults \/ dock[job[p].cur] = None) /\ UNCHANGED dock
    /\ Goto(p, "docker_remove")
    /\ UNCHANGED <<lock, db, remote, ids, history>>

DockerRemove(p) ==
    /\ At(p, "docker_remove")
    /\ \/ dock' = [dock EXCEPT ![job[p].cur] = None]
       \/ DockerFaults /\ UNCHANGED dock
    /\ Goto(p, "save_stopped")
    /\ UNCHANGED <<lock, db, remote, ids, history>>

SaveStopped(p) ==
    /\ At(p, "save_stopped")
    /\ LET c == job[p].cur IN
       ctrs' = [ctrs EXCEPT ![c] = [job[p].list[c] EXCEPT !.status = "stopped"]]
    /\ Goto(p, "delete_record")
    /\ UNCHANGED <<lock, nodes, deps, dock, remote, ids, history>>

DeleteRecord(p) ==
    /\ At(p, "delete_record")
    /\ ctrs' = [ctrs EXCEPT ![job[p].cur] = None]
    /\ Become(p, [job[p] EXCEPT !.pc = "stop", !.cur = None,
                    !.list = [@ EXCEPT ![job[p].cur] = None]])
    /\ UNCHANGED <<lock, nodes, deps, dock, remote, ids, history>>

-----------------------------------------------------------------------------
(* ScaleDeployment.  Only the command line tool calls it, with the database *)
(* to itself.                                                               *)

\* GetDeployment and SaveDeployment.
BeginScale(d, replicas) ==
    /\ "scale" \in Requests
    /\ Ready(Cli) /\ deps[d] # None
    /\ drawn[d] + replicas <= PerDep
    /\ LET dep == [deps[d] EXCEPT !.replicas = replicas, !.status = "scaling"] IN
       /\ deps' = [deps EXCEPT ![d] = dep]
       /\ Become(Cli, [Idle EXCEPT !.pc = "count_running", !.op = "scale",
                                   !.dep = d, !.mem = dep])
    /\ Enter(Cli)
    /\ UNCHANGED <<nodes, ctrs, dock, remote, ids, history>>

\* Slip: no test for a scale down.
ScaleCount_UpOnly(p) ==
    /\ At(p, "count_running")
    /\ Become(p, [job[p] EXCEPT !.pc = "schedule", !.left =
                    job[p].mem.replicas - Cardinality(RunningOf(job[p].dep))])
    /\ UNCHANGED <<lock, db, dock, remote, ids, history>>

\* Slip: records that do not run are counted too.
ScaleCount_All(p) ==
    /\ At(p, "count_running")
    /\ LET there == CtrsOf(job[p].dep)
           more == job[p].mem.replicas - Cardinality(there)
       IN \/ /\ more >= 0
             /\ Become(p, [job[p] EXCEPT !.pc = "schedule", !.left = more])
          \/ \E S \in SUBSET there :
               /\ Cardinality(S) = -more
               /\ more < 0
               /\ Become(p, [job[p] EXCEPT !.pc = "stop", !.list = Listed(S)])
    /\ UNCHANGED <<lock, db, dock, remote, ids, history>>

\* The count of running containers and the choice of what to do; the records
\* to remove are the last of the running ones in the order of their UUIDs.
ScaleCount(p) ==
    /\ At(p, "count_running")
    /\ LET running == RunningOf(job[p].dep)
           more == job[p].mem.replicas - Cardinality(running)
       IN \/ /\ more >= 0
             /\ Become(p, [job[p] EXCEPT !.pc = "schedule", !.left = more])
          \/ \E S \in SUBSET running :
               /\ Cardinality(S) = -more
               /\ more < 0
               /\ Become(p, [job[p] EXCEPT !.pc = "stop", !.list = Listed(S)])
    /\ UNCHANGED <<lock, db, dock, remote, ids, history>>

ScaleSave(p) ==
    /\ job[p].op = "scale"
    /\ \/ At(p, "schedule") /\ job[p].left = 0
       \/ At(p, "stop") /\ job[p].list = NoContainers
    /\ deps' = [deps EXCEPT ![job[p].dep] = [job[p].mem EXCEPT !.status = "running"]]
    /\ Finish(p)
    /\ UNCHANGED <<nodes, ctrs, dock, remote, ids, history>>

-----------------------------------------------------------------------------
(* The life of the processes, and server remove.                            *)

ServerStart ==
    /\ lock = "free" /\ lock' = "server"
    /\ UNCHANGED <<db, dock, remote, job, ids, history>>

ServerStop ==
    /\ lock = "server" /\ \A p \in Handlers : At(p, "idle")
    /\ lock' = "free"
    /\ UNCHANGED <<db, dock, remote, job, ids, history>>

\* The process that has the database dies; the goroutines die with it.
Stopping(p) == job[p].pc \in {"docker_remove", "save_stopped"}
Crash ==
    /\ crashes < MaxCrashes /\ \E p \in Process : ~At(p, "idle")
    /\ crashes' = crashes + 1
    /\ cut' = cut \cup {job[p].cur : p \in {q \in Process : Stopping(q)}}
    /\ lock' = "free"
    /\ job' = [p \in Process |-> Idle]
    /\ UNCHANGED <<db, dock, remote, ids>>

\* server remove: the node record goes, with --force even when containers run.
ServerRemove(n, force) ==
    /\ "remove" \in Requests
    /\ Ready(Cli) /\ n \in nodes
    /\ force \/ \A c \in Cid : ctrs[c] # None
                    => ~(ctrs[c].node = n /\ ctrs[c].status = "running")
    /\ nodes' = nodes \ {n}
    /\ UNCHANGED <<lock, deps, ctrs, dock, remote, job, ids, history>>

-----------------------------------------------------------------------------
Init ==
    /\ lock = "free" /\ nodes = Node
    /\ deps = [d \in DepId |-> None] /\ ctrs = NoContainers
    /\ dock = [c \in Cid |-> None]
    /\ work = [c \in Cid |-> None] /\ workerDb = NoContainers
    /\ job = [p \in Process |-> Idle]
    /\ born = {} /\ drawn = [d \in DepId |-> 0]
    /\ crashes = 0 /\ cut = {}

Ask(p) ==
    \/ \E name \in Name, r \in 1 .. MaxReplicas, port \in Port, place \in Placement :
         BeginCreate(p, name, r, port, place)
    \/ \E d \in DepId : BeginDelete(p, d)
    \/ p = Cli /\ \E d \in DepId, r \in 0 .. MaxReplicas : BeginScale(d, r)
    \/ p = Cli /\ \E n \in Node, force \in BOOLEAN : ServerRemove(n, force)

\* The next step of an operation under way.
Step(p) ==
    \/ SaveDeployment(p) \/ Schedule(p) \/ SaveContainer(p) \/ Fail(p)
    \/ DockerCreate(p) \/ DockerStart(p) \/ Post(p) \/ Answer(p)
    \/ SaveRunning(p) \/ SaveFailed(p)
    \/ UpdateGet(p) \/ UpdateCount(p) \/ UpdateSave(p)
    \/ DeleteList(p) \/ (\E c \in Cid : StopContainer(p, c))
    \/ DockerStop(p) \/ DockerRemove(p) \/ SaveStopped(p) \/ DeleteRecord(p)
    \/ DeleteDeploymentRecord(p) \/ ScaleCount(p) \/ ScaleSave(p)

Worker(c) == WorkerCreate(c) \/ WorkerStart(c) \/ WorkerSave(c)

Next ==
    \/ \E p \in Process : Ask(p) \/ Step(p)
    \/ \E c \in Cid : Worker(c)
    \/ \E n \in Node \ {LocalNode} : WorkerCrash(n)
    \/ ServerStart \/ ServerStop \/ Crash

Spec == Init /\ [][Next]_vars

\* Goroutines, the tool and the workers keep running while their process
\* lives; nobody has to ask for anything.
Fairness ==
    /\ \A p \in Process : WF_vars(Step(p))
    /\ \A c \in Cid : WF_vars(Worker(c))
FairSpec == Spec /\ Fairness

-----------------------------------------------------------------------------
(* Properties.                                                              *)

\* Every variable keeps to its type.
TypeOK ==
    /\ lock \in {"free", "server", "cli"}
    /\ nodes \subseteq Node
    /\ deps \in [DepId -> Deployment \cup {None}]
    /\ ctrs \in [Cid -> Container \cup {None}]
    /\ dock \in [Cid -> DockerContainer \cup {None}]
    /\ work \in [Cid -> Call \cup {None}]
    /\ workerDb \in [Cid -> Container \cup {None}]
    /\ job \in [Process -> Job]
    /\ born \subseteq DepId
    /\ drawn \in [DepId -> 0 .. PerDep]
    /\ crashes \in 0 .. MaxCrashes
    /\ cut \subseteq Cid

\* "Check if deployment with same name already exists" (deployment_manager.go,
\* CreateDeployment): no two deployments have one name.  True when requests
\* come one at a time, the lock of the database file keeping server and tool
\* apart; the look-up and the save are two transactions.
UniqueNames ==
    \A d, e \in DepId : deps[d] # None /\ deps[e] # None /\ d # e
        => deps[d].name # deps[e].name

\* A record that says "running" is backed by a Docker container that runs on
\* the record's node, but while somebody is in the middle of stopping it, or
\* once a crash has cut such a stop short (startContainer, stopContainer).
RunningIsReal ==
    \A c \in Cid : ctrs[c] # None /\ ctrs[c].status = "running" =>
        \/ dock[c] # None /\ dock[c].on /\ dock[c].node = ctrs[c].node
        \/ \E p \in Process : Stopping(p) /\ job[p].cur = c
        \/ c \in cut

\* Docker makes a container only for a record that is there (scheduleContainers
\* saves before it starts): as long as nothing is deleted, whoever died or lost
\* an answer, no container runs that the database does not know.
StartedIsRecorded ==
    [][\A c \in Cid : dock[c] = None /\ dock'[c] # None => ctrs[c] # None]_vars

\* Outside a scale that is under way, or was given up, no deployment has more
\* running records than replicas (ScaleDeployment, scheduleContainers).
WithinReplicas ==
    \A d \in DepId : deps[d] # None /\ deps[d].status # "scaling"
        => Cardinality(RunningOf(d)) <= deps[d].replicas

\* A deployment whose record says "running" is at least "partially running but
\* still operational" (updateDeploymentStatus) as long as none is deleted.
RunningHasContainers ==
    \A d \in DepId : deps[d] # None /\ deps[d].status = "running"
        => RunningOf(d) # {} \/ deps[d].replicas = 0

\* When a scale reports success the deployment has exactly the replicas that
\* were asked for (ScaleDeployment: "running" is saved only at its end).
ScaleExact ==
    [][\A d \in DepId : /\ deps[d] # None /\ deps[d].status = "scaling"
                        /\ deps'[d] # None /\ deps'[d].status = "running"
          => Cardinality(RunningOf(d)') = deps'[d].replicas]_vars

\* "Delete a deployment and all its containers": no container record outlives
\* the record of its deployment (DeleteDeployment), one request at a time.
DeleteLeavesNothing ==
    [][\A d \in DepId : deps[d] # None /\ deps'[d] = None => CtrsOf(d)' = {}]_vars

\* A deployment that was deleted stays deleted ("deleted successfully",
\* cmd/dockdockgo/deploy.go): only the save of a new deployment makes a record.
DeleteIsFinal ==
    [][\A d \in DepId : deps[d] = None /\ deps'[d] # None
          => \E p \in Process : At(p, "save_deployment") /\ job[p].dep = d]_vars

\* "Delete a deployment and all its containers" (cmd/dockdockgo/deploy.go): when
\* the record goes, no Docker container made for the deployment is left.
DeleteStopsContainers ==
    [][\A d \in DepId : deps[d] # None /\ deps'[d] = None
          => \A c \in Cid : Owner(c) = d => dock'[c] = None]_vars

\* "Scale a deployment to the specified number of replicas"
\* (cmd/dockdockgo/deploy.go): with every machine and daemon in order, a scale
\* does not fail.
ScaleDoesNotFail == ~(At(Cli, "fail") /\ job[Cli].op = "scale")

\* Every operation comes to an end, of itself or by the death of its process.
Terminates == \A p \in Process : ~At(p, "idle") ~> At(p, "idle")

\* A new deployment does not stay "pending": its creator reports it running or
\* failed, unless it is deleted or a process dies first (CreateDeployment).
PendingResolves ==
    \A d \in DepId : deps[d] # None /\ deps[d].status = "pending"
        ~> \/ deps[d] # None /\ deps[d].status \in {"running", "failed"}
           \/ crashes > 0
================================================================================
