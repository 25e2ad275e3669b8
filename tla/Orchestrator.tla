------------------------------- MODULE Orchestrator -------------------------------
(***************************************************************************)
(* internal/orchestrator and internal/ssh: DeployContainer as the run and  *)
(* compose commands call it, on the user's own machine or over ssh on a    *)
(* list of servers.  These commands open no database: what they have done  *)
(* is known to the Docker daemons only.                                    *)
(*                                                                         *)
(* A command sent over ssh is given up after 60 seconds, when its session  *)
(* breaks or when the tool dies; the server may go on with it all the same.*)
(***************************************************************************)
EXTENDS Integers, FiniteSets, Sequences

CONSTANTS
    Run,          \* runs of the tool, each of them one command
    Host,         \* machines
    Local,        \* the machine the tool runs on
    Name,         \* container names, without the index of the replica
    MaxReplicas,  \* bound: replicas asked for
    Faults,       \* TRUE if ssh, a daemon or an installation may fail
    None          \* no container, no command

\* A port mapping is absent, "host:container", "container" alone or
\* "address:host:container"; only the host port matters.
Port == [form : {"none", "pair", "container", "address"}, host : Nat]
Config == [name : Name, image : BOOLEAN, servers : Seq(Host), replicas : 0 .. MaxReplicas,
           port : Port, install : BOOLEAN]

\* A container name on a machine: index 0 when there is one replica.
Slot == Host \X (Name \X (0 .. MaxReplicas))
\* by: the run, the service in its plan and the replica it was made for.
DockerContainer == [port : Nat, on : BOOLEAN, by : Run \X Nat \X Nat]
Command == [kind : {"install", "run"}, at : {"sent", "created", "done", "refused"},
            host : Host, cur : Nat, k : Nat]

ASSUME OrchestratorAssumption ==
    /\ Local \in Host
    /\ MaxReplicas \in Nat /\ Faults \in BOOLEAN
    /\ None \notin DockerContainer /\ None \notin Command

VARIABLES
    docker,  \* machines with Docker installed and its daemon running
    dock,    \* Docker containers, by machine and name
    touched, \* history: containers that a user stopped or removed
    work,    \* the command each run has last sent over ssh
    job      \* what each run is doing

vars == <<docker, dock, touched, work, job>>
machines == <<docker, dock, touched>>

Label == {"new", "ping", "local", "local_start", "connect", "install", "deploy",
          "wait", "ok", "failed"}
Job == [pc : Label,
        plan : Seq(Config),  \* what to deploy, in this order
        cur : Nat,           \* which of it
        reached : Nat,       \* servers connected to
        srv : Nat,           \* the server whose share is being deployed,
        left : Nat,          \* what is left of that share,
        done : Nat]          \* and the replicas of cur that run

New == [pc |-> "new", plan |-> <<>>, cur |-> 0, reached |-> 0, srv |-> 0, left |-> 0,
        done |-> 0]

At(r, label) == job[r].pc = label
Become(r, j) == job' = [job EXCEPT ![r] = j]
Goto(r, label) == job' = [job EXCEPT ![r].pc = label]
Now(r) == job[r].plan[job[r].cur]
Active(r) == job[r].pc \notin {"new", "ok", "failed"}

\* DeployContainer: locally when no server is named.  Over the plan: what
\* comes first fails first, and nothing is left to do at its end.
Turn(plan, i) ==
    [New EXCEPT !.plan = plan, !.cur = i,
                !.pc = IF i > Len(plan) THEN "ok"
                       ELSE IF plan[i].servers = <<>> THEN "ping" ELSE "connect"]

Fail(r) == Goto(r, "failed")

-----------------------------------------------------------------------------
(* Replicas: their names, host ports and servers.                           *)

ContainerName(cfg, k) == <<cfg.name, IF cfg.replicas > 1 THEN k + 1 ELSE 0>>

\* Slip: the ports count down.
HostPort_Down(cfg, k) ==
    CASE cfg.port.form = "pair" -> cfg.port.host - k
      [] cfg.port.form = "address" -> cfg.port.host
      [] OTHER -> 0

\* adjustPortsForReplica: k is counted over all servers.
HostPort(cfg, k) ==
    CASE cfg.port.form = "pair" -> cfg.port.host + k
      [] cfg.port.form = "address" -> cfg.port.host
      [] OTHER -> 0

\* The replicas of the s-th server.
Share(cfg, s) ==
    LET n == Len(cfg.servers)
    IN (cfg.replicas \div n) + (IF s <= cfg.replicas % n THEN 1 ELSE 0)

-----------------------------------------------------------------------------
(* The Docker daemons.                                                      *)

\* The container at s runs, or its host port is free on its machine.
CanStart(s) ==
    /\ dock[s] # None
    /\ \/ dock[s].on \/ dock[s].port = 0
       \/ \A t \in Slot : dock[t] # None /\ t[1] = s[1] /\ dock[t].on
                            => dock[t].port # dock[s].port

SlotOf(h, cfg, k) == <<h, ContainerName(cfg, k)>>

Created(h, cfg, by) ==
    /\ h \in docker /\ cfg.image
    /\ dock[SlotOf(h, cfg, by[3])] = None
    /\ dock' = [dock EXCEPT ![SlotOf(h, cfg, by[3])] =
                   [port |-> HostPort(cfg, by[3]), on |-> FALSE, by |-> by]]
NotCreated(h, cfg, k) ==
    /\ Faults \/ h \notin docker \/ ~cfg.image \/ dock[SlotOf(h, cfg, k)] # None
    /\ UNCHANGED dock

\* When the host port is taken the created container stays behind.  A container
\* is started by its ID: another one of that name is not touched.
Owns(h, cfg, by) ==
    LET there == dock[SlotOf(h, cfg, by[3])] IN there # None /\ there.by = by
Started(h, cfg, by) ==
    /\ Owns(h, cfg, by) /\ CanStart(SlotOf(h, cfg, by[3]))
    /\ dock' = [dock EXCEPT ![SlotOf(h, cfg, by[3])].on = TRUE]
NotStarted(h, cfg, by) ==
    /\ Faults \/ ~Owns(h, cfg, by) \/ ~CanStart(SlotOf(h, cfg, by[3]))
    /\ UNCHANGED dock

-----------------------------------------------------------------------------
(* deployLocally                                                            *)

\* The daemon answers; that the image cannot be pulled is only a warning.
Ping(r) ==
    /\ At(r, "ping")
    /\ \/ Local \in docker /\ Goto(r, "local")
       \/ (Faults \/ Local \notin docker) /\ Fail(r)
    /\ UNCHANGED <<machines, work>>

\* RunContainer: parsePortMappings knows "host:container" only.
LocalCreate(r) ==
    /\ At(r, "local") /\ job[r].done < Now(r).replicas
    /\ \/ /\ Now(r).port.form \in {"none", "pair"}
          /\ Created(Local, Now(r), <<r, job[r].cur, job[r].done>>)
          /\ Goto(r, "local_start")
       \/ NotCreated(Local, Now(r), job[r].done) /\ Fail(r)
       \/ Now(r).port.form \notin {"none", "pair"} /\ Fail(r) /\ UNCHANGED dock
    /\ UNCHANGED <<docker, touched, work>>

LocalStart(r) ==
    /\ At(r, "local_start")
    /\ LET by == <<r, job[r].cur, job[r].done>> IN
       \/ /\ Started(Local, Now(r), by)
          /\ Become(r, [job[r] EXCEPT !.pc = "local", !.done = @ + 1])
       \/ NotStarted(Local, Now(r), by) /\ Fail(r)
    /\ UNCHANGED <<docker, touched, work>>

-----------------------------------------------------------------------------
(* deployToRemoteServers: first all the servers, then the replicas.         *)

\* Slip: replicas are deployed as soon as the first server is there.
ReachedServer_First(j, n) ==
    [j EXCEPT !.pc = "deploy", !.reached = n, !.srv = 1, !.left = Share(j.plan[j.cur], 1)]

\* The state once server number n of the list is ready.
ReachedServer(j, n) ==
    LET cfg == j.plan[j.cur]
    IN IF n < Len(cfg.servers)
       THEN [j EXCEPT !.pc = "connect", !.reached = n]
       ELSE [j EXCEPT !.pc = "deploy", !.reached = n, !.srv = 1, !.left = Share(cfg, 1)]

\* connectToServer: Validate, and the look for Docker, whose failure counts as
\* "not installed".
Connect(r) ==
    /\ At(r, "connect")
    /\ LET h == Now(r).servers[job[r].reached + 1] IN
       \/ h \in docker /\ Become(r, ReachedServer(job[r], job[r].reached + 1))
       \/ (Faults \/ h \notin docker) /\ Now(r).install /\ Goto(r, "install")
       \/ (Faults \/ h \notin docker) /\ Fail(r)
    /\ UNCHANGED <<machines, work>>

Send(r, kind, h) ==
    work' = [work EXCEPT ![r] = [kind |-> kind, at |-> "sent", host |-> h,
                                 cur |-> job[r].cur, k |-> job[r].done]]

\* InstallDocker
Install(r) ==
    /\ At(r, "install")
    /\ \/ Send(r, "install", Now(r).servers[job[r].reached + 1]) /\ Goto(r, "wait")
       \/ Faults /\ Fail(r) /\ UNCHANGED work
    /\ UNCHANGED machines

\* Slip: every replica goes to the server that was reached first.
Deploy_First(r) ==
    /\ At(r, "deploy") /\ job[r].left > 0
    /\ \/ Send(r, "run", Now(r).servers[1]) /\ Goto(r, "wait")
       \/ Faults /\ Fail(r) /\ UNCHANGED work
    /\ UNCHANGED machines

\* deployToServer; that the image cannot be pulled is only a warning.
Deploy(r) ==
    /\ At(r, "deploy") /\ job[r].left > 0
    /\ \/ Send(r, "run", Now(r).servers[job[r].srv]) /\ Goto(r, "wait")
       \/ Faults /\ Fail(r) /\ UNCHANGED work
    /\ UNCHANGED machines

NextServer(r) ==
    /\ At(r, "deploy") /\ job[r].left = 0 /\ job[r].srv < Len(Now(r).servers)
    /\ Become(r, [job[r] EXCEPT !.srv = @ + 1, !.left = Share(Now(r), job[r].srv + 1)])
    /\ UNCHANGED <<machines, work>>

\* Slip: a command that failed is taken for one that went well.
Returned_NoError(r) ==
    /\ At(r, "wait") /\ work[r].at \in {"done", "refused"}
    /\ IF work[r].kind = "install"
       THEN Become(r, ReachedServer(job[r], job[r].reached + 1))
       ELSE Become(r, [job[r] EXCEPT !.pc = "deploy", !.left = @ - 1, !.done = @ + 1])
    /\ UNCHANGED <<machines, work>>

\* Execute returns; after an installation the server is asked once more.
Returned(r) ==
    /\ At(r, "wait")
    /\ \/ /\ work[r].at = "done" /\ work[r].kind = "install"
          /\ \/ Become(r, ReachedServer(job[r], job[r].reached + 1))
             \/ Faults /\ Fail(r)
       \/ /\ work[r].at = "done" /\ work[r].kind = "run"
          /\ Become(r, [job[r] EXCEPT !.pc = "deploy", !.left = @ - 1, !.done = @ + 1])
       \/ work[r].at = "refused" /\ Fail(r)
    /\ UNCHANGED <<machines, work>>

\* Slip: the tool waits for the server as long as it takes.
TimedOut_Never(r) ==
    /\ At(r, "wait") /\ work[r].at = "refused" /\ Fail(r)
    /\ UNCHANGED <<machines, work>>

\* 60 seconds without an end, or a session that broke.
TimedOut(r) ==
    /\ At(r, "wait") /\ work[r].at \notin {"done", "refused"} /\ Fail(r)
    /\ UNCHANGED <<machines, work>>

ServiceDone(r) ==
    /\ \/ At(r, "local") /\ job[r].done >= Now(r).replicas
       \/ At(r, "deploy") /\ job[r].left = 0 /\ job[r].srv = Len(Now(r).servers)
    /\ Become(r, Turn(job[r].plan, job[r].cur + 1))
    /\ UNCHANGED <<machines, work>>

-----------------------------------------------------------------------------
(* The servers, with the command of a run that may long have ended.         *)

Working(r, kind, at) == work[r] # None /\ work[r].kind = kind /\ work[r].at = at
Report(r, at) == work' = [work EXCEPT ![r].at = at]
Ordered(r) == job[r].plan[work[r].cur]

ServerInstall(r) ==
    /\ Working(r, "install", "sent")
    /\ \/ docker' = docker \cup {work[r].host} /\ Report(r, "done")
       \/ Faults /\ Report(r, "refused") /\ UNCHANGED docker
    /\ UNCHANGED <<dock, touched, job>>

\* docker run: create, then start.
ServerCreate(r) ==
    /\ Working(r, "run", "sent")
    /\ LET h == work[r].host
           by == <<r, work[r].cur, work[r].k>>
       IN \/ Created(h, Ordered(r), by) /\ Report(r, "created")
          \/ NotCreated(h, Ordered(r), by[3]) /\ Report(r, "refused")
    /\ UNCHANGED <<docker, touched, job>>

ServerStart(r) ==
    /\ Working(r, "run", "created")
    /\ LET by == <<r, work[r].cur, work[r].k>> IN
       \/ Started(work[r].host, Ordered(r), by) /\ Report(r, "done")
       \/ NotStarted(work[r].host, Ordered(r), by) /\ Report(r, "refused")
    /\ UNCHANGED <<docker, touched, job>>

\* The user interrupts the tool, or it dies.
Interrupt(r) == Active(r) /\ Fail(r) /\ UNCHANGED <<machines, work>>

-----------------------------------------------------------------------------
(* stop, rm and restart, on the user's own machine only.                    *)

Touch(s) == touched' = touched \cup {dock[s].by}

StopLocal(s) ==
    /\ s[1] = Local /\ Local \in docker /\ dock[s] # None
    /\ dock' = [dock EXCEPT ![s].on = FALSE] /\ Touch(s)
    /\ UNCHANGED <<docker, work, job>>

RemoveLocal(s, force) ==
    /\ s[1] = Local /\ Local \in docker /\ dock[s] # None
    /\ force \/ ~dock[s].on
    /\ dock' = [dock EXCEPT ![s] = None] /\ Touch(s)
    /\ UNCHANGED <<docker, work, job>>

\* A container that runs is stopped first, so that its own port is free.
RestartLocal(s) ==
    /\ s[1] = Local /\ Local \in docker /\ dock[s] # None
    /\ dock' = [dock EXCEPT ![s].on = CanStart(s)]
    /\ UNCHANGED <<docker, touched, work, job>>

-----------------------------------------------------------------------------
Init ==
    /\ docker \in SUBSET Host
    /\ dock = [s \in Slot |-> None]
    /\ touched = {}
    /\ work = [r \in Run |-> None]
    /\ job = [r \in Run |-> New]

\* dockdockgo run
BeginRun(r, cfg) ==
    /\ At(r, "new") /\ Become(r, Turn(<<cfg>>, 1))
    /\ UNCHANGED <<machines, work>>

Step(r) ==
    \/ Ping(r) \/ LocalCreate(r) \/ LocalStart(r)
    \/ Connect(r) \/ Install(r) \/ Deploy(r) \/ NextServer(r)
    \/ Returned(r) \/ TimedOut(r) \/ ServiceDone(r)

Server(r) == ServerInstall(r) \/ ServerCreate(r) \/ ServerStart(r)

=================================================================================
