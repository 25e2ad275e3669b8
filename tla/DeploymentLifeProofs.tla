-------------------------- MODULE DeploymentLifeProofs --------------------------
(***************************************************************************)
(* DeploymentManager implements ContainerLife, for any number of           *)
(* goroutines, deployments, containers and machines and with every fault   *)
(* and crash: ComingOK is inductive on top of IInv, and under both each    *)
(* step moves every container along its life or leaves it alone.           *)
(***************************************************************************)
EXTENDS DeploymentManagerLife, DeploymentManagerProofs

\* What is shown of each step.
LivesOn == ComingOK' /\ \A c \in Cid : Life!LifeStep(c)

-----------------------------------------------------------------------------
(* The life of a container, read off the state.                             *)

\* The stage of life by the Docker container, or by who may still make it.
LEMMA Stage ==
  ASSUME TypeOK, NEW c \in Cid
  PROVE  /\ dock[c] # None /\ dock[c].on => LifeOf(c) = "on"
         /\ dock[c] # None /\ ~dock[c].on => LifeOf(c) = "still"
         /\ dock[c] = None /\ MayCome(c) => LifeOf(c) = "coming"
         /\ dock[c] = None /\ ~MayCome(c) /\ c[2] <= drawn[c[1]] => LifeOf(c) = "over"
         /\ dock[c] = None /\ ~MayCome(c) /\ ~(c[2] <= drawn[c[1]]) => LifeOf(c) = "unborn"
<1>1. c[1] \in DepId /\ c[2] \in Int /\ drawn[c[1]] \in Int
  BY ConstantAssumption DEF Cid, TypeOK
<1>2. c[2] > drawn[c[1]] <=> ~(c[2] <= drawn[c[1]])
  BY <1>1
<1> QED BY <1>2 DEF LifeOf

\* The same after the step.
LEMMA StageAfter ==
  ASSUME TypeOK', NEW c \in Cid
  PROVE  /\ dock'[c] # None /\ dock'[c].on => LifeOf(c)' = "on"
         /\ dock'[c] # None /\ ~dock'[c].on => LifeOf(c)' = "still"
         /\ dock'[c] = None /\ MayCome(c)' => LifeOf(c)' = "coming"
         /\ dock'[c] = None /\ ~MayCome(c)' /\ c[2] <= drawn'[c[1]] => LifeOf(c)' = "over"
         /\ dock'[c] = None /\ ~MayCome(c)' /\ ~(c[2] <= drawn'[c[1]]) => LifeOf(c)' = "unborn"
<1>1. c[1] \in DepId /\ c[2] \in Int /\ drawn'[c[1]] \in Int
  BY ConstantAssumption DEF Cid, TypeOK
<1>2. c[2] > drawn'[c[1]] <=> ~(c[2] <= drawn'[c[1]])
  BY <1>1
<1> QED BY <1>2 DEF LifeOf

\* The steps of ContainerLife, said of the deployment manager.
LEMMA StepsOfLife ==
  ASSUME NEW c \in Cid,
         \/ /\ LifeOf(c)' = LifeOf(c)
            /\ \/ (Claimed(c)' <=> Claimed(c)) /\ (Doomed(c)' <=> Doomed(c))
               \/ LifeOf(c) = "on" /\ Claimed(c)' /\ (Doomed(c)' <=> Doomed(c))
               \/ LifeOf(c) = "on" /\ ~Doomed(c)' /\ (Claimed(c)' <=> Claimed(c))
               \/ Doomed(c)' /\ (Claimed(c)' <=> Claimed(c))
               \/ ~Claimed(c)' /\ (Doomed(c)' => Doomed(c))
         \/ /\ (Claimed(c)' <=> Claimed(c)) /\ (Doomed(c)' <=> Doomed(c))
            /\ \/ LifeOf(c) = "unborn" /\ LifeOf(c)' = "coming"
               \/ LifeOf(c) = "coming" /\ LifeOf(c)' = "still"
               \/ LifeOf(c) = "coming" /\ LifeOf(c)' = "over"
               \/ LifeOf(c) = "still" /\ LifeOf(c)' = "on" /\ ~Claimed(c)
               \/ LifeOf(c) = "on" /\ LifeOf(c)' = "still" /\ Doomed(c)
               \/ LifeOf(c) \in {"still", "on"} /\ LifeOf(c)' = "over" /\ Doomed(c)
  PROVE  Life!LifeStep(c)
<1>1. Claimed(c) \in BOOLEAN /\ Doomed(c) \in BOOLEAN
  BY DEF Claimed, Doomed
<1>2. Claimed(c)' \in BOOLEAN /\ Doomed(c)' \in BOOLEAN
  BY DEF Claimed, Doomed
<1> QED BY <1>1, <1>2
     DEF Life!LifeStep, Life!Keep, Life!Draw, Life!Make, Life!GiveUp, Life!Start,
         Life!TakeDown, Life!Claim, Life!Doom, Life!Unclaim, Life!Spare, Life!Lives

\* Whoever may make a container was already about to, and nobody else has.
LEMMA StillToCome ==
  ASSUME ComingOK,
         \A q \in Process, c \in Cid : Brings(q, c)'
            => Brings(q, c) /\ dock'[c] = dock[c] /\ work'[c] = work[c],
         \A c \in Cid : Working(c, "sent")' => Working(c, "sent") /\ dock'[c] = dock[c]
  PROVE  ComingOK'
  BY DEF ComingOK

\* A container that the step of process p does not concern.
LEMMA Untouched ==
  ASSUME TypeOK, TypeOK', NEW c \in Cid, NEW p \in Process,
         \A q \in Process : q # p => job'[q] = job[q],
         Brings(p, c)' <=> Brings(p, c), TakesDown(p, c)' <=> TakesDown(p, c),
         dock'[c] = dock[c], work'[c] = work[c], ctrs'[c] = ctrs[c],
         c[2] <= drawn'[c[1]] <=> c[2] <= drawn[c[1]], cut' = cut
  PROVE  Life!LifeStep(c)
<1>1. \A q \in Process : q # p
        => (Brings(q, c)' <=> Brings(q, c)) /\ (TakesDown(q, c)' <=> TakesDown(q, c))
  BY DEF Brings, TakesDown
<1>2. MayCome(c)' <=> MayCome(c)
  BY <1>1 DEF MayCome, Working
<1>3. (Claimed(c)' <=> Claimed(c)) /\ (Doomed(c)' <=> Doomed(c))
  BY <1>1 DEF Claimed, Doomed
<1>4. LifeOf(c)' = LifeOf(c)
  BY <1>2, Stage, StageAfter
<1> QED BY <1>3, <1>4, StepsOfLife

\* A step of a process that neither brings up nor takes down a container.
LEMMA QuietLife ==
  ASSUME IInv, IInv', ComingOK, NEW p \in Process,
         \A q \in Process : q # p => job'[q] = job[q],
         job[p].pc \notin Bringing \cup TakingDown,
         job'[p].pc \notin Bringing \cup TakingDown,
         UNCHANGED <<ctrs, dock, work, drawn, cut>>
  PROVE  LivesOn
<1>1. ASSUME NEW c \in Cid
      PROVE  ~Brings(p, c) /\ ~Brings(p, c)' /\ ~TakesDown(p, c) /\ ~TakesDown(p, c)'
  BY DEF Brings, TakesDown
<1>2. ComingOK'
  BY <1>1, StillToCome DEF Brings, Working
<1>3. ASSUME NEW c \in Cid PROVE Life!LifeStep(c)
  BY <1>1, Untouched DEF IInv
<1> QED BY <1>2, <1>3 DEF LivesOn

\* A step of process p that concerns one container.
LEMMA OneContainer ==
  ASSUME IInv, IInv', NEW p \in Process, NEW c \in Cid,
         \A q \in Process : q # p => job'[q] = job[q],
         job[p].cur = c \/ job[p].pc \notin Bringing \cup TakingDown,
         job'[p].cur = c \/ job'[p].pc \notin Bringing \cup TakingDown,
         \A x \in Cid : x # c => /\ dock'[x] = dock[x] /\ work'[x] = work[x]
                                 /\ ctrs'[x] = ctrs[x],
         UNCHANGED <<drawn, cut>>, Life!LifeStep(c)
  PROVE  \A x \in Cid : Life!LifeStep(x)
<1>1. ASSUME NEW x \in Cid, x # c PROVE Life!LifeStep(x)
  <2>1. ~Brings(p, x) /\ ~Brings(p, x)' /\ ~TakesDown(p, x) /\ ~TakesDown(p, x)'
    BY <1>1 DEF Brings, TakesDown
  <2> QED BY <1>1, <2>1, Untouched DEF IInv
<1> QED BY <1>1

-----------------------------------------------------------------------------
(* The quiet steps.                                                         *)

\* Process p goes to label l, the others do nothing.
MovesTo(p, l) == job'[p].pc = l /\ \A q \in Process : q # p => job'[q] = job[q]

\* Goto and Become move one process.
LEMMA Moves ==
  ASSUME TypeOK, NEW p \in Process
  PROVE  /\ \A l \in Label : Goto(p, l) => MovesTo(p, l)
         /\ \A j \in Job : Become(p, j) => MovesTo(p, j.pc)
         /\ job[p] \in Job /\ Idle \in Job
<1>1. job[p] \in Job /\ Idle \in Job /\ job \in [Process -> Job]
  BY IdleIsJob DEF TypeOK
<1>2. ASSUME NEW l \in Label, Goto(p, l) PROVE MovesTo(p, l)
  BY <1>1, <1>2, GotoFrame DEF MovesTo
<1>3. ASSUME NEW j \in Job, Become(p, j) PROVE MovesTo(p, j.pc)
  BY <1>1, <1>3, BecomeFrame DEF MovesTo
<1> QED BY <1>1, <1>2, <1>3

\* An operation that ends in a state where it holds no container.
LEMMA FinishLife ==
  ASSUME IInv, IInv', ComingOK, NEW p \in Process, Finish(p),
         job[p].pc \notin Bringing \cup TakingDown,
         UNCHANGED <<ctrs, dock, work, drawn, cut>>
  PROVE  LivesOn
<1>1. MovesTo(p, "idle")
  BY Moves DEF Finish, IInv, Idle
<1> QED BY <1>1, QuietLife DEF Bringing, TakingDown, MovesTo

\* The requests of users.
LEMMA AskLife ==
  ASSUME IInv, IInv', ComingOK, NEW p \in Process, Ask(p)
  PROVE  LivesOn
<1>1. ASSUME NEW name \in Name, NEW r \in 1 .. MaxReplicas, NEW port \in Port,
             NEW place \in Placement, BeginCreate(p, name, r, port, place)
      PROVE  LivesOn
  <2>1. MovesTo(p, "save_deployment")
    BY <1>1 DEF BeginCreate, Become, MovesTo, IInv, TypeOK, Idle
  <2>2. UNCHANGED <<ctrs, dock, work, drawn, cut>> /\ job[p].pc = "idle"
    BY <1>1 DEF BeginCreate, Ready, At, db, remote, history
  <2> QED BY <2>1, <2>2, QuietLife DEF MovesTo, Bringing, TakingDown
<1>2. ASSUME NEW d \in DepId, BeginDelete(p, d) PROVE LivesOn
  <2>1. MovesTo(p, "list")
    BY <1>2 DEF BeginDelete, Become, MovesTo, IInv, TypeOK, Idle
  <2>2. UNCHANGED <<ctrs, dock, work, drawn, cut>> /\ job[p].pc = "idle"
    BY <1>2 DEF BeginDelete, Ready, At, db, remote, ids, history
  <2> QED BY <2>1, <2>2, QuietLife DEF MovesTo, Bringing, TakingDown
<1>3. ASSUME NEW d \in DepId, NEW r \in 0 .. MaxReplicas, p = Cli, BeginScale(d, r)
      PROVE  LivesOn
  <2>1. MovesTo(p, "count_running")
    BY <1>3 DEF BeginScale, Become, MovesTo, IInv, TypeOK, Idle
  <2>2. UNCHANGED <<ctrs, dock, work, drawn, cut>> /\ job[p].pc = "idle"
    BY <1>3 DEF BeginScale, Ready, At, remote, ids, history
  <2> QED BY <2>1, <2>2, QuietLife DEF MovesTo, Bringing, TakingDown
<1>4. ASSUME NEW n \in Node, NEW force \in BOOLEAN, p = Cli, ServerRemove(n, force)
      PROVE  LivesOn
  <2>1. UNCHANGED <<ctrs, dock, work, drawn, cut, job>> /\ job[p].pc = "idle"
    BY <1>4 DEF ServerRemove, Ready, At, remote, ids, history
  <2> QED BY <2>1, QuietLife DEF Bringing, TakingDown
<1> QED BY <1>1, <1>2, <1>3, <1>4 DEF Ask

\* The steps that only read, count, choose or save a deployment record.
LEMMA ReadLife ==
  ASSUME IInv, IInv', ComingOK, NEW p \in Process,
         \/ SaveDeployment(p) \/ Fail(p) \/ Answer(p)
         \/ UpdateGet(p) \/ UpdateCount(p) \/ UpdateSave(p)
         \/ DeleteList(p) \/ DeleteDeploymentRecord(p) \/ ScaleCount(p) \/ ScaleSave(p)
  PROVE  LivesOn
<1>1. UNCHANGED <<ctrs, dock, work, drawn, cut>>
  BY DEF SaveDeployment, Fail, Answer, UpdateGet, UpdateCount, UpdateSave, DeleteList,
         DeleteDeploymentRecord, ScaleCount, ScaleSave, db, remote, ids, history
<1>2. job[p].pc \notin Bringing \cup TakingDown
  BY DEF SaveDeployment, Fail, Answer, UpdateGet, UpdateCount, UpdateSave, DeleteList,
         DeleteDeploymentRecord, ScaleCount, ScaleSave, At, Bringing, TakingDown
<1>3. CASE Finish(p)
  BY <1>1, <1>2, <1>3, FinishLife
<1>4. CASE ~Finish(p)
  <2>1. job[p] \in Job
    BY Moves DEF IInv
  <2>2. job \in [Process -> Job]
    BY DEF IInv, TypeOK
  <2>3. CASE SaveDeployment(p)
    <3>1. MovesTo(p, "schedule")
      BY <2>3, Moves DEF SaveDeployment, IInv, Label
    <3> QED BY <1>1, <1>2, <3>1, QuietLife DEF MovesTo, Bringing, TakingDown
  <2>4. CASE Answer(p)
    <3>1. MovesTo(p, "save_running") \/ MovesTo(p, "save_remote_failed")
      BY <2>1, <2>2, <2>4 DEF Answer, Goto, Become, MovesTo, Job
    <3> QED BY <1>1, <1>2, <3>1, QuietLife DEF MovesTo, Bringing, TakingDown
  <2>5. CASE UpdateGet(p) \/ UpdateCount(p)
    <3>1. MovesTo(p, "count") \/ MovesTo(p, "save_status")
      BY <1>4, <2>1, <2>2, <2>5 DEF UpdateGet, UpdateCount, Become, MovesTo, Job
    <3> QED BY <1>1, <1>2, <3>1, QuietLife DEF MovesTo, Bringing, TakingDown
  <2>6. CASE DeleteList(p) \/ ScaleCount(p)
    <3>1. ASSUME NEW L, Become(p, [job[p] EXCEPT !.pc = "stop", !.list = L])
          PROVE  MovesTo(p, "stop")
      BY <2>1, <2>2, <3>1 DEF Become, MovesTo, Job
    <3>2. ASSUME NEW m, Become(p, [job[p] EXCEPT !.pc = "schedule", !.left = m])
          PROVE  MovesTo(p, "schedule")
      BY <2>1, <2>2, <3>2 DEF Become, MovesTo, Job
    <3>3. MovesTo(p, "stop") \/ MovesTo(p, "schedule")
      BY <2>6, <3>1, <3>2 DEF DeleteList, ScaleCount
    <3> QED BY <1>1, <1>2, <3>3, QuietLife DEF MovesTo, Bringing, TakingDown
  <2> QED BY <1>4, <2>3, <2>4, <2>5, <2>6
       DEF Fail, UpdateSave, DeleteDeploymentRecord, ScaleSave
<1> QED BY <1>3, <1>4

-----------------------------------------------------------------------------
(* Bringing a container up.                                                 *)

\* Facts on the container a process is bringing up: it is drawn, nobody else
\* brings it up, and no record says that it runs.
LEMMA BroughtUp ==
  ASSUME IInv, NEW p \in Process, job[p].pc \in Starting
  PROVE  /\ job[p].cur \in Cid /\ job[p].obj \in Container
         /\ job[p].cur[2] <= drawn[job[p].cur[1]]
         /\ ~Claimed(job[p].cur)
         /\ \A q \in Process : q # p => ~Brings(q, job[p].cur)
<1> DEFINE c == job[p].cur
<1>1. c \in Cid /\ job[p].obj \in Container /\ Starts(p, c)
  BY DEF IInv, JobOK, Starts
<1>2. PlacedOn(c, job[p].obj.node) /\ job[p].obj.node \in Node
  BY <1>1 DEF PlacedOn, Container
<1>3. ~(c[2] > drawn[c[1]])
  BY <1>1, <1>2 DEF IInv, Undrawn
<1>4. c[1] \in DepId /\ c[2] \in Int /\ drawn[c[1]] \in Int
  BY <1>1, ConstantAssumption DEF Cid, IInv, TypeOK
<1>5. c[2] <= drawn[c[1]]
  BY <1>3, <1>4
<1>6. ~Claimed(c)
  BY <1>1 DEF IInv, OneStarter, RunningHasDocker, Claimed
<1>7. \A q \in Process : q # p => ~Brings(q, c)
  BY <1>1 DEF IInv, OneStarter, Starts, Brings, Bringing, Starting
<1> QED BY <1>1, <1>5, <1>6, <1>7

\* createContainer draws the ID; from then on the container may come.
LEMMA ScheduleLife ==
  ASSUME IInv, IInv', ComingOK, NEW p \in Process, Schedule(p)
  PROVE  LivesOn
<1> DEFINE d == job[p].dep
<1>1. /\ job[p].pc = "schedule" /\ job \in [Process -> Job] /\ job[p] \in Job
      /\ UNCHANGED <<ctrs, dock, work, cut>> /\ d \in DepId /\ job[p].op \in {"create", "scale"}
  BY DEF Schedule, At, IInv, TypeOK, JobOK, db, remote, history
<1>2. CASE Goto(p, "fail") /\ UNCHANGED drawn
  <2>1. MovesTo(p, "fail")
    BY <1>2, Moves DEF IInv, Label
  <2> QED BY <1>1, <1>2, <2>1, QuietLife DEF MovesTo, Bringing, TakingDown
<1>3. ASSUME NEW o, drawn[d] < PerDep, drawn' = [drawn EXCEPT ![d] = @ + 1],
             Become(p, [job[p] EXCEPT !.pc = "save_container", !.cur = <<d, drawn[d] + 1>>,
                                  !.obj = o])
      PROVE  LivesOn
  <2>1. drawn \in [DepId -> Nat] /\ drawn' \in [DepId -> Nat] /\ PerDep \in Nat
    BY ConstantAssumption DEF IInv, TypeOK
  <2>2. PICK new \in Cid : new = <<d, drawn[d] + 1>>
    <3>1. drawn[d] + 1 \in 1 .. PerDep
      BY <1>1, <1>3, <2>1
    <3> QED BY <1>1, <3>1 DEF Cid
  <2>a. /\ job'[p].pc = "save_container" /\ job'[p].cur = new
        /\ \A q \in Process : q # p => job'[q] = job[q]
    BY <1>1, <1>3, <2>2 DEF Become, Job
  <2>3. /\ ~(new[2] <= drawn[new[1]]) /\ new[2] > drawn[new[1]]
        /\ new[1] = d /\ new[2] = drawn[d] + 1
    BY <1>1, <2>1, <2>2
  <2>4. \A n \in Node : ~PlacedOn(new, n)
    BY <2>3 DEF IInv, Undrawn
  <2>5. dock[new] = None /\ work[new] = None
    BY <2>3, <2>4, NoneAssumption DEF PlacedOn, IInv, TypeOK, DockerContainer, Call, Container
  <2>6. \A q \in Process : ~Brings(q, new)
    BY <2>4 DEF PlacedOn, IInv, JobOK, Starts, Brings, Bringing, Starting, Container
  <2>7. LifeOf(new) = "unborn" /\ LifeOf(new)' = "coming"
    <3>1. ~MayCome(new) /\ MayCome(new)'
      BY <2>a, <2>5, <2>6 DEF MayCome, Working, Brings, Bringing
    <3> QED BY <1>1, <2>3, <2>5, <3>1, Stage, StageAfter DEF IInv
  <2>8. (Claimed(new)' <=> Claimed(new)) /\ (Doomed(new)' <=> Doomed(new))
    BY <1>1, <2>a DEF Claimed, Doomed, TakesDown, TakingDown
  <2>9. ASSUME NEW c \in Cid, c # new
        PROVE  c[2] <= drawn'[c[1]] <=> c[2] <= drawn[c[1]]
    <3>1. c[1] \in DepId /\ c[2] \in Nat /\ (c[1] = d => c[2] # drawn[d] + 1)
      BY <2>2, <2>9 DEF Cid
    <3> QED BY <1>1, <1>3, <2>1, <3>1
  <2>10. ASSUME NEW c \in Cid PROVE Life!LifeStep(c)
    <3>1. CASE c = new
      BY <2>3, <2>7, <2>8, <3>1, StepsOfLife
    <3>2. CASE c # new
      <4>1. ~Brings(p, c) /\ ~Brings(p, c)' /\ ~TakesDown(p, c) /\ ~TakesDown(p, c)'
        BY <1>1, <2>a, <3>2 DEF Brings, TakesDown, Bringing, TakingDown
      <4> QED BY <1>1, <2>a, <2>9, <3>2, <4>1, Untouched DEF IInv
    <3> QED BY <3>1, <3>2
  <2>11. ComingOK'
    BY <1>1, <2>a, <2>5 DEF ComingOK, Brings, Working
  <2> QED BY <2>10, <2>11 DEF LivesOn
<1> QED BY <1>2, <1>3 DEF Schedule

\* The first save of the record does not claim that the container runs.
LEMMA SaveContainerLife ==
  ASSUME IInv, IInv', ComingOK, NEW p \in Process, SaveContainer(p)
  PROVE  LivesOn
<1>1. /\ job[p].pc = "save_container" /\ job \in [Process -> Job]
      /\ UNCHANGED <<dock, work, drawn, cut>>
  BY DEF SaveContainer, At, IInv, TypeOK, remote, ids, history
<1>2. PICK c \in Cid : c = job[p].cur
  BY <1>1, BroughtUp DEF Starting
<1>3. /\ job'[p].pc \in {"docker_create", "post"} /\ job'[p].cur = c
      /\ \A q \in Process : q # p => job'[q] = job[q]
  BY <1>1, <1>2, GotoFrame DEF SaveContainer, Label
<1>4. Brings(p, c) /\ Brings(p, c)' /\ ~TakesDown(p, c) /\ ~TakesDown(p, c)'
  BY <1>1, <1>2, <1>3 DEF Brings, TakesDown, Bringing, TakingDown
<1>5. ComingOK'
  <2>1. \A x \in Cid : Brings(p, x)' => x = c
    BY <1>3 DEF Brings
  <2> QED BY <1>1, <1>3, <1>4, <2>1, StillToCome DEF Brings, Working
<1>6. /\ ctrs'[c] = job[p].obj /\ job[p].obj.status # "running"
      /\ \A x \in Cid : x # c => ctrs'[x] = ctrs[x]
  BY <1>1, <1>2 DEF SaveContainer, IInv, TypeOK, StartOK, Starting
<1>7. Life!LifeStep(c)
  <2>1. ~Claimed(c) /\ ~Claimed(c)'
    BY <1>1, <1>2, <1>6, BroughtUp DEF Claimed, Starting
  <2>2. (MayCome(c)' <=> MayCome(c)) /\ (Doomed(c)' <=> Doomed(c))
    BY <1>1, <1>3, <1>4 DEF MayCome, Doomed, Brings, TakesDown, Working
  <2>3. LifeOf(c)' = LifeOf(c)
    BY <1>1, <2>2, Stage, StageAfter DEF IInv
  <2> QED BY <2>1, <2>2, <2>3, StepsOfLife
<1> QED BY <1>1, <1>2, <1>3, <1>5, <1>6, <1>7, OneContainer DEF LivesOn

\* ContainerCreate on the master's machine: the container is made, or nobody
\* tries again.
LEMMA DockerCreateLife ==
  ASSUME IInv, IInv', ComingOK, NEW p \in Process, DockerCreate(p)
  PROVE  LivesOn
<1>1. /\ job[p].pc = "docker_create" /\ job \in [Process -> Job]
      /\ UNCHANGED <<ctrs, work, drawn, cut>> /\ dock \in [Cid -> DockerContainer \cup {None}]
  BY DEF DockerCreate, At, IInv, TypeOK, db, remote, ids, history
<1>2. PICK c \in Cid : c = job[p].cur
  BY <1>1, BroughtUp DEF Starting
<1>3. /\ job'[p].pc \in {"docker_start", "save_failed"}
      /\ \A q \in Process : q # p => job'[q] = job[q]
      /\ \A x \in Cid : x # c => dock'[x] = dock[x]
  BY <1>1, <1>2, GotoFrame DEF DockerCreate, Created, NotCreated, Label
<1>4. /\ Brings(p, c) /\ ~TakesDown(p, c)
      /\ \A x \in Cid : ~Brings(p, x)' /\ ~TakesDown(p, x)'
  BY <1>1, <1>2, <1>3 DEF Brings, TakesDown, Bringing, TakingDown
<1>5. dock[c] = None /\ work[c] = None
  BY <1>4 DEF ComingOK
<1>6. \A q \in Process : ~Brings(q, c)'
  BY <1>1, <1>2, <1>3, <1>4, BroughtUp DEF Brings, Starting
<1>7. ComingOK'
  BY <1>1, <1>3, <1>4, <1>5, <1>6, StillToCome DEF Brings, Working
<1>8. Life!LifeStep(c)
  <2>1. (Claimed(c)' <=> Claimed(c)) /\ (Doomed(c)' <=> Doomed(c))
    BY <1>1, <1>3, <1>4 DEF Claimed, Doomed, TakesDown
  <2>2. MayCome(c) /\ ~MayCome(c)'
    BY <1>1, <1>4, <1>5, <1>6 DEF MayCome, Working
  <2>3. LifeOf(c) = "coming"
    BY <1>5, <2>2, Stage DEF IInv
  <2>4. CASE dock'[c] = None
    BY <1>1, <1>2, <2>1, <2>2, <2>3, <2>4, BroughtUp, StageAfter, StepsOfLife
       DEF IInv, Starting
  <2>5. CASE dock'[c] # None
    <3>1. ~dock'[c].on
      BY <1>1, <1>2, <1>5, <2>5 DEF DockerCreate, Created, NotCreated
    <3> QED BY <2>1, <2>3, <2>5, <3>1, StageAfter, StepsOfLife DEF IInv
  <2> QED BY <2>4, <2>5
<1> QED BY <1>1, <1>2, <1>3, <1>7, <1>8, OneContainer DEF LivesOn, Bringing, TakingDown

\* Docker turns a container on or off.
LEMMA TurnedOn ==
  ASSUME TypeOK, NEW c \in Cid, dock[c] # None, NEW b \in BOOLEAN,
         dock' = [dock EXCEPT ![c].on = b]
  PROVE  /\ dock'[c] # None /\ dock'[c].on = b
         /\ \A x \in Cid : x # c => dock'[x] = dock[x]
<1>1. dock \in [Cid -> DockerContainer \cup {None}] /\ dock[c] \in DockerContainer
  BY DEF TypeOK
<1>2. /\ [dock[c] EXCEPT !.on = b] \in DockerContainer
      /\ [dock[c] EXCEPT !.on = b].on = b
  BY <1>1 DEF DockerContainer
<1>3. dock'[c] = [dock[c] EXCEPT !.on = b]
  BY <1>1
<1>4. \A x \in Cid : x # c => dock'[x] = dock[x]
  BY <1>1
<1> QED BY <1>2, <1>3, <1>4, NoneAssumption

\* ContainerStart on the master's machine.
LEMMA DockerStartLife ==
  ASSUME IInv, IInv', ComingOK, NEW p \in Process, DockerStart(p)
  PROVE  LivesOn
<1>1. /\ job[p].pc = "docker_start" /\ job \in [Process -> Job] /\ job[p] \in Job
      /\ UNCHANGED <<ctrs, work, drawn, cut>> /\ dock \in [Cid -> DockerContainer \cup {None}]
  BY DEF DockerStart, At, IInv, TypeOK, db, remote, ids, history
<1>2. PICK c \in Cid : c = job[p].cur
  BY <1>1, BroughtUp DEF Starting
<1>3. dock[c] # None /\ dock[c] \in DockerContainer
  BY <1>1, <1>2 DEF IInv, StartOK
<1>4. /\ job'[p].pc \in {"save_running", "save_failed"}
      /\ \A q \in Process : q # p => job'[q] = job[q]
  BY <1>1 DEF DockerStart, Goto, Become, Job
<1>5. /\ \A x \in Cid : x # c => dock'[x] = dock[x]
      /\ dock'[c] = dock[c] \/ (dock'[c] # None /\ dock'[c].on)
  BY <1>1, <1>2, <1>3, TurnedOn DEF DockerStart, Started, NotStarted, IInv
<1>6. /\ \A x \in Cid : ~Brings(p, x) /\ ~TakesDown(p, x)
      /\ \A x \in Cid : ~Brings(p, x)' /\ ~TakesDown(p, x)'
  BY <1>1, <1>4 DEF Brings, TakesDown, Bringing, TakingDown
<1>7. ComingOK'
  BY <1>1, <1>3, <1>4, <1>5, <1>6 DEF ComingOK, Brings, Working
<1>8. Life!LifeStep(c)
  <2>1. (Claimed(c)' <=> Claimed(c)) /\ (Doomed(c)' <=> Doomed(c))
    BY <1>1, <1>4, <1>6 DEF Claimed, Doomed, TakesDown
  <2>2. CASE dock'[c] = dock[c]
    BY <1>3, <2>1, <2>2, Stage, StageAfter, StepsOfLife DEF IInv
  <2>3. CASE dock'[c] # None /\ dock'[c].on
    <3>1. ~Claimed(c)
      BY <1>1, <1>2, BroughtUp DEF Starting
    <3> QED BY <1>3, <2>1, <2>3, <3>1, Stage, StageAfter, StepsOfLife DEF IInv
  <2> QED BY <1>5, <2>2, <2>3
<1> QED BY <1>1, <1>2, <1>4, <1>5, <1>7, <1>8, OneContainer DEF LivesOn, Bringing, TakingDown

\* The POST is sent once: the worker may then make the container, or nobody will.
LEMMA PostLife ==
  ASSUME IInv, IInv', ComingOK, NEW p \in Process, Post(p)
  PROVE  LivesOn
<1>1. /\ job[p].pc = "post" /\ job \in [Process -> Job]
      /\ UNCHANGED <<ctrs, dock, drawn, cut>> /\ work \in [Cid -> Call \cup {None}]
  BY DEF Post, At, IInv, TypeOK, db, ids, history
<1>2. PICK c \in Cid : c = job[p].cur
  BY <1>1, BroughtUp DEF Starting
<1>3. /\ job'[p].pc \in {"posted", "save_remote_failed"}
      /\ \A q \in Process : q # p => job'[q] = job[q]
      /\ \A x \in Cid : x # c => work'[x] = work[x]
  BY <1>1, <1>2, GotoFrame DEF Post, Label
<1>4. /\ Brings(p, c) /\ ~TakesDown(p, c)
      /\ \A x \in Cid : ~Brings(p, x)' /\ ~TakesDown(p, x)'
  BY <1>1, <1>2, <1>3 DEF Brings, TakesDown, Bringing, TakingDown
<1>5. dock[c] = None /\ work[c] = None
  BY <1>4 DEF ComingOK
<1>6. \A q \in Process : ~Brings(q, c)'
  BY <1>1, <1>2, <1>3, <1>4, BroughtUp DEF Brings, Starting
<1>7. ComingOK'
  BY <1>1, <1>3, <1>4, <1>5, <1>6 DEF ComingOK, Brings, Working
<1>8. Life!LifeStep(c)
  <2>1. (Claimed(c)' <=> Claimed(c)) /\ (Doomed(c)' <=> Doomed(c))
    BY <1>1, <1>3, <1>4 DEF Claimed, Doomed, TakesDown
  <2>2. LifeOf(c) = "coming"
    BY <1>4, <1>5, Stage DEF IInv, MayCome
  <2>3. LifeOf(c)' \in {"coming", "over"}
    BY <1>1, <1>2, <1>5, BroughtUp, StageAfter DEF IInv, Starting
  <2> QED BY <2>1, <2>2, <2>3, StepsOfLife
<1> QED BY <1>1, <1>2, <1>3, <1>7, <1>8, OneContainer DEF LivesOn, Bringing, TakingDown

\* The record of a container that was brought up, or was not, is saved: it says
\* "running" only of one that runs.
LEMMA SavedLife ==
  ASSUME IInv, IInv', ComingOK, NEW p \in Process, SaveRunning(p) \/ SaveFailed(p)
  PROVE  LivesOn
<1>1. /\ job[p].pc \in {"save_running", "save_remote_failed", "save_failed"}
      /\ job \in [Process -> Job] /\ job[p] \in Job
      /\ UNCHANGED <<dock, work, drawn, cut>> /\ ctrs \in [Cid -> Container \cup {None}]
  BY DEF SaveRunning, SaveFailed, At, IInv, TypeOK, remote, ids, history
<1>2. PICK c \in Cid : c = job[p].cur /\ job[p].obj \in Container
  BY <1>1, BroughtUp DEF Starting
<1>3. /\ job'[p].pc \in {"schedule", "save_failed", "fail"}
      /\ \A q \in Process : q # p => job'[q] = job[q]
      /\ \A x \in Cid : x # c => ctrs'[x] = ctrs[x]
  <2>1. CASE SaveRunning(p)
    <3>1. MovesTo(p, "schedule")
      BY <1>1, <2>1 DEF SaveRunning, MovesTo, Become, Job
    <3> QED BY <1>1, <1>2, <2>1, <3>1 DEF SaveRunning, MovesTo
  <2>2. CASE SaveFailed(p)
    <3>1. MovesTo(p, "save_failed") \/ MovesTo(p, "fail")
      BY <2>2, Moves DEF SaveFailed, Label, IInv
    <3> QED BY <1>1, <1>2, <2>2, <3>1 DEF SaveFailed, MovesTo
  <2> QED BY <2>1, <2>2
<1>4. /\ \A x \in Cid : ~Brings(p, x) /\ ~TakesDown(p, x)
      /\ \A x \in Cid : ~Brings(p, x)' /\ ~TakesDown(p, x)'
  BY <1>1, <1>3 DEF Brings, TakesDown, Bringing, TakingDown
<1>5. ComingOK'
  BY <1>1, <1>3, <1>4, StillToCome DEF Brings, Working
<1>6. Life!LifeStep(c)
  <2>1. (MayCome(c)' <=> MayCome(c)) /\ (Doomed(c)' <=> Doomed(c))
    BY <1>1, <1>3, <1>4 DEF MayCome, Doomed, Brings, TakesDown, Working
  <2>2. LifeOf(c)' = LifeOf(c)
    BY <1>1, <2>1, Stage, StageAfter DEF IInv
  <2>3. CASE SaveRunning(p)
    <3>1. LifeOf(c) = "on"
      BY <1>2, <2>3, Stage DEF SaveRunning, At, IInv, StartOK
    <3> QED BY <2>1, <2>2, <3>1, StepsOfLife
  <2>4. CASE SaveFailed(p)
    <3>1. ctrs'[c].status = "failed"
      BY <1>1, <1>2, <2>4 DEF SaveFailed, Container
    <3>2. ~Claimed(c)'
      BY <3>1 DEF Claimed
    <3> QED BY <2>1, <2>2, <3>2, StepsOfLife
  <2> QED BY <2>3, <2>4
<1> QED BY <1>1, <1>2, <1>3, <1>5, <1>6, OneContainer DEF LivesOn, Bringing, TakingDown

-----------------------------------------------------------------------------
(* The worker.                                                              *)

\* A container whose ID a request at a worker bears is drawn, and no record
\* says that it runs before the worker has answered.
LEMMA Requested ==
  ASSUME IInv, NEW c \in Cid, work[c] # None
  PROVE  /\ c[2] <= drawn[c[1]]
         /\ work[c].at # "answered" => ~Claimed(c)
<1>1. PlacedOn(c, work[c].ctr.node) /\ work[c].ctr.node \in Node
  BY DEF PlacedOn, IInv, TypeOK, Call, Container
<1>2. ~(c[2] > drawn[c[1]])
  BY <1>1 DEF IInv, Undrawn
<1>3. c[1] \in DepId /\ c[2] \in Int /\ drawn[c[1]] \in Int
  BY ConstantAssumption DEF Cid, IInv, TypeOK
<1>4. work[c].at # "answered" => ~Claimed(c)
  BY DEF IInv, WorkOK, RunningHasDocker, Claimed
<1> QED BY <1>2, <1>3, <1>4

\* A worker makes the container, or refuses to and does not come back to it;
\* starts it; answers.
LEMMA WorkerLife ==
  ASSUME IInv, IInv', ComingOK, NEW c \in Cid, Worker(c)
  PROVE  LivesOn
<1>1. /\ work \in [Cid -> Call \cup {None}] /\ dock \in [Cid -> DockerContainer \cup {None}]
      /\ UNCHANGED <<ctrs, job, drawn, cut>> /\ work[c] # None
      /\ work[c].at \in {"sent", "created", "started"}
  BY DEF Worker, WorkerCreate, WorkerStart, WorkerSave, Working, IInv, TypeOK, db, ids, history
<1>2. /\ work'[c].at \in {"created", "started", "refused", "answered"}
      /\ work'[c] # None
      /\ \A x \in Cid : x # c => work'[x] = work[x]
  <2>1. work[c] \in Call
    BY <1>1
  <2>2. \A s \in {"created", "started", "refused", "answered"} :
          [work[c] EXCEPT !.at = s] \in Call /\ [work[c] EXCEPT !.at = s].at = s
    BY <2>1 DEF Call
  <2> QED BY <1>1, <2>2, NoneAssumption DEF Worker, WorkerCreate, WorkerStart, WorkerSave
<1>3. \A q \in Process : ~Brings(q, c) /\ ~Brings(q, c)'
  BY <1>1 DEF ComingOK, Brings
<1>4. (Claimed(c)' <=> Claimed(c)) /\ (Doomed(c)' <=> Doomed(c)) /\ ~MayCome(c)'
  BY <1>1, <1>2, <1>3 DEF Claimed, Doomed, TakesDown, MayCome, Working
<1>5. \A x \in Cid : x # c => dock'[x] = dock[x]
  BY <1>1 DEF Worker, WorkerCreate, WorkerStart, WorkerSave, Created, NotCreated,
     Started, NotStarted
<1>6. ComingOK'
  BY <1>1, <1>2, <1>3, <1>5 DEF ComingOK, Brings, Working
<1>7. Life!LifeStep(c)
  <2>1. CASE WorkerCreate(c)
    <3>1. dock[c] = None /\ MayCome(c)
      BY <2>1 DEF WorkerCreate, ComingOK, MayCome
    <3>2. dock'[c] = None \/ (dock'[c] # None /\ ~dock'[c].on)
      BY <1>1, <2>1, <3>1 DEF WorkerCreate, Created, NotCreated
    <3>3. LifeOf(c) = "coming" /\ LifeOf(c)' \in {"still", "over"}
      BY <1>1, <1>4, <3>1, <3>2, Stage, StageAfter, Requested DEF IInv
    <3> QED BY <1>4, <3>3, StepsOfLife
  <2>2. CASE WorkerStart(c)
    <3>1. dock[c] # None /\ ~Claimed(c)
      BY <1>1, <2>2, Requested DEF WorkerStart, Working, IInv, WorkOK
    <3>2. dock'[c] = dock[c] \/ (dock'[c] # None /\ dock'[c].on)
      BY <2>2, <3>1, TurnedOn DEF WorkerStart, Started, NotStarted, IInv
    <3>3. LifeOf(c) \in {"still", "on"} /\ LifeOf(c)' \in {LifeOf(c), "on"}
      BY <3>1, <3>2, Stage, StageAfter DEF IInv
    <3> QED BY <1>4, <3>1, <3>3, StepsOfLife
  <2>3. CASE WorkerSave(c)
    <3>1. dock[c] # None /\ dock' = dock
      BY <1>1, <2>3 DEF WorkerSave, Working, IInv, WorkOK
    <3>2. LifeOf(c)' = LifeOf(c)
      BY <3>1, Stage, StageAfter DEF IInv
    <3> QED BY <1>4, <3>2, StepsOfLife
  <2> QED BY <2>1, <2>2, <2>3 DEF Worker
<1>8. ASSUME NEW x \in Cid, x # c PROVE Life!LifeStep(x)
  <2>1. (Claimed(x)' <=> Claimed(x)) /\ (Doomed(x)' <=> Doomed(x))
    BY <1>1 DEF Claimed, Doomed, TakesDown
  <2>2. MayCome(x)' <=> MayCome(x)
    BY <1>1, <1>2, <1>8 DEF MayCome, Brings, Working
  <2>3. LifeOf(x)' = LifeOf(x)
    BY <1>1, <1>5, <1>8, <2>2, Stage, StageAfter DEF IInv
  <2> QED BY <2>1, <2>3, StepsOfLife
<1> QED BY <1>6, <1>7, <1>8 DEF LivesOn

-----------------------------------------------------------------------------
(* Taking a container down.                                                 *)

\* stopContainer sets about to stop a container, or only to drop its record.
LEMMA StopContainerLife ==
  ASSUME IInv, IInv', ComingOK, NEW p \in Process, NEW c \in Cid, StopContainer(p, c)
  PROVE  LivesOn
<1>1. /\ job[p].pc = "stop" /\ job \in [Process -> Job] /\ job[p] \in Job
      /\ UNCHANGED <<ctrs, dock, work, drawn, cut>>
  BY DEF StopContainer, At, IInv, TypeOK, db, remote, ids, history
<1>2. CASE Finish(p)
  BY <1>1, <1>2, FinishLife DEF Bringing, TakingDown
<1>3. CASE ~Finish(p)
  <2>1. PICK l \in {"docker_stop", "save_stopped", "delete_record"} :
           Become(p, [job[p] EXCEPT !.pc = l, !.cur = c])
    BY <1>3 DEF StopContainer
  <2>2. job'[p].pc = l /\ job'[p].cur = c /\ \A q \in Process : q # p => job'[q] = job[q]
    BY <1>1, <2>1 DEF Become, Job
  <2>3. CASE l = "delete_record"
    BY <1>1, <2>2, <2>3, QuietLife DEF Bringing, TakingDown
  <2>4. CASE l # "delete_record"
    <3>1. ComingOK'
      BY <1>1, <2>2, StillToCome DEF Brings, Bringing, Working
    <3>2. (Claimed(c)' <=> Claimed(c)) /\ Doomed(c)'
      BY <1>1, <2>2, <2>4 DEF Claimed, Doomed, TakesDown, TakingDown
    <3>3. MayCome(c)' <=> MayCome(c)
      BY <1>1, <2>2 DEF MayCome, Brings, Bringing, Working
    <3>4. LifeOf(c)' = LifeOf(c)
      BY <1>1, <3>3, Stage, StageAfter DEF IInv
    <3>5. Life!LifeStep(c)
      BY <3>2, <3>4, StepsOfLife
    <3> QED BY <1>1, <2>2, <3>1, <3>5, OneContainer DEF LivesOn, Bringing, TakingDown
  <2> QED BY <2>3, <2>4
<1> QED BY <1>2, <1>3

\* docker stop and docker rm: nobody can make the container any more.
LEMMA DockerDownLife ==
  ASSUME IInv, IInv', ComingOK, NEW p \in Process, DockerStop(p) \/ DockerRemove(p)
  PROVE  LivesOn
<1>1. /\ job[p].pc \in {"docker_stop", "docker_remove"} /\ job \in [Process -> Job]
      /\ UNCHANGED <<ctrs, work, drawn, cut>> /\ dock \in [Cid -> DockerContainer \cup {None}]
  BY DEF DockerStop, DockerRemove, At, IInv, TypeOK, db, remote, ids, history
<1>2. PICK c \in Cid : c = job[p].cur
  BY <1>1, StopFacts DEF IInv, JobOK, Handling
<1>3. /\ job'[p].pc \in {"docker_remove", "save_stopped"} /\ job'[p].cur = c
      /\ \A q \in Process : q # p => job'[q] = job[q]
  BY <1>1, <1>2, GotoFrame DEF DockerStop, DockerRemove, Label
<1>4. /\ \A x \in Cid : x # c => dock'[x] = dock[x]
      /\ \/ dock'[c] = dock[c] \/ dock'[c] = None
         \/ dock[c] # None /\ dock'[c] # None /\ ~dock'[c].on
  <2>1. CASE DockerStop(p)
    BY <1>1, <1>2, <2>1, TurnedOn DEF DockerStop, IInv
  <2>2. CASE DockerRemove(p)
    BY <1>1, <1>2, <2>2 DEF DockerRemove
  <2> QED BY <2>1, <2>2
<1>5. /\ TakesDown(p, c) /\ TakesDown(p, c)'
      /\ \A x \in Cid : ~Brings(p, x) /\ ~Brings(p, x)'
  BY <1>1, <1>2, <1>3 DEF Brings, TakesDown, Bringing, TakingDown
<1>6. ComingOK'
  BY <1>1, <1>3, <1>4, <1>5 DEF ComingOK, Brings, Working
<1>7. Life!LifeStep(c)
  <2>1. (Claimed(c)' <=> Claimed(c)) /\ Doomed(c) /\ Doomed(c)'
    BY <1>1, <1>5 DEF Claimed, Doomed
  <2>2. MayCome(c)' <=> MayCome(c)
    BY <1>1, <1>3, <1>5 DEF MayCome, Brings, Working
  <2>3. CASE dock'[c] = dock[c]
    <3>1. LifeOf(c)' = LifeOf(c)
      BY <1>1, <2>2, <2>3, Stage, StageAfter DEF IInv
    <3> QED BY <2>1, <3>1, StepsOfLife
  <2>4. CASE dock[c] # None /\ dock'[c] = None
    <3>1. ~MayCome(c)'
      BY <2>2, <2>4 DEF MayCome, ComingOK
    <3>2. PlacedOn(c, dock[c].node) /\ dock[c].node \in Node
      BY <1>1, <2>4 DEF PlacedOn, DockerContainer
    <3>3. ~(c[2] > drawn[c[1]]) /\ c[1] \in DepId /\ c[2] \in Int /\ drawn[c[1]] \in Int
      BY <3>2, ConstantAssumption DEF Cid, IInv, TypeOK, Undrawn
    <3>4. c[2] <= drawn'[c[1]]
      BY <1>1, <3>3
    <3>5. LifeOf(c) \in {"still", "on"} /\ LifeOf(c)' = "over"
      BY <2>4, <3>1, <3>4, Stage, StageAfter DEF IInv
    <3> QED BY <2>1, <3>5, StepsOfLife
  <2>5. CASE dock[c] # None /\ dock'[c] # None /\ ~dock'[c].on
    <3>1. LifeOf(c) \in {"still", "on"} /\ LifeOf(c)' = "still"
      BY <2>5, Stage, StageAfter DEF IInv
    <3> QED BY <2>1, <3>1, StepsOfLife
  <2> QED BY <1>4, <2>3, <2>4, <2>5
<1> QED BY <1>1, <1>2, <1>3, <1>4, <1>6, <1>7, OneContainer DEF LivesOn

\* The record of a container that was stopped is saved, then deleted.
LEMMA DropLife ==
  ASSUME IInv, IInv', ComingOK, NEW p \in Process, SaveStopped(p) \/ DeleteRecord(p)
  PROVE  LivesOn
<1>1. /\ job[p].pc \in {"save_stopped", "delete_record"} /\ job \in [Process -> Job]
      /\ job[p] \in Job
      /\ UNCHANGED <<dock, work, drawn, cut>> /\ ctrs \in [Cid -> Container \cup {None}]
  BY DEF SaveStopped, DeleteRecord, At, IInv, TypeOK, remote, ids, history
<1>2. PICK c \in Cid : c = job[p].cur /\ job[p].list[c] \in Container
  BY <1>1 DEF IInv, JobOK, Handling
<1>3. /\ job'[p].pc \in {"delete_record", "stop"}
      /\ \A q \in Process : q # p => job'[q] = job[q]
  <2>1. CASE SaveStopped(p)
    <3>1. MovesTo(p, "delete_record")
      BY <2>1, Moves DEF SaveStopped, Label, IInv
    <3> QED BY <3>1 DEF MovesTo
  <2>2. CASE DeleteRecord(p)
    <3>1. MovesTo(p, "stop")
      BY <1>1, <2>2 DEF DeleteRecord, MovesTo, Become, Job
    <3> QED BY <3>1 DEF MovesTo
  <2> QED BY <2>1, <2>2
<1>4. /\ \A x \in Cid : x # c => ctrs'[x] = ctrs[x]
      /\ ctrs'[c] = None \/ ctrs'[c].status = "stopped"
  BY <1>1, <1>2 DEF SaveStopped, DeleteRecord, Container
<1>5. \A x \in Cid : ~Brings(p, x) /\ ~Brings(p, x)' /\ ~TakesDown(p, x)'
  BY <1>1, <1>3 DEF Brings, TakesDown, Bringing, TakingDown
<1>6. ComingOK'
  BY <1>1, <1>3, <1>5, StillToCome DEF Brings, Working
<1>7. Life!LifeStep(c)
  <2>1. ~Claimed(c)' /\ (Doomed(c)' => Doomed(c))
    BY <1>1, <1>3, <1>4, <1>5 DEF Claimed, Doomed, TakesDown
  <2>2. MayCome(c)' <=> MayCome(c)
    BY <1>1, <1>3, <1>5 DEF MayCome, Brings, Working
  <2>3. LifeOf(c)' = LifeOf(c)
    BY <1>1, <2>2, Stage, StageAfter DEF IInv
  <2> QED BY <2>1, <2>3, StepsOfLife
<1> QED BY <1>1, <1>2, <1>3, <1>4, <1>6, <1>7, OneContainer DEF LivesOn, Bringing, TakingDown

-----------------------------------------------------------------------------
(* Deaths.                                                                  *)

\* A request that dies with its worker is not carried out any more.
LEMMA WorkerCrashLife ==
  ASSUME IInv, IInv', ComingOK, NEW n \in Node, WorkerCrash(n)
  PROVE  LivesOn
<1>1. /\ UNCHANGED <<ctrs, dock, job, drawn, cut>> /\ work \in [Cid -> Call \cup {None}]
      /\ \A c \in Cid : \/ work'[c] = work[c]
                        \/ work[c] # None /\ work'[c] = [work[c] EXCEPT !.at = "lost"]
  <2> DEFINE hit(c) == /\ work[c] # None /\ work[c].ctr.node = n
                       /\ work[c].at \in {"sent", "created", "started"}
  <2>1. work' = [c \in Cid |-> IF hit(c) THEN [work[c] EXCEPT !.at = "lost"] ELSE work[c]]
    BY DEF WorkerCrash
  <2>2. \A c \in Cid : hit(c) => work[c] # None
    OBVIOUS
  <2> HIDE DEF hit
  <2>3. \A c \in Cid : work'[c] = IF hit(c) THEN [work[c] EXCEPT !.at = "lost"] ELSE work[c]
    BY <2>1
  <2>4. /\ UNCHANGED <<ctrs, dock, job, drawn, cut>>
        /\ work \in [Cid -> Call \cup {None}]
    BY DEF WorkerCrash, IInv, TypeOK, db, ids
  <2> QED BY <2>2, <2>3, <2>4
<1>2. ASSUME NEW c \in Cid, work[c] # None, work'[c] = [work[c] EXCEPT !.at = "lost"]
      PROVE  ~Working(c, "sent")'
  BY <1>1, <1>2 DEF Working, Call
<1>3. ASSUME NEW c \in Cid PROVE Working(c, "sent")' => Working(c, "sent")
  BY <1>1, <1>2 DEF Working
<1>4. ASSUME NEW q \in Process, NEW c \in Cid
      PROVE  /\ Brings(q, c)' <=> Brings(q, c)
             /\ TakesDown(q, c)' <=> TakesDown(q, c)
             /\ Brings(q, c) => work'[c] = work[c]
  BY <1>1 DEF Brings, TakesDown, ComingOK
<1>5. ComingOK'
  BY <1>1, <1>3, <1>4, StillToCome
<1>6. ASSUME NEW c \in Cid PROVE Life!LifeStep(c)
  <2>1. (Claimed(c)' <=> Claimed(c)) /\ (Doomed(c)' <=> Doomed(c))
    BY <1>1, <1>4 DEF Claimed, Doomed
  <2>2. CASE MayCome(c)' <=> MayCome(c)
    <3>1. LifeOf(c)' = LifeOf(c)
      BY <1>1, <2>2, Stage, StageAfter DEF IInv
    <3> QED BY <2>1, <3>1, StepsOfLife
  <2>3. CASE ~(MayCome(c)' <=> MayCome(c))
    <3>1. MayCome(c) /\ ~MayCome(c)' /\ Working(c, "sent")
      BY <1>3, <1>4, <2>3 DEF MayCome
    <3>2. dock[c] = None /\ c[2] <= drawn[c[1]]
      BY <3>1, Requested DEF ComingOK, Working
    <3>3. LifeOf(c) = "coming" /\ LifeOf(c)' = "over"
      BY <1>1, <3>1, <3>2, Stage, StageAfter DEF IInv
    <3> QED BY <2>1, <3>3, StepsOfLife
  <2> QED BY <2>2, <2>3
<1> QED BY <1>5, <1>6 DEF LivesOn

\* What the master's process was about to do is not done any more.
LEMMA CrashLife ==
  ASSUME IInv, IInv', ComingOK, Crash
  PROVE  LivesOn
<1>1. /\ cut' = cut \cup {job[p].cur : p \in {q \in Process : Stopping(q)}}
      /\ job' = [p \in Process |-> Idle]
      /\ UNCHANGED <<ctrs, dock, work, drawn>>
  BY DEF Crash, db, remote, ids
<1>2. ASSUME NEW q \in Process, NEW c \in Cid PROVE ~Brings(q, c)' /\ ~TakesDown(q, c)'
  BY <1>1 DEF Brings, TakesDown, Bringing, TakingDown, Idle
<1>3. ComingOK'
  BY <1>1, <1>2 DEF ComingOK, Working
<1>4. ASSUME NEW c \in Cid PROVE Life!LifeStep(c)
  <2>1. /\ Claimed(c)' <=> Claimed(c)
        /\ Doomed(c)' <=> (c \in cut \/ \E q \in Process : Stopping(q) /\ job[q].cur = c)
        /\ MayCome(c)' <=> Working(c, "sent")
    BY <1>1, <1>2 DEF Claimed, Doomed, MayCome, Working
  <2>2. Doomed(c)' => Doomed(c)
    BY <2>1 DEF Doomed, Stopping, TakesDown, TakingDown
  <2>3. CASE LifeOf(c)' = LifeOf(c)
    <3>1. CASE Claimed(c) /\ ~Doomed(c)'
      <4>1. dock[c] # None /\ dock[c].on
        BY <2>1, <3>1 DEF IInv, RunningIsReal, Claimed
      <4>2. LifeOf(c) = "on"
        BY <4>1, Stage DEF IInv
      <4> QED BY <2>1, <2>3, <3>1, <4>2, StepsOfLife
    <3>2. CASE ~(Claimed(c) /\ ~Doomed(c)')
      BY <2>1, <2>2, <2>3, <3>2, StepsOfLife
    <3> QED BY <3>1, <3>2
  <2>4. CASE LifeOf(c)' # LifeOf(c)
    <3>1. dock[c] = None /\ MayCome(c) /\ ~MayCome(c)'
      BY <1>1, <2>1, <2>4, Stage, StageAfter DEF IInv, MayCome
    <3>2. PICK p \in Process : Brings(p, c)
      BY <2>1, <3>1 DEF MayCome
    <3>3. c = job[p].cur /\ job[p].pc \in Starting
      BY <3>2 DEF Brings, Bringing, Starting
    <3>4. LifeOf(c) = "coming" /\ LifeOf(c)' = "over"
      BY <1>1, <3>1, <3>3, BroughtUp, Stage, StageAfter DEF IInv
    <3>5. ASSUME NEW q \in Process, TakesDown(q, c) PROVE Stopping(q)
      <4>1. CASE job[q].pc = "docker_stop"
        <5>1. job[q].list[c] # None /\ job[q].list[c].docker
          BY <3>5, <4>1, StopFacts DEF TakesDown, Handling, IInv, StopOK
        <5> QED BY <3>3, <5>1 DEF IInv, OneStarter, Starts
      <4>2. CASE job[q].pc # "docker_stop"
        BY <3>5, <4>2 DEF TakesDown, TakingDown, Stopping
      <4> QED BY <4>1, <4>2
    <3>6. Doomed(c)' <=> Doomed(c)
      BY <2>1, <2>2, <3>5 DEF Doomed, TakesDown
    <3> QED BY <2>1, <3>4, <3>6, StepsOfLife
  <2> QED BY <2>3, <2>4
<1> QED BY <1>3, <1>4 DEF LivesOn

\* The server starts and stops.
LEMMA ServerLife ==
  ASSUME IInv, IInv', ComingOK, UNCHANGED <<ctrs, dock, work, job, drawn, cut>>
  PROVE  LivesOn
<1>1. Cli \in Process
  BY DEF Process
<1>2. ASSUME NEW c \in Cid PROVE Life!LifeStep(c)
  <2>1. /\ \A q \in Process : job'[q] = job[q]
        /\ Brings(Cli, c)' <=> Brings(Cli, c)
        /\ TakesDown(Cli, c)' <=> TakesDown(Cli, c)
    BY DEF Brings, TakesDown
  <2> QED BY <1>1, <2>1, Untouched DEF IInv
<1>3. ComingOK'
  BY StillToCome DEF Brings, Working
<1> QED BY <1>2, <1>3 DEF LivesOn

-----------------------------------------------------------------------------
(* The theorems.                                                            *)

\* Every step of the deployment manager is a step in the life of its containers.
LEMMA NextLife ==
  ASSUME IInv, IInv', ComingOK, Next
  PROVE  LivesOn
<1>1. ASSUME NEW p \in Process, Ask(p) PROVE LivesOn
  BY <1>1, AskLife
<1>2. ASSUME NEW p \in Process, Step(p) PROVE LivesOn
  BY <1>2, ReadLife, ScheduleLife, SaveContainerLife, DockerCreateLife, DockerStartLife,
     PostLife, SavedLife, StopContainerLife, DockerDownLife, DropLife
  DEF Step
<1>3. ASSUME NEW c \in Cid, Worker(c) PROVE LivesOn
  BY <1>3, WorkerLife
<1>4. ASSUME NEW n \in Node \ {LocalNode}, WorkerCrash(n) PROVE LivesOn
  BY <1>4, WorkerCrashLife
<1>5. CASE ServerStart \/ ServerStop
  BY <1>5, ServerLife DEF ServerStart, ServerStop, db, remote, ids, history
<1>6. CASE Crash
  BY <1>6, CrashLife
<1> QED BY <1>1, <1>2, <1>3, <1>4, <1>5, <1>6 DEF Next

\* Whoever may still make a container is the first to: from what the invariant
\* lacks, ComingOK, nothing is lost in any step.
THEOREM NobodyMakesItTwice == Spec => []ComingOK
<1>1. Init => ComingOK
  BY DEF Init, ComingOK, Brings, Bringing, Working, Idle
<1>2. IInv /\ IInv' /\ ComingOK /\ [Next]_vars => ComingOK'
  <2>1. ASSUME IInv, IInv', ComingOK, Next PROVE ComingOK'
    BY <2>1, NextLife DEF LivesOn
  <2>2. ASSUME IInv, IInv', ComingOK, UNCHANGED vars PROVE ComingOK'
    BY <2>2, ServerLife DEF vars, LivesOn
  <2> QED BY <2>1, <2>2
<1> QED BY <1>1, <1>2, InvariantHolds, PTL DEF Spec

\* The deployment manager implements ContainerLife: whatever the interleaving of
\* creates, scales, deletes, lost answers and deaths, each container lives the
\* life described there (scheduleContainers, startContainer, stopContainer).
THEOREM ManagerKeepsLife == Spec => KeepsLife
<1>1. Init => Life!LifeInit
  <2>1. ASSUME Init, NEW c \in Cid
        PROVE  LifeOf(c) = "unborn" /\ ~Claimed(c) /\ ~Doomed(c)
    <3>1. c[1] \in DepId /\ c[2] \in 1 .. PerDep
      BY DEF Cid
    <3>2. /\ dock[c] = None /\ ctrs[c] = None /\ ~(c[2] <= drawn[c[1]]) /\ cut = {}
          /\ ~MayCome(c) /\ \A p \in Process : ~TakesDown(p, c)
      BY <2>1, <3>1, ConstantAssumption DEF Init, NoContainers, MayCome, Brings, Bringing,
         TakesDown, TakingDown, Working, Idle
    <3>3. TypeOK
      BY <2>1, InitIInv DEF IInv
    <3> QED BY <3>2, <3>3, Stage DEF Claimed, Doomed
  <2>2. ASSUME NEW c \in Cid PROVE Claimed(c) \in BOOLEAN /\ Doomed(c) \in BOOLEAN
    BY DEF Claimed, Doomed
  <2> QED BY <2>1, <2>2 DEF Life!LifeInit
<1>2. IInv /\ IInv' /\ ComingOK /\ [Next]_vars => [Life!LifeNext]_(Life!lifeVars)
  <2>1. ASSUME IInv, IInv', ComingOK, Next PROVE Life!LifeNext
    BY <2>1, NextLife DEF LivesOn, Life!LifeNext
  <2>2. ASSUME IInv, IInv', ComingOK, UNCHANGED vars PROVE Life!LifeNext
    BY <2>2, ServerLife DEF vars, LivesOn, Life!LifeNext
  <2> QED BY <2>1, <2>2
<1> QED BY <1>1, <1>2, InvariantHolds, NobodyMakesItTwice, PTL
     DEF Spec, KeepsLife, Life!LifeSpec

\* ContainerLife is strong enough for its promise: wherever it is kept, "running"
\* is claimed only of a container that runs or is being taken down.
THEOREM LifeIsHonest == Life!LifeSpec => []Life!HonestClaims
<1>1. Life!LifeInit => Life!HonestClaims
  BY DEF Life!LifeInit, Life!HonestClaims
<1>2. Life!HonestClaims /\ [Life!LifeNext]_(Life!lifeVars) => Life!HonestClaims'
  <2>1. ASSUME Life!HonestClaims, Life!LifeNext, NEW c \in Cid, Claimed(c)'
        PROVE  LifeOf(c)' = "on" \/ Doomed(c)'
    BY <2>1 DEF Life!HonestClaims, Life!LifeNext, Life!LifeStep, Life!Keep, Life!Draw,
       Life!Make, Life!GiveUp, Life!Start, Life!TakeDown, Life!Claim, Life!Doom,
       Life!Unclaim, Life!Spare, Life!Lives
  <2>2. ASSUME Life!HonestClaims, UNCHANGED Life!lifeVars, NEW c \in Cid, Claimed(c)'
        PROVE  LifeOf(c)' = "on" \/ Doomed(c)'
    BY <2>2 DEF Life!HonestClaims, Life!lifeVars
  <2> QED BY <2>1, <2>2 DEF Life!HonestClaims
<1> QED BY <1>1, <1>2, PTL DEF Life!LifeSpec
=================================================================================
