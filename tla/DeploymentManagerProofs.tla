------------------------ MODULE DeploymentManagerProofs ------------------------
(***************************************************************************)
(* Type correctness of DeploymentManager and RunningIsReal, for any number *)
(* of goroutines, deployments, containers and machines and with every      *)
(* fault and crash: IInv is inductive.  First what a change of one         *)
(* process's memory leaves alone, then the steps that touch neither        *)
(* container records nor Docker, then the others one by one.               *)
(***************************************************************************)
EXTENDS DeploymentManagerInvariant, FiniteSetTheorems, TLAPS

-----------------------------------------------------------------------------
(* What Goto and Become leave alone.                                        *)

\* A process with nothing to do is well typed.
LEMMA IdleIsJob == Idle \in Job
  BY DEF Idle, Job, Label, NoContainers

\* A step that only moves a program counter leaves the memory of every process alone.
LEMMA GotoFrame ==
  ASSUME job \in [Process -> Job], NEW p \in Process, NEW l \in Label, Goto(p, l)
  PROVE  /\ job' \in [Process -> Job]
         /\ job'[p].pc = l
         /\ job'[p].op = job[p].op /\ job'[p].dep = job[p].dep
         /\ job'[p].mem = job[p].mem /\ job'[p].left = job[p].left
         /\ job'[p].idx = job[p].idx /\ job'[p].cur = job[p].cur
         /\ job'[p].obj = job[p].obj /\ job'[p].list = job[p].list
         /\ \A q \in Process : q # p => job'[q] = job[q]
  BY DEF Goto, Job

\* A step that changes the memory of one process leaves the others alone.
LEMMA BecomeFrame ==
  ASSUME job \in [Process -> Job], NEW p \in Process, NEW j \in Job, Become(p, j)
  PROVE  /\ job' \in [Process -> Job]
         /\ job'[p] = j
         /\ \A q \in Process : q # p => job'[q] = job[q]
  BY DEF Become

-----------------------------------------------------------------------------
(* Steps that change neither container records nor Docker.                  *)

\* Such a step of one process keeps the invariant when it does not take up
\* or drop the start or the stop of a container, and lists nothing but what
\* the database holds.
LEMMA QuietStep ==
  ASSUME IInv, TypeOK', JobOK', NEW p \in Process,
         UNCHANGED <<ctrs, dock, work, drawn, cut>>,
         \A q \in Process : q # p => job'[q] = job[q],
         ~Stopping(p),
         job'[p].pc \notin Starting \cup {"docker_stop", "docker_remove"},
         \A c \in Cid : job'[p].list[c] \in {None, job[p].list[c], ctrs[c]}
  PROVE  IInv'
<1>1. StartOK' /\ StopOK'
  BY DEF IInv, StartOK, StopOK, Starting
<1>2. WorkOK'
  BY DEF IInv, WorkOK
<1>3. OneStarter' /\ RunningHasDocker'
  BY DEF IInv, OneStarter, RunningHasDocker, Starts
<1>4. \A c \in Cid, n \in Node : PlacedOn(c, n)' => PlacedOn(c, n)
  BY DEF PlacedOn, Starts
<1>5. OnePlace' /\ Undrawn'
  BY <1>4 DEF IInv, OnePlace, Undrawn
<1>6. RunningIsReal'
  BY DEF IInv, RunningIsReal, Stopping
<1> QED BY <1>1, <1>2, <1>3, <1>5, <1>6 DEF IInv

\* The create path: the look for the name, the first save, a return with an
\* error, the three calls of updateDeploymentStatus.
LEMMA BeginCreateStep ==
  ASSUME IInv, NEW p \in Process, NEW name \in Name, NEW r \in 1 .. MaxReplicas,
         NEW port \in Port, NEW place \in Placement, BeginCreate(p, name, r, port, place)
  PROVE  IInv'
<1> USE ConstantAssumption, NoneAssumption
<1>1. PICK d \in DepId : /\ born' = born \cup {d}
                        /\ Become(p, [Idle EXCEPT !.pc = "save_deployment", !.op = "create",
                             !.dep = d, !.left = r,
                             !.mem = [name |-> name, replicas |-> r, port |-> port,
                                      place |-> place, status |-> "pending"]])
  BY DEF BeginCreate
<1> DEFINE rec == [name |-> name, replicas |-> r, port |-> port,
                   place |-> place, status |-> "pending"]
           j == [Idle EXCEPT !.pc = "save_deployment", !.op = "create",
                             !.dep = d, !.left = r, !.mem = rec]
<1>2. rec \in Deployment
  BY DEF Deployment
<1> HIDE DEF rec
<1>a. "save_deployment" \in Label /\ r \in Nat
  BY DEF Label
<1>3. j \in Job
  BY <1>2, <1>a, IdleIsJob DEF Job
<1>4. /\ job' \in [Process -> Job] /\ job'[p] = j
      /\ \A q \in Process : q # p => job'[q] = job[q]
  BY <1>1, <1>3, BecomeFrame DEF IInv, TypeOK, rec
<1>5. /\ j.pc = "save_deployment" /\ j.op = "create" /\ j.dep = d /\ j.mem = rec
      /\ j.list = NoContainers
  BY IdleIsJob DEF Idle, Job
<1> HIDE DEF j
<1>6. TypeOK'
  BY <1>1, <1>4 DEF IInv, TypeOK, BeginCreate, Enter, db, remote, history
<1>7. JobOK'
  BY <1>2, <1>4, <1>5 DEF IInv, JobOK, Starting, Handling
<1>8. \A c \in Cid : job'[p].list[c] = None
  BY <1>4, <1>5 DEF NoContainers
<1>9. /\ ~Stopping(p) /\ UNCHANGED <<ctrs, dock, work, drawn, cut>>
      /\ job'[p].pc \notin Starting \cup {"docker_stop", "docker_remove"}
  BY <1>4, <1>5 DEF BeginCreate, Ready, At, Stopping, Starting, db, remote, history
<1> QED BY <1>4, <1>6, <1>7, <1>8, <1>9, QuietStep

\* CreateDeployment's first save touches the deployment's record only.
LEMMA SaveDeploymentStep ==
  ASSUME IInv, NEW p \in Process, SaveDeployment(p)
  PROVE  IInv'
<1>1. /\ job[p].pc = "save_deployment" /\ job[p].op = "create"
      /\ job[p].dep \in DepId /\ job[p].mem \in Deployment /\ job \in [Process -> Job]
  BY DEF SaveDeployment, At, IInv, JobOK, TypeOK
<1>2. /\ job' \in [Process -> Job] /\ job'[p].pc = "schedule"
      /\ job'[p].op = job[p].op /\ job'[p].dep = job[p].dep
      /\ job'[p].mem = job[p].mem /\ job'[p].list = job[p].list
      /\ \A q \in Process : q # p => job'[q] = job[q]
  BY <1>1, GotoFrame DEF SaveDeployment, Label
<1>3. TypeOK'
  BY <1>1, <1>2 DEF IInv, TypeOK, SaveDeployment, remote, ids, history
<1>4. JobOK'
  BY <1>1, <1>2 DEF IInv, JobOK, Starting, Handling
<1>5. ~Stopping(p) /\ UNCHANGED <<ctrs, dock, work, drawn, cut>>
  BY <1>1 DEF SaveDeployment, Stopping, remote, ids, history
<1> QED BY <1>2, <1>3, <1>4, <1>5, QuietStep DEF Starting

\* Every return of an operation: the process forgets what it held.
LEMMA FinishFrame ==
  ASSUME TypeOK, NEW p \in Process, Finish(p)
  PROVE  /\ job' \in [Process -> Job] /\ job'[p] = Idle
         /\ \A q \in Process : q # p => job'[q] = job[q]
         /\ lock' \in {"free", "server", "cli"}
  BY IdleIsJob, BecomeFrame DEF Finish, TypeOK

\* The returns that save nothing or only a deployment record keep the invariant.
LEMMA FinishStep ==
  ASSUME IInv, NEW p \in Process, Finish(p), ~Stopping(p),
         deps' \in [DepId -> Deployment \cup {None}],
         UNCHANGED <<nodes, ctrs, dock, remote, ids, history>>
  PROVE  IInv'
<1>1. /\ job' \in [Process -> Job] /\ job'[p] = Idle
      /\ \A q \in Process : q # p => job'[q] = job[q]
      /\ lock' \in {"free", "server", "cli"}
  BY FinishFrame DEF IInv
<1>2. TypeOK'
  BY <1>1 DEF IInv, TypeOK, remote, ids, history
<1>3. Idle.pc = "idle" /\ Idle.op = "none" /\ Idle.list = NoContainers
  BY DEF Idle
<1>4. JobOK'
  BY <1>1, <1>3 DEF IInv, JobOK, Starting, Handling
<1>5. \A c \in Cid : job'[p].list[c] = None
  BY <1>1, <1>3 DEF NoContainers
<1>6. UNCHANGED <<ctrs, dock, work, drawn, cut>>
  BY DEF remote, ids, history
<1> QED BY <1>1, <1>2, <1>3, <1>4, <1>5, <1>6, QuietStep DEF Starting

\* The returns of create, scale and delete, one by one.
LEMMA ReturnStep ==
  ASSUME IInv, NEW p \in Process,
         Fail(p) \/ UpdateSave(p) \/ DeleteDeploymentRecord(p) \/ ScaleSave(p)
  PROVE  IInv'
<1>1. ~Stopping(p) /\ Finish(p) /\ UNCHANGED <<nodes, ctrs, dock, remote, ids, history>>
  BY DEF Fail, UpdateSave, DeleteDeploymentRecord, ScaleSave, Stopping, At
<1>2. deps \in [DepId -> Deployment \cup {None}]
  BY DEF IInv, TypeOK
<1>3. /\ job[p].dep \in DepId
      /\ job[p].op \in {"create", "scale"} => job[p].mem \in Deployment
      /\ job[p].pc = "save_status" => job[p].op = "create"
  BY DEF IInv, JobOK, Fail, UpdateSave, DeleteDeploymentRecord, ScaleSave, At
<1>4. \A s \in {"running", "failed"} : job[p].mem \in Deployment
        => [job[p].mem EXCEPT !.status = s] \in Deployment
  BY DEF Deployment
<1>5. deps' \in [DepId -> Deployment \cup {None}]
  BY <1>2, <1>3, <1>4 DEF Fail, UpdateSave, DeleteDeploymentRecord, ScaleSave, At
<1> QED BY <1>1, <1>5, FinishStep

\* updateDeploymentStatus reads the record again, or returns when it is gone.
LEMMA UpdateGetStep ==
  ASSUME IInv, NEW p \in Process, UpdateGet(p)
  PROVE  IInv'
<1>1. /\ job[p].pc = "schedule" /\ job[p].op = "create" /\ job[p].dep \in DepId
      /\ job \in [Process -> Job] /\ ~Stopping(p)
      /\ UNCHANGED <<db, dock, remote, ids, history>>
  BY DEF UpdateGet, At, IInv, JobOK, TypeOK, Stopping
<1>2. CASE deps[job[p].dep] = None /\ Finish(p)
  <2>1. deps' \in [DepId -> Deployment \cup {None}]
    BY <1>1 DEF IInv, TypeOK, db
  <2> QED BY <1>1, <1>2, <2>1, FinishStep DEF db
<1>3. CASE /\ deps[job[p].dep] # None
           /\ Become(p, [job[p] EXCEPT !.pc = "count", !.mem = deps[job[p].dep]])
           /\ UNCHANGED lock
  <2> DEFINE j == [job[p] EXCEPT !.pc = "count", !.mem = deps[job[p].dep]]
  <2>1. deps[job[p].dep] \in Deployment /\ "count" \in Label
    BY <1>1, <1>3 DEF IInv, TypeOK, Label
  <2>2. /\ j \in Job /\ j.pc = "count" /\ j.op = "create" /\ j.dep = job[p].dep
        /\ j.mem \in Deployment /\ j.list = job[p].list
    BY <1>1, <2>1 DEF Job
  <2>3. /\ job' \in [Process -> Job] /\ job'[p] = j
        /\ \A q \in Process : q # p => job'[q] = job[q]
    BY <1>1, <1>3, <2>2, BecomeFrame
  <2> HIDE DEF j
  <2>4. TypeOK'
    BY <1>1, <1>3, <2>3 DEF IInv, TypeOK, db, remote, ids, history
  <2>5. JobOK'
    BY <1>1, <2>2, <2>3 DEF IInv, JobOK, Starting, Handling
  <2> QED BY <1>1, <2>2, <2>3, <2>4, <2>5, QuietStep DEF db, remote, ids, history, Starting
<1> QED BY <1>2, <1>3 DEF UpdateGet

\* updateDeploymentStatus computes a status of the right type.
LEMMA UpdateCountStep ==
  ASSUME IInv, NEW p \in Process, UpdateCount(p)
  PROVE  IInv'
<1> DEFINE st == StatusOf(job[p].mem.replicas, Cardinality(RunningOf(job[p].dep)),
                          Cardinality(FailedOf(job[p].dep)))
           j == [job[p] EXCEPT !.pc = "save_status", !.mem.status = st]
<1>1. /\ job[p].pc = "count" /\ job[p].op = "create" /\ job[p].dep \in DepId
      /\ job[p].mem \in Deployment
      /\ job \in [Process -> Job] /\ ~Stopping(p)
      /\ UNCHANGED <<lock, db, dock, remote, ids, history>>
  BY DEF UpdateCount, At, IInv, JobOK, TypeOK, Stopping
<1>2. st \in {"pending", "running", "failed"} /\ "save_status" \in Label
  BY DEF StatusOf, Label
<1> HIDE DEF st
<1>3. [job[p].mem EXCEPT !.status = st] \in Deployment
  BY <1>1, <1>2 DEF Deployment
<1>4. /\ j \in Job /\ j.pc = "save_status" /\ j.op = "create" /\ j.dep = job[p].dep
      /\ j.mem \in Deployment /\ j.list = job[p].list
  BY <1>1, <1>2, <1>3 DEF Job
<1>5. /\ job' \in [Process -> Job] /\ job'[p] = j
      /\ \A q \in Process : q # p => job'[q] = job[q]
  BY <1>1, <1>4, BecomeFrame DEF UpdateCount, st
<1> HIDE DEF j
<1>6. TypeOK'
  BY <1>1, <1>5 DEF IInv, TypeOK, db, remote, ids, history
<1>7. JobOK'
  BY <1>1, <1>4, <1>5 DEF IInv, JobOK, Starting, Handling
<1> QED BY <1>1, <1>4, <1>5, <1>6, <1>7, QuietStep DEF db, remote, ids, history, Starting

\* The delete path up to the first stop, and the choice of what to do with
\* the next container.
LEMMA BeginDeleteStep ==
  ASSUME IInv, NEW p \in Process, NEW d \in DepId, BeginDelete(p, d)
  PROVE  IInv'
<1> DEFINE j == [Idle EXCEPT !.pc = "list", !.op = "delete", !.dep = d]
<1>1. /\ Become(p, j) /\ job \in [Process -> Job] /\ ~Stopping(p)
      /\ UNCHANGED <<db, dock, remote, ids, history>>
      /\ lock' \in {"free", "server", "cli"}
  BY DEF BeginDelete, Ready, Enter, At, IInv, TypeOK, Stopping
<1>2. "list" \in Label
  BY DEF Label
<1>3. j \in Job /\ j.pc = "list" /\ j.op = "delete" /\ j.dep = d /\ j.list = NoContainers
  BY <1>2, IdleIsJob DEF Job, Idle
<1>4. /\ job' \in [Process -> Job] /\ job'[p] = j
      /\ \A q \in Process : q # p => job'[q] = job[q]
  BY <1>1, <1>3, BecomeFrame
<1> HIDE DEF j
<1>5. TypeOK'
  BY <1>1, <1>4 DEF IInv, TypeOK, db, remote, ids, history
<1>6. JobOK'
  BY <1>3, <1>4 DEF IInv, JobOK, Starting, Handling
<1>7. \A c \in Cid : job'[p].list[c] = None
  BY <1>3, <1>4 DEF NoContainers
<1> QED BY <1>1, <1>3, <1>4, <1>5, <1>6, <1>7, QuietStep
        DEF db, remote, ids, history, Starting

\* What a process lists for removal are records of the database.
LEMMA ListedType ==
  ASSUME TypeOK, NEW S
  PROVE  /\ Listed(S) \in [Cid -> Container \cup {None}]
         /\ \A c \in Cid : Listed(S)[c] \in {None, ctrs[c]}
  BY DEF Listed, TypeOK

\* DeleteDeployment takes its snapshot of the container records.
LEMMA DeleteListStep ==
  ASSUME IInv, NEW p \in Process, DeleteList(p)
  PROVE  IInv'
<1> DEFINE L == Listed(CtrsOf(job[p].dep))
           j == [job[p] EXCEPT !.pc = "stop", !.list = L]
<1>1. /\ job[p].pc = "list" /\ job \in [Process -> Job] /\ ~Stopping(p)
      /\ job[p].dep \in DepId /\ job[p].op \in {"delete", "scale"}
      /\ UNCHANGED <<lock, db, dock, remote, ids, history>>
  BY DEF DeleteList, At, IInv, JobOK, TypeOK, Stopping
<1>2. L \in [Cid -> Container \cup {None}] /\ \A c \in Cid : L[c] \in {None, ctrs[c]}
  BY ListedType DEF IInv
<1>3. "stop" \in Label
  BY DEF Label
<1> HIDE DEF L
<1>4. /\ j \in Job /\ j.pc = "stop" /\ j.op = job[p].op /\ j.dep = job[p].dep
      /\ j.mem = job[p].mem /\ j.list = L
  BY ZenonT(60), <1>1, <1>2, <1>3 DEF Job
<1>5. /\ job' \in [Process -> Job] /\ job'[p] = j
      /\ \A q \in Process : q # p => job'[q] = job[q]
  BY <1>1, <1>4, BecomeFrame DEF DeleteList, L
<1> HIDE DEF j
<1>6. TypeOK'
  BY <1>1, <1>5 DEF IInv, TypeOK, db, remote, ids, history
<1>7. JobOK'
  BY <1>1, <1>4, <1>5 DEF IInv, JobOK, Starting, Handling
<1> QED BY <1>1, <1>2, <1>4, <1>5, <1>6, <1>7, QuietStep DEF db, remote, ids, history, Starting

\* stopContainer looks at the record as listed and decides what to do.
LEMMA StopContainerStep ==
  ASSUME IInv, NEW p \in Process, NEW c \in Cid, StopContainer(p, c)
  PROVE  IInv'
<1> DEFINE r == job[p].list[c]
           j(l) == [job[p] EXCEPT !.pc = l, !.cur = c]
<1>1. /\ job[p].pc = "stop" /\ job \in [Process -> Job] /\ ~Stopping(p)
      /\ job[p].dep \in DepId /\ job[p].op \in {"delete", "scale"} /\ r \in Container
      /\ UNCHANGED <<db, dock, remote, ids, history>>
  BY DEF StopContainer, At, IInv, JobOK, TypeOK, Stopping, Job
<1>2. {"docker_stop", "save_stopped", "delete_record"} \subseteq Label
  BY DEF Label
<1>3. ASSUME NEW l \in {"docker_stop", "save_stopped", "delete_record"},
             Become(p, j(l)), UNCHANGED lock
      PROVE  /\ job' \in [Process -> Job]
             /\ \A q \in Process : q # p => job'[q] = job[q]
             /\ job'[p].pc = l /\ job'[p].cur = c /\ job'[p].list = job[p].list
             /\ TypeOK' /\ JobOK'
  <2>1. /\ j(l) \in Job /\ j(l).pc = l /\ j(l).op = job[p].op /\ j(l).dep = job[p].dep
        /\ j(l).mem = job[p].mem /\ j(l).cur = c /\ j(l).list = job[p].list
    BY <1>1, <1>2 DEF Job
  <2>2. /\ job' \in [Process -> Job] /\ job'[p] = j(l)
        /\ \A q \in Process : q # p => job'[q] = job[q]
    BY <1>1, <1>3, <2>1, BecomeFrame
  <2> HIDE DEF j
  <2>3. TypeOK'
    BY <1>1, <1>3, <2>2 DEF IInv, TypeOK, db, remote, ids, history
  <2>4. JobOK'
    BY <1>1, <2>1, <2>2 DEF IInv, JobOK, Starting, Handling
  <2> QED BY <2>1, <2>2, <2>3, <2>4
<1>4. CASE \E l \in {"save_stopped", "delete_record"} : Become(p, j(l)) /\ UNCHANGED lock
  BY <1>1, <1>3, <1>4, QuietStep DEF db, remote, ids, history, Starting
<1>5. CASE r.node = LocalNode /\ r.docker /\ Become(p, j("docker_stop")) /\ UNCHANGED lock
  <2>1. /\ \A q \in Process : q # p => job'[q] = job[q]
        /\ job'[p].pc = "docker_stop" /\ job'[p].cur = c /\ job'[p].list = job[p].list
        /\ TypeOK' /\ JobOK'
    BY <1>3, <1>5
  <2>2. UNCHANGED <<ctrs, dock, work, drawn, cut>>
    BY <1>1 DEF db, remote, ids, history
  <2>3. StartOK' /\ StopOK'
    BY <1>1, <1>5, <2>1, <2>2 DEF IInv, StartOK, StopOK, Starting
  <2>4. WorkOK'
    BY <2>1, <2>2 DEF IInv, WorkOK
  <2>5. OneStarter' /\ RunningHasDocker'
    BY <2>1, <2>2 DEF IInv, OneStarter, RunningHasDocker, Starts, Starting
  <2>6. \A x \in Cid, n \in Node : PlacedOn(x, n)' => PlacedOn(x, n)
    BY <2>1, <2>2 DEF PlacedOn, Starts, Starting
  <2>7. OnePlace' /\ Undrawn'
    BY <2>2, <2>6 DEF IInv, OnePlace, Undrawn
  <2>8. RunningIsReal'
    BY <1>1, <2>1, <2>2 DEF IInv, RunningIsReal, Stopping
  <2> QED BY <2>1, <2>3, <2>4, <2>5, <2>7, <2>8 DEF IInv
<1>6. CASE Finish(p)
  <2>1. deps' \in [DepId -> Deployment \cup {None}]
    BY <1>1 DEF IInv, TypeOK, db
  <2> QED BY <1>1, <1>6, <2>1, FinishStep DEF db
<1> QED BY <1>4, <1>5, <1>6 DEF StopContainer

\* Scale: its first save, and the choice of what to add or to remove.
LEMMA BeginScaleStep ==
  ASSUME IInv, NEW d \in DepId, NEW r \in 0 .. MaxReplicas, BeginScale(d, r)
  PROVE  IInv'
<1> DEFINE rec == [deps[d] EXCEPT !.replicas = r, !.status = "scaling"]
           j == [Idle EXCEPT !.pc = "count_running", !.op = "scale", !.dep = d, !.mem = rec]
<1>1. /\ deps' = [deps EXCEPT ![d] = rec] /\ Become(Cli, j) /\ Cli \in Process
      /\ job \in [Process -> Job] /\ ~Stopping(Cli) /\ deps[d] \in Deployment
      /\ UNCHANGED <<nodes, ctrs, dock, remote, ids, history>>
      /\ lock' \in {"free", "server", "cli"}
  BY DEF BeginScale, Ready, Enter, At, IInv, TypeOK, Stopping, Process
<1>2. "count_running" \in Label /\ r \in Nat
  BY DEF Label
<1>3. rec \in Deployment
  BY <1>1, <1>2 DEF Deployment
<1> HIDE DEF rec
<1>4. /\ j \in Job /\ j.pc = "count_running" /\ j.op = "scale" /\ j.dep = d
      /\ j.mem = rec /\ j.list = NoContainers
  BY <1>2, <1>3, IdleIsJob DEF Job, Idle
<1>5. /\ job' \in [Process -> Job] /\ job'[Cli] = j
      /\ \A q \in Process : q # Cli => job'[q] = job[q]
  BY <1>1, <1>4, BecomeFrame
<1> HIDE DEF j
<1>6. TypeOK'
  BY <1>1, <1>3, <1>5 DEF IInv, TypeOK, remote, ids, history
<1>7. JobOK'
  BY <1>3, <1>4, <1>5 DEF IInv, JobOK, Starting, Handling
<1>8. \A c \in Cid : job'[Cli].list[c] = None
  BY <1>4, <1>5 DEF NoContainers
<1> QED BY <1>1, <1>4, <1>5, <1>6, <1>7, <1>8, QuietStep
        DEF remote, ids, history, Starting

\* Finitely many container IDs: the counts of records are numbers.
LEMMA CidFinite == IsFiniteSet(Cid)
<1>1. IsFiniteSet(1 .. PerDep)
  BY ConstantAssumption, FS_Interval
<1> QED BY <1>1, ConstantAssumption, FS_Product DEF Cid

\* ScaleDeployment counts, and starts to add or to remove.
LEMMA ScaleCountStep ==
  ASSUME IInv, NEW p \in Process, ScaleCount(p)
  PROVE  IInv'
<1> DEFINE running == RunningOf(job[p].dep)
           more == job[p].mem.replicas - Cardinality(running)
<1>1. /\ job[p].pc = "count_running" /\ job[p].op = "scale" /\ job[p].dep \in DepId
      /\ job[p].mem \in Deployment /\ job \in [Process -> Job] /\ ~Stopping(p)
      /\ UNCHANGED <<lock, db, dock, remote, ids, history>>
  BY DEF ScaleCount, At, IInv, JobOK, TypeOK, Stopping
<1>2. more \in Int
  <2>1. IsFiniteSet(running)
    BY CidFinite, FS_Subset DEF RunningOf, CtrsOf
  <2> QED BY <1>1, <2>1, FS_CardinalityType DEF Deployment
<1> HIDE DEF more, running
<1>3. {"schedule", "stop"} \subseteq Label
  BY DEF Label
<1>4. ASSUME NEW j \in Job, Become(p, j), j.pc \in {"schedule", "stop"},
             j.op = job[p].op, j.dep = job[p].dep, j.mem = job[p].mem,
             \A c \in Cid : j.list[c] \in {None, job[p].list[c], ctrs[c]}
      PROVE  IInv'
  <2>1. /\ job' \in [Process -> Job] /\ job'[p] = j
        /\ \A q \in Process : q # p => job'[q] = job[q]
    BY <1>1, <1>4, BecomeFrame
  <2>2. TypeOK'
    BY <1>1, <2>1 DEF IInv, TypeOK, db, remote, ids, history
  <2>3. JobOK'
    BY <1>1, <1>4, <2>1 DEF IInv, JobOK, Starting, Handling
  <2> QED BY <1>1, <1>4, <2>1, <2>2, <2>3, QuietStep DEF db, remote, ids, history, Starting
<1>5. CASE more >= 0 /\ Become(p, [job[p] EXCEPT !.pc = "schedule", !.left = more])
  <2> DEFINE j == [job[p] EXCEPT !.pc = "schedule", !.left = more]
  <2>1. more \in Nat
    BY <1>2, <1>5
  <2>2. /\ j \in Job /\ j.pc = "schedule" /\ j.op = job[p].op /\ j.dep = job[p].dep
        /\ j.mem = job[p].mem /\ j.list = job[p].list
    BY <1>1, <1>3, <2>1 DEF Job
  <2> QED BY <1>4, <1>5, <2>2
<1>6. CASE \E S \in SUBSET running : Become(p, [job[p] EXCEPT !.pc = "stop", !.list = Listed(S)])
  <2>1. PICK S \in SUBSET running :
               Become(p, [job[p] EXCEPT !.pc = "stop", !.list = Listed(S)])
    BY <1>6
  <2> DEFINE j == [job[p] EXCEPT !.pc = "stop", !.list = Listed(S)]
  <2>2. /\ Listed(S) \in [Cid -> Container \cup {None}]
        /\ \A c \in Cid : Listed(S)[c] \in {None, ctrs[c]}
    BY ListedType DEF IInv
  <2>3. /\ j \in Job /\ j.pc = "stop" /\ j.op = job[p].op /\ j.dep = job[p].dep
        /\ j.mem = job[p].mem /\ j.list = Listed(S)
    BY ZenonT(60), <1>1, <1>3, <2>2 DEF Job
  <2> QED BY ZenonT(60), <1>4, <2>1, <2>2, <2>3
<1> QED BY <1>5, <1>6 DEF ScaleCount, more, running

\* The server comes and goes with nothing under way, and a node is removed.
LEMMA ServerStep ==
  ASSUME IInv, ServerStart \/ ServerStop
                \/ \E n \in Node, force \in BOOLEAN : ServerRemove(n, force)
  PROVE  IInv'
<1>1. UNCHANGED <<deps, ctrs, dock, work, workerDb, job, born, drawn, crashes, cut>>
  BY DEF ServerStart, ServerStop, ServerRemove, db, remote, ids, history
<1>2. TypeOK'
  BY <1>1 DEF IInv, TypeOK, ServerStart, ServerStop, ServerRemove, db
<1>3. JobOK' /\ StartOK' /\ StopOK' /\ WorkOK'
  BY <1>1 DEF IInv, JobOK, StartOK, StopOK, WorkOK
<1>4. OneStarter' /\ RunningHasDocker' /\ RunningIsReal'
  BY <1>1 DEF IInv, OneStarter, RunningHasDocker, RunningIsReal, Starts, Stopping
<1>5. \A c \in Cid, n \in Node : PlacedOn(c, n)' => PlacedOn(c, n)
  BY <1>1 DEF PlacedOn, Starts
<1>6. OnePlace' /\ Undrawn'
  BY <1>1, <1>5 DEF IInv, OnePlace, Undrawn
<1> QED BY <1>2, <1>3, <1>4, <1>6 DEF IInv

-----------------------------------------------------------------------------
(* Bringing up a container.                                                 *)

\* createContainer makes a record of the right type.
LEMMA NewContainerType ==
  ASSUME NEW j \in Job, j.mem \in Deployment, NEW n \in Node
  PROVE  /\ NewContainer(j, n) \in Container
         /\ NewContainer(j, n).node = n /\ ~NewContainer(j, n).docker
         /\ NewContainer(j, n).status = "pending"
  BY DEF NewContainer, Job, Deployment, Container

\* The scheduler returns one of the nodes it was given.
LEMMA ChoicesAreNodes ==
  ASSUME NEW s, NEW N, NEW load, NEW n \in Choices(s, N, load, LocalNode)
  PROVE  n \in N
  BY DEF Choices, SpreadChoices, PackChoices, BinPackChoices, LocalFirstChoices

\* The new container has an ID nothing mentions yet.
LEMMA ScheduleStep ==
  ASSUME IInv, NEW p \in Process, Schedule(p)
  PROVE  IInv'
<1> USE ConstantAssumption, NoneAssumption
<1> DEFINE d == job[p].dep
<1>1. /\ job[p].pc = "schedule" /\ job[p].left > 0 /\ job[p].op \in {"create", "scale"}
      /\ job[p].mem \in Deployment /\ d \in DepId /\ job \in [Process -> Job]
      /\ job[p] \in Job /\ ~Stopping(p)
      /\ UNCHANGED <<lock, db, dock, remote, born, history>>
  BY DEF Schedule, At, IInv, JobOK, TypeOK, Stopping
<1>2. CASE Goto(p, "fail") /\ UNCHANGED drawn
  <2>1. /\ job' \in [Process -> Job] /\ job'[p].pc = "fail"
        /\ job'[p].op = job[p].op /\ job'[p].dep = d
        /\ job'[p].mem = job[p].mem /\ job'[p].list = job[p].list
        /\ \A q \in Process : q # p => job'[q] = job[q]
    BY <1>1, <1>2, GotoFrame DEF Label
  <2>2. TypeOK'
    BY <1>1, <1>2, <2>1 DEF IInv, TypeOK, db, remote, history
  <2>3. JobOK'
    BY <1>1, <2>1 DEF IInv, JobOK, Starting, Handling
  <2> QED BY <1>1, <1>2, <2>1, <2>2, <2>3, QuietStep DEF db, remote, history, Starting
<1>3. ASSUME NEW n \in Choices(job[p].mem.place.strategy, nodes \cap job[p].mem.place.targets,
                              Load, LocalNode),
             drawn[d] < PerDep, drawn' = [drawn EXCEPT ![d] = @ + 1],
             Become(p, [job[p] EXCEPT !.pc = "save_container",
                    !.cur = <<d, drawn[d] + 1>>, !.obj = NewContainer(job[p], n)])
      PROVE  IInv'
  <2> DEFINE c == <<d, drawn[d] + 1>>
             o == NewContainer(job[p], n)
             j == [job[p] EXCEPT !.pc = "save_container", !.cur = c, !.obj = o]
  <2>1. n \in Node
    BY <1>3, ChoicesAreNodes DEF IInv, TypeOK
  <2>2. o \in Container /\ o.node = n /\ ~o.docker /\ o.status = "pending"
    BY <1>1, <2>1, NewContainerType
  <2>3. drawn[d] \in 0 .. PerDep /\ drawn \in [DepId -> 0 .. PerDep]
    BY <1>1 DEF IInv, TypeOK
  <2>4. c \in Cid /\ c[1] = d /\ c[2] = drawn[d] + 1
    BY <1>1, <1>3, <2>3 DEF Cid
  <2>5. "save_container" \in Label
    BY DEF Label
  <2>6. \A m \in Node : ~PlacedOn(c, m)
    BY <2>3, <2>4 DEF IInv, Undrawn
  <2> HIDE DEF c, o
  <2>7. /\ j \in Job /\ j.pc = "save_container" /\ j.op = job[p].op /\ j.dep = d
        /\ j.mem = job[p].mem /\ j.left = job[p].left /\ j.list = job[p].list
        /\ j.cur = c /\ j.obj = o
    BY <1>1, <2>2, <2>4, <2>5 DEF Job
  <2>8. /\ job' \in [Process -> Job] /\ job'[p] = j
        /\ \A q \in Process : q # p => job'[q] = job[q]
    BY <1>1, <1>3, <2>7, BecomeFrame DEF c, o
  <2> HIDE DEF j
  <2>9. UNCHANGED <<ctrs, dock, work, cut>>
    BY <1>1 DEF db, remote, history
  <2>10. /\ ctrs[c] = None
         /\ \A q \in Process : job[q].list[c] = None
         /\ \A q \in Process : ~Starts(q, c)
    <3>1. ctrs[c] \in Container \cup {None}
      BY <2>4 DEF IInv, TypeOK
    <3>2. ctrs[c] = None
      BY <2>6, <3>1 DEF PlacedOn, Container
    <3>3. ASSUME NEW q \in Process PROVE job[q].list[c] = None /\ ~Starts(q, c)
      <4>1. job[q].list[c] \in Container \cup {None}
        BY <2>4 DEF IInv, TypeOK, Job
      <4>2. Starts(q, c) => job[q].obj \in Container
        BY DEF IInv, JobOK, Starts
      <4> QED BY <2>6, <4>1, <4>2 DEF PlacedOn, Container
    <3> QED BY <3>2, <3>3
  <2>11. TypeOK'
    <3>1. drawn[d] + 1 \in 0 .. PerDep
      BY <1>3, <2>3
    <3>2. drawn' \in [DepId -> 0 .. PerDep]
      BY <1>3, <2>3, <3>1
    <3> QED BY <1>1, <2>8, <2>9, <3>2 DEF IInv, TypeOK, db, remote, history
  <2>12. JobOK'
    BY <1>1, <2>2, <2>4, <2>7, <2>8 DEF IInv, JobOK, Starting, Handling
  <2>13. StartOK' /\ StopOK' /\ WorkOK'
    BY SMTT(40), <2>2, <2>7, <2>8, <2>9 DEF IInv, StartOK, StopOK, WorkOK, Starting
  <2>14. OneStarter' /\ RunningHasDocker'
    BY <1>1, <2>7, <2>8, <2>9, <2>10 DEF IInv, OneStarter, RunningHasDocker, Starts, Starting
  <2>15. \A x \in Cid, m \in Node : PlacedOn(x, m)' => PlacedOn(x, m) \/ (x = c /\ m = n)
    BY <2>2, <2>7, <2>8, <2>9 DEF PlacedOn, Starts, Starting
  <2>16. OnePlace'
    BY <2>6, <2>15 DEF IInv, OnePlace
  <2>17. Undrawn'
    <3> SUFFICES ASSUME NEW x \in Cid, NEW m \in Node, x[2] > drawn'[x[1]]
                 PROVE  ~PlacedOn(x, m)'
      BY DEF Undrawn
    <3>1. x[1] \in DepId /\ x[2] \in Nat
      BY DEF Cid
    <3>2. x # c /\ x[2] > drawn[x[1]]
      BY <1>3, <2>3, <2>4, <3>1
    <3> QED BY <2>15, <3>2 DEF IInv, Undrawn
  <2>18. RunningIsReal'
    BY <1>1, <2>7, <2>8, <2>9 DEF IInv, RunningIsReal, Stopping
  <2> QED BY <2>11, <2>12, <2>13, <2>14, <2>16, <2>17, <2>18 DEF IInv
<1> QED BY <1>2, <1>3 DEF Schedule

\* What holds of a process that brings up a container.
LEMMA StartFacts ==
  ASSUME IInv, NEW p \in Process, job[p].pc \in Starting
  PROVE  /\ job[p].cur \in Cid /\ job[p].obj \in Container /\ job[p].left > 0
         /\ job[p].op \in {"create", "scale"} /\ job[p].mem \in Deployment
         /\ job \in [Process -> Job] /\ job[p] \in Job /\ ~Stopping(p)
         /\ job[p].dep \in DepId
  BY DEF IInv, JobOK, TypeOK, Starting, Stopping

\* The first save of a container's record, before anything is started.
LEMMA SaveContainerStep ==
  ASSUME IInv, NEW p \in Process, SaveContainer(p)
  PROVE  IInv'
<1> DEFINE c == job[p].cur
           l == IF job[p].obj.node = LocalNode THEN "docker_create" ELSE "post"
<1> USE ConstantAssumption, NoneAssumption
<1>1. job[p].pc = "save_container" /\ job[p].pc \in Starting
  BY DEF SaveContainer, At, Starting
<1>2. l \in Label
  BY DEF Label
<1>3. /\ job' \in [Process -> Job] /\ job'[p].pc = l
      /\ job'[p].op = job[p].op /\ job'[p].dep = job[p].dep
      /\ job'[p].mem = job[p].mem /\ job'[p].left = job[p].left
      /\ job'[p].cur = job[p].cur
      /\ job'[p].obj = job[p].obj /\ job'[p].list = job[p].list
      /\ \A q \in Process : q # p => job'[q] = job[q]
  BY <1>1, <1>2, GotoFrame, StartFacts DEF SaveContainer
<1>4. /\ ctrs' = [ctrs EXCEPT ![c] = job[p].obj]
      /\ UNCHANGED <<lock, nodes, deps, dock, remote, ids, history>>
  BY DEF SaveContainer
<1>5. TypeOK'
  BY <1>1, <1>3, <1>4, StartFacts DEF IInv, TypeOK, remote, ids, history
<1>6. JobOK'
  BY <1>1, <1>3, StartFacts DEF IInv, JobOK, Starting, Handling
<1>7. StartOK'
  BY <1>1, <1>3, <1>4 DEF IInv, StartOK, Starting, remote
<1>8. StopOK'
  BY <1>1, <1>3 DEF IInv, StopOK
<1>9. WorkOK'
  BY <1>1, <1>3, <1>4, StartFacts DEF IInv, WorkOK, StartOK, TypeOK, remote
<1>10. OneStarter'
  BY <1>1, <1>3, <1>4, StartFacts DEF IInv, OneStarter, Starts, StartOK, Starting, TypeOK
<1>11. RunningHasDocker'
  BY <1>1, <1>3, <1>4, StartFacts DEF IInv, RunningHasDocker, StartOK, Starting, TypeOK
<1>12. \A x \in Cid, n \in Node : PlacedOn(x, n)' => PlacedOn(x, n)
  BY <1>1, <1>3, <1>4, StartFacts DEF IInv, PlacedOn, Starts, Starting, TypeOK, remote
<1>13. OnePlace' /\ Undrawn'
  BY <1>12, <1>4 DEF IInv, OnePlace, Undrawn, ids
<1>14. RunningIsReal'
  BY <1>1, <1>3, <1>4, StartFacts DEF IInv, RunningIsReal, StartOK, Starting, Stopping, TypeOK, history
<1> QED BY <1>5, <1>6, <1>7, <1>8, <1>9, <1>10, <1>11, <1>13, <1>14 DEF IInv

\* The save of a container that was started: Docker runs it.
LEMMA SaveRunningStep ==
  ASSUME IInv, NEW p \in Process, SaveRunning(p)
  PROVE  IInv'
<1> DEFINE c == job[p].cur
           j == [job[p] EXCEPT !.pc = "schedule", !.left = @ - 1, !.idx = @ + 1,
                               !.cur = None, !.obj = None]
<1> USE ConstantAssumption, NoneAssumption
<1>1. job[p].pc = "save_running" /\ job[p].pc \in Starting /\ "schedule" \in Label
  BY DEF SaveRunning, At, Starting, Label
<1>a. job[p] \in Job /\ job[p].left - 1 \in Nat /\ job[p].idx + 1 \in Nat
  BY <1>1, StartFacts DEF Job
<1>2. /\ j \in Job /\ j.pc = "schedule" /\ j.op = job[p].op /\ j.dep = job[p].dep
      /\ j.mem = job[p].mem /\ j.list = job[p].list
  BY <1>1, <1>a DEF Job
<1>3. /\ job' \in [Process -> Job] /\ job'[p] = j
      /\ \A q \in Process : q # p => job'[q] = job[q]
  BY <1>1, <1>2, BecomeFrame, StartFacts DEF SaveRunning
<1> HIDE DEF j
<1>4. /\ ctrs' = [ctrs EXCEPT ![c] = job[p].obj]
      /\ UNCHANGED <<lock, nodes, deps, dock, remote, ids, history>>
  BY DEF SaveRunning
<1>5. TypeOK'
  BY <1>1, <1>3, <1>4, StartFacts DEF IInv, TypeOK, remote, ids, history
<1>6. JobOK'
  BY <1>1, <1>2, <1>3, StartFacts DEF IInv, JobOK, Starting, Handling
<1>7. StartOK'
  BY <1>1, <1>2, <1>3, <1>4 DEF IInv, StartOK, Starting, remote
<1>8. StopOK'
  BY <1>1, <1>2, <1>3 DEF IInv, StopOK
<1>9. WorkOK'
  BY SMTT(40), <1>1, <1>2, <1>3, <1>4, StartFacts DEF IInv, WorkOK, StartOK, TypeOK, remote
<1>10. OneStarter'
  BY <1>1, <1>2, <1>3, <1>4, StartFacts DEF IInv, OneStarter, Starts, Starting, TypeOK
<1>11. RunningHasDocker'
  BY <1>1, <1>3, <1>4, StartFacts DEF IInv, RunningHasDocker, StartOK, TypeOK
<1>12. \A x \in Cid, n \in Node : PlacedOn(x, n)' => PlacedOn(x, n)
  BY <1>1, <1>2, <1>3, <1>4, StartFacts DEF IInv, PlacedOn, Starts, Starting, TypeOK, remote
<1>13. OnePlace' /\ Undrawn'
  BY <1>12, <1>4 DEF IInv, OnePlace, Undrawn, ids
<1>14. dock[c] # None /\ dock[c].on /\ dock[c].node = job[p].obj.node
  <2>1. dock[c] # None /\ dock[c].on /\ dock[c].node \in Node /\ job[p].obj.node \in Node
    BY <1>1, StartFacts DEF IInv, StartOK, TypeOK, DockerContainer, Container
  <2>2. PlacedOn(c, dock[c].node) /\ PlacedOn(c, job[p].obj.node)
    BY <1>1, <2>1 DEF PlacedOn, Starts
  <2> QED BY <1>1, <2>1, <2>2, StartFacts DEF IInv, OnePlace
<1>15. RunningIsReal'
  BY <1>1, <1>3, <1>4, <1>14, StartFacts DEF IInv, RunningIsReal, Stopping, TypeOK, history
<1> QED BY <1>5, <1>6, <1>7, <1>8, <1>9, <1>10, <1>11, <1>13, <1>15 DEF IInv

\* The error path saves a record that knows no Docker ID.
LEMMA SaveFailedStep ==
  ASSUME IInv, NEW p \in Process, SaveFailed(p)
  PROVE  IInv'
<1> DEFINE c == job[p].cur
<1> USE ConstantAssumption, NoneAssumption
<1>1. /\ job[p].pc \in {"save_remote_failed", "save_failed"}
      /\ \E l \in {"save_failed", "fail"} : Goto(p, l)
      /\ job[p].cur \in Cid /\ job[p].obj \in Container
      /\ job \in [Process -> Job]
  BY DEF SaveFailed, At, IInv, JobOK, Starting, TypeOK
<1>2. /\ job' \in [Process -> Job]
      /\ job'[p].pc \in {"save_failed", "fail"}
      /\ job'[p].op = job[p].op /\ job'[p].dep = job[p].dep
      /\ job'[p].mem = job[p].mem /\ job'[p].left = job[p].left
      /\ job'[p].idx = job[p].idx /\ job'[p].cur = job[p].cur
      /\ job'[p].obj = job[p].obj /\ job'[p].list = job[p].list
      /\ \A q \in Process : q # p => job'[q] = job[q]
  BY <1>1, GotoFrame DEF Label
<1>3. ctrs' = [ctrs EXCEPT ![c] = [job[p].obj EXCEPT !.status = "failed"]]
      /\ UNCHANGED <<lock, nodes, deps, dock, remote, ids, history>>
  BY DEF SaveFailed
<1>4. TypeOK'
  BY <1>1, <1>2, <1>3 DEF IInv, TypeOK, Container, remote, ids, history
<1>5. JobOK'
  BY <1>1, <1>2, <1>3 DEF IInv, JobOK, Starting, Handling
<1>6. StartOK'
  BY <1>1, <1>2, <1>3 DEF IInv, StartOK, Starting, remote
<1>7. StopOK'
  BY <1>1, <1>2, <1>3 DEF IInv, StopOK
<1>8. WorkOK'
  BY <1>1, <1>2, <1>3 DEF IInv, WorkOK, StartOK, Starting, TypeOK, Container, remote
<1>9. OneStarter'
  <2>1. \A q \in Process, x \in Cid : Starts(q, x)' => Starts(q, x)
    BY <1>1, <1>2 DEF Starts, Starting
  <2>2. /\ ctrs'[c] # None /\ ~ctrs'[c].docker
        /\ \A x \in Cid : x # c => ctrs'[x] = ctrs[x]
    BY <1>1, <1>3 DEF IInv, StartOK, Starting, TypeOK, Container
  <2>3. \A q \in Process : job'[q].list = job[q].list
    BY <1>2
  <2> QED BY <2>1, <2>2, <2>3 DEF IInv, OneStarter
<1>10. RunningHasDocker'
  BY <1>1, <1>2, <1>3 DEF IInv, RunningHasDocker, TypeOK, Container
<1>11. \A x \in Cid, n \in Node : PlacedOn(x, n)' => PlacedOn(x, n)
  BY <1>1, <1>2, <1>3 DEF IInv, PlacedOn, Starts, Starting, TypeOK, Container, remote
<1>12. OnePlace' /\ Undrawn'
  BY <1>11, <1>3 DEF IInv, OnePlace, Undrawn, ids
<1>13. RunningIsReal'
  BY <1>1, <1>2, <1>3 DEF IInv, RunningIsReal, Stopping, TypeOK, Container, history
<1> QED BY <1>4, <1>5, <1>6, <1>7, <1>8, <1>9, <1>10, <1>12, <1>13 DEF IInv

\* A failed call: the process goes on to save the record as failed.
LEMMA StartErrorStep ==
  ASSUME IInv, NEW p \in Process, job[p].pc \in {"docker_create", "docker_start", "post", "posted"},
         NEW l \in {"save_failed", "save_remote_failed"}, Goto(p, l),
         UNCHANGED <<lock, db, dock, remote, ids, history>>
  PROVE  IInv'
<1>1. job[p].pc \in Starting
  BY DEF Starting
<1>2. /\ job' \in [Process -> Job] /\ job'[p].pc = l
      /\ job'[p].op = job[p].op /\ job'[p].dep = job[p].dep
      /\ job'[p].mem = job[p].mem /\ job'[p].left = job[p].left
      /\ job'[p].cur = job[p].cur
      /\ job'[p].obj = job[p].obj /\ job'[p].list = job[p].list
      /\ \A q \in Process : q # p => job'[q] = job[q]
  BY <1>1, GotoFrame, StartFacts DEF Label
<1>3. UNCHANGED <<lock, nodes, deps, ctrs, dock, work, workerDb, born, drawn, crashes, cut>>
  BY DEF db, remote, ids, history
<1>4. TypeOK'
  BY <1>2, <1>3 DEF IInv, TypeOK
<1>5. JobOK'
  BY <1>1, <1>2, StartFacts DEF IInv, JobOK, Starting, Handling
<1>6. StartOK' /\ StopOK' /\ WorkOK'
  BY <1>1, <1>2, <1>3 DEF IInv, StartOK, StopOK, WorkOK, Starting
<1>7. OneStarter' /\ RunningHasDocker'
  BY <1>1, <1>2, <1>3 DEF IInv, OneStarter, RunningHasDocker, Starts, Starting
<1>8. \A x \in Cid, n \in Node : PlacedOn(x, n)' => PlacedOn(x, n)
  BY <1>1, <1>2, <1>3 DEF PlacedOn, Starts, Starting
<1>9. OnePlace' /\ Undrawn'
  BY <1>3, <1>8 DEF IInv, OnePlace, Undrawn
<1>10. RunningIsReal'
  BY <1>1, <1>2, <1>3 DEF IInv, RunningIsReal, Stopping, Starting
<1> QED BY <1>4, <1>5, <1>6, <1>7, <1>9, <1>10 DEF IInv

\* docker create on this machine.  The container is not a running one: its
\* record has no Docker ID yet.
LEMMA DockerCreateStep ==
  ASSUME IInv, NEW p \in Process, DockerCreate(p)
  PROVE  IInv'
<1> DEFINE c == job[p].cur
           o == job[p].obj
<1> USE ConstantAssumption, NoneAssumption
<1>1. /\ job[p].pc = "docker_create" /\ job[p].pc \in Starting
      /\ UNCHANGED <<lock, db, remote, ids, history>>
  BY DEF DockerCreate, At, Starting
<1>2. CASE Goto(p, "save_failed") /\ UNCHANGED dock
  BY <1>1, <1>2, StartErrorStep
<1>3. CASE Created(c, o) /\ Goto(p, "docker_start")
  <2>1. /\ job' \in [Process -> Job] /\ job'[p].pc = "docker_start"
        /\ job'[p].op = job[p].op /\ job'[p].dep = job[p].dep
        /\ job'[p].mem = job[p].mem /\ job'[p].left = job[p].left
        /\ job'[p].cur = job[p].cur
        /\ job'[p].obj = job[p].obj /\ job'[p].list = job[p].list
        /\ \A q \in Process : q # p => job'[q] = job[q]
    BY <1>1, <1>3, GotoFrame, StartFacts DEF Label
  <2> DEFINE new == [node |-> o.node, name |-> o.name, port |-> o.port, on |-> FALSE]
  <2>a. new \in DockerContainer /\ new.node = o.node /\ o.node \in Node
    BY <1>1, StartFacts DEF DockerContainer, Container
  <2>2. new \in DockerContainer /\ new # None /\ new.node = o.node
        /\ o.node \in Node /\ o.node = LocalNode
    BY <1>1, <2>a DEF IInv, StartOK
  <2>3. dock' = [dock EXCEPT ![c] = new]
    BY <1>3 DEF Created
  <2> HIDE DEF new
  <2>4. UNCHANGED <<lock, nodes, deps, ctrs, work, workerDb, born, drawn, crashes, cut>>
    BY <1>1 DEF db, remote, ids, history
  <2>5. /\ dock' \in [Cid -> DockerContainer \cup {None}] /\ c \in Cid
        /\ dock'[c] = new /\ \A x \in Cid : x # c => dock'[x] = dock[x]
    BY <1>1, <2>2, <2>3, StartFacts DEF IInv, TypeOK
  <2>6. TypeOK'
    BY <2>1, <2>4, <2>5 DEF IInv, TypeOK
  <2>7. JobOK'
    BY <1>1, <2>1, StartFacts DEF IInv, JobOK, Starting, Handling
  <2>8. work[c] = None
    <3>1. work[c] # None => PlacedOn(c, work[c].ctr.node) /\ work[c].ctr.node \in Node
      BY <2>5 DEF PlacedOn, IInv, TypeOK, Call, Container
    <3>2. PlacedOn(c, o.node)
      BY <1>1 DEF PlacedOn, Starts
    <3> QED BY <2>2, <2>5, <3>1, <3>2 DEF IInv, OnePlace, WorkOK
  <2>9. StartOK'
    <3>1. \A q \in Process : job[q].pc \in Starting /\ job[q].cur = c => q = p
      BY <1>1, <2>5 DEF IInv, OneStarter, Starts
    <3> QED BY <1>1, <2>1, <2>2, <2>4, <2>5, <2>8, <3>1, StartFacts DEF IInv, StartOK, Starting
  <2>10. StopOK'
    BY <1>1, <2>1 DEF IInv, StopOK
  <2>11. WorkOK'
    BY <2>1, <2>4, <2>5, <2>8 DEF IInv, WorkOK
  <2>12. OneStarter' /\ RunningHasDocker'
    BY <1>1, <2>1, <2>4 DEF IInv, OneStarter, RunningHasDocker, Starts, Starting
  <2>13. \A x \in Cid, n \in Node : PlacedOn(x, n)' => PlacedOn(x, n)
    BY <1>1, <2>1, <2>2, <2>4, <2>5 DEF PlacedOn, Starts, Starting
  <2>14. OnePlace' /\ Undrawn'
    BY <2>4, <2>13 DEF IInv, OnePlace, Undrawn
  <2>15. ~(ctrs[c] # None /\ ctrs[c].status = "running")
    BY <1>1, <2>5 DEF IInv, OneStarter, RunningHasDocker, Starts
  <2>16. RunningIsReal'
    BY <1>1, <2>1, <2>4, <2>5, <2>15 DEF IInv, RunningIsReal, Stopping
  <2> QED BY <2>6, <2>7, <2>9, <2>10, <2>11, <2>12, <2>14, <2>16 DEF IInv
<1> QED BY <1>2, <1>3 DEF DockerCreate, NotCreated

\* ContainerStart on this machine: the record in memory becomes a running one.
LEMMA DockerStartStep ==
  ASSUME IInv, NEW p \in Process, DockerStart(p)
  PROVE  IInv'
<1> DEFINE c == job[p].cur
           j == [job[p] EXCEPT !.pc = "save_running", !.obj.docker = TRUE,
                               !.obj.status = "running"]
<1> USE ConstantAssumption, NoneAssumption
<1>1. /\ job[p].pc = "docker_start" /\ job[p].pc \in Starting
      /\ UNCHANGED <<lock, db, remote, ids, history>>
  BY DEF DockerStart, At, Starting
<1>2. CASE Goto(p, "save_failed") /\ UNCHANGED dock
  BY <1>1, <1>2, StartErrorStep
<1>3. CASE Started(c, job[p].obj) /\ Become(p, j)
  <2>1. "save_running" \in Label
    BY DEF Label
  <2> DEFINE o == [job[p].obj EXCEPT !.docker = TRUE, !.status = "running"]
  <2>2. o \in Container /\ o.docker /\ o.node = job[p].obj.node
    BY <1>1, StartFacts DEF Container
  <2>3. /\ j \in Job /\ j.pc = "save_running" /\ j.op = job[p].op /\ j.dep = job[p].dep
        /\ j.mem = job[p].mem /\ j.left = job[p].left /\ j.cur = c /\ j.list = job[p].list
        /\ j.obj = o
    BY ZenonT(60), <1>1, <2>1, <2>2, StartFacts DEF Job
  <2> HIDE DEF o
  <2>5. /\ job' \in [Process -> Job] /\ job'[p] = j
        /\ \A q \in Process : q # p => job'[q] = job[q]
    BY <1>1, <1>3, <2>3, BecomeFrame, StartFacts
  <2> HIDE DEF j
  <2>4. j.obj \in Container /\ j.obj.docker /\ j.obj.node = job[p].obj.node
    BY <2>2, <2>3
  <2>6. UNCHANGED <<lock, nodes, deps, ctrs, work, workerDb, born, drawn, crashes, cut>>
    BY <1>1 DEF db, remote, ids, history
  <2>7. c \in Cid /\ dock[c] \in DockerContainer /\ dock[c] # None
    BY <1>1, StartFacts DEF IInv, StartOK, TypeOK
  <2>8. /\ dock' \in [Cid -> DockerContainer \cup {None}]
        /\ dock'[c] # None /\ dock'[c].on /\ dock'[c].node = dock[c].node
        /\ \A x \in Cid : x # c => dock'[x] = dock[x]
    <3>1. /\ [dock[c] EXCEPT !.on = TRUE] \in DockerContainer
          /\ [dock[c] EXCEPT !.on = TRUE].on
          /\ [dock[c] EXCEPT !.on = TRUE].node = dock[c].node
      BY <2>7 DEF DockerContainer
    <3>2. dock' = [dock EXCEPT ![c] = [dock[c] EXCEPT !.on = TRUE]]
      BY <1>3 DEF Started
    <3> QED BY <2>7, <3>1, <3>2 DEF IInv, TypeOK
  <2>9. TypeOK'
    BY <2>5, <2>6, <2>8 DEF IInv, TypeOK
  <2>10. JobOK'
    BY <1>1, <2>3, <2>4, <2>5, StartFacts DEF IInv, JobOK, Starting, Handling
  <2>11. work[c] = None
    <3>1. work[c] # None => PlacedOn(c, work[c].ctr.node) /\ work[c].ctr.node \in Node
      BY <2>7 DEF PlacedOn, IInv, TypeOK, Call, Container
    <3>2. PlacedOn(c, job[p].obj.node) /\ job[p].obj.node = LocalNode
      BY <1>1 DEF PlacedOn, Starts, IInv, StartOK
    <3> QED BY <2>7, <3>1, <3>2 DEF IInv, OnePlace, WorkOK
  <2>12. StartOK'
    <3>1. \A q \in Process : job[q].pc \in Starting /\ job[q].cur = c => q = p
      BY <1>1, <2>7 DEF IInv, OneStarter, Starts
    <3>2. \A q \in Process : job[q].pc \in Starting => job[q].cur \in Cid
      BY StartFacts
    <3>3. ASSUME NEW q \in Process, q # p
          PROVE  StartOK!(q)'
      BY <1>1, <2>5, <2>6, <2>8, <3>1, <3>2, <3>3 DEF IInv, StartOK, Starting
    <3>4. StartOK!(p)'
      BY <2>3, <2>4, <2>5, <2>6, <2>8, <2>11 DEF Starting
    <3> QED BY <3>3, <3>4 DEF StartOK
  <2>13. StopOK'
    BY <1>1, <2>3, <2>5 DEF IInv, StopOK
  <2>14. WorkOK'
    BY <2>3, <2>5, <2>6, <2>8, <2>11 DEF IInv, WorkOK
  <2>15. OneStarter' /\ RunningHasDocker'
    BY <1>1, <2>3, <2>5, <2>6 DEF IInv, OneStarter, RunningHasDocker, Starts, Starting
  <2>16. \A x \in Cid, n \in Node : PlacedOn(x, n)' => PlacedOn(x, n)
    BY <1>1, <2>3, <2>4, <2>5, <2>6, <2>7, <2>8 DEF PlacedOn, Starts, Starting
  <2>17. OnePlace' /\ Undrawn'
    BY <2>6, <2>16 DEF IInv, OnePlace, Undrawn
  <2>18. RunningIsReal'
    BY <1>1, <2>3, <2>5, <2>6, <2>7, <2>8 DEF IInv, RunningIsReal, Stopping
  <2> QED BY <2>9, <2>10, <2>12, <2>13, <2>14, <2>15, <2>17, <2>18 DEF IInv
<1> QED BY <1>2, <1>3 DEF DockerStart, NotStarted

-----------------------------------------------------------------------------
(* Bringing up a container on a worker.                                     *)

\* The request to a worker is sent, or fails to be.
LEMMA PostStep ==
  ASSUME IInv, NEW p \in Process, Post(p)
  PROVE  IInv'
<1> DEFINE c == job[p].cur
           call == [at |-> "sent", ctr |-> job[p].obj]
<1> USE ConstantAssumption, NoneAssumption
<1>1. /\ job[p].pc = "post" /\ job[p].pc \in Starting
      /\ UNCHANGED <<lock, db, dock, workerDb, ids, history>>
  BY DEF Post, At, Starting
<1>2. CASE Goto(p, "save_remote_failed") /\ UNCHANGED work
  BY <1>1, <1>2, StartErrorStep DEF remote
<1>3. CASE work' = [work EXCEPT ![c] = call] /\ Goto(p, "posted")
  <2>1. /\ job' \in [Process -> Job] /\ job'[p].pc = "posted"
        /\ job'[p].op = job[p].op /\ job'[p].dep = job[p].dep
        /\ job'[p].mem = job[p].mem /\ job'[p].left = job[p].left
        /\ job'[p].cur = job[p].cur
        /\ job'[p].obj = job[p].obj /\ job'[p].list = job[p].list
        /\ \A q \in Process : q # p => job'[q] = job[q]
    BY <1>1, <1>3, GotoFrame, StartFacts DEF Label
  <2>2. /\ call \in Call /\ call.at = "sent" /\ call.ctr = job[p].obj
    BY <1>1, StartFacts DEF Call
  <2>3. call # None /\ job[p].obj.node # LocalNode /\ c \in Cid
    BY <1>1, <2>2, StartFacts DEF IInv, StartOK
  <2> HIDE DEF call
  <2>4. UNCHANGED <<lock, nodes, deps, ctrs, dock, workerDb, born, drawn, crashes, cut>>
    BY <1>1 DEF db, ids, history
  <2>5. /\ work' \in [Cid -> Call \cup {None}] /\ work'[c] = call
        /\ \A x \in Cid : x # c => work'[x] = work[x]
    BY <1>3, <2>2, <2>3 DEF IInv, TypeOK
  <2>6. TypeOK'
    BY <2>1, <2>4, <2>5 DEF IInv, TypeOK
  <2>7. JobOK'
    BY <1>1, <2>1, StartFacts DEF IInv, JobOK, Starting, Handling
  <2>8. StartOK'
    <3>1. \A q \in Process : job[q].pc \in Starting => job[q].cur \in Cid
      BY StartFacts
    <3>2. \A q \in Process : job[q].pc \in Starting /\ job[q].cur = c => q = p
      BY <1>1, <2>3 DEF IInv, OneStarter, Starts
    <3> QED BY <1>1, <2>1, <2>3, <2>4, <2>5, <3>1, <3>2 DEF IInv, StartOK, Starting
  <2>9. StopOK'
    BY <1>1, <2>1 DEF IInv, StopOK
  <2>10. /\ ctrs[c] # None => ~ctrs[c].docker
         /\ \A q \in Process : job[q].list[c] # None => ~job[q].list[c].docker
    BY <1>1, <2>3 DEF IInv, OneStarter, Starts
  <2>11. WorkOK'
    BY <2>1, <2>2, <2>3, <2>4, <2>5, <2>10 DEF IInv, WorkOK
  <2>12. OneStarter' /\ RunningHasDocker'
    BY <1>1, <2>1, <2>4 DEF IInv, OneStarter, RunningHasDocker, Starts, Starting
  <2>13. \A x \in Cid, n \in Node : PlacedOn(x, n)' => PlacedOn(x, n)
    BY <1>1, <2>1, <2>2, <2>4, <2>5 DEF PlacedOn, Starts, Starting
  <2>14. OnePlace' /\ Undrawn'
    BY <2>4, <2>13 DEF IInv, OnePlace, Undrawn
  <2>15. RunningIsReal'
    BY <1>1, <2>1, <2>4 DEF IInv, RunningIsReal, Stopping
  <2> QED BY <2>6, <2>7, <2>8, <2>9, <2>11, <2>12, <2>14, <2>15 DEF IInv
<1> QED BY <1>2, <1>3 DEF Post

\* The worker's answer: a container that was answered for runs.
LEMMA AnswerStep ==
  ASSUME IInv, NEW p \in Process, Answer(p)
  PROVE  IInv'
<1> DEFINE c == job[p].cur
           o == [job[p].obj EXCEPT !.docker = TRUE, !.status = "running"]
           j == [job[p] EXCEPT !.pc = "save_running", !.obj.docker = TRUE,
                               !.obj.status = "running"]
<1> USE ConstantAssumption, NoneAssumption
<1>1. /\ job[p].pc = "posted" /\ job[p].pc \in Starting
      /\ UNCHANGED <<lock, db, dock, remote, ids, history>>
  BY DEF Answer, At, Starting
<1>2. CASE Goto(p, "save_remote_failed")
  BY <1>1, <1>2, StartErrorStep
<1>3. CASE work[c].at = "answered" /\ Become(p, j)
  <2>1. "save_running" \in Label
    BY DEF Label
  <2>2. o \in Container /\ o.docker /\ o.node = job[p].obj.node
    BY <1>1, StartFacts DEF Container
  <2>3. /\ j \in Job /\ j.pc = "save_running" /\ j.op = job[p].op /\ j.dep = job[p].dep
        /\ j.mem = job[p].mem /\ j.left = job[p].left /\ j.cur = c /\ j.list = job[p].list
        /\ j.obj = o
    BY ZenonT(60), <1>1, <2>1, <2>2, StartFacts DEF Job
  <2> HIDE DEF o
  <2>4. /\ job' \in [Process -> Job] /\ job'[p] = j
        /\ \A q \in Process : q # p => job'[q] = job[q]
    BY <1>1, <1>3, <2>3, BecomeFrame, StartFacts
  <2> HIDE DEF j
  <2>5. j.obj \in Container /\ j.obj.docker /\ j.obj.node = job[p].obj.node
    BY <2>2, <2>3
  <2>6. UNCHANGED <<lock, nodes, deps, ctrs, dock, work, workerDb, born, drawn, crashes, cut>>
    BY <1>1 DEF db, remote, ids, history
  <2>7. c \in Cid /\ work[c] # None /\ dock[c] # None /\ dock[c].on
    BY <1>1, <1>3, StartFacts DEF IInv, StartOK, WorkOK
  <2>8. TypeOK'
    BY <2>4, <2>6 DEF IInv, TypeOK
  <2>9. JobOK'
    BY <1>1, <2>3, <2>4, <2>5, StartFacts DEF IInv, JobOK, Starting, Handling
  <2>10. StartOK'
    BY <1>3, <2>3, <2>4, <2>5, <2>6, <2>7 DEF IInv, StartOK, Starting
  <2>11. StopOK' /\ WorkOK'
    BY <1>1, <2>3, <2>4, <2>6 DEF IInv, StopOK, WorkOK
  <2>12. OneStarter' /\ RunningHasDocker'
    BY <1>1, <2>3, <2>4, <2>6 DEF IInv, OneStarter, RunningHasDocker, Starts, Starting
  <2>13. \A x \in Cid, n \in Node : PlacedOn(x, n)' => PlacedOn(x, n)
    BY <1>1, <2>3, <2>4, <2>5, <2>6 DEF PlacedOn, Starts, Starting
  <2>14. OnePlace' /\ Undrawn'
    BY <2>6, <2>13 DEF IInv, OnePlace, Undrawn
  <2>15. RunningIsReal'
    BY <1>1, <2>3, <2>4, <2>6 DEF IInv, RunningIsReal, Stopping
  <2> QED BY <2>8, <2>9, <2>10, <2>11, <2>12, <2>14, <2>15 DEF IInv
<1> QED BY <1>2, <1>3 DEF Answer

\* A worker takes a request one step further: what it may do to work and dock.
LEMMA WorkerStep ==
  ASSUME IInv, NEW c \in Cid, work[c] # None, NEW a \in {"created", "started", "answered", "refused"},
         work' = [work EXCEPT ![c].at = a],
         work[c].at \in {"sent", "created", "started"},
         dock' \in [Cid -> DockerContainer \cup {None}],
         \A x \in Cid : x # c => dock'[x] = dock[x],
         \/ dock'[c] = dock[c]
         \/ dock'[c] # None /\ dock'[c].node = work[c].ctr.node,
         a \in {"created", "started", "answered"} => dock'[c] # None,
         a \in {"started", "answered"} => dock'[c].on,
         workerDb' \in [Cid -> Container \cup {None}],
         UNCHANGED <<lock, db, job, ids, history>>
  PROVE  IInv'
<1> USE ConstantAssumption, NoneAssumption
<1>1. UNCHANGED <<lock, nodes, deps, ctrs, job, born, drawn, crashes, cut>>
  BY DEF db, ids, history
<1>2. work[c] \in Call /\ work[c].ctr \in Container /\ work[c].ctr.node \in Node
  BY DEF IInv, TypeOK, Call, Container
<1> DEFINE w == [work[c] EXCEPT !.at = a]
<1>3. w \in Call /\ w.at = a /\ w.ctr = work[c].ctr
  BY <1>2 DEF Call
<1> HIDE DEF w
<1>4. /\ work' \in [Cid -> Call \cup {None}] /\ work'[c] = w /\ work'[c] # None
      /\ \A x \in Cid : x # c => work'[x] = work[x]
  BY <1>3 DEF IInv, TypeOK, w
<1>5. TypeOK'
  BY <1>1, <1>4 DEF IInv, TypeOK
<1>6. JobOK' /\ StopOK'
  BY <1>1 DEF IInv, JobOK, StopOK
<1>7. \A q \in Process : job[q].pc \in Starting => job[q].cur \in Cid
  BY StartFacts
<1>8. ~(ctrs[c] # None /\ ctrs[c].docker)
      /\ \A q \in Process : ~(job[q].list[c] # None /\ job[q].list[c].docker)
  BY DEF IInv, WorkOK
<1>9. StartOK'
  <2> SUFFICES ASSUME NEW q \in Process PROVE StartOK!(q)'
    BY DEF StartOK
  <2>1. CASE job[q].pc \in Starting /\ job[q].cur = c
    <3>1. job[q].pc # "docker_start" /\ job[q].pc # "docker_create"
      <4>1. PlacedOn(c, work[c].ctr.node) /\ PlacedOn(c, job[q].obj.node)
        BY <2>1 DEF PlacedOn, Starts
      <4>2. job[q].obj.node = work[c].ctr.node
        BY <1>2, <2>1, <4>1, StartFacts DEF IInv, OnePlace, Container
      <4> QED BY <4>2 DEF IInv, StartOK, WorkOK
    <3>2. job[q].pc # "save_running"
      BY <2>1 DEF IInv, StartOK
    <3> QED BY <1>1, <1>4, <2>1, <3>1, <3>2 DEF IInv, StartOK
  <2>2. CASE ~(job[q].pc \in Starting /\ job[q].cur = c)
    BY <1>1, <1>4, <1>7, <2>2 DEF IInv, StartOK, Starting
  <2> QED BY <2>1, <2>2
<1>10. WorkOK'
  BY <1>1, <1>3, <1>4, <1>8 DEF IInv, WorkOK
<1>11. OneStarter' /\ RunningHasDocker'
  BY <1>1 DEF IInv, OneStarter, RunningHasDocker, Starts
<1>12. \A x \in Cid, n \in Node : PlacedOn(x, n)' => PlacedOn(x, n)
  BY <1>1, <1>3, <1>4 DEF PlacedOn, Starts
<1>13. OnePlace' /\ Undrawn'
  BY <1>1, <1>12 DEF IInv, OnePlace, Undrawn
<1>14. ~(ctrs[c] # None /\ ctrs[c].status = "running")
  BY <1>8 DEF IInv, RunningHasDocker
<1>15. RunningIsReal'
  BY <1>1, <1>14 DEF IInv, RunningIsReal, Stopping
<1> QED BY <1>5, <1>6, <1>9, <1>10, <1>11, <1>13, <1>15 DEF IInv

\* ContainerCreate on a worker.
LEMMA WorkerCreateStep ==
  ASSUME IInv, NEW c \in Cid, WorkerCreate(c)
  PROVE  IInv'
<1> USE NoneAssumption
<1>1. /\ work[c] # None /\ work[c].at = "sent" /\ work[c] \in Call
      /\ UNCHANGED <<lock, db, workerDb, job, ids, history>>
      /\ dock \in [Cid -> DockerContainer \cup {None}]
      /\ workerDb \in [Cid -> Container \cup {None}]
  BY DEF WorkerCreate, Working, IInv, TypeOK
<1> DEFINE ctr == work[c].ctr
           new == [node |-> ctr.node, name |-> ctr.name, port |-> ctr.port, on |-> FALSE]
<1>2. ctr \in Container
  BY <1>1 DEF Call
<1>3. new \in DockerContainer /\ new.node = ctr.node
  BY <1>2 DEF DockerContainer, Container
<1>4. new # None
  BY <1>3
<1>5. CASE Created(c, ctr) /\ work' = [work EXCEPT ![c].at = "created"]
  <2>1. dock' = [dock EXCEPT ![c] = new]
    BY <1>5 DEF Created
  <2> HIDE DEF new, ctr
  <2>2. /\ dock' \in [Cid -> DockerContainer \cup {None}] /\ dock'[c] = new
        /\ \A x \in Cid : x # c => dock'[x] = dock[x]
    BY <1>1, <1>3, <2>1
  <2> QED BY <1>1, <1>3, <1>4, <1>5, <2>2, WorkerStep DEF ctr
<1>6. CASE UNCHANGED dock /\ work' = [work EXCEPT ![c].at = "refused"]
  BY <1>1, <1>6, WorkerStep
<1> QED BY <1>5, <1>6 DEF WorkerCreate, NotCreated

\* ContainerStart on a worker.
LEMMA WorkerStartStep ==
  ASSUME IInv, NEW c \in Cid, WorkerStart(c)
  PROVE  IInv'
<1> USE NoneAssumption
<1>1. /\ work[c] # None /\ work[c].at = "created" /\ work[c] \in Call
      /\ UNCHANGED <<lock, db, workerDb, job, ids, history>>
      /\ dock \in [Cid -> DockerContainer \cup {None}]
      /\ workerDb \in [Cid -> Container \cup {None}]
      /\ dock[c] # None /\ dock[c] \in DockerContainer
  BY DEF WorkerStart, Working, IInv, TypeOK, WorkOK
<1>2. dock[c].node = work[c].ctr.node
  <2>1. PlacedOn(c, dock[c].node) /\ PlacedOn(c, work[c].ctr.node)
    BY <1>1 DEF PlacedOn
  <2>2. dock[c].node \in Node /\ work[c].ctr.node \in Node
    BY <1>1 DEF DockerContainer, Call, Container
  <2> QED BY <2>1, <2>2 DEF IInv, OnePlace
<1> DEFINE new == [dock[c] EXCEPT !.on = TRUE]
<1>3. new \in DockerContainer /\ new.node = dock[c].node /\ new.on
  BY <1>1 DEF DockerContainer
<1>4. new # None
  BY <1>3
<1>5. CASE Started(c, work[c].ctr) /\ work' = [work EXCEPT ![c].at = "started"]
  <2>1. dock' = [dock EXCEPT ![c] = new]
    BY <1>5 DEF Started
  <2> HIDE DEF new
  <2>2. /\ dock' \in [Cid -> DockerContainer \cup {None}] /\ dock'[c] = new
        /\ \A x \in Cid : x # c => dock'[x] = dock[x]
    BY <1>1, <1>3, <2>1
  <2> QED BY <1>1, <1>2, <1>3, <1>4, <1>5, <2>2, WorkerStep
<1>6. CASE UNCHANGED dock /\ work' = [work EXCEPT ![c].at = "refused"]
  BY <1>1, <1>6, WorkerStep
<1> QED BY <1>5, <1>6 DEF WorkerStart, NotStarted

\* The worker's own save changes nothing at the master.
LEMMA WorkerSaveStep ==
  ASSUME IInv, NEW c \in Cid, WorkerSave(c)
  PROVE  IInv'
<1> DEFINE saved == [work[c].ctr EXCEPT !.docker = TRUE, !.status = "running"]
<1>1. /\ work[c] # None /\ work[c].at = "started" /\ work[c] \in Call
      /\ dock[c] # None /\ dock[c].on
      /\ UNCHANGED <<lock, db, dock, job, ids, history>>
      /\ dock' \in [Cid -> DockerContainer \cup {None}]
      /\ workerDb \in [Cid -> Container \cup {None}]
      /\ work' = [work EXCEPT ![c].at = "answered"]
      /\ workerDb' = [workerDb EXCEPT ![c] = saved]
  BY DEF WorkerSave, Working, IInv, TypeOK, WorkOK
<1>2. work[c].ctr \in Container
  BY <1>1 DEF Call
<1>3. saved \in Container
  BY <1>2 DEF Container
<1> HIDE DEF saved
<1>4. workerDb' \in [Cid -> Container \cup {None}]
  BY <1>1, <1>3
<1> QED BY <1>1, <1>4, WorkerStep

\* A worker that dies had told nobody of the containers it was starting.
LEMMA WorkerCrashStep ==
  ASSUME IInv, NEW n \in Node, WorkerCrash(n)
  PROVE  IInv'
<1> USE NoneAssumption
<1> DEFINE hit(c) == /\ work[c] # None /\ work[c].ctr.node = n
                     /\ work[c].at \in {"sent", "created", "started"}
<1>1. /\ work' = [c \in Cid |-> IF hit(c) THEN [work[c] EXCEPT !.at = "lost"] ELSE work[c]]
      /\ crashes < MaxCrashes /\ crashes' = crashes + 1
      /\ UNCHANGED <<lock, nodes, deps, ctrs, dock, workerDb, job, born, drawn, cut>>
  BY DEF WorkerCrash, db, ids
<1>2. \A c \in Cid : hit(c) =>
        /\ work'[c] \in Call /\ work'[c].at = "lost" /\ work'[c].ctr = work[c].ctr
  <2> SUFFICES ASSUME NEW c \in Cid, hit(c)
               PROVE  /\ work'[c] \in Call /\ work'[c].at = "lost"
                      /\ work'[c].ctr = work[c].ctr
    OBVIOUS
  <2>1. work[c] \in Call
    BY DEF IInv, TypeOK
  <2> QED BY <1>1, <2>1 DEF Call
<1>3. \A c \in Cid : ~hit(c) => work'[c] = work[c]
  BY <1>1
<1>4. TypeOK'
  <2>1. work' \in [Cid -> Call \cup {None}]
    <3>1. \A c \in Cid : work'[c] \in Call \cup {None}
      BY <1>2, <1>3 DEF IInv, TypeOK
    <3> HIDE DEF hit
    <3> QED BY <1>1, <3>1
  <2>2. crashes' \in 0 .. MaxCrashes
    BY <1>1, ConstantAssumption DEF IInv, TypeOK
  <2> QED BY <1>1, <2>1, <2>2 DEF IInv, TypeOK
<1>5. JobOK' /\ StopOK'
  BY <1>1 DEF IInv, JobOK, StopOK
<1>6. \A c \in Cid : hit(c) => work'[c] # None
  BY <1>2
<1>7. \A q \in Process : job[q].pc \in Starting => job[q].cur \in Cid
  BY StartFacts
<1>8. StartOK'
  <2> SUFFICES ASSUME NEW q \in Process PROVE StartOK!(q)'
    BY DEF StartOK
  <2>1. CASE job[q].pc \in Starting
    <3>1. job[q].cur \in Cid
      BY <1>7, <2>1
    <3> QED BY <1>1, <1>2, <1>3, <1>6, <2>1, <3>1 DEF IInv, StartOK
  <2>2. CASE job[q].pc \notin Starting
    BY <1>1, <2>2 DEF IInv, StartOK, Starting
  <2> QED BY <2>1, <2>2
<1>9. WorkOK'
  BY <1>1, <1>2, <1>3 DEF IInv, WorkOK
<1>10. OneStarter' /\ RunningHasDocker' /\ RunningIsReal'
  BY <1>1 DEF IInv, OneStarter, RunningHasDocker, RunningIsReal, Starts, Stopping
<1>11. \A c \in Cid, m \in Node : PlacedOn(c, m)' => PlacedOn(c, m)
  BY <1>1, <1>2, <1>3 DEF PlacedOn, Starts
<1>12. OnePlace' /\ Undrawn'
  BY <1>1, <1>11 DEF IInv, OnePlace, Undrawn
<1> QED BY <1>4, <1>5, <1>8, <1>9, <1>10, <1>12 DEF IInv

-----------------------------------------------------------------------------
(* Taking a container down.                                                 *)

\* A container that a process stops is nobody's to start.
LEMMA StopFacts ==
  ASSUME IInv, NEW p \in Process, job[p].pc \in Handling
  PROVE  /\ job[p].cur \in Cid /\ job[p].list[job[p].cur] \in Container
         /\ job[p].list[job[p].cur] # None
         /\ job[p].op \in {"delete", "scale"} /\ job[p].dep \in DepId
         /\ job \in [Process -> Job] /\ job[p] \in Job
  BY NoneAssumption DEF IInv, JobOK, TypeOK, Handling

\* What docker stop and docker rm have in common: the change is to a local
\* container whose record was listed with its Docker ID.
LEMMA DownStep ==
  ASSUME IInv, NEW p \in Process, job[p].pc \in {"docker_stop", "docker_remove"},
         NEW l \in {"docker_remove", "save_stopped"},
         job[p].pc = "docker_remove" => l = "save_stopped",
         Goto(p, l),
         dock' \in [Cid -> DockerContainer \cup {None}],
         \A x \in Cid : x # job[p].cur => dock'[x] = dock[x],
         LET c == job[p].cur IN
           dock'[c] # None => dock[c] # None /\ dock'[c].node = dock[c].node,
         UNCHANGED <<lock, db, remote, ids, history>>
  PROVE  IInv'
<1> DEFINE c == job[p].cur
<1> USE ConstantAssumption, NoneAssumption
<1>1. /\ c \in Cid /\ job[p].list[c] \in Container /\ job[p].list[c] # None
      /\ job[p].list[c].docker /\ job[p].list[c].node = LocalNode
      /\ job \in [Process -> Job] /\ job[p].op \in {"delete", "scale"}
  BY StopFacts DEF IInv, StopOK, Handling
<1>2. UNCHANGED <<lock, nodes, deps, ctrs, work, workerDb, born, drawn, crashes, cut>>
  BY DEF db, remote, ids, history
<1>3. l \in Label
  BY DEF Label
<1>4. /\ job' \in [Process -> Job] /\ job'[p].pc = l
      /\ job'[p].op = job[p].op /\ job'[p].dep = job[p].dep
      /\ job'[p].mem = job[p].mem /\ job'[p].left = job[p].left
      /\ job'[p].cur = job[p].cur
      /\ job'[p].obj = job[p].obj /\ job'[p].list = job[p].list
      /\ \A q \in Process : q # p => job'[q] = job[q]
  BY <1>1, <1>3, GotoFrame
<1>5. work[c] = None
  <2>1. work[c] # None => PlacedOn(c, work[c].ctr.node) /\ work[c].ctr.node \in Node
    BY <1>1 DEF PlacedOn, IInv, TypeOK, Call, Container
  <2>2. PlacedOn(c, LocalNode)
    BY <1>1 DEF PlacedOn
  <2> QED BY <1>1, <2>1, <2>2 DEF IInv, OnePlace, WorkOK
<1>6. \A q \in Process : ~Starts(q, c)
  BY <1>1 DEF IInv, OneStarter
<1>7. TypeOK'
  BY <1>2, <1>4 DEF IInv, TypeOK
<1>8. JobOK'
  BY <1>1, <1>4 DEF IInv, JobOK, Starting, Handling
<1>9. StartOK'
  <2>1. \A q \in Process : job[q].pc \in Starting => job[q].cur \in Cid
    BY StartFacts
  <2> QED BY <1>2, <1>4, <1>6, <2>1 DEF IInv, StartOK, Starting, Starts
<1>10. StopOK'
  BY <1>1, <1>4 DEF IInv, StopOK
<1>11. WorkOK'
  BY <1>2, <1>4, <1>5 DEF IInv, WorkOK
<1>12. OneStarter' /\ RunningHasDocker'
  BY <1>2, <1>4 DEF IInv, OneStarter, RunningHasDocker, Starts, Starting
<1>13. \A x \in Cid, n \in Node : PlacedOn(x, n)' => PlacedOn(x, n)
  BY <1>2, <1>4 DEF PlacedOn, Starts, Starting
<1>14. OnePlace' /\ Undrawn'
  BY <1>2, <1>13 DEF IInv, OnePlace, Undrawn
<1>15. RunningIsReal'
  BY <1>2, <1>4 DEF IInv, RunningIsReal, Stopping
<1> QED BY <1>7, <1>8, <1>9, <1>10, <1>11, <1>12, <1>14, <1>15 DEF IInv

\* ContainerStop: the container is on the way down and its stopper is known.
LEMMA DockerStopStep ==
  ASSUME IInv, NEW p \in Process, DockerStop(p)
  PROVE  IInv'
<1> DEFINE c == job[p].cur
           new == [dock[c] EXCEPT !.on = FALSE]
<1> USE NoneAssumption
<1>1. /\ job[p].pc = "docker_stop" /\ Goto(p, "docker_remove") /\ c \in Cid
      /\ dock \in [Cid -> DockerContainer \cup {None}]
      /\ UNCHANGED <<lock, db, remote, ids, history>>
  BY StopFacts DEF DockerStop, At, Handling, IInv, TypeOK
<1>2. CASE dock[c] # None /\ dock' = [dock EXCEPT ![c].on = FALSE]
  <2>1. dock[c] \in DockerContainer
    BY <1>1, <1>2
  <2>2. new \in DockerContainer /\ new.node = dock[c].node
    BY <2>1 DEF DockerContainer
  <2> HIDE DEF new
  <2>3. dock' = [dock EXCEPT ![c] = new]
    BY <1>2 DEF new
  <2>4. /\ dock' \in [Cid -> DockerContainer \cup {None}] /\ dock'[c] = new
        /\ \A x \in Cid : x # c => dock'[x] = dock[x]
    BY <1>1, <2>2, <2>3
  <2> QED BY <1>1, <1>2, <2>2, <2>4, DownStep
<1>3. CASE UNCHANGED dock
  BY <1>1, <1>3, DownStep
<1> QED BY <1>2, <1>3 DEF DockerStop

\* ContainerRemove.
LEMMA DockerRemoveStep ==
  ASSUME IInv, NEW p \in Process, DockerRemove(p)
  PROVE  IInv'
<1> DEFINE c == job[p].cur
<1>1. /\ job[p].pc = "docker_remove" /\ Goto(p, "save_stopped") /\ c \in Cid
      /\ dock \in [Cid -> DockerContainer \cup {None}]
      /\ UNCHANGED <<lock, db, remote, ids, history>>
  BY StopFacts DEF DockerRemove, At, Handling, IInv, TypeOK
<1>2. CASE dock' = [dock EXCEPT ![c] = None]
  <2>1. /\ dock' \in [Cid -> DockerContainer \cup {None}] /\ dock'[c] = None
        /\ \A x \in Cid : x # c => dock'[x] = dock[x]
    BY <1>1, <1>2
  <2> QED BY <1>1, <2>1, DownStep
<1>3. CASE UNCHANGED dock
  BY <1>1, <1>3, DownStep
<1> QED BY <1>2, <1>3 DEF DockerRemove

\* The record is saved again as it was listed, even if another delete dropped
\* it in the meantime.
LEMMA SaveStoppedStep ==
  ASSUME IInv, NEW p \in Process, SaveStopped(p)
  PROVE  IInv'
<1> DEFINE c == job[p].cur
           new == [job[p].list[c] EXCEPT !.status = "stopped"]
<1> USE ConstantAssumption, NoneAssumption
<1>1. /\ job[p].pc = "save_stopped" /\ c \in Cid
      /\ job[p].list[c] \in Container /\ job[p].list[c] # None
      /\ job \in [Process -> Job] /\ job[p].op \in {"delete", "scale"}
      /\ Goto(p, "delete_record")
      /\ UNCHANGED <<lock, nodes, deps, dock, remote, ids, history>>
  BY StopFacts DEF SaveStopped, At, Handling
<1>2. "delete_record" \in Label
  BY DEF Label
<1>3. /\ job' \in [Process -> Job] /\ job'[p].pc = "delete_record"
      /\ job'[p].op = job[p].op /\ job'[p].dep = job[p].dep
      /\ job'[p].mem = job[p].mem /\ job'[p].left = job[p].left
      /\ job'[p].cur = job[p].cur
      /\ job'[p].obj = job[p].obj /\ job'[p].list = job[p].list
      /\ \A q \in Process : q # p => job'[q] = job[q]
  BY <1>1, <1>2, GotoFrame
<1>4. /\ new \in Container /\ new.node = job[p].list[c].node
      /\ new.docker = job[p].list[c].docker /\ new.status = "stopped"
  BY <1>1 DEF Container
<1>5. new # None
  BY <1>4
<1>6. /\ ctrs' = [ctrs EXCEPT ![c] = new]
      /\ UNCHANGED <<lock, nodes, deps, dock, work, workerDb, born, drawn, crashes, cut>>
  BY DEF SaveStopped, remote, ids, history
<1> HIDE DEF new
<1>7. /\ ctrs' \in [Cid -> Container \cup {None}] /\ ctrs'[c] = new
      /\ \A x \in Cid : x # c => ctrs'[x] = ctrs[x]
  BY <1>1, <1>4, <1>6 DEF IInv, TypeOK
<1>8. TypeOK'
  BY <1>3, <1>6, <1>7 DEF IInv, TypeOK
<1>9. JobOK'
  BY <1>1, <1>3 DEF IInv, JobOK, Starting, Handling
<1>10. StartOK'
  BY <1>1, <1>3, <1>6 DEF IInv, StartOK, Starting
<1>11. StopOK'
  BY <1>1, <1>3 DEF IInv, StopOK
<1>12. WorkOK'
  BY <1>1, <1>3, <1>4, <1>6, <1>7 DEF IInv, WorkOK
<1>13. OneStarter'
  BY <1>1, <1>3, <1>4, <1>7 DEF IInv, OneStarter, Starts, Starting
<1>14. RunningHasDocker'
  BY <1>4, <1>7 DEF IInv, RunningHasDocker
<1>15. \A x \in Cid, n \in Node : PlacedOn(x, n)' => PlacedOn(x, n)
  BY <1>1, <1>3, <1>4, <1>6, <1>7 DEF PlacedOn, Starts, Starting
<1>16. OnePlace' /\ Undrawn'
  BY <1>6, <1>15 DEF IInv, OnePlace, Undrawn
<1>17. RunningIsReal'
  BY <1>1, <1>3, <1>4, <1>6, <1>7 DEF IInv, RunningIsReal, Stopping
<1> QED BY <1>8, <1>9, <1>10, <1>11, <1>12, <1>13, <1>14, <1>16, <1>17 DEF IInv

\* The record of a container that was stopped goes.
LEMMA DeleteRecordStep ==
  ASSUME IInv, NEW p \in Process, DeleteRecord(p)
  PROVE  IInv'
<1> DEFINE c == job[p].cur
           L == [job[p].list EXCEPT ![c] = None]
           j == [job[p] EXCEPT !.pc = "stop", !.cur = None, !.list = L]
<1> USE ConstantAssumption, NoneAssumption
<1>1. /\ job[p].pc = "delete_record" /\ c \in Cid
      /\ job \in [Process -> Job] /\ job[p] \in Job /\ job[p].op \in {"delete", "scale"}
      /\ job[p].dep \in DepId
      /\ ctrs' = [ctrs EXCEPT ![c] = None]
      /\ Become(p, [job[p] EXCEPT !.pc = "stop", !.cur = None,
                      !.list = [@ EXCEPT ![job[p].cur] = None]])
      /\ UNCHANGED <<lock, nodes, deps, dock, remote, ids, history>>
  BY StopFacts DEF DeleteRecord, At, Handling
<1>2. /\ L \in [Cid -> Container \cup {None}]
      /\ \A x \in Cid : L[x] \in {None, job[p].list[x]}
  BY <1>1 DEF Job
<1>3. "stop" \in Label
  BY DEF Label
<1>4. Become(p, j)
  BY <1>1
<1> HIDE DEF L
<1>5. /\ j \in Job /\ j.pc = "stop" /\ j.op = job[p].op /\ j.dep = job[p].dep
      /\ j.mem = job[p].mem /\ j.list = L
  BY <1>1, <1>2, <1>3 DEF Job
<1>6. /\ job' \in [Process -> Job] /\ job'[p] = j
      /\ \A q \in Process : q # p => job'[q] = job[q]
  BY <1>1, <1>4, <1>5, BecomeFrame
<1> HIDE DEF j
<1>7. UNCHANGED <<lock, nodes, deps, dock, work, workerDb, born, drawn, crashes, cut>>
  BY <1>1 DEF remote, ids, history
<1>8. /\ ctrs' \in [Cid -> Container \cup {None}] /\ ctrs'[c] = None
      /\ \A x \in Cid : x # c => ctrs'[x] = ctrs[x]
  BY <1>1 DEF IInv, TypeOK
<1>9. TypeOK'
  BY <1>6, <1>7, <1>8 DEF IInv, TypeOK
<1>10. JobOK'
  BY <1>1, <1>5, <1>6 DEF IInv, JobOK, Starting, Handling
<1>11. StartOK'
  BY <1>5, <1>6, <1>7 DEF IInv, StartOK, Starting
<1>12. StopOK'
  BY <1>5, <1>6 DEF IInv, StopOK
<1>13. \A q \in Process, x \in Cid : job'[q].list[x] \in {None, job[q].list[x]}
  BY <1>2, <1>5, <1>6
<1>14. WorkOK'
  BY <1>7, <1>8, <1>13 DEF IInv, WorkOK
<1>15. \A q \in Process, x \in Cid : Starts(q, x)' => Starts(q, x) /\ job'[q] = job[q]
  BY <1>5, <1>6 DEF Starts, Starting
<1>16. OneStarter' /\ RunningHasDocker'
  BY <1>8, <1>13, <1>15 DEF IInv, OneStarter, RunningHasDocker
<1>17. \A x \in Cid, n \in Node : PlacedOn(x, n)' => PlacedOn(x, n)
  <2> SUFFICES ASSUME NEW x \in Cid, NEW n \in Node, PlacedOn(x, n)' PROVE PlacedOn(x, n)
    OBVIOUS
  <2>1. CASE ctrs'[x] # None /\ ctrs'[x].node = n
    BY <1>8, <2>1 DEF PlacedOn
  <2>2. CASE \E q \in Process : job'[q].list[x] # None /\ job'[q].list[x].node = n
    BY <1>13, <2>2 DEF PlacedOn
  <2>3. CASE \E q \in Process : Starts(q, x)' /\ job'[q].obj.node = n
    BY <1>15, <2>3 DEF PlacedOn
  <2> QED BY <1>7, <2>1, <2>2, <2>3 DEF PlacedOn
<1>18. OnePlace' /\ Undrawn'
  BY <1>7, <1>17 DEF IInv, OnePlace, Undrawn
<1>19. RunningIsReal'
  BY <1>1, <1>6, <1>7, <1>8 DEF IInv, RunningIsReal, Stopping
<1> QED BY <1>9, <1>10, <1>11, <1>12, <1>14, <1>16, <1>18, <1>19 DEF IInv

-----------------------------------------------------------------------------
(* The death of the master's process, the start, and the theorems.          *)

\* What a process held in memory is gone; what it was stopping is noted.
LEMMA CrashStep ==
  ASSUME IInv, Crash
  PROVE  IInv'
<1> USE ConstantAssumption, NoneAssumption
<1>1. /\ crashes < MaxCrashes /\ crashes' = crashes + 1 /\ lock' = "free"
      /\ cut' = cut \cup {job[p].cur : p \in {q \in Process : Stopping(q)}}
      /\ job' = [p \in Process |-> Idle]
      /\ UNCHANGED <<nodes, deps, ctrs, dock, work, workerDb, born, drawn>>
  BY DEF Crash, db, remote, ids
<1>2. Idle \in Job /\ Idle.pc = "idle" /\ Idle.op = "none" /\ Idle.list = NoContainers
  BY IdleIsJob DEF Idle
<1>3. \A q \in Process : job'[q] = Idle
  BY <1>1
<1>4. \A q \in Process, c \in Cid : job'[q].list[c] = None /\ ~Starts(q, c)'
  BY <1>2, <1>3 DEF NoContainers, Starts, Starting
<1>5. \A q \in Process : Stopping(q) => job[q].cur \in Cid
  BY DEF IInv, JobOK, Stopping, Handling
<1>6. TypeOK'
  <2>1. crashes' \in 0 .. MaxCrashes
    BY <1>1 DEF IInv, TypeOK
  <2>2. cut' \subseteq Cid
    BY <1>1, <1>5 DEF IInv, TypeOK
  <2>3. job' \in [Process -> Job]
    BY <1>1, <1>2
  <2> QED BY <1>1, <2>1, <2>2, <2>3 DEF IInv, TypeOK
<1>7. JobOK' /\ StartOK' /\ StopOK'
  BY <1>2, <1>3 DEF JobOK, StartOK, StopOK, Starting, Handling
<1>8. WorkOK'
  BY <1>1, <1>4 DEF IInv, WorkOK
<1>9. OneStarter' /\ RunningHasDocker'
  BY <1>1, <1>4 DEF IInv, OneStarter, RunningHasDocker
<1>10. \A x \in Cid, n \in Node : PlacedOn(x, n)' => PlacedOn(x, n)
  BY <1>1, <1>4 DEF PlacedOn
<1>11. OnePlace' /\ Undrawn'
  BY <1>1, <1>10 DEF IInv, OnePlace, Undrawn
<1>12. RunningIsReal'
  BY <1>1 DEF IInv, RunningIsReal
<1> QED BY <1>6, <1>7, <1>8, <1>9, <1>11, <1>12 DEF IInv

\* The invariant holds of an empty database.
LEMMA InitIInv == Init => IInv
<1> SUFFICES ASSUME Init PROVE IInv
  OBVIOUS
<1> USE ConstantAssumption, NoneAssumption DEF Init
<1>1. Idle \in Job /\ Idle.pc = "idle" /\ Idle.op = "none" /\ Idle.list = NoContainers
  BY IdleIsJob DEF Idle
<1>2. \A c \in Cid : ctrs[c] = None /\ dock[c] = None /\ work[c] = None
  BY DEF NoContainers
<1>3. \A q \in Process : job[q] = Idle
  OBVIOUS
<1>4. \A q \in Process, c \in Cid : job[q].list[c] = None /\ ~Starts(q, c)
  BY <1>1, <1>3 DEF NoContainers, Starts, Starting
<1>5. TypeOK
  BY <1>1 DEF TypeOK, NoContainers
<1>6. JobOK /\ StartOK /\ StopOK
  BY <1>1, <1>3 DEF JobOK, StartOK, StopOK, Starting, Handling
<1>7. WorkOK /\ OneStarter /\ RunningHasDocker /\ RunningIsReal
  BY <1>2, <1>4 DEF WorkOK, OneStarter, RunningHasDocker, RunningIsReal
<1>8. \A c \in Cid, n \in Node : ~PlacedOn(c, n)
  BY <1>2, <1>4 DEF PlacedOn
<1>9. OnePlace /\ Undrawn
  BY <1>8 DEF OnePlace, Undrawn
<1> QED BY <1>5, <1>6, <1>7, <1>9 DEF IInv

\* The invariant survives a step of the rest of the world.
LEMMA StutterStep ==
  ASSUME IInv, UNCHANGED vars
  PROVE  IInv'
<1>1. UNCHANGED <<lock, nodes, deps, ctrs, dock, work, workerDb, job, born, drawn,
                  crashes, cut>>
  BY DEF vars
<1>2. TypeOK' /\ JobOK' /\ StartOK' /\ StopOK' /\ WorkOK'
  BY <1>1 DEF IInv, TypeOK, JobOK, StartOK, StopOK, WorkOK
<1>3. OneStarter' /\ RunningHasDocker' /\ RunningIsReal'
  BY <1>1 DEF IInv, OneStarter, RunningHasDocker, RunningIsReal, Starts, Stopping
<1>4. OnePlace' /\ Undrawn'
  BY <1>1 DEF IInv, OnePlace, Undrawn, PlacedOn, Starts
<1> QED BY <1>2, <1>3, <1>4 DEF IInv

\* One step per action of Next.
LEMMA NextStep ==
  ASSUME IInv, Next
  PROVE  IInv'
<1>1. ASSUME NEW p \in Process, Ask(p) PROVE IInv'
  BY <1>1, BeginCreateStep, BeginDeleteStep, BeginScaleStep, ServerStep DEF Ask
<1>2. ASSUME NEW p \in Process, Step(p) PROVE IInv'
  BY <1>2, SaveDeploymentStep, ScheduleStep, SaveContainerStep, ReturnStep,
     DockerCreateStep, DockerStartStep, PostStep, AnswerStep, SaveRunningStep,
     SaveFailedStep, UpdateGetStep, UpdateCountStep, DeleteListStep,
     StopContainerStep, DockerStopStep, DockerRemoveStep, SaveStoppedStep,
     DeleteRecordStep, ScaleCountStep
  DEF Step
<1>3. ASSUME NEW c \in Cid, Worker(c) PROVE IInv'
  BY <1>3, WorkerCreateStep, WorkerStartStep, WorkerSaveStep DEF Worker
<1>4. ASSUME NEW n \in Node \ {LocalNode}, WorkerCrash(n) PROVE IInv'
  BY <1>4, WorkerCrashStep
<1>5. ASSUME ServerStart \/ ServerStop \/ Crash PROVE IInv'
  BY <1>5, ServerStep, CrashStep
<1> QED BY <1>1, <1>2, <1>3, <1>4, <1>5 DEF Next

\* The inductive invariant holds in every state of the deployment manager,
\* whoever creates, scales and deletes at once and whoever dies.
THEOREM InvariantHolds == Spec => []IInv
<1>1. IInv /\ [Next]_vars => IInv'
  BY NextStep, StutterStep
<1> QED BY InitIInv, <1>1, PTL DEF Spec

\* Every variable of the deployment manager keeps to its type.
THEOREM TypeCorrect == Spec => []TypeOK
<1>1. IInv => TypeOK
  BY DEF IInv
<1> QED BY InvariantHolds, <1>1, PTL

\* A container record that says "running" is backed by a Docker container that
\* runs on that node, but while somebody is stopping it or once a crash has cut
\* a stop short: no interleaving of create, scale and delete, no lost answer and
\* no death of a process leaves a record that claims what was never started.
THEOREM RunningRecordsAreReal == Spec => []RunningIsReal
<1>1. IInv => RunningIsReal
  BY DEF IInv
<1> QED BY InvariantHolds, <1>1, PTL
================================================================================
