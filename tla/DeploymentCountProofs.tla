------------------------- MODULE DeploymentCountProofs -------------------------
(***************************************************************************)
(* WithinReplicas and ScaleExact, for any number of goroutines: CountInv   *)
(* is inductive relative to IInv.  First what a step of an operation does  *)
(* to the memory of its process (Moves) and to the database (Saves), then  *)
(* what that does to the running containers, then the invariant.           *)
(***************************************************************************)
EXTENDS DeploymentRecords, DeploymentManagerProofs

-----------------------------------------------------------------------------
(* What a step does to memory.                                              *)

Removing == {"stop"} \cup Handling

\* Process p comes to the end of its operation.
Returns(p) == job'[p] = Idle /\ lock' = IF p = Cli THEN "free" ELSE lock

\* The deployment's record in memory is left alone, read again or given a status.
KeepsMem(p) ==
    \/ job'[p].mem = job[p].mem
    \/ /\ job[p].op = "create" /\ job'[p].pc = "count"
       /\ deps[job[p].dep] # None /\ job'[p].mem = deps[job[p].dep]
    \/ /\ job[p].op = "create" /\ job[p].pc = "count"
       /\ job'[p].mem.name = job[p].mem.name
       /\ job'[p].mem.replicas = job[p].mem.replicas

\* The list of records to stop only shrinks once it is made.
KeepsList(p) ==
    \/ job[p].pc \in Removing \ {"delete_record"} /\ job'[p].list = job[p].list
    \/ /\ job[p].pc = "delete_record"
       /\ job'[p].list = [job[p].list EXCEPT ![job[p].cur] = None]
    \/ job[p].pc = "list" /\ job'[p].list = Listed(CtrsOf(job[p].dep))
    \/ /\ job[p].pc = "count_running"
       /\ \E S \in SUBSET RunningOf(job[p].dep) : job'[p].list = Listed(S)

\* Process p goes on with the same operation on the same deployment.
GoesOn(p) ==
    /\ lock' = lock
    /\ job'[p].pc \notin {"idle", "save_deployment"}
    /\ job'[p].op = job[p].op /\ job'[p].dep = job[p].dep
    /\ KeepsMem(p)
    /\ job[p].pc \notin {"save_running", "count_running"} => job'[p].left = job[p].left
    /\ job'[p].pc \in Starting =>
         \/ job[p].pc \in Starting /\ job'[p].cur = job[p].cur
         \/ /\ job[p].pc = "schedule" /\ job'[p].pc = "save_container"
            /\ Owner(job'[p].cur) = job[p].dep
    /\ job'[p].pc = "save_running" => job'[p].obj.status = "running"
    /\ job'[p].pc \in Removing => KeepsList(p)
    /\ job'[p].pc \notin {"list", "count_running"}
    /\ job'[p].pc = "schedule"
         => job[p].pc \in {"save_deployment", "save_running", "count_running"}
    /\ job'[p].pc = "save_status" => job[p].pc = "count"
    /\ job'[p].pc = "count" => job[p].pc = "schedule" /\ job[p].left = 0

Moves(p) ==
    /\ job[p].pc # "idle" /\ job' \in [Process -> Job]
    /\ \A q \in Process : q # p => job'[q] = job[q]
    /\ Returns(p) \/ GoesOn(p)

\* A return is one.
LEMMA FinishMoves ==
  ASSUME IInv, NEW p \in Process, job[p].pc # "idle", Finish(p)
  PROVE  Moves(p)
  BY FinishFrame DEF IInv, Moves, Returns, Finish

\* A step from one label to another goes on, if it stays in the same part of
\* the operation.
LEMMA GotoMoves ==
  ASSUME IInv, NEW p \in Process, NEW l \in Label, Goto(p, l), lock' = lock,
         job[p].pc \notin {"idle", "save_running", "count_running", "delete_record"},
         l \notin {"idle", "save_deployment", "save_running", "save_status", "list",
                   "count", "count_running"},
         l \in Starting => job[p].pc \in Starting,
         l \in Removing => job[p].pc \in Removing,
         l = "schedule" => job[p].pc = "save_deployment"
  PROVE  Moves(p)
<1>1. /\ job' \in [Process -> Job] /\ job'[p].pc = l
      /\ job'[p].op = job[p].op /\ job'[p].dep = job[p].dep
      /\ job'[p].mem = job[p].mem /\ job'[p].left = job[p].left
      /\ job'[p].cur = job[p].cur /\ job'[p].list = job[p].list
      /\ \A q \in Process : q # p => job'[q] = job[q]
  BY GotoFrame DEF IInv, TypeOK
<1>2. KeepsMem(p)
  BY <1>1 DEF KeepsMem
<1>3. l \in Removing => KeepsList(p)
  BY <1>1 DEF KeepsList
<1> QED BY <1>1, <1>2, <1>3 DEF Moves, GoesOn

\* So does a step that changes more of the memory.
LEMMA BecomeMoves ==
  ASSUME IInv, NEW p \in Process, NEW j \in Job, Become(p, j), lock' = lock,
         job[p].pc # "idle",
         j.pc \notin {"idle", "save_deployment", "list", "count_running"},
         j.op = job[p].op, j.dep = job[p].dep
  PROVE  /\ job' \in [Process -> Job] /\ job'[p] = j
         /\ GoesOn(p) => Moves(p)
<1>1. /\ job' \in [Process -> Job] /\ job'[p] = j
      /\ \A q \in Process : q # p => job'[q] = job[q]
  BY BecomeFrame DEF IInv, TypeOK
<1> QED BY <1>1 DEF Moves

\* The steps that only go from label to label.
LEMMA PlainMoves ==
  ASSUME IInv, NEW p \in Process,
         \/ SaveDeployment(p) \/ SaveContainer(p) \/ DockerCreate(p) \/ Post(p)
         \/ SaveFailed(p) \/ DockerStop(p) \/ DockerRemove(p) \/ SaveStopped(p)
  PROVE  Moves(p)
<1> USE DEF At, Removing, Handling, Starting
<1> DEFINE to == {"schedule", "docker_create", "post", "docker_start", "posted",
                  "save_remote_failed", "save_failed", "fail",
                  "docker_remove", "save_stopped", "delete_record"}
<1>1. to \subseteq Label
  BY DEF Label
<1>2. CASE SaveDeployment(p)
  <2>1. Goto(p, "schedule") /\ lock' = lock /\ job[p].pc = "save_deployment"
    BY <1>2 DEF SaveDeployment
  <2> QED BY <1>1, <2>1, GotoMoves
<1>3. CASE SaveContainer(p)
  <2>1. /\ Goto(p, "docker_create") \/ Goto(p, "post")
        /\ lock' = lock /\ job[p].pc = "save_container"
    BY <1>3 DEF SaveContainer
  <2> QED BY <1>1, <2>1, GotoMoves
<1>4. CASE DockerCreate(p)
  <2>1. /\ Goto(p, "docker_start") \/ Goto(p, "save_failed")
        /\ lock' = lock /\ job[p].pc = "docker_create"
    BY <1>4 DEF DockerCreate
  <2> QED BY <1>1, <2>1, GotoMoves
<1>5. CASE Post(p)
  <2>1. /\ Goto(p, "posted") \/ Goto(p, "save_remote_failed")
        /\ lock' = lock /\ job[p].pc = "post"
    BY <1>5 DEF Post
  <2> QED BY <1>1, <2>1, GotoMoves
<1>6. CASE SaveFailed(p)
  <2>1. /\ Goto(p, "save_failed") \/ Goto(p, "fail")
        /\ lock' = lock /\ job[p].pc \in {"save_remote_failed", "save_failed"}
    BY <1>6 DEF SaveFailed
  <2> QED BY <1>1, <2>1, GotoMoves
<1>7. CASE DockerStop(p) \/ DockerRemove(p) \/ SaveStopped(p)
  <2>1. /\ Goto(p, "docker_remove") \/ Goto(p, "save_stopped") \/ Goto(p, "delete_record")
        /\ lock' = lock /\ job[p].pc \in {"docker_stop", "docker_remove", "save_stopped"}
    BY <1>7 DEF DockerStop, DockerRemove, SaveStopped
  <2> QED BY <1>1, <2>1, GotoMoves
<1> QED BY <1>2, <1>3, <1>4, <1>5, <1>6, <1>7

\* Every return of an operation.
LEMMA ReturnMoves ==
  ASSUME IInv, NEW p \in Process,
         Fail(p) \/ UpdateSave(p) \/ DeleteDeploymentRecord(p) \/ ScaleSave(p)
  PROVE  Moves(p)
  BY FinishMoves DEF Fail, UpdateSave, DeleteDeploymentRecord, ScaleSave, At

\* A container to start next: an ID of the deployment's own.
LEMMA ScheduleMoves ==
  ASSUME IInv, NEW p \in Process, Schedule(p)
  PROVE  Moves(p)
<1> DEFINE d == job[p].dep
<1>1. /\ job[p].pc = "schedule" /\ job[p] \in Job /\ d \in DepId /\ lock' = lock
      /\ job[p].mem \in Deployment
  BY DEF Schedule, At, IInv, JobOK, TypeOK
<1>2. CASE Goto(p, "fail")
  BY <1>1, <1>2, GotoMoves DEF Label, Starting, Removing, Handling
<1>3. ASSUME NEW n \in Choices(job[p].mem.place.strategy, nodes \cap job[p].mem.place.targets,
                              Load, LocalNode),
             drawn[d] < PerDep,
             Become(p, [job[p] EXCEPT !.pc = "save_container",
                    !.cur = <<d, drawn[d] + 1>>, !.obj = NewContainer(job[p], n)])
      PROVE  Moves(p)
  <2> DEFINE c == <<d, drawn[d] + 1>>
             o == NewContainer(job[p], n)
             j == [job[p] EXCEPT !.pc = "save_container", !.cur = c, !.obj = o]
  <2>1. n \in Node
    BY <1>3, ChoicesAreNodes DEF IInv, TypeOK
  <2>2. o \in Container
    BY <1>1, <2>1, NewContainerType
  <2>3. c \in Cid /\ Owner(c) = d
    BY <1>1, <1>3, ConstantAssumption DEF IInv, TypeOK, Cid, Owner
  <2>4. "save_container" \in Label
    BY DEF Label
  <2>5. Become(p, j)
    BY <1>3
  <2> HIDE DEF c, o
  <2>6. /\ j \in Job /\ j.pc = "save_container" /\ j.op = job[p].op /\ j.dep = d
        /\ j.mem = job[p].mem /\ j.left = job[p].left /\ j.cur = c
    BY <1>1, <2>2, <2>3, <2>4 DEF Job
  <2> HIDE DEF j
  <2>7. job'[p] = j /\ (GoesOn(p) => Moves(p))
    BY <1>1, <2>5, <2>6, BecomeMoves
  <2>8. GoesOn(p)
    BY <1>1, <2>3, <2>6, <2>7 DEF GoesOn, KeepsMem, Removing, Handling
  <2> QED BY <2>7, <2>8
<1> QED BY <1>2, <1>3 DEF Schedule

\* The container was started here, or the worker says it was.
LEMMA StartedMoves ==
  ASSUME IInv, NEW p \in Process, DockerStart(p) \/ Answer(p)
  PROVE  Moves(p)
<1> USE DEF Starting, Removing, Handling
<1>1. /\ job[p].pc \in {"docker_start", "posted"} /\ lock' = lock /\ job[p] \in Job
      /\ job[p].obj \in Container
  BY DEF DockerStart, Answer, At, IInv, JobOK, TypeOK
<1> DEFINE o == [[job[p].obj EXCEPT !.docker = TRUE] EXCEPT !.status = "running"]
           j == [[[job[p] EXCEPT !.pc = "save_running"] EXCEPT !.obj.docker = TRUE]
                    EXCEPT !.obj.status = "running"]
<1>2. \/ Become(p, j)
      \/ \E l \in {"save_failed", "save_remote_failed"} : Goto(p, l)
  BY DEF DockerStart, Answer
<1>3. ASSUME NEW l \in {"save_failed", "save_remote_failed"}, Goto(p, l)
      PROVE  Moves(p)
  BY <1>1, <1>3, GotoMoves DEF Label
<1>4. CASE Become(p, j)
  <2>1. o \in Container /\ o.status = "running"
    BY <1>1 DEF Container
  <2>2. "save_running" \in Label
    BY DEF Label
  <2> DEFINE k == [[job[p] EXCEPT !.pc = "save_running"] EXCEPT !.obj = o]
  <2>3. j = k
    BY <1>1 DEF Job, Container
  <2> HIDE DEF o, j
  <2>4. /\ k \in Job /\ k.pc = "save_running" /\ k.op = job[p].op /\ k.dep = job[p].dep
        /\ k.mem = job[p].mem /\ k.left = job[p].left /\ k.cur = job[p].cur /\ k.obj = o
    BY <1>1, <2>1, <2>2 DEF Job
  <2> HIDE DEF k
  <2>5. job'[p] = k /\ (GoesOn(p) => Moves(p))
    BY <1>1, <1>4, <2>3, <2>4, BecomeMoves
  <2>6. GoesOn(p)
    BY <1>1, <2>1, <2>4, <2>5 DEF GoesOn, KeepsMem
  <2> QED BY <2>5, <2>6
<1> QED BY <1>2, <1>3, <1>4

\* The loop of scheduleContainers goes round.
LEMMA SaveRunningMoves ==
  ASSUME IInv, NEW p \in Process, SaveRunning(p)
  PROVE  /\ Moves(p)
         /\ job'[p].pc = "schedule" /\ job'[p].op = job[p].op
         /\ job'[p].left = job[p].left - 1
<1> DEFINE j == [job[p] EXCEPT !.pc = "schedule", !.left = @ - 1, !.idx = @ + 1,
                               !.cur = None, !.obj = None]
<1>1. job[p].pc = "save_running" /\ "schedule" \in Label /\ lock' = lock /\ Become(p, j)
  BY DEF SaveRunning, At, Label
<1>2. job[p] \in Job /\ job[p].left - 1 \in Nat /\ job[p].idx + 1 \in Nat
  BY <1>1, StartFacts DEF Job, Starting
<1>3. /\ j \in Job /\ j.pc = "schedule" /\ j.op = job[p].op /\ j.dep = job[p].dep
      /\ j.mem = job[p].mem /\ j.left = job[p].left - 1
  BY <1>1, <1>2 DEF Job
<1> HIDE DEF j
<1>4. job'[p] = j /\ (GoesOn(p) => Moves(p))
  BY <1>1, <1>3, BecomeMoves
<1>5. GoesOn(p)
  BY <1>1, <1>3, <1>4 DEF GoesOn, KeepsMem, Starting, Removing, Handling
<1> QED BY <1>3, <1>4, <1>5

\* updateDeploymentStatus: the record is read again, the status computed.
LEMMA UpdateMoves ==
  ASSUME IInv, NEW p \in Process, UpdateGet(p) \/ UpdateCount(p)
  PROVE  Moves(p)
<1> USE DEF Starting, Removing, Handling
<1>1. /\ job[p].pc \in {"schedule", "count"} /\ job[p].op = "create" /\ job[p] \in Job
      /\ job[p].dep \in DepId /\ job[p].mem \in Deployment
      /\ {"count", "save_status"} \subseteq Label
  BY DEF UpdateGet, UpdateCount, At, IInv, JobOK, TypeOK, Label
<1>2. CASE UpdateGet(p) /\ deps[job[p].dep] = None
  BY <1>1, <1>2, FinishMoves DEF UpdateGet
<1>3. CASE UpdateGet(p) /\ deps[job[p].dep] # None
  <2> DEFINE j == [job[p] EXCEPT !.pc = "count", !.mem = deps[job[p].dep]]
  <2>1. deps[job[p].dep] \in Deployment
    BY <1>1, <1>3 DEF IInv, TypeOK
  <2>2. lock' = lock /\ Become(p, j) /\ job[p].pc = "schedule" /\ job[p].left = 0
    BY <1>3 DEF UpdateGet, At
  <2>3. /\ j \in Job /\ j.pc = "count" /\ j.op = "create" /\ j.dep = job[p].dep
        /\ j.mem = deps[job[p].dep] /\ j.left = job[p].left
    BY <1>1, <2>1 DEF Job
  <2> HIDE DEF j
  <2>4. job'[p] = j /\ (GoesOn(p) => Moves(p))
    BY <1>1, <2>2, <2>3, BecomeMoves
  <2>5. GoesOn(p)
    BY <1>1, <1>3, <2>2, <2>3, <2>4 DEF GoesOn, KeepsMem
  <2> QED BY <2>4, <2>5
<1>4. CASE UpdateCount(p)
  <2> DEFINE st == StatusOf(job[p].mem.replicas, Cardinality(RunningOf(job[p].dep)),
                            Cardinality(FailedOf(job[p].dep)))
             m == [job[p].mem EXCEPT !.status = st]
             j == [job[p] EXCEPT !.pc = "save_status", !.mem.status = st]
             k == [job[p] EXCEPT !.pc = "save_status", !.mem = m]
  <2>1. lock' = lock /\ Become(p, j) /\ job[p].pc = "count"
    BY <1>4 DEF UpdateCount, At
  <2>2. st \in {"pending", "running", "failed"}
    BY DEF StatusOf
  <2> HIDE DEF st
  <2>3. m \in Deployment /\ m.name = job[p].mem.name /\ m.replicas = job[p].mem.replicas
    BY <1>1, <2>2 DEF Deployment
  <2>4. j = k
    BY <1>1 DEF Job, Deployment
  <2> HIDE DEF m, j
  <2>5. /\ k \in Job /\ k.pc = "save_status" /\ k.op = "create" /\ k.dep = job[p].dep
        /\ k.mem = m /\ k.left = job[p].left
    BY <1>1, <2>3 DEF Job
  <2> HIDE DEF k
  <2>6. job'[p] = k /\ (GoesOn(p) => Moves(p))
    BY <1>1, <2>1, <2>4, <2>5, BecomeMoves
  <2>7. GoesOn(p)
    BY <1>1, <2>1, <2>3, <2>5, <2>6 DEF GoesOn, KeepsMem
  <2> QED BY <2>6, <2>7
<1> QED BY <1>2, <1>3, <1>4

\* DeleteDeployment lists the records under the deployment.
LEMMA DeleteListMoves ==
  ASSUME IInv, NEW p \in Process, DeleteList(p)
  PROVE  Moves(p)
<1> DEFINE L == Listed(CtrsOf(job[p].dep))
           j == [job[p] EXCEPT !.pc = "stop", !.list = L]
<1>1. job[p].pc = "list" /\ job[p] \in Job /\ lock' = lock /\ Become(p, j)
  BY DEF DeleteList, At, IInv, TypeOK
<1>2. L \in [Cid -> Container \cup {None}]
  BY ListedType DEF IInv
<1>3. "stop" \in Label
  BY DEF Label
<1> HIDE DEF L
<1>4. /\ j \in Job /\ j.pc = "stop" /\ j.op = job[p].op /\ j.dep = job[p].dep
      /\ j.mem = job[p].mem /\ j.left = job[p].left /\ j.list = L
  BY ZenonT(60), <1>1, <1>2, <1>3 DEF Job
<1> HIDE DEF j
<1>5. job'[p] = j /\ (GoesOn(p) => Moves(p))
  BY <1>1, <1>4, BecomeMoves
<1>6. KeepsList(p)
  BY <1>1, <1>4, <1>5 DEF KeepsList, L
<1>7. GoesOn(p)
  BY <1>1, <1>4, <1>5, <1>6 DEF GoesOn, KeepsMem, Starting
<1> QED BY <1>5, <1>7

\* stopContainer takes the next record of the list; scale gives up when its
\* node is gone.
LEMMA StopContainerMoves ==
  ASSUME IInv, NEW p \in Process, NEW c \in Cid, StopContainer(p, c)
  PROVE  Moves(p)
<1> USE DEF Starting, Removing, Handling
<1> DEFINE j(l) == [job[p] EXCEPT !.pc = l, !.cur = c]
           to == {"docker_stop", "save_stopped", "delete_record"}
<1>1. /\ job[p].pc = "stop" /\ job[p] \in Job
      /\ Finish(p) \/ (lock' = lock /\ \E l \in to : Become(p, j(l)))
  BY DEF StopContainer, At, IInv, TypeOK
<1>2. ASSUME NEW l \in to, lock' = lock, Become(p, j(l))
      PROVE  Moves(p)
  <2>1. l \in Label
    BY DEF Label
  <2>2. /\ j(l) \in Job /\ j(l).pc = l /\ j(l).op = job[p].op /\ j(l).dep = job[p].dep
        /\ j(l).mem = job[p].mem /\ j(l).left = job[p].left /\ j(l).list = job[p].list
    BY <1>1, <2>1 DEF Job
  <2> HIDE DEF j
  <2>3. job'[p] = j(l) /\ (GoesOn(p) => Moves(p))
    BY <1>1, <1>2, <2>2, BecomeMoves
  <2>4. KeepsList(p)
    BY <1>1, <2>2, <2>3 DEF KeepsList
  <2>5. GoesOn(p)
    BY <1>1, <1>2, <2>2, <2>3, <2>4 DEF GoesOn, KeepsMem
  <2> QED BY <2>3, <2>5
<1> QED BY <1>1, <1>2, FinishMoves

\* DeleteContainer takes the container off the list.
LEMMA DeleteRecordMoves ==
  ASSUME IInv, NEW p \in Process, DeleteRecord(p)
  PROVE  /\ Moves(p)
         /\ job'[p].pc = "stop" /\ job'[p].op = job[p].op
         /\ job'[p].list = [job[p].list EXCEPT ![job[p].cur] = None]
<1> DEFINE L == [job[p].list EXCEPT ![job[p].cur] = None]
           j == [job[p] EXCEPT !.pc = "stop", !.cur = None, !.list = L]
<1>1. job[p].pc = "delete_record" /\ job[p] \in Job /\ lock' = lock
      /\ job[p].list \in [Cid -> Container \cup {None}]
  BY DEF DeleteRecord, At, IInv, TypeOK, Job
<1>2. Become(p, j)
  BY DEF DeleteRecord
<1>3. L \in [Cid -> Container \cup {None}]
  BY <1>1
<1>4. "stop" \in Label
  BY DEF Label
<1> HIDE DEF L
<1>5. /\ j \in Job /\ j.pc = "stop" /\ j.op = job[p].op /\ j.dep = job[p].dep
      /\ j.mem = job[p].mem /\ j.left = job[p].left /\ j.list = L
  BY <1>1, <1>3, <1>4 DEF Job
<1> HIDE DEF j
<1>6. job'[p] = j /\ (GoesOn(p) => Moves(p))
  BY <1>1, <1>2, <1>5, BecomeMoves
<1>7. KeepsList(p)
  BY <1>1, <1>5, <1>6 DEF KeepsList, L
<1>8. GoesOn(p)
  BY <1>1, <1>5, <1>6, <1>7 DEF GoesOn, KeepsMem, Starting
<1> QED BY <1>5, <1>6, <1>8 DEF L

\* A scale counts and takes the way up or the way down.
LEMMA ScaleCountMoves ==
  ASSUME IInv, NEW p \in Process, ScaleCount(p)
  PROVE  /\ Moves(p)
         /\ job'[p].op = "scale" /\ job'[p].mem = job[p].mem
         /\ LET running == RunningOf(job[p].dep)
                more == job[p].mem.replicas - Cardinality(running)
            IN \/ job'[p].pc = "schedule" /\ job'[p].left = more
               \/ /\ job'[p].pc = "stop"
                  /\ \E S \in SUBSET running :
                        Cardinality(S) = -more /\ job'[p].list = Listed(S)
<1> USE DEF Starting, Removing, Handling
<1> DEFINE running == RunningOf(job[p].dep)
           more == job[p].mem.replicas - Cardinality(running)
<1>1. /\ job[p].pc = "count_running" /\ job[p].op = "scale" /\ job[p] \in Job
      /\ job[p].mem \in Deployment /\ lock' = lock
      /\ {"schedule", "stop"} \subseteq Label
  BY DEF ScaleCount, At, IInv, JobOK, TypeOK, Label
<1>2. more \in Int
  <2>1. IsFiniteSet(running)
    BY CidFinite, FS_Subset DEF RunningOf, CtrsOf
  <2> QED BY <1>1, <2>1, FS_CardinalityType DEF Deployment
<1>3. \/ more >= 0 /\ Become(p, [job[p] EXCEPT !.pc = "schedule", !.left = more])
      \/ \E S \in SUBSET running :
            /\ Cardinality(S) = -more
            /\ Become(p, [job[p] EXCEPT !.pc = "stop", !.list = Listed(S)])
  BY DEF ScaleCount
<1> HIDE DEF more
<1>4. CASE more >= 0 /\ Become(p, [job[p] EXCEPT !.pc = "schedule", !.left = more])
  <2> DEFINE j == [job[p] EXCEPT !.pc = "schedule", !.left = more]
  <2>1. more \in Nat
    BY <1>2, <1>4
  <2>2. /\ j \in Job /\ j.pc = "schedule" /\ j.op = "scale" /\ j.dep = job[p].dep
        /\ j.mem = job[p].mem /\ j.left = more
    BY <1>1, <2>1 DEF Job
  <2>3. Become(p, j)
    BY <1>4
  <2> HIDE DEF j
  <2>4. job'[p] = j /\ (GoesOn(p) => Moves(p))
    BY <1>1, <2>2, <2>3, BecomeMoves
  <2>5. GoesOn(p)
    BY <1>1, <2>2, <2>4 DEF GoesOn, KeepsMem
  <2> QED BY <2>2, <2>4, <2>5 DEF more
<1>5. ASSUME NEW S \in SUBSET running, Cardinality(S) = -more,
             Become(p, [job[p] EXCEPT !.pc = "stop", !.list = Listed(S)])
      PROVE  /\ Moves(p) /\ job'[p].op = "scale" /\ job'[p].mem = job[p].mem
             /\ job'[p].pc = "stop" /\ job'[p].list = Listed(S)
  <2> DEFINE L == Listed(S)
             j == [job[p] EXCEPT !.pc = "stop", !.list = L]
  <2>1. L \in [Cid -> Container \cup {None}]
    BY ListedType DEF IInv
  <2>2. Become(p, j)
    BY <1>5
  <2> HIDE DEF L
  <2>3. /\ j \in Job /\ j.pc = "stop" /\ j.op = "scale" /\ j.dep = job[p].dep
        /\ j.mem = job[p].mem /\ j.list = L
    BY ZenonT(60), <1>1, <2>1 DEF Job
  <2> HIDE DEF j
  <2>4. job'[p] = j /\ (GoesOn(p) => Moves(p))
    BY <1>1, <2>2, <2>3, BecomeMoves
  <2>5. KeepsList(p)
    BY <1>1, <2>3, <2>4 DEF KeepsList, L
  <2>6. GoesOn(p)
    BY <1>1, <2>3, <2>4, <2>5 DEF GoesOn, KeepsMem
  <2> QED BY <2>3, <2>4, <2>6 DEF L
<1> QED BY <1>3, <1>4, <1>5 DEF more

\* Every step of an operation moves its process, and only that.
LEMMA StepMoves ==
  ASSUME IInv, NEW p \in Process, Step(p)
  PROVE  Moves(p)
  BY PlainMoves, ReturnMoves, ScheduleMoves, StartedMoves, SaveRunningMoves, UpdateMoves,
     DeleteListMoves, StopContainerMoves, DeleteRecordMoves, ScaleCountMoves
  DEF Step

-----------------------------------------------------------------------------
(* What a step does to the database.                                        *)

\* Container records change one at a time, the one the process works on.
SavesContainer(p) ==
    LET c == job[p].cur IN
    /\ \A x \in Cid : x # c => ctrs'[x] = ctrs[x]
    /\ \/ /\ UNCHANGED ctrs
          /\ job[p].pc \notin {"save_container", "save_running", "delete_record", "save_stopped"}
       \/ /\ job[p].pc \in {"save_container", "save_remote_failed", "save_failed"}
          /\ ctrs'[c] \in Container /\ ctrs'[c].status # "running"
       \/ job[p].pc = "save_running" /\ ctrs'[c] = job[p].obj
       \/ /\ job[p].pc = "save_stopped"
          /\ ctrs'[c] \in Container /\ ctrs'[c].status = "stopped"
       \/ job[p].pc = "delete_record" /\ ctrs'[c] = None

\* Deployment records change one at a time, the one the process works on.
SavesDeployment(p) ==
    LET d == job[p].dep IN
    /\ \A e \in DepId : e # d => deps'[e] = deps[e]
    /\ \/ UNCHANGED deps /\ job[p].pc # "save_deployment"
       \/ job[p].pc = "save_deployment" /\ deps'[d] = job[p].mem
       \/ /\ job[p].op = "create" /\ Returns(p)
          /\ job[p].pc = "fail" /\ deps'[d] = [job[p].mem EXCEPT !.status = "failed"]
       \/ /\ job[p].op = "create" /\ Returns(p)
          /\ job[p].pc = "save_status" /\ deps'[d] = job[p].mem
       \/ /\ job[p].op = "delete" /\ Returns(p) /\ deps'[d] = None
          /\ job[p].pc = "stop" /\ job[p].list = NoContainers
       \/ /\ job[p].op = "scale" /\ Returns(p)
          /\ deps'[d] = [job[p].mem EXCEPT !.status = "running"]
          /\ \/ job[p].pc = "schedule" /\ job[p].left = 0
             \/ job[p].pc = "stop" /\ job[p].list = NoContainers

Saves(p) ==
    /\ SavesContainer(p) /\ SavesDeployment(p)
    /\ \A e \in DepId : e # job[p].dep => drawn'[e] = drawn[e]
    /\ UNCHANGED <<nodes, born, crashes, cut>>

\* The steps that save nothing.
LEMMA SilentSaves ==
  ASSUME IInv, NEW p \in Process,
         \/ Schedule(p) \/ DockerCreate(p) \/ DockerStart(p) \/ Post(p) \/ Answer(p)
         \/ UpdateGet(p) \/ UpdateCount(p) \/ DeleteList(p) \/ DockerStop(p)
         \/ DockerRemove(p) \/ ScaleCount(p) \/ \E c \in Cid : StopContainer(p, c)
  PROVE  Saves(p)
<1>1. /\ UNCHANGED <<nodes, deps, ctrs, born, crashes, cut>>
      /\ job[p].pc \notin {"save_container", "save_running", "delete_record",
                           "save_stopped", "save_deployment"}
  BY DEF Schedule, DockerCreate, DockerStart, Post, Answer, UpdateGet, UpdateCount,
         DeleteList, DockerStop, DockerRemove, ScaleCount, StopContainer, At,
         db, ids, history
<1>2. \A e \in DepId : e # job[p].dep => drawn'[e] = drawn[e]
  <2>1. drawn \in [DepId -> 0 .. PerDep]
    BY DEF IInv, TypeOK
  <2>2. drawn' = drawn \/ drawn' = [drawn EXCEPT ![job[p].dep] = @ + 1]
    BY DEF Schedule, DockerCreate, DockerStart, Post, Answer, UpdateGet, UpdateCount,
           DeleteList, DockerStop, DockerRemove, ScaleCount, StopContainer, ids
  <2> QED BY <2>1, <2>2
<1> QED BY <1>1, <1>2 DEF Saves, SavesContainer, SavesDeployment

\* The steps that save a container's record.
LEMMA ContainerSaves ==
  ASSUME IInv, NEW p \in Process,
         \/ SaveContainer(p) \/ SaveRunning(p) \/ SaveFailed(p)
         \/ SaveStopped(p) \/ DeleteRecord(p)
  PROVE  Saves(p)
<1> DEFINE c == job[p].cur
<1>1. /\ UNCHANGED <<nodes, deps, born, drawn, crashes, cut>> /\ job[p].pc # "save_deployment"
      /\ ctrs \in [Cid -> Container \cup {None}]
  BY DEF SaveContainer, SaveRunning, SaveFailed, SaveStopped, DeleteRecord, At,
         ids, history, IInv, TypeOK
<1>2. SavesDeployment(p)
  BY <1>1 DEF SavesDeployment
<1>3. c \in Cid
  BY DEF SaveContainer, SaveRunning, SaveFailed, SaveStopped, DeleteRecord, At,
         IInv, JobOK, Starting, Handling
<1>4. CASE SaveContainer(p)
  <2>1. job[p].pc = "save_container" /\ ctrs' = [ctrs EXCEPT ![c] = job[p].obj]
        /\ job[p].obj \in Container /\ job[p].obj.status # "running"
    BY <1>4 DEF SaveContainer, At, IInv, JobOK, StartOK, Starting
  <2> QED BY <1>1, <1>2, <1>3, <2>1 DEF SavesContainer, Saves
<1>5. CASE SaveRunning(p)
  <2>1. job[p].pc = "save_running" /\ ctrs' = [ctrs EXCEPT ![c] = job[p].obj]
    BY <1>5 DEF SaveRunning, At
  <2> QED BY <1>1, <1>2, <1>3, <2>1 DEF SavesContainer, Saves
<1>6. CASE SaveFailed(p)
  <2> DEFINE o == [job[p].obj EXCEPT !.status = "failed"]
  <2>1. job[p].pc \in {"save_remote_failed", "save_failed"} /\ ctrs' = [ctrs EXCEPT ![c] = o]
        /\ job[p].obj \in Container
    BY <1>6 DEF SaveFailed, At, IInv, JobOK, Starting
  <2>2. o \in Container /\ o.status = "failed"
    BY <2>1 DEF Container
  <2> HIDE DEF o
  <2> QED BY <1>1, <1>2, <1>3, <2>1, <2>2 DEF SavesContainer, Saves
<1>7. CASE SaveStopped(p)
  <2> DEFINE o == [job[p].list[c] EXCEPT !.status = "stopped"]
  <2>1. job[p].pc = "save_stopped" /\ ctrs' = [ctrs EXCEPT ![c] = o]
        /\ job[p].list[c] \in Container
    BY <1>7 DEF SaveStopped, At, IInv, JobOK, Handling
  <2>2. o \in Container /\ o.status = "stopped"
    BY <2>1 DEF Container
  <2> HIDE DEF o
  <2> QED BY <1>1, <1>2, <1>3, <2>1, <2>2 DEF SavesContainer, Saves
<1>8. CASE DeleteRecord(p)
  <2>1. job[p].pc = "delete_record" /\ ctrs' = [ctrs EXCEPT ![c] = None]
    BY <1>8 DEF DeleteRecord, At
  <2> QED BY <1>1, <1>2, <1>3, <2>1 DEF SavesContainer, Saves
<1> QED BY <1>4, <1>5, <1>6, <1>7, <1>8

\* The steps that save a deployment's record, or drop it.
LEMMA DeploymentSaves ==
  ASSUME IInv, NEW p \in Process,
         \/ SaveDeployment(p) \/ Fail(p) \/ UpdateSave(p)
         \/ DeleteDeploymentRecord(p) \/ ScaleSave(p)
  PROVE  Saves(p)
<1> DEFINE d == job[p].dep
<1>1. /\ UNCHANGED <<nodes, ctrs, born, drawn, crashes, cut>>
      /\ job[p].pc \notin {"save_container", "save_running", "delete_record", "save_stopped"}
      /\ deps \in [DepId -> Deployment \cup {None}]
  BY DEF SaveDeployment, Fail, UpdateSave, DeleteDeploymentRecord, ScaleSave, At,
         ids, history, IInv, TypeOK
<1>2. SavesContainer(p)
  BY <1>1 DEF SavesContainer
<1>3. d \in DepId
  BY DEF SaveDeployment, Fail, UpdateSave, DeleteDeploymentRecord, ScaleSave, At, IInv, JobOK
<1>r. Fail(p) \/ UpdateSave(p) \/ DeleteDeploymentRecord(p) \/ ScaleSave(p) => Returns(p)
  BY FinishFrame DEF Fail, UpdateSave, DeleteDeploymentRecord, ScaleSave, Returns, Finish, IInv
<1>4. CASE SaveDeployment(p)
  <2>1. job[p].pc = "save_deployment" /\ deps' = [deps EXCEPT ![d] = job[p].mem]
    BY <1>4 DEF SaveDeployment, At
  <2> QED BY <1>1, <1>2, <1>3, <2>1 DEF SavesDeployment, Saves
<1>5. CASE Fail(p) /\ job[p].op = "create"
  <2>1. job[p].pc = "fail" /\ deps' = [deps EXCEPT ![d] = [job[p].mem EXCEPT !.status = "failed"]]
    BY <1>5 DEF Fail, At
  <2> QED BY <1>1, <1>2, <1>3, <1>5, <1>r, <2>1 DEF SavesDeployment, Saves
<1>6. CASE Fail(p) /\ job[p].op # "create"
  <2>1. job[p].pc = "fail" /\ UNCHANGED deps
    BY <1>6 DEF Fail, At
  <2> QED BY <1>1, <1>2, <2>1 DEF SavesDeployment, Saves
<1>7. CASE UpdateSave(p)
  <2>1. /\ job[p].pc = "save_status" /\ deps' = [deps EXCEPT ![d] = job[p].mem]
        /\ job[p].op = "create"
    BY <1>7 DEF UpdateSave, At, IInv, JobOK
  <2> QED BY <1>1, <1>2, <1>3, <1>7, <1>r, <2>1 DEF SavesDeployment, Saves
<1>8. CASE DeleteDeploymentRecord(p)
  <2>1. /\ job[p].pc = "stop" /\ deps' = [deps EXCEPT ![d] = None]
        /\ job[p].op = "delete" /\ job[p].list = NoContainers
    BY <1>8 DEF DeleteDeploymentRecord, At
  <2> QED BY <1>1, <1>2, <1>3, <1>8, <1>r, <2>1 DEF SavesDeployment, Saves
<1>9. CASE ScaleSave(p)
  <2>1. /\ deps' = [deps EXCEPT ![d] = [job[p].mem EXCEPT !.status = "running"]]
        /\ job[p].op = "scale"
        /\ \/ job[p].pc = "schedule" /\ job[p].left = 0
           \/ job[p].pc = "stop" /\ job[p].list = NoContainers
    BY <1>9 DEF ScaleSave, At
  <2> QED BY <1>1, <1>2, <1>3, <1>9, <1>r, <2>1 DEF SavesDeployment, Saves
<1> QED BY <1>4, <1>5, <1>6, <1>7, <1>8, <1>9

\* Every step of an operation saves within its own deployment.
LEMMA StepSaves ==
  ASSUME IInv, NEW p \in Process, Step(p)
  PROVE  Saves(p)
  BY SilentSaves, ContainerSaves, DeploymentSaves DEF Step

-----------------------------------------------------------------------------
(* What a step does to the running containers.                              *)

\* Sets of container IDs can be counted.
LEMMA Countable == \A S \in SUBSET Cid : IsFiniteSet(S) /\ Cardinality(S) \in Nat
  BY CidFinite, FS_Subset, FS_CardinalityType

\* The container a process saves or drops belongs to its deployment.
LEMMA OwnContainer ==
  ASSUME IInv, ScopeOK, NEW p \in Process, job[p].pc \in Starting \cup Handling
  PROVE  /\ job[p].cur \in Cid /\ Owner(job[p].cur) = job[p].dep
         /\ job[p].pc \in Handling => job[p].cur \in InHand(p)
<1>1. CASE job[p].pc \in Starting
  BY <1>1 DEF IInv, JobOK, ScopeOK, Starting, Handling
<1>2. CASE job[p].pc \in Handling
  <2>1. job[p].cur \in Cid /\ job[p].list[job[p].cur] \in Container
    BY <1>2 DEF IInv, JobOK
  <2>2. job[p].cur \in InHand(p)
    BY <2>1, NoneAssumption DEF InHand
  <2> QED BY <1>2, <2>1, <2>2 DEF ScopeOK
<1> QED BY <1>1, <1>2

\* No step of an operation touches the containers of another deployment.
LEMMA OtherRunning ==
  ASSUME IInv, ScopeOK, NEW p \in Process, Saves(p), NEW d \in DepId, d # job[p].dep
  PROVE  CtrsOf(d)' = CtrsOf(d) /\ RunningOf(d)' = RunningOf(d)
<1>1. \A c \in Cid : Owner(c) = d => ctrs'[c] = ctrs[c]
  <2>1. CASE UNCHANGED ctrs
    BY <2>1
  <2>2. CASE job[p].pc \in Starting \cup Handling
    BY <2>2, OwnContainer DEF Saves, SavesContainer
  <2> QED BY <2>1, <2>2 DEF Saves, SavesContainer, Starting, Handling
<1> QED BY <1>1 DEF CtrsOf, RunningOf

\* The container a process brings up does not count as running until it is
\* saved as such.
LEMMA StarterNotRunning ==
  ASSUME IInv, NEW p \in Process, job[p].pc \in Starting, NEW d
  PROVE  job[p].cur \notin RunningOf(d)
  BY DEF IInv, OneStarter, RunningHasDocker, Starts, RunningOf, CtrsOf

\* One more runs when it is saved, one less once it was stopped, and in every
\* other step the running containers stay the same.
LEMMA OwnRunning ==
  ASSUME IInv, ScopeOK, NEW p \in Process, Saves(p), NEW d, d = job[p].dep
  PROVE  LET c == job[p].cur
             R == RunningOf(d)
         IN /\ job[p].pc = "save_running" => c \notin R /\ R' = R \cup {c}
            /\ job[p].pc \in {"save_stopped", "delete_record"}
                 => c \in InHand(p) /\ R' = R \ {c}
            /\ job[p].pc \notin {"save_running", "save_stopped", "delete_record"} => R' = R
<1> USE NoneAssumption
<1> DEFINE c == job[p].cur
<1>1. \A x \in Cid : x # c => ctrs'[x] = ctrs[x]
  BY DEF Saves, SavesContainer
<1>2. CASE job[p].pc = "save_running"
  <2>1. c \in Cid /\ Owner(c) = d /\ c \notin RunningOf(d)
    BY <1>2, OwnContainer, StarterNotRunning DEF Starting
  <2>2. ctrs'[c] # None /\ ctrs'[c].status = "running"
    BY <1>2 DEF Saves, SavesContainer, ScopeOK, IInv, JobOK, Starting
  <2>3. RunningOf(d)' = RunningOf(d) \cup {c}
    BY <1>1, <2>1, <2>2 DEF RunningOf, CtrsOf
  <2> QED BY <1>2, <2>1, <2>3
<1>3. CASE job[p].pc \in {"save_stopped", "delete_record"}
  <2>1. c \in Cid /\ c \in InHand(p)
    BY <1>3, OwnContainer DEF Handling
  <2>2. ctrs'[c] = None \/ ctrs'[c].status # "running"
    BY <1>3 DEF Saves, SavesContainer
  <2>3. RunningOf(d)' = RunningOf(d) \ {c}
    BY <1>1, <2>1, <2>2 DEF RunningOf, CtrsOf
  <2> QED BY <1>3, <2>1, <2>3
<1>4. CASE job[p].pc \notin {"save_running", "save_stopped", "delete_record"}
  <2>1. CASE UNCHANGED ctrs
    BY <1>4, <2>1 DEF RunningOf, CtrsOf
  <2>2. CASE /\ job[p].pc \in {"save_container", "save_remote_failed", "save_failed"}
             /\ ctrs'[c].status # "running"
    <3>1. c \notin RunningOf(d)
      BY <2>2, StarterNotRunning DEF Starting
    <3>2. RunningOf(d)' = RunningOf(d)
      BY <1>1, <2>2, <3>1 DEF RunningOf, CtrsOf
    <3> QED BY <1>4, <3>2
  <2> QED BY <1>4, <2>1, <2>2 DEF Saves, SavesContainer
<1> QED BY <1>2, <1>3, <1>4

-----------------------------------------------------------------------------
(* The invariant.                                                           *)

\* The tool is alone; whoever works beside a goroutine is a goroutine.
LEMMA Apart ==
  ASSUME LockOK, NEW p \in Process, NEW q \in Process, Busy(p), Busy(q), p # q
  PROVE  p # Cli /\ q # Cli
  BY DEF LockOK

\* Taking a step leaves the database locked as it has to be.
LEMMA StepLock ==
  ASSUME LockOK, NEW p \in Process, Moves(p)
  PROVE  LockOK'
<1>1. Busy(p) /\ \A q \in Process : q # p => job'[q] = job[q]
  BY DEF Moves, Busy
<1>2. Idle.pc = "idle" /\ Idle.op = "none"
  BY DEF Idle
<1>3. CASE Returns(p)
  BY <1>1, <1>2, <1>3, Apart DEF Returns, LockOK, Busy
<1>4. CASE GoesOn(p)
  BY <1>1, <1>4 DEF GoesOn, LockOK, Busy
<1> QED BY <1>3, <1>4 DEF Moves

\* No step but the start of a create draws a deployment ID.
LEMMA StepBorn ==
  ASSUME IInv, BornOK, NEW p \in Process, Moves(p), Saves(p)
  PROVE  BornOK'
<1>1. job[p].dep \in born /\ UNCHANGED born
  BY DEF Moves, BornOK, Busy, Saves
<1>2. \A d \in DepId \ born : deps'[d] = deps[d] /\ drawn'[d] = drawn[d]
  BY <1>1 DEF Saves, SavesDeployment
<1>3. /\ job'[p] = Idle \/ (job'[p].op = job[p].op /\ job'[p].dep = job[p].dep)
      /\ \A q \in Process : q # p => job'[q] = job[q]
  BY DEF Moves, Returns, GoesOn
<1>a. Idle.pc = "idle" /\ Idle.op = "none"
  BY DEF Idle
<1>4. \A q \in Process : /\ job'[q].op = "create"
                             => job[q].op = "create" /\ job'[q].dep = job[q].dep
                         /\ job'[q].pc # "idle" => job'[q].dep \in born
  BY <1>1, <1>3, <1>a DEF BornOK, Busy
<1> QED BY <1>1, <1>2, <1>4 DEF BornOK, Busy

\* A process goes on with containers of its own deployment.
LEMMA StepScope ==
  ASSUME IInv, ScopeOK, NEW p \in Process, Moves(p)
  PROVE  ScopeOK'
<1>1. ASSUME NEW q \in Process, q # p
      PROVE  ScopeOK!(q)'
  BY <1>1 DEF ScopeOK, Moves, InHand
<1>2. CASE Returns(p)
  <2>1. job'[p].pc = "idle" /\ job'[p].op = "none"
    BY <1>2 DEF Returns, Idle
  <2>2. ScopeOK!(p)'
    BY <2>1 DEF Starting, Handling
  <2> QED BY <1>1, <2>2 DEF ScopeOK
<1>3. CASE GoesOn(p)
  <2>1. job'[p].op = "scale" => p = Cli
    BY <1>3 DEF GoesOn, ScopeOK
  <2>2. job'[p].pc \in Starting => Owner(job'[p].cur) = job'[p].dep
    BY <1>3 DEF GoesOn, ScopeOK
  <2>3. ASSUME job'[p].pc \in Removing, NEW c \in Cid, job'[p].list[c] # None
        PROVE  Owner(c) = job[p].dep
    <3>1. KeepsList(p)
      BY <1>3, <2>3 DEF GoesOn
    <3>a. job[p].list \in [Cid -> Container \cup {None}]
      BY DEF IInv, TypeOK, Job
    <3>2. CASE job[p].pc \in Removing /\ job'[p].list[c] \in {None, job[p].list[c]}
      BY <2>3, <3>2 DEF ScopeOK, InHand, Removing
    <3>3. CASE \E S \in SUBSET CtrsOf(job[p].dep) : job'[p].list = Listed(S)
      BY <2>3, <3>3 DEF Listed, CtrsOf
    <3> QED BY <3>1, <3>2, <3>3, <3>a DEF KeepsList, RunningOf, Removing, Handling
  <2>4. /\ job'[p].pc \notin {"save_deployment", "list"} /\ job'[p].dep = job[p].dep
        /\ job'[p].pc = "save_running" => job'[p].obj.status = "running"
    BY <1>3 DEF GoesOn
  <2> QED BY <1>1, <2>1, <2>2, <2>3, <2>4 DEF ScopeOK, InHand, Removing
<1> QED BY <1>2, <1>3 DEF Moves

\* Which step it is that starts at these labels.
LEMMA StepAt ==
  ASSUME NEW p \in Process, Step(p)
  PROVE  /\ job[p].pc = "save_running" => SaveRunning(p)
         /\ job[p].pc = "count_running" => ScaleCount(p)
         /\ job[p].pc = "count" => UpdateCount(p)
         /\ job[p].pc = "save_stopped" => SaveStopped(p)
         /\ job[p].pc = "delete_record" => DeleteRecord(p)
<1>1. /\ SaveDeployment(p) => job[p].pc = "save_deployment"
      /\ Schedule(p) => job[p].pc = "schedule"
      /\ SaveContainer(p) => job[p].pc = "save_container"
      /\ Fail(p) => job[p].pc = "fail"
      /\ DockerCreate(p) => job[p].pc = "docker_create"
      /\ DockerStart(p) => job[p].pc = "docker_start"
      /\ Post(p) => job[p].pc = "post"
      /\ Answer(p) => job[p].pc = "posted"
      /\ SaveRunning(p) => job[p].pc = "save_running"
      /\ SaveFailed(p) => job[p].pc \in {"save_remote_failed", "save_failed"}
      /\ UpdateGet(p) => job[p].pc = "schedule"
  BY DEF SaveDeployment, Schedule, SaveContainer, Fail, DockerCreate, DockerStart, Post,
         Answer, SaveRunning, SaveFailed, UpdateGet, At
<1>2. /\ UpdateCount(p) => job[p].pc = "count"
      /\ UpdateSave(p) => job[p].pc = "save_status"
      /\ DeleteList(p) => job[p].pc = "list"
      /\ (\E c \in Cid : StopContainer(p, c)) => job[p].pc = "stop"
      /\ DockerStop(p) => job[p].pc = "docker_stop"
      /\ DockerRemove(p) => job[p].pc = "docker_remove"
      /\ SaveStopped(p) => job[p].pc = "save_stopped"
      /\ DeleteRecord(p) => job[p].pc = "delete_record"
      /\ DeleteDeploymentRecord(p) => job[p].pc = "stop"
      /\ ScaleCount(p) => job[p].pc = "count_running"
      /\ ScaleSave(p) => job[p].pc \in {"schedule", "stop"}
  BY DEF UpdateCount, UpdateSave, DeleteList, StopContainer, DockerStop, DockerRemove,
         SaveStopped, DeleteRecord, DeleteDeploymentRecord, ScaleCount, ScaleSave, At
<1> QED BY <1>1, <1>2 DEF Step

\* A step of a goroutine leaves the count of every other create right.
LEMMA OthersCreate ==
  ASSUME IInv, CountInv, NEW p \in Process, Moves(p), Saves(p),
         NEW q \in Process, q # p, job[q].op = "create"
  PROVE  Creating(q)'
<1> PICK d : d = job[q].dep
  OBVIOUS
<1>1. Busy(p) /\ Busy(q) /\ job'[q] = job[q]
  BY DEF Moves, Busy, CountInv, LockOK
<1>2. d \in DepId /\ job[p].op \in {"create", "delete"} /\ job[q].mem \in Deployment
  <2>1. d \in DepId /\ job[p].op # "none" /\ job[q].mem \in Deployment
    BY <1>1 DEF Busy, IInv, JobOK
  <2>2. job[p].op # "scale"
    BY <1>1, Apart DEF CountInv, ScopeOK
  <2> QED BY <2>1, <2>2 DEF IInv, TypeOK, Job
<1>3. /\ Cardinality(RunningOf(d)) + job[q].left <= job[q].mem.replicas
      /\ deps[d] # None => /\ deps[d].replicas = job[q].mem.replicas
                           /\ deps[d].status # "scaling"
  BY DEF CountInv, CreateOK, Creating
<1>4. /\ deps'[d] \in {None, deps[d]}
      /\ RunningOf(d)' \subseteq RunningOf(d)
  <2>1. CASE job[p].dep # d
    BY <1>2, <2>1, OtherRunning DEF CountInv, Saves, SavesDeployment
  <2>2. CASE job[p].dep = d
    <3>1. job[p].op = "delete"
      BY <1>2, <2>2 DEF CountInv, BornOK
    <3>2. job[p].pc \notin {"save_deployment", "save_running"}
      BY <3>1 DEF IInv, JobOK, Starting
    <3>3. deps'[d] \in {None, deps[d]}
      BY <2>2, <3>1, <3>2 DEF Saves, SavesDeployment
    <3> QED BY <1>2, <2>2, <3>2, <3>3, OwnRunning DEF CountInv
  <2> QED BY <2>1, <2>2
<1>5. /\ Cardinality(RunningOf(d)') \in Nat /\ Cardinality(RunningOf(d)) \in Nat
      /\ Cardinality(RunningOf(d)') <= Cardinality(RunningOf(d))
  <2>1. RunningOf(d) \in SUBSET Cid /\ RunningOf(d)' \in SUBSET Cid
    BY DEF RunningOf, CtrsOf
  <2> QED BY <1>4, <2>1, Countable, FS_Subset
<1>6. job[q].left \in Nat /\ job[q].mem.replicas \in Nat
  BY <1>2 DEF IInv, TypeOK, Job, Deployment
<1>7. Cardinality(RunningOf(d)') + job[q].left <= job[q].mem.replicas
  BY ONLY <1>3, <1>5, <1>6
<1>8. job'[q].dep = d /\ job'[q].left = job[q].left /\ job'[q].mem = job[q].mem
  BY <1>1
<1> QED BY <1>3, <1>4, <1>7, <1>8 DEF Creating, RunningOf, CtrsOf

\* Going on, a create trades what it has still to bring up for what runs.
LEMMA OwnCreate ==
  ASSUME IInv, CountInv, NEW p \in Process, Step(p), job[p].op = "create", GoesOn(p)
  PROVE  Creating(p)'
<1> USE NoneAssumption
<1> PICK d : d = job[p].dep
  OBVIOUS
<1>1. Moves(p) /\ Saves(p) /\ Busy(p)
  BY StepMoves, StepSaves DEF Moves, Busy
<1>2. d \in DepId /\ job[p].mem \in Deployment /\ job[p].pc \notin Removing \cup {"count_running"}
  BY <1>1 DEF Busy, IInv, JobOK, Removing, Handling
<1>3. /\ Cardinality(RunningOf(d)) + job[p].left <= job[p].mem.replicas
      /\ deps[d] # None => /\ deps[d].replicas = job[p].mem.replicas
                           /\ deps[d].status # "scaling"
  BY DEF CountInv, CreateOK, Creating
<1>4. job'[p].dep = d /\ job'[p].mem.replicas = job[p].mem.replicas /\ ~Returns(p)
  <2>1. job'[p].mem.replicas = job[p].mem.replicas
    BY <1>3 DEF GoesOn, KeepsMem
  <2>2. Idle.pc = "idle"
    BY DEF Idle
  <2> QED BY <2>1, <2>2 DEF GoesOn, Returns
<1>5. deps'[d] # None => /\ deps'[d].replicas = job[p].mem.replicas
                         /\ deps'[d].status # "scaling"
  <2>1. job[p].pc = "save_deployment" => job[p].mem.status = "pending"
    BY DEF CountInv, ScopeOK
  <2> QED BY <1>1, <1>3, <1>4, <2>1 DEF Saves, SavesDeployment
<1>6. /\ Cardinality(RunningOf(d)) \in Nat /\ Cardinality(RunningOf(d)') \in Nat
      /\ job[p].left \in Nat /\ job[p].mem.replicas \in Nat
  <2>1. RunningOf(d) \in SUBSET Cid /\ RunningOf(d)' \in SUBSET Cid
    BY DEF RunningOf, CtrsOf
  <2> QED BY <1>2, <2>1, Countable DEF IInv, TypeOK, Job, Deployment
<1>7. Cardinality(RunningOf(d)') + job'[p].left <= job[p].mem.replicas
  <2>1. CASE job[p].pc = "save_running"
    <3>1. job'[p].left = job[p].left - 1
      BY <2>1, StepAt, SaveRunningMoves
    <3>2. job[p].cur \notin RunningOf(d) /\ RunningOf(d)' = RunningOf(d) \cup {job[p].cur}
      BY <1>1, <2>1, OwnRunning DEF CountInv
    <3>3. IsFiniteSet(RunningOf(d))
      BY Countable DEF RunningOf, CtrsOf
    <3>4. Cardinality(RunningOf(d)') = Cardinality(RunningOf(d)) + 1
      BY <3>2, <3>3, FS_AddElement
    <3> QED BY <1>3, <1>6, <3>1, <3>4
  <2>2. CASE job[p].pc # "save_running"
    <3>1. job'[p].left = job[p].left
      BY <1>2, <2>2 DEF GoesOn
    <3>2. RunningOf(d)' = RunningOf(d)
      BY <1>1, <1>2, <2>2, OwnRunning DEF CountInv, Removing, Handling
    <3> QED BY <1>3, <3>1, <3>2
  <2> QED BY <2>1, <2>2
<1> QED BY <1>4, <1>5, <1>7 DEF Creating, RunningOf, CtrsOf

\* What a scale listed and has not yet stopped.
LEMMA ListedInHand ==
  ASSUME NEW p \in Process, NEW S, S \subseteq Cid, \A c \in S : ctrs[c] # None,
         job'[p].list = Listed(S)
  PROVE  InHand(p)' = S
  BY DEF InHand, Listed

\* Going on, a scale keeps the difference that it has to make up.
LEMMA OwnScale ==
  ASSUME IInv, CountInv, NEW p \in Process, Step(p), job[p].op = "scale", GoesOn(p)
  PROVE  Scaling(p)'
<1> USE NoneAssumption
<1> PICK d : d = job[p].dep
  OBVIOUS
<1> DEFINE R == RunningOf(d)
<1>1. Moves(p) /\ Saves(p) /\ Busy(p)
  BY StepMoves, StepSaves DEF Moves, Busy
<1>2. /\ d \in DepId /\ job[p].mem \in Deployment
      /\ job[p].pc \notin {"save_deployment", "count", "save_status", "list"}
  BY <1>1 DEF Busy, IInv, JobOK, CountInv, ScopeOK
<1>3. /\ deps[d] = job[p].mem /\ job[p].mem.status = "scaling"
      /\ job[p].pc \in {"schedule"} \cup Starting
           => Cardinality(R) + job[p].left = job[p].mem.replicas
      /\ job[p].pc \in Removing
           => Cardinality(R \ InHand(p)) = job[p].mem.replicas
  BY DEF CountInv, ScaleOK, Scaling, Removing
<1>4. job'[p].dep = d /\ job'[p].mem = job[p].mem /\ deps' = deps
  <2>1. Idle.pc = "idle"
    BY DEF Idle
  <2>2. ~Returns(p)
    BY <2>1 DEF GoesOn, Returns
  <2>3. UNCHANGED deps
    BY <1>1, <1>2, <2>2 DEF Saves, SavesDeployment
  <2> QED BY <1>2, <2>3 DEF GoesOn, KeepsMem
<1>5. /\ R \in SUBSET Cid /\ IsFiniteSet(R) /\ Cardinality(R) \in Nat
      /\ job[p].left \in Int /\ job[p].mem.replicas \in Int
  BY <1>2, Countable DEF RunningOf, CtrsOf, IInv, TypeOK, Job, Deployment
<1>6. CASE job[p].pc = "count_running"
  <2>1. R' = R
    BY <1>1, <1>6, OwnRunning DEF CountInv
  <2>2. \/ job'[p].pc = "schedule" /\ job'[p].left = job[p].mem.replicas - Cardinality(R)
        \/ /\ job'[p].pc = "stop"
           /\ \E S \in SUBSET R : /\ Cardinality(S) = -(job[p].mem.replicas - Cardinality(R))
                                  /\ job'[p].list = Listed(S)
    BY <1>6, StepAt, ScaleCountMoves
  <2>3. CASE job'[p].pc = "schedule" /\ job'[p].left = job[p].mem.replicas - Cardinality(R)
    <3>1. Cardinality(R) + job'[p].left = job[p].mem.replicas
      BY <1>5, <2>3
    <3> QED BY <1>3, <1>4, <2>1, <2>3, <3>1 DEF Scaling, RunningOf, CtrsOf, Handling
  <2>4. ASSUME NEW S \in SUBSET R, job'[p].pc = "stop", job'[p].list = Listed(S),
               Cardinality(S) = -(job[p].mem.replicas - Cardinality(R))
        PROVE  Scaling(p)'
    <3>1. InHand(p)' = S
      BY <2>4, ListedInHand DEF RunningOf, CtrsOf
    <3>2. Cardinality(R \ S) = Cardinality(R) - Cardinality(S)
      <4>1. R \cap S = S
        OBVIOUS
      <4> QED BY <1>5, <4>1, FS_Difference
    <3>3. Cardinality(R \ S) = job[p].mem.replicas
      BY <1>5, <2>4, <3>2
    <3> QED BY <1>3, <1>4, <2>1, <2>4, <3>1, <3>3 DEF Scaling, RunningOf, CtrsOf, Starting
  <2> QED BY <2>2, <2>3, <2>4
<1>7. CASE job[p].pc \in {"schedule"} \cup Starting
  <2>1. Cardinality(R') + job'[p].left = job[p].mem.replicas
    <3>1. CASE job[p].pc = "save_running"
      <4>1. job'[p].left = job[p].left - 1
        BY <3>1, StepAt, SaveRunningMoves
      <4>2. job[p].cur \notin R /\ R' = R \cup {job[p].cur}
        BY <1>1, <3>1, OwnRunning DEF CountInv
      <4>3. Cardinality(R') = Cardinality(R) + 1
        BY <1>5, <4>2, FS_AddElement
      <4> QED BY <1>3, <1>5, <1>7, <4>1, <4>3
    <3>2. CASE job[p].pc # "save_running"
      <4>1. job'[p].left = job[p].left
        BY <1>7, <3>2 DEF GoesOn, Starting
      <4>2. R' = R
        BY <1>1, <1>7, <3>2, OwnRunning DEF CountInv, Starting
      <4> QED BY <1>3, <1>7, <4>1, <4>2
    <3> QED BY <3>1, <3>2
  <2>2. job'[p].pc \notin Removing
    BY <1>7 DEF GoesOn, KeepsList, Removing, Handling, Starting
  <2> QED BY <1>3, <1>4, <2>1, <2>2 DEF Scaling, RunningOf, CtrsOf, Removing
<1>8. CASE job[p].pc \in Removing
  <2>1. job'[p].pc \notin {"schedule"} \cup Starting
    BY <1>8 DEF GoesOn, Removing, Handling, Starting
  <2>2. ASSUME job'[p].pc \in Removing
        PROVE  R' \ InHand(p)' = R \ InHand(p)
    <3>1. InHand(p)' = IF job'[p].list = job[p].list THEN InHand(p) ELSE InHand(p) \ {job[p].cur}
      <4>1. job[p].list \in [Cid -> Container \cup {None}]
        BY DEF IInv, TypeOK, Job
      <4>2. KeepsList(p)
        BY <2>2 DEF GoesOn
      <4> QED BY <1>8, <4>1, <4>2 DEF KeepsList, InHand, Removing, Handling
    <3>2. CASE job[p].pc \in {"save_stopped", "delete_record"}
      <4>1. job[p].cur \in InHand(p) /\ R' = R \ {job[p].cur}
        BY <1>1, <3>2, OwnRunning DEF CountInv
      <4> QED BY <3>1, <4>1
    <3>3. CASE job[p].pc \notin {"save_stopped", "delete_record"}
      <4>1. R' = R
        BY <1>1, <1>8, <3>3, OwnRunning DEF CountInv, Removing, Handling
      <4>2. job'[p].list = job[p].list
        BY <1>8, <2>2, <3>3 DEF GoesOn, KeepsList, Removing, Handling
      <4> QED BY <3>1, <4>1, <4>2
    <3> QED BY <3>2, <3>3
  <2> QED BY <1>3, <1>4, <1>8, <2>1, <2>2
          DEF Scaling, RunningOf, CtrsOf, Removing
<1>9. CASE job[p].pc = "fail"
  <2>1. job'[p].pc \notin {"schedule"} \cup Starting \cup Removing
    BY <1>9 DEF GoesOn, KeepsList, Removing, Handling, Starting
  <2> QED BY <1>3, <1>4, <2>1 DEF Scaling, Removing
<1>10. job[p].pc \in {"count_running", "schedule", "fail"} \cup Starting \cup Removing
  <2>1. job[p].pc \in Label
    BY DEF IInv, TypeOK, Job
  <2> QED BY <1>1, <1>2, <2>1 DEF Busy, Label, Starting, Removing, Handling
<1> QED BY <1>6, <1>7, <1>8, <1>9, <1>10

\* A scale that reports success has what was asked for.
LEMMA ScaleEnds ==
  ASSUME IInv, CountInv, NEW p \in Process, Step(p), job[p].op = "scale",
         NEW d, d = job[p].dep, deps'[d] # deps[d]
  PROVE  Cardinality(RunningOf(d)') = deps'[d].replicas
<1>1. Saves(p) /\ Busy(p)
  BY StepMoves, StepSaves DEF Moves, Busy
<1>2. /\ d \in DepId /\ job[p].mem \in Deployment /\ job[p].pc # "save_deployment"
  BY <1>1 DEF Busy, IInv, JobOK
<1>3. /\ \/ job[p].pc = "schedule" /\ job[p].left = 0
         \/ job[p].pc = "stop" /\ job[p].list = NoContainers
      /\ deps'[d] = [job[p].mem EXCEPT !.status = "running"]
  BY <1>1, <1>2 DEF Saves, SavesDeployment
<1>4. deps'[d].replicas = job[p].mem.replicas
  BY <1>2, <1>3 DEF Deployment
<1>5. RunningOf(d)' = RunningOf(d)
  BY <1>1, <1>3, OwnRunning DEF CountInv
<1>6. Cardinality(RunningOf(d)) = job[p].mem.replicas
  <2>1. CASE job[p].pc = "schedule" /\ job[p].left = 0
    <3>1. Cardinality(RunningOf(d)) + job[p].left = job[p].mem.replicas
      BY <2>1 DEF CountInv, ScaleOK, Scaling
    <3>2. Cardinality(RunningOf(d)) \in Nat
      BY Countable DEF RunningOf, CtrsOf
    <3> QED BY <2>1, <3>1, <3>2
  <2>2. CASE job[p].pc = "stop" /\ job[p].list = NoContainers
    <3>1. Cardinality(RunningOf(d) \ InHand(p)) = job[p].mem.replicas
      BY <2>2 DEF CountInv, ScaleOK, Scaling
    <3>2. InHand(p) = {}
      BY <2>2 DEF InHand, NoContainers
    <3>3. RunningOf(d) \ InHand(p) = RunningOf(d)
      BY <3>2
    <3> QED BY <3>1, <3>3
  <2> QED BY <1>3, <2>1, <2>2
<1> QED BY <1>4, <1>5, <1>6

\* Only a step of an operation and the start of a scale change a deployment's record.
LEMMA WhoSaves ==
  ASSUME [Next]_vars, deps' # deps
  PROVE  \/ \E p \in Process : Step(p)
         \/ \E d \in DepId, r \in 0 .. MaxReplicas : BeginScale(d, r)
<1>1. ASSUME NEW p \in Process, Ask(p)
      PROVE  \E d \in DepId, r \in 0 .. MaxReplicas : BeginScale(d, r)
  BY <1>1 DEF Ask, BeginCreate, BeginDelete, ServerRemove, db
<1> QED BY <1>1 DEF Next, Worker, WorkerCreate, WorkerStart, WorkerSave, WorkerCrash,
                    ServerStart, ServerStop, Crash, db, vars

\* No step of an operation takes a deployment over its replicas.
LEMMA StepWithin ==
  ASSUME IInv, CountInv, NEW p \in Process, Step(p)
  PROVE  WithinReplicas'
<1> USE NoneAssumption
<1>1. Moves(p) /\ Saves(p) /\ Busy(p)
  BY StepMoves, StepSaves DEF Moves, Busy
<1> SUFFICES ASSUME NEW d \in DepId, deps'[d] # None, deps'[d].status # "scaling"
             PROVE  Cardinality(RunningOf(d)') <= deps'[d].replicas
  BY DEF WithinReplicas, RunningOf, CtrsOf
<1>2. /\ Cardinality(RunningOf(d)) \in Nat /\ Cardinality(RunningOf(d)') \in Nat
      /\ IsFiniteSet(RunningOf(d)) /\ job[p].left \in Nat
      /\ deps[d] # None => deps[d].replicas \in Nat
  <2>1. RunningOf(d) \in SUBSET Cid /\ RunningOf(d)' \in SUBSET Cid
    BY DEF RunningOf, CtrsOf
  <2> QED BY <2>1, Countable DEF IInv, TypeOK, Job, Deployment
<1>3. CASE d # job[p].dep
  <2>1. deps'[d] = deps[d] /\ RunningOf(d)' = RunningOf(d)
    BY <1>1, <1>3, OtherRunning DEF CountInv, Saves, SavesDeployment
  <2> QED BY <2>1 DEF CountInv, WithinReplicas
<1>4. CASE d = job[p].dep /\ job[p].op = "create"
  <2>1. CASE GoesOn(p)
    <3>1. Creating(p)'
      BY <1>4, <2>1, OwnCreate
    <3>2. job'[p].dep = d /\ job'[p].left \in Nat
      BY <1>1, <1>4, <2>1 DEF GoesOn, Moves, Job
    <3>3. /\ Cardinality(RunningOf(d)') + job'[p].left <= job'[p].mem.replicas
          /\ deps'[d].replicas = job'[p].mem.replicas
      BY <3>1, <3>2 DEF Creating, RunningOf, CtrsOf
    <3>4. job'[p].mem.replicas \in Nat
      <4>1. deps'[d].replicas \in Nat
        <5>1. TypeOK'
          BY NextStep DEF IInv, Next
        <5> QED BY <5>1 DEF TypeOK, Deployment
      <4> QED BY <3>3, <4>1
    <3> QED BY <1>2, <3>2, <3>3, <3>4
  <2>2. CASE Returns(p)
    <3>1. job[p].pc \notin {"save_running", "save_stopped", "delete_record"}
      <4>1. Idle.pc = "idle"
        BY DEF Idle
      <4>2. job[p].pc # "save_running"
        BY <2>2, <4>1, StepAt, SaveRunningMoves DEF Returns
      <4> QED BY <1>4, <4>2 DEF IInv, JobOK, Handling
    <3>2. RunningOf(d)' = RunningOf(d)
      BY <1>1, <1>4, <3>1, OwnRunning DEF CountInv
    <3>3. /\ Cardinality(RunningOf(d)) + job[p].left <= job[p].mem.replicas
          /\ job[p].mem \in Deployment
      BY <1>4 DEF CountInv, CreateOK, Creating, IInv, JobOK
    <3>4. CASE deps'[d] = deps[d]
      BY <3>2, <3>4 DEF CountInv, WithinReplicas
    <3>5. CASE deps'[d] # deps[d]
      <4>1. deps'[d].replicas = job[p].mem.replicas /\ job[p].mem.replicas \in Nat
        BY <1>1, <1>4, <3>3, <3>5 DEF Saves, SavesDeployment, Deployment
      <4> QED BY <1>2, <3>2, <3>3, <4>1
    <3> QED BY <3>4, <3>5
  <2> QED BY <1>1, <2>1, <2>2 DEF Moves
<1>5. CASE d = job[p].dep /\ job[p].op = "delete"
  <2>1. job[p].pc \notin {"save_deployment", "save_running"}
    BY <1>5 DEF IInv, JobOK, Starting
  <2>2. deps'[d] = deps[d]
    BY <1>1, <1>5, <2>1 DEF Saves, SavesDeployment
  <2>3. RunningOf(d)' \subseteq RunningOf(d)
    BY <1>1, <1>5, <2>1, OwnRunning DEF CountInv
  <2>4. Cardinality(RunningOf(d)') <= Cardinality(RunningOf(d))
    BY <1>2, <2>3, FS_Subset
  <2>5. Cardinality(RunningOf(d)) <= deps[d].replicas
    BY <2>2 DEF CountInv, WithinReplicas
  <2> QED BY <1>2, <2>2, <2>4, <2>5
<1>6. CASE d = job[p].dep /\ job[p].op = "scale"
  <2>1. deps[d].status = "scaling"
    BY <1>6 DEF CountInv, ScaleOK, Scaling
  <2>2. deps'[d] # deps[d]
    BY <2>1
  <2>3. Cardinality(RunningOf(d)') = deps'[d].replicas
    BY <1>6, <2>2, ScaleEnds
  <2> QED BY <1>2, <2>3
<1>7. job[p].op \in {"create", "delete", "scale"}
  BY <1>1 DEF Busy, IInv, JobOK, TypeOK, Job
<1> QED BY <1>3, <1>4, <1>5, <1>6, <1>7

\* CountInv survives every step of an operation.
LEMMA StepCount ==
  ASSUME IInv, CountInv, NEW p \in Process, Step(p)
  PROVE  CountInv'
<1>1. Moves(p) /\ Saves(p) /\ Busy(p)
  BY StepMoves, StepSaves DEF Moves, Busy
<1>2. LockOK' /\ BornOK' /\ ScopeOK'
  BY <1>1, StepLock, StepBorn, StepScope DEF CountInv
<1>3. /\ \A q \in Process : q # p => job'[q] = job[q]
      /\ job'[p].op # "none" => GoesOn(p) /\ job'[p].op = job[p].op
  <2>1. Idle.op = "none"
    BY DEF Idle
  <2> QED BY <1>1, <2>1 DEF Moves, Returns, GoesOn
<1>4. CreateOK'
  <2> SUFFICES ASSUME NEW q \in Process, job'[q].op = "create" PROVE Creating(q)'
    BY DEF CreateOK
  <2>1. CASE q = p
    BY <1>3, <2>1, OwnCreate
  <2>2. CASE q # p
    BY <1>1, <1>3, <2>2, OthersCreate
  <2> QED BY <2>1, <2>2
<1>5. ScaleOK'
  <2> SUFFICES ASSUME NEW q \in Process, job'[q].op = "scale" PROVE Scaling(q)'
    BY DEF ScaleOK
  <2>1. CASE q = p
    BY <1>3, <2>1, OwnScale
  <2>2. CASE q # p
    <3>1. Busy(q) /\ q = Cli
      BY <1>3, <2>2 DEF CountInv, LockOK, ScopeOK
    <3> QED BY <1>1, <2>2, <3>1, Apart DEF CountInv
  <2> QED BY <2>1, <2>2
<1> QED BY <1>2, <1>4, <1>5, StepWithin DEF CountInv

\* What leaves the records and the memory alone keeps the counts; the server
\* comes and goes with nobody at work.
LEMMA QuietCount ==
  ASSUME CountInv, UNCHANGED <<deps, ctrs, job, born, drawn>>,
         UNCHANGED lock \/ \A p \in Process : ~Busy(p)
  PROVE  CountInv'
<1>1. LockOK' /\ BornOK' /\ ScopeOK'
  BY DEF CountInv, LockOK, BornOK, ScopeOK, Busy, InHand
<1>2. CreateOK' /\ ScaleOK'
  BY DEF CountInv, CreateOK, ScaleOK, Creating, Scaling, RunningOf, CtrsOf, InHand
<1>3. WithinReplicas'
  BY DEF CountInv, WithinReplicas, RunningOf, CtrsOf
<1> QED BY <1>1, <1>2, <1>3 DEF CountInv

\* What the process that takes a request finds: nobody beside a goroutine but
\* goroutines, nobody at all beside the tool.
LEMMA ReadyFacts ==
  ASSUME LockOK, NEW p \in Process, Ready(p), Enter(p)
  PROVE  /\ ~Busy(p)
         /\ lock' = IF p = Cli THEN "cli" ELSE "server"
         /\ \A q \in Process : Busy(q) => lock' = lock /\ q # Cli /\ p # Cli
  BY DEF LockOK, Ready, Enter, Busy, At

\* A process that begins takes the database and leaves the others as they are.
LEMMA BeginCount ==
  ASSUME IInv, CountInv, NEW p \in Process, Ready(p), Enter(p), NEW j \in Job, Become(p, j),
         UNCHANGED <<ctrs, drawn>>, born \subseteq born', j.dep \in born',
         j.pc \in {"save_deployment", "list", "count_running"},
         j.op \in {"create", "delete", "scale"},
         j.op = "create" => j.dep \notin born /\ j.pc = "save_deployment"
                            /\ j.mem.status = "pending",
         j.op = "delete" <=> j.pc = "list",
         j.op = "scale" => p = Cli /\ j.pc = "count_running",
         \A d \in DepId : d # j.dep => deps'[d] = deps[d],
         j.op # "scale" => deps' = deps,
         j.op = "create" => Creating(p)', j.op = "scale" => Scaling(p)',
         WithinReplicas'
  PROVE  CountInv'
<1>1. /\ job' \in [Process -> Job] /\ job'[p] = j
      /\ \A q \in Process : q # p => job'[q] = job[q]
  BY BecomeFrame DEF IInv, TypeOK
<1>2. /\ ~Busy(p) /\ lock' = IF p = Cli THEN "cli" ELSE "server"
      /\ \A q \in Process : Busy(q) => lock' = lock /\ q # Cli /\ p # Cli
  BY ReadyFacts DEF CountInv
<1>3. LockOK'
  BY <1>1, <1>2 DEF CountInv, LockOK, Busy
<1>4. BornOK'
  <2>1. \A d \in DepId \ born' : deps'[d] = None /\ drawn'[d] = 0
    BY DEF CountInv, BornOK
  <2>2. \A q \in Process : Busy(q)' => job'[q].dep \in born'
    BY <1>1 DEF CountInv, BornOK, Busy
  <2>3. \A q \in Process : job[q].op = "create" => Busy(q) /\ job[q].dep \in born
    BY DEF CountInv, BornOK, LockOK
  <2>4. \A q, r \in Process : job'[q].op = "create" /\ job'[r].op = "create"
                              /\ job'[q].dep = job'[r].dep => q = r
    BY <1>1, <2>3 DEF CountInv, BornOK
  <2> QED BY <2>1, <2>2, <2>4 DEF BornOK
<1>5. ScopeOK'
  BY <1>1 DEF CountInv, ScopeOK, InHand, Starting, Handling
<1>6. \A q \in Process : q # p /\ Busy(q) => UNCHANGED deps
  BY <1>2
<1>7. CreateOK'
  <2> SUFFICES ASSUME NEW q \in Process, job'[q].op = "create" PROVE Creating(q)'
    BY DEF CreateOK
  <2>1. CASE q # p
    <3>1. Busy(q) /\ Creating(q) /\ job'[q] = job[q]
      BY <1>1, <2>1 DEF CountInv, LockOK, CreateOK
    <3> QED BY <1>6, <2>1, <3>1 DEF Creating, RunningOf, CtrsOf
  <2> QED BY <1>1, <2>1
<1>8. ScaleOK'
  <2> SUFFICES ASSUME NEW q \in Process, job'[q].op = "scale" PROVE Scaling(q)'
    BY DEF ScaleOK
  <2>1. CASE q # p
    <3>1. Busy(q) /\ q = Cli
      BY <1>1, <2>1 DEF CountInv, LockOK, ScopeOK
    <3> QED BY <1>2, <3>1
  <2> QED BY <1>1, <2>1
<1> QED BY <1>3, <1>4, <1>5, <1>7, <1>8 DEF CountInv

\* A create begins with an ID nobody knows, and nothing runs under it.
LEMMA BeginCreateCount ==
  ASSUME IInv, CountInv, NEW p \in Process, NEW name \in Name, NEW r \in 1 .. MaxReplicas,
         NEW port \in Port, NEW place \in Placement, BeginCreate(p, name, r, port, place)
  PROVE  CountInv'
<1> USE ConstantAssumption, NoneAssumption
<1>1. PICK d \in DepId \ born : /\ born' = born \cup {d}
                        /\ Become(p, [Idle EXCEPT !.pc = "save_deployment", !.op = "create",
                             !.dep = d, !.left = r,
                             !.mem = [name |-> name, replicas |-> r, port |-> port,
                                      place |-> place, status |-> "pending"]])
  BY DEF BeginCreate
<1> DEFINE rec == [name |-> name, replicas |-> r, port |-> port,
                   place |-> place, status |-> "pending"]
           j == [Idle EXCEPT !.pc = "save_deployment", !.op = "create",
                             !.dep = d, !.left = r, !.mem = rec]
<1>2. rec \in Deployment /\ rec.status = "pending" /\ rec.replicas = r
  BY DEF Deployment
<1>3. Become(p, j)
  BY <1>1
<1> HIDE DEF rec
<1>a. "save_deployment" \in Label /\ r \in Nat
  BY DEF Label
<1>4. /\ j \in Job /\ j.pc = "save_deployment" /\ j.op = "create" /\ j.dep = d /\ j.mem = rec
      /\ j.left = r
  BY <1>2, <1>a, IdleIsJob DEF Job, Idle
<1> HIDE DEF j
<1>5. job'[p] = j
  BY <1>3, <1>4, BecomeFrame DEF IInv, TypeOK
<1>6. Ready(p) /\ Enter(p) /\ UNCHANGED <<ctrs, drawn, deps>>
  BY DEF BeginCreate, db
<1>7. deps[d] = None /\ RunningOf(d) = {}
  <2>1. deps[d] = None /\ drawn[d] = 0
    BY <1>1 DEF CountInv, BornOK
  <2>2. ASSUME NEW c \in Cid, Owner(c) = d PROVE ctrs[c] = None
    <3>1. c[2] > drawn[c[1]]
      BY <2>1, <2>2 DEF Owner, Cid
    <3>2. \A n \in Node : ~PlacedOn(c, n)
      BY <3>1 DEF IInv, Undrawn
    <3>3. ctrs[c] \in Container \cup {None}
      BY DEF IInv, TypeOK
    <3> QED BY <3>2, <3>3 DEF PlacedOn, Container
  <2> QED BY <2>1, <2>2 DEF RunningOf, CtrsOf
<1>8. Creating(p)'
  <2>1. RunningOf(d)' = {} /\ deps'[d] = None
    BY <1>6, <1>7 DEF RunningOf, CtrsOf
  <2>2. Cardinality(RunningOf(d)') + r <= r
    BY <1>a, <2>1, FS_EmptySet
  <2>3. job'[p].dep = d /\ job'[p].left = r /\ job'[p].mem.replicas = r
    BY <1>2, <1>4, <1>5
  <2> QED BY <2>1, <2>2, <2>3 DEF Creating, RunningOf, CtrsOf
<1>9. WithinReplicas'
  BY <1>6 DEF CountInv, WithinReplicas, RunningOf, CtrsOf
<1> QED BY <1>1, <1>2, <1>3, <1>4, <1>6, <1>8, <1>9, BeginCount

\* A delete begins by reading.
LEMMA BeginDeleteCount ==
  ASSUME IInv, CountInv, NEW p \in Process, NEW d \in DepId, BeginDelete(p, d)
  PROVE  CountInv'
<1> DEFINE j == [Idle EXCEPT !.pc = "list", !.op = "delete", !.dep = d]
<1>1. /\ Become(p, j) /\ Ready(p) /\ Enter(p) /\ deps[d] # None
      /\ UNCHANGED <<ctrs, drawn, deps, born>>
  BY DEF BeginDelete, db, ids
<1>2. "list" \in Label
  BY DEF Label
<1>3. j \in Job /\ j.pc = "list" /\ j.op = "delete" /\ j.dep = d
  BY <1>2, IdleIsJob DEF Job, Idle
<1> HIDE DEF j
<1>4. d \in born
  BY <1>1 DEF CountInv, BornOK
<1>5. WithinReplicas'
  BY <1>1 DEF CountInv, WithinReplicas, RunningOf, CtrsOf
<1> QED BY <1>1, <1>3, <1>4, <1>5, BeginCount

\* A scale begins by saying so in the record.
LEMMA BeginScaleCount ==
  ASSUME IInv, CountInv, NEW d \in DepId, NEW r \in 0 .. MaxReplicas, BeginScale(d, r)
  PROVE  CountInv'
<1> USE ConstantAssumption
<1> DEFINE rec == [deps[d] EXCEPT !.replicas = r, !.status = "scaling"]
           j == [Idle EXCEPT !.pc = "count_running", !.op = "scale", !.dep = d, !.mem = rec]
<1>1. /\ deps' = [deps EXCEPT ![d] = rec] /\ Become(Cli, j) /\ Cli \in Process
      /\ deps \in [DepId -> Deployment \cup {None}] /\ deps[d] # None
      /\ Ready(Cli) /\ Enter(Cli)
      /\ UNCHANGED <<ctrs, drawn, born>>
  BY DEF BeginScale, IInv, TypeOK, Process, ids
<1>2. "count_running" \in Label /\ r \in Nat
  BY DEF Label
<1>3. rec \in Deployment /\ rec.status = "scaling"
  BY <1>1, <1>2 DEF Deployment
<1> HIDE DEF rec
<1>4. /\ j \in Job /\ j.pc = "count_running" /\ j.op = "scale" /\ j.dep = d /\ j.mem = rec
  BY <1>2, <1>3, IdleIsJob DEF Job, Idle
<1> HIDE DEF j
<1>5. job'[Cli] = j
  BY <1>1, <1>4, BecomeFrame DEF IInv, TypeOK
<1>6. Scaling(Cli)'
  BY <1>1, <1>3, <1>4, <1>5 DEF Scaling, Starting, Handling
<1>7. WithinReplicas'
  BY <1>1, <1>3 DEF CountInv, WithinReplicas, RunningOf, CtrsOf
<1>8. d \in born
  BY <1>1 DEF CountInv, BornOK
<1>9. \A e \in DepId : e # d => deps'[e] = deps[e]
  BY <1>1
<1> QED BY <1>1, <1>4, <1>6, <1>7, <1>8, <1>9, BeginCount

\* Whoever dies leaves no count in memory.
LEMMA CrashCount ==
  ASSUME CountInv, Crash
  PROVE  CountInv'
<1>1. \A q \in Process : job'[q] = Idle
  BY DEF Crash
<1>2. Idle.pc = "idle" /\ Idle.op = "none"
  BY DEF Idle
<1>3. UNCHANGED <<deps, ctrs, born, drawn>>
  BY DEF Crash, db, ids
<1>4. LockOK' /\ BornOK'
  BY <1>1, <1>2, <1>3 DEF CountInv, LockOK, BornOK, Busy
<1>5. ScopeOK' /\ CreateOK' /\ ScaleOK'
  BY <1>1, <1>2 DEF ScopeOK, CreateOK, ScaleOK, Starting, Handling
<1>6. WithinReplicas'
  BY <1>3 DEF CountInv, WithinReplicas, RunningOf, CtrsOf
<1> QED BY <1>4, <1>5, <1>6 DEF CountInv

\* The counts are right of an empty database.
LEMMA InitCount == Init => CountInv
<1> SUFFICES ASSUME Init PROVE CountInv
  OBVIOUS
<1>1. \A q \in Process : job[q] = Idle
  BY DEF Init
<1>2. Idle.pc = "idle" /\ Idle.op = "none"
  BY DEF Idle
<1>3. \A d \in DepId : deps[d] = None /\ drawn[d] = 0
  BY DEF Init
<1>4. LockOK /\ BornOK
  BY <1>1, <1>2, <1>3 DEF LockOK, BornOK, Busy
<1>5. ScopeOK /\ CreateOK /\ ScaleOK
  BY <1>1, <1>2 DEF ScopeOK, CreateOK, ScaleOK, Starting, Handling
<1> QED BY <1>3, <1>4, <1>5 DEF CountInv, WithinReplicas

\* One step per action of Next.
LEMMA NextCount ==
  ASSUME IInv, CountInv, [Next]_vars
  PROVE  CountInv'
<1>1. ASSUME NEW p \in Process, Ask(p) PROVE CountInv'
  <2>1. ASSUME NEW n \in Node, NEW force \in BOOLEAN, ServerRemove(n, force)
        PROVE  CountInv'
    BY <2>1, QuietCount DEF ServerRemove, ids
  <2> QED BY <1>1, <2>1, BeginCreateCount, BeginDeleteCount, BeginScaleCount DEF Ask
<1>2. ASSUME NEW p \in Process, Step(p) PROVE CountInv'
  BY <1>2, StepCount
<1>3. ASSUME NEW c \in Cid, Worker(c) PROVE CountInv'
  BY <1>3, QuietCount DEF Worker, WorkerCreate, WorkerStart, WorkerSave, db, ids
<1>4. ASSUME NEW n \in Node, WorkerCrash(n) PROVE CountInv'
  BY <1>4, QuietCount DEF WorkerCrash, db, ids
<1>5. CASE ServerStart \/ ServerStop
  <2>1. \A p \in Process : ~Busy(p)
    BY <1>5, ConstantAssumption
    DEF ServerStart, ServerStop, CountInv, LockOK, Busy, At, Process
  <2> QED BY <1>5, <2>1, QuietCount DEF ServerStart, ServerStop, db, ids
<1>6. CASE UNCHANGED vars
  BY <1>6, QuietCount DEF vars
<1> QED BY <1>1, <1>2, <1>3, <1>4, <1>5, <1>6, CrashCount DEF Next

-----------------------------------------------------------------------------
(* The theorems.                                                            *)

\* The counts that creates and scales keep in memory are right in every state.
THEOREM CountsHold == Spec => []CountInv
<1>1. IInv /\ CountInv /\ [Next]_vars => CountInv'
  BY NextCount
<1> QED BY InvariantHolds, InitCount, <1>1, PTL DEF Spec

\* Outside a scale no deployment has more running records than replicas, however
\* many goroutines create and delete at once and whoever dies in between
\* (scheduleContainers, ScaleDeployment).
THEOREM ReplicasAreBounded == Spec => []WithinReplicas
<1>1. CountInv => WithinReplicas
  BY DEF CountInv
<1> QED BY CountsHold, <1>1, PTL

\* When "running" replaces "scaling" in a deployment's record, exactly the
\* replicas asked for are recorded as running (ScaleDeployment).
THEOREM ScaleIsExact == Spec => ScaleExact
<1> DEFINE Exact == \A d \in DepId :
             /\ deps[d] # None /\ deps[d].status = "scaling"
             /\ deps'[d] # None /\ deps'[d].status = "running"
             => Cardinality(RunningOf(d)') = deps'[d].replicas
<1>1. IInv /\ CountInv /\ [Next]_vars => Exact
  <2> SUFFICES ASSUME IInv, CountInv, [Next]_vars, NEW d \in DepId,
                      deps[d] # None, deps[d].status = "scaling",
                      deps'[d] # None, deps'[d].status = "running"
               PROVE  Cardinality(RunningOf(d)') = deps'[d].replicas
    BY DEF RunningOf, CtrsOf
  <2>1. PICK p \in Process : Step(p)
    <3>1. deps'[d] # deps[d] /\ deps \in [DepId -> Deployment \cup {None}]
      BY DEF IInv, TypeOK
    <3>2. ASSUME NEW e \in DepId, NEW r \in 0 .. MaxReplicas, BeginScale(e, r)
          PROVE  FALSE
      <4>1. /\ deps' = [deps EXCEPT ![e] = [deps[e] EXCEPT !.replicas = r, !.status = "scaling"]]
            /\ deps[e] # None
        BY <3>2 DEF BeginScale
      <4> QED BY <3>1, <4>1 DEF Deployment
    <3> QED BY <3>1, <3>2, WhoSaves
  <2>2. Saves(p) /\ Busy(p)
    BY <2>1, StepMoves, StepSaves DEF Moves, Busy
  <2>3. d = job[p].dep
    BY <2>2 DEF Saves, SavesDeployment
  <2>4. job[p].op # "create"
    BY <2>3 DEF CountInv, CreateOK, Creating
  <2>5. job[p].op # "delete"
    BY <2>2, <2>3 DEF Saves, SavesDeployment, IInv, JobOK
  <2>6. job[p].op = "scale"
    BY <2>2, <2>4, <2>5 DEF Busy, IInv, JobOK, TypeOK, Job
  <2> QED BY <2>1, <2>3, <2>6, ScaleEnds
<1> QED BY InvariantHolds, CountsHold, <1>1, PTL DEF Spec, ScaleExact
================================================================================
