------------------------ MODULE DeploymentRecordsProofs ------------------------
(***************************************************************************)
(* What DeploymentManager says of its records under a restriction on what  *)
(* users ask for: UniqueNames, DeleteLeavesNothing and DeleteIsFinal when  *)
(* the server serves one request at a time, RunningHasContainers and       *)
(* StartedIsRecorded when nothing is deleted.  With one request at a time  *)
(* it also implements DeploymentRegistry: the last two sections show each  *)
(* of its steps to be one of the registry's or none.                       *)
(***************************************************************************)
EXTENDS DeploymentCountProofs

-----------------------------------------------------------------------------
(* One request at a time.                                                   *)

\* Then one process is at work at most, the tool included.
LEMMA OneAtWork ==
  ASSUME OneRequest, LockOK, NEW p \in Process, NEW q \in Process, Busy(p), Busy(q)
  PROVE  p = q
  BY Apart DEF OneRequest, Process

\* Every record there is after a step was there before under the same name,
\* or is the one that a create saves first.
LEMMA StepNames ==
  ASSUME IInv, CountInv, AloneInv, NEW p \in Process, Step(p), NEW d \in DepId, deps'[d] # None
  PROVE  \/ deps[d] # None /\ deps'[d].name = deps[d].name
         \/ /\ job[p].pc = "save_deployment" /\ d = job[p].dep
            /\ deps[d] = None /\ deps'[d].name = job[p].mem.name
<1>1. Saves(p) /\ Busy(p)
  BY StepMoves, StepSaves DEF Moves, Busy
<1>2. CASE d # job[p].dep
  BY <1>1, <1>2 DEF Saves, SavesDeployment
<1>3. CASE d = job[p].dep /\ job[p].op = "create"
  <2>1. job[p].mem \in Deployment
    BY <1>3 DEF IInv, JobOK
  <2>2. CASE job[p].pc = "save_deployment"
    <3>1. deps'[d] = job[p].mem
      BY <1>1, <1>3, <2>2 DEF Saves, SavesDeployment
    <3> QED BY <1>3, <2>2, <3>1 DEF AloneInv
  <2>3. CASE job[p].pc # "save_deployment"
    <3>1. deps[d] # None /\ deps[d].name = job[p].mem.name
      BY <1>3, <2>3 DEF AloneInv
    <3>2. deps'[d] = deps[d] \/ deps'[d].name = job[p].mem.name
      BY <1>1, <1>3, <2>1, <2>3 DEF Saves, SavesDeployment, Deployment
    <3> QED BY <3>1, <3>2
  <2> QED BY <2>2, <2>3
<1>4. CASE d = job[p].dep /\ job[p].op = "delete"
  <2>1. job[p].pc # "save_deployment"
    BY <1>4 DEF IInv, JobOK
  <2> QED BY <1>1, <1>4, <2>1 DEF Saves, SavesDeployment
<1>5. CASE d = job[p].dep /\ job[p].op = "scale"
  <2>1. /\ deps[d] = job[p].mem /\ job[p].mem \in Deployment
        /\ job[p].pc # "save_deployment"
    BY <1>5 DEF CountInv, ScaleOK, Scaling, IInv, JobOK
  <2>2. deps'[d] = deps[d] \/ deps'[d].name = job[p].mem.name
    BY <1>1, <1>5, <2>1 DEF Saves, SavesDeployment, Deployment
  <2>3. deps[d] # None
    BY <2>1, NoneAssumption
  <2> QED BY <2>1, <2>2, <2>3
<1>6. job[p].op \in {"create", "delete", "scale"}
  BY <1>1 DEF Busy, IInv, JobOK, TypeOK, Job
<1> QED BY <1>2, <1>3, <1>4, <1>5, <1>6

\* A delete keeps in hand whatever is left of the deployment.
LEMMA StepInHand ==
  ASSUME IInv, CountInv, AloneInv, NEW p \in Process, Step(p), GoesOn(p),
         job[p].op = "delete", job'[p].pc \in Removing, NEW d, d = job[p].dep
  PROVE  CtrsOf(d)' \subseteq InHand(p)'
<1> DEFINE c == job[p].cur
<1>1. Saves(p) /\ KeepsList(p) /\ job[p].list \in [Cid -> Container \cup {None}]
  BY StepSaves DEF GoesOn, IInv, TypeOK, Job
<1>2. CASE job[p].pc = "list"
  <2>1. job'[p].list = Listed(CtrsOf(d)) /\ UNCHANGED ctrs
    BY <1>1, <1>2 DEF KeepsList, Removing, Handling, Saves, SavesContainer
  <2>2. InHand(p)' = CtrsOf(d)
    BY <2>1, ListedInHand DEF CtrsOf
  <2> QED BY <2>1, <2>2 DEF CtrsOf
<1>3. CASE job[p].pc \in Removing
  <2>1. CtrsOf(d) \subseteq InHand(p)
    BY <1>3 DEF AloneInv, Removing
  <2>2. InHand(p)' = InHand(p) \/ (job[p].pc = "delete_record" /\ InHand(p)' = InHand(p) \ {c})
    BY <1>1, <1>3 DEF KeepsList, InHand, Removing, Handling
  <2>3. job[p].pc \in Handling => c \in InHand(p)
    BY OwnContainer DEF CountInv
  <2>4. /\ CtrsOf(d)' \subseteq CtrsOf(d) \cup {c}
        /\ CtrsOf(d)' = CtrsOf(d) \/ job[p].pc \in Handling
    <3>1. CASE UNCHANGED ctrs
      BY <3>1 DEF CtrsOf
    <3>2. CASE job[p].pc \in Handling /\ \A x \in Cid : x # c => ctrs'[x] = ctrs[x]
      BY <3>2 DEF CtrsOf
    <3> QED BY <1>1, <1>3, <3>1, <3>2 DEF Saves, SavesContainer, Removing, Handling
  <2>5. job[p].pc = "delete_record" => c \notin CtrsOf(d)'
    BY <1>1 DEF Saves, SavesContainer, CtrsOf
  <2> QED BY <2>1, <2>2, <2>3, <2>4, <2>5
<1>4. job[p].pc # "count_running"
  BY DEF IInv, JobOK
<1> QED BY <1>1, <1>2, <1>3, <1>4 DEF KeepsList, Removing, Handling

\* AloneInv survives every step of an operation.
LEMMA StepAlone ==
  ASSUME OneRequest, IInv, CountInv, AloneInv, NEW p \in Process, Step(p)
  PROVE  AloneInv'
<1> USE NoneAssumption
<1> PICK d : d = job[p].dep
  OBVIOUS
<1>1. Moves(p) /\ Saves(p) /\ Busy(p) /\ d \in DepId
  BY StepMoves, StepSaves DEF Moves, Busy, IInv, JobOK
<1>2. UniqueNames'
  <2> SUFFICES ASSUME NEW e \in DepId, NEW f \in DepId, e # f, deps'[e] # None, deps'[f] # None
               PROVE  deps'[e].name # deps'[f].name
    BY DEF UniqueNames
  <2> QED BY StepNames DEF AloneInv, UniqueNames
<1>3. \A q \in Process : q # p => job'[q].pc = "idle" /\ job'[q].op = "none"
  BY <1>1, OneAtWork DEF Moves, Busy, CountInv, LockOK, IInv
<1>4. CASE Returns(p)
  <2>1. job'[p].pc = "idle" /\ job'[p].op = "none"
    BY <1>4 DEF Returns, Idle
  <2> QED BY <1>2, <1>3, <2>1 DEF AloneInv, Handling
<1>5. CASE GoesOn(p)
  <2>1. /\ job'[p].pc \notin {"idle", "save_deployment"}
        /\ job'[p].op = job[p].op /\ job'[p].dep = d
    BY <1>5 DEF GoesOn
  <2>2. job'[p].op = "create" => deps'[d] # None /\ deps'[d].name = job'[p].mem.name
    <3>1. CASE job[p].pc = "save_deployment"
      <4>1. /\ deps'[d] = job[p].mem /\ job[p].mem \in Deployment /\ deps[d] = None
        BY <1>1, <3>1 DEF Saves, SavesDeployment, IInv, JobOK, AloneInv
      <4>2. job'[p].mem.name = job[p].mem.name
        BY <1>5, <4>1 DEF GoesOn, KeepsMem
      <4> QED BY <4>1, <4>2
    <3>2. CASE job[p].pc # "save_deployment" /\ job[p].op = "create"
      <4>1. deps[d] # None /\ deps[d].name = job[p].mem.name
        BY <3>2 DEF AloneInv
      <4>2. ~Returns(p)
        BY <2>1 DEF Returns, Idle
      <4>3. deps'[d] = deps[d]
        BY <1>1, <3>2, <4>2 DEF Saves, SavesDeployment
      <4>4. job'[p].mem.name = job[p].mem.name
        BY <1>5, <4>1 DEF GoesOn, KeepsMem
      <4> QED BY <4>1, <4>3, <4>4
    <3> QED BY <2>1, <3>1, <3>2
  <2>3. job'[p].op = "delete" /\ job'[p].pc \in Removing => CtrsOf(d)' \subseteq InHand(p)'
    BY <1>5, <2>1, StepInHand
  <2> QED BY <1>2, <1>3, <2>1, <2>2, <2>3 DEF AloneInv, Removing, CtrsOf, InHand
<1> QED BY <1>1, <1>4, <1>5 DEF Moves

\* The start of an operation finds nobody at work.
LEMMA NobodyAtWork ==
  ASSUME OneRequest, LockOK, NEW p \in Process, Ready(p), NEW q \in Process
  PROVE  ~Busy(q)
<1>1. Busy(q) => p # q /\ p # Cli /\ q # Cli
  BY DEF Ready, LockOK, Busy, At
<1> QED BY <1>1 DEF OneRequest, Process

\* A create begins with an ID and a name that no record has.
LEMMA BeginCreateAlone ==
  ASSUME OneRequest, IInv, CountInv, AloneInv,
         NEW p \in Process, NEW name \in Name, NEW r \in 1 .. MaxReplicas,
         NEW port \in Port, NEW place \in Placement, BeginCreate(p, name, r, port, place)
  PROVE  AloneInv'
<1> USE ConstantAssumption, NoneAssumption
<1>1. PICK d \in DepId \ born :
         Become(p, [Idle EXCEPT !.pc = "save_deployment", !.op = "create",
                      !.dep = d, !.left = r,
                      !.mem = [name |-> name, replicas |-> r, port |-> port,
                               place |-> place, status |-> "pending"]])
  BY DEF BeginCreate
<1> DEFINE rec == [name |-> name, replicas |-> r, port |-> port,
                   place |-> place, status |-> "pending"]
           j == [Idle EXCEPT !.pc = "save_deployment", !.op = "create",
                             !.dep = d, !.left = r, !.mem = rec]
<1>2. rec \in Deployment /\ rec.name = name
  BY DEF Deployment
<1>3. Become(p, j)
  BY <1>1
<1> HIDE DEF rec
<1>a. "save_deployment" \in Label /\ r \in Nat
  BY DEF Label
<1>4. j \in Job /\ j.pc = "save_deployment" /\ j.op = "create" /\ j.dep = d /\ j.mem = rec
  BY <1>2, <1>a, IdleIsJob DEF Job, Idle
<1> HIDE DEF j
<1>5. job'[p] = j /\ \A q \in Process : q # p => job'[q] = job[q]
  BY <1>3, <1>4, BecomeFrame DEF IInv, TypeOK
<1>6. /\ UNCHANGED <<deps, ctrs>> /\ deps[d] = None
      /\ \A e \in DepId : deps[e] # None => deps[e].name # name
  BY DEF BeginCreate, db, CountInv, BornOK
<1>7. \A q \in Process : q # p => job[q].pc = "idle" /\ job[q].op = "none"
  BY NobodyAtWork DEF BeginCreate, CountInv, LockOK, Busy
<1>8. UniqueNames'
  BY <1>6 DEF AloneInv, UniqueNames
<1> QED BY <1>2, <1>4, <1>5, <1>6, <1>7, <1>8 DEF AloneInv, Handling

\* A delete and a scale begin with a record that is there.
LEMMA BeginAlone ==
  ASSUME OneRequest, IInv, CountInv, AloneInv, NEW p \in Process, NEW d \in DepId,
         BeginDelete(p, d) \/ (p = Cli /\ \E r \in 0 .. MaxReplicas : BeginScale(d, r))
  PROVE  AloneInv'
<1>1. /\ Ready(p) /\ deps[d] # None /\ deps \in [DepId -> Deployment \cup {None}]
      /\ \A q \in Process : q # p => job'[q] = job[q]
      /\ job'[p].pc \in {"list", "count_running"} /\ job'[p].op \in {"delete", "scale"}
  <2>1. job \in [Process -> Job] /\ deps \in [DepId -> Deployment \cup {None}]
    BY DEF IInv, TypeOK
  <2>2. CASE BeginDelete(p, d)
    <3> DEFINE j == [Idle EXCEPT !.pc = "list", !.op = "delete", !.dep = d]
    <3>1. job' = [job EXCEPT ![p] = j] /\ Ready(p) /\ deps[d] # None
      BY <2>2 DEF BeginDelete, Become
    <3>2. j.pc = "list" /\ j.op = "delete"
      BY DEF Idle
    <3> HIDE DEF j
    <3> QED BY <2>1, <3>1, <3>2
  <2>3. ASSUME NEW r \in 0 .. MaxReplicas, p = Cli, BeginScale(d, r)
        PROVE  /\ Ready(p) /\ deps[d] # None
               /\ \A q \in Process : q # p => job'[q] = job[q]
               /\ job'[p].pc = "count_running" /\ job'[p].op = "scale"
    <3> DEFINE rec == [deps[d] EXCEPT !.replicas = r, !.status = "scaling"]
               j == [Idle EXCEPT !.pc = "count_running", !.op = "scale", !.dep = d, !.mem = rec]
    <3>1. job' = [job EXCEPT ![p] = j] /\ Ready(p) /\ deps[d] # None
      BY <2>3 DEF BeginScale, Become
    <3>2. j.pc = "count_running" /\ j.op = "scale"
      BY DEF Idle
    <3> HIDE DEF j
    <3> QED BY <2>1, <3>1, <3>2
  <2> QED BY <2>1, <2>2, <2>3
<1>2. \A e \in DepId : deps'[e] # None => deps[e] # None /\ deps'[e].name = deps[e].name
  <2>1. CASE UNCHANGED deps
    BY <2>1
  <2>2. ASSUME NEW r \in 0 .. MaxReplicas, BeginScale(d, r)
        PROVE  \A e \in DepId : deps'[e] # None => deps[e] # None /\ deps'[e].name = deps[e].name
    <3>1. deps' = [deps EXCEPT ![d] = [deps[d] EXCEPT !.replicas = r, !.status = "scaling"]]
      BY <2>2 DEF BeginScale
    <3>2. deps[d] \in Deployment
      BY <1>1
    <3>3. deps'[d].name = deps[d].name
      BY <1>1, <3>1, <3>2 DEF Deployment
    <3> QED BY <1>1, <3>1, <3>3
  <2> QED BY <2>1, <2>2 DEF BeginDelete, db
<1>3. UniqueNames'
  BY <1>2 DEF AloneInv, UniqueNames
<1>4. \A q \in Process : q # p => job[q].pc = "idle" /\ job[q].op = "none"
  BY <1>1, NobodyAtWork DEF CountInv, LockOK, Busy
<1> QED BY <1>1, <1>3, <1>4 DEF AloneInv, Handling

\* What leaves the records alone keeps AloneInv, and so does the death of a process.
LEMMA QuietAlone ==
  ASSUME AloneInv, UNCHANGED <<deps, ctrs>>, UNCHANGED job \/ \A p \in Process : job'[p] = Idle
  PROVE  AloneInv'
<1>1. UniqueNames'
  BY DEF AloneInv, UniqueNames
<1>2. CASE UNCHANGED job
  BY <1>1, <1>2 DEF AloneInv, InHand, CtrsOf
<1>3. CASE \A p \in Process : job'[p] = Idle
  BY <1>1, <1>3 DEF AloneInv, Idle, Handling
<1> QED BY <1>2, <1>3

\* One step per action of Next.
LEMMA NextAlone ==
  ASSUME OneRequest, IInv, CountInv, AloneInv, [Next]_vars
  PROVE  AloneInv'
<1>1. ASSUME NEW p \in Process, Ask(p) PROVE AloneInv'
  <2>1. ASSUME NEW n \in Node, NEW force \in BOOLEAN, ServerRemove(n, force)
        PROVE  AloneInv'
    BY <2>1, QuietAlone DEF ServerRemove
  <2> QED BY <1>1, <2>1, BeginCreateAlone, BeginAlone DEF Ask
<1>2. ASSUME NEW p \in Process, Step(p) PROVE AloneInv'
  BY <1>2, StepAlone
<1>3. ASSUME NEW c \in Cid, Worker(c) PROVE AloneInv'
  BY <1>3, QuietAlone DEF Worker, WorkerCreate, WorkerStart, WorkerSave, db
<1>4. ASSUME NEW n \in Node, WorkerCrash(n) PROVE AloneInv'
  BY <1>4, QuietAlone DEF WorkerCrash, db
<1>5. CASE ServerStart \/ ServerStop \/ Crash
  BY <1>5, QuietAlone DEF ServerStart, ServerStop, Crash, db
<1>6. CASE UNCHANGED vars
  BY <1>6, QuietAlone DEF vars
<1> QED BY <1>1, <1>2, <1>3, <1>4, <1>5, <1>6 DEF Next

\* AloneInv holds of an empty database.
LEMMA InitAlone == Init => AloneInv
<1> SUFFICES ASSUME Init PROVE AloneInv
  OBVIOUS
<1>1. \A q \in Process : job[q].pc = "idle" /\ job[q].op = "none"
  BY DEF Init, Idle
<1>2. UniqueNames
  BY DEF Init, UniqueNames
<1> QED BY <1>1, <1>2 DEF AloneInv, Handling

\* With one request at a time, what an operation found when it looked is still
\* so when it saves.
THEOREM LooksStayTrue ==
  ASSUME OneRequest
  PROVE  Spec => []AloneInv
<1>1. IInv /\ CountInv /\ AloneInv /\ [Next]_vars => AloneInv'
  BY NextAlone
<1> QED BY InvariantHolds, CountsHold, InitAlone, <1>1, PTL DEF Spec

\* No two deployments have one name when the server serves one request at a
\* time: the lock of the database file keeps server and tool apart
\* (CreateDeployment).
THEOREM NamesAreUnique ==
  ASSUME OneRequest
  PROVE  Spec => []UniqueNames
<1>1. AloneInv => UniqueNames
  BY DEF AloneInv
<1> QED BY LooksStayTrue, <1>1, PTL

\* With one request at a time no container record outlives the record of its
\* deployment, though scales, crashes and removed nodes come in between
\* (DeleteDeployment).
THEOREM DeleteIsComplete ==
  ASSUME OneRequest
  PROVE  Spec => DeleteLeavesNothing
<1> DEFINE Gone == \A d \in DepId : deps[d] # None /\ deps'[d] = None => CtrsOf(d)' = {}
<1>1. IInv /\ CountInv /\ AloneInv /\ [Next]_vars => Gone
  <2> SUFFICES ASSUME IInv, CountInv, AloneInv, [Next]_vars,
                      NEW d \in DepId, deps[d] # None, deps'[d] = None
               PROVE  CtrsOf(d)' = {}
    BY DEF CtrsOf
  <2>1. PICK p \in Process : Step(p)
    <3>1. ASSUME NEW e \in DepId, NEW r \in 0 .. MaxReplicas, BeginScale(e, r)
          PROVE  FALSE
      <4>1. PICK rec \in Deployment : deps' = [deps EXCEPT ![e] = rec]
        <5> DEFINE s == [deps[e] EXCEPT !.replicas = r, !.status = "scaling"]
        <5>1. deps' = [deps EXCEPT ![e] = s] /\ deps[e] \in Deployment /\ r \in Nat
          BY <3>1 DEF BeginScale, IInv, TypeOK
        <5>2. s \in Deployment
          BY <5>1 DEF Deployment
        <5> QED BY <5>1, <5>2
      <4> QED BY <4>1, NoneAssumption DEF IInv, TypeOK
    <3> QED BY <3>1, WhoSaves
  <2>2. Saves(p) /\ Busy(p)
    BY <2>1, StepMoves, StepSaves DEF Moves, Busy
  <2>3. d = job[p].dep
    BY <2>2 DEF Saves, SavesDeployment
  <2>4. /\ job[p].pc = "save_deployment" => job[p].op = "create"
        /\ job[p].op \in {"create", "scale"} => job[p].mem \in Deployment
    BY DEF IInv, JobOK
  <2>5. job[p].op = "delete" /\ job[p].pc = "stop" /\ job[p].list = NoContainers
    <3>1. \A s \in {"running", "failed"} : job[p].mem \in Deployment
            => [job[p].mem EXCEPT !.status = s] \in Deployment
      BY DEF Deployment
    <3> QED BY <2>2, <2>3, <2>4, <3>1, NoneAssumption DEF Saves, SavesDeployment
  <2>6. CtrsOf(d) \subseteq InHand(p)
    BY <2>3, <2>5 DEF AloneInv
  <2>7. InHand(p) = {}
    BY <2>5 DEF InHand, NoContainers
  <2>8. UNCHANGED ctrs
    BY <2>2, <2>5 DEF Saves, SavesContainer
  <2> QED BY <2>6, <2>7, <2>8 DEF CtrsOf
<1> QED BY InvariantHolds, CountsHold, LooksStayTrue, <1>1, PTL DEF Spec, DeleteLeavesNothing

\* With one request at a time a deployment that was deleted stays deleted: no
\* late save of a create or of a scale brings its record back (Fail,
\* updateDeploymentStatus, ScaleDeployment).
THEOREM DeletesAreFinal ==
  ASSUME OneRequest
  PROVE  Spec => DeleteIsFinal
<1> DEFINE Final == \A d \in DepId : deps[d] = None /\ deps'[d] # None
             => \E p \in Process : At(p, "save_deployment") /\ job[p].dep = d
<1>1. IInv /\ CountInv /\ AloneInv /\ [Next]_vars => Final
  <2> SUFFICES ASSUME IInv, CountInv, AloneInv, [Next]_vars,
                      NEW d \in DepId, deps[d] = None, deps'[d] # None
               PROVE  \E p \in Process : At(p, "save_deployment") /\ job[p].dep = d
    OBVIOUS
  <2>1. PICK p \in Process : Step(p)
    <3>1. ASSUME NEW e \in DepId, NEW r \in 0 .. MaxReplicas, BeginScale(e, r)
          PROVE  FALSE
      <4>1. /\ deps' = [deps EXCEPT ![e] = [deps[e] EXCEPT !.replicas = r, !.status = "scaling"]]
            /\ deps[e] # None /\ deps \in [DepId -> Deployment \cup {None}]
        BY <3>1 DEF BeginScale, IInv, TypeOK
      <4> QED BY <4>1
    <3> QED BY <3>1, WhoSaves
  <2> QED BY <2>1, StepNames DEF At
<1> QED BY InvariantHolds, CountsHold, LooksStayTrue, <1>1, PTL DEF Spec, DeleteIsFinal

-----------------------------------------------------------------------------
(* Nothing is deleted.                                                      *)

\* The status that updateDeploymentStatus computes, from the counts it makes.
LEMMA UpdateCountStatus ==
  ASSUME IInv, NEW p \in Process, UpdateCount(p)
  PROVE  /\ \E st : job'[p].mem = [job[p].mem EXCEPT !.status = st]
         /\ job'[p].mem.replicas = job[p].mem.replicas
         /\ job'[p].mem.status = StatusOf(job[p].mem.replicas,
                                          Cardinality(RunningOf(job[p].dep)),
                                          Cardinality(FailedOf(job[p].dep)))
<1> DEFINE st == StatusOf(job[p].mem.replicas, Cardinality(RunningOf(job[p].dep)),
                          Cardinality(FailedOf(job[p].dep)))
           m == [job[p].mem EXCEPT !.status = st]
           k == [job[p] EXCEPT !.pc = "save_status", !.mem = m]
<1>1. /\ job[p].mem \in Deployment /\ job \in [Process -> Job] /\ job[p] \in Job
  BY DEF UpdateCount, At, IInv, JobOK, TypeOK
<1>2. job' = [job EXCEPT ![p] = [job[p] EXCEPT !.pc = "save_status", !.mem.status = st]]
  BY DEF UpdateCount, Become
<1> HIDE DEF st
<1>3. m.replicas = job[p].mem.replicas /\ m.status = st
  BY <1>1 DEF Deployment
<1>4. job' = [job EXCEPT ![p] = k]
  BY <1>1, <1>2 DEF Job, Deployment
<1> HIDE DEF m
<1>5. k.mem = m
  BY <1>1 DEF Job
<1> HIDE DEF k
<1>6. job'[p].mem = m
  BY <1>1, <1>4, <1>5
<1>7. \E s : job'[p].mem = [job[p].mem EXCEPT !.status = s]
  BY <1>6 DEF m
<1> QED BY <1>3, <1>6, <1>7 DEF st

\* A request to a worker is new when it is posted, and only then.
LEMMA StepWork ==
  ASSUME IInv, NEW p \in Process, Step(p)
  PROVE  \A c \in Cid : Working(c, "sent")' => Working(c, "sent")
                          \/ (c = job[p].cur /\ job[p].pc = "post")
<1>1. work \in [Cid -> Call \cup {None}]
  BY DEF IInv, TypeOK
<1>2. CASE UNCHANGED work
  BY <1>2 DEF Working
<1> DEFINE sent == [work EXCEPT ![job[p].cur] = [at |-> "sent", ctr |-> job[p].obj]]
<1>3. CASE job[p].pc = "post" /\ work' = sent
  BY <1>1, <1>3 DEF Working
<1>4. UNCHANGED work \/ (job[p].pc = "post" /\ work' = sent)
  <2>1. Post(p) => job[p].pc = "post" /\ (UNCHANGED work \/ work' = sent)
    BY DEF Post, At
  <2>2. ASSUME \/ SaveDeployment(p) \/ Schedule(p) \/ SaveContainer(p) \/ Fail(p)
               \/ DockerCreate(p) \/ DockerStart(p) \/ Answer(p)
               \/ SaveRunning(p) \/ SaveFailed(p)
        PROVE  UNCHANGED work
    BY <2>2 DEF SaveDeployment, Schedule, SaveContainer, Fail, DockerCreate, DockerStart,
           Answer, SaveRunning, SaveFailed, remote
  <2>3. ASSUME \/ UpdateGet(p) \/ UpdateCount(p) \/ UpdateSave(p) \/ DeleteList(p)
               \/ (\E c \in Cid : StopContainer(p, c)) \/ DockerStop(p) \/ DockerRemove(p)
               \/ SaveStopped(p) \/ DeleteRecord(p) \/ DeleteDeploymentRecord(p)
               \/ ScaleCount(p) \/ ScaleSave(p)
        PROVE  UNCHANGED work
    BY <2>3 DEF UpdateGet, UpdateCount, UpdateSave, DeleteList, StopContainer, DockerStop,
           DockerRemove, SaveStopped, DeleteRecord, DeleteDeploymentRecord, ScaleCount,
           ScaleSave, remote
  <2> HIDE DEF sent
  <2> QED BY <2>1, <2>2, <2>3 DEF Step
<1> QED BY <1>2, <1>3, <1>4

\* Only a scale that shrinks a deployment takes records away, those of
\* containers that were started, and only the tool scales.
LEMMA StepKeeps ==
  ASSUME IInv, CountInv, StartInv, NEW p \in Process, Step(p)
  PROVE  /\ \A c \in Cid : ctrs[c] # None /\ ctrs'[c] = None =>
              /\ p = Cli /\ job[p].op = "scale"
              /\ \A q \in Process : ~Starts(q, c)
              /\ ~Working(c, "sent")
         /\ job[p].op = "create" => \A d \in DepId : RunningOf(d) \subseteq RunningOf(d)'
<1> USE NoneAssumption
<1>1. Moves(p) /\ Saves(p) /\ Busy(p) /\ job[p].op \in {"create", "scale"}
  BY StepMoves, StepSaves DEF Moves, Busy, StartInv, IInv, JobOK, TypeOK, Job
<1>2. ASSUME NEW c \in Cid, ctrs[c] # None, ctrs'[c] = None
      PROVE  /\ p = Cli /\ job[p].op = "scale"
             /\ \A q \in Process : ~Starts(q, c)
             /\ ~Working(c, "sent")
  <2>1. c = job[p].cur /\ job[p].pc = "delete_record"
    BY <1>1, <1>2 DEF Saves, SavesContainer, IInv, JobOK, Starting
  <2>2. c \in InHand(p) /\ job[p].list[c] # None /\ job[p].list[c].docker
    BY <2>1, OwnContainer DEF CountInv, Handling, StartInv, InHand
  <2>3. p = Cli /\ job[p].op = "scale"
    BY <1>1, <2>1 DEF IInv, JobOK, Handling, CountInv, ScopeOK
  <2>4. \A q \in Process : ~Starts(q, c)
    BY <2>2 DEF IInv, OneStarter
  <2>5. ~Working(c, "sent")
    BY <2>2 DEF IInv, WorkOK, Working
  <2> QED BY <2>3, <2>4, <2>5
<1>3. ASSUME job[p].op = "create", NEW d \in DepId
      PROVE  RunningOf(d) \subseteq RunningOf(d)'
  <2>1. CASE d # job[p].dep
    BY <1>1, <2>1, OtherRunning DEF CountInv
  <2>2. CASE d = job[p].dep
    <3>1. job[p].pc \notin {"save_stopped", "delete_record"}
      BY <1>3 DEF IInv, JobOK, Handling
    <3> QED BY <1>1, <2>2, <3>1, OwnRunning DEF CountInv
  <2> QED BY <2>1, <2>2
<1> QED BY <1>2, <1>3

\* A deployment whose record says "running" still has containers after a step.
LEMMA StepHasContainers ==
  ASSUME IInv, CountInv, StartInv, NEW p \in Process, Step(p)
  PROVE  RunningHasContainers'
<1> USE NoneAssumption
<1>1. Moves(p) /\ Saves(p) /\ Busy(p) /\ job[p].op \in {"create", "scale"}
  BY StepMoves, StepSaves DEF Moves, Busy, StartInv, IInv, JobOK, TypeOK, Job
<1> SUFFICES ASSUME NEW d \in DepId, deps'[d] # None, deps'[d].status = "running"
             PROVE  RunningOf(d)' # {} \/ deps'[d].replicas = 0
  BY DEF RunningHasContainers, RunningOf, CtrsOf
<1>2. deps[d] # None /\ deps[d].status = "running"
        => RunningOf(d) # {} \/ deps[d].replicas = 0
  BY DEF StartInv, RunningHasContainers
<1>3. CASE d # job[p].dep
  <2>1. deps'[d] = deps[d] /\ RunningOf(d)' = RunningOf(d)
    BY <1>1, <1>3, OtherRunning DEF CountInv, Saves, SavesDeployment
  <2> QED BY <1>2, <2>1
<1>4. CASE d = job[p].dep /\ job[p].op = "create"
  <2>1. RunningOf(d) \subseteq RunningOf(d)' /\ job[p].mem \in Deployment
    BY <1>4, StepKeeps DEF IInv, JobOK
  <2>2. CASE deps'[d] = deps[d]
    BY <1>2, <2>1, <2>2
  <2>3. CASE job[p].pc = "save_status" /\ deps'[d] = job[p].mem
    <3>1. RunningOf(d) # {} \/ job[p].mem.replicas = 0
      BY <1>4, <2>3 DEF StartInv
    <3> QED BY <2>1, <2>3, <3>1
  <2>4. CASE job[p].pc = "save_deployment" /\ deps'[d] = job[p].mem
    BY <2>4 DEF CountInv, ScopeOK
  <2>5. CASE deps'[d] = [job[p].mem EXCEPT !.status = "failed"]
    BY <2>1, <2>5 DEF Deployment
  <2> QED BY <1>1, <1>4, <2>2, <2>3, <2>4, <2>5 DEF Saves, SavesDeployment
<1>5. CASE d = job[p].dep /\ job[p].op = "scale"
  <2>1. deps[d].status = "scaling"
    BY <1>5 DEF CountInv, ScaleOK, Scaling
  <2>2. Cardinality(RunningOf(d)') = deps'[d].replicas
    BY <1>5, <2>1, ScaleEnds
  <2> QED BY <2>2, FS_EmptySet
<1> QED BY <1>1, <1>3, <1>4, <1>5

\* StartInv survives every step of an operation.
LEMMA StepStart ==
  ASSUME IInv, CountInv, StartInv, NEW p \in Process, Step(p)
  PROVE  StartInv'
<1> USE NoneAssumption
<1>1. Moves(p) /\ Saves(p) /\ Busy(p) /\ job[p].op \in {"create", "scale"}
  BY StepMoves, StepSaves DEF Moves, Busy, StartInv, IInv, JobOK, TypeOK, Job
<1>2. /\ \A q \in Process : q # p => job'[q] = job[q]
      /\ \/ job'[p].pc = "idle" /\ job'[p].op = "none"
         \/ GoesOn(p)
  BY <1>1 DEF Moves, Returns, Idle
<1>3. \A q \in Process : job'[q].op # "delete"
  BY <1>2 DEF StartInv, GoesOn
<1>4. \A q \in Process : job'[q].pc \in Removing
        => \A c \in Cid : job'[q].list[c] # None => job'[q].list[c].docker
  <2>1. ASSUME job'[p].pc \in Removing, NEW c \in Cid, job'[p].list[c] # None
        PROVE  job'[p].list[c].docker
    <3>1. KeepsList(p) /\ job[p].list \in [Cid -> Container \cup {None}]
      BY <1>2, <2>1 DEF GoesOn, Removing, Handling, IInv, TypeOK, Job
    <3>2. CASE job[p].pc \in Removing /\ job'[p].list[c] \in {None, job[p].list[c]}
      BY <2>1, <3>2 DEF StartInv, InHand, Removing
    <3>3. CASE \E S \in SUBSET RunningOf(job[p].dep) : job'[p].list = Listed(S)
      BY <2>1, <3>3 DEF Listed, RunningOf, CtrsOf, IInv, RunningHasDocker
    <3>4. job[p].pc # "list"
      BY <1>1 DEF CountInv, ScopeOK
    <3> QED BY <3>1, <3>2, <3>3, <3>4 DEF KeepsList, Removing, Handling
  <2> QED BY <1>2, <2>1 DEF StartInv, InHand, Removing
<1>5. \A q \in Process : job'[q].pc \in Starting \ {"save_container"}
        => ctrs'[job'[q].cur] # None
  <2>1. ASSUME NEW q \in Process, q # p, job[q].pc \in Starting \ {"save_container"}
        PROVE  ctrs'[job[q].cur] # None
    <3>1. job[q].cur \in Cid /\ Starts(q, job[q].cur) /\ ctrs[job[q].cur] # None
      BY <2>1, StartFacts DEF Starts, StartInv
    <3> QED BY <3>1, StepKeeps
  <2>2. ASSUME job'[p].pc \in Starting \ {"save_container"}
        PROVE  ctrs'[job'[p].cur] # None
    <3>1. job[p].pc \in Starting /\ job'[p].cur = job[p].cur
      BY <1>2, <2>2 DEF GoesOn, Starting
    <3>2. job[p].pc # "save_container" => ctrs[job[p].cur] # None
      BY <3>1 DEF StartInv
    <3>3. job[p].obj \in Container
      BY <3>1, StartFacts
    <3> QED BY <1>1, <3>1, <3>2, <3>3 DEF Saves, SavesContainer, Starting
  <2> QED BY <1>2, <2>1, <2>2
<1>6. \A q \in Process, d \in DepId :
        job'[q].pc = "save_status" /\ job'[q].mem.status = "running" /\ job'[q].dep = d
          => RunningOf(d)' # {} \/ job'[q].mem.replicas = 0
  <2>1. ASSUME NEW q \in Process, q # p, job[q].pc = "save_status", job[q].mem.status = "running",
               NEW d, d = job[q].dep
        PROVE  RunningOf(d)' # {} \/ job[q].mem.replicas = 0
    <3>1. Busy(q) /\ d \in DepId
      BY <2>1 DEF Busy, IInv, JobOK
    <3>2. job[p].op = "create"
      BY <1>1, <2>1, <3>1, Apart DEF CountInv, ScopeOK
    <3>3. RunningOf(d) \subseteq RunningOf(d)'
      BY <3>1, <3>2, StepKeeps
    <3> QED BY <2>1, <3>3 DEF StartInv
  <2>2. ASSUME job'[p].pc = "save_status", job'[p].mem.status = "running",
               NEW d, d = job[p].dep
        PROVE  job'[p].dep = d /\ (RunningOf(d)' # {} \/ job'[p].mem.replicas = 0)
    <3>1. job[p].pc = "count" /\ job'[p].dep = d
      BY <1>2, <2>2 DEF GoesOn
    <3>2. RunningOf(d)' = RunningOf(d)
      BY <1>1, <2>2, <3>1, OwnRunning DEF CountInv
    <3>3. /\ job'[p].mem.replicas = job[p].mem.replicas
          /\ StatusOf(job[p].mem.replicas, Cardinality(RunningOf(d)),
                      Cardinality(FailedOf(d))) = "running"
      BY <2>2, <3>1, StepAt, UpdateCountStatus
    <3>4. Cardinality(RunningOf(d)) = job[p].mem.replicas \/ Cardinality(RunningOf(d)) > 0
      BY <3>3 DEF StatusOf
    <3>5. RunningOf(d) = {} => Cardinality(RunningOf(d)) = 0
      BY FS_EmptySet
    <3> QED BY <3>1, <3>2, <3>3, <3>4, <3>5
  <2> QED BY <1>2, <2>1, <2>2
<1>a. \A q \in Process : job'[q].pc = "save_status" => job'[q].dep \in DepId
  BY <1>2 DEF GoesOn, IInv, JobOK
<1>7. \A c \in Cid : Working(c, "sent")' => ctrs'[c] # None
  <2> SUFFICES ASSUME NEW c \in Cid, Working(c, "sent")' PROVE ctrs'[c] # None
    OBVIOUS
  <2>1. CASE Working(c, "sent")
    BY <2>1, StepKeeps DEF StartInv
  <2>2. CASE c = job[p].cur /\ job[p].pc = "post"
    BY <1>1, <2>2 DEF StartInv, Starting, Saves, SavesContainer
  <2> QED BY <2>1, <2>2, StepWork
<1>8. RunningHasContainers'
  BY StepHasContainers
<1>b. \A q \in Process :
        job'[q].pc = "save_status" /\ job'[q].mem.status = "running"
          => (RunningOf(job[q].dep) # {})' \/ job'[q].mem.replicas = 0
  BY <1>6, <1>a DEF RunningOf, CtrsOf
<1> QED BY <1>3, <1>4, <1>5, <1>7, <1>8, <1>b DEF StartInv, InHand, Removing

\* So it does when an operation begins that deletes nothing.
LEMMA BeginStart ==
  ASSUME IInv, StartInv, NEW p \in Process, NEW j \in Job, Become(p, j),
         j.pc \in {"save_deployment", "count_running"}, j.op # "delete",
         UNCHANGED <<ctrs, work>>, RunningHasContainers'
  PROVE  StartInv'
<1>1. job'[p] = j /\ \A q \in Process : q # p => job'[q] = job[q]
  BY BecomeFrame DEF IInv, TypeOK
<1>2. \A q \in Process : /\ job'[q].op # "delete"
                         /\ job'[q].pc \in Removing \cup Starting \cup {"save_status"}
                              => job'[q] = job[q]
  BY <1>1 DEF StartInv, Removing, Starting, Handling
<1>3. \A q \in Process, c \in Cid : job'[q].pc \in Removing /\ job'[q].list[c] # None
        => job'[q].list[c].docker
  BY <1>2 DEF StartInv, InHand, Removing
<1>4. \A q \in Process : job'[q].pc \in Starting \ {"save_container"}
        => ctrs'[job'[q].cur] # None
  BY <1>2 DEF StartInv
<1>5. \A q \in Process : job'[q].pc = "save_status" /\ job'[q].mem.status = "running"
        => (RunningOf(job[q].dep) # {})' \/ job'[q].mem.replicas = 0
  BY <1>2 DEF StartInv, RunningOf, CtrsOf
<1>6. \A c \in Cid : Working(c, "sent")' => ctrs'[c] # None
  BY DEF StartInv, Working
<1> QED BY <1>2, <1>3, <1>4, <1>5, <1>6 DEF StartInv, InHand, Removing

\* A step of no operation leaves it alone, a worker's step among them.
LEMMA QuietStart ==
  ASSUME StartInv, UNCHANGED <<deps, ctrs, job>>,
         \A c \in Cid : Working(c, "sent")' => Working(c, "sent")
  PROVE  StartInv'
<1>1. RunningHasContainers'
  BY DEF StartInv, RunningHasContainers, RunningOf, CtrsOf
<1>2. \A c \in Cid : Working(c, "sent")' => ctrs'[c] # None
  BY DEF StartInv
<1> QED BY <1>1, <1>2 DEF StartInv, InHand, RunningOf, CtrsOf

\* No process is left that holds anything.
LEMMA CrashStart ==
  ASSUME StartInv, Crash
  PROVE  StartInv'
<1>1. \A q \in Process : job'[q] = Idle
  BY DEF Crash
<1>2. Idle.pc = "idle" /\ Idle.op = "none"
  BY DEF Idle
<1>3. UNCHANGED <<deps, ctrs, work>>
  BY DEF Crash, db, remote
<1>4. RunningHasContainers' /\ \A c \in Cid : Working(c, "sent")' => ctrs'[c] # None
  BY <1>3 DEF StartInv, RunningHasContainers, RunningOf, CtrsOf, Working
<1> QED BY <1>1, <1>2, <1>4 DEF StartInv, Starting, Handling

\* Nor is anything recorded at first.
LEMMA InitStart == Init => StartInv
<1> SUFFICES ASSUME Init PROVE StartInv
  OBVIOUS
<1>1. \A q \in Process : job[q] = Idle
  BY DEF Init
<1>2. Idle.pc = "idle" /\ Idle.op = "none"
  BY DEF Idle
<1>3. RunningHasContainers /\ \A c \in Cid : ~Working(c, "sent")
  BY DEF Init, RunningHasContainers, Working
<1> QED BY <1>1, <1>2, <1>3 DEF StartInv, Starting, Handling

\* A create has a new record in memory and in the database none that says
\* "running"; a scale says "scaling".
LEMMA BeginsStart ==
  ASSUME IInv, StartInv
  PROVE  /\ \A p \in Process, name \in Name, r \in 1 .. MaxReplicas,
               port \in Port, place \in Placement :
              BeginCreate(p, name, r, port, place) => StartInv'
         /\ \A d \in DepId, r \in 0 .. MaxReplicas : BeginScale(d, r) => StartInv'
<1> USE ConstantAssumption
<1>1. ASSUME NEW p \in Process, NEW name \in Name, NEW r \in 1 .. MaxReplicas,
             NEW port \in Port, NEW place \in Placement, BeginCreate(p, name, r, port, place)
      PROVE  StartInv'
  <2> DEFINE rec == [name |-> name, replicas |-> r, port |-> port,
                     place |-> place, status |-> "pending"]
             j(d) == [Idle EXCEPT !.pc = "save_deployment", !.op = "create",
                                  !.dep = d, !.left = r, !.mem = rec]
  <2>1. PICK d \in DepId : Become(p, j(d))
    BY <1>1 DEF BeginCreate
  <2>2. rec \in Deployment
    BY DEF Deployment
  <2> HIDE DEF rec
  <2>3. "save_deployment" \in Label /\ r \in Nat
    BY DEF Label
  <2>4. j(d) \in Job /\ j(d).pc = "save_deployment" /\ j(d).op = "create"
    BY <2>2, <2>3, IdleIsJob DEF Job, Idle
  <2> HIDE DEF j
  <2>5. UNCHANGED <<deps, ctrs, work>>
    BY <1>1 DEF BeginCreate, db, remote
  <2>6. RunningHasContainers'
    BY <2>5 DEF StartInv, RunningHasContainers, RunningOf, CtrsOf
  <2> QED BY <2>1, <2>4, <2>5, <2>6, BeginStart
<1>2. ASSUME NEW d \in DepId, NEW r \in 0 .. MaxReplicas, BeginScale(d, r)
      PROVE  StartInv'
  <2> DEFINE rec == [deps[d] EXCEPT !.replicas = r, !.status = "scaling"]
             j == [Idle EXCEPT !.pc = "count_running", !.op = "scale", !.dep = d, !.mem = rec]
  <2>1. /\ deps' = [deps EXCEPT ![d] = rec] /\ Become(Cli, j) /\ Cli \in Process
        /\ deps \in [DepId -> Deployment \cup {None}] /\ deps[d] # None
        /\ UNCHANGED <<ctrs, work>>
    BY <1>2 DEF BeginScale, IInv, TypeOK, Process, remote
  <2>2. "count_running" \in Label /\ r \in Nat
    BY DEF Label
  <2>3. rec \in Deployment /\ rec.status = "scaling"
    BY <2>1, <2>2 DEF Deployment
  <2> HIDE DEF rec
  <2>4. j \in Job /\ j.pc = "count_running" /\ j.op = "scale"
    BY <2>2, <2>3, IdleIsJob DEF Job, Idle
  <2> HIDE DEF j
  <2>5. RunningHasContainers'
    BY <2>1, <2>3 DEF StartInv, RunningHasContainers, RunningOf, CtrsOf
  <2> QED BY <2>1, <2>4, <2>5, BeginStart
<1> QED BY <1>1, <1>2

\* One step per action of Next.
LEMMA NextStart ==
  ASSUME NothingDeleted, IInv, CountInv, StartInv, [Next]_vars
  PROVE  StartInv'
<1>1. ASSUME NEW p \in Process, Ask(p) PROVE StartInv'
  <2>1. ASSUME NEW n \in Node, NEW force \in BOOLEAN, ServerRemove(n, force)
        PROVE  StartInv'
    BY <2>1, QuietStart DEF ServerRemove, remote, Working
  <2>2. ASSUME NEW d \in DepId, BeginDelete(p, d) PROVE FALSE
    BY <2>2 DEF BeginDelete, NothingDeleted
  <2> QED BY <1>1, <2>1, <2>2, BeginsStart DEF Ask
<1>2. ASSUME NEW p \in Process, Step(p) PROVE StartInv'
  BY <1>2, StepStart
<1>3. ASSUME NEW c \in Cid, Worker(c) PROVE StartInv'
  <2>1. UNCHANGED <<deps, ctrs, job>>
    BY <1>3 DEF Worker, WorkerCreate, WorkerStart, WorkerSave, db
  <2>2. PICK at \in {"created", "refused", "started", "answered"} :
          work[c] # None /\ work' = [work EXCEPT ![c].at = at]
    BY <1>3 DEF Worker, WorkerCreate, WorkerStart, WorkerSave, Working
  <2>3. \A e \in Cid : Working(e, "sent")' => Working(e, "sent")
    BY <2>2, NoneAssumption DEF Working, IInv, TypeOK, Call
  <2> QED BY <2>1, <2>3, QuietStart
<1>4. ASSUME NEW n \in Node, WorkerCrash(n) PROVE StartInv'
  <2>1. UNCHANGED <<deps, ctrs, job>>
    BY <1>4 DEF WorkerCrash, db
  <2>2. \A e \in Cid : work'[e] \in {work[e], [work[e] EXCEPT !.at = "lost"]}
    BY <1>4 DEF WorkerCrash
  <2>3. \A e \in Cid : work[e] # None => work[e] \in Call
    BY DEF IInv, TypeOK
  <2>4. \A e \in Cid : work[e] = None => work'[e] = None
    BY <1>4 DEF WorkerCrash
  <2>5. \A e \in Cid : Working(e, "sent")' => Working(e, "sent")
    BY <2>2, <2>3, <2>4 DEF Working, Call
  <2> QED BY <2>1, <2>5, QuietStart
<1>5. CASE ServerStart \/ ServerStop \/ UNCHANGED vars
  BY <1>5, QuietStart DEF ServerStart, ServerStop, vars, db, remote, Working
<1> QED BY <1>1, <1>2, <1>3, <1>4, <1>5, CrashStart DEF Next

\* As long as nothing is deleted a container that is to be made or started has
\* its record (scheduleContainers saves before it starts).
THEOREM StartsHold ==
  ASSUME NothingDeleted
  PROVE  Spec => []StartInv
<1>1. IInv /\ CountInv /\ StartInv /\ [Next]_vars => StartInv'
  BY NextStart
<1> QED BY InvariantHolds, CountsHold, InitStart, <1>1, PTL DEF Spec

\* As long as nothing is deleted a deployment whose record says "running" has a
\* running container, unless it was scaled to none (updateDeploymentStatus).
THEOREM RunningHaveContainers ==
  ASSUME NothingDeleted
  PROVE  Spec => []RunningHasContainers
<1>1. StartInv => RunningHasContainers
  BY DEF StartInv
<1> QED BY StartsHold, <1>1, PTL

\* As long as nothing is deleted Docker makes a container only for a record that
\* is in the database, on the master and on the workers, whoever died or lost an
\* answer (scheduleContainers, startContainerOnRemoteNode, handleCreateContainer).
THEOREM StartsAreRecorded ==
  ASSUME NothingDeleted
  PROVE  Spec => StartedIsRecorded
<1> DEFINE Recorded == \A c \in Cid : dock[c] = None /\ dock'[c] # None => ctrs[c] # None
<1>1. IInv /\ StartInv /\ [Next]_vars => Recorded
  <2> SUFFICES ASSUME IInv, StartInv, [Next]_vars,
                      NEW c \in Cid, dock[c] = None, dock'[c] # None
               PROVE  ctrs[c] # None
    OBVIOUS
  <2>1. dock \in [Cid -> DockerContainer \cup {None}]
    BY DEF IInv, TypeOK
  <2>2. ASSUME NEW p \in Process, Step(p) PROVE ctrs[c] # None
    <3>1. DockerCreate(p) \/ DockerStart(p) \/ DockerStop(p) \/ DockerRemove(p)
      BY <2>2 DEF Step, SaveDeployment, Schedule, SaveContainer, Fail, Post, Answer,
                  SaveRunning, SaveFailed, UpdateGet, UpdateCount, UpdateSave, DeleteList,
                  StopContainer, SaveStopped, DeleteRecord, DeleteDeploymentRecord,
                  ScaleCount, ScaleSave
    <3>2. CASE DockerCreate(p)
      BY <2>1, <3>2 DEF DockerCreate, Created, NotCreated, At, StartInv, Starting
    <3>3. CASE DockerStart(p)
      <4>1. dock[job[p].cur] # None
        BY <3>3 DEF DockerStart, At, IInv, StartOK
      <4> QED BY <2>1, <3>3, <4>1 DEF DockerStart, Started, NotStarted
    <3>4. CASE DockerStop(p) \/ DockerRemove(p)
      BY <2>1, <3>4 DEF DockerStop, DockerRemove
    <3> QED BY <3>1, <3>2, <3>3, <3>4
  <2>3. ASSUME NEW e \in Cid, Worker(e) PROVE ctrs[c] # None
    <3>1. CASE WorkerCreate(e)
      BY <2>1, <3>1 DEF WorkerCreate, Created, NotCreated, StartInv
    <3>2. CASE WorkerStart(e)
      <4>1. dock[e] # None
        BY <3>2 DEF WorkerStart, Working, IInv, WorkOK
      <4> QED BY <2>1, <3>2, <4>1 DEF WorkerStart, Started, NotStarted
    <3> QED BY <2>3, <3>1, <3>2 DEF Worker, WorkerSave
  <2>4. ASSUME NEW p \in Process, Ask(p) PROVE FALSE
    BY <2>4 DEF Ask, BeginCreate, BeginDelete, BeginScale, ServerRemove
  <2>5. ASSUME NEW n \in Node, WorkerCrash(n) PROVE FALSE
    BY <2>5 DEF WorkerCrash
  <2>6. ~(ServerStart \/ ServerStop \/ Crash \/ UNCHANGED vars)
    BY DEF ServerStart, ServerStop, Crash, vars
  <2> QED BY <2>2, <2>3, <2>4, <2>5, <2>6 DEF Next
<1> QED BY InvariantHolds, StartsHold, <1>1, PTL DEF Spec, StartedIsRecorded

-----------------------------------------------------------------------------
(* What is recorded, one request at a time.                                 *)

\* A container's record is new when it is saved first, and goes when it is deleted.
LEMMA OwnContainers ==
  ASSUME IInv, CountInv, SerialInv, NEW p \in Process, Saves(p), NEW d, d = job[p].dep
  PROVE  LET c == job[p].cur
         IN /\ job[p].pc = "save_container" => CtrsOf(d)' = CtrsOf(d) \cup {c}
            /\ job[p].pc = "delete_record"
                 => c \in InHand(p) /\ CtrsOf(d)' = CtrsOf(d) \ {c}
            /\ job[p].pc \notin {"save_container", "delete_record"} => CtrsOf(d)' = CtrsOf(d)
<1> USE NoneAssumption
<1> DEFINE c == job[p].cur
<1>1. \A x \in Cid : x # c => ctrs'[x] = ctrs[x]
  BY DEF Saves, SavesContainer
<1>2. CASE job[p].pc = "save_container"
  <2>1. c \in Cid /\ Owner(c) = d
    BY <1>2, OwnContainer DEF Starting, CountInv
  <2>2. ctrs'[c] # None
    BY <1>2 DEF Saves, SavesContainer
  <2>3. CtrsOf(d)' = CtrsOf(d) \cup {c}
    BY <1>1, <2>1, <2>2 DEF CtrsOf
  <2> QED BY <1>2, <2>3
<1>3. CASE job[p].pc = "delete_record"
  <2>1. c \in InHand(p) /\ ctrs'[c] = None
    BY <1>3, OwnContainer DEF Handling, CountInv, Saves, SavesContainer
  <2>2. CtrsOf(d)' = CtrsOf(d) \ {c}
    BY <1>1, <2>1 DEF CtrsOf
  <2> QED BY <1>3, <2>1, <2>2
<1>4. CASE job[p].pc \notin {"save_container", "delete_record"}
  <2>1. CASE UNCHANGED ctrs
    BY <1>4, <2>1 DEF CtrsOf
  <2>2. CASE job[p].pc \in {"save_running", "save_remote_failed", "save_failed", "save_stopped"}
    <3>1. c \in Cid /\ ctrs[c] # None
      <4>1. c \in Cid /\ (job[p].pc \in Handling => c \in InHand(p))
        BY <2>2, OwnContainer DEF CountInv, Starting, Handling
      <4> QED BY <2>2, <4>1 DEF SerialInv, Starting, Handling, CtrsOf
    <3>2. ctrs'[c] # None
      <4>1. job[p].pc = "save_running" => job[p].obj \in Container
        BY StartFacts DEF Starting
      <4> QED BY <2>2, <3>1, <4>1 DEF Saves, SavesContainer
    <3>3. CtrsOf(d)' = CtrsOf(d)
      BY <1>1, <3>1, <3>2 DEF CtrsOf
    <3> QED BY <1>4, <3>3
  <2> QED BY <1>4, <2>1, <2>2 DEF Saves, SavesContainer
<1> QED BY <1>2, <1>3, <1>4

\* The record that a create has in memory is the one it saved, whatever status
\* it has computed.
LEMMA OwnRecord ==
  ASSUME IInv, CountInv, AloneInv, SerialInv, NEW p \in Process, Step(p), GoesOn(p),
         job[p].op = "create", NEW d, d = job[p].dep
  PROVE  deps'[d] = [job'[p].mem EXCEPT !.status = "pending"]
<1>1. /\ Saves(p) /\ job[p].mem \in Deployment /\ d \in DepId
      /\ Busy(p) /\ ~Returns(p)
  <2>1. Idle.pc = "idle"
    BY DEF Idle
  <2> QED BY <2>1, StepSaves, StepMoves DEF IInv, JobOK, Moves, Busy, GoesOn, Returns
<1>2. CASE job[p].pc = "save_deployment"
  <2>1. deps'[d] = job[p].mem /\ job[p].mem.status = "pending"
    BY <1>1, <1>2 DEF Saves, SavesDeployment, CountInv, ScopeOK
  <2>2. job'[p].mem = job[p].mem
    BY <1>2 DEF GoesOn, KeepsMem
  <2> QED BY <1>1, <2>1, <2>2 DEF Deployment
<1>3. CASE job[p].pc # "save_deployment"
  <2>1. deps'[d] = deps[d] /\ deps[d] = [job[p].mem EXCEPT !.status = "pending"]
    BY <1>1, <1>3 DEF Saves, SavesDeployment, SerialInv
  <2>2. CASE job'[p].mem = job[p].mem
    BY <2>1, <2>2
  <2>3. CASE job'[p].mem = deps[d]
    <3>1. [deps[d] EXCEPT !.status = "pending"] = deps[d]
      BY <1>1, <2>1 DEF Deployment
    <3> QED BY <2>1, <2>3, <3>1
  <2>4. CASE job[p].pc = "count"
    <3>1. PICK st : job'[p].mem = [job[p].mem EXCEPT !.status = st]
      BY <2>4, StepAt, UpdateCountStatus
    <3>2. [job'[p].mem EXCEPT !.status = "pending"] = [job[p].mem EXCEPT !.status = "pending"]
      BY <1>1, <3>1 DEF Deployment
    <3> QED BY <2>1, <3>2
  <2> QED BY <2>2, <2>3, <2>4 DEF GoesOn, KeepsMem
<1> QED BY <1>2, <1>3

\* What a create has still to bring up is what is missing.
LEMMA OwnExact ==
  ASSUME IInv, CountInv, SerialInv, NEW p \in Process, Step(p), job[p].op = "create", GoesOn(p),
         NEW d, d = job[p].dep
  PROVE  Cardinality(RunningOf(d)') + job'[p].left = job'[p].mem.replicas
<1>1. Saves(p) /\ Moves(p)
  BY StepMoves, StepSaves
<1>2. /\ d \in DepId /\ job[p].mem \in Deployment
      /\ job[p].pc \notin Removing \cup {"count_running"}
  BY <1>1 DEF Moves, IInv, JobOK, Removing, Handling
<1>3. Cardinality(RunningOf(d)) + job[p].left = job[p].mem.replicas
  BY DEF SerialInv
<1>4. job'[p].mem.replicas = job[p].mem.replicas
  BY DEF GoesOn, KeepsMem, CountInv, CreateOK, Creating
<1>5. /\ Cardinality(RunningOf(d)) \in Nat /\ IsFiniteSet(RunningOf(d))
      /\ job[p].left \in Nat /\ job[p].mem.replicas \in Nat
  <2>1. RunningOf(d) \in SUBSET Cid
    BY DEF RunningOf, CtrsOf
  <2> QED BY <1>2, <2>1, Countable DEF IInv, TypeOK, Job, Deployment
<1>6. CASE job[p].pc = "save_running"
  <2>1. job'[p].left = job[p].left - 1
    BY <1>6, StepAt, SaveRunningMoves
  <2>2. job[p].cur \notin RunningOf(d) /\ RunningOf(d)' = RunningOf(d) \cup {job[p].cur}
    BY <1>1, <1>6, OwnRunning DEF CountInv
  <2>3. Cardinality(RunningOf(d)') = Cardinality(RunningOf(d)) + 1
    BY <1>5, <2>2, FS_AddElement
  <2> QED BY <1>3, <1>4, <1>5, <2>1, <2>3
<1>7. CASE job[p].pc # "save_running"
  <2>1. job'[p].left = job[p].left
    BY <1>2, <1>7 DEF GoesOn
  <2>2. RunningOf(d)' = RunningOf(d)
    BY <1>1, <1>2, <1>7, OwnRunning DEF CountInv, Removing, Handling
  <2> QED BY <1>3, <1>4, <2>1, <2>2
<1> QED BY <1>6, <1>7

\* What a process has still to stop is there to be stopped.
LEMMA StillThere ==
  ASSUME IInv, CountInv, SerialInv, NEW p \in Process, Step(p), GoesOn(p),
         job'[p].pc \in Removing, NEW d, d = job[p].dep
  PROVE  InHand(p)' \subseteq CtrsOf(d)'
<1> DEFINE c == job[p].cur
<1>1. Saves(p) /\ KeepsList(p) /\ job[p].list \in [Cid -> Container \cup {None}]
  BY StepSaves DEF GoesOn, IInv, TypeOK, Job
<1>2. CASE job[p].pc \in {"list", "count_running"}
  <2>1. PICK S \in SUBSET CtrsOf(d) : job'[p].list = Listed(S)
    BY <1>1, <1>2 DEF KeepsList, Removing, Handling, RunningOf
  <2>2. UNCHANGED ctrs
    BY <1>1, <1>2 DEF Saves, SavesContainer
  <2>3. InHand(p)' = S
    BY <2>1, ListedInHand DEF CtrsOf
  <2> QED BY <2>2, <2>3 DEF CtrsOf
<1>3. CASE job[p].pc \in Removing
  <2>1. InHand(p) \subseteq CtrsOf(d)
    BY <1>3 DEF SerialInv, Removing
  <2>2. CASE job[p].pc = "delete_record"
    <3>1. InHand(p)' = InHand(p) \ {c}
      BY <1>1, <2>2 DEF KeepsList, InHand, Removing, Handling
    <3>2. CtrsOf(d)' = CtrsOf(d) \ {c}
      BY <1>1, <2>2, OwnContainers
    <3> QED BY <2>1, <3>1, <3>2
  <2>3. CASE job[p].pc # "delete_record"
    <3>1. InHand(p)' = InHand(p)
      BY <1>1, <1>3, <2>3 DEF KeepsList, InHand, Removing, Handling
    <3>2. CtrsOf(d)' = CtrsOf(d)
      BY <1>1, <1>3, <2>3, OwnContainers DEF Removing, Handling
    <3> QED BY <2>1, <3>1, <3>2
  <2> QED BY <2>2, <2>3
<1> QED BY <1>1, <1>2, <1>3 DEF KeepsList, Removing, Handling

\* A deployment that is worked on has a record, but for a create that has not
\* saved it and a delete that has just dropped it.
LEMMA OwnThere ==
  ASSUME IInv, CountInv, AloneInv, SerialInv, NEW p \in Process, Step(p), NEW d, d = job[p].dep
  PROVE  /\ job[p].pc # "save_deployment" => deps[d] # None
         /\ deps'[d] = None => job[p].op = "delete" /\ job[p].pc = "stop" /\ InHand(p) = {}
<1> USE NoneAssumption
<1>1. /\ Saves(p) /\ Busy(p) /\ d \in DepId /\ job[p].op \in {"create", "scale", "delete"}
      /\ job[p].op \in {"create", "scale"} => job[p].mem \in Deployment
  BY StepMoves, StepSaves DEF Moves, Busy, IInv, JobOK, TypeOK, Job
<1>2. job[p].pc # "save_deployment" => deps[d] # None
  <2>1. CASE job[p].op = "create"
    BY <2>1 DEF AloneInv
  <2>2. CASE job[p].op = "delete"
    BY <2>2 DEF SerialInv
  <2>3. CASE job[p].op = "scale"
    <3>1. deps[d] = job[p].mem
      BY <2>3 DEF CountInv, ScaleOK, Scaling
    <3> QED BY <1>1, <2>3, <3>1
  <2> QED BY <1>1, <2>1, <2>2, <2>3
<1>3. ASSUME deps'[d] = None
      PROVE  job[p].op = "delete" /\ job[p].pc = "stop" /\ InHand(p) = {}
  <2>1. job[p].pc = "save_deployment" => job[p].op = "create"
    BY DEF IInv, JobOK
  <2>2. \A s \in {"running", "failed"} : job[p].mem \in Deployment
          => [job[p].mem EXCEPT !.status = s] \in Deployment
    BY DEF Deployment
  <2>3. job[p].op = "delete" /\ job[p].pc = "stop" /\ job[p].list = NoContainers
    BY <1>1, <1>2, <1>3, <2>1, <2>2 DEF Saves, SavesDeployment
  <2> QED BY <2>3 DEF InHand, NoContainers
<1> QED BY <1>2, <1>3

\* SerialInv survives every step of an operation.
LEMMA StepSerial ==
  ASSUME OneRequest, IInv, CountInv, AloneInv, SerialInv, NEW p \in Process, Step(p)
  PROVE  SerialInv'
<1> USE NoneAssumption
<1> PICK d : d = job[p].dep
  OBVIOUS
<1>1. Moves(p) /\ Saves(p) /\ Busy(p) /\ d \in DepId
  BY StepMoves, StepSaves DEF Moves, Busy, IInv, JobOK
<1>2. \A q \in Process : q # p => job'[q].pc = "idle" /\ job'[q].op = "none"
  BY <1>1, OneAtWork DEF Moves, Busy, CountInv, LockOK, IInv
<1>3. \A e \in DepId : deps'[e] = None => CtrsOf(e)' = {}
  <2>1. ASSUME NEW e \in DepId, e # d, deps'[e] = None PROVE CtrsOf(e)' = {}
    <3>1. deps[e] = None /\ CtrsOf(e)' = CtrsOf(e)
      BY <1>1, <2>1, OtherRunning DEF Saves, SavesDeployment, CountInv
    <3> QED BY <3>1 DEF SerialInv
  <2>2. ASSUME deps'[d] = None PROVE CtrsOf(d)' = {}
    <3>1. job[p].op = "delete" /\ job[p].pc = "stop" /\ InHand(p) = {}
      BY <2>2, OwnThere
    <3>2. CtrsOf(d) \subseteq {}
      BY <3>1 DEF AloneInv
    <3> QED BY <1>1, <3>1, <3>2, OwnContainers
  <2> QED BY <2>1, <2>2
<1>4. CASE Returns(p)
  <2>1. job'[p].pc = "idle" /\ job'[p].op = "none"
    BY <1>4 DEF Returns, Idle
  <2> QED BY <1>2, <1>3, <2>1 DEF SerialInv, Starting, Handling
<1>5. CASE GoesOn(p)
  <2>1. /\ job'[p].pc \notin {"idle", "save_deployment"}
        /\ job'[p].op = job[p].op /\ job'[p].dep = d
    BY <1>5 DEF GoesOn
  <2>2. job'[p].op = "create" =>
          /\ Cardinality(RunningOf(d)') + job'[p].left = job'[p].mem.replicas
          /\ deps'[d] = [job'[p].mem EXCEPT !.status = "pending"]
    BY <1>5, <2>1, OwnExact, OwnRecord
  <2>3. job'[p].pc \in {"count", "save_status"} => job'[p].left = 0
    BY <1>5 DEF GoesOn, SerialInv
  <2>4. job'[p].pc = "save_status" => job'[p].mem.status = "running"
    <3> SUFFICES ASSUME job'[p].pc = "save_status" PROVE job'[p].mem.status = "running"
      OBVIOUS
    <3>1. job[p].pc = "count" /\ job[p].op = "create" /\ job[p].left = 0
      BY <1>5 DEF GoesOn, SerialInv, IInv, JobOK
    <3>2. Cardinality(RunningOf(d)) + job[p].left = job[p].mem.replicas
      BY <3>1 DEF SerialInv
    <3>3. Cardinality(RunningOf(d)) \in Nat
      <4>1. RunningOf(d) \in SUBSET Cid
        BY DEF RunningOf, CtrsOf
      <4> QED BY <4>1, Countable
    <3>4. Cardinality(RunningOf(d)) = job[p].mem.replicas
      BY <3>1, <3>2, <3>3
    <3>5. job'[p].mem.status = StatusOf(job[p].mem.replicas, Cardinality(RunningOf(d)),
                                        Cardinality(FailedOf(d)))
      <4>1. UpdateCount(p)
        BY <3>1, StepAt
      <4> QED BY <4>1, UpdateCountStatus
    <3> QED BY <3>4, <3>5 DEF StatusOf
  <2>5. job'[p].op = "delete" => deps'[d] # None
    <3>1. ~Returns(p)
      BY <2>1 DEF Returns, Idle
    <3>2. job[p].op = "delete" => job[p].pc # "save_deployment"
      BY DEF IInv, JobOK
    <3> QED BY <1>1, <2>1, <3>1, <3>2 DEF SerialInv, Saves, SavesDeployment
  <2>6. job'[p].pc \in Starting \ {"save_container"} => ctrs'[job'[p].cur] # None
    <3> SUFFICES ASSUME job'[p].pc \in Starting \ {"save_container"}
                 PROVE  ctrs'[job'[p].cur] # None
      OBVIOUS
    <3>1. job[p].pc \in Starting /\ job'[p].cur = job[p].cur
      BY <1>5 DEF GoesOn, Starting
    <3>2. job[p].pc # "save_container" => ctrs[job[p].cur] # None
      BY <3>1 DEF SerialInv
    <3>3. job[p].obj \in Container
      BY <3>1, StartFacts
    <3> QED BY <1>1, <3>1, <3>2, <3>3 DEF Saves, SavesContainer, Starting
  <2>7. job'[p].pc \in Removing => InHand(p)' \subseteq CtrsOf(d)'
    BY <1>5, StillThere
  <2>8. \A q \in Process : job'[q].op = "create" =>
          /\ Cardinality(RunningOf(job[q].dep)') + job'[q].left = job'[q].mem.replicas
          /\ job'[q].dep = job[q].dep
          /\ deps'[job'[q].dep] = [job'[q].mem EXCEPT !.status = "pending"]
    BY <1>2, <2>1, <2>2
  <2>9. \A q \in Process : job'[q].pc \in Removing
          => InHand(q)' \subseteq CtrsOf(d)' /\ job'[q].dep = d
    BY <1>2, <2>1, <2>7 DEF Removing, Handling
  <2>10. \A q \in Process :
           /\ job'[q].pc # "save_deployment"
           /\ job'[q].pc \in {"count", "save_status"} => job'[q].left = 0
           /\ job'[q].pc = "save_status" => job'[q].mem.status = "running"
           /\ job'[q].op = "delete" => deps'[job'[q].dep] # None
           /\ job'[q].pc \in Starting \ {"save_container"} => ctrs'[job'[q].cur] # None
    BY <1>2, <2>1, <2>3, <2>4, <2>5, <2>6 DEF Starting
  <2> QED BY <1>3, <2>8, <2>9, <2>10 DEF SerialInv, Removing, RunningOf, CtrsOf, InHand
<1> QED BY <1>1, <1>4, <1>5 DEF Moves

\* An operation begins with nothing listed, nothing started and nobody beside it.
LEMMA BeginSerial ==
  ASSUME OneRequest, IInv, CountInv, SerialInv, NEW p \in Process, Ready(p),
         NEW j \in Job, Become(p, j), UNCHANGED ctrs,
         j.pc \in {"save_deployment", "list", "count_running"},
         j.pc = "save_deployment" => j.mem.replicas \in 1 .. MaxReplicas,
         j.op = "create" => /\ j.pc = "save_deployment"
                            /\ Cardinality(RunningOf(j.dep)) + j.left = j.mem.replicas,
         j.op = "delete" => deps'[j.dep] # None,
         \A e \in DepId : deps[e] # None => deps'[e] # None
  PROVE  SerialInv'
<1>1. job'[p] = j /\ \A q \in Process : q # p => job'[q] = job[q]
  BY BecomeFrame DEF IInv, TypeOK
<1>2. \A q \in Process : q # p => job'[q].pc = "idle" /\ job'[q].op = "none"
  BY <1>1, NobodyAtWork DEF CountInv, LockOK, Busy
<1>3. \A e \in DepId : deps'[e] = None => CtrsOf(e)' = {}
  BY DEF SerialInv, CtrsOf
<1>4. \A q \in Process : job'[q].op = "create" =>
        /\ job'[q].pc = "save_deployment"
        /\ Cardinality(RunningOf(job'[q].dep)) + job'[q].left = job'[q].mem.replicas
  BY <1>1, <1>2
<1>5. \A q \in Process : /\ job'[q].pc \in {"save_deployment", "list", "count_running", "idle"}
                         /\ job'[q].pc = "save_deployment"
                              => job'[q].mem.replicas \in 1 .. MaxReplicas
                         /\ job'[q].op = "delete" => deps'[job'[q].dep] # None
  BY <1>1, <1>2
<1>6. \A q \in Process : /\ job'[q].pc \notin {"count", "save_status", "stop"}
                         /\ job'[q].pc \notin Starting /\ job'[q].pc \notin Handling
  BY <1>5 DEF Starting, Handling
<1>7. \A q \in Process : (job[q].op = "create" =>
        /\ Cardinality(RunningOf(job[q].dep)) + job[q].left = job[q].mem.replicas
        /\ job[q].pc # "save_deployment"
             => deps[job[q].dep] = [job[q].mem EXCEPT !.status = "pending"])'
  BY <1>4 DEF RunningOf, CtrsOf
<1>8. \A q \in Process : (/\ job[q].pc \in {"count", "save_status"} => job[q].left = 0
                          /\ job[q].pc = "save_status" => job[q].mem.status = "running"
                          /\ job[q].op = "delete" => deps[job[q].dep] # None)'
  BY <1>5
<1>9. \A q \in Process :
        (/\ job[q].pc \in Starting \ {"save_container"} => ctrs[job[q].cur] # None
         /\ job[q].pc \in {"stop"} \cup Handling => InHand(q) \subseteq CtrsOf(job[q].dep))'
  BY <1>6
<1> QED BY <1>3, <1>5, <1>7, <1>8, <1>9 DEF SerialInv

\* A create begins with an ID under which nothing runs.
LEMMA BeginCreateSerial ==
  ASSUME OneRequest, IInv, CountInv, SerialInv,
         NEW p \in Process, NEW name \in Name, NEW r \in 1 .. MaxReplicas,
         NEW port \in Port, NEW place \in Placement, BeginCreate(p, name, r, port, place)
  PROVE  SerialInv'
<1> USE ConstantAssumption, NoneAssumption
<1>1. PICK d \in DepId \ born :
         Become(p, [Idle EXCEPT !.pc = "save_deployment", !.op = "create",
                      !.dep = d, !.left = r,
                      !.mem = [name |-> name, replicas |-> r, port |-> port,
                               place |-> place, status |-> "pending"]])
  BY DEF BeginCreate
<1> DEFINE rec == [name |-> name, replicas |-> r, port |-> port,
                   place |-> place, status |-> "pending"]
           j == [Idle EXCEPT !.pc = "save_deployment", !.op = "create",
                             !.dep = d, !.left = r, !.mem = rec]
<1>2. rec \in Deployment /\ rec.replicas = r
  BY DEF Deployment
<1>3. Become(p, j)
  BY <1>1
<1> HIDE DEF rec
<1>4. "save_deployment" \in Label /\ r \in Nat
  BY DEF Label
<1>5. /\ j \in Job /\ j.pc = "save_deployment" /\ j.op = "create" /\ j.dep = d
      /\ j.mem = rec /\ j.left = r
  BY <1>2, <1>4, IdleIsJob DEF Job, Idle
<1> HIDE DEF j
<1>6. UNCHANGED <<deps, ctrs>> /\ Ready(p) /\ deps[d] = None
  BY DEF BeginCreate, db, CountInv, BornOK
<1>7. RunningOf(d) = {}
  BY <1>6 DEF SerialInv, RunningOf
<1>8. Cardinality(RunningOf(d)) + r = r
  BY <1>4, <1>7, FS_EmptySet
<1> QED BY <1>2, <1>3, <1>5, <1>6, <1>8, BeginSerial

\* A delete and a scale begin with a record that is there.
LEMMA BeginOthersSerial ==
  ASSUME OneRequest, IInv, CountInv, SerialInv, NEW d \in DepId
  PROVE  /\ \A p \in Process : BeginDelete(p, d) => SerialInv'
         /\ \A r \in 0 .. MaxReplicas : BeginScale(d, r) => SerialInv'
<1> USE ConstantAssumption, NoneAssumption
<1>1. ASSUME NEW p \in Process, BeginDelete(p, d) PROVE SerialInv'
  <2> DEFINE j == [Idle EXCEPT !.pc = "list", !.op = "delete", !.dep = d]
  <2>1. Become(p, j) /\ Ready(p) /\ deps[d] # None /\ UNCHANGED <<deps, ctrs>>
    BY <1>1 DEF BeginDelete, db
  <2>2. "list" \in Label
    BY DEF Label
  <2>3. j \in Job /\ j.pc = "list" /\ j.op = "delete" /\ j.dep = d
    BY <2>2, IdleIsJob DEF Job, Idle
  <2> HIDE DEF j
  <2> QED BY <2>1, <2>3, BeginSerial
<1>2. ASSUME NEW r \in 0 .. MaxReplicas, BeginScale(d, r) PROVE SerialInv'
  <2> DEFINE rec == [deps[d] EXCEPT !.replicas = r, !.status = "scaling"]
             j == [Idle EXCEPT !.pc = "count_running", !.op = "scale", !.dep = d, !.mem = rec]
  <2>1. /\ deps' = [deps EXCEPT ![d] = rec] /\ Become(Cli, j) /\ Cli \in Process
        /\ deps \in [DepId -> Deployment \cup {None}] /\ deps[d] # None
        /\ Ready(Cli) /\ UNCHANGED ctrs
    BY <1>2 DEF BeginScale, IInv, TypeOK, Process
  <2>2. "count_running" \in Label /\ r \in Nat
    BY DEF Label
  <2>3. rec \in Deployment
    BY <2>1, <2>2 DEF Deployment
  <2> HIDE DEF rec
  <2>4. j \in Job /\ j.pc = "count_running" /\ j.op = "scale"
    BY <2>2, <2>3, IdleIsJob DEF Job, Idle
  <2> HIDE DEF j
  <2>5. \A e \in DepId : deps[e] # None => deps'[e] # None
    BY <2>1, <2>3
  <2> QED BY <2>1, <2>4, <2>5, BeginSerial
<1> QED BY <1>1, <1>2

\* What leaves the records alone keeps SerialInv, and so does the death of a process.
LEMMA QuietSerial ==
  ASSUME SerialInv, UNCHANGED <<deps, ctrs>>, UNCHANGED job \/ \A p \in Process : job'[p] = Idle
  PROVE  SerialInv'
<1>1. \A d \in DepId : deps'[d] = None => CtrsOf(d)' = {}
  BY DEF SerialInv, CtrsOf
<1>2. CASE UNCHANGED job
  BY <1>1, <1>2 DEF SerialInv, InHand, CtrsOf, RunningOf
<1>3. CASE \A p \in Process : job'[p] = Idle
  <2>1. Idle.pc = "idle" /\ Idle.op = "none"
    BY DEF Idle
  <2> QED BY <1>1, <1>3, <2>1 DEF SerialInv, Starting, Handling
<1> QED BY <1>2, <1>3

\* One step per action of Next.
LEMMA NextSerial ==
  ASSUME OneRequest, IInv, CountInv, AloneInv, SerialInv, [Next]_vars
  PROVE  SerialInv'
<1>1. ASSUME NEW p \in Process, Ask(p) PROVE SerialInv'
  <2>1. ASSUME NEW n \in Node, NEW force \in BOOLEAN, ServerRemove(n, force)
        PROVE  SerialInv'
    BY <2>1, QuietSerial DEF ServerRemove
  <2> QED BY <1>1, <2>1, BeginCreateSerial, BeginOthersSerial DEF Ask
<1>2. ASSUME NEW p \in Process, Step(p) PROVE SerialInv'
  BY <1>2, StepSerial
<1>3. ASSUME NEW c \in Cid, Worker(c) PROVE SerialInv'
  BY <1>3, QuietSerial DEF Worker, WorkerCreate, WorkerStart, WorkerSave, db
<1>4. ASSUME NEW n \in Node, WorkerCrash(n) PROVE SerialInv'
  BY <1>4, QuietSerial DEF WorkerCrash, db
<1>5. CASE ServerStart \/ ServerStop \/ Crash
  BY <1>5, QuietSerial DEF ServerStart, ServerStop, Crash, db
<1>6. CASE UNCHANGED vars
  BY <1>6, QuietSerial DEF vars
<1> QED BY <1>1, <1>2, <1>3, <1>4, <1>5, <1>6 DEF Next

\* SerialInv holds of an empty database.
LEMMA InitSerial == Init => SerialInv
<1> SUFFICES ASSUME Init PROVE SerialInv
  OBVIOUS
<1>1. \A q \in Process : job[q].pc = "idle" /\ job[q].op = "none"
  BY DEF Init, Idle
<1>2. \A d \in DepId : CtrsOf(d) = {}
  BY DEF Init, CtrsOf, NoContainers
<1> QED BY <1>1, <1>2 DEF SerialInv, Starting, Handling

\* With one request at a time, what a create has still to bring up is exactly what
\* is missing, and nothing is left of a deployment whose record is gone, whoever
\* died in between.
THEOREM RecordsAgree ==
  ASSUME OneRequest
  PROVE  Spec => []SerialInv
<1>1. IInv /\ CountInv /\ AloneInv /\ SerialInv /\ [Next]_vars => SerialInv'
  BY NextSerial
<1> QED BY InvariantHolds, CountsHold, LooksStayTrue, InitSerial, <1>1, PTL DEF Spec

-----------------------------------------------------------------------------
(* The registry.                                                            *)

\* The registry counts as the manager does.
LEMMA SameCount == \A S : Registry!Cardinality(S) = Cardinality(S)
  BY DEF Registry!Cardinality, Cardinality

\* What the registry says of one deployment, before a step and after it.
LEMMA ViewAt ==
  ASSUME NEW d \in DepId
  PROVE  /\ deps[d] # None => /\ StatusView[d] = deps[d].status
                              /\ NameView[d] = deps[d].name
                              /\ WantView[d] = deps[d].replicas
         /\ deps[d] = None => /\ StatusView[d] \in {"unborn", "coming", "gone"}
                              /\ NameView[d] = None /\ WantView[d] = 0
         /\ HasView[d] = CtrsOf(d) /\ OnView[d] = RunningOf(d)
  BY DEF StatusView, NameView, WantView, HasView, OnView

\* A deployment is there when it has a record.
LEMMA ThereIs ==
  ASSUME IInv, NEW d \in DepId
  PROVE  Registry!There(d) <=> deps[d] # None
<1>1. deps[d] # None => deps[d] \in Deployment
  BY DEF IInv, TypeOK
<1> QED BY <1>1, ViewAt DEF Registry!There, Deployment

\* Only what changes of the one deployment worked on shows.
LEMMA OnlyOne ==
  ASSUME NEW d \in DepId, UNCHANGED born,
         \A e \in DepId : e # d => /\ deps'[e] = deps[e]
                                   /\ CtrsOf(e)' = CtrsOf(e) /\ RunningOf(e)' = RunningOf(e)
                                   /\ Creates(e)' <=> Creates(e)
  PROVE  /\ \A s : (StatusView[d] = s)' => StatusView' = [StatusView EXCEPT ![d] = s]
         /\ \A n : (NameView[d] = n)' => NameView' = [NameView EXCEPT ![d] = n]
         /\ \A r : (WantView[d] = r)' => WantView' = [WantView EXCEPT ![d] = r]
         /\ \A S : CtrsOf(d)' = S => HasView' = [HasView EXCEPT ![d] = S]
         /\ \A S : RunningOf(d)' = S => OnView' = [OnView EXCEPT ![d] = S]
<1>1. \A e \in DepId : e # d => (StatusView[e])' = StatusView[e]
  BY DEF StatusView
<1>2. \A s : (StatusView[d] = s)' => StatusView' = [StatusView EXCEPT ![d] = s]
  BY <1>1 DEF StatusView
<1>3. \A n : (NameView[d] = n)' => NameView' = [NameView EXCEPT ![d] = n]
  BY DEF NameView
<1>4. \A r : (WantView[d] = r)' => WantView' = [WantView EXCEPT ![d] = r]
  BY DEF WantView
<1>5. \A S : CtrsOf(d)' = S => HasView' = [HasView EXCEPT ![d] = S]
  BY DEF HasView
<1>6. \A S : RunningOf(d)' = S => OnView' = [OnView EXCEPT ![d] = S]
  BY DEF OnView
<1> QED BY <1>2, <1>3, <1>4, <1>5, <1>6

\* Whoever is at work alone is the only one who can be creating or deleting.
LEMMA AtWorkAlone ==
  ASSUME OneRequest, IInv, CountInv, NEW p \in Process, Busy(p), NEW d \in DepId, d = job[p].dep
  PROVE  /\ DoomedView = IF job[p].op = "delete" THEN {d} ELSE {}
         /\ \A e \in DepId : Creates(e) <=> e = d /\ job[p].pc = "save_deployment"
<1>1. \A q \in Process : q # p => job[q].pc = "idle" /\ job[q].op = "none"
  BY OneAtWork DEF CountInv, LockOK, Busy
<1> QED BY <1>1 DEF DoomedView, Creates, At

\* What a step of an operation shows of its deployment; nothing else shows.
LEMMA StepShows ==
  ASSUME OneRequest, IInv, CountInv, AloneInv, SerialInv, NEW p \in Process, Step(p),
         NEW d, d = job[p].dep
  PROVE  /\ d \in DepId
         /\ DoomedView = IF job[p].op = "delete" THEN {d} ELSE {}
         /\ DoomedView' \in {{}, DoomedView}
         /\ GoesOn(p) => DoomedView' = DoomedView
         /\ Returns(p) => DoomedView' = {}
         /\ StatusView[d] = IF deps[d] # None THEN deps[d].status ELSE "coming"
         /\ StatusView' = [StatusView EXCEPT ![d] =
                             IF deps'[d] # None THEN deps'[d].status ELSE "gone"]
         /\ NameView' = [NameView EXCEPT ![d] = IF deps'[d] # None THEN deps'[d].name ELSE None]
         /\ WantView' = [WantView EXCEPT ![d] = IF deps'[d] # None THEN deps'[d].replicas ELSE 0]
         /\ HasView' = [HasView EXCEPT ![d] = CtrsOf(d)']
         /\ OnView' = [OnView EXCEPT ![d] = RunningOf(d)']
<1>1. Moves(p) /\ Saves(p) /\ Busy(p) /\ d \in DepId /\ d \in born /\ born' = born
  BY StepMoves, StepSaves DEF Moves, Busy, Saves, IInv, JobOK, CountInv, BornOK
<1>2. /\ DoomedView = IF job[p].op = "delete" THEN {d} ELSE {}
      /\ \A e \in DepId : Creates(e) <=> e = d /\ job[p].pc = "save_deployment"
  BY <1>1, AtWorkAlone
<1>3. /\ \A q \in Process : q # p => job'[q].pc = "idle" /\ job'[q].op = "none"
      /\ job'[p].pc # "save_deployment"
      /\ GoesOn(p) => job'[p].op = job[p].op /\ job'[p].dep = d
      /\ Returns(p) => job'[p].op = "none"
  <2>1. Idle.pc = "idle" /\ Idle.op = "none"
    BY DEF Idle
  <2> QED BY <1>1, <2>1, OneAtWork DEF Moves, Returns, GoesOn, CountInv, LockOK, Busy
<1>4. \A e \in DepId : ~Creates(e)'
  BY <1>3 DEF Creates, At
<1>5. /\ GoesOn(p) => DoomedView' = DoomedView
      /\ Returns(p) => DoomedView' = {}
  BY <1>1, <1>2, <1>3 DEF DoomedView
<1>6. StatusView[d] = IF deps[d] # None THEN deps[d].status ELSE "coming"
  <2>1. deps[d] = None => Creates(d)
    BY <1>1, <1>2, OwnThere
  <2> QED BY <1>1, <2>1 DEF StatusView
<1>7. \A e \in DepId : e # d => /\ deps'[e] = deps[e]
                                /\ CtrsOf(e)' = CtrsOf(e) /\ RunningOf(e)' = RunningOf(e)
                                /\ Creates(e)' <=> Creates(e)
  BY <1>1, <1>2, <1>4, OtherRunning DEF Saves, SavesDeployment, CountInv
<1>8. /\ (StatusView[d] = IF deps[d] # None THEN deps[d].status ELSE "gone")'
      /\ (NameView[d] = IF deps[d] # None THEN deps[d].name ELSE None)'
      /\ (WantView[d] = IF deps[d] # None THEN deps[d].replicas ELSE 0)'
  BY <1>1, <1>4 DEF StatusView, NameView, WantView
<1>9. DoomedView' \in {{}, DoomedView}
  BY <1>1, <1>5 DEF Moves
<1>10. StatusView' = [StatusView EXCEPT ![d] =
                        IF deps'[d] # None THEN deps'[d].status ELSE "gone"]
  BY <1>1, <1>7, <1>8, OnlyOne
<1>11. /\ NameView' = [NameView EXCEPT ![d] = IF deps'[d] # None THEN deps'[d].name ELSE None]
       /\ WantView' = [WantView EXCEPT ![d] = IF deps'[d] # None THEN deps'[d].replicas ELSE 0]
  BY <1>1, <1>7, <1>8, OnlyOne
<1>12. /\ HasView' = [HasView EXCEPT ![d] = CtrsOf(d)']
       /\ OnView' = [OnView EXCEPT ![d] = RunningOf(d)']
  BY <1>1, <1>7, OnlyOne
<1> QED BY <1>1, <1>2, <1>5, <1>6, <1>9, <1>10, <1>11, <1>12

\* A step that leaves the deployment's records as they are shows at most that the
\* deployment is not deleted any more.
LEMMA ShowsNothing ==
  ASSUME OneRequest, IInv, CountInv, AloneInv, SerialInv, NEW p \in Process, Step(p),
         NEW d, d = job[p].dep, deps' = deps,
         CtrsOf(d)' = CtrsOf(d), RunningOf(d)' = RunningOf(d)
  PROVE  [Registry!RegistryNext]_(Registry!registryVars)
<1>1. d \in DepId /\ DoomedView = (IF job[p].op = "delete" THEN {d} ELSE {})
                  /\ DoomedView' \in {{}, DoomedView}
  BY StepShows
<1>2. deps[d] # None
  <2>1. Saves(p)
    BY StepSaves
  <2>2. job[p].pc = "save_deployment" => job[p].mem \in Deployment /\ deps[d] = None
    BY DEF IInv, JobOK, AloneInv
  <2> QED BY <1>1, <2>1, <2>2, OwnThere, NoneAssumption DEF Saves, SavesDeployment
<1>3. UNCHANGED <<StatusView, NameView, WantView, HasView, OnView>>
  <2>1. /\ StatusView' = [StatusView EXCEPT ![d] = deps[d].status]
        /\ NameView' = [NameView EXCEPT ![d] = deps[d].name]
        /\ WantView' = [WantView EXCEPT ![d] = deps[d].replicas]
        /\ HasView' = [HasView EXCEPT ![d] = CtrsOf(d)]
        /\ OnView' = [OnView EXCEPT ![d] = RunningOf(d)]
    BY <1>2, StepShows
  <2>2. /\ StatusView[d] = deps[d].status /\ NameView[d] = deps[d].name
        /\ WantView[d] = deps[d].replicas
        /\ HasView[d] = CtrsOf(d) /\ OnView[d] = RunningOf(d)
    BY <1>1, <1>2, ViewAt
  <2>3. UNCHANGED StatusView
    BY <2>1, <2>2 DEF StatusView
  <2>4. UNCHANGED NameView
    BY <2>1, <2>2 DEF NameView
  <2>5. UNCHANGED WantView
    BY <2>1, <2>2 DEF WantView
  <2>6. UNCHANGED HasView
    BY <2>1, <2>2 DEF HasView
  <2>7. UNCHANGED OnView
    BY <2>1, <2>2 DEF OnView
  <2> QED BY <2>3, <2>4, <2>5, <2>6, <2>7
<1>4. CASE DoomedView' = DoomedView
  BY <1>3, <1>4 DEF Registry!registryVars, Registry!records, Registry!containers
<1>5. CASE DoomedView' # DoomedView
  <2>1. DoomedView' = DoomedView \ {d}
    BY <1>1, <1>5
  <2>2. Registry!Spare(d)
    BY <1>3, <2>1 DEF Registry!Spare, Registry!records, Registry!containers
  <2> QED BY <1>1, <2>2 DEF Registry!RegistryNext, Registry!RegistryStep
<1> QED BY <1>4, <1>5

\* What is the same in the records is the same in the registry.
LEMMA SameViews ==
  ASSUME NEW d \in DepId
  PROVE  /\ [HasView EXCEPT ![d] = CtrsOf(d)] = HasView
         /\ [OnView EXCEPT ![d] = RunningOf(d)] = OnView
         /\ deps[d] # None => /\ [StatusView EXCEPT ![d] = deps[d].status] = StatusView
                              /\ [NameView EXCEPT ![d] = deps[d].name] = NameView
                              /\ [WantView EXCEPT ![d] = deps[d].replicas] = WantView
<1>1. [HasView EXCEPT ![d] = CtrsOf(d)] = HasView
  BY DEF HasView
<1>2. [OnView EXCEPT ![d] = RunningOf(d)] = OnView
  BY DEF OnView
<1>3. deps[d] # None => [StatusView EXCEPT ![d] = deps[d].status] = StatusView
  BY DEF StatusView
<1>4. deps[d] # None => [NameView EXCEPT ![d] = deps[d].name] = NameView
  BY DEF NameView
<1>5. deps[d] # None => [WantView EXCEPT ![d] = deps[d].replicas] = WantView
  BY DEF WantView
<1> QED BY <1>1, <1>2, <1>3, <1>4, <1>5

\* Saving a new deployment takes its name.
LEMMA ShowsCreate ==
  ASSUME OneRequest, IInv, CountInv, AloneInv, SerialInv, NEW p \in Process, Step(p),
         job[p].pc = "save_deployment", NEW d, d = job[p].dep
  PROVE  Registry!Create(d)
<1> USE NoneAssumption
<1> PICK r : r = job[p].mem.replicas
  OBVIOUS
<1> PICK n : n = job[p].mem.name
  OBVIOUS
<1>1. /\ d \in DepId /\ job[p].op = "create" /\ job[p].mem \in Deployment
      /\ deps[d] = None /\ job[p].mem.status = "pending" /\ r \in 1 .. MaxReplicas
      /\ \A e \in DepId : deps[e] # None => deps[e].name # n
  BY StepShows DEF IInv, JobOK, AloneInv, SerialInv, CountInv, ScopeOK
<1>2. n \in Name
  BY <1>1 DEF Deployment
<1>3. deps'[d] = job[p].mem /\ deps'[d] # None
  BY <1>1, StepSaves DEF Saves, SavesDeployment
<1>4. /\ StatusView[d] = "coming" /\ StatusView' = [StatusView EXCEPT ![d] = "pending"]
      /\ NameView' = [NameView EXCEPT ![d] = n] /\ WantView' = [WantView EXCEPT ![d] = r]
  BY <1>1, <1>3, StepShows
<1>5. HasView' = HasView /\ OnView' = OnView
  <2>1. CtrsOf(d)' = CtrsOf(d) /\ RunningOf(d)' = RunningOf(d)
    BY StepSaves, OwnContainers, OwnRunning DEF CountInv
  <2> QED BY <1>1, <2>1, StepShows, SameViews
<1>6. DoomedView' = DoomedView
  BY <1>1, StepShows
<1>7. \A e \in DepId : Registry!There(e) => NameView[e] # n
  BY <1>1, ThereIs, ViewAt
<1> QED BY <1>1, <1>2, <1>4, <1>5, <1>6, <1>7
        DEF Registry!Create, Registry!Says, Registry!containers

\* The end of a create or of a scale is reported.
LEMMA ShowsReport ==
  ASSUME OneRequest, IInv, CountInv, AloneInv, SerialInv, NEW p \in Process, Step(p),
         job[p].op \in {"create", "scale"}, job[p].pc # "save_deployment",
         NEW d, d = job[p].dep, deps' # deps
  PROVE  Registry!Report(d)
<1> USE NoneAssumption
<1>1. /\ d \in DepId /\ job[p].mem \in Deployment /\ deps[d] # None /\ deps'[d] # None
      /\ Saves(p)
  BY StepShows, OwnThere, StepSaves DEF IInv, JobOK
<1>2. /\ DoomedView' = DoomedView /\ d \notin DoomedView
      /\ StatusView[d] = deps[d].status /\ StatusView' = [StatusView EXCEPT ![d] = deps'[d].status]
      /\ NameView' = [NameView EXCEPT ![d] = deps'[d].name]
      /\ WantView' = [WantView EXCEPT ![d] = deps'[d].replicas]
  BY <1>1, StepShows
<1>3. job[p].pc \in {"fail", "save_status", "schedule", "stop"}
  BY <1>1 DEF Saves, SavesDeployment
<1>4. CtrsOf(d)' = CtrsOf(d) /\ RunningOf(d)' = RunningOf(d)
  BY <1>1, <1>3, OwnContainers, OwnRunning DEF CountInv
<1>5. HasView' = HasView /\ OnView' = OnView
  BY <1>1, <1>4, StepShows, SameViews
<1>6. deps'[d].name = deps[d].name /\ deps'[d].replicas = deps[d].replicas
  <2>1. CASE job[p].op = "create"
    <3>1. deps[d] = [job[p].mem EXCEPT !.status = "pending"]
      BY <2>1 DEF SerialInv
    <3>2. deps[d].name = job[p].mem.name /\ deps[d].replicas = job[p].mem.replicas
      BY <1>1, <3>1 DEF Deployment
    <3> QED BY <1>1, <2>1, <3>2 DEF Saves, SavesDeployment, Deployment
  <2>2. CASE job[p].op = "scale"
    <3>1. deps[d] = job[p].mem
      BY <2>2 DEF CountInv, ScaleOK, Scaling
    <3> QED BY <1>1, <2>2, <3>1 DEF Saves, SavesDeployment, Deployment
  <2> QED BY <2>1, <2>2
<1>7. NameView' = NameView /\ WantView' = WantView
  BY <1>1, <1>2, <1>6, SameViews
<1>8. \/ Registry!Complete(d) /\ deps[d].status \in {"pending", "scaling"}
                              /\ deps'[d].status = "running"
      \/ deps[d].status = "pending" /\ deps'[d].status = "failed"
  <2>1. CASE job[p].op = "create"
    <3>1. /\ deps[d] = [job[p].mem EXCEPT !.status = "pending"]
          /\ Cardinality(RunningOf(d)) + job[p].left = job[p].mem.replicas
          /\ job[p].pc = "save_status" => job[p].left = 0 /\ job[p].mem.status = "running"
      BY <2>1 DEF SerialInv
    <3>2. deps[d].status = "pending" /\ deps[d].replicas = job[p].mem.replicas
      BY <1>1, <3>1 DEF Deployment
    <3>3. CASE job[p].pc = "save_status"
      <4>1. deps'[d].status = "running"
        BY <1>1, <2>1, <3>1, <3>3 DEF Saves, SavesDeployment
      <4>2. Cardinality(RunningOf(d)) \in Nat
        <5>1. RunningOf(d) \in SUBSET Cid
          BY DEF RunningOf, CtrsOf
        <5> QED BY <5>1, Countable
      <4>3. Cardinality(RunningOf(d)) = deps[d].replicas
        BY <3>1, <3>2, <3>3, <4>2
      <4>4. Registry!Complete(d)
        BY <1>1, <4>3, ViewAt, SameCount DEF Registry!Complete
      <4> QED BY <3>2, <4>1, <4>4
    <3>4. CASE job[p].pc # "save_status"
      <4>1. deps'[d] = [job[p].mem EXCEPT !.status = "failed"]
        BY <1>1, <2>1, <3>4 DEF Saves, SavesDeployment
      <4>2. deps'[d].status = "failed"
        BY <1>1, <4>1 DEF Deployment
      <4> QED BY <3>2, <4>2
    <3> QED BY <3>3, <3>4
  <2>2. CASE job[p].op = "scale"
    <3>1. deps[d].status = "scaling"
      BY <2>2 DEF CountInv, ScaleOK, Scaling
    <3>2. deps'[d] = [job[p].mem EXCEPT !.status = "running"] /\ deps'[d] # deps[d]
      BY <1>1, <2>2, <3>1 DEF Saves, SavesDeployment, Deployment
    <3>3. deps'[d].status = "running"
      BY <1>1, <3>2 DEF Deployment
    <3>4. Cardinality(RunningOf(d)') = deps'[d].replicas
      BY <2>2, <3>2, ScaleEnds
    <3>5. Registry!Complete(d)
      BY <1>1, <1>4, <1>6, <3>4, ViewAt, SameCount DEF Registry!Complete
    <3> QED BY <3>1, <3>3, <3>5
  <2> QED BY <2>1, <2>2
<1> QED BY <1>2, <1>5, <1>7, <1>8 DEF Registry!Report, Registry!Says, Registry!containers

\* Dropping the record at the end of a delete leaves nothing of the deployment.
LEMMA ShowsDelete ==
  ASSUME OneRequest, IInv, CountInv, AloneInv, SerialInv, NEW p \in Process, Step(p),
         job[p].op = "delete", NEW d, d = job[p].dep, deps' # deps
  PROVE  Registry!Delete(d)
<1> USE NoneAssumption
<1>1. Saves(p) /\ d \in DepId /\ job[p].pc # "save_deployment"
  BY StepShows, StepSaves DEF IInv, JobOK
<1>2. deps'[d] = None /\ Returns(p) /\ job[p].pc = "stop"
  BY <1>1 DEF Saves, SavesDeployment
<1>3. InHand(p) = {} /\ deps[d] # None
  BY <1>1, <1>2, OwnThere
<1>4. CtrsOf(d) = {}
  BY <1>2, <1>3 DEF AloneInv
<1>5. CtrsOf(d)' = CtrsOf(d) /\ RunningOf(d)' = RunningOf(d)
  BY <1>1, <1>2, OwnContainers, OwnRunning DEF CountInv
<1>6. /\ StatusView' = [StatusView EXCEPT ![d] = "gone"]
      /\ NameView' = [NameView EXCEPT ![d] = None] /\ WantView' = [WantView EXCEPT ![d] = 0]
      /\ d \in DoomedView /\ DoomedView' = DoomedView \ {d}
  BY <1>2, StepShows
<1>7. HasView' = HasView /\ OnView' = OnView
  BY <1>1, <1>5, StepShows, SameViews
<1>8. Registry!There(d) /\ HasView[d] = {}
  BY <1>1, <1>3, <1>4, ThereIs, ViewAt
<1> QED BY <1>6, <1>7, <1>8 DEF Registry!Delete, Registry!containers

\* A container's record is made.
LEMMA ShowsAdd ==
  ASSUME OneRequest, IInv, CountInv, AloneInv, SerialInv, NEW p \in Process, Step(p),
         job[p].pc = "save_container", NEW d, d = job[p].dep
  PROVE  Registry!Add(d)
<1> PICK c : c = job[p].cur
  OBVIOUS
<1>1. Saves(p) /\ d \in DepId /\ job[p].op \in {"create", "scale"} /\ c \in Cid
  BY StepShows, StepSaves DEF IInv, JobOK, Starting
<1>2. deps' = deps /\ deps[d] # None
  BY <1>1, OwnThere DEF Saves, SavesDeployment
<1>3. CtrsOf(d)' = CtrsOf(d) \cup {c} /\ RunningOf(d)' = RunningOf(d)
  BY <1>1, OwnContainers, OwnRunning DEF CountInv
<1>4. UNCHANGED <<StatusView, NameView, WantView, OnView>>
  BY <1>1, <1>2, <1>3, StepShows, SameViews
<1>5. HasView' = [HasView EXCEPT ![d] = HasView[d] \cup {c}]
  BY <1>1, <1>3, StepShows, ViewAt
<1>6. DoomedView' = DoomedView /\ d \notin DoomedView
  BY <1>1, StepShows
<1>7. Registry!There(d)
  BY <1>1, <1>2, ThereIs
<1> QED BY <1>1, <1>4, <1>5, <1>6, <1>7 DEF Registry!Add, Registry!records

\* It says "running" as long as one is missing.
LEMMA ShowsRun ==
  ASSUME OneRequest, IInv, CountInv, AloneInv, SerialInv, NEW p \in Process, Step(p),
         job[p].pc = "save_running", NEW d, d = job[p].dep
  PROVE  Registry!Run(d)
<1> PICK c : c = job[p].cur
  OBVIOUS
<1>1. /\ Saves(p) /\ d \in DepId /\ job[p].op \in {"create", "scale"} /\ c \in Cid
      /\ job[p].left > 0 /\ job[p].left \in Nat /\ job[p].mem \in Deployment
  BY StepShows, StepSaves DEF IInv, JobOK, Starting, TypeOK, Job
<1>2. deps' = deps /\ deps[d] # None
  BY <1>1, OwnThere DEF Saves, SavesDeployment
<1>3. CtrsOf(d)' = CtrsOf(d) /\ RunningOf(d)' = RunningOf(d) \cup {c}
  BY <1>1, OwnContainers, OwnRunning DEF CountInv
<1>4. UNCHANGED <<StatusView, NameView, WantView, HasView>>
  BY <1>1, <1>2, <1>3, StepShows, SameViews
<1>5. OnView' = [OnView EXCEPT ![d] = OnView[d] \cup {c}]
  BY <1>1, <1>3, StepShows, ViewAt
<1>6. DoomedView' = DoomedView /\ d \notin DoomedView
  BY <1>1, StepShows
<1>7. Registry!There(d)
  BY <1>1, <1>2, ThereIs
<1>8. c \in HasView[d]
  <2>1. ctrs[c] # None /\ Owner(c) = d
    BY OwnContainer DEF SerialInv, Starting, CountInv
  <2> QED BY <1>1, <2>1, ViewAt DEF CtrsOf
<1>9. Cardinality(OnView[d]) < WantView[d]
  <2>1. /\ Cardinality(RunningOf(d)) + job[p].left = job[p].mem.replicas
        /\ deps[d].replicas = job[p].mem.replicas
    <3>1. CASE job[p].op = "create"
      <4>1. /\ Cardinality(RunningOf(d)) + job[p].left = job[p].mem.replicas
            /\ deps[d] = [job[p].mem EXCEPT !.status = "pending"]
        BY <3>1 DEF SerialInv
      <4> QED BY <1>1, <4>1 DEF Deployment
    <3>2. CASE job[p].op = "scale"
      BY <3>2 DEF CountInv, ScaleOK, Scaling, Starting
    <3> QED BY <1>1, <3>1, <3>2
  <2>2. Cardinality(RunningOf(d)) \in Nat
    <3>1. RunningOf(d) \in SUBSET Cid
      BY DEF RunningOf, CtrsOf
    <3> QED BY <3>1, Countable
  <2>3. Cardinality(RunningOf(d)) < deps[d].replicas
    BY <1>1, <2>1, <2>2
  <2> QED BY <1>1, <1>2, <2>3, ViewAt
<1> QED BY <1>4, <1>5, <1>6, <1>7, <1>8, <1>9, SameCount DEF Registry!Run, Registry!records

\* A container goes that is being deleted, or that a scale has too many.
LEMMA ShowsRemove ==
  ASSUME OneRequest, IInv, CountInv, AloneInv, SerialInv, NEW p \in Process, Step(p),
         job[p].pc \in {"save_stopped", "delete_record"}, NEW d, d = job[p].dep
  PROVE  Registry!Remove(d)
<1> PICK c : c = job[p].cur
  OBVIOUS
<1>1. /\ Saves(p) /\ Moves(p) /\ d \in DepId /\ job[p].op \in {"delete", "scale"} /\ c \in Cid
      /\ c \in InHand(p)
  BY StepShows, StepSaves, StepMoves, OwnContainer DEF IInv, JobOK, Handling, CountInv
<1>2. GoesOn(p)
  <2>1. Idle.pc = "idle"
    BY DEF Idle
  <2>2. CASE job[p].pc = "save_stopped"
    <3>1. Goto(p, "delete_record")
      BY <2>2, StepAt DEF SaveStopped
    <3>2. job'[p].pc = "delete_record"
      BY <3>1, GotoFrame DEF IInv, TypeOK, Label
    <3> QED BY <1>1, <2>1, <3>2 DEF Moves, Returns
  <2>3. CASE job[p].pc = "delete_record"
    <3>1. job'[p].pc = "stop"
      BY <2>3, StepAt, DeleteRecordMoves
    <3> QED BY <1>1, <2>1, <3>1 DEF Moves, Returns
  <2> QED BY <2>2, <2>3
<1>3. deps' = deps /\ deps[d] # None
  BY <1>1, OwnThere DEF Saves, SavesDeployment
<1>4. /\ CtrsOf(d)' \in {CtrsOf(d), CtrsOf(d) \ {c}}
      /\ RunningOf(d)' = RunningOf(d) \ {c}
  BY <1>1, OwnContainers, OwnRunning DEF CountInv
<1>5. UNCHANGED <<StatusView, NameView, WantView>>
  BY <1>1, <1>3, StepShows, SameViews
<1>6. OnView' = [OnView EXCEPT ![d] = OnView[d] \ {c}]
  BY <1>1, <1>4, StepShows, ViewAt
<1>7. HasView' \in {HasView, [HasView EXCEPT ![d] = HasView[d] \ {c}]}
  BY <1>1, <1>4, StepShows, SameViews, ViewAt
<1>8. DoomedView' = DoomedView
  BY <1>2, StepShows
<1>9. c \in HasView[d]
  <2>1. InHand(p) \subseteq CtrsOf(d)
    BY DEF SerialInv, Handling
  <2> QED BY <1>1, <2>1, ViewAt
<1>10. Registry!MayGo(d, c)
  <2>1. CASE job[p].op = "delete"
    BY <2>1, StepShows DEF Registry!MayGo
  <2>2. CASE job[p].op = "scale"
    <3>1. /\ deps[d] = job[p].mem /\ job[p].mem.status = "scaling"
          /\ Cardinality(RunningOf(d) \ InHand(p)) = job[p].mem.replicas
      BY <2>2 DEF CountInv, ScaleOK, Scaling, Handling
    <3>2. StatusView[d] = "scaling" /\ WantView[d] = job[p].mem.replicas
      BY <1>1, <1>3, <3>1, ViewAt
    <3>3. ASSUME c \in RunningOf(d)
          PROVE  Cardinality(RunningOf(d)) > job[p].mem.replicas
      <4> PICK R : R = RunningOf(d)
        OBVIOUS
      <4>1. /\ R \in SUBSET Cid /\ R \ {c} \in SUBSET Cid /\ R \ InHand(p) \in SUBSET Cid
            /\ R \ InHand(p) \subseteq R \ {c} /\ c \in R
        BY <1>1, <3>3 DEF RunningOf, CtrsOf
      <4>2. /\ IsFiniteSet(R) /\ IsFiniteSet(R \ {c}) /\ IsFiniteSet(R \ InHand(p))
            /\ Cardinality(R) \in Nat /\ Cardinality(R \ {c}) \in Nat
            /\ Cardinality(R \ InHand(p)) \in Nat
        BY <4>1, Countable
      <4>3. Cardinality(R \ {c}) = Cardinality(R) - 1
        BY <4>1, <4>2, FS_RemoveElement
      <4>4. Cardinality(R \ InHand(p)) <= Cardinality(R \ {c})
        BY <4>1, <4>2, FS_Subset
      <4>5. Cardinality(R) > Cardinality(R \ InHand(p))
        BY ONLY <4>2, <4>3, <4>4
      <4> QED BY <3>1, <4>5
    <3> QED BY <1>1, <3>2, <3>3, ViewAt, SameCount DEF Registry!MayGo
  <2> QED BY <1>1, <2>1, <2>2
<1> QED BY <1>5, <1>6, <1>7, <1>8, <1>9, <1>10 DEF Registry!Remove, Registry!records

\* Every step of an operation is a step of the registry, or shows nothing.
LEMMA StepKeepsRegistry ==
  ASSUME OneRequest, IInv, CountInv, AloneInv, SerialInv, NEW p \in Process, Step(p)
  PROVE  [Registry!RegistryNext]_(Registry!registryVars)
<1> PICK d : d = job[p].dep
  OBVIOUS
<1>1. Saves(p) /\ Busy(p) /\ d \in DepId /\ job[p].op \in {"create", "scale", "delete"}
  BY StepMoves, StepSaves DEF Moves, Busy, IInv, JobOK, TypeOK, Job
<1>2. CASE \/ Registry!Create(d) \/ Registry!Report(d) \/ Registry!Delete(d)
           \/ Registry!Add(d) \/ Registry!Run(d) \/ Registry!Remove(d)
  BY <1>1, <1>2 DEF Registry!RegistryNext, Registry!RegistryStep
<1>3. CASE job[p].pc \in {"save_deployment", "save_container", "save_running",
                          "save_stopped", "delete_record"}
  BY <1>2, <1>3, ShowsCreate, ShowsAdd, ShowsRun, ShowsRemove
<1>4. CASE job[p].pc # "save_deployment" /\ deps' # deps
  BY <1>1, <1>2, <1>4, ShowsReport, ShowsDelete
<1>5. CASE /\ job[p].pc \notin {"save_deployment", "save_container", "save_running",
                                "save_stopped", "delete_record"}
           /\ deps' = deps
  <2>1. CtrsOf(d)' = CtrsOf(d) /\ RunningOf(d)' = RunningOf(d)
    BY <1>1, <1>5, OwnContainers, OwnRunning DEF CountInv
  <2> QED BY <1>5, <2>1, ShowsNothing
<1> QED BY <1>3, <1>4, <1>5

\* What changes nothing of the records and of who works on them does not show.
LEMMA QuietViews ==
  ASSUME UNCHANGED <<deps, ctrs, job, born>>
  PROVE  UNCHANGED Registry!registryVars
<1>1. \A d \in DepId : /\ (StatusView[d])' = StatusView[d]
                       /\ CtrsOf(d)' = CtrsOf(d) /\ RunningOf(d)' = RunningOf(d)
  BY DEF StatusView, Creates, At, CtrsOf, RunningOf
<1>2. StatusView' = StatusView
  BY <1>1 DEF StatusView
<1>3. NameView' = NameView /\ WantView' = WantView
  BY DEF NameView, WantView
<1>4. HasView' = HasView /\ OnView' = OnView
  BY <1>1 DEF HasView, OnView
<1>5. DoomedView' = DoomedView
  BY DEF DoomedView
<1> QED BY <1>2, <1>3, <1>4, <1>5 DEF Registry!registryVars, Registry!records, Registry!containers

\* With nobody at work nothing is being created or deleted.
LEMMA IdleViews ==
  ASSUME \A q \in Process : job[q].pc = "idle" /\ job[q].op = "none"
  PROVE  DoomedView = {} /\ \A d \in DepId : ~Creates(d)
  BY DEF DoomedView, Creates, At

\* What stays of the records when a process begins or dies stays in the registry.
LEMMA SameRecords ==
  ASSUME UNCHANGED <<deps, ctrs>>
  PROVE  UNCHANGED <<NameView, WantView, HasView, OnView>>
<1>1. \A d \in DepId : CtrsOf(d)' = CtrsOf(d) /\ RunningOf(d)' = RunningOf(d)
  BY DEF CtrsOf, RunningOf
<1>2. NameView' = NameView /\ WantView' = WantView
  BY DEF NameView, WantView
<1>3. HasView' = HasView /\ OnView' = OnView
  BY <1>1 DEF HasView, OnView
<1> QED BY <1>2, <1>3

\* A create draws its ID.
LEMMA BeginCreateShows ==
  ASSUME OneRequest, IInv, CountInv,
         NEW p \in Process, NEW name \in Name, NEW r \in 1 .. MaxReplicas,
         NEW port \in Port, NEW place \in Placement, BeginCreate(p, name, r, port, place)
  PROVE  Registry!RegistryNext
<1> USE ConstantAssumption
<1> DEFINE rec == [name |-> name, replicas |-> r, port |-> port,
                   place |-> place, status |-> "pending"]
           j(d) == [Idle EXCEPT !.pc = "save_deployment", !.op = "create",
                             !.dep = d, !.left = r, !.mem = rec]
<1>1. PICK d \in DepId \ born : born' = born \cup {d} /\ Become(p, j(d))
  BY DEF BeginCreate
<1>2. UNCHANGED <<deps, ctrs>> /\ deps[d] = None /\ Ready(p)
  BY DEF BeginCreate, db, CountInv, BornOK
<1>3. j(d).pc = "save_deployment" /\ j(d).op = "create" /\ j(d).dep = d
  BY DEF Idle
<1> HIDE DEF j
<1>4. job'[p] = j(d) /\ \A q \in Process : q # p => job'[q] = job[q]
  BY <1>1 DEF Become, IInv, TypeOK
<1>5. \A q \in Process : job[q].pc = "idle" /\ job[q].op = "none"
  BY <1>2, NobodyAtWork DEF CountInv, LockOK, Busy
<1>6. DoomedView = {} /\ \A e \in DepId : ~Creates(e)
  BY <1>5, IdleViews
<1>7. DoomedView' = {} /\ \A e \in DepId : Creates(e)' <=> e = d
  BY <1>3, <1>4, <1>5 DEF DoomedView, Creates, At
<1>8. StatusView[d] = "unborn" /\ StatusView' = [StatusView EXCEPT ![d] = "coming"]
  BY <1>1, <1>2, <1>6, <1>7 DEF StatusView
<1>9. Registry!Draw(d)
  BY <1>2, <1>6, <1>7, <1>8, SameRecords DEF Registry!Draw, Registry!Says, Registry!containers
<1> QED BY <1>9 DEF Registry!RegistryNext, Registry!RegistryStep

\* A delete dooms its deployment.
LEMMA BeginDeleteShows ==
  ASSUME OneRequest, IInv, CountInv, NEW p \in Process, NEW d \in DepId, BeginDelete(p, d)
  PROVE  Registry!RegistryNext
<1> DEFINE j == [Idle EXCEPT !.pc = "list", !.op = "delete", !.dep = d]
<1>1. Become(p, j) /\ UNCHANGED <<deps, ctrs, born>> /\ deps[d] # None /\ Ready(p)
  BY DEF BeginDelete, db, ids
<1>2. j.pc = "list" /\ j.op = "delete" /\ j.dep = d
  BY DEF Idle
<1> HIDE DEF j
<1>3. job'[p] = j /\ \A q \in Process : q # p => job'[q] = job[q]
  BY <1>1 DEF Become, IInv, TypeOK
<1>4. \A q \in Process : job[q].pc = "idle" /\ job[q].op = "none"
  BY <1>1, NobodyAtWork DEF CountInv, LockOK, Busy
<1>5. DoomedView = {} /\ \A e \in DepId : ~Creates(e)
  BY <1>4, IdleViews
<1>6. DoomedView' = {d} /\ \A e \in DepId : ~Creates(e)'
  BY <1>2, <1>3, <1>4 DEF DoomedView, Creates, At
<1>7. StatusView' = StatusView
  BY <1>1, <1>5, <1>6 DEF StatusView
<1>8. Registry!Doom(d)
  BY <1>1, <1>5, <1>6, <1>7, SameRecords, ThereIs
     DEF Registry!Doom, Registry!records, Registry!containers
<1> QED BY <1>8 DEF Registry!RegistryNext, Registry!RegistryStep

\* A scale says so, and what is wanted.
LEMMA BeginScaleShows ==
  ASSUME OneRequest, IInv, CountInv, NEW d \in DepId, NEW r \in 0 .. MaxReplicas,
         BeginScale(d, r)
  PROVE  Registry!RegistryNext
<1> USE ConstantAssumption, NoneAssumption
<1> DEFINE rec == [deps[d] EXCEPT !.replicas = r, !.status = "scaling"]
           j == [Idle EXCEPT !.pc = "count_running", !.op = "scale", !.dep = d, !.mem = rec]
<1>1. /\ deps' = [deps EXCEPT ![d] = rec] /\ Become(Cli, j) /\ Cli \in Process
      /\ deps \in [DepId -> Deployment \cup {None}] /\ deps[d] \in Deployment
      /\ Ready(Cli) /\ UNCHANGED <<ctrs, born>> /\ deps[d] # None
  BY DEF BeginScale, IInv, TypeOK, Process, ids
<1>2. r \in Nat
  OBVIOUS
<1>3. /\ rec \in Deployment /\ rec.status = "scaling" /\ rec.replicas = r
      /\ rec.name = deps[d].name
  BY <1>1, <1>2 DEF Deployment
<1> HIDE DEF rec
<1>4. j.pc = "count_running" /\ j.op = "scale"
  BY DEF Idle
<1> HIDE DEF j
<1>5. job'[Cli] = j /\ \A q \in Process : q # Cli => job'[q] = job[q]
  BY <1>1 DEF Become, IInv, TypeOK
<1>6. \A q \in Process : job[q].pc = "idle" /\ job[q].op = "none"
  BY <1>1, NobodyAtWork DEF CountInv, LockOK, Busy
<1>7. DoomedView = {} /\ \A e \in DepId : ~Creates(e)
  BY <1>6, IdleViews
<1>8. DoomedView' = {} /\ \A e \in DepId : ~Creates(e)'
  BY <1>4, <1>5, <1>6 DEF DoomedView, Creates, At
<1>9. /\ deps'[d] = rec /\ rec # None
      /\ \A e \in DepId : e # d => /\ deps'[e] = deps[e]
                                   /\ CtrsOf(e)' = CtrsOf(e) /\ RunningOf(e)' = RunningOf(e)
                                   /\ (Creates(e)' <=> Creates(e))
      /\ CtrsOf(d)' = CtrsOf(d) /\ RunningOf(d)' = RunningOf(d)
  BY <1>1, <1>3, <1>7, <1>8 DEF CtrsOf, RunningOf
<1>10. /\ (StatusView[d] = "scaling")' /\ (NameView[d] = deps[d].name)'
       /\ (WantView[d] = deps[d].replicas)'
  BY <1>3, <1>9 DEF StatusView, NameView, WantView
<1>11. /\ StatusView' = [StatusView EXCEPT ![d] = "scaling"]
       /\ NameView' = [NameView EXCEPT ![d] = deps'[d].name]
       /\ WantView' = [WantView EXCEPT ![d] = deps'[d].replicas]
       /\ HasView' = [HasView EXCEPT ![d] = CtrsOf(d)]
       /\ OnView' = [OnView EXCEPT ![d] = RunningOf(d)]
  BY <1>1, <1>9, <1>10, OnlyOne
<1>12. NameView' = NameView /\ HasView' = HasView /\ OnView' = OnView
  BY <1>1, <1>3, <1>9, <1>11, SameViews
<1>13. Registry!There(d)
  BY <1>1, ThereIs
<1>14. Registry!Scale(d)
  BY <1>3, <1>7, <1>8, <1>9, <1>11, <1>12, <1>13 DEF Registry!Scale, Registry!containers
<1> QED BY <1>14 DEF Registry!RegistryNext, Registry!RegistryStep

\* Whoever dies gives up the create or the delete he was at.
LEMMA CrashShows ==
  ASSUME OneRequest, IInv, CountInv, AloneInv, Crash
  PROVE  [Registry!RegistryNext]_(Registry!registryVars)
<1>1. PICK p \in Process : Busy(p)
  BY DEF Crash, Busy, At
<1> PICK d : d = job[p].dep
  OBVIOUS
<1>2. /\ d \in DepId /\ d \in born /\ UNCHANGED <<deps, ctrs, born>>
      /\ job[p].pc = "save_deployment" => job[p].op = "create" /\ deps[d] = None
  BY <1>1 DEF Busy, IInv, JobOK, AloneInv, CountInv, BornOK, Crash, db, ids
<1>3. /\ DoomedView = IF job[p].op = "delete" THEN {d} ELSE {}
      /\ \A e \in DepId : Creates(e) <=> e = d /\ job[p].pc = "save_deployment"
  BY <1>1, <1>2, AtWorkAlone
<1>4. DoomedView' = {} /\ \A e \in DepId : ~Creates(e)'
  <2>1. \A q \in Process : job'[q] = Idle
    BY DEF Crash
  <2>2. Idle.pc = "idle" /\ Idle.op = "none"
    BY DEF Idle
  <2> QED BY <2>1, <2>2 DEF DoomedView, Creates, At
<1>5. UNCHANGED <<NameView, WantView, HasView, OnView>>
  BY <1>2, SameRecords
<1>6. CASE job[p].pc = "save_deployment"
  <2>1. StatusView[d] = "coming" /\ StatusView' = [StatusView EXCEPT ![d] = "gone"]
    BY <1>2, <1>3, <1>4, <1>6 DEF StatusView
  <2>2. Registry!GiveUp(d)
    BY <1>2, <1>3, <1>4, <1>5, <1>6, <2>1
       DEF Registry!GiveUp, Registry!Says, Registry!containers
  <2> QED BY <1>2, <2>2 DEF Registry!RegistryNext, Registry!RegistryStep
<1>7. CASE job[p].pc # "save_deployment"
  <2>1. StatusView' = StatusView
    BY <1>2, <1>3, <1>4, <1>7 DEF StatusView
  <2>2. CASE DoomedView' = DoomedView
    BY <1>5, <2>1, <2>2 DEF Registry!registryVars, Registry!records, Registry!containers
  <2>3. CASE DoomedView' = DoomedView \ {d}
    <3>1. Registry!Spare(d)
      BY <1>5, <2>1, <2>3 DEF Registry!Spare, Registry!records, Registry!containers
    <3> QED BY <1>2, <3>1 DEF Registry!RegistryNext, Registry!RegistryStep
  <2> QED BY <1>3, <1>4, <2>2, <2>3
<1> QED BY <1>6, <1>7

\* Every step of the deployment manager is a step of the registry, or shows nothing.
LEMMA NextKeepsRegistry ==
  ASSUME OneRequest, IInv, CountInv, AloneInv, SerialInv, [Next]_vars
  PROVE  [Registry!RegistryNext]_(Registry!registryVars)
<1>1. ASSUME NEW p \in Process, Ask(p)
      PROVE  [Registry!RegistryNext]_(Registry!registryVars)
  <2>1. ASSUME NEW n \in Node, NEW force \in BOOLEAN, ServerRemove(n, force)
        PROVE  UNCHANGED Registry!registryVars
    BY <2>1, QuietViews DEF ServerRemove, ids
  <2> QED BY <1>1, <2>1, BeginCreateShows, BeginDeleteShows, BeginScaleShows DEF Ask
<1>2. ASSUME NEW p \in Process, Step(p)
      PROVE  [Registry!RegistryNext]_(Registry!registryVars)
  BY <1>2, StepKeepsRegistry
<1>3. ASSUME NEW c \in Cid, Worker(c) PROVE UNCHANGED Registry!registryVars
  BY <1>3, QuietViews DEF Worker, WorkerCreate, WorkerStart, WorkerSave, db, ids
<1>4. ASSUME NEW n \in Node, WorkerCrash(n) PROVE UNCHANGED Registry!registryVars
  BY <1>4, QuietViews DEF WorkerCrash, db, ids
<1>5. ServerStart \/ ServerStop \/ UNCHANGED vars => UNCHANGED Registry!registryVars
  BY QuietViews DEF ServerStart, ServerStop, vars, db, ids
<1> QED BY <1>1, <1>2, <1>3, <1>4, <1>5, CrashShows DEF Next

\* An empty database is an empty registry.
LEMMA InitRegistry == Init => Registry!RegistryInit
<1> SUFFICES ASSUME Init PROVE Registry!RegistryInit
  OBVIOUS
<1>1. \A q \in Process : job[q].pc = "idle" /\ job[q].op = "none"
  BY DEF Init, Idle
<1>2. \A d \in DepId : deps[d] = None /\ d \notin born /\ CtrsOf(d) = {} /\ RunningOf(d) = {}
  BY DEF Init, CtrsOf, RunningOf, NoContainers
<1>3. DoomedView = {}
  BY <1>1, IdleViews
<1>4. StatusView = [d \in DepId |-> "unborn"]
  BY <1>2 DEF StatusView
<1>5. NameView = [d \in DepId |-> None] /\ WantView = [d \in DepId |-> 0]
  BY <1>2 DEF NameView, WantView
<1>6. HasView = [d \in DepId |-> {}] /\ OnView = [d \in DepId |-> {}]
  BY <1>2 DEF HasView, OnView
<1> QED BY <1>3, <1>4, <1>5, <1>6 DEF Registry!RegistryInit

\* With one request at a time the deployment manager implements the registry:
\* looks and saves that are transactions of their own, deaths in between, lost
\* answers and removed nodes show in nothing that is recorded (CreateDeployment,
\* ScaleDeployment, DeleteDeployment).
THEOREM ManagerKeepsRegistry ==
  ASSUME OneRequest
  PROVE  Spec => KeepsRegistry
<1>1. IInv /\ CountInv /\ AloneInv /\ SerialInv /\ [Next]_vars
        => [Registry!RegistryNext]_(Registry!registryVars)
  BY NextKeepsRegistry
<1> QED BY InvariantHolds, CountsHold, LooksStayTrue, RecordsAgree, InitRegistry, <1>1, PTL
     DEF Spec, KeepsRegistry, Registry!RegistrySpec

\* A step of the registry changes one deployment, in one of these ways.
LEMMA RegistryKeepsTypes ==
  ASSUME Registry!RegistryTypeOK, [Registry!RegistryNext]_(Registry!registryVars)
  PROVE  Registry!RegistryTypeOK'
<1> USE ConstantAssumption
<1>1. ASSUME NEW d \in DepId, NEW s \in {"unborn", "coming", "pending", "running", "failed",
                                         "scaling", "gone"},
             StatusView' = [StatusView EXCEPT ![d] = s]
      PROVE  StatusView' \in [DepId -> {"unborn", "coming", "pending", "running", "failed",
                                        "scaling", "gone"}]
  BY <1>1 DEF Registry!RegistryTypeOK
<1>2. CASE UNCHANGED Registry!registryVars
  BY <1>2 DEF Registry!RegistryTypeOK, Registry!registryVars, Registry!records,
              Registry!containers
<1>3. ASSUME NEW d \in DepId,
             Registry!Draw(d) \/ Registry!GiveUp(d) \/ Registry!Report(d)
      PROVE  Registry!RegistryTypeOK'
  BY <1>1, <1>3 DEF Registry!RegistryTypeOK, Registry!Draw, Registry!GiveUp, Registry!Report,
     Registry!Says, Registry!containers
<1>4. ASSUME NEW d \in DepId, Registry!Create(d) PROVE Registry!RegistryTypeOK'
  <2>1. PICK n \in Name, r \in 1 .. MaxReplicas :
           NameView' = [NameView EXCEPT ![d] = n] /\ WantView' = [WantView EXCEPT ![d] = r]
    BY <1>4 DEF Registry!Create
  <2>2. StatusView' = [StatusView EXCEPT ![d] = "pending"]
        /\ HasView' = HasView /\ OnView' = OnView
    BY <1>4 DEF Registry!Create, Registry!Says, Registry!containers
  <2>3. NameView' \in [DepId -> Name \cup {None}]
    BY <2>1 DEF Registry!RegistryTypeOK
  <2>4. WantView' \in [DepId -> Nat]
    BY <2>1 DEF Registry!RegistryTypeOK
  <2> QED BY <1>1, <2>2, <2>3, <2>4 DEF Registry!RegistryTypeOK
<1>5. ASSUME NEW d \in DepId, Registry!Scale(d) PROVE Registry!RegistryTypeOK'
  <2>1. PICK r \in 0 .. MaxReplicas : WantView' = [WantView EXCEPT ![d] = r]
    BY <1>5 DEF Registry!Scale
  <2>2. /\ StatusView' = [StatusView EXCEPT ![d] = "scaling"]
        /\ NameView' = NameView /\ HasView' = HasView /\ OnView' = OnView
    BY <1>5 DEF Registry!Scale, Registry!containers
  <2>3. WantView' \in [DepId -> Nat]
    BY <2>1 DEF Registry!RegistryTypeOK
  <2> QED BY <1>1, <2>2, <2>3 DEF Registry!RegistryTypeOK
<1>6. ASSUME NEW d \in DepId, Registry!Add(d) \/ Registry!Run(d) \/ Registry!Remove(d)
      PROVE  Registry!RegistryTypeOK'
  <2>1. UNCHANGED <<StatusView, NameView, WantView>>
    BY <1>6 DEF Registry!Add, Registry!Run, Registry!Remove, Registry!records
  <2>2. OnView' \in [DepId -> SUBSET Cid]
    BY <1>6 DEF Registry!Add, Registry!Run, Registry!Remove, Registry!RegistryTypeOK
  <2>3. HasView' \in [DepId -> SUBSET Cid]
    <3>1. PICK c \in Cid : \/ HasView' = HasView
                           \/ HasView' = [HasView EXCEPT ![d] = HasView[d] \cup {c}]
                           \/ HasView' = [HasView EXCEPT ![d] = HasView[d] \ {c}]
      BY <1>6 DEF Registry!Add, Registry!Run, Registry!Remove,
                  Registry!RegistryTypeOK
    <3> QED BY <3>1 DEF Registry!RegistryTypeOK
  <2> QED BY <2>1, <2>2, <2>3 DEF Registry!RegistryTypeOK
<1>7. ASSUME NEW d \in DepId, Registry!Doom(d) \/ Registry!Spare(d)
      PROVE  Registry!RegistryTypeOK'
  BY <1>7 DEF Registry!RegistryTypeOK, Registry!Doom, Registry!Spare, Registry!records,
              Registry!containers
<1>8. ASSUME NEW d \in DepId, Registry!Delete(d) PROVE Registry!RegistryTypeOK'
  <2>1. /\ StatusView' = [StatusView EXCEPT ![d] = "gone"]
        /\ NameView' = [NameView EXCEPT ![d] = None] /\ WantView' = [WantView EXCEPT ![d] = 0]
        /\ HasView' = HasView /\ OnView' = OnView
    BY <1>8 DEF Registry!Delete, Registry!containers
  <2>2. NameView' \in [DepId -> Name \cup {None}]
    BY <2>1 DEF Registry!RegistryTypeOK
  <2>3. WantView' \in [DepId -> Nat]
    BY <2>1 DEF Registry!RegistryTypeOK
  <2> QED BY <1>1, <2>1, <2>2, <2>3 DEF Registry!RegistryTypeOK
<1> QED BY <1>2, <1>3, <1>4, <1>5, <1>6, <1>7, <1>8
        DEF Registry!RegistryNext, Registry!RegistryStep

\* The room in a deployment, after one container more says "running" or one less.
LEMMA OneMoreOrLess ==
  ASSUME NEW S \in SUBSET Cid, NEW c \in Cid
  PROVE  /\ Cardinality(S \cup {c}) <= Cardinality(S) + 1
         /\ Cardinality(S \ {c}) <= Cardinality(S)
         /\ c \in S => Cardinality(S \ {c}) = Cardinality(S) - 1
         /\ c \notin S => S \ {c} = S
<1>1. IsFiniteSet(S) /\ Cardinality(S) \in Nat
  BY Countable
<1>2. /\ Cardinality(S \cup {c}) = IF c \in S THEN Cardinality(S) ELSE Cardinality(S) + 1
      /\ Cardinality(S \ {c}) = IF c \in S THEN Cardinality(S) - 1 ELSE Cardinality(S)
  BY <1>1, FS_AddElement, FS_RemoveElement
<1> QED BY <1>1, <1>2

\* The registry's own promise is kept by each of its steps.
LEMMA RegistryKeepsSound ==
  ASSUME Registry!RegistryTypeOK, Registry!Sound,
         [Registry!RegistryNext]_(Registry!registryVars)
  PROVE  Registry!Sound'
<1> USE ConstantAssumption
<1>0. Registry!RegistryTypeOK'
  BY RegistryKeepsTypes
<1>1. \A d \in DepId : OnView[d] \in SUBSET Cid /\ WantView[d] \in Nat /\ HasView[d] \in SUBSET Cid
                       /\ Cardinality(OnView[d]) \in Nat
  BY Countable DEF Registry!RegistryTypeOK
<1>2. CASE UNCHANGED Registry!registryVars
  <2>1. /\ StatusView' = StatusView /\ NameView' = NameView /\ WantView' = WantView
        /\ HasView' = HasView /\ OnView' = OnView
    BY <1>2 DEF Registry!registryVars, Registry!records, Registry!containers
  <2> QED BY <2>1, SameCount DEF Registry!Sound, Registry!There
<1>3. ASSUME NEW d \in DepId, Registry!Draw(d) \/ Registry!GiveUp(d) \/ Registry!Report(d)
      PROVE  Registry!Sound'
  <2>1. /\ NameView' = NameView /\ WantView' = WantView /\ HasView' = HasView /\ OnView' = OnView
    BY <1>3 DEF Registry!Draw, Registry!GiveUp, Registry!Report, Registry!containers
  <2>2. PICK s \in {"coming", "gone", "running", "failed"} :
          /\ StatusView' = [StatusView EXCEPT ![d] = s]
          /\ s \in {"coming", "gone"} => ~Registry!There(d)
          /\ s \in {"running", "failed"} => Registry!There(d)
          /\ s = "running" => Cardinality(OnView[d]) = WantView[d]
          /\ s # "running" => StatusView[d] # "scaling"
    BY <1>3, SameCount DEF Registry!Draw, Registry!GiveUp, Registry!Report, Registry!Says,
       Registry!There, Registry!Complete
  <2>3. \A e \in DepId : Registry!There(e)' <=> Registry!There(e)
    BY <2>2 DEF Registry!There, Registry!RegistryTypeOK
  <2>4. \A e \in DepId : e # d => StatusView'[e] = StatusView[e]
    BY <2>2 DEF Registry!RegistryTypeOK
  <2>5. \A e \in DepId : StatusView'[e] # "scaling" => Cardinality(OnView[e]) <= WantView[e]
    BY <1>1, <2>2, <2>4, SameCount DEF Registry!Sound
  <2> QED BY <2>1, <2>3, <2>5, SameCount DEF Registry!Sound
<1>4. ASSUME NEW d \in DepId, Registry!Create(d) PROVE Registry!Sound'
  <2>1. PICK n \in Name, r \in 1 .. MaxReplicas :
           /\ \A e \in DepId : Registry!There(e) => NameView[e] # n
           /\ NameView' = [NameView EXCEPT ![d] = n] /\ WantView' = [WantView EXCEPT ![d] = r]
    BY <1>4 DEF Registry!Create
  <2>2. /\ StatusView[d] = "coming" /\ StatusView' = [StatusView EXCEPT ![d] = "pending"]
        /\ HasView' = HasView /\ OnView' = OnView
    BY <1>4 DEF Registry!Create, Registry!Says, Registry!containers
  <2>3. OnView[d] = {} /\ HasView[d] = {}
    BY <2>2 DEF Registry!Sound, Registry!There
  <2>4. \A e \in DepId : e # d => /\ StatusView'[e] = StatusView[e] /\ NameView'[e] = NameView[e]
                                  /\ WantView'[e] = WantView[e]
    BY <2>1, <2>2 DEF Registry!RegistryTypeOK
  <2>5. NameView'[d] = n /\ WantView'[d] = r /\ StatusView'[d] = "pending"
    BY <2>1, <2>2 DEF Registry!RegistryTypeOK
  <2>6. \A e \in DepId : e # d => (Registry!There(e)' <=> Registry!There(e))
    BY <2>4 DEF Registry!There
  <2>7. \A e, f \in DepId : Registry!There(e)' /\ Registry!There(f)' /\ NameView'[e] = NameView'[f]
                            => e = f
    BY <2>1, <2>4, <2>5, <2>6 DEF Registry!Sound
  <2>8. Cardinality(OnView[d]) = 0
    BY <2>3, FS_EmptySet
  <2>9. \A e \in DepId : StatusView'[e] # "scaling" => Cardinality(OnView[e]) <= WantView'[e]
    BY <1>1, <2>4, <2>5, <2>8, SameCount DEF Registry!Sound
  <2>10. \A e \in DepId : OnView[e] \subseteq HasView[e] /\ (~Registry!There(e)' => HasView[e] = {})
    BY <2>3, <2>6 DEF Registry!Sound
  <2> QED BY <2>2, <2>7, <2>9, <2>10, SameCount DEF Registry!Sound
<1>5. ASSUME NEW d \in DepId, Registry!Scale(d) PROVE Registry!Sound'
  <2>1. PICK r \in 0 .. MaxReplicas : WantView' = [WantView EXCEPT ![d] = r]
    BY <1>5 DEF Registry!Scale
  <2>2. /\ StatusView' = [StatusView EXCEPT ![d] = "scaling"] /\ Registry!There(d)
        /\ NameView' = NameView /\ HasView' = HasView /\ OnView' = OnView
    BY <1>5 DEF Registry!Scale, Registry!containers
  <2>3. \A e \in DepId : Registry!There(e)' <=> Registry!There(e)
    BY <2>2 DEF Registry!There, Registry!RegistryTypeOK
  <2>4. \A e \in DepId : StatusView'[e] # "scaling"
                         => StatusView[e] # "scaling" /\ WantView'[e] = WantView[e]
    BY <2>1, <2>2 DEF Registry!RegistryTypeOK
  <2> QED BY <2>2, <2>3, <2>4, SameCount DEF Registry!Sound
<1>6. ASSUME NEW d \in DepId, Registry!Add(d) PROVE Registry!Sound'
  <2>1. PICK c \in Cid : HasView' = [HasView EXCEPT ![d] = HasView[d] \cup {c}]
    BY <1>6 DEF Registry!Add
  <2>2. /\ StatusView' = StatusView /\ NameView' = NameView /\ WantView' = WantView
        /\ OnView' = OnView /\ Registry!There(d)
    BY <1>6 DEF Registry!Add, Registry!records
  <2>3. \A e \in DepId : OnView[e] \subseteq HasView'[e] /\ (~Registry!There(e) => HasView'[e] = {})
    BY <2>1, <2>2 DEF Registry!Sound, Registry!RegistryTypeOK
  <2> QED BY <2>2, <2>3, SameCount DEF Registry!Sound, Registry!There
<1>7. ASSUME NEW d \in DepId, Registry!Run(d) PROVE Registry!Sound'
  <2>1. PICK c \in HasView[d] : OnView' = [OnView EXCEPT ![d] = OnView[d] \cup {c}]
    BY <1>7 DEF Registry!Run
  <2>2. /\ StatusView' = StatusView /\ NameView' = NameView /\ WantView' = WantView
        /\ HasView' = HasView /\ Cardinality(OnView[d]) < WantView[d]
    BY <1>7, SameCount DEF Registry!Run, Registry!records
  <2>3. \A e \in DepId : OnView'[e] \subseteq HasView[e]
    BY <2>1 DEF Registry!Sound, Registry!RegistryTypeOK
  <2>4. Cardinality(OnView[d] \cup {c}) <= Cardinality(OnView[d]) + 1
    BY <1>1, OneMoreOrLess
  <2>5. Cardinality(OnView[d] \cup {c}) \in Nat
    BY <1>1, Countable
  <2>6. \A e \in DepId : StatusView[e] # "scaling" => Cardinality(OnView'[e]) <= WantView[e]
    BY <1>1, <2>1, <2>2, <2>4, <2>5, SameCount DEF Registry!Sound, Registry!RegistryTypeOK
  <2> QED BY <2>2, <2>3, <2>6, SameCount DEF Registry!Sound, Registry!There
<1>8. ASSUME NEW d \in DepId, Registry!Remove(d) PROVE Registry!Sound'
  <2>1. PICK c \in HasView[d] :
           /\ OnView' = [OnView EXCEPT ![d] = OnView[d] \ {c}]
           /\ HasView' \in {HasView, [HasView EXCEPT ![d] = HasView[d] \ {c}]}
    BY <1>8 DEF Registry!Remove
  <2>2. StatusView' = StatusView /\ NameView' = NameView /\ WantView' = WantView
    BY <1>8 DEF Registry!Remove, Registry!records
  <2>3. \A e \in DepId : /\ OnView'[e] \subseteq HasView'[e]
                         /\ ~Registry!There(e) => HasView'[e] = {}
    BY <2>1 DEF Registry!Sound, Registry!RegistryTypeOK
  <2>4. /\ Cardinality(OnView[d] \ {c}) <= Cardinality(OnView[d])
        /\ Cardinality(OnView[d] \ {c}) \in Nat
    BY <1>1, OneMoreOrLess, Countable
  <2>5. \A e \in DepId : StatusView[e] # "scaling" => Cardinality(OnView'[e]) <= WantView[e]
    BY <1>1, <2>1, <2>4, SameCount DEF Registry!Sound, Registry!RegistryTypeOK
  <2> QED BY <2>2, <2>3, <2>5, SameCount DEF Registry!Sound, Registry!There
<1>9. ASSUME NEW d \in DepId, Registry!Doom(d) \/ Registry!Spare(d) PROVE Registry!Sound'
  <2>1. /\ StatusView' = StatusView /\ NameView' = NameView /\ WantView' = WantView
        /\ HasView' = HasView /\ OnView' = OnView
    BY <1>9 DEF Registry!Doom, Registry!Spare, Registry!records, Registry!containers
  <2> QED BY <2>1, SameCount DEF Registry!Sound, Registry!There
<1>10. ASSUME NEW d \in DepId, Registry!Delete(d) PROVE Registry!Sound'
  <2>1. /\ StatusView' = [StatusView EXCEPT ![d] = "gone"]
        /\ NameView' = [NameView EXCEPT ![d] = None] /\ WantView' = [WantView EXCEPT ![d] = 0]
        /\ HasView' = HasView /\ OnView' = OnView /\ HasView[d] = {}
    BY <1>10 DEF Registry!Delete, Registry!containers
  <2>2. \A e \in DepId : e # d => /\ StatusView'[e] = StatusView[e] /\ NameView'[e] = NameView[e]
                                  /\ WantView'[e] = WantView[e]
    BY <2>1 DEF Registry!RegistryTypeOK
  <2>3. StatusView'[d] = "gone" /\ WantView'[d] = 0
    BY <2>1 DEF Registry!RegistryTypeOK
  <2>4. \A e \in DepId : Registry!There(e)' => e # d /\ Registry!There(e)
    BY <2>2, <2>3 DEF Registry!There
  <2>5. \A e \in DepId : ~Registry!There(e)' => e = d \/ ~Registry!There(e)
    BY <2>2 DEF Registry!There
  <2>6. OnView[d] = {}
    BY <2>1 DEF Registry!Sound
  <2>7. Cardinality(OnView[d]) = 0
    BY <2>6, FS_EmptySet
  <2>8. \A e \in DepId : StatusView'[e] # "scaling" => Cardinality(OnView[e]) <= WantView'[e]
    BY <1>1, <2>2, <2>3, <2>7, SameCount DEF Registry!Sound
  <2>9. \A e, f \in DepId : Registry!There(e)' /\ Registry!There(f)' /\ NameView'[e] = NameView'[f]
                            => e = f
    BY <2>2, <2>4 DEF Registry!Sound
  <2>10. \A e \in DepId : OnView[e] \subseteq HasView[e] /\ (~Registry!There(e)' => HasView[e] = {})
    BY <2>1, <2>5 DEF Registry!Sound
  <2> QED BY <2>1, <2>8, <2>9, <2>10, SameCount DEF Registry!Sound
<1> QED BY <1>2, <1>3, <1>4, <1>5, <1>6, <1>7, <1>8, <1>9, <1>10
        DEF Registry!RegistryNext, Registry!RegistryStep

\* Whoever keeps to the registry, as the manager does one request at a time,
\* never gives a name twice, leaves nothing behind of what it deletes, and has
\* more containers at work than were asked for only in a scale.
THEOREM RegistryIsSound == Registry!RegistrySpec => []Registry!Sound
<1> DEFINE Inv == Registry!RegistryTypeOK /\ Registry!Sound
<1>1. Registry!RegistryInit => Inv
  <2> SUFFICES ASSUME Registry!RegistryInit PROVE Inv
    OBVIOUS
  <2>1. Registry!RegistryTypeOK
    BY DEF Registry!RegistryInit, Registry!RegistryTypeOK
  <2>2. \A d \in DepId : /\ ~Registry!There(d) /\ HasView[d] = {} /\ OnView[d] = {}
                         /\ WantView[d] = 0
    BY DEF Registry!RegistryInit, Registry!There
  <2>3. Cardinality({}) = 0
    BY FS_EmptySet
  <2>4. Registry!Sound
    BY <2>2, <2>3, SameCount DEF Registry!Sound
  <2> QED BY <2>1, <2>4
<1>2. Inv /\ [Registry!RegistryNext]_(Registry!registryVars) => Inv'
  BY RegistryKeepsTypes, RegistryKeepsSound
<1>3. Inv => Registry!Sound
  OBVIOUS
<1> QED BY <1>1, <1>2, <1>3, PTL DEF Registry!RegistrySpec
================================================================================
