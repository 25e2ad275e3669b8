------------------------------- MODULE ClusterProofs -------------------------------
(***************************************************************************)
(* Proofs of the safety properties of Cluster, for any number of workers,  *)
(* node IDs, objects, deaths and timeouts, with one founder and one user   *)
(* at a time on each machine.                                              *)
(***************************************************************************)
EXTENDS ClusterInvariant, TLAPS

-----------------------------------------------------------------------------
(* Types.                                                                   *)

\* What nothing is: a bucket, a command, a push.
LEMMA NothingTypes ==
    /\ Nothing \in Bucket /\ Free \in Job
    /\ NoPush \in Push
    /\ None \notin NodeRecord /\ None \notin Machine /\ None \notin Id
    /\ None \notin Registration
<1>1. Nothing \in Bucket
  BY DEF Nothing, Bucket
<1>2. [o \in Object |-> 0] \in Data
  BY ClusterAssumption DEF Data, Gone
<1> QED
  BY <1>1, <1>2, ClusterNone DEF Free, Job, NoPush, Push

\* A record saved in a bucket, or a bucket with one record less.
LEMMA SaveType ==
    ASSUME NEW m \in Machine, NEW i \in Id, NEW rec \in NodeRecord \cup {None},
           nodes \in [Machine -> Bucket], Save(m, i, rec)
    PROVE  nodes' \in [Machine -> Bucket]
  BY DEF Save, Bucket

\* A record that gets a role and a port.
Altered(new, rec, role, port) == new = [rec EXCEPT !.role = role, !.port = port]
LEMMA RoleSet ==
    ASSUME NEW rec \in NodeRecord, NEW role \in {"master", "worker"}, NEW port \in {"grpc", "api"}
    PROVE  \E new \in NodeRecord : /\ Altered(new, rec, role, port)
                                   /\ new.host = rec.host /\ new.role = role
<1>1. [rec EXCEPT !.role = role, !.port = port] \in NodeRecord
  BY DEF NodeRecord
<1>2. [rec EXCEPT !.role = role, !.port = port].host = rec.host
  BY DEF NodeRecord
<1>3. [rec EXCEPT !.role = role, !.port = port].role = role
  BY DEF NodeRecord
<1> QED
  BY ONLY <1>1, <1>2, <1>3, Zenon DEF Altered

\* The start and the end of a command keep to the types.
LEMMA BeginType ==
    ASSUME ClusterTypeOK, NEW u \in User, NEW j \in Job, Begin(u, j)
    PROVE  /\ job' \in [User -> Job] /\ lock' \in [Machine -> {"free", "server", "cli"}]
  BY ClusterAssumption DEF ClusterTypeOK, Begin, Job, At, Up
LEMMA EndType ==
    ASSUME ClusterTypeOK, NEW u \in User, End(u)
    PROVE  /\ job' \in [User -> Job] /\ lock' \in [Machine -> {"free", "server", "cli"}]
  BY ClusterAssumption, NothingTypes DEF ClusterTypeOK, End

\* What the commands write keeps to the types.
LEMMA CommandType ==
    ASSUME ClusterIInv, NEW u \in User,
           BeginInit(u) \/ Command(u) \/ \E s \in Machine : BeginJoin(u, s)
    PROVE  ClusterTypeOK'
<1> USE NothingTypes, ClusterAssumption
<1>0. ClusterTypeOK /\ Home[u] \in Machine
  BY DEF ClusterIInv
<1>1. CASE BeginInit(u)
  <2>1. PICK i \in Id \ drawn : Begin(u, [Free EXCEPT !.pc = "init", !.id = i]) /\ Draw(i)
    BY <1>1 DEF BeginInit
  <2>2. [Free EXCEPT !.pc = "init", !.id = i] \in Job
    BY DEF Job, Free
  <2> QED
    BY <1>0, <1>1, <2>1, <2>2, BeginType DEF BeginInit, ClusterTypeOK, Draw, syncState
<1>2. CASE InitSave(u)
  <2>1. job[u].id \in Id
    BY <1>0, <1>2 DEF InitSave, At, ClusterIInv, CommandsOK, Numbered, ClusterTypeOK, Job
  <2>2. nodes' \in [Machine -> Bucket]
    BY <1>0, <1>2, <2>1, SaveType DEF InitSave, ClusterTypeOK, NodeRecord
  <2> QED
    BY <1>0, <1>2, <2>2, EndType DEF InitSave, ClusterTypeOK, syncState
<1>3. CASE JoinUpdate(u)
  <2>1. job[u].id \in Id /\ job[u].rec \in NodeRecord
    BY <1>0, <1>3 DEF JoinUpdate, At, ClusterIInv, CommandsOK, Numbered, ClusterTypeOK, Job
  <2>2. [job[u].rec EXCEPT !.role = "worker", !.online = TRUE] \in NodeRecord
    BY <2>1 DEF NodeRecord
  <2>3. nodes' \in [Machine -> Bucket]
    BY <1>0, <1>3, <2>1, <2>2, SaveType DEF JoinUpdate, ClusterTypeOK
  <2> QED
    BY <1>0, <1>3, <2>3, EndType DEF JoinUpdate, ClusterTypeOK, syncState
<1>4. CASE Fetch(u)
  <2>1. CASE End(u) /\ UNCHANGED drawn
    BY <1>0, <1>4, <2>1, EndType DEF Fetch, ClusterTypeOK, syncState
  <2>2. ASSUME NEW i \in Id \ drawn, Draw(i),
               job' = [job EXCEPT ![u].pc = "save", ![u].id = i,
                                  ![u].list = nodes[job[u].master]],
               UNCHANGED lock
        PROVE  ClusterTypeOK'
    <3>1. job[u].master \in Machine
      BY <1>0, <1>4 DEF Fetch, At, ClusterIInv, CommandsOK, Joining
    <3>2. job' \in [User -> Job]
      BY <1>0, <2>2, <3>1 DEF ClusterTypeOK, Job
    <3> QED
      BY <1>0, <1>4, <2>2, <3>2 DEF Fetch, ClusterTypeOK, syncState, Draw
  <2> QED
    BY <1>4, <2>1, <2>2 DEF Fetch
<1>5. CASE JoinSave(u)
  <2>1. PICK i \in Id : /\ job[u].list[i] # None /\ Save(Home[u], i, job[u].list[i])
                        /\ job' = [job EXCEPT ![u].list[i] = None]
    BY <1>5 DEF JoinSave
  <2>2. job[u].list \in Bucket
    BY <1>0 DEF ClusterTypeOK, Job
  <2>3. nodes' \in [Machine -> Bucket]
    BY <1>0, <2>1, <2>2, SaveType DEF ClusterTypeOK, Bucket
  <2>4. [job[u].list EXCEPT ![i] = None] \in Bucket
    BY <2>2 DEF Bucket
  <2>5. job' \in [User -> Job]
    BY <1>0, <2>1, <2>4 DEF ClusterTypeOK, Job
  <2> QED
    BY <1>0, <1>5, <2>3, <2>5 DEF JoinSave, ClusterTypeOK, syncState
<1>6. CASE JoinSelf(u)
  <2>1. job[u].id \in Id
    BY <1>0, <1>6 DEF JoinSelf, At, ClusterIInv, CommandsOK, Numbered, ClusterTypeOK, Job
  <2>2. nodes' \in [Machine -> Bucket]
    BY <1>0, <1>6, <2>1, SaveType DEF JoinSelf, ClusterTypeOK, NodeRecord, Worker
  <2>3. job' \in [User -> Job] /\ lock' \in [Machine -> {"free", "server", "cli"}]
    <3>1. CASE End(u)
      BY <1>0, <3>1, EndType
    <3>2. CASE job' = [job EXCEPT ![u].pc = "register"] /\ UNCHANGED lock
      BY <1>0, <3>2 DEF ClusterTypeOK, Job
    <3> QED
      BY <1>6, <3>1, <3>2 DEF JoinSelf
  <2> QED
    BY <1>0, <1>6, <2>2, <2>3 DEF JoinSelf, ClusterTypeOK, syncState
<1>7. CASE Register(u)
  <2>1. CASE End(u) /\ UNCHANGED reg
    BY <1>0, <1>7, <2>1, EndType DEF Register, ClusterTypeOK, syncState
  <2>2. CASE /\ reg' = [reg EXCEPT ![job[u].id] =
                           [at |-> "sent", to |-> job[u].master, node |-> Worker(Home[u]),
                            id |-> job[u].id]]
             /\ job' = [job EXCEPT ![u].pc = "registered"] /\ UNCHANGED lock
    <3>1. job[u].master \in Machine /\ job[u].id \in Id
      BY <1>0, <1>7 DEF Register, At, ClusterIInv, CommandsOK, Joining, Numbered,
                        ClusterTypeOK, Job
    <3>2. Worker(Home[u]) \in NodeRecord
      BY <1>0 DEF Worker, NodeRecord
    <3>3. reg' \in [Id -> Registration \cup {None}]
      BY <1>0, <2>2, <3>1, <3>2 DEF ClusterTypeOK, Registration
    <3>4. job' \in [User -> Job]
      BY <1>0, <2>2 DEF ClusterTypeOK, Job
    <3> QED
      BY <1>0, <1>7, <2>2, <3>3, <3>4 DEF Register, ClusterTypeOK, syncState
  <2> QED
    BY <1>7, <2>1, <2>2 DEF Register
<1>8. CASE Registered(u)
  BY <1>0, <1>8, EndType DEF Registered, ClusterTypeOK, syncState
<1>9. ASSUME NEW s \in Machine, BeginJoin(u, s) PROVE ClusterTypeOK'
  <2>1. PICK j \in Job : Begin(u, j)
    <3> DEFINE start == [Free EXCEPT !.master = s]
    <3>1. CASE Begin(u, [start EXCEPT !.pc = "fetch"])
      <4>1. [start EXCEPT !.pc = "fetch"] \in Job
        BY DEF Job, Free
      <4> QED
        BY <3>1, <4>1
    <3>2. ASSUME NEW i \in Id, First(nodes[Home[u]], Home[u], i),
                 Begin(u, [start EXCEPT !.pc = "update", !.id = i,
                                        !.rec = nodes[Home[u]][i]])
          PROVE  \E j \in Job : Begin(u, j)
      <4>1. nodes[Home[u]][i] \in NodeRecord \cup {None}
        BY <1>0 DEF ClusterTypeOK, Bucket
      <4>2. [start EXCEPT !.pc = "update", !.id = i, !.rec = nodes[Home[u]][i]] \in Job
        BY <4>1 DEF Job, Free
      <4> QED
        BY <3>2, <4>2
    <3> QED
      BY <1>9, <3>1, <3>2 DEF BeginJoin
  <2> QED
    BY <1>0, <1>9, <2>1, BeginType DEF BeginJoin, ClusterTypeOK, syncState
<1> QED
  BY <1>1, <1>2, <1>3, <1>4, <1>5, <1>6, <1>7, <1>8, <1>9 DEF Command

\* What registrations, server add and server remove write keeps to the types.
LEMMA MemberType ==
    ASSUME ClusterIInv,
           \/ \E i \in Id : RegisterList(i) \/ RegisterSave(i)
           \/ \E u \in User, h \in Machine, port \in {"grpc", "api"} : AddServer(u, h, port)
           \/ \E u \in User, h \in Machine : RemoveServer(u, h)
    PROVE  ClusterTypeOK'
<1> USE NothingTypes, ClusterAssumption
<1>0. ClusterTypeOK
  BY DEF ClusterIInv
<1>1. ASSUME NEW i \in Id, RegisterList(i) PROVE ClusterTypeOK'
  <2>1. reg[i] \in Registration
    BY <1>0, <1>1 DEF RegisterList, Registering, ClusterTypeOK
  <2>2. PICK k \in Id : reg' = [reg EXCEPT ![i].at = "save", ![i].id = k]
                        \/ reg' = [reg EXCEPT ![i].at = "save"]
    BY <1>1 DEF RegisterList
  <2>3. reg' \in [Id -> Registration \cup {None}]
    BY <1>0, <2>1, <2>2 DEF ClusterTypeOK, Registration
  <2> QED
    BY <1>0, <1>1, <2>3 DEF RegisterList, ClusterTypeOK, syncState
<1>2. ASSUME NEW i \in Id, RegisterSave(i) PROVE ClusterTypeOK'
  <2>1. reg[i] \in Registration
    BY <1>0, <1>2 DEF RegisterSave, Registering, ClusterTypeOK
  <2>2. reg' \in [Id -> Registration \cup {None}]
    BY <1>0, <1>2, <2>1 DEF RegisterSave, ClusterTypeOK, Registration
  <2>3. nodes' \in [Machine -> Bucket]
    BY <1>0, <1>2, <2>1, SaveType DEF RegisterSave, ClusterTypeOK, Registration
  <2> QED
    BY <1>0, <1>2, <2>2, <2>3 DEF RegisterSave, ClusterTypeOK, syncState
<1>3. ASSUME NEW u \in User, NEW h \in Machine, NEW port \in {"grpc", "api"},
             AddServer(u, h, port)
      PROVE  ClusterTypeOK'
  <2> DEFINE role == IF h \in Founders THEN "master" ELSE "worker"
  <2>1. /\ nodes' \in [Machine -> Bucket]
        /\ drawn' \subseteq Id
    <3>1. ASSUME NEW i \in Id, First(nodes[Home[u]], h, i), UNCHANGED drawn,
                 Save(Home[u], i, [nodes[Home[u]][i] EXCEPT !.role = role, !.port = port])
          PROVE  nodes' \in [Machine -> Bucket] /\ drawn' \subseteq Id
      <4>1. nodes[Home[u]][i] \in NodeRecord
        BY <1>0, <3>1 DEF First, Named, ClusterTypeOK, Bucket
      <4>2. [nodes[Home[u]][i] EXCEPT !.role = role, !.port = port] \in NodeRecord
        BY <4>1 DEF NodeRecord
      <4> QED
        BY <1>0, <3>1, <4>2, SaveType DEF ClusterTypeOK
    <3>2. ASSUME NEW i \in Id \ drawn, Draw(i),
                 Save(Home[u], i, [host |-> h, role |-> role, online |-> FALSE, port |-> port])
          PROVE  nodes' \in [Machine -> Bucket] /\ drawn' \subseteq Id
      <4>1. [host |-> h, role |-> role, online |-> FALSE, port |-> port] \in NodeRecord
        BY DEF NodeRecord
      <4> QED
        BY <1>0, <3>2, <4>1, SaveType DEF ClusterTypeOK, Draw
    <3> QED
      BY <1>3, <3>1, <3>2 DEF AddServer
  <2> QED
    BY <1>0, <1>3, <2>1 DEF AddServer, ClusterTypeOK, syncState
<1>4. ASSUME NEW u \in User, NEW h \in Machine, RemoveServer(u, h) PROVE ClusterTypeOK'
  <2>1. nodes' \in [Machine -> Bucket]
    BY <1>0, <1>4, SaveType DEF RemoveServer, ClusterTypeOK
  <2> QED
    BY <1>0, <1>4, <2>1 DEF RemoveServer, ClusterTypeOK, syncState
<1> QED
  BY <1>1, <1>2, <1>3, <1>4

\* What the sync managers and the servers write keeps to the types.
LEMMA SyncType ==
    ASSUME ClusterIInv,
           \/ \E m \in Machine : Start(m) \/ Stop(m) \/ Down(m) \/ PushRead(m) \/ PushSend(m)
                                  \/ PushAnswer(m)
           \/ \E m \in Machine, o \in Object : Change(m, o)
           \/ \E msg \in inbox : Receive(msg)
    PROVE  ClusterTypeOK'
<1> USE NothingTypes, ClusterAssumption
<1>0. ClusterTypeOK
  BY DEF ClusterIInv
<1>1. ASSUME NEW m \in Machine, Start(m) PROVE ClusterTypeOK'
  <2>1. self' \in [Machine -> NodeRecord \cup {None}]
    <3>1. \A i \in Id : nodes[m][i] \in NodeRecord \cup {None}
      BY <1>0 DEF ClusterTypeOK, Bucket
    <3> QED
      BY <1>0, <1>1, <3>1 DEF Start, ClusterTypeOK
  <2> QED
    BY <1>0, <1>1, <2>1 DEF Start, ClusterTypeOK
<1>2. ASSUME NEW m \in Machine, Stop(m) PROVE ClusterTypeOK'
  BY <1>0, <1>2 DEF Stop, ClusterTypeOK
<1>3. ASSUME NEW m \in Machine, Down(m) PROVE ClusterTypeOK'
  <2>1. reg' \in [Id -> Registration \cup {None}]
    BY <1>0, <1>3 DEF Down, ClusterTypeOK, Registration
  <2>2. job' \in [User -> Job]
    BY <1>0, <1>3 DEF Down, ClusterTypeOK
  <2>3. downs' \in 0 .. MaxDowns
    BY <1>0, <1>3 DEF Down, ClusterTypeOK
  <2>4. inbox' \subseteq Message /\ push' \in [Machine -> Push]
    BY <1>0, <1>3 DEF Down, ClusterTypeOK
  <2> QED
    BY <1>0, <1>3, <2>1, <2>2, <2>3, <2>4 DEF Down, ClusterTypeOK
<1>4. ASSUME NEW m \in Machine, PushRead(m) PROVE ClusterTypeOK'
  <2>1. push' \in [Machine -> Push]
    BY <1>0, <1>4 DEF PushRead, ClusterTypeOK, Push
  <2> QED
    BY <1>0, <1>4, <2>1 DEF PushRead, ClusterTypeOK
<1>5. ASSUME NEW m \in Machine, PushSend(m) PROVE ClusterTypeOK'
  <2>1. PICK i \in push[m].todo :
          LET node == push[m].nodes[i]
              arrives == node.port = "api" /\ Up(node.host)
          IN \/ /\ arrives
                /\ inbox' = inbox \cup {[to |-> node.host, nodes |-> push[m].nodes,
                                         data |-> push[m].data]}
                /\ push' = [push EXCEPT ![m].todo = @ \ {i}, ![m].waits = node.host]
             \/ /\ ~arrives
                /\ push' = IF push[m].todo = {i} THEN [push EXCEPT ![m] = NoPush]
                            ELSE [push EXCEPT ![m].todo = @ \ {i}]
                /\ UNCHANGED inbox
    BY <1>5 DEF PushSend
  <2>2. push[m] \in Push /\ i \in Id
    BY <1>0 DEF ClusterTypeOK, Push
  <2>3. push[m].nodes[i] \in NodeRecord
    BY <1>0, <2>1, <2>2 DEF ClusterIInv, PushesOK, Push, Bucket
  <2>4. push[m].nodes[i].host \in Machine
    BY <2>3 DEF NodeRecord
  <2>5. inbox' \subseteq Message
    BY <1>0, <2>1, <2>2, <2>4 DEF ClusterTypeOK, Message, Push
  <2>6. push' \in [Machine -> Push]
    <3>1. push \in [Machine -> Push] /\ push[m].todo \ {i} \in SUBSET Id
      BY <1>0, <2>2 DEF ClusterTypeOK, Push
    <3>2. CASE push' = [push EXCEPT ![m].todo = @ \ {i}, ![m].waits = push[m].nodes[i].host]
      BY <2>4, <3>1, <3>2 DEF Push
    <3>3. CASE push' = [push EXCEPT ![m] = NoPush]
      BY <3>1, <3>3
    <3>4. CASE push' = [push EXCEPT ![m].todo = @ \ {i}]
      BY <3>1, <3>4 DEF Push
    <3> QED
      BY <2>1, <3>2, <3>3, <3>4
  <2> QED
    BY <1>0, <1>5, <2>5, <2>6 DEF PushSend, ClusterTypeOK
<1>6. ASSUME NEW m \in Machine, PushAnswer(m) PROVE ClusterTypeOK'
  <2>1. push' \in [Machine -> Push]
    BY <1>0, <1>6 DEF PushAnswer, ClusterTypeOK, Push
  <2>2. timeouts' \in 0 .. MaxTimeouts
    BY <1>0, <1>6 DEF PushAnswer, ClusterTypeOK
  <2> QED
    BY <1>0, <1>6, <2>1, <2>2 DEF PushAnswer, ClusterTypeOK
<1>7. ASSUME NEW m \in Machine, NEW o \in Object, Change(m, o) PROVE ClusterTypeOK'
  <2>1. data[m] \in Data /\ data[m][o] \in 0 .. Gone /\ Gone \in Nat
    BY <1>0 DEF ClusterTypeOK, Data, Gone
  <2>2. \A v \in {data[m][o] + 1, Gone} : data[m][o] # Gone => v \in 0 .. Gone
    BY <2>1
  <2>3. PICK v \in 0 .. Gone : data' = [data EXCEPT ![m][o] = v]
    BY <1>7, <2>2 DEF Change
  <2>4. data' \in [Machine -> Data]
    BY <1>0, <2>3 DEF ClusterTypeOK, Data
  <2> QED
    BY <1>0, <1>7, <2>4 DEF Change, ClusterTypeOK, syncState
<1>8. ASSUME NEW msg \in inbox, Receive(msg) PROVE ClusterTypeOK'
  <2>1. msg \in Message
    BY <1>0 DEF ClusterTypeOK
  <2>2. nodes' \in [Machine -> Bucket]
    BY <1>0, <1>8, <2>1 DEF Receive, ClusterTypeOK, Message, Bucket
  <2>3. data' \in [Machine -> Data]
    BY <1>0, <1>8, <2>1 DEF Receive, ClusterTypeOK, Message, Data
  <2> QED
    BY <1>0, <1>8, <2>2, <2>3 DEF Receive, ClusterTypeOK
<1> QED
  BY <1>1, <1>2, <1>3, <1>4, <1>5, <1>6, <1>7, <1>8

-----------------------------------------------------------------------------
(* What steps leave alone.                                                  *)

\* Records are only copied, IDs keep what they mean, a machine keeps its own
\* record, and a founder's database gets no other name for a host.
RecordsKept == \A i \in Id, rec \in NodeRecord : Recorded(i, rec)' => Recorded(i, rec)
MeaningsKept == \A i \in Id, h \in Machine : Means(i, h)' => Means(i, h)
NamesKept == \A n \in Machine : Named(nodes[n], n) \subseteq Named(nodes'[n], n)
NoNewNames == \A s \in Founders, h \in Machine : Named(nodes'[s], h) \subseteq Named(nodes[s], h)

\* A bucket that is not written keeps its names.
LEMMA NodesKept == ASSUME UNCHANGED nodes PROVE NamesKept /\ NoNewNames
  BY DEF NamesKept, NoNewNames

\* Records are kept when every place holds what some place held.
LEMMA RecordsFromOld ==
    ASSUME \A i \in Id, rec \in NodeRecord :
             /\ \A m \in Machine : nodes'[m][i] = rec => Recorded(i, rec)
             /\ \A m \in Machine : push'[m].nodes[i] = rec => Recorded(i, rec)
             /\ \A msg \in inbox' : msg.nodes[i] = rec => Recorded(i, rec)
             /\ \A u \in User : job'[u].list[i] = rec => Recorded(i, rec)
    PROVE  RecordsKept
<1> SUFFICES ASSUME NEW i \in Id, NEW rec \in NodeRecord, Recorded(i, rec)'
             PROVE  Recorded(i, rec)
  BY DEF RecordsKept
<1>1. \/ \E m \in Machine : nodes'[m][i] = rec
      \/ \E m \in Machine : push'[m].nodes[i] = rec
      \/ \E msg \in inbox' : msg.nodes[i] = rec
      \/ \E u \in User : job'[u].list[i] = rec
  BY DEF Recorded
<1> QED
  BY <1>1

\* A place that holds a record makes it recorded.
LEMMA Places ==
    ASSUME NEW i \in Id, NEW rec \in NodeRecord
    PROVE  /\ \A m \in Machine : nodes[m][i] = rec => Recorded(i, rec)
           /\ \A m \in Machine : push[m].nodes[i] = rec => Recorded(i, rec)
           /\ \A msg \in inbox : msg.nodes[i] = rec => Recorded(i, rec)
           /\ \A u \in User : job[u].list[i] = rec => Recorded(i, rec)
  BY NothingTypes DEF Recorded

\* IDs keep their meaning when records do, and commands and registrations.
LEMMA MeaningsFromOld ==
    ASSUME RecordsKept,
           \A u \in User, i \in Id : job'[u].id = i => Means(i, Home[u]),
           \A r, i \in Id : reg'[r] # None /\ reg'[r].id = i
                              => Means(i, reg'[r].node.host)
    PROVE  MeaningsKept
<1> SUFFICES ASSUME NEW i \in Id, NEW h \in Machine, Means(i, h)' PROVE Means(i, h)
  BY DEF MeaningsKept
<1>1. CASE \E rec \in NodeRecord : Recorded(i, rec)' /\ rec.host = h
  BY <1>1 DEF RecordsKept, Means
<1>2. CASE \E u \in User : job'[u].id = i /\ h = Home[u]
  BY <1>2
<1>3. CASE \E r \in Id : reg'[r] # None /\ reg'[r].id = i /\ h = reg'[r].node.host
  BY <1>3
<1> QED
  BY <1>1, <1>2, <1>3 DEF Means

\* The same when a command draws an ID.
LEMMA MeaningsOrNew ==
    ASSUME RecordsKept, NEW k \in Id, NEW g \in Machine, UNCHANGED reg,
           \A u \in User, i \in Id :
               job'[u].id = i => Means(i, Home[u]) \/ (i = k /\ Home[u] = g)
    PROVE  \A i \in Id, h \in Machine : Means(i, h)' => Means(i, h) \/ (i = k /\ h = g)
<1> SUFFICES ASSUME NEW i \in Id, NEW h \in Machine, Means(i, h)'
             PROVE  Means(i, h) \/ (i = k /\ h = g)
  OBVIOUS
<1>1. CASE \E rec \in NodeRecord : Recorded(i, rec)' /\ rec.host = h
  BY <1>1 DEF RecordsKept, Means
<1>2. CASE \E u \in User : job'[u].id = i /\ h = Home[u]
  BY <1>2
<1>3. CASE \E r \in Id : reg'[r] # None /\ reg'[r].id = i /\ h = reg'[r].node.host
  BY <1>3 DEF Means
<1> QED
  BY <1>1, <1>2, <1>3 DEF Means

\* What commands and registrations take an ID for is among its meanings.
LEMMA HoldersMean ==
    /\ \A u \in User, i \in Id : job[u].id = i => Means(i, Home[u])
    /\ \A r, i \in Id : reg[r] # None /\ reg[r].id = i => Means(i, reg[r].node.host)
  BY DEF Means

LEMMA OneHostKept ==
    ASSUME OneHost, MeaningsKept, drawn \subseteq drawn' PROVE OneHost'
  BY DEF OneHost, MeaningsKept

\* A fresh ID may get a first meaning.
LEMMA OneHostFresh ==
    ASSUME OneHost, NEW k \in Id \ drawn, NEW g \in Machine, drawn' = drawn \cup {k},
           \A i \in Id, h \in Machine : Means(i, h)' => Means(i, h) \/ (i = k /\ h = g)
    PROVE  OneHost'
  BY DEF OneHost

LEMMA UniqueKept ==
    ASSUME UniqueHosts, NoNewNames PROVE UniqueHosts'
  BY DEF UniqueHosts, NoNewNames

LEMMA FoundersKept ==
    ASSUME FoundersRecord, RecordsKept, NamesKept, Founders \subseteq Machine
    PROVE  FoundersRecord'
  BY DEF FoundersRecord, RecordsKept, NamesKept

LEMMA SavesKept ==
    ASSUME SavesSame, RolesOK, ClusterTypeOK, NoNewNames,
           \A r \in Id : reg'[r] # None /\ reg'[r].at = "save" => reg'[r] = reg[r]
    PROVE  SavesSame'
<1> SUFFICES ASSUME NEW r \in Id, reg'[r] # None, reg'[r].at = "save"
             PROVE  Named(nodes'[reg'[r].to], reg'[r].node.host) \subseteq {reg'[r].id}
  BY DEF SavesSame
<1>1. reg'[r] = reg[r] /\ reg[r] \in Registration
  BY DEF ClusterTypeOK
<1>2. reg[r].to \in Founders /\ reg[r].node.host \in Machine
  BY <1>1 DEF RolesOK, Registration, NodeRecord
<1>3. Named(nodes[reg[r].to], reg[r].node.host) \subseteq {reg[r].id}
  BY <1>1 DEF SavesSame
<1> QED
  BY <1>1, <1>2, <1>3 DEF NoNewNames

LEMMA RolesKept ==
    ASSUME RolesOK, RecordsKept, UNCHANGED self,
           \A r \in Id : reg'[r] # None => /\ reg[r] # None
                                           /\ reg'[r].to = reg[r].to /\ reg'[r].node = reg[r].node
    PROVE  RolesOK'
  BY DEF RolesOK, RecordsKept

\* Nobody sets about to register who was not about to and has a record of his
\* machine; whoever registers has one; and no registration is new.
Asking == {"fetch", "save", "register"}
LEMMA RegistersKept ==
    ASSUME RegistersOnce, RolesOK, ClusterTypeOK, NamesKept,
           \A r \in Id : reg'[r] # None => reg[r] # None /\ reg'[r].node = reg[r].node,
           \A u \in User : job'[u].pc \in Asking =>
               /\ job[u].pc \in Asking \/ Named(nodes[Home[u]], Home[u]) = {}
               /\ job'[u].pc = "register" =>
                    job[u].pc = "register" \/ Named(nodes'[Home[u]], Home[u]) # {}
    PROVE  RegistersOnce'
<1>1. ASSUME NEW r \in Id, reg'[r] # None
      PROVE  LET h == reg'[r].node.host IN Named(nodes'[h], h) # {}
  <2>1. reg[r] \in Registration /\ reg'[r].node = reg[r].node
    BY <1>1 DEF ClusterTypeOK
  <2>2. reg[r].node.host \in Machine
    BY <2>1 DEF Registration, NodeRecord
  <2>3. Named(nodes[reg[r].node.host], reg[r].node.host) # {}
    BY <1>1 DEF RegistersOnce
  <2> QED
    BY <2>1, <2>2, <2>3 DEF NamesKept
<1>2. ASSUME NEW r \in Id, NEW q \in Id, reg'[r] # None, reg'[q] # None,
             reg'[r].node.host = reg'[q].node.host
      PROVE  r = q
  BY <1>2 DEF RegistersOnce
<1>3. ASSUME NEW u \in User, job'[u].pc \in Asking, NEW r \in Id, reg'[r] # None
      PROVE  reg'[r].node.host # Home[u]
  BY <1>3 DEF RegistersOnce, Asking
<1>4. ASSUME NEW u \in User, job'[u].pc = "register"
      PROVE  Named(nodes'[Home[u]], Home[u]) # {}
  <2>1. CASE job[u].pc = "register"
    <3>1. Named(nodes[Home[u]], Home[u]) # {} /\ Home[u] \in Machine
      BY <2>1, ClusterAssumption DEF RegistersOnce
    <3> QED
      BY <3>1 DEF NamesKept
  <2> QED
    BY <1>4, <2>1 DEF Asking
<1> QED
  BY <1>1, <1>2, <1>3, <1>4 DEF RegistersOnce, Asking

LEMMA CommandsKept ==
    ASSUME CommandsOK, NoNewNames,
           \A u \in User : job'[u] = job[u] \/ job'[u].pc = "idle"
    PROVE  CommandsOK'
<1> SUFFICES ASSUME NEW u \in User, job'[u].pc # "idle"
             PROVE  /\ job'[u].pc \in Joining => job'[u].master \in Founders /\ Home[u] \notin Founders
                    /\ job'[u].pc \in Numbered => job'[u].id # None
                    /\ job'[u].pc = "update" => job'[u].rec # None /\ job'[u].rec.host = Home[u]
                    /\ job'[u].pc = "init" =>
                         Home[u] \in Founders /\ Named(nodes'[Home[u]], Home[u]) = {}
  BY DEF CommandsOK, Joining, Numbered
<1>1. job'[u] = job[u]
  OBVIOUS
<1>2. ASSUME job[u].pc = "init"
      PROVE  Home[u] \in Founders /\ Named(nodes'[Home[u]], Home[u]) = {}
  <2>1. Home[u] \in Founders /\ Named(nodes[Home[u]], Home[u]) = {}
    BY <1>2 DEF CommandsOK
  <2> QED
    BY <2>1, ClusterAssumption DEF NoNewNames
<1> QED
  BY <1>1, <1>2 DEF CommandsOK

-----------------------------------------------------------------------------
(* The sync managers and the servers.                                       *)

\* A step that leaves the databases' nodes, the commands and the registrations
\* alone, and whose pushes and messages hold what the old ones held.
LEMMA PushStepKeeps ==
    ASSUME ClusterIInv, ClusterTypeOK', UNCHANGED <<lock, nodes, job, reg, drawn>>,
           \A m \in Machine : \/ push'[m].nodes = push[m].nodes
                              \/ push'[m].nodes = Nothing
                              \/ push'[m].nodes = nodes[m],
           \A msg \in inbox' : msg \in inbox \/ \E m \in Machine : msg.nodes = push[m].nodes,
           UNCHANGED self, PushesOK'
    PROVE  ClusterIInv'
<1> USE DEF ClusterIInv
<1>1. RecordsKept
  <2>1. ASSUME NEW i \in Id, NEW rec \in NodeRecord, NEW m \in Machine,
               push'[m].nodes[i] = rec
        PROVE  Recorded(i, rec)
    BY <2>1, Places, NothingTypes DEF Nothing
  <2>2. ASSUME NEW i \in Id, NEW rec \in NodeRecord, NEW msg \in inbox', msg.nodes[i] = rec
        PROVE  Recorded(i, rec)
    BY <2>2, Places
  <2> QED
    BY <2>1, <2>2, Places, RecordsFromOld
<1>2. MeaningsKept /\ NamesKept /\ NoNewNames
  BY <1>1, MeaningsFromOld, HoldersMean, NodesKept
<1>3. OneHost' /\ UniqueHosts' /\ FoundersRecord' /\ SavesSame' /\ RolesOK'
  BY <1>1, <1>2, OneHostKept, UniqueKept, FoundersKept, SavesKept, RolesKept,
     ClusterAssumption
<1>4. RegistersOnce'
  BY <1>2, RegistersKept
<1>5. LocksOK' /\ CommandsOK'
  BY DEF LocksOK, CommandsOK, Named
<1> QED
  BY <1>3, <1>4, <1>5

\* performSync begins a push.
LEMMA PushReadStep ==
    ASSUME ClusterIInv, NEW m \in Machine, PushRead(m) PROVE ClusterIInv'
<1>1. ClusterTypeOK'
  BY SyncType
<1>2. PushesOK'
  <2>1. PICK to : /\ to = {i \in Id : /\ nodes[m][i] # None /\ nodes[m][i].online
                                      /\ nodes[m][i].role = "worker"}
                  /\ push' = [push EXCEPT ![m] = [todo |-> to, waits |-> None,
                                                  nodes |-> nodes[m], data |-> data[m]]]
    BY DEF PushRead
  <2>2. m \in Founders
    BY DEF PushRead, ClusterIInv, RolesOK
  <2>3. \A i \in to : nodes[m][i] # None /\ nodes[m][i].host \notin Founders
    <3> SUFFICES ASSUME NEW i \in to PROVE nodes[m][i].host \notin Founders
      BY <2>1
    <3>1. nodes[m][i] \in NodeRecord /\ i \in Id
      BY <2>1 DEF ClusterIInv, ClusterTypeOK, Bucket
    <3>2. Recorded(i, nodes[m][i])
      BY <3>1, Places
    <3> QED
      BY <2>1, <3>1, <3>2 DEF ClusterIInv, RolesOK
  <2>4. push \in [Machine -> Push] /\ None \notin Founders
    BY ClusterAssumption, NothingTypes DEF ClusterIInv, ClusterTypeOK
  <2>5. /\ push'[m].todo = to /\ push'[m].waits = None /\ push'[m].nodes = nodes[m]
        /\ \A n \in Machine : n # m => push'[n] = push[n]
    BY <2>1, <2>4
  <2> QED
    BY <2>2, <2>3, <2>4, <2>5 DEF PushesOK, ClusterIInv, PushRead
<1>3. \A n \in Machine : push'[n].nodes = push[n].nodes \/ push'[n].nodes = nodes[n]
  BY DEF PushRead, ClusterIInv, ClusterTypeOK
<1> QED
  BY <1>1, <1>2, <1>3, PushStepKeeps DEF PushRead

\* sendSyncData sends one message.
LEMMA PushSendStep ==
    ASSUME ClusterIInv, NEW m \in Machine, PushSend(m) PROVE ClusterIInv'
<1>1. ClusterTypeOK'
  BY SyncType
<1>2. PICK i \in push[m].todo :
        LET node == push[m].nodes[i]
            arrives == node.port = "api" /\ Up(node.host)
        IN \/ /\ arrives
              /\ inbox' = inbox \cup {[to |-> node.host, nodes |-> push[m].nodes,
                                       data |-> push[m].data]}
              /\ push' = [push EXCEPT ![m].todo = @ \ {i}, ![m].waits = node.host]
           \/ /\ ~arrives
              /\ push' = IF push[m].todo = {i} THEN [push EXCEPT ![m] = NoPush]
                          ELSE [push EXCEPT ![m].todo = @ \ {i}]
              /\ UNCHANGED inbox
  BY DEF PushSend
<1>3. /\ push[m].nodes[i] # None /\ push[m].nodes[i].host \notin Founders
      /\ push[m] # NoPush /\ m \in Founders
      /\ push \in [Machine -> Push]
      /\ push[m].waits \notin Founders /\ None \notin Founders
  BY ClusterAssumption, NothingTypes
     DEF ClusterIInv, ClusterTypeOK, PushesOK, NoPush
<1>4. /\ push'[m] = NoPush \/ (/\ push'[m].todo \subseteq push[m].todo
                               /\ push'[m].nodes = push[m].nodes
                               /\ push'[m].waits \in {push[m].waits, push[m].nodes[i].host})
      /\ \A n \in Machine : n # m => push'[n] = push[n]
  <2>1. CASE push' = [push EXCEPT ![m].todo = @ \ {i}, ![m].waits = push[m].nodes[i].host]
    BY <1>3, <2>1 DEF Push
  <2>2. CASE push' = [push EXCEPT ![m] = NoPush]
    BY <1>3, <2>2
  <2>3. CASE push' = [push EXCEPT ![m].todo = @ \ {i}]
    BY <1>3, <2>3 DEF Push
  <2> QED
    BY <1>2, <2>1, <2>2, <2>3
<1>5. \A msg \in inbox' : \/ msg \in inbox
                          \/ msg.to = push[m].nodes[i].host /\ msg.nodes = push[m].nodes
  BY <1>2
<1>6. PushesOK'
  <2>1. NoPush.todo = {} /\ NoPush.waits = None
    BY DEF NoPush
  <2>2. /\ \A n \in Machine : push'[n] # NoPush => n \in Founders
        /\ \A n \in Machine : push'[n].waits \notin Founders
    BY <1>3, <1>4, <2>1 DEF ClusterIInv, PushesOK
  <2>3. ASSUME NEW n \in Machine, NEW k \in push'[n].todo
        PROVE  push'[n].nodes[k] # None /\ push'[n].nodes[k].host \notin Founders
    BY <1>4, <2>1 DEF ClusterIInv, PushesOK
  <2>4. \A msg \in inbox' : msg.to \notin Founders
    BY <1>3, <1>5 DEF ClusterIInv, PushesOK
  <2> QED
    BY <2>2, <2>3, <2>4 DEF PushesOK
<1>7. \A n \in Machine : push'[n].nodes = push[n].nodes \/ push'[n].nodes = Nothing
  BY <1>4 DEF NoPush
<1> QED
  BY <1>1, <1>5, <1>6, <1>7, PushStepKeeps DEF PushSend

\* The end of the wait for an answer.
LEMMA PushAnswerStep ==
    ASSUME ClusterIInv, NEW m \in Machine, PushAnswer(m) PROVE ClusterIInv'
<1>1. ClusterTypeOK'
  BY SyncType
<1>2. /\ push \in [Machine -> Push] /\ None \notin Founders
      /\ push[m] # NoPush /\ m \in Founders
  BY ClusterAssumption, NothingTypes
     DEF ClusterIInv, ClusterTypeOK, PushesOK, PushAnswer, NoPush
<1>3. /\ push'[m] = NoPush \/ (/\ push'[m].todo = push[m].todo /\ push'[m].waits = None
                               /\ push'[m].nodes = push[m].nodes)
      /\ \A n \in Machine : n # m => push'[n] = push[n]
  BY <1>2 DEF PushAnswer, Push
<1>4. PushesOK'
  <2>1. NoPush.todo = {} /\ NoPush.waits = None
    BY DEF NoPush
  <2>2. /\ \A n \in Machine : push'[n] # NoPush => n \in Founders
        /\ \A n \in Machine : push'[n].waits \notin Founders
    BY <1>2, <1>3, <2>1 DEF ClusterIInv, PushesOK
  <2>3. ASSUME NEW n \in Machine, NEW k \in push'[n].todo
        PROVE  push'[n].nodes[k] # None /\ push'[n].nodes[k].host \notin Founders
    BY <1>3, <2>1 DEF ClusterIInv, PushesOK
  <2>4. \A msg \in inbox' : msg.to \notin Founders
    BY DEF PushAnswer, ClusterIInv, PushesOK
  <2> QED
    BY <2>2, <2>3, <2>4 DEF PushesOK
<1>5. \A n \in Machine : push'[n].nodes = push[n].nodes \/ push'[n].nodes = Nothing
  BY <1>3 DEF NoPush
<1> QED
  BY <1>1, <1>4, <1>5, PushStepKeeps DEF PushAnswer

\* A change of a deployment or container leaves the nodes alone.
LEMMA ChangeStep ==
    ASSUME ClusterIInv, NEW m \in Machine, NEW o \in Object, Change(m, o) PROVE ClusterIInv'
<1>1. ClusterTypeOK'
  BY SyncType
<1>2. UNCHANGED <<lock, nodes, self, push, inbox, job, reg, drawn>>
  BY DEF Change, syncState
<1>3. PushesOK'
  BY <1>2 DEF ClusterIInv, PushesOK
<1> QED
  BY <1>1, <1>2, <1>3, PushStepKeeps

\* The start of a server, which looks for its own record, and its orderly end.
LEMMA StartStopStep ==
    ASSUME ClusterIInv, NEW m \in Machine, Start(m) \/ Stop(m) PROVE ClusterIInv'
<1>1. ClusterTypeOK'
  BY SyncType
<1>2. UNCHANGED <<nodes, push, inbox, job, reg, drawn>>
  BY DEF Start, Stop
<1>3. RecordsKept /\ MeaningsKept /\ NamesKept /\ NoNewNames
  BY <1>2, Places, RecordsFromOld, MeaningsFromOld, HoldersMean, NodesKept
<1>4. OneHost' /\ UniqueHosts' /\ FoundersRecord' /\ SavesSame' /\ RegistersOnce'
  BY <1>2, <1>3, OneHostKept, UniqueKept, FoundersKept, SavesKept, RegistersKept,
     ClusterAssumption DEF ClusterIInv
<1>5. CommandsOK' /\ PushesOK'
  BY <1>2 DEF CommandsOK, PushesOK, Named, ClusterIInv
<1>6. RolesOK'
  <2>1. self \in [Machine -> NodeRecord \cup {None}]
    BY DEF ClusterIInv, ClusterTypeOK
  <2>2. \/ self'[m] = None
        \/ \E i \in Id : i \in Named(nodes[m], m) /\ self'[m] = nodes[m][i]
    BY <2>1 DEF Start, Stop, First
  <2>3. ASSUME NEW i \in Id, i \in Named(nodes[m], m), self'[m] = nodes[m][i]
        PROVE  self'[m].host = m /\ (self'[m].role = "master" => m \in Founders)
    <3>1. nodes[m][i] \in NodeRecord /\ nodes[m][i].host = m
      BY <2>3 DEF Named, ClusterIInv, ClusterTypeOK, Bucket
    <3>2. Recorded(i, nodes[m][i])
      BY <3>1, Places
    <3> QED
      BY <2>3, <3>1, <3>2 DEF ClusterIInv, RolesOK
  <2>4. \A n \in Machine : n # m => self'[n] = self[n]
    BY <2>1 DEF Start, Stop
  <2>5. \A n \in Machine : self'[n] # None =>
           self'[n].host = n /\ (self'[n].role = "master" => n \in Founders)
    BY <2>2, <2>3, <2>4 DEF ClusterIInv, RolesOK
  <2> QED
    BY <1>2, <1>3, <2>5 DEF ClusterIInv, RolesOK, RecordsKept
<1>7. LocksOK'
  <2>1. lock \in [Machine -> {"free", "server", "cli"}]
    BY DEF ClusterIInv, ClusterTypeOK
  <2>2. \A n \in Machine : n # m => lock'[n] = lock[n]
    BY <2>1 DEF Start, Stop
  <2>3. \A u \in User : job[u].pc # "idle" => Home[u] # m
    BY DEF Start, Stop, ClusterIInv, LocksOK, At
  <2>4. \A r \in Id : reg[r] # None /\ reg[r].at \in {"sent", "save"} => reg[r].to # m
    BY DEF Start, Stop, ClusterIInv, LocksOK
  <2>5. \A r \in Id : reg[r] # None => reg[r].to \in Machine
    BY ClusterAssumption DEF ClusterIInv, RolesOK
  <2> QED
    BY <1>2, <2>2, <2>3, <2>4, <2>5, ClusterAssumption DEF ClusterIInv, LocksOK
<1> QED
  BY <1>1, <1>4, <1>5, <1>6, <1>7 DEF ClusterIInv

\* The end of a process, with what it had under way.
LEMMA DownStep ==
    ASSUME ClusterIInv, NEW m \in Machine, Down(m) PROVE ClusterIInv'
<1>1. ClusterTypeOK'
  BY SyncType
<1>2. /\ \A n \in Machine : push'[n] \in {push[n], NoPush} /\ self'[n] \in {self[n], None}
      /\ \A n \in Machine : n # m => lock'[n] = lock[n]
      /\ inbox' \subseteq inbox
  BY DEF Down, ClusterIInv, ClusterTypeOK
<1>3. \A u \in User : job'[u] = Free \/ (job'[u] = job[u] /\ Home[u] # m)
  BY DEF Down
<1>4. Free.list = Nothing /\ Free.id = None /\ Free.pc = "idle" /\ NoPush.nodes = Nothing
  BY DEF Free, NoPush
<1>5. \A r \in Id :
        /\ reg'[r] = None <=> reg[r] = None
        /\ reg[r] # None => /\ reg'[r].node = reg[r].node /\ reg'[r].to = reg[r].to
                            /\ reg'[r].id = reg[r].id
        /\ reg'[r] # None /\ reg'[r].at \in {"sent", "save"} => reg'[r] = reg[r] /\ reg[r].to # m
  <2> SUFFICES ASSUME NEW r \in Id
               PROVE  /\ reg'[r] = None <=> reg[r] = None
                      /\ reg[r] # None => /\ reg'[r].node = reg[r].node
                                          /\ reg'[r].to = reg[r].to
                                          /\ reg'[r].id = reg[r].id
                      /\ reg'[r] # None /\ reg'[r].at \in {"sent", "save"} =>
                            reg'[r] = reg[r] /\ reg[r].to # m
    OBVIOUS
  <2>1. CASE reg[r] = None
    BY <2>1 DEF Down
  <2>2. CASE reg[r] # None
    <3>1. reg[r] \in Registration
      BY <2>2 DEF ClusterIInv, ClusterTypeOK
    <3>2. [reg[r] EXCEPT !.at = "lost"] # None
      BY <3>1, NothingTypes DEF Registration
    <3> QED
      BY <2>2, <3>1, <3>2 DEF Down, Registration
  <2> QED
    BY <2>1, <2>2
<1>6. RecordsKept
  BY <1>2, <1>3, <1>4, Places, RecordsFromOld, NothingTypes DEF Down, Nothing
<1>7. MeaningsKept
  BY <1>3, <1>4, <1>5, <1>6, MeaningsFromOld, HoldersMean, NothingTypes
<1>8. NamesKept /\ NoNewNames /\ drawn' = drawn /\ UNCHANGED nodes
  BY NodesKept DEF Down
<1>9. OneHost' /\ UniqueHosts' /\ FoundersRecord' /\ SavesSame'
  BY <1>5, <1>6, <1>7, <1>8, OneHostKept, UniqueKept, FoundersKept, SavesKept,
     ClusterAssumption DEF ClusterIInv
<1>10. RegistersOnce'
  BY <1>3, <1>4, <1>5, <1>8, RegistersKept DEF ClusterIInv, Asking
<1>11. RolesOK'
  BY <1>2, <1>5, <1>6 DEF RolesOK, RecordsKept, ClusterIInv
<1>12. LocksOK'
  BY <1>2, <1>3, <1>4, <1>5, ClusterAssumption DEF LocksOK, ClusterIInv, RolesOK
<1>13. CommandsOK'
  BY <1>3, <1>4, <1>8 DEF CommandsOK, ClusterIInv, Named, Joining, Numbered
<1>14. PushesOK'
  <2>1. NoPush.todo = {} /\ NoPush.waits = None /\ None \notin Founders
    BY ClusterAssumption, NothingTypes DEF NoPush
  <2> QED
    BY <1>2, <2>1 DEF PushesOK, ClusterIInv
<1> QED
  BY <1>1, <1>9, <1>10, <1>11, <1>12, <1>13, <1>14 DEF ClusterIInv

\* handlePostClusterSync saves what a founder had.
LEMMA ReceiveStep ==
    ASSUME ClusterIInv, NEW msg \in inbox, Receive(msg) PROVE ClusterIInv'
<1>1. ClusterTypeOK'
  BY SyncType
<1>2. /\ msg.to \in Machine /\ msg.to \notin Founders /\ msg.nodes \in Bucket
      /\ nodes \in [Machine -> Bucket] /\ nodes' \in [Machine -> Bucket]
  BY <1>1 DEF ClusterIInv, PushesOK, ClusterTypeOK, Message
<1>3. /\ \A n \in Machine : n # msg.to => nodes'[n] = nodes[n]
      /\ \A i \in Id : nodes'[msg.to][i] = IF msg.nodes[i] # None THEN msg.nodes[i]
                                            ELSE nodes[msg.to][i]
  BY <1>2 DEF Receive, Bucket
<1>4. RecordsKept
  BY <1>3, Places, RecordsFromOld DEF Receive
<1>5. MeaningsKept
  BY <1>4, MeaningsFromOld, HoldersMean DEF Receive
<1>6. NoNewNames
  <2>1. \A n \in Founders : nodes'[n] = nodes[n]
    BY <1>2, <1>3, ClusterAssumption
  <2> QED
    BY <2>1 DEF NoNewNames
<1>7. NamesKept
  <2> SUFFICES ASSUME NEW n \in Machine, NEW i \in Named(nodes[n], n)
               PROVE  i \in Named(nodes'[n], n)
    BY DEF NamesKept
  <2>1. CASE n # msg.to \/ msg.nodes[i] = None
    BY <1>3, <2>1 DEF Named
  <2>2. CASE n = msg.to /\ msg.nodes[i] # None
    <3>1. /\ nodes[n][i] \in NodeRecord /\ nodes[n][i].host = n
          /\ msg.nodes[i] \in NodeRecord /\ i \in Id
      BY <1>2, <2>2 DEF Named, Bucket
    <3>2. Means(i, n) /\ Means(i, msg.nodes[i].host) /\ msg.nodes[i].host \in Machine
      BY <3>1, Places DEF Means, NodeRecord
    <3>3. msg.nodes[i].host = n
      BY <3>1, <3>2 DEF ClusterIInv, OneHost
    <3> QED
      BY <1>3, <2>2, <3>1, <3>3 DEF Named
  <2> QED
    BY <2>1, <2>2
<1>8. UNCHANGED <<lock, self, push, job, reg, drawn>> /\ inbox' \subseteq inbox
  BY DEF Receive
<1>9. OneHost' /\ UniqueHosts' /\ FoundersRecord' /\ SavesSame' /\ RolesOK' /\ RegistersOnce'
  BY <1>4, <1>5, <1>6, <1>7, <1>8, OneHostKept, UniqueKept, FoundersKept, SavesKept,
     RolesKept, RegistersKept, ClusterAssumption DEF ClusterIInv
<1>10. LocksOK' /\ PushesOK'
  BY <1>8 DEF LocksOK, PushesOK, ClusterIInv
<1>11. CommandsOK'
  BY <1>6, <1>8, CommandsKept DEF ClusterIInv
<1> QED
  BY <1>1, <1>9, <1>10, <1>11 DEF ClusterIInv

-----------------------------------------------------------------------------
(* Commands.                                                                *)

\* What the start of a command changes.
LEMMA BeginStep ==
    ASSUME ClusterIInv, OneUserEach, NEW u \in User, NEW j \in Job, j.pc # "idle",
           Begin(u, j), UNCHANGED reg
    PROVE  /\ job[u].pc = "idle"
           /\ /\ job'[u].pc = j.pc /\ job'[u].id = j.id /\ job'[u].list = j.list
              /\ job'[u].rec = j.rec /\ job'[u].master = j.master
           /\ \A v \in User : v # u => job'[v] = job[v]
           /\ LocksOK'
<1>1. /\ job \in [User -> Job] /\ lock \in [Machine -> {"free", "server", "cli"}]
      /\ Home[u] \in Machine
  BY ClusterAssumption DEF ClusterIInv, ClusterTypeOK
<1>2. job' = [job EXCEPT ![u] = [j EXCEPT !.direct = ~Up(Home[u])]]
  BY DEF Begin
<1>3. /\ job'[u].pc = j.pc /\ job'[u].id = j.id /\ job'[u].list = j.list
      /\ job'[u].rec = j.rec /\ job'[u].master = j.master
      /\ job'[u].direct = ~Up(Home[u])
      /\ \A v \in User : v # u => job'[v] = job[v]
  BY <1>1, <1>2 DEF Job
<1>4. /\ lock'[Home[u]] = (IF lock[Home[u]] = "server" THEN "server" ELSE "cli")
      /\ \A m \in Machine : m # Home[u] => lock'[m] = lock[m]
  BY <1>1 DEF Begin, Up
<1>5. LocksOK'
  <2>1. ASSUME NEW v \in User, job'[v].pc # "idle"
        PROVE  lock'[Home[v]] = (IF job'[v].direct THEN "cli" ELSE "server")
    <3>1. CASE v = u
      BY <1>3, <1>4, <3>1 DEF Up
    <3>2. CASE v # u
      BY <1>3, <1>4, <2>1, <3>2, ClusterAssumption DEF OneUserEach, ClusterIInv, LocksOK
    <3> QED
      BY <3>1, <3>2
  <2>2. ASSUME NEW r \in Id, reg'[r] # None, reg'[r].at \in {"sent", "save"}
        PROVE  lock'[reg'[r].to] = "server"
    BY <1>4, <2>2, ClusterAssumption DEF ClusterIInv, LocksOK, RolesOK
  <2> QED
    BY <2>1, <2>2 DEF LocksOK
<1> QED
  BY <1>3, <1>5 DEF Begin, At

\* What the end of a command changes.
LEMMA EndStep ==
    ASSUME ClusterIInv, OneUserEach, NEW u \in User, job[u].pc # "idle", End(u), UNCHANGED reg
    PROVE  /\ job'[u] = Free
           /\ \A v \in User : v # u => job'[v] = job[v]
           /\ LocksOK'
<1>1. /\ job \in [User -> Job] /\ lock \in [Machine -> {"free", "server", "cli"}]
      /\ Home[u] \in Machine
  BY ClusterAssumption DEF ClusterIInv, ClusterTypeOK
<1>2. job'[u] = Free /\ \A v \in User : v # u => job'[v] = job[v]
  BY <1>1 DEF End
<1>3. /\ lock'[Home[u]] = (IF job[u].direct THEN "free" ELSE lock[Home[u]])
      /\ \A m \in Machine : m # Home[u] => lock'[m] = lock[m]
      /\ lock[Home[u]] = (IF job[u].direct THEN "cli" ELSE "server")
  BY <1>1 DEF End, ClusterIInv, LocksOK
<1>4. LocksOK'
  <2>1. ASSUME NEW v \in User, job'[v].pc # "idle"
        PROVE  lock'[Home[v]] = (IF job'[v].direct THEN "cli" ELSE "server")
    BY <1>2, <1>3, <2>1, ClusterAssumption DEF OneUserEach, ClusterIInv, LocksOK, Free
  <2>2. ASSUME NEW r \in Id, reg'[r] # None, reg'[r].at \in {"sent", "save"}
        PROVE  lock'[reg'[r].to] = "server"
    BY <1>3, <2>2, ClusterAssumption DEF ClusterIInv, LocksOK, RolesOK
  <2> QED
    BY <2>1, <2>2 DEF LocksOK
<1> QED
  BY <1>2, <1>4

\* A command that ends without having saved anything in this step.
LEMMA QuietEnd ==
    ASSUME ClusterIInv, ClusterTypeOK', OneUserEach, NEW u \in User, job[u].pc # "idle", End(u),
           UNCHANGED <<nodes, self, push, inbox, reg, drawn>>
    PROVE  ClusterIInv'
<1>1. job'[u] = Free /\ (\A v \in User : v # u => job'[v] = job[v]) /\ LocksOK'
  BY EndStep
<1>2. Free.list = Nothing /\ Free.id = None /\ Free.pc = "idle"
  BY DEF Free
<1>3. RecordsKept
  BY <1>1, <1>2, Places, RecordsFromOld, NothingTypes DEF Nothing
<1>4. MeaningsKept /\ NamesKept /\ NoNewNames
  BY <1>1, <1>2, <1>3, MeaningsFromOld, HoldersMean, NodesKept, NothingTypes
<1>5. OneHost' /\ UniqueHosts' /\ FoundersRecord' /\ SavesSame' /\ RolesOK'
  BY <1>3, <1>4, OneHostKept, UniqueKept, FoundersKept, SavesKept, RolesKept,
     ClusterAssumption DEF ClusterIInv
<1>6. RegistersOnce' /\ CommandsOK'
  BY <1>1, <1>2, <1>4, RegistersKept, CommandsKept DEF ClusterIInv, Asking
<1>7. PushesOK'
  BY DEF PushesOK, ClusterIInv
<1> QED
  BY <1>1, <1>5, <1>6, <1>7 DEF ClusterIInv

\* cluster init looks for nodes and draws an ID.
LEMMA BeginInitStep ==
    ASSUME ClusterIInv, OneUserEach, NEW u \in User, BeginInit(u) PROVE ClusterIInv'
<1>1. ClusterTypeOK'
  BY CommandType
<1>2. PICK k \in Id \ drawn : Begin(u, [Free EXCEPT !.pc = "init", !.id = k]) /\ Draw(k)
  BY DEF BeginInit
<1>3. UNCHANGED <<nodes, self, push, inbox, reg>> /\ Home[u] \in Machine
  BY ClusterAssumption DEF BeginInit, syncState
<1> DEFINE j == [Free EXCEPT !.pc = "init", !.id = k]
<1>4. j \in Job /\ j.pc = "init" /\ j.id = k /\ j.list = Nothing
  BY NothingTypes DEF Free, Job
<1>5. /\ job[u].pc = "idle" /\ job'[u].pc = "init" /\ job'[u].id = k /\ job'[u].list = Nothing
      /\ \A v \in User : v # u => job'[v] = job[v]
      /\ LocksOK'
  BY <1>2, <1>3, <1>4, BeginStep
<1>6. RecordsKept
  BY <1>3, <1>5, Places, RecordsFromOld, NothingTypes DEF Nothing
<1>7. NamesKept /\ NoNewNames
  BY <1>3, NodesKept
<1>8. OneHost'
  <2>1. \A i \in Id, h \in Machine : Means(i, h)' => Means(i, h) \/ (i = k /\ h = Home[u])
    BY <1>3, <1>5, <1>6, MeaningsOrNew, HoldersMean
  <2> QED
    BY <1>2, <1>3, <2>1, OneHostFresh DEF ClusterIInv, Draw
<1>9. UniqueHosts' /\ FoundersRecord' /\ SavesSame' /\ RolesOK'
  BY <1>3, <1>6, <1>7, UniqueKept, FoundersKept, SavesKept, RolesKept, ClusterAssumption
     DEF ClusterIInv
<1>10. RegistersOnce'
  BY <1>3, <1>5, <1>7, RegistersKept DEF ClusterIInv, Asking
<1>11. CommandsOK'
  <2>1. Home[u] \in Founders /\ Named(nodes'[Home[u]], Home[u]) = {}
    BY <1>3 DEF BeginInit, Named, Nothing
  <2> QED
    BY <1>3, <1>5, <2>1, NothingTypes DEF ClusterIInv, CommandsOK, Joining, Numbered, Named
<1>12. PushesOK'
  BY <1>3 DEF PushesOK, ClusterIInv
<1> QED
  BY <1>1, <1>5, <1>8, <1>9, <1>10, <1>11, <1>12 DEF ClusterIInv

\* cluster join looks for this host's record.
LEMMA BeginJoinStep ==
    ASSUME ClusterIInv, OneUserEach, OneFounder, NEW u \in User, NEW s \in Machine,
           BeginJoin(u, s)
    PROVE  ClusterIInv'
<1>1. ClusterTypeOK'
  BY CommandType
<1>2. UNCHANGED <<nodes, self, push, inbox, reg, drawn>> /\ Home[u] \in Machine
  BY ClusterAssumption DEF BeginJoin, syncState
<1>3. s \in Founders /\ Home[u] \notin Founders
  BY <1>2 DEF BeginJoin, OneFounder
<1>4. PICK j \in Job :
        /\ Begin(u, j) /\ j.list = Nothing /\ j.master = s
        /\ \/ /\ j.pc = "update" /\ j.id \in Named(nodes[Home[u]], Home[u])
              /\ j.rec = nodes[Home[u]][j.id]
           \/ j.pc = "fetch" /\ j.id = None /\ Named(nodes[Home[u]], Home[u]) = {}
  <2> DEFINE start == [Free EXCEPT !.master = s]
  <2>1. CASE Named(nodes[Home[u]], Home[u]) = {} /\ Begin(u, [start EXCEPT !.pc = "fetch"])
    <3>1. [start EXCEPT !.pc = "fetch"] \in Job
      BY NothingTypes DEF Job, Free
    <3> QED
      BY <2>1, <3>1 DEF Free
  <2>2. ASSUME NEW i \in Id, First(nodes[Home[u]], Home[u], i),
               Begin(u, [start EXCEPT !.pc = "update", !.id = i,
                                      !.rec = nodes[Home[u]][i]])
        PROVE  \E j \in Job : /\ Begin(u, j) /\ j.list = Nothing /\ j.master = s
                              /\ j.pc = "update" /\ j.id \in Named(nodes[Home[u]], Home[u])
                              /\ j.rec = nodes[Home[u]][j.id]
    <3>1. nodes[Home[u]][i] \in NodeRecord \cup {None}
      BY <1>2 DEF ClusterIInv, ClusterTypeOK, Bucket
    <3>2. [start EXCEPT !.pc = "update", !.id = i, !.rec = nodes[Home[u]][i]] \in Job
      BY <3>1, NothingTypes DEF Job, Free
    <3> QED
      BY <2>2, <3>2 DEF Free, First
  <2> QED
    BY <2>1, <2>2 DEF BeginJoin
<1>5. /\ job[u].pc = "idle" /\ job'[u].pc = j.pc /\ job'[u].id = j.id
      /\ job'[u].list = Nothing /\ job'[u].rec = j.rec /\ job'[u].master = s
      /\ \A v \in User : v # u => job'[v] = job[v]
      /\ LocksOK'
  BY <1>2, <1>4, BeginStep
<1>6. j.pc = "update" => /\ nodes[Home[u]][j.id] \in NodeRecord /\ j.id \in Id
                         /\ nodes[Home[u]][j.id].host = Home[u]
                         /\ Means(j.id, Home[u])
  <2>1. ASSUME j.pc = "update"
        PROVE  /\ nodes[Home[u]][j.id] \in NodeRecord /\ j.id \in Id
               /\ nodes[Home[u]][j.id].host = Home[u]
    BY <1>2, <1>4, <2>1 DEF Named, ClusterIInv, ClusterTypeOK, Bucket
  <2> QED
    BY <1>2, <2>1, Places DEF Means
<1>7. RecordsKept
  BY <1>2, <1>5, Places, RecordsFromOld, NothingTypes DEF Nothing
<1>8. NamesKept /\ NoNewNames
  BY <1>2, NodesKept
<1>9. MeaningsKept
  BY <1>2, <1>4, <1>5, <1>6, <1>7, MeaningsFromOld, HoldersMean, NothingTypes
<1>10. OneHost' /\ UniqueHosts' /\ FoundersRecord' /\ SavesSame' /\ RolesOK'
  BY <1>2, <1>7, <1>8, <1>9, OneHostKept, UniqueKept, FoundersKept, SavesKept, RolesKept,
     ClusterAssumption DEF ClusterIInv
<1>11. RegistersOnce'
  BY <1>2, <1>4, <1>5, <1>8, RegistersKept DEF ClusterIInv, Asking
<1>12. CommandsOK'
  BY <1>2, <1>3, <1>4, <1>5, <1>6, NothingTypes
     DEF ClusterIInv, CommandsOK, Joining, Numbered, Named
<1>13. PushesOK'
  BY <1>2 DEF PushesOK, ClusterIInv
<1> QED
  BY <1>1, <1>5, <1>10, <1>11, <1>12, <1>13 DEF ClusterIInv

\* The master's records are fetched, and an ID is drawn.
LEMMA FetchStep ==
    ASSUME ClusterIInv, OneUserEach, NEW u \in User, Fetch(u) PROVE ClusterIInv'
<1>1. ClusterTypeOK' /\ job[u].pc = "fetch"
  BY CommandType DEF Command, Fetch, At
<1>2. UNCHANGED <<nodes, self, push, inbox, reg>> /\ Home[u] \in Machine
  BY ClusterAssumption DEF Fetch, syncState
<1>3. CASE End(u) /\ UNCHANGED drawn
  BY <1>1, <1>2, <1>3, QuietEnd
<1>4. ASSUME NEW k \in Id \ drawn, Draw(k), UNCHANGED lock,
             job' = [job EXCEPT ![u].pc = "save", ![u].id = k,
                                ![u].list = nodes[job[u].master]]
      PROVE  ClusterIInv'
  <2>1. job \in [User -> Job] /\ job[u].master \in Founders /\ Home[u] \notin Founders
        /\ job[u].master \in Machine
    BY <1>1, ClusterAssumption DEF ClusterIInv, ClusterTypeOK, CommandsOK, Joining
  <2>2. /\ job'[u].pc = "save" /\ job'[u].id = k /\ job'[u].list = nodes[job[u].master]
        /\ job'[u].master = job[u].master /\ job'[u].direct = job[u].direct
        /\ \A v \in User : v # u => job'[v] = job[v]
    BY <1>4, <2>1 DEF Job
  <2>3. RecordsKept
    BY <1>2, <2>1, <2>2, Places, RecordsFromOld
  <2>4. NamesKept /\ NoNewNames
    BY <1>2, NodesKept
  <2>5. OneHost'
    <3>1. \A i \in Id, h \in Machine :
            Means(i, h)' => Means(i, h) \/ (i = k /\ h = Home[u])
      BY <1>2, <2>2, <2>3, MeaningsOrNew, HoldersMean
    <3> QED
      BY <1>2, <1>4, <3>1, OneHostFresh DEF ClusterIInv, Draw
  <2>6. UniqueHosts' /\ FoundersRecord' /\ SavesSame' /\ RolesOK'
    BY <1>2, <2>3, <2>4, UniqueKept, FoundersKept, SavesKept, RolesKept, ClusterAssumption
       DEF ClusterIInv
  <2>7. RegistersOnce'
    BY <1>1, <1>2, <2>2, <2>4, RegistersKept DEF ClusterIInv, Asking
  <2>8. CommandsOK'
    BY <1>2, <2>1, <2>2, NothingTypes DEF ClusterIInv, CommandsOK, Joining, Numbered, Named
  <2>9. LocksOK'
    BY <1>1, <1>2, <1>4, <2>2 DEF LocksOK, ClusterIInv
  <2>10. PushesOK'
    BY <1>2 DEF PushesOK, ClusterIInv
  <2> QED
    BY <1>1, <2>5, <2>6, <2>7, <2>8, <2>9, <2>10 DEF ClusterIInv
<1> QED
  BY <1>3, <1>4 DEF Fetch

\* The registration is sent, or nobody listens, and the end of the wait for it.
LEMMA RegisterStep ==
    ASSUME ClusterIInv, OneUserEach, NEW u \in User, Register(u) \/ Registered(u)
    PROVE  ClusterIInv'
<1>1. ClusterTypeOK' /\ job[u].pc \in {"register", "registered"}
  BY CommandType DEF Command, Register, Registered, At
<1>2. UNCHANGED <<nodes, self, push, inbox, drawn>> /\ Home[u] \in Machine
  BY ClusterAssumption DEF Register, Registered, syncState
<1>3. CASE End(u) /\ UNCHANGED reg
  BY <1>1, <1>2, <1>3, QuietEnd
<1>4. CASE /\ At(u, "register") /\ Up(job[u].master) /\ UNCHANGED lock
           /\ reg' = [reg EXCEPT ![job[u].id] =
                         [at |-> "sent", to |-> job[u].master, node |-> Worker(Home[u]),
                          id |-> job[u].id]]
           /\ job' = [job EXCEPT ![u].pc = "registered"]
  <2> DEFINE k == job[u].id
  <2>1. /\ job \in [User -> Job] /\ job[u].pc = "register" /\ job[u].master \in Founders
        /\ Home[u] \notin Founders /\ k \in Id /\ reg \in [Id -> Registration \cup {None}]
    BY <1>4 DEF ClusterIInv, ClusterTypeOK, CommandsOK, Joining, Numbered, At, Job
  <2>2. /\ job'[u].pc = "registered" /\ job'[u].id = k /\ job'[u].list = job[u].list
        /\ job'[u].master = job[u].master /\ job'[u].direct = job[u].direct
        /\ \A v \in User : v # u => job'[v] = job[v]
    BY <1>4, <2>1 DEF Job
  <2>3. /\ reg'[k].at = "sent" /\ reg'[k].to = job[u].master /\ reg'[k].id = k
        /\ reg'[k].node = Worker(Home[u])
        /\ Worker(Home[u]).host = Home[u] /\ Worker(Home[u]).role = "worker"
        /\ \A r \in Id : r # k => reg'[r] = reg[r]
    BY <1>4, <2>1 DEF Worker
  <2>4. RecordsKept
    BY <1>2, <2>2, Places, RecordsFromOld
  <2>5. MeaningsKept
    BY <2>2, <2>3, <2>4, MeaningsFromOld, HoldersMean
  <2>6. NamesKept /\ NoNewNames
    BY <1>2, NodesKept
  <2>7. OneHost' /\ UniqueHosts' /\ FoundersRecord' /\ SavesSame'
    BY <1>2, <2>3, <2>4, <2>5, <2>6, OneHostKept, UniqueKept, FoundersKept, SavesKept,
       ClusterAssumption DEF ClusterIInv
  <2>8. RolesOK'
    BY <1>2, <2>1, <2>3, <2>4 DEF ClusterIInv, RolesOK, RecordsKept
  <2>9. LocksOK'
    BY <1>4, <2>1, <2>2, <2>3 DEF LocksOK, ClusterIInv, Up
  <2>10. CommandsOK'
    BY <1>2, <2>1, <2>2, NothingTypes DEF ClusterIInv, CommandsOK, Joining, Numbered, Named
  <2>11. RegistersOnce'
    <3>1. Named(nodes[Home[u]], Home[u]) # {}
      BY <2>1 DEF ClusterIInv, RegistersOnce
    <3>2. \A r \in Id : reg[r] # None => reg[r].node.host # Home[u]
      BY <2>1 DEF ClusterIInv, RegistersOnce
    <3>3. \A r, q \in Id :
            /\ reg'[r] # None /\ reg'[q] # None /\ reg'[r].node.host = reg'[q].node.host
            => r = q
      BY <2>3, <3>2 DEF ClusterIInv, RegistersOnce
    <3>4. \A r \in Id : reg'[r] # None =>
            LET h == reg'[r].node.host IN Named(nodes'[h], h) # {}
      BY <1>2, <2>3, <3>1 DEF ClusterIInv, RegistersOnce
    <3>5. \A v \in User : job'[v].pc \in Asking =>
            v # u /\ job'[v] = job[v] /\ Home[v] # Home[u]
      BY <2>2 DEF Asking, OneUserEach
    <3>6. \A v \in User : job'[v].pc \in Asking =>
            \A r \in Id : reg'[r] # None => reg'[r].node.host # Home[v]
      BY <2>3, <3>5 DEF ClusterIInv, RegistersOnce, Asking
    <3>7. \A v \in User : job'[v].pc = "register" => Named(nodes'[Home[v]], Home[v]) # {}
      BY <1>2, <3>5 DEF ClusterIInv, RegistersOnce, Asking
    <3> QED
      BY <3>3, <3>4, <3>6, <3>7 DEF RegistersOnce, Asking
  <2>12. PushesOK'
    BY <1>2 DEF PushesOK, ClusterIInv
  <2> QED
    BY <1>1, <2>7, <2>8, <2>9, <2>10, <2>11, <2>12 DEF ClusterIInv
<1> QED
  BY <1>3, <1>4 DEF Register, Registered

\* Nothing but h's name in m's database changes, where k is added to it.
NamesOnly(m, k, h) ==
    /\ k \in Named(nodes'[m], h)
    /\ Named(nodes'[m], h) \subseteq Named(nodes[m], h) \cup {k}
    /\ \A n, g \in Machine : Named(nodes[n], g) \subseteq Named(nodes'[n], g)
    /\ \A n, g \in Machine :
         n # m \/ g # h => Named(nodes'[n], g) \subseteq Named(nodes[n], g)

\* That is so when a record is saved under an ID that means its host or is fresh.
LEMMA SaveNames ==
    ASSUME ClusterIInv, NEW m \in Machine, NEW k \in Id, NEW rec \in NodeRecord,
           Save(m, k, rec), Means(k, rec.host) \/ k \notin drawn
    PROVE  NamesOnly(m, k, rec.host)
<1>1. /\ nodes \in [Machine -> Bucket] /\ rec # None /\ rec.host \in Machine
      /\ nodes[m] \in Bucket
  BY NothingTypes DEF ClusterIInv, ClusterTypeOK, NodeRecord
<1>2. /\ nodes'[m][k] = rec
      /\ \A i \in Id : i # k => nodes'[m][i] = nodes[m][i]
      /\ \A n \in Machine : n # m => nodes'[n] = nodes[n]
  BY <1>1 DEF Save, Bucket
<1>3. nodes[m][k] # None => nodes[m][k].host = rec.host
  <2> SUFFICES ASSUME nodes[m][k] # None PROVE nodes[m][k].host = rec.host
    OBVIOUS
  <2>1. nodes[m][k] \in NodeRecord /\ nodes[m][k].host \in Machine
    BY <1>1 DEF Bucket, NodeRecord
  <2>2. Means(k, nodes[m][k].host)
    BY <2>1, Places DEF Means
  <2> QED
    BY <1>1, <2>1, <2>2 DEF ClusterIInv, OneHost
<1>4. \A h \in Machine : h # rec.host => Named(nodes'[m], h) = Named(nodes[m], h)
  BY <1>2, <1>3 DEF Named
<1>5. /\ k \in Named(nodes'[m], rec.host)
      /\ Named(nodes'[m], rec.host) \subseteq Named(nodes[m], rec.host) \cup {k}
      /\ Named(nodes[m], rec.host) \subseteq Named(nodes'[m], rec.host)
  BY <1>1, <1>2 DEF Named
<1>6. \A n, h \in Machine : n # m => Named(nodes'[n], h) = Named(nodes[n], h)
  BY <1>2
<1>7. ASSUME NEW n \in Machine, NEW g \in Machine
      PROVE  /\ Named(nodes[n], g) \subseteq Named(nodes'[n], g)
             /\ n # m \/ g # rec.host => Named(nodes'[n], g) \subseteq Named(nodes[n], g)
  BY <1>4, <1>5, <1>6
<1> QED
  BY <1>5, <1>7 DEF NamesOnly

\* Nothing but the record under k in m's database is saved.
Saved(m, k, rec) ==
    \A n \in Machine, i \in Id :
        nodes'[n][i] = nodes[n][i] \/ (i = k /\ n = m /\ nodes'[n][i] = rec)
LEMMA SaveSaves ==
    ASSUME nodes \in [Machine -> Bucket], NEW m \in Machine, NEW k \in Id,
           NEW rec \in NodeRecord \cup {None}, Save(m, k, rec)
    PROVE  Saved(m, k, rec)
  BY DEF Saved, Save, Bucket

\* What it leaves true, when the record has its host's role.
LEMMA SaveKeeps ==
    ASSUME ClusterIInv, NEW m \in Machine, NEW k \in Id, NEW rec \in NodeRecord,
           Save(m, k, rec),
           \/ Means(k, rec.host) /\ UNCHANGED drawn
           \/ k \notin drawn /\ drawn' = drawn \cup {k},
           rec.role = "master" <=> rec.host \in Founders,
           rec.host \in Founders => m = rec.host,
           UNCHANGED <<self, push, inbox>>,
           \A u \in User, i \in Id : /\ job'[u].list[i] \in {None, job[u].list[i]}
                                     /\ job'[u].id \in {None, job[u].id},
           \A r \in Id : reg'[r] # None =>
               /\ reg[r] # None /\ reg'[r].to = reg[r].to /\ reg'[r].node = reg[r].node
               /\ reg'[r].id = reg[r].id
    PROVE  OneHost' /\ RolesOK' /\ FoundersRecord' /\ PushesOK' /\ NamesKept
<1>1. NamesOnly(m, k, rec.host) /\ Saved(m, k, rec)
  BY SaveNames, SaveSaves DEF ClusterIInv, ClusterTypeOK
<1>2. \A i \in Id, new \in NodeRecord :
        Recorded(i, new)' => Recorded(i, new) \/ (i = k /\ new = rec)
  <2> SUFFICES ASSUME NEW i \in Id, NEW new \in NodeRecord, Recorded(i, new)'
               PROVE  Recorded(i, new) \/ (i = k /\ new = rec)
    OBVIOUS
  <2>1. CASE \E n \in Machine : nodes'[n][i] = new
    BY <1>1, <2>1, Places DEF Saved
  <2>2. CASE \E n \in Machine : push'[n].nodes[i] = new
    BY <2>2, Places
  <2>3. CASE \E msg \in inbox' : msg.nodes[i] = new
    BY <2>3, Places
  <2>4. CASE \E u \in User : job'[u].list[i] = new
    BY <2>4, Places, NothingTypes
  <2> QED
    BY <2>1, <2>2, <2>3, <2>4 DEF Recorded
<1>3. OneHost'
  <2>1. ASSUME NEW i \in Id, NEW h \in Machine, Means(i, h)'
        PROVE  Means(i, h) \/ (i = k /\ h = rec.host)
    <3>1. CASE \E new \in NodeRecord : Recorded(i, new)' /\ new.host = h
      BY <1>2, <3>1 DEF Means
    <3>2. CASE \E u \in User : job'[u].id = i /\ h = Home[u]
      BY <3>2, HoldersMean, NothingTypes
    <3>3. CASE \E r \in Id : reg'[r] # None /\ reg'[r].id = i /\ h = reg'[r].node.host
      BY <3>3, HoldersMean
    <3> QED
      BY <2>1, <3>1, <3>2, <3>3 DEF Means
  <2>2. CASE Means(k, rec.host) /\ UNCHANGED drawn
    BY <2>1, <2>2, OneHostKept DEF MeaningsKept, ClusterIInv
  <2>3. CASE k \notin drawn /\ drawn' = drawn \cup {k}
    <3>1. rec.host \in Machine
      BY DEF NodeRecord
    <3> QED
      BY <2>1, <2>3, <3>1, OneHostFresh DEF ClusterIInv
  <2> QED
    BY <2>2, <2>3
<1>4. RolesOK'
  BY <1>2 DEF RolesOK, ClusterIInv
<1>5. FoundersRecord'
  BY <1>1, <1>2, ClusterAssumption DEF FoundersRecord, ClusterIInv, NamesOnly
<1>6. PushesOK' /\ NamesKept
  BY <1>1 DEF PushesOK, ClusterIInv, NamesKept, NamesOnly
<1> QED
  BY <1>3, <1>4, <1>5, <1>6

\* cluster init saves the master.
LEMMA InitSaveStep ==
    ASSUME ClusterIInv, OneUserEach, OneFounder, NEW u \in User, InitSave(u)
    PROVE  ClusterIInv'
<1> DEFINE rec == [host |-> Home[u], role |-> "master", online |-> TRUE, port |-> "grpc"]
           k == job[u].id
<1>1. ClusterTypeOK' /\ job[u].pc = "init"
  BY CommandType DEF Command, InitSave, At
<1>2. /\ UNCHANGED <<self, push, inbox, reg, drawn>> /\ Home[u] \in Machine
      /\ Save(Home[u], k, rec) /\ End(u)
  BY ClusterAssumption DEF InitSave, syncState
<1>3. /\ k \in Id /\ rec \in NodeRecord /\ Home[u] \in Founders /\ Means(k, Home[u])
      /\ Named(nodes[Home[u]], Home[u]) = {}
  BY <1>1, <1>2, HoldersMean
     DEF ClusterIInv, CommandsOK, Numbered, ClusterTypeOK, Job, NodeRecord
<1>4. job'[u] = Free /\ (\A v \in User : v # u => job'[v] = job[v]) /\ LocksOK'
  BY <1>1, <1>2, EndStep
<1>5. Free.list = Nothing /\ Free.id = None /\ Free.pc = "idle"
  BY DEF Free
<1>6. OneHost' /\ RolesOK' /\ FoundersRecord' /\ PushesOK' /\ NamesKept
  <2>1. \A v \in User, i \in Id : /\ job'[v].list[i] \in {None, job[v].list[i]}
                                 /\ job'[v].id \in {None, job[v].id}
    BY <1>4, <1>5 DEF Nothing
  <2> QED
    BY <1>2, <1>3, <2>1, SaveKeeps
<1>7. /\ Named(nodes'[Home[u]], Home[u]) \subseteq {k}
      /\ \A n, h \in Machine : n # Home[u] \/ h # Home[u] =>
           Named(nodes'[n], h) \subseteq Named(nodes[n], h)
  <2>1. NamesOnly(Home[u], k, Home[u])
    BY <1>2, <1>3, SaveNames
  <2> QED
    BY <1>3, <2>1 DEF NamesOnly
<1>8. UniqueHosts'
  BY <1>2, <1>3, <1>7, ClusterAssumption DEF UniqueHosts, ClusterIInv
<1>9. SavesSame'
  <2> SUFFICES ASSUME NEW r \in Id, reg[r] # None, reg[r].at = "save"
               PROVE  Named(nodes'[reg[r].to], reg[r].node.host) \subseteq {reg[r].id}
    BY <1>2 DEF SavesSame
  <2>1. /\ reg[r].to \in Machine /\ reg[r].node.host \in Machine
        /\ reg[r].node.host \notin Founders
    BY ClusterAssumption DEF ClusterIInv, RolesOK, ClusterTypeOK, Registration, NodeRecord
  <2> QED
    BY <1>3, <1>7, <2>1 DEF ClusterIInv, SavesSame
<1>10. RegistersOnce'
  BY <1>2, <1>4, <1>5, <1>6, RegistersKept DEF ClusterIInv, Asking
<1>11. CommandsOK'
  <2>1. ASSUME NEW v \in User, job'[v].pc = "init"
        PROVE  Home[v] \in Founders /\ Named(nodes'[Home[v]], Home[v]) = {}
    <3>1. v # u /\ job'[v] = job[v] /\ Home[v] # Home[u]
      BY <1>4, <1>5, <2>1 DEF OneUserEach
    <3> QED
      BY <1>7, <2>1, <3>1, ClusterAssumption, <1>2 DEF ClusterIInv, CommandsOK
  <2> QED
    BY <1>4, <1>5, <2>1 DEF ClusterIInv, CommandsOK, Joining, Numbered
<1> QED
  BY <1>1, <1>4, <1>6, <1>8, <1>9, <1>10, <1>11 DEF ClusterIInv

\* A join saves a worker's record in its own database: what is left true.
LEMMA JoinSavesSelf ==
    ASSUME ClusterIInv, ClusterTypeOK', NEW u \in User, NEW k \in Id, NEW rec \in NodeRecord,
           Save(Home[u], k, rec), Means(k, Home[u]), rec.host = Home[u], rec.role = "worker",
           Home[u] \notin Founders,
           UNCHANGED <<self, push, inbox, reg, drawn>>,
           \A v \in User : v # u => job'[v] = job[v],
           job'[u].list = Nothing, job'[u].id \in {None, job[u].id}
    PROVE  /\ OneHost' /\ RolesOK' /\ FoundersRecord' /\ PushesOK' /\ UniqueHosts' /\ SavesSame'
           /\ NamesKept /\ NoNewNames
           /\ Named(nodes'[Home[u]], Home[u]) # {}
<1>1. Home[u] \in Machine
  BY ClusterAssumption
<1>2. \A v \in User, i \in Id : /\ job'[v].list[i] \in {None, job[v].list[i]}
                               /\ job'[v].id \in {None, job[v].id}
  BY DEF Nothing
<1>3. OneHost' /\ RolesOK' /\ FoundersRecord' /\ PushesOK' /\ NamesKept
  BY <1>1, <1>2, SaveKeeps
<1>4. NoNewNames /\ Named(nodes'[Home[u]], Home[u]) # {}
  <2>1. NamesOnly(Home[u], k, Home[u])
    BY <1>1, SaveNames
  <2> QED
    BY <1>1, <2>1, ClusterAssumption DEF NoNewNames, NamesOnly
<1>5. UniqueHosts' /\ SavesSame'
  BY <1>4, UniqueKept, SavesKept DEF ClusterIInv
<1> QED
  BY <1>3, <1>4, <1>5

\* A join that found its record.
LEMMA JoinUpdateStep ==
    ASSUME ClusterIInv, OneUserEach, NEW u \in User, JoinUpdate(u) PROVE ClusterIInv'
<1> DEFINE rec == [job[u].rec EXCEPT !.role = "worker", !.online = TRUE]
           k == job[u].id
<1>1. ClusterTypeOK' /\ job[u].pc = "update"
  BY CommandType DEF Command, JoinUpdate, At
<1>2. /\ UNCHANGED <<self, push, inbox, reg, drawn>> /\ Home[u] \in Machine
      /\ Save(Home[u], k, rec) /\ End(u)
  BY ClusterAssumption DEF JoinUpdate, syncState
<1>3. /\ k \in Id /\ job[u].rec \in NodeRecord /\ job[u].rec.host = Home[u]
      /\ Home[u] \notin Founders /\ Means(k, Home[u])
  BY <1>1, <1>2, HoldersMean
     DEF ClusterIInv, CommandsOK, Numbered, Joining, ClusterTypeOK, Job
<1>4. rec \in NodeRecord /\ rec.host = Home[u] /\ rec.role = "worker"
  BY <1>3 DEF NodeRecord
<1>5. job'[u] = Free /\ (\A v \in User : v # u => job'[v] = job[v]) /\ LocksOK'
  BY <1>1, <1>2, EndStep
<1>6. Free.list = Nothing /\ Free.id = None /\ Free.pc = "idle"
  BY DEF Free
<1>7. /\ OneHost' /\ RolesOK' /\ FoundersRecord' /\ PushesOK' /\ UniqueHosts' /\ SavesSame'
      /\ NamesKept /\ NoNewNames
  BY <1>1, <1>2, <1>3, <1>4, <1>5, <1>6, JoinSavesSelf
<1>8. RegistersOnce' /\ CommandsOK'
  BY <1>2, <1>5, <1>6, <1>7, RegistersKept, CommandsKept DEF ClusterIInv, Asking
<1> QED
  BY <1>1, <1>5, <1>7, <1>8 DEF ClusterIInv

\* A join that found none, after it has saved what it fetched.
LEMMA JoinSelfStep ==
    ASSUME ClusterIInv, OneUserEach, NEW u \in User, JoinSelf(u) PROVE ClusterIInv'
<1> DEFINE rec == Worker(Home[u])
           k == job[u].id
<1>1. ClusterTypeOK' /\ job[u].pc = "save" /\ job[u].list = Nothing
  BY CommandType DEF Command, JoinSelf, At
<1>2. /\ UNCHANGED <<self, push, inbox, reg, drawn>> /\ Home[u] \in Machine
      /\ Save(Home[u], k, rec)
  BY ClusterAssumption DEF JoinSelf, syncState
<1>3. /\ k \in Id /\ Home[u] \notin Founders /\ Means(k, Home[u]) /\ job \in [User -> Job]
  BY <1>1, <1>2, HoldersMean
     DEF ClusterIInv, CommandsOK, Numbered, Joining, ClusterTypeOK, Job
<1>4. rec \in NodeRecord /\ rec.host = Home[u] /\ rec.role = "worker"
  BY <1>2 DEF NodeRecord, Worker
<1>5. CASE End(u)
  <2>1. job'[u] = Free /\ (\A v \in User : v # u => job'[v] = job[v]) /\ LocksOK'
    BY <1>1, <1>2, <1>5, EndStep
  <2>2. Free.list = Nothing /\ Free.id = None /\ Free.pc = "idle"
    BY DEF Free
  <2>3. /\ OneHost' /\ RolesOK' /\ FoundersRecord' /\ PushesOK' /\ UniqueHosts' /\ SavesSame'
        /\ NamesKept /\ NoNewNames
    BY <1>1, <1>2, <1>3, <1>4, <2>1, <2>2, JoinSavesSelf
  <2>4. RegistersOnce' /\ CommandsOK'
    BY <1>2, <2>1, <2>2, <2>3, RegistersKept, CommandsKept DEF ClusterIInv, Asking
  <2> QED
    BY <1>1, <2>1, <2>3, <2>4 DEF ClusterIInv
<1>6. CASE job' = [job EXCEPT ![u].pc = "register"] /\ UNCHANGED lock
  <2>1. /\ job'[u].pc = "register" /\ job'[u].id = k /\ job'[u].list = Nothing
        /\ job'[u].master = job[u].master /\ job'[u].direct = job[u].direct
        /\ \A v \in User : v # u => job'[v] = job[v]
    BY <1>1, <1>3, <1>6 DEF Job
  <2>2. /\ OneHost' /\ RolesOK' /\ FoundersRecord' /\ PushesOK' /\ UniqueHosts' /\ SavesSame'
        /\ NamesKept /\ NoNewNames /\ Named(nodes'[Home[u]], Home[u]) # {}
    BY <1>1, <1>2, <1>3, <1>4, <2>1, JoinSavesSelf
  <2>3. RegistersOnce'
    BY <1>1, <1>2, <2>1, <2>2, RegistersKept DEF ClusterIInv, Asking
  <2>4. LocksOK'
    BY <1>1, <1>2, <1>6, <2>1 DEF LocksOK, ClusterIInv
  <2>5. CommandsOK'
    <3>1. ASSUME NEW v \in User, job'[v].pc = "init"
          PROVE  Home[v] \in Founders /\ Named(nodes'[Home[v]], Home[v]) = {}
      <4>1. v # u /\ job'[v] = job[v]
        BY <2>1, <3>1
      <4> QED
        BY <2>2, <3>1, <4>1, ClusterAssumption DEF ClusterIInv, CommandsOK, NoNewNames
    <3>2. job[u].master \in Founders /\ k # None
      BY <1>1 DEF ClusterIInv, CommandsOK, Joining, Numbered
    <3> QED
      BY <1>3, <2>1, <3>1, <3>2 DEF ClusterIInv, CommandsOK, Joining, Numbered
  <2> QED
    BY <1>1, <2>2, <2>3, <2>4, <2>5 DEF ClusterIInv
<1> QED
  BY <1>5, <1>6 DEF JoinSelf

\* A join saves one of the records it has fetched.
LEMMA JoinSaveStep ==
    ASSUME ClusterIInv, NEW u \in User, JoinSave(u) PROVE ClusterIInv'
<1>1. ClusterTypeOK' /\ job[u].pc = "save"
  BY CommandType DEF Command, JoinSave, At
<1>2. UNCHANGED <<lock, self, push, inbox, reg, drawn>> /\ Home[u] \in Machine
  BY ClusterAssumption DEF JoinSave, syncState
<1>3. job \in [User -> Job] /\ job[u].list \in Bucket /\ Home[u] \notin Founders
  BY <1>1 DEF ClusterIInv, ClusterTypeOK, Job, CommandsOK, Joining
<1>4. PICK k \in Id, rec \in NodeRecord :
        /\ rec = job[u].list[k] /\ Save(Home[u], k, rec)
        /\ job' = [job EXCEPT ![u].list[k] = None]
  BY <1>3 DEF JoinSave, Bucket
<1>5. /\ job'[u].pc = "save" /\ job'[u].id = job[u].id /\ job'[u].master = job[u].master
      /\ job'[u].direct = job[u].direct
      /\ \A i \in Id : job'[u].list[i] \in {None, job[u].list[i]}
      /\ \A v \in User : v # u => job'[v] = job[v]
  BY <1>1, <1>3, <1>4 DEF Job, Bucket
<1>6. Recorded(k, rec) /\ Means(k, rec.host)
  BY <1>4, Places DEF Means
<1>7. NamesOnly(Home[u], k, rec.host) /\ Saved(Home[u], k, rec)
  <2>1. Save(Home[u], k, rec) /\ (Means(k, rec.host) \/ k \notin drawn)
    BY <1>4, <1>6
  <2> QED
    BY <1>2, <2>1, SaveNames, SaveSaves DEF ClusterIInv, ClusterTypeOK
<1>8. NamesKept /\ NoNewNames
  BY <1>3, <1>7, ClusterAssumption DEF NamesKept, NoNewNames, NamesOnly
<1>9. RecordsKept
  BY <1>2, <1>5, <1>6, <1>7, Places, RecordsFromOld, NothingTypes DEF Saved
<1>10. MeaningsKept
  BY <1>2, <1>5, <1>9, MeaningsFromOld, HoldersMean
<1>11. OneHost' /\ UniqueHosts' /\ FoundersRecord' /\ SavesSame' /\ RolesOK'
  BY <1>2, <1>8, <1>9, <1>10, OneHostKept, UniqueKept, FoundersKept, SavesKept, RolesKept,
     ClusterAssumption DEF ClusterIInv
<1>12. RegistersOnce'
  BY <1>1, <1>2, <1>5, <1>8, RegistersKept DEF ClusterIInv, Asking
<1>13. LocksOK'
  BY <1>1, <1>2, <1>5 DEF LocksOK, ClusterIInv
<1>14. CommandsOK'
  <2>1. ASSUME NEW v \in User, job'[v].pc = "init"
        PROVE  Home[v] \in Founders /\ Named(nodes'[Home[v]], Home[v]) = {}
    <3>1. v # u /\ job'[v] = job[v]
      BY <1>5, <2>1
    <3> QED
      BY <1>8, <2>1, <3>1, ClusterAssumption DEF ClusterIInv, CommandsOK, NoNewNames
  <2> QED
    BY <1>1, <1>5, <2>1 DEF ClusterIInv, CommandsOK, Joining, Numbered
<1>15. PushesOK'
  BY <1>2 DEF PushesOK, ClusterIInv
<1> QED
  BY <1>1, <1>11, <1>12, <1>13, <1>14, <1>15 DEF ClusterIInv

-----------------------------------------------------------------------------
(* Registrations, server add and server remove.                             *)

\* The look for the host of a registration.
LEMMA RegisterListStep ==
    ASSUME ClusterIInv, NEW q \in Id, RegisterList(q) PROVE ClusterIInv'
<1>1. ClusterTypeOK'
  BY MemberType
<1>2. UNCHANGED <<lock, nodes, self, push, inbox, job, drawn>>
  BY DEF RegisterList, syncState
<1> DEFINE there == Named(nodes[reg[q].to], reg[q].node.host)
<1>3. /\ reg[q] # None /\ reg[q].at = "sent" /\ reg[q] \in Registration
      /\ reg[q].to \in Founders /\ reg[q].node \in NodeRecord /\ reg[q].node.host \in Machine
      /\ reg \in [Id -> Registration \cup {None}]
  BY DEF RegisterList, Registering, ClusterIInv, ClusterTypeOK, RolesOK, Registration, NodeRecord
<1>4. /\ reg'[q].at = "save" /\ reg'[q].to = reg[q].to /\ reg'[q].node = reg[q].node
      /\ \/ there = {} /\ reg'[q].id = reg[q].id
         \/ reg'[q].id \in there
      /\ \A r \in Id : r # q => reg'[r] = reg[r]
  <2>1. CASE there = {} /\ reg' = [reg EXCEPT ![q].at = "save"]
    BY <1>3, <2>1 DEF Registration
  <2>2. ASSUME NEW k \in Id, First(nodes[reg[q].to], reg[q].node.host, k),
               reg' = [reg EXCEPT ![q].at = "save", ![q].id = k]
        PROVE  /\ reg'[q].at = "save" /\ reg'[q].to = reg[q].to
               /\ reg'[q].node = reg[q].node /\ reg'[q].id \in there
               /\ \A r \in Id : r # q => reg'[r] = reg[r]
    BY <1>3, <2>2 DEF Registration, First
  <2> QED
    BY <2>1, <2>2 DEF RegisterList
<1>5. there \subseteq {reg'[q].id}
  BY <1>3, <1>4 DEF ClusterIInv, UniqueHosts
<1>6. \A r \in Id : reg'[r] # None => /\ reg[r] # None /\ reg'[r].to = reg[r].to
                                       /\ reg'[r].node = reg[r].node
  BY <1>3, <1>4
<1>7. \A i \in there : i \in Id /\ Means(i, reg[q].node.host)
  <2> SUFFICES ASSUME NEW i \in there PROVE i \in Id /\ Means(i, reg[q].node.host)
    OBVIOUS
  <2>1. /\ i \in Id /\ nodes[reg[q].to][i] # None
        /\ nodes[reg[q].to][i].host = reg[q].node.host /\ reg[q].to \in Machine
    BY <1>3, ClusterAssumption DEF Named
  <2>2. nodes[reg[q].to][i] \in NodeRecord
    BY <2>1 DEF ClusterIInv, ClusterTypeOK, Bucket
  <2> QED
    BY <2>1, <2>2, Places DEF Means
<1>8. RecordsKept /\ NamesKept /\ NoNewNames
  BY <1>2, Places, RecordsFromOld, NodesKept
<1>9. MeaningsKept
  BY <1>2, <1>3, <1>4, <1>6, <1>7, <1>8, MeaningsFromOld, HoldersMean
<1>10. OneHost' /\ UniqueHosts' /\ FoundersRecord' /\ RolesOK' /\ RegistersOnce'
  BY <1>2, <1>6, <1>8, <1>9, OneHostKept, UniqueKept, FoundersKept, RolesKept, RegistersKept,
     ClusterAssumption DEF ClusterIInv
<1>11. SavesSame'
  BY <1>2, <1>4, <1>5 DEF ClusterIInv, SavesSame
<1>12. LocksOK'
  BY <1>2, <1>3, <1>4 DEF LocksOK, ClusterIInv
<1>13. CommandsOK' /\ PushesOK'
  BY <1>2 DEF CommandsOK, PushesOK, ClusterIInv, Named
<1> QED
  BY <1>1, <1>10, <1>11, <1>12, <1>13 DEF ClusterIInv

\* The save of a registration.
LEMMA RegisterSaveStep ==
    ASSUME ClusterIInv, NEW q \in Id, RegisterSave(q) PROVE ClusterIInv'
<1>1. ClusterTypeOK'
  BY MemberType
<1>2. /\ UNCHANGED <<lock, self, push, inbox, job, drawn>>
      /\ Save(reg[q].to, reg[q].id, reg[q].node)
  BY DEF RegisterSave, syncState
<1>3. /\ reg[q] # None /\ reg[q].at = "save" /\ reg[q] \in Registration
      /\ reg[q].to \in Founders /\ reg[q].node \in NodeRecord /\ reg[q].node.host \in Machine
      /\ reg[q].to \in Machine /\ reg[q].id \in Id
      /\ reg[q].node.host \notin Founders /\ reg[q].node.role = "worker"
      /\ Means(reg[q].id, reg[q].node.host)
      /\ reg \in [Id -> Registration \cup {None}]
  BY HoldersMean, ClusterAssumption
     DEF RegisterSave, Registering, ClusterIInv, ClusterTypeOK, RolesOK, Registration, NodeRecord
<1>4. /\ reg'[q].at = "done" /\ reg'[q].to = reg[q].to /\ reg'[q].node = reg[q].node
      /\ reg'[q].id = reg[q].id
      /\ \A r \in Id : r # q => reg'[r] = reg[r]
  BY <1>3 DEF RegisterSave, Registration
<1>5. OneHost' /\ RolesOK' /\ FoundersRecord' /\ PushesOK' /\ NamesKept
  BY <1>2, <1>3, <1>4, SaveKeeps
<1>6. NamesOnly(reg[q].to, reg[q].id, reg[q].node.host)
  BY <1>2, <1>3, SaveNames
<1>7. /\ Named(nodes'[reg[q].to], reg[q].node.host) \subseteq {reg[q].id}
      /\ \A n, h \in Machine : n # reg[q].to \/ h # reg[q].node.host =>
           Named(nodes'[n], h) \subseteq Named(nodes[n], h)
  BY <1>3, <1>6 DEF ClusterIInv, SavesSame, NamesOnly
<1>8. UniqueHosts'
  <2> SUFFICES ASSUME NEW s \in Founders, NEW h \in Machine
               PROVE  \A i, j \in Named(nodes'[s], h) : i = j
    BY DEF UniqueHosts
  <2>1. CASE s = reg[q].to /\ h = reg[q].node.host
    BY <1>7, <2>1
  <2>2. CASE s # reg[q].to \/ h # reg[q].node.host
    <3>1. s \in Machine
      BY ClusterAssumption
    <3>2. Named(nodes'[s], h) \subseteq Named(nodes[s], h)
      BY <1>7, <2>2, <3>1
    <3> QED
      BY <3>2 DEF ClusterIInv, UniqueHosts
  <2> QED
    BY <2>1, <2>2
<1>9. SavesSame'
  <2> SUFFICES ASSUME NEW r \in Id, r # q, reg[r] # None, reg[r].at = "save"
               PROVE  Named(nodes'[reg[r].to], reg[r].node.host) \subseteq {reg[r].id}
    BY <1>4 DEF SavesSame
  <2>1. /\ reg[r].to \in Machine /\ reg[r].node.host \in Machine
        /\ reg[r].node.host # reg[q].node.host
    BY <1>3, ClusterAssumption
       DEF ClusterIInv, RolesOK, RegistersOnce, ClusterTypeOK, Registration, NodeRecord
  <2> QED
    BY <1>7, <2>1 DEF ClusterIInv, SavesSame
<1>10. RegistersOnce'
  BY <1>2, <1>3, <1>4, <1>5, RegistersKept DEF ClusterIInv
<1>11. LocksOK'
  BY <1>2, <1>3, <1>4 DEF LocksOK, ClusterIInv
<1>12. CommandsOK'
  <2>1. ASSUME NEW v \in User, job[v].pc = "init"
        PROVE  Named(nodes'[Home[v]], Home[v]) = {}
    BY <1>3, <1>7, <2>1, ClusterAssumption DEF ClusterIInv, CommandsOK
  <2> QED
    BY <1>2, <2>1 DEF ClusterIInv, CommandsOK
<1> QED
  BY <1>1, <1>5, <1>8, <1>9, <1>10, <1>11, <1>12 DEF ClusterIInv

\* Nothing is under way where the database is free: no registration, no command.
LEMMA NobodyThere ==
    ASSUME ClusterIInv, OneFounder, NEW m \in Founders, lock[m] = "free"
    PROVE  /\ \A v \in User : job[v].pc # "init"
           /\ \A r \in Id : reg[r] # None => reg[r].at # "save"
  BY DEF ClusterIInv, LocksOK, CommandsOK, RolesOK, OneFounder

\* server add
LEMMA AddServerStep ==
    ASSUME ClusterIInv, OneFounder, NEW u \in User, NEW h \in Machine,
           NEW port \in {"grpc", "api"}, AddServer(u, h, port)
    PROVE  ClusterIInv'
<1>1. ClusterTypeOK'
  BY MemberType
<1>2. /\ UNCHANGED <<lock, self, push, inbox, job, reg>> /\ Home[u] \in Machine
      /\ Home[u] \in Founders /\ lock[Home[u]] = "free"
  BY ClusterAssumption DEF AddServer, syncState, Directly
<1>3. PICK k \in Id, rec \in NodeRecord :
        /\ Save(Home[u], k, rec) /\ rec.host = h
        /\ rec.role = "master" <=> h \in Founders
        /\ Named(nodes[Home[u]], h) \subseteq {k}
        /\ \/ Means(k, h) /\ UNCHANGED drawn
           \/ k \notin drawn /\ drawn' = drawn \cup {k}
  <2>0. PICK role \in {"master", "worker"} :
          role = IF h \in Founders THEN "master" ELSE "worker"
    OBVIOUS
  <2>1. ASSUME NEW i \in Id, First(nodes[Home[u]], h, i), UNCHANGED drawn,
               Save(Home[u], i, [nodes[Home[u]][i] EXCEPT !.role = role, !.port = port])
        PROVE  \E rec \in NodeRecord :
                 /\ Save(Home[u], i, rec) /\ rec.host = h
                 /\ rec.role = "master" <=> h \in Founders
                 /\ Named(nodes[Home[u]], h) \subseteq {i}
                 /\ Means(i, h) /\ UNCHANGED drawn
    <3>1. nodes[Home[u]][i] \in NodeRecord /\ nodes[Home[u]][i].host = h
      BY <1>2, <2>1 DEF First, Named, ClusterIInv, ClusterTypeOK, Bucket
    <3>2. Means(i, h)
      BY <1>2, <3>1, Places DEF Means
    <3>3. Named(nodes[Home[u]], h) \subseteq {i}
      BY <1>2, <2>1 DEF First, ClusterIInv, UniqueHosts
    <3>4. PICK old \in NodeRecord : old = nodes[Home[u]][i] /\ old.host = h
      BY <3>1
    <3>5. PICK rec \in NodeRecord : /\ Altered(rec, old, role, port)
                                    /\ rec.host = old.host /\ rec.role = role
      BY RoleSet
    <3>6. Save(Home[u], i, rec)
      BY <2>1, <3>4, <3>5, Zenon DEF Altered
    <3>7. rec.host = h /\ (rec.role = "master" <=> h \in Founders)
      BY <2>0, <3>4, <3>5
    <3> QED
      BY <2>1, <3>2, <3>3, <3>6, <3>7
  <2>2. ASSUME NEW i \in Id \ drawn, Draw(i), Named(nodes[Home[u]], h) = {},
               Save(Home[u], i, [host |-> h, role |-> role, online |-> FALSE, port |-> port])
        PROVE  \E rec \in NodeRecord :
                 /\ Save(Home[u], i, rec) /\ rec.host = h
                 /\ rec.role = "master" <=> h \in Founders
                 /\ Named(nodes[Home[u]], h) \subseteq {i}
                 /\ i \notin drawn /\ drawn' = drawn \cup {i}
    <3>1. [host |-> h, role |-> role, online |-> FALSE, port |-> port] \in NodeRecord
      BY DEF NodeRecord
    <3> QED
      BY <2>0, <2>2, <3>1 DEF Draw
  <2> QED
    BY <2>0, <2>1, <2>2 DEF AddServer
<1>4. OneHost' /\ RolesOK' /\ FoundersRecord' /\ PushesOK' /\ NamesKept
  <2>1. rec.host \in Founders => Home[u] = rec.host
    BY <1>2 DEF OneFounder
  <2>2. \A v \in User, i \in Id : /\ job'[v].list[i] \in {None, job[v].list[i]}
                                 /\ job'[v].id \in {None, job[v].id}
    BY <1>2
  <2> QED
    BY <1>2, <1>3, <2>1, <2>2, SaveKeeps
<1>5. /\ Named(nodes'[Home[u]], h) \subseteq {k}
      /\ \A n, g \in Machine : n # Home[u] \/ g # h =>
           Named(nodes'[n], g) \subseteq Named(nodes[n], g)
  <2>1. NamesOnly(Home[u], k, h)
    BY <1>2, <1>3, SaveNames
  <2> QED
    BY <1>3, <2>1 DEF NamesOnly
<1>6. UniqueHosts'
  BY <1>2, <1>5, ClusterAssumption DEF ClusterIInv, UniqueHosts
<1>7. SavesSame' /\ CommandsOK'
  BY <1>2, NobodyThere DEF SavesSame, CommandsOK, ClusterIInv
<1>8. RegistersOnce'
  BY <1>2, <1>4, RegistersKept DEF ClusterIInv
<1>9. LocksOK'
  BY <1>2 DEF LocksOK, ClusterIInv
<1> QED
  BY <1>1, <1>4, <1>6, <1>7, <1>8, <1>9 DEF ClusterIInv

\* server remove
LEMMA RemoveServerStep ==
    ASSUME ClusterIInv, NEW u \in User, NEW h \in Machine, RemoveServer(u, h)
    PROVE  ClusterIInv'
<1>1. ClusterTypeOK'
  BY MemberType
<1>2. /\ UNCHANGED <<lock, self, push, inbox, job, reg, drawn>> /\ Home[u] \in Machine
      /\ nodes \in [Machine -> Bucket]
  BY ClusterAssumption DEF RemoveServer, syncState, ClusterIInv, ClusterTypeOK
<1>3. PICK k \in Id : k \in Named(nodes[Home[u]], h) /\ h # Home[u] /\ Save(Home[u], k, None)
  BY DEF RemoveServer, First
<1>4. /\ \A n \in Machine, i \in Id : nodes'[n][i] = nodes[n][i]
                                      \/ (n = Home[u] /\ i = k /\ nodes'[n][i] = None)
      /\ \A n \in Machine : n # Home[u] => nodes'[n] = nodes[n]
  BY <1>2, <1>3 DEF Save, Bucket
<1>5. RecordsKept
  BY <1>2, <1>4, Places, RecordsFromOld, NothingTypes
<1>6. MeaningsKept
  BY <1>2, <1>5, MeaningsFromOld, HoldersMean
<1>7. NamesKept /\ NoNewNames
  BY <1>3, <1>4, ClusterAssumption DEF NamesKept, NoNewNames, Named
<1>8. OneHost' /\ UniqueHosts' /\ FoundersRecord' /\ SavesSame' /\ RolesOK' /\ RegistersOnce'
  BY <1>2, <1>5, <1>6, <1>7, OneHostKept, UniqueKept, FoundersKept, SavesKept, RolesKept,
     RegistersKept, ClusterAssumption DEF ClusterIInv
<1>9. CommandsOK'
  BY <1>2, <1>7, CommandsKept DEF ClusterIInv
<1>10. LocksOK' /\ PushesOK'
  BY <1>2 DEF LocksOK, PushesOK, ClusterIInv
<1> QED
  BY <1>1, <1>8, <1>9, <1>10 DEF ClusterIInv

-----------------------------------------------------------------------------
(* The theorems.                                                            *)

LEMMA ClusterInitInv == ClusterInit => ClusterIInv
<1> SUFFICES ASSUME ClusterInit PROVE ClusterIInv
  OBVIOUS
<1>1. /\ \A m \in Machine : /\ nodes[m] = Nothing /\ lock[m] = "free" /\ self[m] = None
                            /\ push[m] = NoPush
      /\ \A u \in User : job[u] = Free
      /\ \A r \in Id : reg[r] = None /\ Nothing[r] = None
      /\ inbox = {}
  BY DEF ClusterInit, Nothing
<1>2. \A i \in Id, h \in Machine : ~Means(i, h)
  BY <1>1, ClusterNone, ClusterAssumption DEF Means, Recorded, NoPush, Free
<1>3. \A i \in Id, rec \in NodeRecord : ~Recorded(i, rec)
  BY <1>1, ClusterNone, ClusterAssumption DEF Recorded, NoPush, Free
<1>4. \A m, h \in Machine : Named(nodes[m], h) = {}
  BY <1>1 DEF Named
<1>5. ClusterTypeOK
  <2>1. Nothing \in Bucket /\ Nothing \in [Id -> Registration \cup {None}]
    BY DEF Nothing, Bucket
  <2>2. [o \in Object |-> 0] \in Data
    BY ClusterAssumption DEF Data, Gone
  <2> QED
    BY <2>1, <2>2, NothingTypes, ClusterAssumption DEF ClusterInit, ClusterTypeOK
<1>6. OneHost /\ RolesOK /\ FoundersRecord
  BY <1>1, <1>2, <1>3 DEF OneHost, RolesOK, FoundersRecord
<1>7. LocksOK /\ CommandsOK /\ RegistersOnce /\ SavesSame
  BY <1>1 DEF LocksOK, CommandsOK, RegistersOnce, SavesSame, Free, Joining, Numbered
<1>8. PushesOK
  <2>1. NoPush.waits = None /\ NoPush.todo = {} /\ None \notin Founders
    BY NothingTypes, ClusterAssumption DEF NoPush
  <2> QED
    BY <1>1, <2>1 DEF PushesOK
<1>9. UniqueHosts
  BY <1>4, ClusterAssumption DEF UniqueHosts
<1> QED
  BY <1>5, <1>6, <1>7, <1>8, <1>9 DEF ClusterIInv

\* Every step, or none, keeps the invariant.
LEMMA ClusterNextInv ==
    ASSUME ClusterIInv, OneFounder, OneUserEach, [ClusterNext]_clusterVars
    PROVE  ClusterIInv'
<1>1. ASSUME NEW u \in User, BeginInit(u) \/ Command(u) PROVE ClusterIInv'
  BY <1>1, BeginInitStep, InitSaveStep, JoinUpdateStep, FetchStep, JoinSaveStep, JoinSelfStep,
     RegisterStep DEF Command
<1>2. ASSUME NEW u \in User, NEW h \in Machine, BeginJoin(u, h) \/ RemoveServer(u, h)
      PROVE  ClusterIInv'
  BY <1>2, BeginJoinStep, RemoveServerStep
<1>3. ASSUME NEW u \in User, NEW h \in Machine, NEW port \in {"grpc", "api"},
             AddServer(u, h, port)
      PROVE  ClusterIInv'
  BY <1>3, AddServerStep
<1>4. ASSUME NEW i \in Id, RegisterList(i) \/ RegisterSave(i) PROVE ClusterIInv'
  BY <1>4, RegisterListStep, RegisterSaveStep
<1>5. ASSUME NEW m \in Machine, Start(m) \/ Stop(m) \/ Down(m) PROVE ClusterIInv'
  BY <1>5, StartStopStep, DownStep
<1>6. ASSUME NEW m \in Machine, PushRead(m) \/ PushSend(m) \/ PushAnswer(m)
      PROVE  ClusterIInv'
  BY <1>6, PushReadStep, PushSendStep, PushAnswerStep
<1>7. ASSUME NEW m \in Machine, NEW o \in Object, Change(m, o) PROVE ClusterIInv'
  BY <1>7, ChangeStep
<1>8. ASSUME NEW msg \in inbox, Receive(msg) PROVE ClusterIInv'
  BY <1>8, ReceiveStep
<1>9. CASE UNCHANGED clusterVars
  BY <1>9 DEF clusterVars, ClusterIInv, ClusterTypeOK, OneHost, RolesOK, LocksOK, CommandsOK,
              PushesOK, RegistersOnce, SavesSame, FoundersRecord, UniqueHosts, Means, Recorded,
              Named
<1> QED
  BY <1>1, <1>2, <1>3, <1>4, <1>5, <1>6, <1>7, <1>8, <1>9 DEF ClusterNext

\* The inductive invariant holds: with one founder, and one user at a time on each
\* machine, whatever fails, comes late, goes down or is drawn.
THEOREM ClusterInvariantHolds ==
    ASSUME OneFounder, OneUserEach PROVE ClusterSpec => []ClusterIInv
<1>1. ClusterIInv /\ [ClusterNext]_clusterVars => ClusterIInv'
  BY ClusterNextInv
<1> QED
  BY <1>1, ClusterInitInv, PTL DEF ClusterSpec

\* Every variable keeps to its type.
THEOREM ClusterTypes ==
    ASSUME OneFounder, OneUserEach PROVE ClusterSpec => []ClusterTypeOK
<1>1. ClusterIInv => ClusterTypeOK
  BY DEF ClusterIInv
<1> QED
  BY <1>1, ClusterInvariantHolds, PTL

\* handleNodeRegister, server add and the join never give a host two records in
\* the founder's database, for any number of machines, users and node IDs.
THEOREM HostsAreUnique ==
    ASSUME OneFounder, OneUserEach PROVE ClusterSpec => []UniqueHosts
<1>1. ClusterIInv => UniqueHosts
  BY DEF ClusterIInv
<1> QED
  BY <1>1, ClusterInvariantHolds, PTL

\* Two masters in two databases are the founder, under the one ID that the
\* founder's own database has for it.
LEMMA OneMasterFromInv ==
    ASSUME ClusterIInv, OneFounder PROVE OneMaster
<1> SUFFICES ASSUME NEW m \in Machine, NEW n \in Machine, NEW i \in Id, NEW j \in Id,
                    nodes[m][i] # None, nodes[m][i].role = "master",
                    nodes[n][j] # None, nodes[n][j].role = "master"
             PROVE  i = j
  BY DEF OneMaster
<1>1. PICK s \in Machine : Founders = {s}
  BY DEF OneFounder
<1>2. nodes[m][i] \in NodeRecord /\ nodes[n][j] \in NodeRecord
  BY DEF ClusterIInv, ClusterTypeOK, Bucket
<1>3. Recorded(i, nodes[m][i]) /\ Recorded(j, nodes[n][j])
  BY DEF Recorded
<1>4. nodes[m][i].host = s /\ nodes[n][j].host = s
  BY <1>1, <1>2, <1>3 DEF ClusterIInv, RolesOK
<1>5. i \in Named(nodes[s], s)
  BY <1>1, <1>2, <1>3, <1>4 DEF ClusterIInv, FoundersRecord
<1>6. j \in Named(nodes[s], s)
  BY <1>1, <1>2, <1>3, <1>4 DEF ClusterIInv, FoundersRecord
<1> QED
  BY <1>1, <1>5, <1>6 DEF ClusterIInv, UniqueHosts

\* Whoever knows a master knows the same one: joins and pushes carry the founder's
\* record under the founder's own ID.
THEOREM OneMasterForAll ==
    ASSUME OneFounder, OneUserEach PROVE ClusterSpec => []OneMaster
<1>1. ClusterIInv => OneMaster
  BY OneMasterFromInv
<1> QED
  BY <1>1, ClusterInvariantHolds, PTL

\* Only the founder changes its deployments and containers, and only forwards.
LEMMA NotSetBackStep ==
    ASSUME ClusterIInv, [ClusterNext]_clusterVars, NEW s \in Founders, NEW o \in Object
    PROVE  data'[s][o] >= data[s][o]
<1>1. /\ s \in Machine /\ data \in [Machine -> Data] /\ data[s] \in Data
      /\ data[s][o] \in 0 .. Gone /\ Gone \in Nat /\ MaxVersion \in Nat
  BY ClusterAssumption DEF ClusterIInv, ClusterTypeOK, Data, Gone
<1>2. ASSUME NEW m \in Machine, NEW p \in Object, Change(m, p)
      PROVE  data'[s][o] >= data[s][o]
  <2>1. PICK v \in {data[m][p] + 1, Gone} : data' = [data EXCEPT ![m][p] = v] /\ data[m][p] # Gone
    BY <1>2 DEF Change
  <2>2. CASE m = s /\ p = o
    <3>1. data'[s][o] = v
      BY <1>1, <2>1, <2>2 DEF Data
    <3> QED
      BY <1>1, <2>1, <2>2, <3>1
  <2>3. CASE m # s \/ p # o
    <3>1. data'[s][o] = data[s][o]
      BY <1>1, <2>1, <2>3 DEF Data
    <3> QED
      BY <1>1, <3>1
  <2> QED
    BY <2>2, <2>3
<1>3. ASSUME NEW msg \in inbox, Receive(msg) PROVE data'[s][o] >= data[s][o]
  <2>1. msg.to # s
    BY DEF ClusterIInv, PushesOK
  <2>2. data'[s] = data[s]
    BY <1>1, <1>3, <2>1 DEF Receive
  <2> QED
    BY <1>1, <2>2
<1>4. CASE UNCHANGED data
  BY <1>1, <1>4
<1> QED
  BY <1>2, <1>3, <1>4
     DEF ClusterNext, clusterVars, Command, BeginInit, InitSave, BeginJoin, JoinUpdate, Fetch,
         JoinSave, JoinSelf, Register, Registered, RegisterList, RegisterSave, AddServer,
         RemoveServer, Start, Stop, Down, PushRead, PushSend, PushAnswer

\* No push, however late, sets back what the founder has saved since: pushes are
\* received by others only.
THEOREM MasterIsNotSetBack ==
    ASSUME OneFounder, OneUserEach PROVE ClusterSpec => MasterNotSetBack
<1>1. ClusterIInv /\ [ClusterNext]_clusterVars
        => [\A s \in Founders, o \in Object : data'[s][o] >= data[s][o]]_clusterVars
  BY NotSetBackStep
<1> QED
  BY <1>1, ClusterInvariantHolds, PTL DEF ClusterSpec, MasterNotSetBack
====================================================================================
