--------------------------------- MODULE Cluster ---------------------------------
(***************************************************************************)
(* Membership and synchronisation: the node records in the databases of    *)
(* the machines, cluster init, cluster join with the registration at the   *)
(* master, server add and remove, and the state that a master pushes to    *)
(* its workers (internal/api/server.go, internal/cluster/sync.go,          *)
(* cmd/dockdockgo/server.go).                                              *)
(*                                                                         *)
(* Every machine has a database of its own.  A command goes through the    *)
(* server of its machine when that runs, and else opens the database       *)
(* itself; the lock of the file keeps the two apart.                       *)
(***************************************************************************)
EXTENDS Integers, FiniteSets

CONSTANTS
    Machine,      \* machines, known by their host names
    Founders,     \* the machines on which somebody runs cluster init
    User,         \* who runs cluster commands, one at a time
    Home,         \* the machine on which a user runs them
    MaxId,        \* bound: node IDs ever drawn
    Object,       \* deployments and containers, as the sync sees them
    MaxVersion,   \* bound: saves of one object
    MaxDowns,     \* bound: deaths of a server or of a command
    MaxTimeouts,  \* bound: pushes whose answer took more than 10 seconds
    LinkFaults,   \* TRUE if an HTTP exchange may fail or lose its answer
    None          \* no record

\* A node ID is its rank in the node bucket: IDs are random, so that a new one
\* may come anywhere in the order in which ListNodes returns them.
Id == 1 .. MaxId
\* What the sync tells apart of an object: never saved, a version, deleted.
Gone == MaxVersion + 1
Present == 1 .. MaxVersion

ASSUME ClusterAssumption ==
    /\ Founders \subseteq Machine
    /\ Home \in [User -> Machine]
    /\ MaxId \in Nat /\ MaxVersion \in Nat /\ MaxDowns \in Nat /\ MaxTimeouts \in Nat
    /\ LinkFaults \in BOOLEAN

\* init and join write port 8443, where no server listens ("grpc"); server add
\* can set the port of the API.
NodeRecord == [host : Machine, role : {"master", "worker"}, online : BOOLEAN,
               port : {"grpc", "api"}]
Bucket == [Id -> NodeRecord \cup {None}]
Data == [Object -> 0 .. Gone]
\* A registration at a master: the record it was sent, and under which ID it is
\* about to save it.
Registration == [at : {"sent", "save", "done", "lost"}, to : Machine,
                 node : NodeRecord, id : Id]
Job == [pc : {"idle", "init", "update", "fetch", "save", "register", "registered"},
        direct : BOOLEAN,              \* the command has the database open itself
        master : Machine \cup {None},  \* whom to join
        id : Id \cup {None},           \* the record worked on, or the new one's,
        rec : NodeRecord \cup {None},  \* and what the command has read of it
        list : Bucket]                 \* records fetched and still to save
Message == [to : Machine, nodes : Bucket, data : Data]
Push == [todo : SUBSET Id, waits : Machine \cup {None}, nodes : Bucket, data : Data]

ASSUME ClusterNone ==
    None \notin NodeRecord /\ None \notin Machine /\ None \notin Id /\ None \notin Registration

VARIABLES
    lock,      \* who has a machine's database open: "free", "server" or "cli"
    nodes,     \* the node bucket of each machine
    data,      \* the deployments and containers in its database
    self,      \* currentNode of its server's sync manager, None without one
    push,      \* the push its sync manager is busy with
    inbox,     \* pushed states that a server has received and not yet saved
    job,       \* what each user's command is doing
    reg,       \* registrations, by the ID of the node
    drawn,     \* node IDs that were drawn
    downs, timeouts

clusterVars == <<lock, nodes, data, self, push, inbox, job, reg, drawn, downs, timeouts>>
syncState == <<self, push, inbox, timeouts>>

Nothing == [i \in Id |-> None]
Free == [pc |-> "idle", direct |-> FALSE, master |-> None, id |-> None,
         rec |-> None, list |-> Nothing]
NoPush == [todo |-> {}, waits |-> None, nodes |-> Nothing, data |-> [o \in Object |-> 0]]

Up(m) == lock[m] = "server"
Named(bucket, h) == {i \in Id : bucket[i] # None /\ bucket[i].host = h}
\* The record of a host that a walk over the bucket finds first.
First(bucket, h, i) == i \in Named(bucket, h) /\ \A j \in Named(bucket, h) : i <= j
Save(m, i, rec) == nodes' = [nodes EXCEPT ![m][i] = rec]
At(u, label) == job[u].pc = label
Draw(i) == drawn' = drawn \cup {i}

\* A user starts a command.
Begin(u, j) ==
    /\ At(u, "idle") /\ lock[Home[u]] \in {"server", "free"}
    /\ job' = [job EXCEPT ![u] = [j EXCEPT !.direct = ~Up(Home[u])]]
    /\ lock' = [lock EXCEPT ![Home[u]] = IF Up(Home[u]) THEN "server" ELSE "cli"]
End(u) ==
    /\ job' = [job EXCEPT ![u] = Free]
    /\ lock' = [lock EXCEPT ![Home[u]] = IF job[u].direct THEN "free" ELSE @]

-----------------------------------------------------------------------------
(* cluster init                                                             *)

\* The look for existing nodes.
BeginInit(u) ==
    /\ Home[u] \in Founders /\ nodes[Home[u]] = Nothing
    /\ \E i \in Id \ drawn : Begin(u, [Free EXCEPT !.pc = "init", !.id = i]) /\ Draw(i)
    /\ UNCHANGED <<nodes, data, syncState, reg, downs>>

InitSave(u) ==
    /\ At(u, "init")
    /\ Save(Home[u], job[u].id, [host |-> Home[u], role |-> "master", online |-> TRUE,
                                 port |-> "grpc"])
    /\ End(u)
    /\ UNCHANGED <<data, syncState, reg, drawn, downs>>

-----------------------------------------------------------------------------
(* cluster join                                                             *)

\* The look for this host's record in this machine's own database.
BeginJoin(u, s) ==
    LET h == Home[u]
        start == [Free EXCEPT !.master = s]
    IN /\ s \in Founders /\ s # h
       /\ \/ \E i \in Id : /\ First(nodes[h], h, i)
                           /\ Begin(u, [start EXCEPT !.pc = "update", !.id = i,
                                                     !.rec = nodes[h][i]])
          \/ /\ Named(nodes[h], h) = {}
             /\ Begin(u, [start EXCEPT !.pc = "fetch"])
       /\ UNCHANGED <<nodes, data, syncState, reg, drawn, downs>>

\* A host that is there is only marked as an online worker, in this database.
JoinUpdate(u) ==
    /\ At(u, "update")
    /\ Save(Home[u], job[u].id, [job[u].rec EXCEPT !.role = "worker", !.online = TRUE])
    /\ End(u)
    /\ UNCHANGED <<data, syncState, reg, drawn, downs>>

\* GET /nodes at the master; the ID of the new record is drawn here.
Fetch(u) ==
    /\ At(u, "fetch")
    /\ \/ /\ Up(job[u].master)
          /\ \E i \in Id \ drawn :
               /\ Draw(i)
               /\ job' = [job EXCEPT ![u].pc = "save", ![u].id = i,
                                     ![u].list = nodes[job[u].master]]
          /\ UNCHANGED lock
       \/ (~Up(job[u].master) \/ LinkFaults) /\ End(u) /\ UNCHANGED drawn
    /\ UNCHANGED <<nodes, data, syncState, reg, downs>>

\* The master's records are saved one by one.
JoinSave(u) ==
    /\ At(u, "save")
    /\ \E i \in Id :
         /\ job[u].list[i] # None /\ \A j \in Id : j < i => job[u].list[j] = None
         /\ Save(Home[u], i, job[u].list[i])
         /\ job' = [job EXCEPT ![u].list[i] = None]
    /\ UNCHANGED <<lock, data, syncState, reg, drawn, downs>>

\* Slip: a machine that joins calls itself a master.
Worker_Master(h) == [host |-> h, role |-> "master", online |-> TRUE, port |-> "grpc"]

Worker(h) == [host |-> h, role |-> "worker", online |-> TRUE, port |-> "grpc"]

\* This machine's own record.  A command that works without the server does
\* not register with the master.
JoinSelf(u) ==
    /\ At(u, "save") /\ job[u].list = Nothing
    /\ Save(Home[u], job[u].id, Worker(Home[u]))
    /\ \/ job[u].direct /\ End(u)
       \/ ~job[u].direct /\ job' = [job EXCEPT ![u].pc = "register"] /\ UNCHANGED lock
    /\ UNCHANGED <<data, syncState, reg, drawn, downs>>

\* POST /nodes/register; a failure is only logged.
Register(u) ==
    /\ At(u, "register")
    /\ \/ /\ Up(job[u].master)
          /\ reg' = [reg EXCEPT ![job[u].id] =
                        [at |-> "sent", to |-> job[u].master, node |-> Worker(Home[u]),
                         id |-> job[u].id]]
          /\ job' = [job EXCEPT ![u].pc = "registered"] /\ UNCHANGED lock
       \/ (~Up(job[u].master) \/ LinkFaults) /\ End(u) /\ UNCHANGED reg
    /\ UNCHANGED <<nodes, data, syncState, drawn, downs>>

Registered(u) ==
    /\ At(u, "registered")
    /\ LinkFaults \/ reg[job[u].id].at \in {"done", "lost"}
    /\ End(u)
    /\ UNCHANGED <<nodes, data, syncState, reg, drawn, downs>>

Registering(i, at) == reg[i] # None /\ reg[i].at = at

\* Slip: the master does not look for a record of the host.
RegisterList_New(i) ==
    /\ Registering(i, "sent")
    /\ reg' = [reg EXCEPT ![i].at = "save"]
    /\ UNCHANGED <<lock, nodes, data, syncState, job, drawn, downs>>

\* handleNodeRegister: the look for the host, in the master's database.  What is
\* modelled of a record that is there is replaced, but for its ID.
RegisterList(i) ==
    /\ Registering(i, "sent")
    /\ LET here == nodes[reg[i].to]
           host == reg[i].node.host
       IN \/ /\ Named(here, host) = {}
             /\ reg' = [reg EXCEPT ![i].at = "save"]
          \/ \E k \in Id : /\ First(here, host, k)
                           /\ reg' = [reg EXCEPT ![i].at = "save", ![i].id = k]
    /\ UNCHANGED <<lock, nodes, data, syncState, job, drawn, downs>>

RegisterSave(i) ==
    /\ Registering(i, "save")
    /\ Save(reg[i].to, reg[i].id, reg[i].node)
    /\ reg' = [reg EXCEPT ![i].at = "done"]
    /\ UNCHANGED <<lock, data, syncState, job, drawn, downs>>

-----------------------------------------------------------------------------
(* server add and server remove work on the database directly.              *)

Directly(u) == At(u, "idle") /\ lock[Home[u]] = "free"

\* Users keep the roles: the founder is added as master, others as workers.
AddServer(u, h, port) ==
    LET m == Home[u]
        role == IF h \in Founders THEN "master" ELSE "worker"
    IN /\ Directly(u) /\ m \in Founders
       /\ \/ \E i \in Id :
               /\ First(nodes[m], h, i)
               /\ Save(m, i, [nodes[m][i] EXCEPT !.role = role, !.port = port])
               /\ UNCHANGED drawn
          \/ /\ Named(nodes[m], h) = {}
             /\ \E i \in Id \ drawn :
                  /\ Draw(i)
                  /\ Save(m, i, [host |-> h, role |-> role, online |-> FALSE, port |-> port])
       /\ UNCHANGED <<lock, data, syncState, job, reg, downs>>

\* Nobody removes the machine he works on.
RemoveServer(u, h) ==
    /\ Directly(u) /\ Home[u] \in Founders /\ h # Home[u]
    /\ \E i \in Id : First(nodes[Home[u]], h, i) /\ Save(Home[u], i, None)
    /\ UNCHANGED <<lock, data, syncState, job, reg, drawn, downs>>

-----------------------------------------------------------------------------
(* The sync manager.                                                        *)

\* Slip: what was deleted is deleted again.
Change_Again(m, o) ==
    /\ m \in Founders /\ lock[m] # "cli"
    /\ data' = [data EXCEPT ![m][o] = @ + 1]
    /\ UNCHANGED <<lock, nodes, syncState, job, reg, drawn, downs>>

\* A founder's deployment manager saves a deployment or container, or deletes it.
Change(m, o) ==
    /\ m \in Founders /\ lock[m] # "cli" /\ data[m][o] # Gone
    /\ \E v \in {data[m][o] + 1, Gone} :
         /\ data[m][o] = 0 => v # Gone
         /\ data' = [data EXCEPT ![m][o] = v]
    /\ UNCHANGED <<lock, nodes, syncState, job, reg, drawn, downs>>

\* Slip: the state is pushed to every node, whatever its role.
PushRead_All(m) ==
    /\ Up(m) /\ self[m] # None /\ self[m].role = "master"
    /\ push[m].todo = {} /\ push[m].waits = None
    /\ LET to == {i \in Id : nodes[m][i] # None /\ nodes[m][i].online}
       IN /\ to # {}
          /\ push' = [push EXCEPT ![m] = [todo |-> to, waits |-> None,
                                          nodes |-> nodes[m], data |-> data[m]]]
    /\ UNCHANGED <<lock, nodes, data, self, inbox, timeouts, job, reg, drawn, downs>>

\* performSync of a master: the state is read, and who is to have it.
PushRead(m) ==
    /\ Up(m) /\ self[m] # None /\ self[m].role = "master"
    /\ push[m].todo = {} /\ push[m].waits = None
    /\ LET to == {i \in Id : /\ nodes[m][i] # None /\ nodes[m][i].online
                              /\ nodes[m][i].role = "worker"}
       IN /\ to # {}
          /\ push' = [push EXCEPT ![m] = [todo |-> to, waits |-> None,
                                          nodes |-> nodes[m], data |-> data[m]]]
    /\ UNCHANGED <<lock, nodes, data, self, inbox, timeouts, job, reg, drawn, downs>>

\* sendSyncData to the next worker: it arrives where a server listens on the
\* port of the record.
PushSend(m) ==
    /\ push[m].waits = None
    /\ \E i \in push[m].todo :
         LET node == push[m].nodes[i]
             arrives == node.port = "api" /\ Up(node.host)
         IN /\ \A j \in push[m].todo : i <= j
            /\ \/ /\ arrives
                  /\ inbox' = inbox \cup {[to |-> node.host, nodes |-> push[m].nodes,
                                           data |-> push[m].data]}
                  /\ push' = [push EXCEPT ![m].todo = @ \ {i}, ![m].waits = node.host]
               \/ /\ ~arrives
                  /\ push' = IF push[m].todo = {i} THEN [push EXCEPT ![m] = NoPush]
                              ELSE [push EXCEPT ![m].todo = @ \ {i}]
                  /\ UNCHANGED inbox
    /\ UNCHANGED <<lock, nodes, data, self, timeouts, job, reg, drawn, downs>>

\* The answer, an error when the other server died, or the end of the 10 seconds.
PushAnswer(m) ==
    LET sent == [to |-> push[m].waits, nodes |-> push[m].nodes, data |-> push[m].data]
    IN /\ push[m].waits # None
       /\ \/ sent \notin inbox /\ UNCHANGED timeouts
          \/ /\ sent \in inbox /\ timeouts < MaxTimeouts /\ timeouts' = timeouts + 1
       /\ push' = IF push[m].todo = {} THEN [push EXCEPT ![m] = NoPush]
                   ELSE [push EXCEPT ![m].waits = None]
       /\ UNCHANGED <<lock, nodes, data, self, inbox, job, reg, drawn, downs>>

\* Slip: only records that are not there yet are saved.
Receive_New(msg) ==
    /\ Up(msg.to) /\ msg \in inbox /\ inbox' = inbox \ {msg}
    /\ nodes' = [nodes EXCEPT ![msg.to] =
           [i \in Id |-> IF @[i] = None THEN msg.nodes[i] ELSE @[i]]]
    /\ data' = [data EXCEPT ![msg.to] =
           [o \in Object |-> IF @[o] = 0 THEN msg.data[o] ELSE @[o]]]
    /\ UNCHANGED <<lock, self, push, timeouts, job, reg, drawn, downs>>

\* handlePostClusterSync: what is in the message is saved, nothing is deleted.
Receive(msg) ==
    /\ Up(msg.to) /\ msg \in inbox /\ inbox' = inbox \ {msg}
    /\ nodes' = [nodes EXCEPT ![msg.to] =
           [i \in Id |-> IF msg.nodes[i] # None THEN msg.nodes[i] ELSE @[i]]]
    /\ data' = [data EXCEPT ![msg.to] =
           [o \in Object |-> IF msg.data[o] \in Present THEN msg.data[o] ELSE @[o]]]
    /\ UNCHANGED <<lock, self, push, timeouts, job, reg, drawn, downs>>

-----------------------------------------------------------------------------
(* The life of the servers.                                                 *)

\* Start and initializeSyncManager: currentNode is looked up once.
Start(m) ==
    /\ lock[m] = "free" /\ lock' = [lock EXCEPT ![m] = "server"]
    /\ \/ \E i \in Id : First(nodes[m], m, i) /\ self' = [self EXCEPT ![m] = nodes[m][i]]
       \/ Named(nodes[m], m) = {} /\ self' = [self EXCEPT ![m] = None]
    /\ UNCHANGED <<nodes, data, push, inbox, timeouts, job, reg, drawn, downs>>

\* An orderly end, with nothing under way.
Stop(m) ==
    /\ Up(m) /\ push[m] = NoPush
    /\ \A u \in User : Home[u] = m => At(u, "idle")
    /\ \A i \in Id : reg[i] # None /\ reg[i].to = m => reg[i].at \notin {"sent", "save"}
    /\ \A msg \in inbox : msg.to # m
    /\ lock' = [lock EXCEPT ![m] = "free"]
    /\ self' = [self EXCEPT ![m] = None]
    /\ UNCHANGED <<nodes, data, push, inbox, timeouts, job, reg, drawn, downs>>

\* What happens in the process that has m's database open ends with it.
Down(m) ==
    /\ lock[m] # "free" /\ downs < MaxDowns
    /\ downs' = downs + 1
    /\ lock' = [lock EXCEPT ![m] = "free"]
    /\ self' = [self EXCEPT ![m] = None]
    /\ push' = [push EXCEPT ![m] = NoPush]
    /\ inbox' = {msg \in inbox : msg.to # m}
    /\ job' = [u \in User |-> IF Home[u] = m THEN Free ELSE job[u]]
    /\ reg' = [i \in Id |-> IF /\ reg[i] # None /\ reg[i].to = m
                               /\ reg[i].at \in {"sent", "save"}
                            THEN [reg[i] EXCEPT !.at = "lost"] ELSE reg[i]]
    /\ UNCHANGED <<nodes, data, timeouts, drawn>>

-----------------------------------------------------------------------------
ClusterInit ==
    /\ lock = [m \in Machine |-> "free"]
    /\ nodes = [m \in Machine |-> Nothing]
    /\ data = [m \in Machine |-> [o \in Object |-> 0]]
    /\ self = [m \in Machine |-> None]
    /\ push = [m \in Machine |-> NoPush]
    /\ inbox = {}
    /\ job = [u \in User |-> Free]
    /\ reg = Nothing /\ drawn = {} /\ downs = 0 /\ timeouts = 0

Command(u) ==
    \/ InitSave(u) \/ JoinUpdate(u) \/ Fetch(u) \/ JoinSave(u) \/ JoinSelf(u)
    \/ Register(u) \/ Registered(u)

ClusterNext ==
    \/ \E u \in User :
         \/ BeginInit(u) \/ Command(u)
         \/ \E h \in Machine : BeginJoin(u, h) \/ RemoveServer(u, h)
         \/ \E h \in Machine, port \in {"grpc", "api"} : AddServer(u, h, port)
    \/ \E i \in Id : RegisterList(i) \/ RegisterSave(i)
    \/ \E m \in Machine : Start(m) \/ Stop(m) \/ Down(m) \/ PushRead(m) \/ PushSend(m) \/ PushAnswer(m)
    \/ \E m \in Machine, o \in Object : Change(m, o)
    \/ \E msg \in inbox : Receive(msg)

ClusterSpec == ClusterInit /\ [][ClusterNext]_clusterVars

\* Commands, handlers and sync loops keep running while their process lives;
\* the ticker starts a sync again and again.
ClusterFairSpec ==
    /\ ClusterSpec
    /\ \A u \in User : WF_clusterVars(Command(u))
    /\ \A i \in Id : WF_clusterVars(RegisterList(i) \/ RegisterSave(i))
    /\ \A m \in Machine :
         /\ WF_clusterVars(PushRead(m) \/ PushSend(m) \/ PushAnswer(m))
         /\ WF_clusterVars(\E msg \in inbox : msg.to = m /\ Receive(msg))

-----------------------------------------------------------------------------
(* Properties.                                                              *)

\* Every variable keeps to its type.
ClusterTypeOK ==
    /\ lock \in [Machine -> {"free", "server", "cli"}]
    /\ nodes \in [Machine -> Bucket]
    /\ data \in [Machine -> Data]
    /\ self \in [Machine -> NodeRecord \cup {None}]
    /\ push \in [Machine -> Push]
    /\ inbox \subseteq Message
    /\ job \in [User -> Job]
    /\ reg \in [Id -> Registration \cup {None}]
    /\ drawn \subseteq Id
    /\ downs \in 0 .. MaxDowns /\ timeouts \in 0 .. MaxTimeouts

\* handleNodeRegister, server add: "Check if node already exists".  The database
\* of a founder has one record of a host, as long as each machine has one user
\* at a time; registrations and pushes come whenever they come.
UniqueHosts ==
    \A s \in Founders, h \in Machine :
        \A i, j \in Named(nodes[s], h) : i = j

\* Whoever knows a master knows the same one (join copies the master's records
\* under their IDs, and the push saves them under the same ones).
OneMaster ==
    \A m, n \in Machine, i, j \in Id :
        /\ nodes[m][i] # None /\ nodes[m][i].role = "master"
        /\ nodes[n][j] # None /\ nodes[n][j].role = "master"
        => i = j

\* "pushes cluster state to all worker nodes" (sync.go): no push sets back what
\* the master has saved since, not even one that was read before and comes late.
MasterNotSetBack ==
    [][\A s \in Founders, o \in Object : data'[s][o] >= data[s][o]]_clusterVars

\* A worker that the master can reach for good, and on which nobody runs a join
\* any more, ends with all the master has, whatever was lost, came late or went
\* down before.
Reachable(s, w) ==
    /\ Up(s) /\ self[s] # None /\ self[s].role = "master" /\ Up(w)
    /\ \A u \in User : Home[u] = w => At(u, "idle")
    /\ \E i \in Named(nodes[s], w) : nodes[s][i].role = "worker" /\ nodes[s][i].online
                                      /\ nodes[s][i].port = "api"
Follows(w, s) ==
    /\ \A i \in Id : nodes[s][i] # None => nodes[w][i] = nodes[s][i]
    /\ \A o \in Object : data[s][o] \in Present => data[w][o] = data[s][o]
Converges ==
    \A s \in Founders, w \in Machine :
        <>[]Reachable(s, w) => <>[]Follows(w, s)

\* "Join this node to an existing DockDockGo cluster by connecting to the master
\* node." (cmd/dockdockgo/server.go): when a join ends well, the master has a
\* record of the host.
JoinEnds(u) ==
    /\ job[u].pc \in {"update", "save", "registered"} /\ job'[u].pc = "idle"
    /\ downs' = downs
JoinReachesMaster ==
    [][\A u \in User : JoinEnds(u) =>
         LET s == job[u].master
         IN \E i \in Id : nodes'[s][i] # None /\ nodes'[s][i].host = Home[u]]_clusterVars
==================================================================================
