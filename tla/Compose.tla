---------------------------------- MODULE Compose ----------------------------------
(***************************************************************************)
(* internal/compose and the commands compose up and run: what a compose    *)
(* file asks for, and in which order its services are deployed.            *)
(*                                                                         *)
(* compose down prints the names of the services in the reverse order and  *)
(* changes nothing, on no machine (Deployer.Remove): it has no action here.*)
(***************************************************************************)
EXTENDS Orchestrator

CONSTANTS
    File,     \* compose files somebody deploys
    Service,  \* the names of their services
    Options,  \* command line options of compose up
    RunCmd    \* what somebody deploys with run

\* A file is a record of its default servers and its services.  extension tells
\* whether the service has x-dockdockgo, which own, group and replicas are part
\* of: its servers, those of its server group, its number of replicas.
ServiceEntry ==
    [image : BOOLEAN, build : BOOLEAN, name : Name \cup {None}, deps : SUBSET Service,
     extension : BOOLEAN, own : Seq(Host), group : Seq(Host), replicas : Nat,
     deploy : Nat, port : Port]

ASSUME ComposeAssumption ==
    /\ Service \subseteq Name /\ None \notin Name /\ IsFiniteSet(Service)
    /\ \A f \in File :
         /\ f.defaults \in Seq(Host)
         /\ DOMAIN f.services \subseteq Service
         /\ \A s \in DOMAIN f.services :
              /\ f.services[s] \in ServiceEntry
              /\ f.services[s].replicas <= MaxReplicas /\ f.services[s].deploy <= MaxReplicas
    /\ MaxReplicas > 0
    /\ \A o \in Options : o.servers \in Seq(Host) /\ o.install \in BOOLEAN
    /\ RunCmd \subseteq Config

VARIABLE asked  \* history: the compose file of each run, None for run

composeVars == <<vars, asked>>

-----------------------------------------------------------------------------
(* ParseComposeData and Validate                                            *)

ServicesOf(f) == DOMAIN f.services

\* The name of the service is put where container_name is missing, so that the
\* project's name is never part of it.
ContainerNameOf(f, s) == IF f.services[s].name = None THEN s ELSE f.services[s].name

\* Default servers are for services with x-dockdockgo; a server group is added
\* to whatever servers there are.
TargetServers(f, s) ==
    LET e == f.services[s] IN
    IF e.extension THEN (IF e.own = <<>> THEN f.defaults ELSE e.own) \o e.group ELSE <<>>

Replicas(e) ==
    CASE e.extension /\ e.replicas > 0 -> e.replicas
      [] ~(e.extension /\ e.replicas > 0) /\ e.deploy > 0 -> e.deploy
      [] OTHER -> 1

\* A port with an address is refused, one without a host port is not, although
\* a local deployment cannot read it.
Validates(f) ==
    /\ ServicesOf(f) # {}
    /\ \A s \in ServicesOf(f) :
         /\ f.services[s].image \/ f.services[s].build
         /\ f.services[s].port.form # "address"

-----------------------------------------------------------------------------
(* Deployer                                                                 *)

HasDependencies(f, s) == f.services[s].deps # {}

\* Slip: one pass over the map of services.
DeployOrder_OnePass(f) ==
    {o \in [1 .. Cardinality(ServicesOf(f)) -> ServicesOf(f)] :
       \A i, j \in DOMAIN o : i # j => o[i] # o[j]}

\* calculateDeployOrder: two passes over a map, whose order is any.
DeployOrder(f) ==
    {o \in [1 .. Cardinality(ServicesOf(f)) -> ServicesOf(f)] :
       \A i, j \in DOMAIN o : i < j =>
           /\ o[i] # o[j]
           /\ HasDependencies(f, o[i]) => HasDependencies(f, o[j])}

\* deployService: what it hands to DeployContainer.
ConfigOf(f, s, options) ==
    LET e == f.services[s]
        targets == TargetServers(f, s)
    IN [name |-> ContainerNameOf(f, s), image |-> e.image,
        servers |-> IF targets = <<>> THEN options.servers ELSE targets,
        replicas |-> Replicas(e), port |-> e.port, install |-> options.install]

\* compose up
BeginUp(r, f, options) ==
    /\ At(r, "new")
    /\ \/ ~Validates(f) /\ Fail(r)
       \/ /\ Validates(f)
          /\ \E o \in DeployOrder(f) :
               Become(r, Turn([i \in DOMAIN o |-> ConfigOf(f, o[i], options)], 1))
    /\ asked' = [asked EXCEPT ![r] = f]
    /\ UNCHANGED <<machines, work>>

-----------------------------------------------------------------------------
ComposeInit == Init /\ asked = [r \in Run |-> None]

ComposeNext ==
    \/ \E r \in Run :
         \/ \E f \in File, o \in Options : BeginUp(r, f, o)
         \/ \E cfg \in RunCmd : BeginRun(r, cfg) /\ UNCHANGED asked
         \/ (Step(r) \/ Server(r) \/ Interrupt(r)) /\ UNCHANGED asked
    \/ \E s \in Slot :
         \/ StopLocal(s) /\ UNCHANGED asked
         \/ \E force \in BOOLEAN : RemoveLocal(s, force) /\ UNCHANGED asked
         \/ RestartLocal(s) /\ UNCHANGED asked

ComposeSpec == ComposeInit /\ [][ComposeNext]_composeVars

\* The tool goes on while it lives, and so do the local daemon and the timer of
\* 60 seconds.  Nobody has to ask for anything, and no server has to answer.
ComposeFairSpec == ComposeSpec /\ \A r \in Run : WF_composeVars(Step(r) /\ UNCHANGED asked)

-----------------------------------------------------------------------------
(* Properties.                                                              *)

\* Every variable keeps to its type.
ComposeTypeOK ==
    /\ docker \subseteq Host
    /\ dock \in [Slot -> DockerContainer \cup {None}]
    /\ touched \subseteq Run \X Nat \X Nat
    /\ work \in [Run -> Command \cup {None}]
    /\ job \in [Run -> Job]
    /\ asked \in [Run -> File \cup {None}]

\* The slots that hold a container made for replica k of the i-th of r's plan.
MadeFor(r, i, k) == {s \in Slot : dock[s] # None /\ dock[s].by = <<r, i, k>>}
Runs(r, i, k) == \E s \in MadeFor(r, i, k) : dock[s].on

\* What a run has counted as deployed runs, unless a user stopped it, and it has
\* started at most the one replica beyond that it was busy with when it failed,
\* timed out or died: also at the time when a server comes late with a command
\* that was given up (deployToRemoteServers, deployLocally, Execute).
Counted(r, i, k) == i < job[r].cur \/ (i = job[r].cur /\ k < job[r].done)
PrefixOnly ==
    \A r \in Run : \A i \in DOMAIN job[r].plan, k \in 0 .. MaxReplicas :
        /\ k < job[r].plan[i].replicas /\ Counted(r, i, k)
             => Runs(r, i, k) \/ <<r, i, k>> \in touched
        /\ k >= job[r].plan[i].replicas \/ i > job[r].cur \/ (i = job[r].cur /\ k > job[r].done)
             => MadeFor(r, i, k) = {}

\* A service that is done has its replicas spread over the servers of its list so
\* that no two of them differ by more than one ("Distribute replicas across
\* servers", deployToRemoteServers).
On(r, i, h) ==
    {k \in 0 .. MaxReplicas : \E s \in MadeFor(r, i, k) : s[1] = h}
Distinct(seq) == \A a, b \in DOMAIN seq : a # b => seq[a] # seq[b]
SpreadEvenly ==
    \A r \in Run : \A i \in DOMAIN job[r].plan :
        LET servers == job[r].plan[i].servers IN
        i < job[r].cur /\ Distinct(servers) /\ touched = {} =>
            \A a, b \in DOMAIN servers :
                Cardinality(On(r, i, servers[a])) <= Cardinality(On(r, i, servers[b])) + 1

\* "Connect to all servers first" (deployToRemoteServers): no container of a
\* service is made before each server of its list has answered, with Docker.
AllServersFirst ==
    \A r \in Run : \A i \in DOMAIN job[r].plan, k \in 0 .. MaxReplicas :
        MadeFor(r, i, k) # {} => \A a \in DOMAIN job[r].plan[i].servers :
                                    job[r].plan[i].servers[a] \in docker

\* "Deploy services in dependency order" (Deploy): when a container of a service
\* is made, all replicas run of each service it depends on that depends on none.
\* Services with one container name among them cannot be told apart.
Named(f, s, r, i) == ContainerNameOf(f, s) = job[r].plan[i].name
OneNameEach(f) ==
    \A s, d \in ServicesOf(f) : ContainerNameOf(f, s) = ContainerNameOf(f, d) => s = d
DependenciesFirst ==
    \A r \in Run : \A f \in {asked[r]} \ {None} : OneNameEach(f) =>
        \A i, j \in DOMAIN job[r].plan : \A s, d \in ServicesOf(f) :
            /\ Named(f, s, r, i) /\ MadeFor(r, i, 0) # {} /\ Named(f, d, r, j)
            /\ d \in f.services[s].deps /\ ~HasDependencies(f, d)
            => \A k \in 0 .. job[r].plan[j].replicas - 1 :
                   Runs(r, j, k) \/ <<r, j, k>> \in touched

\* Every run comes to its end, whatever the servers do with its commands
\* (Execute: "Set a timeout for long-running commands").
RunsEnd == \A r \in Run : Active(r) ~> ~Active(r)
=================================================================================
