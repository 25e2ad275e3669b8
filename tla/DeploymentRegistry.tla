--------------------------- MODULE DeploymentRegistry ---------------------------
(***************************************************************************)
(* What a user who waits for the end of one request before he makes the    *)
(* next expects of the deployments: each is there under a name of its own  *)
(* or is not, has the containers it says it has, and goes for good.  Looks *)
(* and saves are one step here; there are no goroutines, no tool, no lock. *)
(***************************************************************************)
EXTENDS Integers, FiniteSets

CONSTANTS
    DepId,        \* deployment IDs
    Cid,          \* container IDs
    Name,         \* deployment names
    MaxReplicas,  \* bound: replicas asked for
    None          \* no name

VARIABLES
    status,  \* "unborn" (the ID is not drawn), "coming", what the record says,
             \* "gone"
    name,    \* of the deployment
    want,    \* how many replicas were asked for
    has,     \* its container records
    on,      \* those that say "running"
    doomed   \* the deployments that somebody is deleting

records == <<status, name, want>>
containers == <<has, on>>
registryVars == <<records, containers, doomed>>

There(d) == status[d] \in {"pending", "running", "failed", "scaling"}
Says(d, from, to) == status[d] \in from /\ status' = [status EXCEPT ![d] = to]
Complete(d) == Cardinality(on[d]) = want[d]

Draw(d) == Says(d, {"unborn"}, "coming") /\ UNCHANGED <<name, want, containers, doomed>>
GiveUp(d) == Says(d, {"coming"}, "gone") /\ UNCHANGED <<name, want, containers, doomed>>

\* The name is looked for and taken in one step.
Create(d) ==
    /\ Says(d, {"coming"}, "pending")
    /\ \E n \in Name, r \in 1 .. MaxReplicas :
         /\ \A e \in DepId : There(e) => name[e] # n
         /\ name' = [name EXCEPT ![d] = n] /\ want' = [want EXCEPT ![d] = r]
    /\ UNCHANGED <<containers, doomed>>

Scale(d) ==
    /\ There(d) /\ d \notin doomed
    /\ status' = [status EXCEPT ![d] = "scaling"]
    /\ \E r \in 0 .. MaxReplicas : want' = [want EXCEPT ![d] = r]
    /\ UNCHANGED <<name, containers, doomed>>

\* A create or a scale ends well with exactly what was asked for; a scale that
\* does not says nothing.
Report(d) ==
    /\ d \notin doomed
    /\ \/ Complete(d) /\ Says(d, {"pending", "scaling"}, "running")
       \/ Says(d, {"pending"}, "failed")
    /\ UNCHANGED <<name, want, containers, doomed>>

\* A container's record is made, and says "running" when there is room for it.
Add(d) ==
    /\ There(d) /\ d \notin doomed
    /\ \E c \in Cid : has' = [has EXCEPT ![d] = @ \cup {c}]
    /\ UNCHANGED <<records, on, doomed>>

Run(d) ==
    /\ There(d) /\ d \notin doomed /\ Cardinality(on[d]) < want[d]
    /\ \E c \in has[d] : on' = [on EXCEPT ![d] = @ \cup {c}]
    /\ UNCHANGED <<records, has, doomed>>

\* Containers are taken away by a delete, or by a scale that has too many.
MayGo(d, c) ==
    \/ d \in doomed
    \/ status[d] = "scaling" /\ (c \in on[d] => Cardinality(on[d]) > want[d])

Remove(d) ==
    /\ \E c \in has[d] : /\ MayGo(d, c)
                         /\ on' = [on EXCEPT ![d] = @ \ {c}]
                         /\ has' \in {has, [has EXCEPT ![d] = @ \ {c}]}
    /\ UNCHANGED <<records, doomed>>

\* Somebody sets about to delete a deployment; he may die before he is done.
Doom(d) == There(d) /\ doomed' = doomed \cup {d} /\ UNCHANGED <<records, containers>>
Spare(d) == doomed' = doomed \ {d} /\ UNCHANGED <<records, containers>>

Delete(d) ==
    /\ There(d) /\ d \in doomed /\ has[d] = {}
    /\ status' = [status EXCEPT ![d] = "gone"] /\ name' = [name EXCEPT ![d] = None]
    /\ want' = [want EXCEPT ![d] = 0] /\ doomed' = doomed \ {d}
    /\ UNCHANGED containers

RegistryInit ==
    /\ status = [d \in DepId |-> "unborn"]
    /\ name = [d \in DepId |-> None] /\ want = [d \in DepId |-> 0]
    /\ has = [d \in DepId |-> {}] /\ on = [d \in DepId |-> {}]
    /\ doomed = {}

RegistryStep(d) ==
    \/ Draw(d) \/ GiveUp(d) \/ Create(d) \/ Scale(d) \/ Report(d)
    \/ Add(d) \/ Run(d) \/ Remove(d) \/ Doom(d) \/ Spare(d) \/ Delete(d)

RegistryNext == \E d \in DepId : RegistryStep(d)

RegistrySpec == RegistryInit /\ [][RegistryNext]_registryVars

RegistryTypeOK ==
    /\ status \in [DepId -> {"unborn", "coming", "pending", "running", "failed",
                            "scaling", "gone"}]
    /\ name \in [DepId -> Name \cup {None}] /\ want \in [DepId -> Nat]
    /\ has \in [DepId -> SUBSET Cid] /\ on \in [DepId -> SUBSET Cid]

\* What this comes to: a name is used once, what is not there has nothing, and
\* only a scale under way or given up has more than was asked for.
Sound ==
    /\ \A d, e \in DepId : There(d) /\ There(e) /\ name[d] = name[e] => d = e
    /\ \A d \in DepId : on[d] \subseteq has[d] /\ (~There(d) => has[d] = {})
    /\ \A d \in DepId : status[d] # "scaling" => Cardinality(on[d]) <= want[d]
==================================================================================
