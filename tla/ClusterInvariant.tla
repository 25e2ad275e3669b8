----------------------------- MODULE ClusterInvariant -----------------------------
(***************************************************************************)
(* The inductive invariant behind UniqueHosts, OneMaster and               *)
(* MasterNotSetBack of Cluster.                                            *)
(***************************************************************************)
EXTENDS Cluster

\* With two founders there are two masters from the start, and with two users on
\* the founder's machine two commands may both find it without a node.
OneFounder == \E s \in Machine : Founders = {s}
OneUserEach == \A u, v \in User : Home[u] = Home[v] => u = v

\* Every copy of a record: in a database, in a push, underway, fetched by a join.
Recorded(i, rec) ==
    /\ rec # None
    /\ \/ \E m \in Machine : nodes[m][i] = rec
       \/ \E m \in Machine : push[m].nodes[i] = rec
       \/ \E msg \in inbox : msg.nodes[i] = rec
       \/ \E u \in User : job[u].list[i] = rec

\* Whose ID somebody takes i to be, who may yet save a record under it included.
Means(i, h) ==
    \/ \E rec \in NodeRecord : Recorded(i, rec) /\ rec.host = h
    \/ \E u \in User : job[u].id = i /\ h = Home[u]
    \/ \E r \in Id : reg[r] # None /\ reg[r].id = i /\ h = reg[r].node.host

\* An ID was drawn for one host and never means another.
OneHost ==
    \A i \in Id : \A h, g \in Machine :
        Means(i, h) => i \in drawn /\ (Means(i, g) => g = h)

\* Who is a founder is a master in every record, and nobody else is.
RolesOK ==
    /\ \A i \in Id, rec \in NodeRecord :
         Recorded(i, rec) => (rec.role = "master" <=> rec.host \in Founders)
    /\ \A m \in Machine : self[m] # None =>
         /\ self[m].host = m
         /\ self[m].role = "master" => m \in Founders
    /\ \A r \in Id : reg[r] # None =>
         /\ reg[r].to \in Founders
         /\ reg[r].node.host \notin Founders /\ reg[r].node.role = "worker"

\* A command that is under way has its machine's database, itself or as a request
\* of the server, and so does a registration.
LocksOK ==
    /\ \A u \in User : job[u].pc # "idle" =>
         lock[Home[u]] = (IF job[u].direct THEN "cli" ELSE "server")
    /\ \A r \in Id : reg[r] # None /\ reg[r].at \in {"sent", "save"} =>
         lock[reg[r].to] = "server"

Joining == {"update", "fetch", "save", "register", "registered"}
Numbered == {"init", "update", "save", "register", "registered"}

CommandsOK ==
    \A u \in User :
        /\ job[u].pc \in Joining => job[u].master \in Founders /\ Home[u] \notin Founders
        /\ job[u].pc \in Numbered => job[u].id # None
        /\ job[u].pc = "update" => job[u].rec # None /\ job[u].rec.host = Home[u]
        /\ job[u].pc = "init" => Home[u] \in Founders /\ Named(nodes[Home[u]], Home[u]) = {}

\* Pushes are the founders', and go to others.
PushesOK ==
    /\ \A m \in Machine :
         /\ push[m] # NoPush => m \in Founders
         /\ push[m].waits \notin Founders
         /\ \A i \in push[m].todo :
              push[m].nodes[i] # None /\ push[m].nodes[i].host \notin Founders
    /\ \A msg \in inbox : msg.to \notin Founders

\* A host registers once: a machine that has sent a registration has a record of
\* itself and keeps it, and a join that finds one does not register.
RegistersOnce ==
    /\ \A r, q \in Id :
         /\ reg[r] # None /\ reg[q] # None /\ reg[r].node.host = reg[q].node.host => r = q
    /\ \A r \in Id : reg[r] # None =>
         LET h == reg[r].node.host IN Named(nodes[h], h) # {}
    /\ \A u \in User :
         /\ job[u].pc \in {"fetch", "save", "register"} =>
              \A r \in Id : reg[r] # None => reg[r].node.host # Home[u]
         /\ job[u].pc = "register" => Named(nodes[Home[u]], Home[u]) # {}

\* What a registration found when it looked for its host is still so when it saves.
SavesSame ==
    \A r \in Id : reg[r] # None /\ reg[r].at = "save" =>
        Named(nodes[reg[r].to], reg[r].node.host) \subseteq {reg[r].id}

\* A founder's record is in its own database, wherever else there is a copy.
FoundersRecord ==
    \A i \in Id, rec \in NodeRecord :
        Recorded(i, rec) /\ rec.host \in Founders => i \in Named(nodes[rec.host], rec.host)

ClusterIInv ==
    /\ ClusterTypeOK /\ OneHost /\ RolesOK /\ LocksOK /\ CommandsOK /\ PushesOK
    /\ RegistersOnce /\ SavesSame /\ FoundersRecord /\ UniqueHosts
===================================================================================
