----------------------------- MODULE ComposeInvariant -----------------------------
(***************************************************************************)
(* The inductive invariant behind PrefixOnly, SpreadEvenly,                *)
(* AllServersFirst and DependenciesFirst of Compose.                       *)
(***************************************************************************)
EXTENDS Compose

Answered(servers) == \A a \in DOMAIN servers : servers[a] \in docker

\* The replicas of the first s servers.
Total(cfg, s) ==
    LET n == Len(cfg.servers)
        more == cfg.replicas % n
    IN s * (cfg.replicas \div n) + (IF s <= more THEN s ELSE more)

\* Replica k of the i-th of r's plan runs, as far as r could see to it.
Up(r, i, k) == Runs(r, i, k) \/ <<r, i, k>> \in touched

\* The replicas that the servers of a service are to get, one after the other.
Place(cfg, k, h) ==
    cfg.servers # <<>> =>
        \E a \in DOMAIN cfg.servers :
            /\ h = cfg.servers[a]
            /\ Total(cfg, a) - Share(cfg, a) <= k /\ k < Total(cfg, a)

\* A run may have made a container for this replica on this machine: it has counted
\* it or was busy with it, after all servers had answered.
Due(r, i, k, h) ==
    LET plan == job[r].plan IN
    /\ i \in DOMAIN plan /\ i <= job[r].cur
    /\ i = job[r].cur => k <= job[r].done
    /\ k < plan[i].replicas
    /\ Answered(plan[i].servers) /\ Place(plan[i], k, h)

\* The share of the server that a run is at, and those of the servers before it, are
\* deployed or still to deploy.
SharesOK(r) ==
    LET cfg == Now(r) IN
    /\ job[r].srv \in 1 .. Len(cfg.servers)
    /\ job[r].done + job[r].left = Total(cfg, job[r].srv)
    /\ job[r].left <= Share(cfg, job[r].srv)
    /\ Answered(cfg.servers)

ReachedOK(r) ==
    /\ job[r].reached < Len(Now(r).servers) /\ job[r].done = 0
    /\ \A a \in 1 .. job[r].reached : Now(r).servers[a] \in docker

RunOK(r) ==
    /\ At(r, "new") => job[r] = New /\ work[r] = None /\ asked[r] = None
    /\ Active(r) => job[r].cur \in DOMAIN job[r].plan
    /\ job[r].pc \in {"ping", "local", "local_start"} => Now(r).servers = <<>>
    /\ At(r, "local_start") => job[r].done < Now(r).replicas
    /\ job[r].pc \in {"connect", "install"} => ReachedOK(r)
    /\ At(r, "deploy") => SharesOK(r)
    /\ At(r, "wait") =>
         /\ work[r] # None /\ work[r].cur = job[r].cur /\ work[r].k = job[r].done
         /\ work[r].kind = "install" =>
              ReachedOK(r) /\ work[r].host = Now(r).servers[job[r].reached + 1]
         /\ work[r].kind = "run" =>
              /\ SharesOK(r) /\ job[r].left > 0
              /\ work[r].host = Now(r).servers[job[r].srv]

\* The last command over ssh, which may be carried out after the run has ended.
CommandOK(r) ==
    work[r] # None =>
        /\ work[r].kind = "run" => Due(r, work[r].cur, work[r].k, work[r].host)
        /\ work[r].kind = "run" /\ work[r].at = "done" => Up(r, work[r].cur, work[r].k)
        /\ work[r].kind = "install" /\ work[r].at = "done" => work[r].host \in docker

CountedOK(r) ==
    \A i \in DOMAIN job[r].plan, k \in 0 .. MaxReplicas :
        k < job[r].plan[i].replicas /\ Counted(r, i, k) => Up(r, i, k)

MadeOK ==
    \A s \in Slot : dock[s] # None =>
        Due(dock[s].by[1], dock[s].by[2], dock[s].by[3], s[1])

\* A run's plan has the services of its file, in one of the file's orders.
PlanOK(r) ==
    asked[r] # None =>
        \/ job[r].plan = <<>>
        \/ \E o \in DeployOrder(asked[r]), options \in Options :
             job[r].plan = [i \in DOMAIN o |-> ConfigOf(asked[r], o[i], options)]

ComposeIInv ==
    /\ ComposeTypeOK /\ MadeOK
    /\ \A r \in Run : RunOK(r) /\ CommandOK(r) /\ CountedOK(r) /\ PlanOK(r)
===================================================================================
