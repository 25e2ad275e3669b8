------------------------------- MODULE ComposeProofs -------------------------------
(***************************************************************************)
(* Proofs about Compose: its inductive invariant, and PrefixOnly,          *)
(* SpreadEvenly, AllServersFirst and DependenciesFirst, for every number   *)
(* of runs, machines, services and replicas.                               *)
(***************************************************************************)
EXTENDS ComposeInvariant, FiniteSetTheorems, TLAPS

-----------------------------------------------------------------------------
(* The shares of the servers.                                               *)

\* Quotient and remainder.
LEMMA Division ==
    ASSUME NEW R \in Nat, NEW n \in Nat, n > 0
    PROVE  \E q \in Nat, m \in 0 .. n - 1 : q = R \div n /\ m = R % n /\ R = n * q + m
<1>1. R \div n \in Int /\ R % n \in 0 .. n - 1 /\ R \div n >= 0
  OBVIOUS
<1>2. PICK q \in Nat, m \in 0 .. n - 1 : q = R \div n /\ m = R % n
  BY <1>1
<1>3. R = n * q + m
  BY <1>2
<1> QED
  BY <1>2, <1>3

LEMMA Products ==
    ASSUME NEW q \in Nat, NEW a \in Nat, NEW b \in Nat
    PROVE  /\ a * q \in Nat /\ (a + 1) * q = a * q + q /\ 1 * q = q
           /\ a <= b => a * q <= b * q
<1>1. a * q \in Nat /\ (a + 1) * q = a * q + q /\ 1 * q = q
  OBVIOUS
<1>2. ASSUME a <= b PROVE a * q <= b * q
  <2>1. PICK d \in Nat : b = a + d
    <3>1. b - a \in Nat /\ b = a + (b - a)
      BY <1>2
    <3> QED
      BY <3>1
  <2>2. b * q = a * q + d * q /\ a * q \in Nat /\ d * q \in Nat
    BY <2>1
  <2> QED
    BY <2>2
<1> QED
  BY <1>1, <1>2

\* The configurations that are deployed to servers.
Spread(cfg) ==
    /\ cfg.replicas \in Nat /\ cfg.servers \in Seq(Host) /\ cfg.servers # <<>>

\* The shares are natural numbers, each server's follows those before it, and
\* together they are all replicas.
LEMMA Totals ==
    ASSUME NEW cfg, Spread(cfg), NEW s \in 1 .. Len(cfg.servers)
    PROVE  /\ Len(cfg.servers) \in Nat \ {0} /\ DOMAIN cfg.servers = 1 .. Len(cfg.servers)
           /\ Share(cfg, s) \in Nat /\ Total(cfg, s) \in Nat
           /\ Total(cfg, 1) = Share(cfg, 1)
           /\ s < Len(cfg.servers) => Total(cfg, s + 1) = Total(cfg, s) + Share(cfg, s + 1)
           /\ Total(cfg, Len(cfg.servers)) = cfg.replicas
           /\ Total(cfg, s) <= cfg.replicas
<1>1. PICK n \in Nat : n = Len(cfg.servers) /\ n > 0 /\ DOMAIN cfg.servers = 1 .. n
  BY DEF Spread
<1>2. PICK R \in Nat : R = cfg.replicas
  BY DEF Spread
<1>3. PICK q \in Nat, m \in 0 .. n - 1 : q = R \div n /\ m = R % n /\ R = n * q + m
  BY <1>1, Division
<1>4. \A a \in Nat : /\ Total(cfg, a) = a * q + (IF a <= m THEN a ELSE m)
                      /\ Share(cfg, a) = q + (IF a <= m THEN 1 ELSE 0)
  BY <1>1, <1>2, <1>3 DEF Total, Share
<1>5. s \in Nat /\ 1 <= s /\ s <= n
  BY <1>1
<1>6. PICK sq \in Nat, nq \in Nat : /\ sq = s * q /\ nq = n * q
                                    /\ (s + 1) * q = sq + q /\ 1 * q = q /\ sq <= nq
  BY <1>1, <1>3, <1>5, Products
<1>7. /\ Total(cfg, s) = sq + (IF s <= m THEN s ELSE m)
      /\ Share(cfg, s) = q + (IF s <= m THEN 1 ELSE 0)
  BY <1>4, <1>5, <1>6
<1>8. /\ Total(cfg, 1) = q + (IF 1 <= m THEN 1 ELSE m)
      /\ Share(cfg, 1) = q + (IF 1 <= m THEN 1 ELSE 0)
  BY <1>4, <1>6
<1>9. /\ Total(cfg, s + 1) = (sq + q) + (IF s + 1 <= m THEN s + 1 ELSE m)
      /\ Share(cfg, s + 1) = q + (IF s + 1 <= m THEN 1 ELSE 0)
  BY <1>4, <1>5, <1>6
<1>10. Total(cfg, n) = nq + (IF n <= m THEN n ELSE m)
  BY <1>4, <1>6
<1>11. m \in Nat /\ m < n /\ R = nq + m
  BY <1>3, <1>6
<1>12. Share(cfg, s) \in Nat /\ Total(cfg, s) \in Nat /\ Total(cfg, 1) = Share(cfg, 1)
  BY <1>5, <1>7, <1>8, <1>11
<1>13. Total(cfg, s + 1) = Total(cfg, s) + Share(cfg, s + 1)
  BY <1>5, <1>7, <1>9, <1>11
<1>14. Total(cfg, n) = R /\ Total(cfg, s) <= R
  BY <1>5, <1>6, <1>7, <1>10, <1>11
<1> QED
  BY <1>1, <1>2, <1>12, <1>13, <1>14

\* A server's share begins where those of the servers before it have ended.
LEMMA SharesApart ==
    ASSUME NEW cfg, Spread(cfg), NEW a \in 1 .. Len(cfg.servers),
           NEW b \in 1 .. Len(cfg.servers), a < b
    PROVE  Total(cfg, a) <= Total(cfg, b) - Share(cfg, b)
<1>1. PICK n \in Nat : n = Len(cfg.servers) /\ n > 0
  BY DEF Spread
<1>2. PICK R \in Nat : R = cfg.replicas
  BY DEF Spread
<1>3. PICK q \in Nat, m \in 0 .. n - 1 : q = R \div n /\ m = R % n
  BY <1>1, Division
<1>4. \A c \in Nat : /\ Total(cfg, c) = c * q + (IF c <= m THEN c ELSE m)
                      /\ Share(cfg, c) = q + (IF c <= m THEN 1 ELSE 0)
  BY <1>1, <1>2, <1>3 DEF Total, Share
<1>5. PICK c \in Nat : b = c + 1 /\ a <= c
  <2>1. b - 1 \in Nat /\ b = (b - 1) + 1 /\ a <= b - 1
    BY <1>1
  <2> QED
    BY <2>1
<1>6. a \in Nat /\ m \in Nat
  <2>1. a \in Nat
    BY ONLY <1>1, a \in 1 .. Len(cfg.servers)
  <2>2. m \in Nat
    BY ONLY n \in Nat, m \in 0 .. n - 1
  <2> QED
    BY <2>1, <2>2
<1>7. PICK aq \in Nat, cq \in Nat :
        aq = a * q /\ cq = c * q /\ aq <= cq /\ (c + 1) * q = cq + q
  BY <1>5, <1>6, Products
<1>8. Total(cfg, a) = aq + (IF a <= m THEN a ELSE m)
  BY <1>4, <1>6, <1>7
<1>9. /\ Total(cfg, c + 1) = (cq + q) + (IF c + 1 <= m THEN c + 1 ELSE m)
      /\ Share(cfg, c + 1) = q + (IF c + 1 <= m THEN 1 ELSE 0)
  BY <1>4, <1>7
<1>10. Total(cfg, a) <= Total(cfg, c + 1) - Share(cfg, c + 1)
  BY ONLY <1>5, <1>6, <1>7, <1>8, <1>9, q \in Nat
<1> QED
  BY <1>5, <1>10

-----------------------------------------------------------------------------
(* The daemons.                                                             *)

\* Containers that ran, or that a user took down, are so afterwards.
KeepsUp == \A r \in Run, i \in Nat, k \in Nat : Up(r, i, k) => Up(r, i, k)'
\* No container is there that was not, but for one made on h for by.
NewOnly(by, h) ==
    \A s \in Slot : dock'[s] # None =>
        \/ dock[s] # None /\ dock'[s].by = dock[s].by
        \/ dock'[s].by = by /\ s[1] = h
NothingNew ==
    \A s \in Slot : dock'[s] # None => dock[s] # None /\ dock'[s].by = dock[s].by
DockTypeOK == dock \in [Slot -> DockerContainer \cup {None}]

\* A replica has a container name, of the service or with an index.
LEMMA SlotType ==
    ASSUME NEW h \in Host, NEW cfg \in Config, NEW k \in Nat, k < cfg.replicas
    PROVE  /\ SlotOf(h, cfg, k) \in Slot /\ SlotOf(h, cfg, k)[1] = h
           /\ HostPort(cfg, k) \in Nat
<1>1. /\ cfg.replicas \in 0 .. MaxReplicas /\ cfg.name \in Name
      /\ cfg.port \in Port /\ cfg.port.host \in Nat /\ MaxReplicas \in Nat
  BY OrchestratorAssumption DEF Config, Port
<1>2. PICK x : x = IF cfg.replicas > 1 THEN k + 1 ELSE 0
  OBVIOUS
<1>3. x \in 0 .. MaxReplicas
  BY <1>1, <1>2
<1>4. SlotOf(h, cfg, k) = <<h, <<cfg.name, x>>>>
  BY <1>2 DEF SlotOf, ContainerName
<1>5. HostPort(cfg, k) \in Nat
  BY <1>1 DEF HostPort
<1> QED
  BY <1>1, <1>3, <1>4, <1>5 DEF Slot

\* A container is made under a name that was free.
LEMMA CreatedFacts ==
    ASSUME DockTypeOK, UNCHANGED touched, NEW h \in Host, NEW cfg \in Config, NEW r \in Run,
           NEW i \in Nat, NEW k \in Nat, k < cfg.replicas, Created(h, cfg, <<r, i, k>>)
    PROVE  DockTypeOK' /\ KeepsUp /\ NewOnly(<<r, i, k>>, h) /\ h \in docker
<1>1. PICK t \in Slot : t = SlotOf(h, cfg, k) /\ t[1] = h
  BY SlotType
<1> DEFINE c == [port |-> HostPort(cfg, k), on |-> FALSE, by |-> <<r, i, k>>]
<1>2. c \in DockerContainer /\ c.by = <<r, i, k>>
  BY SlotType DEF DockerContainer
<1>3. dock[t] = None /\ dock' = [dock EXCEPT ![t] = c] /\ h \in docker
  BY <1>1, <1>2 DEF Created
<1> HIDE DEF c
<1>4. DockTypeOK' /\ dock'[t] = c /\ \A s \in Slot : s # t => dock'[s] = dock[s]
  BY <1>2, <1>3 DEF DockTypeOK
<1>5. KeepsUp
  BY <1>3, <1>4 DEF KeepsUp, Up, Runs, MadeFor
<1>6. NewOnly(<<r, i, k>>, h)
  BY <1>1, <1>2, <1>4 DEF NewOnly
<1> QED
  BY <1>3, <1>4, <1>5, <1>6

\* The container that was made for this replica is started.
LEMMA StartedFacts ==
    ASSUME DockTypeOK, UNCHANGED touched, NEW h \in Host, NEW cfg \in Config, NEW r \in Run,
           NEW i \in Nat, NEW k \in Nat, k < cfg.replicas, Started(h, cfg, <<r, i, k>>)
    PROVE  DockTypeOK' /\ KeepsUp /\ NothingNew /\ Up(r, i, k)'
<1>1. PICK t \in Slot : t = SlotOf(h, cfg, k)
  BY SlotType
<1>2. dock[t] # None /\ dock[t].by = <<r, i, k>> /\ dock' = [dock EXCEPT ![t].on = TRUE]
  BY <1>1 DEF Started, Owns
<1>3. dock[t] \in DockerContainer
  BY <1>2 DEF DockTypeOK
<1> DEFINE c == [dock[t] EXCEPT !.on = TRUE]
<1>4. c \in DockerContainer /\ c.on /\ c.by = dock[t].by
  BY <1>3 DEF DockerContainer
<1>5. dock' = [dock EXCEPT ![t] = c] /\ c # None
  BY <1>2, <1>4, OrchestratorAssumption
<1> HIDE DEF c
<1>6. DockTypeOK' /\ dock'[t] = c /\ \A s \in Slot : s # t => dock'[s] = dock[s]
  BY <1>4, <1>5 DEF DockTypeOK
<1>7. KeepsUp
  BY <1>2, <1>4, <1>5, <1>6 DEF KeepsUp, Up, Runs, MadeFor
<1>8. NothingNew
  BY <1>2, <1>4, <1>6 DEF NothingNew
<1>9. Up(r, i, k)'
  <2>1. dock'[t] # None /\ dock'[t].by = <<r, i, k>> /\ dock'[t].on
    BY <1>2, <1>4, <1>5, <1>6
  <2> QED
    BY <2>1 DEF Up, Runs, MadeFor
<1> QED
  BY <1>6, <1>7, <1>8, <1>9

\* Users take containers down, which is remembered, and start them again.
LEMMA UserFacts ==
    ASSUME ComposeTypeOK, MadeOK, NEW s \in Slot, NEW force \in BOOLEAN,
           StopLocal(s) \/ RemoveLocal(s, force) \/ RestartLocal(s)
    PROVE  DockTypeOK' /\ KeepsUp /\ NothingNew /\ touched' \subseteq Run \X Nat \X Nat
<1>1. dock[s] # None /\ DockTypeOK /\ touched \subseteq Run \X Nat \X Nat
  BY DEF StopLocal, RemoveLocal, RestartLocal, ComposeTypeOK, DockTypeOK
<1>2. dock[s] \in DockerContainer /\ dock[s].by \in Run \X Nat \X Nat
  BY <1>1 DEF DockTypeOK, DockerContainer
<1>3. CASE RemoveLocal(s, force)
  <2>1. dock' = [dock EXCEPT ![s] = None] /\ touched' = touched \cup {dock[s].by}
    BY <1>3 DEF RemoveLocal, Touch
  <2>2. dock'[s] = None /\ \A t \in Slot : t # s => dock'[t] = dock[t]
    BY <1>1, <2>1 DEF DockTypeOK
  <2>3. DockTypeOK' /\ NothingNew
    BY <1>1, <2>1, <2>2 DEF DockTypeOK, NothingNew
  <2>4. KeepsUp
    BY <2>1, <2>2 DEF KeepsUp, Up, Runs, MadeFor
  <2> QED
    BY <1>1, <1>2, <2>1, <2>3, <2>4
<1>4. CASE StopLocal(s) \/ RestartLocal(s)
  <2>1. PICK c \in DockerContainer :
          /\ dock' = [dock EXCEPT ![s] = c] /\ c.by = dock[s].by
          /\ \/ touched' = touched \cup {dock[s].by}
             \/ touched' = touched /\ (dock[s].on => c.on)
    <3>1. CASE StopLocal(s)
      <4> DEFINE c == [dock[s] EXCEPT !.on = FALSE]
      <4>1. c \in DockerContainer /\ c.by = dock[s].by
        BY <1>2 DEF DockerContainer
      <4>2. dock' = [dock EXCEPT ![s] = c]
        BY <3>1, <4>1 DEF StopLocal
      <4> HIDE DEF c
      <4> QED
        BY <3>1, <4>1, <4>2 DEF StopLocal, Touch
    <3>2. CASE RestartLocal(s)
      <4>1. PICK on \in BOOLEAN : on = CanStart(s)
        BY DEF CanStart
      <4>2. dock[s].on => on
        BY <1>1, <4>1 DEF CanStart
      <4> DEFINE c == [dock[s] EXCEPT !.on = on]
      <4>3. c \in DockerContainer /\ c.by = dock[s].by /\ c.on = on
        BY <1>2 DEF DockerContainer
      <4>4. dock' = [dock EXCEPT ![s] = c]
        BY <3>2, <4>1, <4>3 DEF RestartLocal
      <4> HIDE DEF c
      <4> QED
        BY <3>2, <4>2, <4>3, <4>4 DEF RestartLocal
    <3> QED
      BY <1>4, <3>1, <3>2
  <2>2. dock'[s] = c /\ c # None /\ \A t \in Slot : t # s => dock'[t] = dock[t]
    BY <1>1, <2>1, OrchestratorAssumption DEF DockTypeOK
  <2>3. DockTypeOK' /\ NothingNew
    BY <1>1, <2>1, <2>2 DEF DockTypeOK, NothingNew
  <2>4. KeepsUp
    BY <1>1, <2>1, <2>2 DEF KeepsUp, Up, Runs, MadeFor
  <2> QED
    BY <1>1, <1>2, <2>1, <2>3, <2>4
<1> QED
  BY <1>3, <1>4

-----------------------------------------------------------------------------
(* What a step leaves as it is.                                             *)

Others(r) == \A q \in Run : q # r => job'[q] = job[q] /\ work'[q] = work[q]

\* The plan stays and the run goes on in it, or waits.
Forward(r) ==
    /\ job'[r].plan = job[r].plan
    /\ \/ job'[r].cur > job[r].cur
       \/ job'[r].cur = job[r].cur /\ job'[r].done >= job[r].done

DueKept ==
    \A r \in Run, i \in Nat, k \in Nat, h \in Host : Due(r, i, k, h) => Due(r, i, k, h)'

LEMMA PlanType ==
    ASSUME ComposeTypeOK, NEW r \in Run
    PROVE  /\ job[r] \in Job /\ job[r].plan \in Seq(Config)
           /\ DOMAIN job[r].plan = 1 .. Len(job[r].plan) /\ Len(job[r].plan) \in Nat
           /\ job[r].cur \in Nat /\ job[r].done \in Nat /\ job[r].left \in Nat
           /\ job[r].srv \in Nat /\ job[r].reached \in Nat
           /\ \A i \in DOMAIN job[r].plan :
                /\ i \in Nat /\ job[r].plan[i] \in Config
                /\ job[r].plan[i].replicas \in 0 .. MaxReplicas
                /\ job[r].plan[i].replicas \in Nat
                /\ job[r].plan[i].servers \in Seq(Host)
                /\ DOMAIN job[r].plan[i].servers = 1 .. Len(job[r].plan[i].servers)
                /\ Len(job[r].plan[i].servers) \in Nat
                /\ job[r].plan[i].servers # <<>> => Spread(job[r].plan[i])
<1>1. /\ job[r] \in Job /\ job[r].plan \in Seq(Config)
      /\ DOMAIN job[r].plan = 1 .. Len(job[r].plan) /\ Len(job[r].plan) \in Nat
      /\ job[r].cur \in Nat /\ job[r].done \in Nat /\ job[r].left \in Nat
      /\ job[r].srv \in Nat /\ job[r].reached \in Nat
  BY DEF ComposeTypeOK, Job
<1>2. ASSUME NEW i \in DOMAIN job[r].plan
      PROVE  /\ i \in Nat /\ job[r].plan[i] \in Config
             /\ job[r].plan[i].replicas \in 0 .. MaxReplicas
             /\ job[r].plan[i].replicas \in Nat
             /\ job[r].plan[i].servers \in Seq(Host)
             /\ DOMAIN job[r].plan[i].servers = 1 .. Len(job[r].plan[i].servers)
             /\ Len(job[r].plan[i].servers) \in Nat
             /\ job[r].plan[i].servers # <<>> => Spread(job[r].plan[i])
  <2>1. i \in Nat /\ job[r].plan[i] \in Config
    BY <1>1
  <2>2. PICK cfg \in Config : cfg = job[r].plan[i]
    BY <2>1
  <2>3. /\ cfg.replicas \in 0 .. MaxReplicas /\ cfg.replicas \in Nat
        /\ cfg.servers \in Seq(Host)
    BY OrchestratorAssumption DEF Config
  <2>4. DOMAIN cfg.servers = 1 .. Len(cfg.servers) /\ Len(cfg.servers) \in Nat
    BY <2>3
  <2> QED
    BY <2>1, <2>2, <2>3, <2>4 DEF Spread
<1> QED
  BY <1>1, <1>2

LEMMA DueGrows ==
    ASSUME ComposeTypeOK, ComposeTypeOK', NEW r \in Run, docker \subseteq docker',
           Forward(r), NEW i \in Nat, NEW k \in Nat, NEW h \in Host, Due(r, i, k, h)
    PROVE  Due(r, i, k, h)'
<1>1. /\ i \in DOMAIN job[r].plan /\ i <= job[r].cur /\ (i = job[r].cur => k <= job[r].done)
      /\ k < job[r].plan[i].replicas /\ Place(job[r].plan[i], k, h)
      /\ Answered(job[r].plan[i].servers)
  BY DEF Due
<1>2. /\ job[r].cur \in Nat /\ job[r].done \in Nat
      /\ job'[r].cur \in Nat /\ job'[r].done \in Nat
  <2>1. job[r] \in Job /\ job'[r] \in Job
    BY DEF ComposeTypeOK
  <2> QED
    BY <2>1 DEF Job
<1>3. i <= job'[r].cur /\ (i = job'[r].cur => k <= job'[r].done)
  BY <1>1, <1>2 DEF Forward
<1>4. job'[r].plan = job[r].plan
  BY DEF Forward
<1>5. \A a \in DOMAIN job[r].plan[i].servers : job[r].plan[i].servers[a] \in docker'
  BY <1>1 DEF Answered
<1> QED
  BY <1>1, <1>3, <1>4, <1>5 DEF Due, Answered, Place

LEMMA DueGrowsForAll ==
    ASSUME ComposeTypeOK, ComposeTypeOK', docker \subseteq docker', NEW r \in Run, Others(r),
           Forward(r) \/ job[r].plan = <<>>
    PROVE  DueKept
<1> SUFFICES ASSUME NEW q \in Run, NEW i \in Nat, NEW k \in Nat, NEW h \in Host,
                    Due(q, i, k, h)
             PROVE  Due(q, i, k, h)'
  BY DEF DueKept
<1>1. i \in DOMAIN job[q].plan
  BY DEF Due
<1>2. Forward(q)
  <2>1. job[q].cur \in Nat /\ job[q].done \in Nat
    BY PlanType
  <2>2. CASE q = r
    BY <1>1, <2>2
  <2>3. CASE q # r
    BY <2>1, <2>3 DEF Others, Forward
  <2> QED
    BY <2>2, <2>3
<1> QED
  BY <1>2, DueGrows

\* The containers that are there are due, if those that are made are.
LEMMA MadeKept ==
    ASSUME ComposeTypeOK, MadeOK, DueKept, DockTypeOK',
           \/ UNCHANGED dock \/ NothingNew
           \/ \E r \in Run, i \in Nat, k \in Nat, h \in Host :
                NewOnly(<<r, i, k>>, h) /\ Due(r, i, k, h)'
    PROVE  MadeOK'
<1> SUFFICES ASSUME NEW s \in Slot, dock'[s] # None
             PROVE  Due(dock[s].by[1], dock[s].by[2], dock[s].by[3], s[1])'
  BY DEF MadeOK
<1>1. s[1] \in Host
  BY DEF Slot
<1>2. CASE dock[s] # None /\ dock'[s].by = dock[s].by
  <2>1. PICK by \in Run \X Nat \X Nat : by = dock[s].by /\ by = dock'[s].by
    BY <1>2 DEF ComposeTypeOK, DockerContainer
  <2>2. Due(by[1], by[2], by[3], s[1])
    BY <1>2, <2>1 DEF MadeOK
  <2>3. Due(by[1], by[2], by[3], s[1])'
    BY <1>1, <2>1, <2>2 DEF DueKept
  <2> QED
    BY <2>1, <2>3
<1>3. ASSUME NEW r \in Run, NEW i \in Nat, NEW k \in Nat, NEW h \in Host,
             NewOnly(<<r, i, k>>, h), Due(r, i, k, h)',
             ~(dock[s] # None /\ dock'[s].by = dock[s].by)
      PROVE  Due(dock[s].by[1], dock[s].by[2], dock[s].by[3], s[1])'
  <2>1. dock'[s].by = <<r, i, k>> /\ s[1] = h
    BY <1>3 DEF NewOnly
  <2> QED
    BY <1>3, <2>1
<1> QED
  BY <1>2, <1>3 DEF NothingNew

\* A run on which nobody works keeps what holds of it.
LEMMA OthersKeep ==
    ASSUME ComposeTypeOK, NEW q \in Run, docker \subseteq docker', KeepsUp, DueKept,
           job'[q] = job[q], work'[q] = work[q], asked'[q] = asked[q],
           RunOK(q), CommandOK(q), CountedOK(q), PlanOK(q)
    PROVE  RunOK(q)' /\ CommandOK(q)' /\ CountedOK(q)' /\ PlanOK(q)'
<1>1. RunOK(q)'
  BY DEF RunOK, At, Active, Now, ReachedOK, SharesOK, Answered, Total, Share
<1>2. CommandOK(q)'
  <2>1. work[q] # None => /\ work[q].cur \in Nat /\ work[q].k \in Nat /\ work[q].host \in Host
    BY DEF ComposeTypeOK, Command
  <2> QED
    BY <2>1 DEF CommandOK, DueKept, KeepsUp
<1>3. CountedOK(q)'
  BY PlanType, OrchestratorAssumption DEF CountedOK, Counted, KeepsUp
<1>4. PlanOK(q)'
  BY DEF PlanOK
<1> QED
  BY <1>1, <1>2, <1>3, <1>4

\* A step that concerns run r only.
LEMMA OneRun ==
    ASSUME ComposeIInv, ComposeTypeOK', NEW r \in Run, Others(r), docker \subseteq docker',
           \A q \in Run : q # r => asked'[q] = asked[q],
           Forward(r) \/ job[r].plan = <<>>, KeepsUp,
           \/ UNCHANGED dock \/ NothingNew
           \/ \E i \in Nat, k \in Nat, h \in Host :
                NewOnly(<<r, i, k>>, h) /\ Due(r, i, k, h)',
           RunOK(r)', CommandOK(r)', CountedOK(r)', PlanOK(r)'
    PROVE  ComposeIInv'
<1>1. ComposeTypeOK /\ MadeOK /\ DockTypeOK'
  BY DEF ComposeIInv, ComposeTypeOK, DockTypeOK
<1>2. DueKept
  BY <1>1, DueGrowsForAll
<1>3. MadeOK'
  BY <1>1, <1>2, MadeKept
<1>4. ASSUME NEW q \in Run, q # r
      PROVE  RunOK(q)' /\ CommandOK(q)' /\ CountedOK(q)' /\ PlanOK(q)'
  BY <1>1, <1>2, <1>4, OthersKeep DEF ComposeIInv, Others
<1> QED
  BY <1>3, <1>4 DEF ComposeIInv

-----------------------------------------------------------------------------
(* The steps of a run.                                                      *)

WorkTypeOK == work \in [Run -> Command \cup {None}]
Quiet == UNCHANGED <<docker, dock, touched, asked>>

\* The run is where it was in its plan.
Same(r) ==
    /\ job'[r].plan = job[r].plan /\ job'[r].cur = job[r].cur
    /\ job'[r].done = job[r].done

LEMMA Moves ==
    ASSUME ComposeIInv, NEW r \in Run, Others(r), Forward(r),
           job' \in [Run -> Job], WorkTypeOK',
           docker \subseteq docker', docker' \subseteq Host, DockTypeOK',
           UNCHANGED <<touched, asked>>, KeepsUp,
           \/ UNCHANGED dock \/ NothingNew
           \/ \E i \in Nat, k \in Nat, h \in Host :
                NewOnly(<<r, i, k>>, h) /\ Due(r, i, k, h)',
           work'[r] = work[r] \/ CommandOK(r)', RunOK(r)',
           \A i \in DOMAIN job[r].plan, k \in 0 .. MaxReplicas :
              k < job[r].plan[i].replicas /\ Counted(r, i, k)' =>
                Counted(r, i, k) \/ Up(r, i, k)'
    PROVE  ComposeIInv'
<1>1. ComposeTypeOK /\ ComposeTypeOK'
  BY DEF ComposeIInv, ComposeTypeOK, DockTypeOK, WorkTypeOK
<1>2. DueKept
  BY <1>1, DueGrowsForAll
<1>3. CommandOK(r)'
  <2>1. CASE work'[r] = work[r]
    <3>1. work[r] # None =>
            work[r].cur \in Nat /\ work[r].k \in Nat /\ work[r].host \in Host
      BY <1>1 DEF ComposeTypeOK, Command
    <3> QED
      BY <1>2, <2>1, <3>1 DEF ComposeIInv, CommandOK, DueKept, KeepsUp
  <2> QED
    BY <2>1
<1>4. CountedOK(r)'
  <2> SUFFICES ASSUME NEW i \in DOMAIN job[r].plan, NEW k \in 0 .. MaxReplicas,
                      k < job[r].plan[i].replicas, Counted(r, i, k)'
               PROVE  Up(r, i, k)'
    BY DEF CountedOK, Forward
  <2>1. i \in Nat /\ k \in Nat
    BY <1>1, PlanType, OrchestratorAssumption
  <2>2. CASE Counted(r, i, k)
    <3>1. Up(r, i, k)
      BY <2>2 DEF ComposeIInv, CountedOK
    <3> QED
      BY <2>1, <3>1 DEF KeepsUp
  <2> QED
    BY <2>2
<1>5. PlanOK(r)'
  BY DEF ComposeIInv, PlanOK, Forward
<1> QED
  BY <1>1, <1>3, <1>4, <1>5, OneRun

\* A step that changes what the run does next, and its command, only.
LEMMA MovesQuietly ==
    ASSUME ComposeIInv, NEW r \in Run, Others(r), Same(r), job' \in [Run -> Job], WorkTypeOK',
           Quiet, work'[r] = work[r] \/ CommandOK(r)', RunOK(r)'
    PROVE  ComposeIInv'
<1>1. job[r].cur \in Nat /\ job[r].done \in Nat /\ ComposeTypeOK
  BY PlanType DEF ComposeIInv
<1>2. Forward(r)
  BY <1>1 DEF Same, Forward
<1>3. KeepsUp /\ DockTypeOK' /\ docker' \subseteq Host /\ docker \subseteq docker'
  BY <1>1 DEF Quiet, KeepsUp, Up, Runs, MadeFor, DockTypeOK, ComposeTypeOK
<1>4. \A i \in DOMAIN job[r].plan, k \in 0 .. MaxReplicas :
        Counted(r, i, k)' => Counted(r, i, k)
  BY DEF Same, Counted
<1> QED
  BY <1>2, <1>3, <1>4, Moves DEF Quiet

\* What Become and Goto write.
LEMMA BecomeIs ==
    ASSUME ComposeTypeOK, NEW r \in Run, NEW j \in Job, Become(r, j), work' = work
    PROVE  /\ job' \in [Run -> Job] /\ job'[r] = j /\ Others(r) /\ WorkTypeOK'
           /\ work'[r] = work[r]
  BY DEF ComposeTypeOK, Become, Others, WorkTypeOK

LEMMA JobSet ==
    ASSUME NEW j \in Job, NEW l \in Label
    PROVE  /\ [j EXCEPT !.pc = l] \in Job /\ [j EXCEPT !.pc = l].pc = l
           /\ [j EXCEPT !.pc = l].plan = j.plan /\ [j EXCEPT !.pc = l].cur = j.cur
           /\ [j EXCEPT !.pc = l].reached = j.reached /\ [j EXCEPT !.pc = l].srv = j.srv
           /\ [j EXCEPT !.pc = l].left = j.left /\ [j EXCEPT !.pc = l].done = j.done
  BY DEF Job

LEMMA GotoIs ==
    ASSUME ComposeTypeOK, NEW r \in Run, NEW l \in Label, Goto(r, l)
    PROVE  /\ job' \in [Run -> Job] /\ job'[r].pc = l /\ Same(r)
           /\ job'[r].reached = job[r].reached /\ job'[r].srv = job[r].srv
           /\ job'[r].left = job[r].left
           /\ \A q \in Run : q # r => job'[q] = job[q]
<1>1. job[r] \in Job
  BY DEF ComposeTypeOK
<1> DEFINE j == [job[r] EXCEPT !.pc = l]
<1>2. /\ j \in Job /\ j.pc = l /\ j.plan = job[r].plan /\ j.cur = job[r].cur
      /\ j.reached = job[r].reached /\ j.srv = job[r].srv /\ j.left = job[r].left
      /\ j.done = job[r].done
  BY <1>1, JobSet
<1>3. job' = [job EXCEPT ![r] = j]
  BY DEF Goto
<1> HIDE DEF j
<1>4. job'[r] = j /\ job' \in [Run -> Job] /\ \A q \in Run : q # r => job'[q] = job[q]
  BY <1>2, <1>3 DEF ComposeTypeOK
<1> QED
  BY <1>2, <1>4 DEF Same

\* A run that ends with an error does nothing more.
LEMMA FailKeeps ==
    ASSUME ComposeIInv, NEW r \in Run, Fail(r), Quiet, work' = work
    PROVE  ComposeIInv'
<1>1. ComposeTypeOK /\ "failed" \in Label
  BY DEF ComposeIInv, Label
<1>2. /\ job' \in [Run -> Job] /\ job'[r].pc = "failed" /\ Same(r)
      /\ \A q \in Run : q # r => job'[q] = job[q]
  BY <1>1, GotoIs DEF Fail
<1>3. Others(r) /\ WorkTypeOK' /\ work'[r] = work[r]
  BY <1>1, <1>2 DEF Others, WorkTypeOK, ComposeTypeOK
<1>4. RunOK(r)'
  BY <1>2 DEF RunOK, At, Active
<1> QED
  BY <1>2, <1>3, <1>4, MovesQuietly

\* Facts on a run under way.
LEMMA UnderWay ==
    ASSUME ComposeIInv, NEW r \in Run, Active(r)
    PROVE  /\ ComposeTypeOK /\ job[r] \in Job /\ job[r].cur \in DOMAIN job[r].plan
           /\ job[r].cur \in Nat /\ Now(r) = job[r].plan[job[r].cur] /\ Now(r) \in Config
           /\ Now(r).replicas \in Nat /\ Now(r).replicas \in 0 .. MaxReplicas
           /\ Now(r).servers \in Seq(Host)
           /\ DOMAIN Now(r).servers = 1 .. Len(Now(r).servers)
           /\ Len(Now(r).servers) \in Nat
           /\ Now(r).servers # <<>> => Spread(Now(r))
<1>1. ComposeTypeOK /\ job[r].cur \in DOMAIN job[r].plan
  BY DEF ComposeIInv, RunOK
<1> QED
  BY <1>1, PlanType DEF Now

-----------------------------------------------------------------------------
(* deployLocally                                                            *)

LEMMA PingKeeps ==
    ASSUME ComposeIInv, NEW r \in Run, Ping(r), UNCHANGED asked PROVE ComposeIInv'
<1>1. At(r, "ping") /\ Active(r) /\ Quiet /\ work' = work
  BY DEF Ping, At, Active, Quiet, machines
<1>2. CASE Fail(r)
  BY <1>1, <1>2, FailKeeps
<1>3. CASE Goto(r, "local")
  <2>1. ComposeTypeOK /\ "local" \in Label
    BY DEF ComposeIInv, Label
  <2>2. /\ job' \in [Run -> Job] /\ job'[r].pc = "local" /\ Same(r)
        /\ \A q \in Run : q # r => job'[q] = job[q]
    BY <1>3, <2>1, GotoIs
  <2>3. Others(r) /\ WorkTypeOK' /\ work'[r] = work[r]
    BY <1>1, <2>1, <2>2 DEF Others, WorkTypeOK, ComposeTypeOK
  <2>4. RunOK(r)'
    BY <1>1, <2>2 DEF ComposeIInv, RunOK, At, Active, Now, Same
  <2> QED
    BY <1>1, <2>2, <2>3, <2>4, MovesQuietly
<1> QED
  BY <1>2, <1>3 DEF Ping

LEMMA LocalCreateKeeps ==
    ASSUME ComposeIInv, NEW r \in Run, LocalCreate(r), UNCHANGED asked PROVE ComposeIInv'
<1>1. /\ At(r, "local") /\ Active(r) /\ UNCHANGED <<docker, touched, work, asked>>
      /\ job[r].done < Now(r).replicas
  BY DEF LocalCreate, At, Active
<1>2. ASSUME Fail(r), UNCHANGED dock PROVE ComposeIInv'
  BY <1>1, <1>2, FailKeeps DEF Quiet
<1>3. ASSUME Created(Local, Now(r), <<r, job[r].cur, job[r].done>>), Goto(r, "local_start")
      PROVE  ComposeIInv'
  <2>1. ComposeTypeOK /\ DockTypeOK /\ "local_start" \in Label /\ Local \in Host
    BY OrchestratorAssumption DEF ComposeIInv, ComposeTypeOK, DockTypeOK, Label
  <2>2. /\ job' \in [Run -> Job] /\ job'[r].pc = "local_start" /\ Same(r)
        /\ \A q \in Run : q # r => job'[q] = job[q]
    BY <1>3, <2>1, GotoIs
  <2>3. Others(r) /\ WorkTypeOK' /\ work'[r] = work[r]
    BY <1>1, <2>1, <2>2 DEF Others, WorkTypeOK, ComposeTypeOK
  <2>4. job[r].cur \in Nat /\ job[r].done \in Nat /\ Now(r) \in Config /\ Now(r).servers = <<>>
    BY <1>1, <2>1, UnderWay, PlanType DEF ComposeIInv, RunOK, At
  <2>5. /\ DockTypeOK' /\ KeepsUp
        /\ NewOnly(<<r, job[r].cur, job[r].done>>, Local)
    BY <1>1, <1>3, <2>1, <2>4, CreatedFacts
  <2>6. RunOK(r)'
    BY <1>1, <2>2, <2>4, UnderWay DEF RunOK, At, Active, Now, Same
  <2>7. Forward(r)
    BY <2>2, <2>4 DEF Same, Forward
  <2>8. \E i \in Nat, k \in Nat, h \in Host :
          NewOnly(<<r, i, k>>, h) /\ Due(r, i, k, h)'
    <3>1. PICK i \in Nat, k \in Nat : i = job[r].cur /\ k = job[r].done
      BY <2>4
    <3>2. NewOnly(<<r, i, k>>, Local)
      BY <2>5, <3>1
    <3>3. Due(r, i, k, Local)'
      BY <1>1, <2>2, <2>4, <3>1, UnderWay DEF Due, Same, Now, Answered, Place
    <3> QED
      BY <2>1, <3>2, <3>3
  <2>9. \A i \in DOMAIN job[r].plan, k \in 0 .. MaxReplicas :
          Counted(r, i, k)' => Counted(r, i, k)
    BY <2>2 DEF Same, Counted
  <2>10. docker \subseteq docker' /\ docker' \subseteq Host /\ UNCHANGED <<touched, asked>>
    BY <1>1, <2>1 DEF ComposeTypeOK
  <2> QED
    BY <2>2, <2>3, <2>5, <2>6, <2>7, <2>8, <2>9, <2>10, Moves
<1> QED
  BY <1>2, <1>3 DEF LocalCreate, NotCreated

LEMMA LocalStartKeeps ==
    ASSUME ComposeIInv, NEW r \in Run, LocalStart(r), UNCHANGED asked PROVE ComposeIInv'
<1>1. /\ At(r, "local_start") /\ Active(r) /\ UNCHANGED <<docker, touched, work, asked>>
      /\ ComposeTypeOK /\ DockTypeOK /\ Local \in Host
  BY OrchestratorAssumption
     DEF LocalStart, At, Active, ComposeIInv, ComposeTypeOK, DockTypeOK
<1>2. ASSUME Fail(r), UNCHANGED dock PROVE ComposeIInv'
  BY <1>1, <1>2, FailKeeps DEF Quiet
<1>3. ASSUME Started(Local, Now(r), <<r, job[r].cur, job[r].done>>),
             Become(r, [job[r] EXCEPT !.pc = "local", !.done = @ + 1])
      PROVE  ComposeIInv'
  <2>1. /\ job[r] \in Job /\ job[r].cur \in Nat /\ job[r].done \in Nat /\ Now(r) \in Config
        /\ Now(r).servers = <<>> /\ job[r].done < Now(r).replicas
        /\ job[r].cur \in DOMAIN job[r].plan
    BY <1>1, UnderWay, PlanType DEF ComposeIInv, RunOK, At
  <2> DEFINE j == [job[r] EXCEPT !.pc = "local", !.done = @ + 1]
  <2>2. /\ j \in Job /\ j.pc = "local" /\ j.done = job[r].done + 1
        /\ j.plan = job[r].plan /\ j.cur = job[r].cur
    <3>1. "local" \in Label /\ job[r].done + 1 \in Nat
      BY <2>1 DEF Label
    <3> QED
      BY <2>1, <3>1 DEF Job
  <2>3. Become(r, j)
    BY <1>3
  <2> HIDE DEF j
  <2>4. /\ job' \in [Run -> Job] /\ job'[r] = j /\ Others(r) /\ WorkTypeOK'
        /\ work'[r] = work[r]
    BY <1>1, <2>2, <2>3, BecomeIs
  <2>5. Forward(r)
    BY <2>1, <2>2, <2>4 DEF Forward
  <2>6. PICK i \in Nat, k \in Nat : i = job[r].cur /\ k = job[r].done
    BY <2>1
  <2>7. DockTypeOK' /\ KeepsUp /\ NothingNew /\ Up(r, i, k)'
    BY <1>1, <1>3, <2>1, <2>6, StartedFacts
  <2>8. RunOK(r)'
    BY <1>1, <2>1, <2>2, <2>4 DEF RunOK, At, Active, Now
  <2>9. \A x \in DOMAIN job[r].plan, y \in 0 .. MaxReplicas :
          Counted(r, x, y)' => Counted(r, x, y) \/ Up(r, x, y)'
    <3> SUFFICES ASSUME NEW x \in DOMAIN job[r].plan, NEW y \in 0 .. MaxReplicas,
                        Counted(r, x, y)', ~Counted(r, x, y)
                 PROVE  x = i /\ y = k
      BY <2>7
    <3>1. y \in Nat
      BY OrchestratorAssumption
    <3> QED
      BY <2>1, <2>2, <2>4, <2>6, <3>1 DEF Counted
  <2>10. docker \subseteq docker' /\ docker' \subseteq Host /\ UNCHANGED <<touched, asked>>
    BY <1>1 DEF ComposeTypeOK
  <2> QED
    BY <2>4, <2>5, <2>7, <2>8, <2>9, <2>10, Moves
<1> QED
  BY <1>2, <1>3 DEF LocalStart, NotStarted

-----------------------------------------------------------------------------
(* deployToRemoteServers                                                    *)

LEMMA ReachedIs ==
    ASSUME NEW j \in Job, NEW n \in Nat, Spread(j.plan[j.cur])
    PROVE  LET to == ReachedServer(j, n)
               servers == j.plan[j.cur].servers
           IN /\ to \in Job /\ to.plan = j.plan /\ to.cur = j.cur /\ to.done = j.done
              /\ n < Len(servers) => to.pc = "connect" /\ to.reached = n
              /\ ~(n < Len(servers)) =>
                   to.pc = "deploy" /\ to.srv = 1 /\ to.left = Share(j.plan[j.cur], 1)
<1>1. PICK servers : servers = j.plan[j.cur].servers
  OBVIOUS
<1>2. 1 \in 1 .. Len(j.plan[j.cur].servers)
  BY DEF Spread
<1>3. Share(j.plan[j.cur], 1) \in Nat
  BY <1>2, Totals
<1>4. PICK left \in Nat : left = Share(j.plan[j.cur], 1)
  BY <1>3
<1>5. "connect" \in Label /\ "deploy" \in Label
  BY DEF Label
<1> DEFINE c == [j EXCEPT !.pc = "connect", !.reached = n]
           d == [j EXCEPT !.pc = "deploy", !.reached = n, !.srv = 1, !.left = left]
<1>6. ReachedServer(j, n) = IF n < Len(servers) THEN c ELSE d
  BY <1>1, <1>4 DEF ReachedServer
<1>7. /\ c \in Job /\ c.plan = j.plan /\ c.cur = j.cur /\ c.done = j.done
      /\ c.pc = "connect" /\ c.reached = n
  BY <1>5 DEF Job
<1>8. /\ d \in Job /\ d.plan = j.plan /\ d.cur = j.cur /\ d.done = j.done
      /\ d.pc = "deploy" /\ d.srv = 1 /\ d.left = left
  BY <1>5 DEF Job
<1> HIDE DEF c, d
<1> QED
  BY <1>1, <1>4, <1>6, <1>7, <1>8

\* A server that answers is one more reached, the last one begins the shares.
LEMMA ServerReadyKeeps ==
    ASSUME ComposeIInv, NEW r \in Run, Active(r), ReachedOK(r),
           Now(r).servers[job[r].reached + 1] \in docker,
           Become(r, ReachedServer(job[r], job[r].reached + 1)), Quiet, UNCHANGED work
    PROVE  ComposeIInv'
<1>1. /\ ComposeTypeOK /\ job[r] \in Job /\ job[r].cur \in DOMAIN job[r].plan
      /\ job[r].cur \in Nat /\ job[r].reached \in Nat /\ job[r].done = 0
      /\ Now(r) = job[r].plan[job[r].cur]
      /\ Len(Now(r).servers) \in Nat /\ DOMAIN Now(r).servers = 1 .. Len(Now(r).servers)
      /\ job[r].reached < Len(Now(r).servers)
  BY UnderWay, PlanType DEF ReachedOK
<1>2. Spread(Now(r))
  <2>1. Now(r).servers # <<>>
    BY <1>1
  <2> QED
    BY <2>1, UnderWay
<1>3. PICK n \in Nat : n = job[r].reached + 1
  BY <1>1
<1> DEFINE j == ReachedServer(job[r], n)
<1>4. /\ j \in Job /\ j.plan = job[r].plan /\ j.cur = job[r].cur /\ j.done = job[r].done
      /\ n < Len(Now(r).servers) => j.pc = "connect" /\ j.reached = n
      /\ ~(n < Len(Now(r).servers)) =>
           j.pc = "deploy" /\ j.srv = 1 /\ j.left = Share(Now(r), 1)
  BY <1>1, <1>2, <1>3, ReachedIs
<1>5. Become(r, j)
  BY <1>3
<1> HIDE DEF j
<1>6. /\ job' \in [Run -> Job] /\ job'[r] = j /\ Others(r) /\ WorkTypeOK'
      /\ work'[r] = work[r]
  BY <1>1, <1>4, <1>5, BecomeIs
<1>7. Same(r) /\ Now(r)' = Now(r)
  BY <1>4, <1>6 DEF Same, Now
<1>8. \A a \in 1 .. n : Now(r).servers[a] \in docker
  BY <1>1, <1>3 DEF ReachedOK
<1>9. RunOK(r)'
  <2>1. CASE n < Len(Now(r).servers)
    <3>1. ReachedOK(r)'
      BY <1>1, <1>4, <1>6, <1>7, <1>8, <2>1 DEF ReachedOK, Quiet
    <3> QED
      BY <1>1, <1>4, <1>6, <2>1, <3>1 DEF RunOK, At, Active
  <2>2. CASE ~(n < Len(Now(r).servers))
    <3>1. n = Len(Now(r).servers)
      BY <1>1, <1>3, <2>2
    <3>2. Answered(Now(r).servers)
      BY <1>1, <1>8, <3>1 DEF Answered
    <3>3. /\ 1 \in 1 .. Len(Now(r).servers) /\ Share(Now(r), 1) \in Nat
          /\ Total(Now(r), 1) = Share(Now(r), 1)
      BY <1>1, <1>2, Totals
    <3>4. /\ job'[r].srv = 1 /\ job'[r].left = Share(Now(r), 1) /\ job'[r].done = 0
      BY <1>1, <1>4, <1>6, <2>2
    <3>5. SharesOK(r)'
      BY <1>7, <3>2, <3>3, <3>4 DEF SharesOK, Answered, Share, Total, Quiet
    <3> QED
      BY <1>1, <1>4, <1>6, <2>2, <3>5 DEF RunOK, At, Active
  <2> QED
    BY <2>1, <2>2
<1> QED
  BY <1>6, <1>7, <1>9, MovesQuietly

\* Goto leaves everything but where the run is.
LEMMA GotoNow ==
    ASSUME ComposeIInv, NEW r \in Run, NEW l \in Label, Goto(r, l)
    PROVE  /\ Same(r) /\ Now(r)' = Now(r) /\ job' \in [Run -> Job] /\ job'[r].pc = l
           /\ docker' = docker /\ ReachedOK(r) => ReachedOK(r)'
           /\ docker' = docker /\ SharesOK(r) => SharesOK(r)'
           /\ \A q \in Run : q # r => job'[q] = job[q]
<1>1. ComposeTypeOK
  BY DEF ComposeIInv
<1>2. /\ job' \in [Run -> Job] /\ job'[r].pc = l /\ Same(r)
      /\ job'[r].reached = job[r].reached /\ job'[r].srv = job[r].srv
      /\ job'[r].left = job[r].left
      /\ \A q \in Run : q # r => job'[q] = job[q]
  BY <1>1, GotoIs
<1>3. Now(r)' = Now(r)
  BY <1>2 DEF Same, Now
<1>4. docker' = docker /\ ReachedOK(r) => ReachedOK(r)'
  BY <1>2, <1>3 DEF Same, ReachedOK
<1>5. docker' = docker /\ SharesOK(r) => SharesOK(r)'
  BY <1>2, <1>3 DEF Same, SharesOK, Answered, Share, Total
<1> QED
  BY <1>2, <1>3, <1>4, <1>5

LEMMA ConnectKeeps ==
    ASSUME ComposeIInv, NEW r \in Run, Connect(r), UNCHANGED asked PROVE ComposeIInv'
<1>1. /\ At(r, "connect") /\ Active(r) /\ Quiet /\ work' = work /\ ReachedOK(r)
      /\ ComposeTypeOK
  BY DEF Connect, At, Active, Quiet, machines, ComposeIInv, RunOK
<1>2. CASE Fail(r)
  BY <1>1, <1>2, FailKeeps
<1>3. CASE Goto(r, "install")
  <2>1. "install" \in Label
    BY DEF Label
  <2>2. /\ Same(r) /\ Now(r)' = Now(r) /\ job' \in [Run -> Job] /\ job'[r].pc = "install"
        /\ ReachedOK(r)' /\ \A q \in Run : q # r => job'[q] = job[q]
    BY <1>1, <1>3, <2>1, GotoNow DEF Quiet
  <2>3. Others(r) /\ WorkTypeOK' /\ work'[r] = work[r]
    BY <1>1, <2>2 DEF Others, WorkTypeOK, ComposeTypeOK
  <2>4. RunOK(r)'
    BY <1>1, <2>2, UnderWay DEF RunOK, At, Active, Same
  <2> QED
    BY <1>1, <2>2, <2>3, <2>4, MovesQuietly
<1>4. CASE /\ Now(r).servers[job[r].reached + 1] \in docker
           /\ Become(r, ReachedServer(job[r], job[r].reached + 1))
  BY <1>1, <1>4, ServerReadyKeeps
<1> QED
  BY <1>2, <1>3, <1>4 DEF Connect

\* What Send writes.
LEMMA SendIs ==
    ASSUME ComposeIInv, NEW r \in Run, Active(r), NEW kind \in {"install", "run"},
           NEW h \in Host, Send(r, kind, h)
    PROVE  /\ WorkTypeOK' /\ work'[r] # None /\ work'[r].kind = kind /\ work'[r].at = "sent"
           /\ work'[r].host = h /\ work'[r].cur = job[r].cur /\ work'[r].k = job[r].done
           /\ \A q \in Run : q # r => work'[q] = work[q]
<1>1. job[r].cur \in Nat /\ job[r].done \in Nat /\ ComposeTypeOK
  BY UnderWay, PlanType
<1> DEFINE c == [kind |-> kind, at |-> "sent", host |-> h, cur |-> job[r].cur,
                 k |-> job[r].done]
<1>2. /\ c \in Command /\ c.kind = kind /\ c.at = "sent" /\ c.host = h
      /\ c.cur = job[r].cur /\ c.k = job[r].done
  BY <1>1 DEF Command
<1>3. work' = [work EXCEPT ![r] = c] /\ c # None
  BY <1>2, OrchestratorAssumption DEF Send
<1> HIDE DEF c
<1> QED
  BY <1>1, <1>2, <1>3 DEF WorkTypeOK, ComposeTypeOK

LEMMA InstallKeeps ==
    ASSUME ComposeIInv, NEW r \in Run, Install(r), UNCHANGED asked PROVE ComposeIInv'
<1>1. /\ At(r, "install") /\ Active(r) /\ Quiet /\ ReachedOK(r) /\ ComposeTypeOK
  BY DEF Install, At, Active, Quiet, machines, ComposeIInv, RunOK
<1>2. ASSUME Fail(r), work' = work PROVE ComposeIInv'
  BY <1>1, <1>2, FailKeeps
<1>3. ASSUME Send(r, "install", Now(r).servers[job[r].reached + 1]), Goto(r, "wait")
      PROVE  ComposeIInv'
  <2>1. "wait" \in Label
    BY DEF Label
  <2>2. /\ Same(r) /\ Now(r)' = Now(r) /\ job' \in [Run -> Job] /\ job'[r].pc = "wait"
        /\ ReachedOK(r)' /\ \A q \in Run : q # r => job'[q] = job[q]
        /\ job'[r].reached = job[r].reached
    BY <1>1, <1>3, <2>1, GotoNow, GotoIs DEF Quiet
  <2>3. PICK h \in Host : h = Now(r).servers[job[r].reached + 1]
    <3>1. /\ job[r].reached \in Nat /\ job[r].reached < Len(Now(r).servers)
          /\ Now(r).servers \in Seq(Host) /\ Len(Now(r).servers) \in Nat
      BY <1>1, PlanType, UnderWay DEF ReachedOK
    <3> QED
      BY <3>1
  <2>4. /\ WorkTypeOK' /\ work'[r] # None /\ work'[r].kind = "install"
        /\ work'[r].at = "sent" /\ work'[r].host = h /\ work'[r].cur = job[r].cur
        /\ work'[r].k = job[r].done /\ \A q \in Run : q # r => work'[q] = work[q]
    BY <1>1, <1>3, <2>3, SendIs
  <2>5. Others(r)
    BY <2>2, <2>4 DEF Others
  <2>6. CommandOK(r)'
    BY <2>4 DEF CommandOK
  <2>7. RunOK(r)'
    BY <1>1, <2>2, <2>3, <2>4, UnderWay DEF RunOK, At, Active, Same
  <2> QED
    BY <1>1, <2>2, <2>4, <2>5, <2>6, <2>7, MovesQuietly
<1> QED
  BY <1>2, <1>3 DEF Install

\* Where the next replica of a run that deploys is to go.
LEMMA NextIsDue ==
    ASSUME ComposeIInv, NEW r \in Run, Active(r), SharesOK(r), job[r].left > 0
    PROVE  /\ Due(r, job[r].cur, job[r].done, Now(r).servers[job[r].srv])
           /\ Now(r).servers[job[r].srv] \in Host
<1>1. PICK cfg \in Config : cfg = Now(r)
  BY UnderWay
<1>2. PICK s \in 1 .. Len(cfg.servers), left \in Nat, done \in Nat :
        s = job[r].srv /\ left = job[r].left /\ done = job[r].done
  BY <1>1, PlanType DEF SharesOK, ComposeIInv
<1>3. /\ done + left = Total(cfg, s) /\ left <= Share(cfg, s) /\ left > 0
      /\ Answered(cfg.servers)
  BY <1>1, <1>2 DEF SharesOK
<1>4. Spread(cfg) /\ cfg.servers \in Seq(Host)
  <2>1. cfg.servers \in Seq(Host) /\ cfg.servers # <<>>
    BY <1>1, <1>2, UnderWay
  <2> QED
    BY <1>1, <2>1, UnderWay
<1>5. /\ s \in DOMAIN cfg.servers /\ Share(cfg, s) \in Nat /\ Total(cfg, s) \in Nat
      /\ Total(cfg, s) <= cfg.replicas /\ cfg.replicas \in Nat
  BY <1>4, Totals DEF Spread
<1>6. /\ Total(cfg, s) - Share(cfg, s) <= done /\ done < Total(cfg, s)
      /\ done < cfg.replicas
  BY ONLY <1>3, <1>5, done \in Nat, left \in Nat
<1>7. Place(cfg, done, cfg.servers[s])
  BY <1>5, <1>6 DEF Place
<1>8. cfg.servers[s] \in Host
  BY <1>4, <1>5
<1> QED
  BY <1>1, <1>2, <1>3, <1>6, <1>7, <1>8, UnderWay DEF Due

LEMMA DeployKeeps ==
    ASSUME ComposeIInv, NEW r \in Run, Deploy(r), UNCHANGED asked PROVE ComposeIInv'
<1>1. /\ At(r, "deploy") /\ Active(r) /\ Quiet /\ SharesOK(r) /\ ComposeTypeOK
      /\ job[r].left > 0
  BY DEF Deploy, At, Active, Quiet, machines, ComposeIInv, RunOK
<1>2. ASSUME Fail(r), work' = work PROVE ComposeIInv'
  BY <1>1, <1>2, FailKeeps
<1>3. ASSUME Send(r, "run", Now(r).servers[job[r].srv]), Goto(r, "wait")
      PROVE  ComposeIInv'
  <2>1. "wait" \in Label
    BY DEF Label
  <2>2. /\ Same(r) /\ Now(r)' = Now(r) /\ job' \in [Run -> Job] /\ job'[r].pc = "wait"
        /\ SharesOK(r)' /\ \A q \in Run : q # r => job'[q] = job[q]
        /\ job'[r].srv = job[r].srv /\ job'[r].left = job[r].left
    BY <1>1, <1>3, <2>1, GotoNow, GotoIs DEF Quiet
  <2>3. PICK h \in Host, i \in Nat, k \in Nat :
          /\ h = Now(r).servers[job[r].srv] /\ i = job[r].cur /\ k = job[r].done
    BY <1>1, NextIsDue, UnderWay, PlanType
  <2>4. Due(r, i, k, h)
    BY <1>1, <2>3, NextIsDue
  <2>5. /\ WorkTypeOK' /\ work'[r] # None /\ work'[r].kind = "run"
        /\ work'[r].at = "sent" /\ work'[r].host = h /\ work'[r].cur = i
        /\ work'[r].k = k /\ \A q \in Run : q # r => work'[q] = work[q]
    BY <1>1, <1>3, <2>3, SendIs
  <2>6. Others(r)
    BY <2>2, <2>5 DEF Others
  <2>7. Due(r, i, k, h)'
    BY <1>1, <2>2, <2>4 DEF Due, Same, Quiet, Answered, Place, Total, Share
  <2>8. CommandOK(r)'
    BY <2>5, <2>7 DEF CommandOK
  <2>9. RunOK(r)'
    BY <1>1, <2>2, <2>3, <2>5, UnderWay DEF RunOK, At, Active, Same
  <2> QED
    BY <1>1, <2>2, <2>5, <2>6, <2>8, <2>9, MovesQuietly
<1> QED
  BY <1>2, <1>3 DEF Deploy

LEMMA NextServerKeeps ==
    ASSUME ComposeIInv, NEW r \in Run, NextServer(r), UNCHANGED asked PROVE ComposeIInv'
<1>1. /\ At(r, "deploy") /\ Active(r) /\ Quiet /\ work' = work /\ SharesOK(r)
      /\ ComposeTypeOK /\ job[r].left = 0 /\ job[r].srv < Len(Now(r).servers)
      /\ Become(r, [job[r] EXCEPT !.srv = @ + 1, !.left = Share(Now(r), job[r].srv + 1)])
  BY DEF NextServer, At, Active, Quiet, machines, ComposeIInv, RunOK
<1>2. PICK cfg \in Config : cfg = Now(r)
  BY <1>1, UnderWay
<1>3. PICK s \in 1 .. Len(cfg.servers), done \in Nat : s = job[r].srv /\ done = job[r].done
  BY <1>1, <1>2, PlanType DEF SharesOK
<1>4. Spread(cfg) /\ Len(cfg.servers) \in Nat /\ s < Len(cfg.servers)
  <2>1. cfg.servers # <<>> /\ Len(cfg.servers) \in Nat
    BY <1>1, <1>2, <1>3, UnderWay
  <2> QED
    BY <1>1, <1>2, <1>3, <2>1, UnderWay
<1>5. s + 1 \in 1 .. Len(cfg.servers) /\ s + 1 \in Nat
  BY <1>4
<1>6. /\ Share(cfg, s + 1) \in Nat /\ Total(cfg, s) \in Nat
      /\ Total(cfg, s + 1) = Total(cfg, s) + Share(cfg, s + 1)
  BY <1>4, <1>5, Totals
<1>7. done = Total(cfg, s) /\ Answered(cfg.servers)
  BY <1>1, <1>2, <1>3, <1>6 DEF SharesOK
<1>8. PICK left \in Nat : left = Share(cfg, s + 1)
  BY <1>6
<1> DEFINE j == [job[r] EXCEPT !.srv = s + 1, !.left = left]
<1>9. /\ j \in Job /\ j.pc = "deploy" /\ j.plan = job[r].plan /\ j.cur = job[r].cur
      /\ j.done = done /\ j.srv = s + 1 /\ j.left = left
  <2>1. job[r] \in Job /\ job[r].pc = "deploy"
    BY <1>1, UnderWay DEF At
  <2> QED
    BY <1>3, <1>5, <2>1 DEF Job
<1>10. Become(r, j)
  BY <1>1, <1>2, <1>3, <1>8
<1> HIDE DEF j
<1>11. /\ job' \in [Run -> Job] /\ job'[r] = j /\ Others(r) /\ WorkTypeOK'
       /\ work'[r] = work[r]
  BY <1>1, <1>9, <1>10, BecomeIs
<1>12. Same(r) /\ Now(r)' = cfg
  BY <1>2, <1>3, <1>9, <1>11 DEF Same, Now
<1>13. SharesOK(r)'
  <2>1. done + left = Total(cfg, s + 1) /\ left <= Share(cfg, s + 1)
    BY <1>6, <1>7, <1>8
  <2>2. /\ job'[r].srv = s + 1 /\ job'[r].done = done /\ job'[r].left = left
        /\ Answered(cfg.servers)'
    BY <1>1, <1>7, <1>9, <1>11 DEF Answered, Quiet
  <2> QED
    BY <1>5, <1>12, <2>1, <2>2 DEF SharesOK, Total, Share
<1>14. RunOK(r)'
  BY <1>1, <1>9, <1>11, <1>13, UnderWay DEF RunOK, At, Active
<1> QED
  BY <1>1, <1>11, <1>12, <1>14, MovesQuietly

\* A replica whose command has gone well is counted.
LEMMA ReplicaCounted ==
    ASSUME ComposeIInv, NEW r \in Run, At(r, "wait"), Quiet, UNCHANGED work,
           work[r].kind = "run", work[r].at = "done",
           Become(r, [job[r] EXCEPT !.pc = "deploy", !.left = @ - 1, !.done = @ + 1])
    PROVE  ComposeIInv'
<1>1. /\ Active(r) /\ ComposeTypeOK /\ SharesOK(r) /\ job[r].left > 0
      /\ work[r] # None /\ work[r].cur = job[r].cur /\ work[r].k = job[r].done
      /\ job[r] \in Job /\ job[r].cur \in DOMAIN job[r].plan
  BY UnderWay DEF At, Active, ComposeIInv, RunOK
<1>2. PICK i \in Nat, k \in Nat, left \in Nat, s \in Nat :
        i = job[r].cur /\ k = job[r].done /\ left = job[r].left /\ s = job[r].srv
  BY <1>1, PlanType
<1>3. PICK cfg \in Config : cfg = Now(r)
  BY <1>1, UnderWay
<1>4. /\ s \in 1 .. Len(cfg.servers) /\ k + left = Total(cfg, s) /\ left <= Share(cfg, s)
      /\ Answered(cfg.servers) /\ left > 0
  BY <1>1, <1>2, <1>3 DEF SharesOK
<1>5. Share(cfg, s) \in Nat
  <2>1. Spread(cfg)
    <3>1. cfg.servers # <<>>
      BY <1>1, <1>3, <1>4, UnderWay
    <3> QED
      BY <1>1, <1>3, <3>1, UnderWay
  <2> QED
    BY <1>4, <2>1, Totals
<1>6. left - 1 \in Nat /\ (k + 1) + (left - 1) = Total(cfg, s) /\ left - 1 <= Share(cfg, s)
  BY <1>2, <1>4, <1>5
<1> DEFINE j == [job[r] EXCEPT !.pc = "deploy", !.left = left - 1, !.done = k + 1]
<1>7. /\ j \in Job /\ j.pc = "deploy" /\ j.plan = job[r].plan /\ j.cur = i
      /\ j.done = k + 1 /\ j.srv = s /\ j.left = left - 1
  <2>1. "deploy" \in Label
    BY DEF Label
  <2>2. PICK l \in Nat, d \in Nat : l = left - 1 /\ d = k + 1
    <3>1. left - 1 \in Nat /\ k + 1 \in Nat
      BY ONLY <1>6, k \in Nat
    <3> QED
      BY ONLY <3>1
  <2>3. j = [job[r] EXCEPT !.pc = "deploy", !.left = l, !.done = d]
    BY <2>2
  <2> HIDE DEF j
  <2> QED
    BY <1>1, <1>2, <2>1, <2>2, <2>3 DEF Job
<1>8. Become(r, j)
  BY <1>2
<1> HIDE DEF j
<1>9. /\ job' \in [Run -> Job] /\ job'[r] = j /\ Others(r) /\ WorkTypeOK'
      /\ work'[r] = work[r]
  BY <1>1, <1>7, <1>8, BecomeIs
<1>10. Forward(r) /\ Now(r)' = cfg
  BY <1>2, <1>3, <1>7, <1>9 DEF Forward, Now
<1>11. SharesOK(r)'
  <2>1. /\ job'[r].srv = s /\ job'[r].done = k + 1 /\ job'[r].left = left - 1
        /\ Answered(cfg.servers)'
    BY <1>4, <1>7, <1>9 DEF Answered, Quiet
  <2> QED
    BY <1>4, <1>6, <1>10, <2>1 DEF SharesOK, Total, Share
<1>12. RunOK(r)'
  BY <1>1, <1>2, <1>7, <1>9, <1>11 DEF RunOK, At, Active
<1>13. Up(r, i, k)'
  BY <1>1, <1>2 DEF ComposeIInv, CommandOK, Up, Runs, MadeFor, Quiet
<1>14. \A x \in DOMAIN job[r].plan, y \in 0 .. MaxReplicas :
         Counted(r, x, y)' => Counted(r, x, y) \/ Up(r, x, y)'
  <2> SUFFICES ASSUME NEW x \in DOMAIN job[r].plan, NEW y \in 0 .. MaxReplicas,
                      Counted(r, x, y)', ~Counted(r, x, y)
               PROVE  x = i /\ y = k
    BY <1>13
  <2>1. y \in Nat
    BY OrchestratorAssumption
  <2> QED
    BY <1>2, <1>7, <1>9, <2>1 DEF Counted
<1>15. KeepsUp /\ DockTypeOK' /\ docker' \subseteq Host /\ docker \subseteq docker'
  BY <1>1 DEF Quiet, KeepsUp, Up, Runs, MadeFor, DockTypeOK, ComposeTypeOK
<1> QED
  BY <1>9, <1>10, <1>12, <1>14, <1>15, Moves DEF Quiet

LEMMA ReturnedKeeps ==
    ASSUME ComposeIInv, NEW r \in Run, Returned(r), UNCHANGED asked PROVE ComposeIInv'
<1>1. At(r, "wait") /\ Active(r) /\ Quiet /\ work' = work
  BY DEF Returned, At, Active, Quiet, machines
<1>2. CASE Fail(r)
  BY <1>1, <1>2, FailKeeps
<1>3. CASE /\ work[r].at = "done" /\ work[r].kind = "install"
           /\ Become(r, ReachedServer(job[r], job[r].reached + 1))
  <2>1. ReachedOK(r) /\ Now(r).servers[job[r].reached + 1] \in docker
    BY <1>1, <1>3 DEF ComposeIInv, RunOK, CommandOK
  <2> QED
    BY <1>1, <1>3, <2>1, ServerReadyKeeps
<1>4. CASE /\ work[r].at = "done" /\ work[r].kind = "run"
           /\ Become(r, [job[r] EXCEPT !.pc = "deploy", !.left = @ - 1, !.done = @ + 1])
  BY <1>1, <1>4, ReplicaCounted
<1> QED
  BY <1>2, <1>3, <1>4 DEF Returned

\* A command that is given up, an interrupt.
LEMMA EndsKeep ==
    ASSUME ComposeIInv, NEW r \in Run, TimedOut(r) \/ Interrupt(r), UNCHANGED asked
    PROVE  ComposeIInv'
  BY FailKeeps DEF TimedOut, Interrupt, Quiet, machines

LEMMA TurnIs ==
    ASSUME NEW plan \in Seq(Config), NEW i \in Nat \ {0}
    PROVE  LET to == Turn(plan, i)
           IN /\ to \in Job /\ to.plan = plan /\ to.cur = i /\ to.done = 0 /\ to.reached = 0
              /\ to.pc \in {"ok", "ping", "connect"}
              /\ to.pc # "ok" => i \in DOMAIN plan
              /\ to.pc = "ping" => plan[i].servers = <<>>
              /\ to.pc = "connect" => plan[i].servers # <<>>
<1>1. DOMAIN plan = 1 .. Len(plan) /\ Len(plan) \in Nat
  OBVIOUS
<1>2. PICK pc \in {"ok", "ping", "connect"} :
        /\ pc = IF i > Len(plan) THEN "ok"
                ELSE IF plan[i].servers = <<>> THEN "ping" ELSE "connect"
  OBVIOUS
<1>3. /\ pc # "ok" => i \in DOMAIN plan
      /\ pc = "ping" => plan[i].servers = <<>>
      /\ pc = "connect" => plan[i].servers # <<>>
  BY <1>1, <1>2
<1> DEFINE c == [New EXCEPT !.plan = plan, !.cur = i, !.pc = pc]
<1>4. Turn(plan, i) = c
  BY <1>2 DEF Turn
<1>5. /\ c \in Job /\ c.plan = plan /\ c.cur = i /\ c.done = 0 /\ c.reached = 0 /\ c.pc = pc
  <2>1. New \in Job /\ New.done = 0 /\ New.reached = 0
    BY DEF New, Job, Label
  <2>2. pc \in Label
    BY <1>2 DEF Label
  <2> QED
    BY <2>1, <2>2 DEF Job
<1> HIDE DEF c
<1> QED
  BY <1>3, <1>4, <1>5

\* A run that begins with a service has counted no replica of it.
LEMMA TurnOK ==
    ASSUME NEW r \in Run, NEW plan \in Seq(Config), NEW i \in Nat \ {0},
           job'[r] = Turn(plan, i)
    PROVE  RunOK(r)'
<1> DEFINE j == Turn(plan, i)
<1>1. /\ j \in Job /\ j.plan = plan /\ j.cur = i /\ j.done = 0 /\ j.reached = 0
      /\ j.pc \in {"ok", "ping", "connect"}
      /\ j.pc # "ok" => i \in DOMAIN plan
      /\ j.pc = "ping" => plan[i].servers = <<>>
      /\ j.pc = "connect" => plan[i].servers # <<>>
  BY TurnIs
<1>2. job'[r] = j
  OBVIOUS
<1> HIDE DEF j
<1>3. Now(r)' = plan[i]
  BY <1>1, <1>2 DEF Now
<1>4. ASSUME j.pc = "connect" PROVE ReachedOK(r)'
  <2>1. i \in DOMAIN plan /\ plan[i] \in Config
    BY <1>1, <1>4
  <2>2. PICK servers \in Seq(Host) : servers = plan[i].servers /\ servers # <<>>
    BY <1>1, <1>4, <2>1 DEF Config
  <2>3. 0 < Len(servers)
    BY <2>2
  <2>4. 1 .. 0 = {} /\ job'[r].reached = 0 /\ job'[r].done = 0 /\ Now(r)'.servers = servers
    BY <1>1, <1>2, <1>3, <2>2
  <2> QED
    BY <2>3, <2>4 DEF ReachedOK
<1> QED
  BY <1>1, <1>2, <1>3, <1>4 DEF RunOK, At, Active

LEMMA ServiceDoneKeeps ==
    ASSUME ComposeIInv, NEW r \in Run, ServiceDone(r), UNCHANGED asked PROVE ComposeIInv'
<1>1. Become(r, Turn(job[r].plan, job[r].cur + 1))
  BY DEF ServiceDone
<1>2. /\ Active(r) /\ Quiet /\ work' = work
  BY DEF ServiceDone, At, Active, Quiet, machines
<1>3. PICK plan \in Seq(Config), i \in Nat, done \in Nat, cfg \in Config :
        /\ plan = job[r].plan /\ i = job[r].cur /\ done = job[r].done /\ cfg = Now(r)
  BY <1>2, UnderWay, PlanType
<1>4. ComposeTypeOK /\ cfg.replicas \in Nat /\ cfg = plan[i]
  BY <1>2, <1>3, UnderWay
<1>5. cfg.replicas <= done
  <2>1. CASE At(r, "local") /\ job[r].done >= Now(r).replicas
    BY <1>3, <1>4, <2>1
  <2>2. CASE At(r, "deploy") /\ job[r].left = 0 /\ job[r].srv = Len(Now(r).servers)
    <3>1. PICK s \in 1 .. Len(cfg.servers) : s = job[r].srv /\ s = Len(cfg.servers)
      BY <1>3, <2>2 DEF ComposeIInv, RunOK, SharesOK
    <3>2. done = Total(cfg, s) \/ done + 0 = Total(cfg, s)
      BY <1>3, <2>2, <3>1 DEF ComposeIInv, RunOK, SharesOK
    <3>3. Spread(cfg)
      <4>1. cfg.servers # <<>>
        BY <1>2, <1>3, <3>1, UnderWay
      <4> QED
        BY <1>2, <1>3, <4>1, UnderWay
    <3>4. Total(cfg, s) = cfg.replicas
      BY <3>1, <3>3, Totals
    <3> QED
      BY <1>3, <1>4, <3>2, <3>4
  <2> QED
    BY <2>1, <2>2 DEF ServiceDone
<1> DEFINE j == Turn(plan, i + 1)
<1>6. j \in Job /\ j.plan = plan /\ j.cur = i + 1 /\ j.done = 0
  BY TurnIs
<1>7. Become(r, j)
  BY <1>1, <1>2, <1>3
<1>8. RunOK(r)' \/ job'[r] # j
  BY TurnOK
<1> HIDE DEF j
<1>9. /\ job' \in [Run -> Job] /\ job'[r] = j /\ Others(r) /\ WorkTypeOK'
      /\ work'[r] = work[r]
  BY <1>2, <1>4, <1>6, <1>7, BecomeIs
<1>10. Forward(r)
  BY <1>3, <1>6, <1>9 DEF Forward
<1>11. \A x \in DOMAIN job[r].plan, y \in 0 .. MaxReplicas :
         y < job[r].plan[x].replicas /\ Counted(r, x, y)' => Counted(r, x, y)
  <2> SUFFICES ASSUME NEW x \in DOMAIN job[r].plan, NEW y \in 0 .. MaxReplicas,
                      y < job[r].plan[x].replicas, Counted(r, x, y)'
               PROVE  Counted(r, x, y)
    OBVIOUS
  <2>1. x \in Nat /\ y \in Nat
    BY <1>4, PlanType, OrchestratorAssumption
  <2>2. x < i + 1
    BY <1>6, <1>9, <2>1 DEF Counted
  <2>3. CASE x = i
    <3>1. y < done
      BY <1>3, <1>4, <1>5, <2>1, <2>3
    <3> QED
      BY <1>3, <2>3, <3>1 DEF Counted
  <2>4. CASE x < i
    BY <1>3, <2>4 DEF Counted
  <2> QED
    BY <1>3, <2>1, <2>2, <2>3, <2>4
<1>12. KeepsUp /\ DockTypeOK' /\ docker' \subseteq Host /\ docker \subseteq docker'
  BY <1>2, <1>4 DEF Quiet, KeepsUp, Up, Runs, MadeFor, DockTypeOK, ComposeTypeOK
<1> QED
  BY <1>2, <1>8, <1>9, <1>10, <1>11, <1>12, Moves DEF Quiet

-----------------------------------------------------------------------------
(* The servers, with the command they were sent last.                       *)

LEMMA ReportIs ==
    ASSUME ComposeIInv, NEW r \in Run, work[r] # None,
           NEW at \in {"sent", "created", "done", "refused"}, Report(r, at)
    PROVE  /\ WorkTypeOK' /\ work'[r] # None /\ work'[r].at = at
           /\ work'[r].kind = work[r].kind /\ work'[r].host = work[r].host
           /\ work'[r].cur = work[r].cur /\ work'[r].k = work[r].k
           /\ work[r].cur \in Nat /\ work[r].k \in Nat /\ work[r].host \in Host
           /\ \A q \in Run : q # r => work'[q] = work[q]
<1>1. work[r] \in Command /\ ComposeTypeOK
  BY DEF ComposeIInv, ComposeTypeOK
<1> DEFINE c == [work[r] EXCEPT !.at = at]
<1>2. /\ c \in Command /\ c.at = at /\ c.kind = work[r].kind /\ c.host = work[r].host
      /\ c.cur = work[r].cur /\ c.k = work[r].k
  BY <1>1 DEF Command
<1>3. work' = [work EXCEPT ![r] = c] /\ c # None
  BY <1>2, OrchestratorAssumption DEF Report
<1> HIDE DEF c
<1>4. work[r].cur \in Nat /\ work[r].k \in Nat /\ work[r].host \in Host
  BY <1>1 DEF Command
<1> QED
  BY <1>1, <1>2, <1>3, <1>4 DEF WorkTypeOK, ComposeTypeOK

\* What a server does with a command leaves the run where it is.
LEMMA ReportKeeps ==
    ASSUME ComposeIInv, NEW r \in Run, work[r] # None,
           NEW at \in {"sent", "created", "done", "refused"}, Report(r, at),
           UNCHANGED <<job, touched, asked>>,
           docker \subseteq docker', docker' \subseteq Host, DockTypeOK', KeepsUp,
           \/ UNCHANGED dock \/ NothingNew
           \/ \E i \in Nat, k \in Nat, h \in Host :
                NewOnly(<<r, i, k>>, h) /\ Due(r, i, k, h)',
           \/ at # "done"
           \/ work[r].kind = "install" /\ work[r].host \in docker'
           \/ \E i \in Nat, k \in Nat :
                /\ work[r].kind = "run" /\ i = work[r].cur /\ k = work[r].k
                /\ Up(r, i, k)'
    PROVE  ComposeIInv'
<1>1. /\ WorkTypeOK' /\ work'[r] # None /\ work'[r].at = at
      /\ work'[r].kind = work[r].kind /\ work'[r].host = work[r].host
      /\ work'[r].cur = work[r].cur /\ work'[r].k = work[r].k
      /\ work[r].cur \in Nat /\ work[r].k \in Nat /\ work[r].host \in Host
      /\ \A q \in Run : q # r => work'[q] = work[q]
  BY ReportIs
<1>2. ComposeTypeOK /\ ComposeTypeOK' /\ Others(r)
  BY <1>1 DEF ComposeIInv, ComposeTypeOK, WorkTypeOK, DockTypeOK, Others
<1>3. Forward(r)
  <2>1. job[r].cur \in Nat /\ job[r].done \in Nat
    BY <1>2, PlanType
  <2> QED
    BY <2>1 DEF Forward
<1>4. DueKept
  BY <1>2, <1>3, DueGrowsForAll
<1>5. RunOK(r)'
  <2>1. Now(r)' = Now(r)
    BY DEF Now
  <2>2. ReachedOK(r) => ReachedOK(r)'
    BY <2>1 DEF ReachedOK
  <2>3. SharesOK(r) => SharesOK(r)'
    BY <2>1 DEF SharesOK, Answered, Share, Total
  <2>4. RunOK(r)
    BY DEF ComposeIInv
  <2>5. ~At(r, "new")
    BY <2>4 DEF RunOK
  <2>6. At(r, "wait") =>
          /\ work'[r] # None /\ work'[r].cur = job'[r].cur /\ work'[r].k = job'[r].done
          /\ work'[r].kind = "install" =>
               ReachedOK(r)' /\ work'[r].host = Now(r)'.servers[job'[r].reached + 1]
          /\ work'[r].kind = "run" =>
               /\ SharesOK(r)' /\ job'[r].left > 0
               /\ work'[r].host = Now(r)'.servers[job'[r].srv]
    BY <1>1, <2>1, <2>2, <2>3, <2>4 DEF RunOK
  <2> QED
    BY <2>1, <2>2, <2>3, <2>4, <2>5, <2>6 DEF RunOK, At, Active
<1>6. CommandOK(r)'
  <2>1. PICK i \in Nat, k \in Nat, h \in Host :
          /\ i = work[r].cur /\ k = work[r].k /\ h = work[r].host
    BY <1>1
  <2>2. work[r].kind = "run" => Due(r, i, k, h)'
    BY <1>4, <2>1 DEF ComposeIInv, CommandOK, DueKept
  <2>3. work[r].kind = "run" /\ at = "done" => Up(r, i, k)'
    BY <2>1
  <2>4. work[r].kind = "install" /\ at = "done" => h \in docker'
    BY <2>1
  <2> QED
    BY <1>1, <2>1, <2>2, <2>3, <2>4 DEF CommandOK
<1>7. \A i \in DOMAIN job[r].plan, k \in 0 .. MaxReplicas :
        Counted(r, i, k)' => Counted(r, i, k)
  BY DEF Counted
<1> QED
  BY <1>1, <1>2, <1>3, <1>5, <1>6, <1>7, Moves DEF ComposeTypeOK

LEMMA ServerInstallKeeps ==
    ASSUME ComposeIInv, NEW r \in Run, ServerInstall(r), UNCHANGED asked PROVE ComposeIInv'
<1>1. /\ work[r] # None /\ work[r].kind = "install" /\ ComposeTypeOK
      /\ UNCHANGED <<dock, touched, job, asked>>
  BY DEF ServerInstall, Working, ComposeIInv
<1>2. work[r].host \in Host
  BY <1>1 DEF ComposeTypeOK, Command
<1>3. KeepsUp /\ DockTypeOK'
  BY <1>1 DEF KeepsUp, Up, Runs, MadeFor, DockTypeOK, ComposeTypeOK
<1>4. CASE docker' = docker \cup {work[r].host} /\ Report(r, "done")
  <2>1. docker \subseteq docker' /\ docker' \subseteq Host /\ work[r].host \in docker'
    BY <1>1, <1>2, <1>4 DEF ComposeTypeOK
  <2> QED
    BY <1>1, <1>3, <1>4, <2>1, ReportKeeps
<1>5. CASE Report(r, "refused") /\ UNCHANGED docker
  <2>1. docker \subseteq docker' /\ docker' \subseteq Host
    BY <1>1, <1>5 DEF ComposeTypeOK
  <2> QED
    BY <1>1, <1>3, <1>5, <2>1, ReportKeeps
<1> QED
  BY <1>4, <1>5 DEF ServerInstall

\* What a run command is about.
LEMMA OrderedIs ==
    ASSUME ComposeIInv, NEW r \in Run, work[r] # None, work[r].kind = "run"
    PROVE  \E i \in Nat, k \in Nat, h \in Host :
             /\ i = work[r].cur /\ k = work[r].k /\ h = work[r].host
             /\ Due(r, i, k, h) /\ Ordered(r) \in Config /\ k < Ordered(r).replicas
<1>1. PICK i \in Nat, k \in Nat, h \in Host :
        i = work[r].cur /\ k = work[r].k /\ h = work[r].host
  BY DEF ComposeIInv, ComposeTypeOK, Command
<1>2. Due(r, i, k, h)
  BY <1>1 DEF ComposeIInv, CommandOK
<1>3. i \in DOMAIN job[r].plan /\ k < job[r].plan[i].replicas /\ Ordered(r) = job[r].plan[i]
  BY <1>1, <1>2 DEF Due, Ordered
<1>4. job[r].plan[i] \in Config
  BY <1>3, PlanType DEF ComposeIInv
<1> QED
  BY <1>1, <1>2, <1>3, <1>4

LEMMA ServerCreateKeeps ==
    ASSUME ComposeIInv, NEW r \in Run, ServerCreate(r), UNCHANGED asked PROVE ComposeIInv'
<1>1. /\ work[r] # None /\ work[r].kind = "run" /\ ComposeTypeOK /\ DockTypeOK
      /\ UNCHANGED <<docker, touched, job, asked>>
      /\ docker \subseteq docker' /\ docker' \subseteq Host
  BY DEF ServerCreate, Working, ComposeIInv, ComposeTypeOK, DockTypeOK
<1>2. PICK i \in Nat, k \in Nat, h \in Host :
        /\ i = work[r].cur /\ k = work[r].k /\ h = work[r].host
        /\ Due(r, i, k, h) /\ Ordered(r) \in Config /\ k < Ordered(r).replicas
  BY <1>1, OrderedIs
<1>3. CASE Created(h, Ordered(r), <<r, i, k>>) /\ Report(r, "created")
  <2>1. DockTypeOK' /\ KeepsUp /\ NewOnly(<<r, i, k>>, h)
    BY <1>1, <1>2, <1>3, CreatedFacts
  <2>2. Due(r, i, k, h)'
    BY <1>1, <1>2 DEF Due, Answered, Place
  <2> QED
    BY <1>1, <1>3, <2>1, <2>2, ReportKeeps
<1>4. CASE NotCreated(h, Ordered(r), k) /\ Report(r, "refused")
  <2>1. UNCHANGED dock
    BY <1>4 DEF NotCreated
  <2>2. KeepsUp /\ DockTypeOK'
    BY <1>1, <2>1 DEF KeepsUp, Up, Runs, MadeFor, DockTypeOK
  <2> QED
    BY <1>1, <1>4, <2>1, <2>2, ReportKeeps
<1> QED
  BY <1>2, <1>3, <1>4 DEF ServerCreate

LEMMA ServerStartKeeps ==
    ASSUME ComposeIInv, NEW r \in Run, ServerStart(r), UNCHANGED asked PROVE ComposeIInv'
<1>1. /\ work[r] # None /\ work[r].kind = "run" /\ ComposeTypeOK /\ DockTypeOK
      /\ UNCHANGED <<docker, touched, job, asked>>
      /\ docker \subseteq docker' /\ docker' \subseteq Host
  BY DEF ServerStart, Working, ComposeIInv, ComposeTypeOK, DockTypeOK
<1>2. PICK i \in Nat, k \in Nat, h \in Host :
        /\ i = work[r].cur /\ k = work[r].k /\ h = work[r].host
        /\ Due(r, i, k, h) /\ Ordered(r) \in Config /\ k < Ordered(r).replicas
  BY <1>1, OrderedIs
<1>3. CASE Started(h, Ordered(r), <<r, i, k>>) /\ Report(r, "done")
  <2>1. DockTypeOK' /\ KeepsUp /\ NothingNew /\ Up(r, i, k)'
    BY <1>1, <1>2, <1>3, StartedFacts
  <2> QED
    BY <1>1, <1>2, <1>3, <2>1, ReportKeeps
<1>4. CASE NotStarted(h, Ordered(r), <<r, i, k>>) /\ Report(r, "refused")
  <2>1. UNCHANGED dock
    BY <1>4 DEF NotStarted
  <2>2. KeepsUp /\ DockTypeOK'
    BY <1>1, <2>1 DEF KeepsUp, Up, Runs, MadeFor, DockTypeOK
  <2> QED
    BY <1>1, <1>4, <2>1, <2>2, ReportKeeps
<1> QED
  BY <1>2, <1>3, <1>4 DEF ServerStart

-----------------------------------------------------------------------------
(* The users.                                                               *)

LEMMA UsersKeep ==
    ASSUME ComposeIInv, NEW s \in Slot, NEW force \in BOOLEAN,
           StopLocal(s) \/ RemoveLocal(s, force) \/ RestartLocal(s), UNCHANGED asked
    PROVE  ComposeIInv'
<1>1. ComposeTypeOK /\ MadeOK /\ UNCHANGED <<docker, work, job, asked>>
  BY DEF ComposeIInv, StopLocal, RemoveLocal, RestartLocal
<1>2. DockTypeOK' /\ KeepsUp /\ NothingNew /\ touched' \subseteq Run \X Nat \X Nat
  BY <1>1, UserFacts
<1>3. ComposeTypeOK'
  BY <1>1, <1>2 DEF ComposeTypeOK, DockTypeOK
<1>4. DueKept
  BY <1>1 DEF DueKept, Due, Answered, Place
<1>5. MadeOK'
  BY <1>1, <1>2, <1>4, MadeKept
<1>6. \A q \in Run : RunOK(q)' /\ CommandOK(q)' /\ CountedOK(q)' /\ PlanOK(q)'
  BY <1>1, <1>2, <1>4, OthersKeep DEF ComposeIInv
<1> QED
  BY <1>3, <1>5, <1>6 DEF ComposeIInv

-----------------------------------------------------------------------------
(* Runs begin.                                                              *)

\* A run that has a plan now has counted none of it, and has sent no command.
LEMMA BeginKeeps ==
    ASSUME ComposeIInv, NEW r \in Run, At(r, "new"), NEW plan \in Seq(Config),
           Become(r, Turn(plan, 1)), UNCHANGED <<machines, work>>, ComposeTypeOK',
           \A q \in Run : q # r => asked'[q] = asked[q],
           asked'[r] # None =>
             \E o \in DeployOrder(asked'[r]), options \in Options :
               plan = [i \in DOMAIN o |-> ConfigOf(asked'[r], o[i], options)]
    PROVE  ComposeIInv'
<1>1. /\ job[r] = New /\ work[r] = None /\ ComposeTypeOK /\ New.plan = <<>>
      /\ UNCHANGED <<docker, dock, touched>>
  BY DEF ComposeIInv, RunOK, New, machines
<1> DEFINE j == Turn(plan, 1)
<1>2. j \in Job /\ j.plan = plan /\ j.cur = 1 /\ j.done = 0
  BY TurnIs
<1>3. Become(r, j)
  OBVIOUS
<1>4. RunOK(r)' \/ job'[r] # j
  BY TurnOK
<1> HIDE DEF j
<1>5. job' \in [Run -> Job] /\ job'[r] = j /\ Others(r) /\ work'[r] = work[r]
  BY <1>1, <1>2, <1>3, BecomeIs
<1>6. CommandOK(r)'
  BY <1>1, <1>5 DEF CommandOK
<1>7. CountedOK(r)'
  <2>1. ASSUME NEW i \in DOMAIN plan, NEW k \in 0 .. MaxReplicas PROVE ~Counted(r, i, k)'
    <3>1. i \in Nat /\ i >= 1 /\ k \in Nat
      BY OrchestratorAssumption
    <3> QED
      BY <1>2, <1>5, <3>1 DEF Counted
  <2> QED
    BY <1>2, <1>5, <2>1 DEF CountedOK
<1>8. PlanOK(r)'
  BY <1>2, <1>5 DEF PlanOK
<1>9. KeepsUp /\ docker \subseteq docker'
  BY <1>1 DEF KeepsUp, Up, Runs, MadeFor
<1> QED
  BY <1>1, <1>4, <1>5, <1>6, <1>7, <1>8, <1>9, OneRun

LEMMA BeginRunKeeps ==
    ASSUME ComposeIInv, NEW r \in Run, NEW cfg \in RunCmd, BeginRun(r, cfg), UNCHANGED asked
    PROVE  ComposeIInv'
<1>1. cfg \in Config
  BY ComposeAssumption
<1>2. PICK plan \in Seq(Config) : plan = <<cfg>>
  <2>1. <<cfg>> \in Seq(Config)
    BY ONLY <1>1
  <2> QED
    BY ONLY <2>1
<1>3. At(r, "new") /\ Become(r, Turn(plan, 1)) /\ UNCHANGED <<machines, work>>
  BY <1>2 DEF BeginRun
<1>4. asked[r] = None
  BY <1>3 DEF ComposeIInv, RunOK
<1>5. job' \in [Run -> Job]
  BY <1>3, TurnIs, BecomeIs DEF ComposeIInv
<1>6. ComposeTypeOK'
  BY <1>3, <1>5 DEF ComposeIInv, ComposeTypeOK, machines
<1> QED
  BY <1>3, <1>4, <1>6, BeginKeeps

\* What deployService hands over is a configuration.
LEMMA ConfigType ==
    ASSUME NEW f \in File, NEW s \in ServicesOf(f), NEW options \in Options
    PROVE  ConfigOf(f, s, options) \in Config
<1>1. /\ s \in Service /\ f.services[s] \in ServiceEntry /\ f.defaults \in Seq(Host)
      /\ f.services[s].replicas <= MaxReplicas /\ f.services[s].deploy <= MaxReplicas
      /\ Service \subseteq Name /\ MaxReplicas \in Nat /\ MaxReplicas > 0
      /\ options.servers \in Seq(Host) /\ options.install \in BOOLEAN
  BY ComposeAssumption, OrchestratorAssumption DEF ServicesOf
<1>2. PICK e \in ServiceEntry : e = f.services[s]
  BY <1>1
<1>3. /\ e.name \in Name \cup {None} /\ e.image \in BOOLEAN /\ e.port \in Port
      /\ e.own \in Seq(Host) /\ e.group \in Seq(Host) /\ e.extension \in BOOLEAN
      /\ e.replicas \in Nat /\ e.deploy \in Nat
      /\ e.replicas <= MaxReplicas /\ e.deploy <= MaxReplicas
  BY <1>1, <1>2 DEF ServiceEntry
<1>4. ContainerNameOf(f, s) \in Name
  BY <1>1, <1>2, <1>3 DEF ContainerNameOf
<1>5. TargetServers(f, s) \in Seq(Host)
  <2>1. PICK first \in Seq(Host) : first = IF e.own = <<>> THEN f.defaults ELSE e.own
    BY <1>1, <1>3
  <2>2. first \o e.group \in Seq(Host) /\ <<>> \in Seq(Host)
    BY <1>3, <2>1
  <2>3. TargetServers(f, s) = IF e.extension THEN first \o e.group ELSE <<>>
    BY <1>2, <2>1 DEF TargetServers
  <2> QED
    BY <2>2, <2>3
<1>6. Replicas(e) \in 0 .. MaxReplicas
  BY <1>1, <1>3 DEF Replicas
<1>7. PICK servers \in Seq(Host) :
        servers = IF TargetServers(f, s) = <<>> THEN options.servers ELSE TargetServers(f, s)
  BY <1>1, <1>5
<1>8. ConfigOf(f, s, options) =
        [name |-> ContainerNameOf(f, s), image |-> e.image, servers |-> servers,
         replicas |-> Replicas(e), port |-> e.port, install |-> options.install]
  BY <1>2, <1>7 DEF ConfigOf
<1> QED
  BY <1>1, <1>3, <1>4, <1>6, <1>7, <1>8 DEF Config

\* There are finitely many services in a file, and an order names each of them.
LEMMA PlanOfFile ==
    ASSUME NEW f \in File, NEW o \in DeployOrder(f), NEW options \in Options
    PROVE  /\ Cardinality(ServicesOf(f)) \in Nat /\ IsFiniteSet(ServicesOf(f))
           /\ [i \in DOMAIN o |-> ConfigOf(f, o[i], options)] \in Seq(Config)
<1>1. IsFiniteSet(Service) /\ ServicesOf(f) \subseteq Service
  BY ComposeAssumption DEF ServicesOf
<1>2. IsFiniteSet(ServicesOf(f))
  BY <1>1, FS_Subset
<1>3. Cardinality(ServicesOf(f)) \in Nat
  BY <1>2, FS_CardinalityType
<1>4. PICK n \in Nat : n = Cardinality(ServicesOf(f))
  BY <1>3
<1>5. o \in [1 .. n -> ServicesOf(f)] /\ DOMAIN o = 1 .. n
  BY <1>4 DEF DeployOrder
<1>6. \A i \in 1 .. n : ConfigOf(f, o[i], options) \in Config
  BY <1>5, ConfigType
<1>7. [i \in 1 .. n |-> ConfigOf(f, o[i], options)] \in [1 .. n -> Config]
  BY <1>6
<1> QED
  BY <1>2, <1>3, <1>4, <1>5, <1>7

LEMMA BeginUpKeeps ==
    ASSUME ComposeIInv, NEW r \in Run, NEW f \in File, NEW options \in Options,
           BeginUp(r, f, options)
    PROVE  ComposeIInv'
<1>1. /\ At(r, "new") /\ asked' = [asked EXCEPT ![r] = f] /\ UNCHANGED <<machines, work>>
      /\ ComposeTypeOK /\ job[r] = New /\ work[r] = None /\ New.plan = <<>>
      /\ UNCHANGED <<docker, dock, touched>>
  BY DEF BeginUp, ComposeIInv, RunOK, New, machines
<1>2. /\ asked' \in [Run -> File \cup {None}] /\ asked'[r] = f
      /\ \A q \in Run : q # r => asked'[q] = asked[q]
  BY <1>1 DEF ComposeTypeOK
<1>3. CASE Fail(r)
  <2>1. "failed" \in Label
    BY DEF Label
  <2>2. /\ job' \in [Run -> Job] /\ job'[r].pc = "failed" /\ job'[r].plan = <<>>
        /\ \A q \in Run : q # r => job'[q] = job[q]
    BY <1>1, <1>3, <2>1, GotoIs DEF Fail, Same
  <2>3. ComposeTypeOK' /\ Others(r)
    BY <1>1, <1>2, <2>2 DEF ComposeTypeOK, Others
  <2>4. RunOK(r)' /\ CommandOK(r)' /\ CountedOK(r)' /\ PlanOK(r)'
    BY <1>1, <2>2 DEF RunOK, At, Active, CommandOK, CountedOK, PlanOK
  <2>5. KeepsUp /\ docker \subseteq docker'
    BY <1>1 DEF KeepsUp, Up, Runs, MadeFor
  <2> QED
    BY <1>1, <1>2, <2>3, <2>4, <2>5, OneRun
<1>4. ASSUME NEW o \in DeployOrder(f),
             Become(r, Turn([i \in DOMAIN o |-> ConfigOf(f, o[i], options)], 1))
      PROVE  ComposeIInv'
  <2>1. PICK plan \in Seq(Config) : plan = [i \in DOMAIN o |-> ConfigOf(f, o[i], options)]
    BY PlanOfFile
  <2>2. Become(r, Turn(plan, 1))
    BY <1>4, <2>1
  <2>3. job' \in [Run -> Job]
    BY <1>1, <2>2, TurnIs, BecomeIs
  <2>4. ComposeTypeOK'
    BY <1>1, <1>2, <2>3 DEF ComposeTypeOK
  <2> QED
    BY <1>1, <1>2, <2>1, <2>2, <2>4, BeginKeeps
<1> QED
  BY <1>3, <1>4 DEF BeginUp

-----------------------------------------------------------------------------
(* The invariant.                                                           *)

LEMMA ComposeInitOK ==
    ASSUME ComposeInit PROVE ComposeIInv
<1>1. /\ docker \subseteq Host /\ dock = [s \in Slot |-> None] /\ touched = {}
      /\ work = [r \in Run |-> None] /\ job = [r \in Run |-> New]
      /\ asked = [r \in Run |-> None]
  BY DEF ComposeInit, Init
<1>2. New \in Job /\ New.pc = "new" /\ New.plan = <<>>
  BY DEF New, Job, Label
<1>3. ComposeTypeOK /\ MadeOK
  BY <1>1, <1>2 DEF ComposeTypeOK, MadeOK
<1>4. ASSUME NEW r \in Run PROVE RunOK(r) /\ CommandOK(r) /\ CountedOK(r) /\ PlanOK(r)
  <2>1. job[r] = New /\ work[r] = None /\ asked[r] = None
    BY <1>1
  <2> QED
    BY <1>2, <2>1 DEF RunOK, At, Active, CommandOK, CountedOK, PlanOK
<1> QED
  BY <1>3, <1>4 DEF ComposeIInv

LEMMA StutterKeeps ==
    ASSUME ComposeIInv, UNCHANGED composeVars PROVE ComposeIInv'
<1>1. UNCHANGED <<docker, dock, touched, work, job, asked>> /\ ComposeTypeOK /\ MadeOK
  BY DEF composeVars, vars, ComposeIInv
<1>2. ComposeTypeOK'
  BY <1>1 DEF ComposeTypeOK
<1>3. DueKept /\ KeepsUp /\ DockTypeOK'
  BY <1>1 DEF DueKept, Due, Answered, Place, KeepsUp, Up, Runs, MadeFor, DockTypeOK,
              ComposeTypeOK
<1>4. MadeOK'
  BY <1>1, <1>3, MadeKept
<1>5. \A q \in Run : RunOK(q)' /\ CommandOK(q)' /\ CountedOK(q)' /\ PlanOK(q)'
  BY <1>1, <1>3, OthersKeep DEF ComposeIInv
<1> QED
  BY <1>2, <1>4, <1>5 DEF ComposeIInv

LEMMA ComposeStep ==
    ASSUME ComposeIInv, [ComposeNext]_composeVars PROVE ComposeIInv'
<1>1. ASSUME NEW r \in Run, NEW f \in File, NEW o \in Options, BeginUp(r, f, o)
      PROVE  ComposeIInv'
  BY <1>1, BeginUpKeeps
<1>2. ASSUME NEW r \in Run, NEW cfg \in RunCmd, BeginRun(r, cfg), UNCHANGED asked
      PROVE  ComposeIInv'
  BY <1>2, BeginRunKeeps
<1>3. ASSUME NEW r \in Run, Step(r), UNCHANGED asked PROVE ComposeIInv'
  BY <1>3, PingKeeps, LocalCreateKeeps, LocalStartKeeps, ConnectKeeps, InstallKeeps,
     DeployKeeps, NextServerKeeps, ReturnedKeeps, EndsKeep, ServiceDoneKeeps DEF Step
<1>4. ASSUME NEW r \in Run, Server(r), UNCHANGED asked PROVE ComposeIInv'
  BY <1>4, ServerInstallKeeps, ServerCreateKeeps, ServerStartKeeps DEF Server
<1>5. ASSUME NEW r \in Run, Interrupt(r), UNCHANGED asked PROVE ComposeIInv'
  BY <1>5, EndsKeep
<1>6. ASSUME NEW s \in Slot, NEW force \in BOOLEAN,
             StopLocal(s) \/ RemoveLocal(s, force) \/ RestartLocal(s), UNCHANGED asked
      PROVE  ComposeIInv'
  BY <1>6, UsersKeep
<1>7. CASE UNCHANGED composeVars
  BY <1>7, StutterKeeps
<1> QED
  BY <1>1, <1>2, <1>3, <1>4, <1>5, <1>6, <1>7 DEF ComposeNext

\* The invariant holds in every reachable state of the commands run and compose up.
THEOREM ComposeInvariantHolds == ComposeSpec => []ComposeIInv
<1>1. ComposeInit => ComposeIInv
  BY ComposeInitOK
<1>2. ComposeIInv /\ [ComposeNext]_composeVars => ComposeIInv'
  BY ComposeStep
<1> QED
  BY <1>1, <1>2, PTL DEF ComposeSpec

-----------------------------------------------------------------------------
(* What follows from it.                                                    *)

\* Type correctness of the commands' model.
THEOREM ComposeTypes == ComposeSpec => []ComposeTypeOK
<1>1. ComposeIInv => ComposeTypeOK
  BY DEF ComposeIInv
<1> QED
  BY <1>1, ComposeInvariantHolds, PTL

\* What was made for a replica was due.
LEMMA MadeIsDue ==
    ASSUME ComposeIInv, NEW r \in Run, NEW i \in Nat, NEW k \in Nat, NEW s \in MadeFor(r, i, k)
    PROVE  s[1] \in Host /\ Due(r, i, k, s[1])
<1>1. s \in Slot /\ dock[s] # None /\ dock[s].by = <<r, i, k>>
  BY DEF MadeFor
<1>2. dock[s].by[1] = r /\ dock[s].by[2] = i /\ dock[s].by[3] = k
  BY <1>1
<1> QED
  BY <1>1, <1>2 DEF ComposeIInv, MadeOK, Slot

\* What a run has counted as deployed runs, or a user took it down, and it has made
\* one more at most: also when a server comes late with a command that was given up
\* (deployToRemoteServers, deployLocally, Execute).
THEOREM OnlyAPrefix == ComposeSpec => []PrefixOnly
<1>1. ASSUME ComposeIInv PROVE PrefixOnly
  <2> SUFFICES ASSUME NEW r \in Run, NEW i \in DOMAIN job[r].plan, NEW k \in 0 .. MaxReplicas
               PROVE  /\ k < job[r].plan[i].replicas /\ Counted(r, i, k)
                           => Runs(r, i, k) \/ <<r, i, k>> \in touched
                      /\ k >= job[r].plan[i].replicas \/ i > job[r].cur
                           \/ (i = job[r].cur /\ k > job[r].done)
                           => MadeFor(r, i, k) = {}
    BY DEF PrefixOnly
  <2>1. /\ i \in Nat /\ k \in Nat /\ job[r].plan[i].replicas \in Nat
        /\ job[r].cur \in Nat /\ job[r].done \in Nat
    BY <1>1, PlanType, OrchestratorAssumption DEF ComposeIInv
  <2>2. k < job[r].plan[i].replicas /\ Counted(r, i, k) => Up(r, i, k)
    BY <1>1 DEF ComposeIInv, CountedOK
  <2>3. ASSUME NEW s \in MadeFor(r, i, k)
        PROVE  /\ k < job[r].plan[i].replicas /\ i <= job[r].cur
               /\ i = job[r].cur => k <= job[r].done
    BY <1>1, <2>1, MadeIsDue DEF Due
  <2>4. ASSUME \/ k >= job[r].plan[i].replicas \/ i > job[r].cur
               \/ i = job[r].cur /\ k > job[r].done
        PROVE  MadeFor(r, i, k) = {}
    <3>1. ~(/\ k < job[r].plan[i].replicas /\ i <= job[r].cur
            /\ i = job[r].cur => k <= job[r].done)
      BY <2>1, <2>4
    <3> QED
      BY <2>3, <3>1
  <2> QED
    BY <2>2, <2>4 DEF Up
<1> QED
  BY <1>1, ComposeInvariantHolds, PTL

\* No container of a service is made before each server of its list has answered,
\* with Docker ("Connect to all servers first").
THEOREM ServersAnswerFirst == ComposeSpec => []AllServersFirst
<1>1. ASSUME ComposeIInv PROVE AllServersFirst
  <2> SUFFICES ASSUME NEW r \in Run, NEW i \in DOMAIN job[r].plan,
                      NEW k \in 0 .. MaxReplicas, NEW s \in MadeFor(r, i, k)
               PROVE  Answered(job[r].plan[i].servers)
    BY DEF AllServersFirst, Answered
  <2>1. i \in Nat /\ k \in Nat
    BY <1>1, PlanType, OrchestratorAssumption DEF ComposeIInv
  <2> QED
    BY <1>1, <2>1, MadeIsDue DEF Due
<1> QED
  BY <1>1, ComposeInvariantHolds, PTL

\* "Deploy services in dependency order": when a container of a service is made, all
\* replicas run, or were taken down by a user, of what it depends on that depends on
\* nothing itself.
THEOREM DependenciesAreFirst == ComposeSpec => []DependenciesFirst
<1>1. ASSUME ComposeIInv PROVE DependenciesFirst
  <2> SUFFICES ASSUME NEW r \in Run, asked[r] # None, OneNameEach(asked[r]),
                      NEW i \in DOMAIN job[r].plan, NEW j \in DOMAIN job[r].plan,
                      NEW s \in ServicesOf(asked[r]), NEW d \in ServicesOf(asked[r]),
                      Named(asked[r], s, r, i), Named(asked[r], d, r, j),
                      MadeFor(r, i, 0) # {},
                      d \in asked[r].services[s].deps, ~HasDependencies(asked[r], d),
                      NEW k \in 0 .. job[r].plan[j].replicas - 1
               PROVE  Runs(r, j, k) \/ <<r, j, k>> \in touched
    BY DEF DependenciesFirst
  <2>1. PICK f \in File : f = asked[r]
    BY <1>1 DEF ComposeIInv, ComposeTypeOK
  <2>2. PICK o \in DeployOrder(f), options \in Options :
          job[r].plan = [x \in DOMAIN o |-> ConfigOf(f, o[x], options)]
    <3>1. job[r].plan # <<>>
      OBVIOUS
    <3> QED
      BY <1>1, <2>1, <3>1 DEF ComposeIInv, PlanOK
  <2>3. /\ DOMAIN job[r].plan = DOMAIN o
        /\ \A x \in DOMAIN o : job[r].plan[x] = ConfigOf(f, o[x], options)
    BY <2>2
  <2>4. \A x \in DOMAIN o :
          job[r].plan[x].name = ContainerNameOf(f, o[x]) /\ o[x] \in ServicesOf(f)
    <3>1. \A x \in DOMAIN o : o[x] \in ServicesOf(f)
      BY DEF DeployOrder
    <3>2. ASSUME NEW x \in DOMAIN o
          PROVE  ConfigOf(f, o[x], options).name = ContainerNameOf(f, o[x])
      BY DEF ConfigOf
    <3> QED
      BY <2>3, <3>1, <3>2
  <2>5. o[i] = s /\ o[j] = d
    BY <2>1, <2>3, <2>4 DEF Named, OneNameEach
  <2>6. HasDependencies(f, s) /\ ~HasDependencies(f, d)
    BY <2>1 DEF HasDependencies
  <2>7. /\ i \in Nat /\ j \in Nat /\ job[r].cur \in Nat
        /\ job[r].plan[j].replicas \in 0 .. MaxReplicas
    BY <1>1, PlanType DEF ComposeIInv
  <2>8. j < i
    <3>1. i # j
      BY <2>5, <2>6
    <3>2. ~(i < j)
      BY <2>3, <2>5, <2>6 DEF DeployOrder
    <3> QED
      BY <2>7, <3>1, <3>2
  <2>9. i <= job[r].cur
    BY <1>1, <2>7, MadeIsDue DEF Due
  <2>10. Counted(r, j, k)
    BY <2>7, <2>8, <2>9 DEF Counted
  <2>11. k \in 0 .. MaxReplicas /\ k < job[r].plan[j].replicas
    BY <2>7, OrchestratorAssumption
  <2>12. Up(r, j, k)
    BY <1>1, <2>10, <2>11 DEF ComposeIInv, CountedOK
  <2> QED
    BY <2>12 DEF Up
<1> QED
  BY <1>1, ComposeInvariantHolds, PTL

\* The replicas of a service that is done, on a server that is listed once: its
\* share, one after the other.
LEMMA OnIsShare ==
    ASSUME ComposeIInv, NEW r \in Run, NEW i \in DOMAIN job[r].plan, i < job[r].cur,
           touched = {}, Distinct(job[r].plan[i].servers),
           NEW a \in DOMAIN job[r].plan[i].servers
    PROVE  /\ Share(job[r].plan[i], a) \in Nat
           /\ Cardinality(On(r, i, job[r].plan[i].servers[a])) = Share(job[r].plan[i], a)
<1>1. PICK cfg \in Config : cfg = job[r].plan[i]
  BY PlanType DEF ComposeIInv
<1>2. /\ i \in Nat /\ cfg.servers \in Seq(Host) /\ cfg.replicas \in Nat
      /\ cfg.replicas <= MaxReplicas /\ MaxReplicas \in Nat
      /\ DOMAIN cfg.servers = 1 .. Len(cfg.servers) /\ a \in 1 .. Len(cfg.servers)
      /\ cfg.servers # <<>>
  <2>1. /\ i \in Nat /\ cfg.servers \in Seq(Host) /\ cfg.replicas \in 0 .. MaxReplicas
        /\ DOMAIN cfg.servers = 1 .. Len(cfg.servers)
    BY <1>1, PlanType DEF ComposeIInv
  <2>2. cfg.servers # <<>>
    BY <1>1
  <2> QED
    BY <1>1, <2>1, <2>2, OrchestratorAssumption
<1>3. Spread(cfg)
  BY <1>2 DEF Spread
<1>4. PICK t \in Nat, n \in Nat : t = Total(cfg, a) /\ n = Share(cfg, a)
  BY <1>2, <1>3, Totals
<1>5. t <= cfg.replicas /\ t - n \in Nat
  <2>1. t <= cfg.replicas
    BY <1>2, <1>3, <1>4, Totals
  <2>2. n <= t
    <3>1. CASE a = 1
      BY <1>2, <1>3, <1>4, <3>1, Totals
    <3>2. CASE a > 1
      <4>1. PICK b \in 1 .. Len(cfg.servers) : a = b + 1 /\ b < a /\ b < Len(cfg.servers)
        <5>1. a - 1 \in 1 .. Len(cfg.servers) /\ a = (a - 1) + 1 /\ a - 1 < a
              /\ a - 1 < Len(cfg.servers)
          BY <1>2, <3>2
        <5> QED
          BY <5>1
      <4>2. Total(cfg, b) \in Nat /\ Total(cfg, b + 1) = Total(cfg, b) + Share(cfg, b + 1)
        BY <1>3, <4>1, Totals
      <4> QED
        BY <1>4, <4>1, <4>2
    <3> QED
      BY <1>2, <3>1, <3>2
  <2> QED
    BY <2>1, <2>2
<1>6. ASSUME NEW k \in 0 .. MaxReplicas, NEW s \in MadeFor(r, i, k)
      PROVE  /\ k < cfg.replicas
             /\ \E b \in DOMAIN cfg.servers :
                  /\ s[1] = cfg.servers[b]
                  /\ Total(cfg, b) - Share(cfg, b) <= k /\ k < Total(cfg, b)
  <2>1. k \in Nat
    BY <1>2
  <2> QED
    BY <1>1, <1>2, <2>1, MadeIsDue DEF Due, Place
<1>7. On(r, i, cfg.servers[a]) \subseteq (t - n) .. (t - 1)
  <2> SUFFICES ASSUME NEW k \in 0 .. MaxReplicas, NEW s \in MadeFor(r, i, k),
                      s[1] = cfg.servers[a]
               PROVE  k \in (t - n) .. (t - 1)
    BY DEF On
  <2>1. PICK b \in DOMAIN cfg.servers :
          /\ s[1] = cfg.servers[b]
          /\ Total(cfg, b) - Share(cfg, b) <= k /\ k < Total(cfg, b)
    BY <1>6
  <2>2. a = b
    BY <1>1, <1>2, <2>1 DEF Distinct
  <2>3. t - n <= k /\ k < t /\ k \in Nat
    BY <1>2, <1>4, <2>1, <2>2
  <2> QED
    BY <2>3
<1>8. (t - n) .. (t - 1) \subseteq On(r, i, cfg.servers[a])
  <2> SUFFICES ASSUME NEW k \in (t - n) .. (t - 1)
               PROVE  k \in On(r, i, cfg.servers[a])
    OBVIOUS
  <2>1. k \in Nat /\ k < cfg.replicas /\ k \in 0 .. MaxReplicas /\ t - n <= k /\ k < t
    BY <1>2, <1>5
  <2>2. Counted(r, i, k)
    BY DEF Counted
  <2>3. Up(r, i, k)
    BY <1>1, <2>1, <2>2 DEF ComposeIInv, CountedOK
  <2>4. PICK s \in MadeFor(r, i, k) : TRUE
    BY <2>3 DEF Up, Runs
  <2>5. PICK b \in DOMAIN cfg.servers :
          /\ s[1] = cfg.servers[b]
          /\ Total(cfg, b) - Share(cfg, b) <= k /\ k < Total(cfg, b)
    BY <1>6, <2>1
  <2>6. a = b
    <3>1. /\ b \in 1 .. Len(cfg.servers) /\ Len(cfg.servers) \in Nat
          /\ Total(cfg, b) \in Nat /\ Share(cfg, b) \in Nat
      BY <1>2, <1>3, Totals
    <3>2. ~(a < b)
      <4>1. a < b => Total(cfg, a) <= Total(cfg, b) - Share(cfg, b)
        BY <1>2, <1>3, <3>1, SharesApart
      <4> QED
        BY <1>4, <2>1, <2>5, <3>1, <4>1
    <3>3. ~(b < a)
      <4>1. b < a => Total(cfg, b) <= Total(cfg, a) - Share(cfg, a)
        BY <1>2, <1>3, <3>1, SharesApart
      <4> QED
        BY <1>4, <2>1, <2>5, <3>1, <4>1
    <3> QED
      BY <1>2, <3>1, <3>2, <3>3
  <2> QED
    BY <2>1, <2>4, <2>5, <2>6 DEF On
<1>9. Cardinality((t - n) .. (t - 1)) = n
  <2>1. t - n \in Int /\ t - 1 \in Int
    OBVIOUS
  <2>2. Cardinality((t - n) .. (t - 1)) =
          IF t - n > t - 1 THEN 0 ELSE (t - 1) - (t - n) + 1
    BY <2>1, FS_Interval
  <2> QED
    BY <2>2
<1>10. On(r, i, cfg.servers[a]) = (t - n) .. (t - 1)
  BY <1>7, <1>8
<1> QED
  BY <1>1, <1>4, <1>9, <1>10

\* The shares of two servers differ by one at most.
LEMMA SharesEven ==
    ASSUME NEW cfg, Spread(cfg), NEW a \in 1 .. Len(cfg.servers),
           NEW b \in 1 .. Len(cfg.servers)
    PROVE  Share(cfg, a) <= Share(cfg, b) + 1
<1>1. PICK n \in Nat : n = Len(cfg.servers) /\ n > 0
  BY DEF Spread
<1>2. PICK R \in Nat : R = cfg.replicas
  BY DEF Spread
<1>3. PICK q \in Nat, m \in 0 .. n - 1 : q = R \div n /\ m = R % n
  BY <1>1, Division
<1>4. /\ Share(cfg, a) = q + (IF a <= m THEN 1 ELSE 0)
      /\ Share(cfg, b) = q + (IF b <= m THEN 1 ELSE 0)
  BY <1>1, <1>2, <1>3 DEF Share
<1> QED
  BY ONLY <1>4, q \in Nat

\* The replicas of a service that is done are spread over its servers so that no two
\* of them differ by more than one ("Distribute replicas across servers").
THEOREM ReplicasAreSpread == ComposeSpec => []SpreadEvenly
<1>1. ASSUME ComposeIInv PROVE SpreadEvenly
  <2> SUFFICES ASSUME NEW r \in Run, NEW i \in DOMAIN job[r].plan, i < job[r].cur,
                      Distinct(job[r].plan[i].servers), touched = {},
                      NEW a \in DOMAIN job[r].plan[i].servers,
                      NEW b \in DOMAIN job[r].plan[i].servers
               PROVE  Cardinality(On(r, i, job[r].plan[i].servers[a]))
                        <= Cardinality(On(r, i, job[r].plan[i].servers[b])) + 1
    BY DEF SpreadEvenly
  <2>1. /\ Spread(job[r].plan[i])
        /\ DOMAIN job[r].plan[i].servers = 1 .. Len(job[r].plan[i].servers)
    BY <1>1, PlanType DEF ComposeIInv
  <2>2. Share(job[r].plan[i], a) <= Share(job[r].plan[i], b) + 1
    BY <2>1, SharesEven
  <2>3. /\ Cardinality(On(r, i, job[r].plan[i].servers[a])) = Share(job[r].plan[i], a)
        /\ Cardinality(On(r, i, job[r].plan[i].servers[b])) = Share(job[r].plan[i], b)
    BY <1>1, OnIsShare
  <2> QED
    BY <2>2, <2>3
<1> QED
  BY <1>1, ComposeInvariantHolds, PTL
====================================================================================
