------------------------------ MODULE ServiceProofs ------------------------------
(***************************************************************************)
(* Proofs of the safety properties of Service, for any number of runs of   *)
(* the tool and any bounds.                                                *)
(***************************************************************************)
EXTENDS Service, TLAPS

\* ServiceIInv in two parts: what holds of a run of the tool, and of the server.
ToolInv(t) ==
    /\ tool[t] \in NoRequest => req[t] = "none"
    /\ "ok" \in {req[t], tool[t]} => made[t] = "whole"
    /\ tool[t] \in {"direct", "half"} => file = t
    /\ tool[t] \in {"begin", "open"} => tries[t] < MaxRetries
ServerInv ==
    /\ sig # "none" => Alive
    /\ main = "start" => sig = "none"
    /\ Alive /\ sig # "closed" => file = "server"
    /\ sig \in {"draining", "close", "closed"} => ~listening
    /\ sig = "close" => UnderWay = {} \/ late

\* ServiceIInv is the conjunction of its parts.
LEMMA Parts == ServiceIInv <=> ServiceTypeOK /\ ServerInv /\ \A t \in Tool : ToolInv(t)
  BY Zenon DEF ServiceIInv, ToolInv, ServerInv

\* The same after a step.
LEMMA PartsNext ==
    ASSUME ServiceTypeOK', ServerInv', \A t \in Tool : ToolInv(t)'
    PROVE  ServiceIInv'
  BY Zenon DEF ServiceIInv, ToolInv, ServerInv

\* The invariant holds at first.
LEMMA InitInv == ServiceInit => ServiceIInv
<1> SUFFICES ASSUME ServiceInit PROVE ServiceIInv
  OBVIOUS
<1>1. ServiceTypeOK
  <2>1. lives \in 0 .. MaxLives /\ deaths \in 0 .. MaxDeaths
    BY ServiceAssumption DEF ServiceInit
  <2>2. tries \in [Tool -> 0 .. MaxRetries]
    BY DEF ServiceInit, MaxRetries
  <2> QED
    BY <2>1, <2>2 DEF ServiceInit, ServiceTypeOK, NoRequests
<1>2. ServerInv
  BY DEF ServiceInit, ServerInv, Alive
<1>3. ASSUME NEW t \in Tool PROVE ToolInv(t)
  BY <1>3 DEF ServiceInit, ToolInv, NoRequests, MaxRetries
<1> QED
  BY <1>1, <1>2, <1>3, Parts

\* The end of the server's process keeps to the types.
LEMMA EndType ==
    ASSUME ServiceTypeOK, End
    PROVE  /\ main' = "down" /\ sig' = "none" /\ listening' = FALSE /\ late' = FALSE
           /\ file' \in {"free", "server"} \cup Tool
           /\ req' \in [Tool -> {"none", "sent", "half", "ok", "error"}]
  BY DEF ServiceTypeOK, End, NoRequests

\* A step of the server or a signal keeps to the types.
LEMMA ServerType ==
    ASSUME ServiceTypeOK, NewServer \/ Main \/ Signals \/ Signal \/ Die
    PROVE  ServiceTypeOK'
<1> USE ServiceAssumption DEF ServiceTypeOK
<1>1. CASE NewServer
  BY <1>1 DEF NewServer
<1>2. CASE Start \/ Listen \/ Return
  BY <1>2 DEF Start, Listen, Return
<1>3. CASE Exit
  BY <1>3, EndType DEF Exit
<1>4. CASE Signals
  BY <1>4 DEF Signals, Notify, Shutdown, Drained, Close
<1>5. CASE Signal
  BY <1>5, EndType DEF Signal
<1>6. CASE Die
  <2>1. deaths' \in 0 .. MaxDeaths
    BY <1>6 DEF Die
  <2>2. End /\ UNCHANGED <<lives, tool, tries, made>>
    BY <1>6 DEF Die
  <2> QED
    BY <2>1, <2>2, EndType
<1> QED
  BY <1>1, <1>2, <1>3, <1>4, <1>5, <1>6 DEF Main

\* A step of a request or of the tool keeps to the types; a run of the tool ends
\* at its last attempt to open the file.
LEMMA ToolType ==
    ASSUME ServiceIInv, NEW t \in Tool, Handler(t) \/ Command(t) \/ ToolDies(t)
    PROVE  ServiceTypeOK'
<1> USE ServiceAssumption DEF ServiceTypeOK, process
<1> ServiceTypeOK /\ ToolInv(t)
  BY Parts
<1>1. CASE HandleFirst(t) \/ HandleLast(t)
  BY <1>1 DEF HandleFirst, HandleLast, Handle
<1>2. CASE Reply(t)
  BY <1>2 DEF Reply
<1>3. CASE Probe(t)
  BY <1>3 DEF Probe, ToolStep
<1>4. CASE Request(t)
  BY <1>4 DEF Request, ToolStep
<1>5. CASE GiveUp(t)
  BY <1>5 DEF GiveUp, ToolStep
<1>6. CASE Open(t)
  BY <1>6 DEF Open, ToolStep
<1>7. CASE OpenFails(t)
  <2>1. tries[t] + 1 \in 0 .. MaxRetries
    BY <1>7 DEF OpenFails, ToolStep, ToolInv, MaxRetries
  <2> QED
    BY <1>7, <2>1 DEF OpenFails, ToolStep
<1>8. CASE Direct(t)
  BY <1>8 DEF Direct, ToolStep
<1>9. CASE DirectLast(t)
  BY <1>9 DEF DirectLast, ToolStep
<1>10. CASE ToolDies(t)
  BY <1>10 DEF ToolDies
<1> QED
  BY <1>1, <1>2, <1>3, <1>4, <1>5, <1>6, <1>7, <1>8, <1>9, <1>10 DEF Handler, Command

\* A step of the server keeps the invariant.
LEMMA ServerInvariant ==
    ASSUME ServiceIInv, NewServer \/ Main \/ Signals \/ Signal \/ Die
    PROVE  ServiceIInv'
<1>0. ServiceTypeOK /\ ServerInv /\ (\A t \in Tool : ToolInv(t)) /\ ServiceTypeOK'
  BY Parts, ServerType
<1>1. ASSUME End, UNCHANGED <<tool, made, tries>> PROVE ServiceIInv'
  <2>1. ServerInv'
    BY <1>0, <1>1 DEF End, ServerInv, Alive
  <2>2. ASSUME NEW t \in Tool PROVE ToolInv(t)'
    BY <1>0, <1>1, ServiceAssumption DEF End, ToolInv, NoRequests, ServiceTypeOK
  <2> QED
    BY <1>0, <2>1, <2>2, PartsNext
<1>2. ASSUME UNCHANGED <<req, tool, made, tries>>, \A t \in Tool : file = t => file' = t
      PROVE  \A t \in Tool : ToolInv(t)'
  BY <1>0, <1>2 DEF ToolInv
<1>3. CASE NewServer
  <2>1. ServerInv'
    BY <1>0, <1>3 DEF NewServer, ServerInv, Alive, UnderWay
  <2>2. \A t \in Tool : ToolInv(t)'
    BY <1>2, <1>3, ServiceAssumption DEF NewServer
  <2> QED
    BY <1>0, <2>1, <2>2, PartsNext
<1>4. CASE Start \/ Listen \/ Return \/ Notify \/ Shutdown \/ Drained
  <2> USE DEF Start, Listen, Return, Notify, Shutdown, Drained
  <2>1. CASE Drained
    <3>1. UnderWay' = UnderWay
      BY <2>1 DEF UnderWay
    <3>2. UnderWay = {} \/ late'
      BY <2>1
    <3>3. ServerInv'
      BY <1>0, <2>1, <3>1, <3>2 DEF ServerInv, Alive
    <3> QED
      BY <1>0, <1>2, <2>1, <3>3, PartsNext
  <2>2. CASE Start \/ Notify \/ Shutdown
    <3>1. sig' # "close"
      BY <2>2
    <3>2. ServerInv'
      BY <1>0, <2>2, <3>1 DEF ServerInv, Alive
    <3> QED
      BY <1>0, <1>2, <2>2, <3>2, PartsNext
  <2>3. CASE Listen \/ Return
    <3>1. UnderWay' = UnderWay /\ UNCHANGED <<file, sig, late>>
      BY <2>3 DEF UnderWay
    <3>2. ServerInv'
      BY <1>0, <2>3, <3>1 DEF ServerInv, Alive
    <3> QED
      BY <1>0, <1>2, <2>3, <3>2, PartsNext
  <2> QED
    BY <1>4, <2>1, <2>2, <2>3
<1>5. CASE Close
  <2>1. file = "server"
    BY <1>0, <1>5 DEF Close, ServerInv
  <2>2. ServerInv'
    BY <1>0, <1>5 DEF Close, ServerInv, Alive
  <2>3. \A t \in Tool : ToolInv(t)'
    BY <1>2, <1>5, <2>1, ServiceAssumption DEF Close
  <2> QED
    BY <1>0, <2>2, <2>3, PartsNext
<1>6. CASE Signal /\ sig = "waiting"
  <2>1. ServerInv'
    BY <1>0, <1>6 DEF Signal, ServerInv, Alive
  <2>2. \A t \in Tool : ToolInv(t)'
    BY <1>2, <1>6 DEF Signal
  <2> QED
    BY <1>0, <2>1, <2>2, PartsNext
<1>7. CASE Signal /\ sig # "waiting"
  BY <1>1, <1>7 DEF Signal
<1>8. CASE Exit \/ Die
  BY <1>1, <1>8 DEF Exit, Die
<1> QED
  BY <1>3, <1>4, <1>5, <1>6, <1>7, <1>8 DEF Main, Signals

\* A step of a request or of a run of the tool disturbs no other run, and does
\* not hand the server a request once it has been seen idle.
LEMMA ToolInvariant ==
    ASSUME ServiceIInv, NEW t \in Tool, Handler(t) \/ Command(t) \/ ToolDies(t)
    PROVE  ServiceIInv'
<1>0. ServiceTypeOK /\ ServerInv /\ (\A u \in Tool : ToolInv(u)) /\ ServiceTypeOK'
  BY Parts, ToolType
<1> USE DEF process
<1>1. UNCHANGED <<main, sig, listening, late>>
  BY Zenon DEF Handler, HandleFirst, HandleLast, Handle, Reply, Command, Probe, Request,
     GiveUp, Open, OpenFails, Direct, DirectLast, ToolDies, ToolStep
<1>2. ASSUME NEW u \in Tool, u # t
      PROVE  UNCHANGED <<req[u], tool[u], tries[u], made[u]>>
  <2> ServiceTypeOK
    BY <1>0
  <2>1. CASE Handler(t)
    BY <1>2, <2>1 DEF Handler, HandleFirst, HandleLast, Handle, Reply, ServiceTypeOK
  <2>2. CASE Command(t)
    BY <1>2, <2>2 DEF Command, Probe, Request, GiveUp, Open, OpenFails, Direct,
       DirectLast, ToolStep, ServiceTypeOK
  <2>3. CASE ToolDies(t)
    BY <1>2, <2>3 DEF ToolDies, ServiceTypeOK
  <2> QED
    BY <2>1, <2>2, <2>3
\* The lock of the file passes from nobody to t, or from t to nobody.
<1>3. file' = file \/ (file = "free" /\ file' = t) \/ (file = t /\ file' = "free")
  <2> ToolInv(t)
    BY <1>0
  <2>1. CASE Handler(t)
    BY <2>1 DEF Handler, HandleFirst, HandleLast, Handle, Reply
  <2>2. CASE Command(t)
    BY <2>2 DEF Command, Probe, Request, GiveUp, Open, OpenFails, Direct,
       DirectLast, ToolStep, ToolInv
  <2>3. CASE ToolDies(t)
    BY <2>3 DEF ToolDies
  <2> QED
    BY <2>1, <2>2, <2>3
<1>4. ASSUME NEW u \in Tool, u # t PROVE ToolInv(u)'
  BY <1>0, <1>2, <1>3, <1>4, ServiceAssumption DEF ToolInv
<1>5. ToolInv(t)'
  <2> ServiceTypeOK /\ ToolInv(t)
    BY <1>0
  <2> USE DEF ServiceTypeOK, ToolInv, NoRequest
  <2>1. CASE HandleFirst(t) \/ HandleLast(t)
    BY <2>1 DEF HandleFirst, HandleLast, Handle
  <2>2. CASE Reply(t)
    BY <2>2 DEF Reply
  <2>3. CASE Probe(t)
    BY <2>3 DEF Probe, ToolStep
  <2>4. CASE Request(t)
    BY <2>4 DEF Request, ToolStep
  <2>5. CASE GiveUp(t)
    BY <2>5 DEF GiveUp, ToolStep
  <2>6. CASE Open(t)
    BY <2>6 DEF Open, ToolStep
  <2>7. CASE OpenFails(t)
    BY <2>7 DEF OpenFails, ToolStep, MaxRetries
  <2>8. CASE Direct(t)
    BY <2>8 DEF Direct, ToolStep
  <2>9. CASE DirectLast(t)
    BY <2>9 DEF DirectLast, ToolStep
  <2>10. CASE ToolDies(t)
    BY <2>10 DEF ToolDies
  <2> QED
    BY <2>1, <2>2, <2>3, <2>4, <2>5, <2>6, <2>7, <2>8, <2>9, <2>10 DEF Handler, Command
<1>6. sig = "close" => UnderWay' \subseteq UnderWay
  <2>1. ASSUME sig = "close", NEW u \in Tool, req'[u] # "none" PROVE req[u] # "none"
    <3>1. ~Accepting
      BY <1>0, <2>1 DEF Accepting, ServerInv
    <3>2. CASE u # t
      BY <1>2, <2>1, <3>2
    <3>3. CASE u = t
      BY <1>0, <2>1, <3>1, <3>3 DEF Handler, HandleFirst, HandleLast, Handle, Reply,
         Command, Probe, Request, GiveUp, Open, OpenFails, Direct, DirectLast, ToolDies,
         ToolStep, ServiceTypeOK
    <3> QED
      BY <3>2, <3>3
  <2> QED
    BY <2>1 DEF UnderWay
<1>7. ServerInv'
  <2>1. sig' = "close" => UnderWay' = {} \/ late'
    BY <1>0, <1>1, <1>6 DEF ServerInv
  <2>2. Alive' /\ sig' # "closed" => file' = "server"
    BY <1>0, <1>1, <1>3, ServiceAssumption DEF ServerInv, Alive
  <2> QED
    BY <1>0, <1>1, <2>1, <2>2 DEF ServerInv, Alive
<1> QED
  BY <1>0, <1>4, <1>5, <1>7, PartsNext

-----------------------------------------------------------------------------
\* The inductive invariant holds of every behaviour.
THEOREM ServiceInvariant == ServiceSpec => []ServiceIInv
<1>1. ServiceIInv /\ [ServiceNext]_serviceVars => ServiceIInv'
  <2> SUFFICES ASSUME ServiceIInv, [ServiceNext]_serviceVars PROVE ServiceIInv'
    OBVIOUS
  <2>1. CASE UNCHANGED serviceVars
    BY <2>1 DEF serviceVars, ServiceIInv, ServiceTypeOK, Alive, UnderWay
  <2>2. CASE ServiceNext
    BY <2>2, ServerInvariant, ToolInvariant DEF ServiceNext
  <2> QED
    BY <2>1, <2>2
<1> QED
  BY InitInv, <1>1, PTL DEF ServiceSpec

\* Every variable keeps to its type.
THEOREM ServiceTypes == ServiceSpec => []ServiceTypeOK
<1>1. ServiceIInv => ServiceTypeOK
  BY DEF ServiceIInv
<1> QED
  BY ServiceInvariant, <1>1, PTL

\* A run of the tool that reports success has its work in the database, however
\* many runs there are and whatever dies or shuts down.
THEOREM SuccessIsStored == ServiceSpec => []ReportsAreTrue
<1>1. ServiceIInv => ReportsAreTrue
  BY DEF ServiceIInv, ReportsAreTrue
<1> QED
  BY ServiceInvariant, <1>1, PTL

\* A server that goes on living closes the database only when no request is under
\* way or 30 seconds have passed since it began to shut down.
THEOREM DatabaseClosesLast == ServiceSpec => ClosesLast
<1>1. ServiceIInv /\ [ServiceNext]_serviceVars =>
        (file = "server" /\ file' # "server" /\ main' # "down" => UnderWay = {} \/ late)
  <2> SUFFICES ASSUME ServiceIInv, [ServiceNext]_serviceVars,
                      file = "server", file' # "server", main' # "down"
               PROVE  UnderWay = {} \/ late
    OBVIOUS
  <2>0. ServerInv /\ \A t \in Tool : ToolInv(t)
    BY Parts
  <2>1. CASE NewServer \/ Main \/ Signals \/ Signal \/ Die
    BY <2>0, <2>1 DEF NewServer, Main, Start, Listen, Return, Exit, Signals, Notify,
       Shutdown, Drained, Close, Signal, Die, End, ServerInv
  <2>2. ASSUME NEW t \in Tool, Handler(t) \/ Command(t) \/ ToolDies(t) PROVE FALSE
    <3> ToolInv(t)
      BY <2>0
    <3> QED
      BY <2>2, ServiceAssumption DEF Handler, HandleFirst, HandleLast, Handle, Reply,
         Command, Probe, Request, GiveUp, Open, OpenFails, Direct, DirectLast, ToolDies,
         ToolStep, ToolInv
  <2>3. CASE UNCHANGED serviceVars
    BY <2>3 DEF serviceVars
  <2> QED
    BY <2>1, <2>2, <2>3 DEF ServiceNext
<1> QED
  BY ServiceInvariant, <1>1, PTL DEF ServiceSpec, ClosesLast
==================================================================================
