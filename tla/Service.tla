--------------------------------- MODULE Service ---------------------------------
(***************************************************************************)
(* The life of one machine's API server, and runs of the command line tool *)
(* beside it (internal/api/server.go, internal/api/client.go,              *)
(* internal/storage/manager.go, cmd/dockdockgo/deploy.go).                 *)
(*                                                                         *)
(* The tool asks the server when that answers and else opens the database  *)
(* itself; the lock of the database file keeps the two apart.  A command   *)
(* is a create: it saves its record twice, and what it does in between is  *)
(* the business of DeploymentManager.                                      *)
(***************************************************************************)
EXTENDS Integers

CONSTANTS
    Tool,        \* runs of the tool, one command each
    MaxLives,    \* bound: starts of the server
    MaxDeaths    \* bound: kills of a process

ASSUME ServiceAssumption ==
    /\ MaxLives \in Nat /\ MaxDeaths \in Nat
    /\ "free" \notin Tool /\ "server" \notin Tool

\* NewStorage tries to open the file that often, 10 seconds each time.
MaxRetries == 3

VARIABLES
    file,       \* who holds the lock of the database file: "free", "server", a tool
    main,       \* the server's main goroutine
    sig,        \* its goroutine that waits for a signal and shuts down
    listening,  \* connections are accepted
    late,       \* the 30 seconds of Shutdown are over
    req,        \* requests at the server
    tool,       \* what each run of the tool is doing
    tries,      \* how often it has tried to open the file
    made,       \* history: how much of a command's work is in the database
    lives, deaths

serviceVars == <<file, main, sig, listening, late, req, tool, tries, made, lives, deaths>>
process == <<main, sig, listening, late, lives>>

NoRequests == [t \in Tool |-> "none"]
UnderWay == {t \in Tool : req[t] # "none"}
Alive == main # "down"
\* Connections are accepted; a connection that was kept open since the look at
\* /health is served until Shutdown finds it idle.
Accepting == listening \/ sig = "draining"

-----------------------------------------------------------------------------
(* The server.                                                              *)

\* NewServer, which gives up when it cannot open the file.
NewServer ==
    /\ main = "down" /\ file = "free" /\ lives < MaxLives
    /\ file' = "server" /\ main' = "start" /\ lives' = lives + 1
    /\ UNCHANGED <<sig, listening, late, req, tool, tries, made, deaths>>

Start ==
    /\ main = "start" /\ main' = "listen" /\ sig' = "spawned"
    /\ UNCHANGED <<file, listening, late, lives, req, tool, tries, made, deaths>>

Notify ==
    /\ sig = "spawned" /\ sig' = "waiting"
    /\ UNCHANGED <<file, main, listening, late, lives, req, tool, tries, made, deaths>>

\* Slip: ListenAndServe does not know that Shutdown was called before.
Listen_Anyway ==
    /\ main = "listen" /\ listening' = TRUE /\ main' = "serve"
    /\ UNCHANGED <<file, sig, late, lives, req, tool, tries, made, deaths>>

\* ListenAndServe, which returns at once when Shutdown was called before, or
\* when the port is taken.
Listen ==
    /\ main = "listen"
    /\ \/ sig \in {"spawned", "waiting", "signalled"} /\ listening' = TRUE /\ main' = "serve"
       \/ main' = "return" /\ UNCHANGED listening
    /\ UNCHANGED <<file, sig, late, lives, req, tool, tries, made, deaths>>

\* ListenAndServe returns as soon as Shutdown has closed the listener.
Return ==
    /\ main = "serve" /\ ~listening /\ main' = "return"
    /\ UNCHANGED <<file, sig, listening, late, lives, req, tool, tries, made, deaths>>

\* The process ends with its main goroutine, whatever the others are doing.
End ==
    /\ main' = "down" /\ sig' = "none" /\ listening' = FALSE /\ late' = FALSE
    /\ req' = NoRequests
    /\ file' = IF file = "server" THEN "free" ELSE file
Exit ==
    /\ main = "return" /\ End
    /\ UNCHANGED <<lives, tool, tries, made, deaths>>

Die ==
    /\ Alive /\ deaths < MaxDeaths /\ deaths' = deaths + 1 /\ End
    /\ UNCHANGED <<lives, tool, tries, made>>

\* SIGTERM or SIGINT; it kills a process that has not asked for it.
Signal ==
    /\ Alive
    /\ \/ sig = "waiting" /\ sig' = "signalled"
          /\ UNCHANGED <<file, main, listening, late, req>>
       \/ sig \in {"none", "spawned"} /\ End
    /\ UNCHANGED <<lives, tool, tries, made, deaths>>

\* Slip: the database is closed without waiting for the requests.
Shutdown_Close ==
    /\ sig = "signalled" /\ sig' = "close" /\ listening' = FALSE
    /\ UNCHANGED <<file, main, late, lives, req, tool, tries, made, deaths>>

\* http.Server.Shutdown closes the listener, then waits for the requests.
Shutdown ==
    /\ sig = "signalled" /\ sig' = "draining" /\ listening' = FALSE
    /\ UNCHANGED <<file, main, late, lives, req, tool, tries, made, deaths>>

Drained ==
    /\ sig = "draining" /\ sig' = "close"
    /\ late' = (UnderWay # {})
    /\ UNCHANGED <<file, main, listening, lives, req, tool, tries, made, deaths>>

\* Close: the sync manager, then the one connection of the process.
Close ==
    /\ sig = "close" /\ sig' = "closed" /\ file' = "free"
    /\ UNCHANGED <<main, listening, late, lives, req, tool, tries, made, deaths>>

-----------------------------------------------------------------------------
(* A request at the server: handleDeployments with CreateDeployment.        *)

Handle(t, from, to, stored) ==
    /\ req[t] = from
    /\ \/ /\ file = "server"
          /\ req' = [req EXCEPT ![t] = to] /\ made' = [made EXCEPT ![t] = stored]
       \/ /\ file # "server"               \* bbolt: database not open
          /\ req' = [req EXCEPT ![t] = "error"] /\ UNCHANGED made
    /\ UNCHANGED <<file, process, tool, tries, deaths>>

\* Slip: the first save is answered.
HandleFirst_Answer(t) == Handle(t, "sent", "ok", "half")

HandleFirst(t) == Handle(t, "sent", "half", "half")
HandleLast(t) == Handle(t, "half", "ok", "whole")

\* The answer, whether somebody waits for it or not.
Reply(t) ==
    /\ req[t] \in {"ok", "error"}
    /\ req' = [req EXCEPT ![t] = "none"]
    /\ tool' = [tool EXCEPT ![t] = IF @ # "wait" THEN @
                                   ELSE IF req[t] = "ok" THEN "ok" ELSE "failed"]
    /\ UNCHANGED <<file, process, tries, made, deaths>>

-----------------------------------------------------------------------------
(* A run of the tool.                                                       *)

ToolStep(t, from, to) ==
    /\ tool[t] = from /\ tool' = [tool EXCEPT ![t] = to]
    /\ UNCHANGED <<process, deaths>>

\* IsServiceRunning: GET /health, which no answer within 10 seconds denies too.
Probe(t) ==
    /\ \/ Accepting /\ ToolStep(t, "begin", "request")
       \/ ToolStep(t, "begin", "open")
    /\ UNCHANGED <<file, req, tries, made>>

Request(t) ==
    /\ \/ /\ Accepting /\ ToolStep(t, "request", "wait")
          /\ req' = [req EXCEPT ![t] = "sent"]
       \/ ~Accepting /\ ToolStep(t, "request", "failed") /\ UNCHANGED req
    /\ UNCHANGED <<file, tries, made>>

\* 10 seconds are over, or the connection broke with the server: a failure for
\* the user, while a server that lives goes on.
GiveUp(t) ==
    /\ ToolStep(t, "wait", "failed")
    /\ UNCHANGED <<file, req, tries, made>>

Open(t) ==
    /\ file = "free" /\ file' = t
    /\ ToolStep(t, "open", "direct")
    /\ UNCHANGED <<req, tries, made>>

\* Slip: there is no limit to the retries.
OpenFails_Again(t) ==
    /\ file # "free"
    /\ ToolStep(t, "open", "open")
    /\ tries' = [tries EXCEPT ![t] = (@ + 1) % MaxRetries]
    /\ UNCHANGED <<file, req, made>>

\* Slip: one retry too many.
OpenFails_More(t) ==
    /\ file # "free"
    /\ ToolStep(t, "open", IF tries[t] = MaxRetries THEN "failed" ELSE "open")
    /\ tries' = [tries EXCEPT ![t] = @ + 1]
    /\ UNCHANGED <<file, req, made>>

OpenFails(t) ==
    /\ file # "free"
    /\ ToolStep(t, "open", IF tries[t] + 1 = MaxRetries THEN "failed" ELSE "open")
    /\ tries' = [tries EXCEPT ![t] = @ + 1]
    /\ UNCHANGED <<file, req, made>>

\* CreateDeployment in the tool, then the deferred Close.
Direct(t) ==
    /\ ToolStep(t, "direct", "half") /\ made' = [made EXCEPT ![t] = "half"]
    /\ UNCHANGED <<file, req, tries>>
DirectLast(t) ==
    /\ ToolStep(t, "half", "ok") /\ made' = [made EXCEPT ![t] = "whole"]
    /\ file' = "free"
    /\ UNCHANGED <<req, tries>>

ToolDies(t) ==
    /\ tool[t] \notin {"ok", "failed"} /\ deaths < MaxDeaths /\ deaths' = deaths + 1
    /\ tool' = [tool EXCEPT ![t] = "failed"]
    /\ file' = IF file = t THEN "free" ELSE file
    /\ UNCHANGED <<process, req, tries, made>>

-----------------------------------------------------------------------------
ServiceInit ==
    /\ file = "free" /\ main = "down" /\ sig = "none" /\ listening = FALSE /\ late = FALSE
    /\ req = NoRequests
    /\ tool = [t \in Tool |-> "begin"] /\ tries = [t \in Tool |-> 0]
    /\ made = [t \in Tool |-> "nothing"]
    /\ lives = 0 /\ deaths = 0

Main == Start \/ Listen \/ Return \/ Exit
Signals == Notify \/ Shutdown \/ Drained \/ Close
Handler(t) == HandleFirst(t) \/ HandleLast(t) \/ Reply(t)
Command(t) ==
    \/ Probe(t) \/ Request(t) \/ GiveUp(t)
    \/ Open(t) \/ OpenFails(t) \/ Direct(t) \/ DirectLast(t)

ServiceNext ==
    \/ NewServer \/ Main \/ Signals \/ Signal \/ Die
    \/ \E t \in Tool : Handler(t) \/ Command(t) \/ ToolDies(t)

ServiceSpec == ServiceInit /\ [][ServiceNext]_serviceVars

\* Goroutines are scheduled and timers fire; nobody has to start a server or to
\* send a signal.
ServiceFairSpec ==
    /\ ServiceSpec
    /\ WF_serviceVars(Main) /\ WF_serviceVars(Signals)
    /\ \A t \in Tool : WF_serviceVars(Handler(t)) /\ WF_serviceVars(Command(t))

-----------------------------------------------------------------------------
(* Properties.                                                              *)

\* Every variable keeps to its type.
ServiceTypeOK ==
    /\ file \in {"free", "server"} \cup Tool
    /\ main \in {"down", "start", "listen", "serve", "return"}
    /\ sig \in {"none", "spawned", "waiting", "signalled", "draining", "close", "closed"}
    /\ listening \in BOOLEAN /\ late \in BOOLEAN
    /\ req \in [Tool -> {"none", "sent", "half", "ok", "error"}]
    /\ tool \in [Tool -> {"begin", "request", "wait", "open", "direct", "half",
                          "ok", "failed"}]
    /\ tries \in [Tool -> 0 .. MaxRetries]
    /\ made \in [Tool -> {"nothing", "half", "whole"}]
    /\ lives \in 0 .. MaxLives /\ deaths \in 0 .. MaxDeaths

\* A command that reports success has its work in the database (deploy run:
\* "created successfully"), whoever did it and whatever ended in between.
ReportsAreTrue == \A t \in Tool : tool[t] = "ok" => made[t] = "whole"

\* The server closes the database when no request is under way, or 30 seconds
\* after the signal (Start).
ClosesLast ==
    [][file = "server" /\ file' # "server" /\ main' # "down" =>
         UnderWay = {} \/ late]_serviceVars

\* A server that gets a signal it waits for is down in the end.
Stopping == sig \in {"signalled", "draining", "close", "closed"}
StopsWhenAsked == Stopping ~> main = "down"

\* Every run of the tool ends, with the server up, down or on its way.
CommandsEnd == \A t \in Tool : <>(tool[t] \in {"ok", "failed"})

\* What makes the safety properties inductive: a record is only written for a
\* command that has not ended, who works on the database holds its lock, and a
\* server that shuts down does not listen.
NoRequest == {"begin", "request", "open", "direct", "half", "ok"}
ServiceIInv ==
    /\ ServiceTypeOK
    /\ \A t \in Tool :
         /\ tool[t] \in NoRequest => req[t] = "none"
         /\ "ok" \in {req[t], tool[t]} => made[t] = "whole"
         /\ tool[t] \in {"direct", "half"} => file = t
         /\ tool[t] \in {"begin", "open"} => tries[t] < MaxRetries
    /\ sig # "none" => Alive
    /\ main = "start" => sig = "none"
    /\ Alive /\ sig # "closed" => file = "server"
    /\ sig \in {"draining", "close", "closed"} => ~listening
    /\ sig = "close" => UnderWay = {} \/ late

\* "Setup graceful shutdown", "Shutdown the server gracefully" (Start): unless the
\* 30 seconds are over, a server that shuts down cuts no request short.
GracefulStop ==
    [][Stopping /\ main' = "down" => UnderWay = {} \/ late]_serviceVars
==================================================================================
