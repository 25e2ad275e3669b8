-------------------------------- MODULE MCCompose --------------------------------
(***************************************************************************)
(* Constants for the model-checking run of Compose.                        *)
(***************************************************************************)
EXTENDS ComposeInvariant, TLC

CONSTANTS r1, r2, here, h1, h2, db, web

NoPort == [form |-> "none", host |-> 0]
Pair(n) == [form |-> "pair", host |-> n]
Plain == [image |-> TRUE, build |-> FALSE, name |-> None, deps |-> {}, extension |-> FALSE,
          own |-> <<>>, group |-> <<>>, replicas |-> 0, deploy |-> 0, port |-> NoPort]
Remote == [Plain EXCEPT !.extension = TRUE]

\* Three replicas over a default server and a server group, after a database.
Shop == [defaults |-> <<h1>>, services |->
    (db :> [Plain EXCEPT !.port = Pair(1)]) @@
    (web :> [Remote EXCEPT !.deps = {db}, !.replicas = 3, !.group = <<h2>>, !.port = Pair(1)])]
\* Two services whose ports meet, one of which cannot be read locally.
Clash == [defaults |-> <<>>, services |->
    (db :> [Plain EXCEPT !.deploy = 2, !.port = Pair(1)]) @@
    (web :> [Plain EXCEPT !.port = [form |-> "container", host |-> 0], !.name = db])]
\* Refused by Validate.
Bad == [defaults |-> <<>>, services |-> (db :> [Plain EXCEPT !.image = FALSE])]

Files == {Shop, Clash, Bad}
UpOptions == {[servers |-> <<>>, install |-> TRUE]}
RunCmds == {[name |-> db, image |-> TRUE, servers |-> <<h1>>, replicas |-> 2,
             port |-> [form |-> "address", host |-> 1], install |-> FALSE]}
==================================================================================
