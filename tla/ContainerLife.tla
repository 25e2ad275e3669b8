------------------------------- MODULE ContainerLife -------------------------------
(***************************************************************************)
(* What the deployment manager promises of each container, whoever works   *)
(* on it, fails or dies: an ID stands for one Docker container at most,    *)
(* made once and never again; "running" is claimed only of one that runs;  *)
(* and nobody takes it down who has not set about to stop it.              *)
(*                                                                         *)
(* Containers move independently, several of them in one step when the     *)
(* process that works on them dies.                                        *)
(***************************************************************************)
CONSTANT Cid  \* container IDs

VARIABLES
    life,     \* of the Docker container: "unborn" (the ID is not drawn),
              \* "coming", "still" (made, does not run), "on", "over"
    claimed,  \* the record says "running"
    doomed    \* somebody is stopping it, or died while he did

lifeVars == <<life, claimed, doomed>>

Keep(c) == life'[c] = life[c] /\ claimed'[c] = claimed[c] /\ doomed'[c] = doomed[c]

\* From one stage of life to another.
Lives(c, from, to) ==
    /\ life[c] \in from /\ life'[c] = to
    /\ claimed'[c] = claimed[c] /\ doomed'[c] = doomed[c]

Draw(c) == Lives(c, {"unborn"}, "coming")
Make(c) == Lives(c, {"coming"}, "still")
GiveUp(c) == Lives(c, {"coming"}, "over")
Start(c) == ~claimed[c] /\ Lives(c, {"still"}, "on")
TakeDown(c) ==
    doomed[c] /\ (Lives(c, {"on"}, "still") \/ Lives(c, {"still", "on"}, "over"))

\* The record is saved as running.
Claim(c) ==
    /\ life[c] = "on" /\ claimed'[c]
    /\ life'[c] = life[c] /\ doomed'[c] = doomed[c]

\* Somebody sets about to stop the container.
Doom(c) ==
    /\ doomed'[c]
    /\ life'[c] = life[c] /\ claimed'[c] = claimed[c]

\* The record is saved as stopped or failed, or deleted; who was stopping the
\* container may be done with it.
Unclaim(c) ==
    /\ ~claimed'[c] /\ (doomed'[c] => doomed[c])
    /\ life'[c] = life[c]

\* Who was about to stop it died before he did.
Spare(c) ==
    /\ life[c] = "on" /\ ~doomed'[c]
    /\ life'[c] = life[c] /\ claimed'[c] = claimed[c]

LifeInit ==
    /\ life = [c \in Cid |-> "unborn"]
    /\ claimed = [c \in Cid |-> FALSE]
    /\ doomed = [c \in Cid |-> FALSE]

LifeStep(c) ==
    \/ Keep(c) \/ Draw(c) \/ Make(c) \/ GiveUp(c) \/ Start(c) \/ TakeDown(c)
    \/ Claim(c) \/ Doom(c) \/ Unclaim(c) \/ Spare(c)

LifeNext == \A c \in Cid : LifeStep(c)

LifeSpec == LifeInit /\ [][LifeNext]_lifeVars

\* A container that is claimed to run does so, but for one that is being taken
\* down (startContainer, stopContainer).
HonestClaims == \A c \in Cid : claimed[c] => life[c] = "on" \/ doomed[c]
====================================================================================
