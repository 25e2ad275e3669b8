-------------------------------- MODULE MCService --------------------------------
(***************************************************************************)
(* Constants for the model-checking runs of Service.                       *)
(***************************************************************************)
EXTENDS Service, TLC

CONSTANTS t1, t2, t3
==================================================================================
