---------------------------- MODULE MCHostSession ----------------------------
(* A host session with one spoken question, three captures and two         *)
(* requests.  Ids are not declared symmetric: the run checks liveness.     *)
EXTENDS HostSession
=============================================================================
