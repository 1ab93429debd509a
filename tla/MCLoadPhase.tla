---------------------------- MODULE MCLoadPhase ----------------------------
(* The load phase on small instances; the cfg files give the constants.     *)
EXTENDS LoadPhase
=============================================================================
