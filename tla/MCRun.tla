------------------------------- MODULE MCRun -------------------------------
(* A run on small instances; the cfg files choose among these values.       *)
EXTENDS Run

Both == <<"download", "upload">>
=============================================================================
