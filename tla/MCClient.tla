------------------------------ MODULE MCClient ------------------------------
(* The command around a run of both directions, for every command line.     *)
EXTENDS Client

BothDirs == <<"download", "upload">>

AnyCommandLine ==
  [version : BOOLEAN, parsed : {"ok", "help", "malformed"}, stray : BOOLEAN, bothOnly : BOOLEAN,
   target : {"configURL", "wellKnown", "named", "unknown"}, maxBytes : {"omitted", "valid", "invalid"}]
=============================================================================
