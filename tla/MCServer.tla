------------------------------ MODULE MCServer ------------------------------
(* The server command for every command line.                               *)
EXTENDS Server

AnyCommandLine ==
  [sign : BOOLEAN, parsed : {"ok", "help", "malformed"}, key : {"none", "good", "bad"}, only : BOOLEAN,
   cert : {"selfSigned", "files", "unusable"}, token : BOOLEAN, anonymous : BOOLEAN, urls : BOOLEAN]
=============================================================================
