--------------------------- MODULE MCClientBudget ---------------------------
(* The client budget on small instances; the cfg files give the constants.  *)
EXTENDS ClientBudget, TLC

HandlerSymmetry == Permutations(Handlers)
=============================================================================
