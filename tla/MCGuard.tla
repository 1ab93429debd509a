------------------------------ MODULE MCGuard ------------------------------
(* The request path on small instances; the cfg files give the constants.  *)
EXTENDS Guard, TLC

\* Anonymous, keys only, token and keys, and a token too long to be sent.
MCConfigs ==
  {[token |-> "", keys |-> {}], [token |-> "", keys |-> {"k1"}], [token |-> "t", keys |-> {"k1"}],
   [token |-> "long", keys |-> {"k1"}]}

\* The issuer's clock at both edges of the leeway.
MCSkews == {-2, 2}
HandlerSymmetry == Permutations(Handlers)
=============================================================================
