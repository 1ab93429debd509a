----------------------------- MODULE MCExchange -----------------------------
(* One exchange on small instances; the cfg files give the constants.       *)
EXTENDS Exchange
=============================================================================
