---------------------------- MODULE MCTransport ----------------------------
(* Two wrapped dials and a raw one, with equal, different and no addresses. *)
EXTENDS Transport, TLC

CONSTANTS w1, w2, r1

RemoteAddrs == w1 :> "a" @@ w2 :> "b" @@ r1 :> "a"
LocalAddrs == w1 :> "l" @@ w2 :> "l" @@ r1 :> NoAddr
=============================================================================
