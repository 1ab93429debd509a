--------------------------- MODULE ConnectionCap ---------------------------
(***************************************************************************)
(* What SRV-9 and LimitListener promise of the connections it hands out:   *)
(* each is handed out at most once, while fewer than Max are held, and     *)
(* gives its place back once.                                              *)
(***************************************************************************)
EXTENDS Naturals, FiniteSets

CONSTANTS Conns, Max

VARIABLES
  live,  \* connections holding a place
  gone   \* connections that gave theirs back

Init == live = {} /\ gone = {}

HandOut(c) ==
  /\ c \in Conns \ (live \cup gone)
  /\ Cardinality(live) < Max
  /\ live' = live \cup {c}
  /\ UNCHANGED gone

GiveUp(c) ==
  /\ c \in live
  /\ live' = live \ {c}
  /\ gone' = gone \cup {c}

Next == \E c \in Conns : HandOut(c) \/ GiveUp(c)

Spec == Init /\ [][Next]_<<live, gone>>
=============================================================================
