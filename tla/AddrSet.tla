------------------------------ MODULE AddrSet ------------------------------
(***************************************************************************)
(* The lock-free set of addresses the dials of a run fill (transport.go    *)
(* addrSet): add copies the list, appends and publishes it by a            *)
(* compare-and-swap, trying again when another dial was faster.            *)
(*                                                                         *)
(* A published list is never written again and every one is longer than    *)
(* the one before it, so a pointer is identified by the list behind it.    *)
(* The adders are the dial callbacks, one call of add each.                *)
(***************************************************************************)
EXTENDS Naturals, Sequences, SequencesExt

CONSTANTS
  Adders,    \* calls of add
  AddrOf,    \* the argument of each
  NoAddr     \* the empty string, and the absence of an address

VARIABLES
  list,  \* the list behind p; empty stands for the nil pointer too
  at,    \* where each call is: "call", "scan", "swap" or "returned"
  cur    \* the list each call has loaded

Init ==
  /\ list = <<>>
  /\ at = [t \in Adders |-> "call"]
  /\ cur = [t \in Adders |-> <<>>]

\* The empty address is ignored.
Ignore(t) ==
  /\ at[t] = "call" /\ AddrOf[t] = NoAddr
  /\ at' = [at EXCEPT ![t] = "returned"]
  /\ UNCHANGED <<list, cur>>

Load(t) ==
  /\ at[t] = "call" /\ AddrOf[t] # NoAddr
  /\ cur' = [cur EXCEPT ![t] = list]
  /\ at' = [at EXCEPT ![t] = "scan"]
  /\ UNCHANGED list

Scan(t) ==
  /\ at[t] = "scan"
  /\ at' = [at EXCEPT ![t] = IF AddrOf[t] \in ToSet(cur[t]) THEN "returned" ELSE "swap"]
  /\ UNCHANGED <<list, cur>>

\* The pointer is where it was loaded, or is stored without a look.
Unlooked(t) == TRUE
Unmoved(t) == list = cur[t]

Swap(t) ==
  /\ at[t] = "swap" /\ Unmoved(t)
  /\ list' = Append(cur[t], AddrOf[t])
  /\ at' = [at EXCEPT ![t] = "returned"]
  /\ UNCHANGED cur

SwapFails(t) ==
  /\ at[t] = "swap" /\ ~Unmoved(t)
  /\ at' = [at EXCEPT ![t] = "call"]
  /\ UNCHANGED <<list, cur>>

add(t) == Ignore(t) \/ Load(t) \/ Scan(t) \/ Swap(t) \/ SwapFails(t)

Returned(t) == at[t] = "returned"
-----------------------------------------------------------------------------
\* "lock-free, deduplicating": whatever dials race, the list has every address
\* once, and every address whose add has returned.
AddedOnce ==
  /\ IsInjective(list)
  /\ \A t \in Adders : Returned(t) /\ AddrOf[t] # NoAddr => AddrOf[t] \in ToSet(list)
-----------------------------------------------------------------------------
Addresses == {AddrOf[t] : t \in Adders}

\* A call past its load holds a list whose addresses are all in the set still;
\* one about to swap did not find its own in it.
ListSound ==
  /\ list \in Seq(Addresses) /\ IsInjective(list)
  /\ at \in [Adders -> {"call", "scan", "swap", "returned"}]
  /\ cur \in [Adders -> Seq(Addresses)]
  /\ \A t \in Adders :
       /\ at[t] \in {"scan", "swap"} => ToSet(cur[t]) \subseteq ToSet(list) /\ AddrOf[t] # NoAddr
       /\ at[t] = "swap" => AddrOf[t] \notin ToSet(cur[t])
       /\ Returned(t) /\ AddrOf[t] # NoAddr => AddrOf[t] \in ToSet(list)

\* What appending a new element does to a list.
LEMMA AppendFacts ==
  ASSUME NEW S, NEW s \in Seq(S), NEW x \in S
  PROVE  /\ Append(s, x) \in Seq(S)
         /\ ToSet(Append(s, x)) = ToSet(s) \cup {x}
         /\ IsInjective(s) /\ x \notin ToSet(s) => IsInjective(Append(s, x))
<1> DEFINE q == Append(s, x)
<1>1. /\ q \in Seq(S) /\ Len(s) \in Nat /\ DOMAIN s = 1..Len(s) /\ DOMAIN q = 1..(Len(s) + 1)
      /\ \A i \in 1..Len(s) : q[i] = s[i]
      /\ q[Len(s) + 1] = x
  OBVIOUS
<1> HIDE DEF q
<1>2. \A i \in DOMAIN q : i \in DOMAIN s \/ i = Len(s) + 1
  BY <1>1
<1>5. DOMAIN s \subseteq DOMAIN q /\ Len(s) + 1 \in DOMAIN q
  BY <1>1
<1>3. ToSet(q) = ToSet(s) \cup {x}
  BY <1>1, <1>2, <1>5 DEF ToSet
<1>4. IsInjective(s) /\ x \notin ToSet(s) => IsInjective(q)
  <2>1. \A i \in DOMAIN s : s[i] \in ToSet(s)
    BY DEF ToSet
  <2> QED
    BY <1>1, <1>2, <2>1 DEF IsInjective
<1> QED
  BY <1>1, <1>3, <1>4 DEF q

\* The empty list.
LEMMA AddInit == Init => ListSound
BY DEF Init, ListSound, Returned, IsInjective, Addresses

\* No call of add, however it races with others, loses or repeats an address.
LEMMA AddKeeps ==
  ASSUME ListSound, NEW t \in Adders, add(t)
  PROVE  ListSound'
<1>1. CASE Ignore(t)
  BY <1>1 DEF Ignore, ListSound, Returned, Addresses
<1>2. CASE Load(t)
  BY <1>2 DEF Load, ListSound, Returned, Addresses
<1>3. CASE Scan(t)
  BY <1>3 DEF Scan, ListSound, Returned, Addresses
<1>4. CASE Swap(t)
  BY <1>4, AppendFacts DEF Swap, Unmoved, ListSound, Returned, Addresses
<1>5. CASE SwapFails(t)
  BY <1>5 DEF SwapFails, ListSound, Returned, Addresses
<1> QED
  BY <1>1, <1>2, <1>3, <1>4, <1>5 DEF add
=============================================================================
