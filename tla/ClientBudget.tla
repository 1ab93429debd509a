---------------------------- MODULE ClientBudget ----------------------------
(***************************************************************************)
(* The per-client byte budget of the reference server (server.go           *)
(* clientBudget, bucket, admission and the metered part of Handler's       *)
(* guard): handler goroutines are admitted to a large download or upload   *)
(* against their client's token bucket, move bytes, and settle.            *)
(*                                                                         *)
(* Every operation holds the budget's mutex, so each is one action.  A     *)
(* bucket is an object of its own: an admission keeps a pointer to it that *)
(* outlives its entry in seen.  Balances are exact: a bucket's credit is   *)
(* its tokens times Window, and Max credit comes back per clock tick.      *)
(***************************************************************************)
EXTENDS Integers, FiniteSets

CONSTANTS
  Keys,         \* budget identities: source IPs and signed subjects
  Handlers,     \* handler goroutines of metered requests
  Caps,         \* the request caps: LargeSize and UploadSize
  R,            \* the larger of the request caps
  Max,          \* bytes a bucket holds
  Window,       \* clock ticks in which an empty bucket refills
  Concurrency,  \* MaxClientConcurrency
  CleanupAt,    \* size of seen at which a new client triggers the cleanup
  Second,       \* clock ticks per second
  MaxRetryWait, \* maxRetryWait, the longest duration, in ticks
  MaxTime,      \* bound of the model: clock ticks
  MaxBuckets    \* bound of the model: buckets ever allocated

\* No server is up for the longest duration, 292 years.
ASSUME BudgetAssumption ==
  /\ R \in Nat \ {0} /\ Caps \subseteq 1..R
  /\ Max \in Nat \ {0} /\ Window \in Nat \ {0}
  /\ Concurrency \in Nat \ {0} /\ CleanupAt \in Nat /\ Second \in Nat \ {0}
  /\ MaxTime \in Nat /\ MaxBuckets \in Nat /\ MaxRetryWait \in Nat /\ MaxTime <= MaxRetryWait
  /\ IsFiniteSet(Handlers)

Ids == 1..MaxBuckets
NoBucket == 0
Full == Max * Window
Bucket == [credit : Int, last : Nat, active : Int]
FullBucket(t) == [credit |-> Full, last |-> t, active |-> 0]

\* A handler with no admission, and one between admit and settle.
Idle == [key |-> "none", bucket |-> NoBucket, cap |-> 0, moved |-> 0]

VARIABLES
  now,        \* clientBudget.now
  seen,       \* clientBudget.seen: the bucket of a key, if it has one
  heap,       \* the bucket objects
  allocated,  \* how many bucket objects were ever created
  req,        \* the admission each handler holds
  moved,      \* history: payload bytes moved for each key
  due         \* history: end of the Retry-After of the last byte refusal, 0 if none

vars == <<now, seen, heap, allocated, req, moved, due>>

Init ==
  /\ now = 0
  /\ seen = [k \in Keys |-> NoBucket]
  /\ heap = [i \in Ids |-> FullBucket(0)]
  /\ allocated = 0
  /\ req = [h \in Handlers |-> Idle]
  /\ moved = [k \in Keys |-> 0]
  /\ due = [k \in Keys |-> 0]

\* The clock is monotonic and read under the mutex; nothing happens at a tick.
Tick ==
  /\ now < MaxTime
  /\ now' = now + 1
  /\ UNCHANGED <<seen, heap, allocated, req, moved, due>>

\* balance: what the bucket would hold now, without touching it.
NonNegative(x) == IF x < 0 THEN 0 ELSE x
AtMost(x, y) == IF x < y THEN x ELSE y
balance(bk) == AtMost(Full, bk.credit + Max * NonNegative(now - bk.last))
refill(bk) == [bk EXCEPT !.credit = balance(bk), !.last = now]

(***************************************************************************)
(* admit                                                                   *)
(***************************************************************************)
Known == {k \in Keys : seen[k] # NoBucket}

\* The cleanup forgets full buckets whatever they still own.
EvictableIdle(bk) == balance(bk) = Full

\* The cleanup forgets buckets without admissions, debt or not.
EvictableDebt(bk) == bk.active = 0

\* Never forget ownership or debt.
Evictable(bk) == bk.active = 0 /\ balance(bk) = Full

\* seen after a key without a bucket has been looked up.
Cleaned ==
  IF Cardinality(Known) >= CleanupAt
  THEN [k \in Keys |-> IF k \in Known /\ Evictable(heap[seen[k]]) THEN NoBucket ELSE seen[k]]
  ELSE seen

\* The bucket admit finds or creates for k, refilled.
Fresh(k) == seen[k] = NoBucket
IdOf(k) == IF Fresh(k) THEN allocated + 1 ELSE seen[k]
Found(k) == refill(IF Fresh(k) THEN FullBucket(now) ELSE heap[seen[k]])

\* Every outcome of admit stores the refilled bucket under the key.
Store(k, bk) ==
  /\ Fresh(k) => allocated < MaxBuckets
  /\ allocated' = IF Fresh(k) THEN allocated + 1 ELSE allocated
  /\ seen' = [(IF Fresh(k) THEN Cleaned ELSE seen) EXCEPT ![k] = IdOf(k)]
  /\ heap' = [heap EXCEPT ![IdOf(k)] = bk]

\* The two tests of admit, and the first with a balance of zero let through.
HasCreditOrNone(bk) == bk.credit >= 0
HasCredit(bk) == bk.credit > 0
HasSlot(bk) == bk.active < Concurrency

\* A positive balance and a free slot: the slot is taken.
Admit(h, k, cap) ==
  /\ req[h] = Idle /\ cap \in Caps
  /\ HasCredit(Found(k)) /\ HasSlot(Found(k))
  /\ Store(k, [Found(k) EXCEPT !.active = @ + 1])
  /\ req' = [req EXCEPT ![h] = [key |-> k, bucket |-> IdOf(k), cap |-> cap, moved |-> 0]]
  /\ UNCHANGED <<now, moved, due>>

\* The wait that brings the balance to zero, as a duration of limited range;
\* unchecked, the conversion of a longer one yields the least duration.
WaitUnchecked(credit) ==
  IF 0 - credit >= Max * MaxRetryWait THEN 0 - MaxRetryWait - 1 ELSE (0 - credit) \div Max
Wait(credit) ==
  IF 0 - credit >= Max * MaxRetryWait THEN MaxRetryWait ELSE (0 - credit) \div Max

\* Retry-After in whole seconds.
RetryAfter(wait) == (wait \div Second) + 1

\* 429 "client byte budget exhausted".
RefuseBytes(h, k) ==
  /\ req[h] = Idle
  /\ ~HasCredit(Found(k))
  /\ Store(k, Found(k))
  /\ due' = [due EXCEPT ![k] = now + Second * RetryAfter(Wait(Found(k).credit))]
  /\ UNCHANGED <<now, req, moved>>

\* 429 "client concurrency limit reached": the hint is advisory.
RefuseConcurrency(h, k) ==
  /\ req[h] = Idle
  /\ HasCredit(Found(k)) /\ ~HasSlot(Found(k))
  /\ Store(k, Found(k))
  /\ UNCHANGED <<now, req, moved, due>>

(***************************************************************************)
(* The handler: a download's Write or an upload's Read moves bytes up to   *)
(* the request cap; settle runs deferred, charging what moved, or the cap  *)
(* when the handler panicked.                                              *)
(***************************************************************************)
Admitted(h) == req[h] # Idle

Transfer(h) ==
  /\ Admitted(h) /\ req[h].moved < req[h].cap
  /\ req' = [req EXCEPT ![h].moved = @ + 1]
  /\ moved' = [moved EXCEPT ![req[h].key] = @ + 1]
  /\ UNCHANGED <<now, seen, heap, allocated, due>>

\* A bucket charged with n bytes, with its slot given back or leaked.
ChargedOnly(bk, n) == [credit |-> balance(bk) - n * Window, last |-> now, active |-> bk.active]
Charged(bk, n) == [credit |-> balance(bk) - n * Window, last |-> now, active |-> bk.active - 1]

settle(h, n) ==
  /\ heap' = [heap EXCEPT ![req[h].bucket] = Charged(@, n)]
  /\ req' = [req EXCEPT ![h] = Idle]
  /\ due' = [due EXCEPT ![req[h].key] = 0]
  /\ UNCHANGED <<now, seen, allocated, moved>>

Return(h) == Admitted(h) /\ settle(h, req[h].moved)
Panic(h) == Admitted(h) /\ settle(h, req[h].cap)

Next ==
  \/ Tick
  \/ \E h \in Handlers :
       \/ \E k \in Keys : (\E cap \in Caps : Admit(h, k, cap)) \/ RefuseBytes(h, k) \/ RefuseConcurrency(h, k)
       \/ Transfer(h) \/ Return(h) \/ Panic(h)

Spec == Init /\ [][Next]_vars
-----------------------------------------------------------------------------
TypeOK ==
  /\ now \in 0..MaxTime
  /\ seen \in [Keys -> Ids \cup {NoBucket}]
  /\ heap \in [Ids -> Bucket]
  /\ allocated \in 0..MaxBuckets
  /\ req \in [Handlers -> {Idle} \cup
               [key : Keys, bucket : Ids, cap : Caps, moved : 0..R]]
  /\ moved \in [Keys -> Nat]
  /\ due \in [Keys -> Nat]

\* The handlers working for a key.
Serving(k) == {h \in Handlers : Admitted(h) /\ req[h].key = k}

\* SRV-12: no identity has more than Concurrency admitted handlers active.
ConcurrencyBound == \A k \in Keys : Cardinality(Serving(k)) <= Concurrency

\* A handler's admission points at the bucket its key is charged on: the
\* cleanup never forgets a bucket with an outstanding admission, so no
\* transfer settles on a forgotten bucket.
AdmissionsKeepTheirBucket ==
  \A h \in Handlers : Admitted(h) => seen[req[h].key] = req[h].bucket

\* No slot is lost or double-counted: a bucket's active count is the number of
\* handlers holding an admission for its key.
SlotsMatchHandlers ==
  \A k \in Known : heap[seen[k]].active = Cardinality(Serving(k))

\* SRV-12: with every outstanding request charged its full cap, a bucket is
\* less than Concurrency requests of R bytes in debt.
OvershootBound ==
  \A k \in Known :
    heap[seen[k]].credit - heap[seen[k]].active * (R * Window)
      > 0 - Concurrency * (R * Window)

\* SRV-8 and SRV-12 over the whole run: the payload moved for a key never
\* exceeds one full bucket, what time refilled, and Concurrency requests of R
\* bytes, however often its bucket was forgotten and created anew.
BudgetConformance ==
  \A k \in Keys :
    moved[k] * Window <= Full + Max * now + Concurrency * (R * Window)

\* A byte refusal's Retry-After is enough: unless a transfer of the client has
\* been charged since, its balance is positive when the hint has run out.  A
\* debt beyond the longest duration is hinted at that length.
RetryAfterSuffices ==
  \A k \in Known : due[k] # 0 /\ now >= due[k] => balance(heap[seen[k]]) > 0
=============================================================================
