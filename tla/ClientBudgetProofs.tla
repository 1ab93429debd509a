------------------------- MODULE ClientBudgetProofs -------------------------
(***************************************************************************)
(* Proofs about the client budget for any number of clients and handlers,  *)
(* any request caps, budget, window, concurrency and cleanup threshold:    *)
(* the concurrency bound and the overshoot bound of SRV-12, that the       *)
(* cleanup never forgets a bucket an admission still refers to, that the   *)
(* decisions are those of SRV-12's text and its retry hints suffice.  Then *)
(* about the request path in front of it: it takes only steps of the       *)
(* budget, serves nobody a URL does not entitle, and keeps buckets apart.  *)
(***************************************************************************)
EXTENDS Guard, FiniteSetTheorems, TLAPS

\* Every known key has a bucket of its own, no bucket holds more than Full
\* and no more slots than Concurrency are taken.
BucketsSound ==
  /\ \A k \in Known : seen[k] <= allocated
  /\ \A j, k \in Known : seen[j] = seen[k] => j = k
  /\ \A i \in Ids : heap[i].credit <= Full
  /\ \A k \in Known : heap[seen[k]].active <= Concurrency

Inv ==
  /\ TypeOK /\ BucketsSound /\ AdmissionsKeepTheirBucket
  /\ SlotsMatchHandlers /\ OvershootBound

\* One request of R bytes, in credit.
Debt == R * Window

\* What the assumptions on the budget say in the form the provers use.
LEMMA ConstantFacts ==
  /\ R \in Nat \ {0} /\ Max \in Nat \ {0} /\ Window \in Nat \ {0}
  /\ Concurrency \in Nat \ {0} /\ MaxTime \in Nat /\ MaxBuckets \in Nat
  /\ Debt \in Nat /\ Debt > 0 /\ Full \in Nat /\ Full > 0
  /\ \A n \in 0..R : n * Window \in Nat /\ n * Window <= Debt
<1> USE BudgetAssumption
<1>1. \A a, b \in Nat \ {0} : a * b \in Nat /\ a * b > 0
  OBVIOUS
<1>2. \A a, b, c \in Nat : a <= b => a * c \in Nat /\ a * c <= b * c
  OBVIOUS
<1> QED
  BY <1>1, <1>2 DEF Debt, Full

\* Products with a fixed factor are monotone, and step by the factor.
LEMMA Products ==
  ASSUME NEW a \in Int, NEW b \in Int, NEW d \in Nat
  PROVE  /\ a <= b => a * d <= b * d
         /\ (a + 1) * d = a * d + d /\ (a - 1) * d = a * d - d
         /\ a * d \in Int
OBVIOUS

\* The balance is an integer between the stored credit and a full bucket.
LEMMA BalanceFacts ==
  ASSUME now \in Nat, NEW bk \in Bucket, bk.credit <= Full
  PROVE  balance(bk) \in Int /\ bk.credit <= balance(bk) /\ balance(bk) <= Full
<1>1. NonNegative(now - bk.last) \in Nat
  BY DEF NonNegative, Bucket
<1>2. Max * NonNegative(now - bk.last) \in Nat
  BY <1>1, ConstantFacts
<1> QED
  BY <1>2, ConstantFacts DEF balance, AtMost, Bucket

\* A bucket refilled by admit.
LEMMA FoundFacts ==
  ASSUME Inv, NEW k \in Keys
  PROVE  /\ Found(k) \in Bucket /\ Found(k).credit <= Full
         /\ Fresh(k) => Found(k).active = 0 /\ Found(k).credit = Full
         /\ ~Fresh(k) => /\ Found(k).active = heap[seen[k]].active
                        /\ heap[seen[k]].credit <= Found(k).credit
<1>0. now \in Nat /\ MaxTime \in Nat
  BY ConstantFacts DEF Inv, TypeOK
<1>1. CASE Fresh(k)
  <2>1. FullBucket(now) \in Bucket /\ FullBucket(now).credit <= Full
    BY <1>0, ConstantFacts DEF FullBucket, Bucket
  <2>2. balance(FullBucket(now)) \in Int /\ balance(FullBucket(now)) <= Full
    BY <1>0, <2>1, BalanceFacts
  <2>3. balance(FullBucket(now)) = Full
    BY <1>0, <2>1, <2>2, BalanceFacts, ConstantFacts DEF FullBucket
  <2> QED
    BY <1>0, <1>1, <2>1, <2>2, <2>3 DEF Found, refill, FullBucket, Bucket
<1>2. CASE ~Fresh(k)
  <2>1. heap[seen[k]] \in Bucket /\ heap[seen[k]].credit <= Full
    BY <1>2 DEF Inv, TypeOK, BucketsSound, Fresh
  <2>2. /\ balance(heap[seen[k]]) \in Int /\ balance(heap[seen[k]]) <= Full
        /\ heap[seen[k]].credit <= balance(heap[seen[k]])
    BY <1>0, <2>1, BalanceFacts
  <2> QED
    BY <1>0, <1>2, <2>1, <2>2 DEF Found, refill, Bucket
<1> QED
  BY <1>1, <1>2

\* The handlers of a key are finitely many.
LEMMA ServingFinite ==
  ASSUME NEW k \in Keys
  PROVE  IsFiniteSet(Serving(k)) /\ Cardinality(Serving(k)) \in Nat
<1>1. Serving(k) \subseteq Handlers
  BY DEF Serving
<1>2. IsFiniteSet(Serving(k))
  BY <1>1, FS_Subset, BudgetAssumption
<1> QED
  BY <1>2, FS_CardinalityType

\* The cleanup keeps the bucket of every key that is being served.
LEMMA CleanedKeepsServed ==
  ASSUME Inv, NEW k \in Keys, Serving(k) # {}
  PROVE  Cleaned[k] = seen[k]
<1>1. k \in Known
  BY DEF Inv, AdmissionsKeepTheirBucket, Serving, Admitted, Known, TypeOK, Ids, NoBucket, Idle
<1>2. heap[seen[k]].active = Cardinality(Serving(k))
  BY <1>1 DEF Inv, SlotsMatchHandlers
<1>3. heap[seen[k]].active # 0
  BY <1>2, ServingFinite, FS_EmptySet
<1> QED
  BY <1>3 DEF Cleaned, Evictable

\* What storing a bucket under k does to the map and to the heap.
LEMMA StoreFacts ==
  ASSUME Inv, NEW k \in Keys, NEW bk \in Bucket, Store(k, bk)
  PROVE  /\ IdOf(k) \in Ids /\ IdOf(k) <= allocated' /\ allocated <= allocated'
         /\ allocated' \in 0..MaxBuckets
         /\ seen' \in [Keys -> Ids \cup {NoBucket}] /\ heap' \in [Ids -> Bucket]
         /\ seen'[k] = IdOf(k) /\ heap'[IdOf(k)] = bk
         /\ ~Fresh(k) => IdOf(k) = seen[k]
         /\ \A j \in Keys \ {k} :
              /\ seen'[j] \in {seen[j], NoBucket}
              /\ Serving(j) # {} => seen'[j] = seen[j]
              /\ seen[j] # NoBucket => seen[j] # IdOf(k) /\ heap'[seen[j]] = heap[seen[j]]
         /\ \A i \in Ids \ {IdOf(k)} : heap'[i] = heap[i]
<1> USE ConstantFacts
<1>1. IdOf(k) \in Ids /\ IdOf(k) <= allocated' /\ allocated <= allocated' /\ allocated' \in 0..MaxBuckets
  BY DEF Store, IdOf, Fresh, Inv, TypeOK, BucketsSound, Known, Ids, NoBucket
<1>2. Cleaned \in [Keys -> Ids \cup {NoBucket}]
  BY DEF Cleaned, Inv, TypeOK
<1>3. seen' \in [Keys -> Ids \cup {NoBucket}] /\ seen'[k] = IdOf(k)
  BY <1>1, <1>2 DEF Store, Inv, TypeOK
<1>4. /\ heap' \in [Ids -> Bucket] /\ heap'[IdOf(k)] = bk
      /\ \A i \in Ids \ {IdOf(k)} : heap'[i] = heap[i]
  BY <1>1 DEF Store, Inv, TypeOK
<1>5. \A j \in Keys \ {k} : /\ seen'[j] \in {seen[j], NoBucket}
                            /\ Serving(j) # {} => seen'[j] = seen[j]
  <2> SUFFICES ASSUME NEW j \in Keys \ {k}
               PROVE  seen'[j] \in {seen[j], NoBucket} /\ (Serving(j) # {} => seen'[j] = seen[j])
    OBVIOUS
  <2>1. seen'[j] \in {seen[j], Cleaned[j]} /\ Cleaned[j] \in {seen[j], NoBucket}
    BY <1>2 DEF Store, Cleaned, Inv, TypeOK
  <2> QED
    BY <2>1, CleanedKeepsServed
<1>6. \A j \in Keys \ {k} : seen[j] # NoBucket => seen[j] # IdOf(k) /\ heap'[seen[j]] = heap[seen[j]]
  <2> SUFFICES ASSUME NEW j \in Keys \ {k}, seen[j] # NoBucket
               PROVE  seen[j] # IdOf(k) /\ heap'[seen[j]] = heap[seen[j]]
    OBVIOUS
  <2>1. seen[j] \in Ids /\ seen[j] <= allocated
    BY DEF Inv, TypeOK, BucketsSound, Known
  <2>2. seen[j] # IdOf(k)
    BY <2>1 DEF IdOf, Fresh, Inv, TypeOK, BucketsSound, Known, Ids
  <2> QED
    BY <1>4, <2>1, <2>2
<1> QED
  BY <1>1, <1>3, <1>4, <1>5, <1>6 DEF IdOf

\* Storing a bucket within the bounds keeps every bucket within the bounds.
LEMMA StoreSound ==
  ASSUME Inv, NEW k \in Keys, NEW bk \in Bucket, Store(k, bk),
         bk.credit <= Full, bk.active <= Concurrency,
         bk.credit - bk.active * Debt > 0 - Concurrency * Debt
  PROVE  BucketsSound' /\ OvershootBound'
<1>1. \A j \in Known' \ {k} : j \in Known /\ seen'[j] = seen[j] /\ heap'[seen'[j]] = heap[seen[j]]
  BY StoreFacts DEF Known
<1>2. seen'[k] = IdOf(k) /\ heap'[seen'[k]] = bk
  BY StoreFacts
<1>3. \A j \in Known' : seen'[j] <= allocated'
  <2> SUFFICES ASSUME NEW j \in Known' PROVE seen'[j] <= allocated'
    OBVIOUS
  <2>1. CASE j = k
    BY <2>1, <1>2, StoreFacts
  <2>2. CASE j # k
    <3>1. j \in Known /\ seen'[j] = seen[j]
      BY <2>2, <1>1
    <3>2. seen[j] <= allocated /\ seen[j] \in Nat /\ allocated \in Nat
      BY <3>1, ConstantFacts DEF Inv, BucketsSound, TypeOK, Known, Ids, NoBucket
    <3>3. allocated <= allocated' /\ allocated' \in Nat
      BY StoreFacts, ConstantFacts
    <3> QED
      BY <3>1, <3>2, <3>3
  <2> QED
    BY <2>1, <2>2
<1>4. \A i, j \in Known' : seen'[i] = seen'[j] => i = j
  <2> SUFFICES ASSUME NEW i \in Known', NEW j \in Known', seen'[i] = seen'[j]
               PROVE  i = j
    OBVIOUS
  <2>1. i \in Keys /\ j \in Keys
    BY DEF Known
  <2>2. \A m \in Known' \ {k} : seen'[m] # IdOf(k)
    BY <1>1, StoreFacts DEF Known
  <2>3. CASE i = k \/ j = k
    BY <2>2, <2>3, <1>2
  <2>4. CASE i # k /\ j # k
    BY <2>4, <1>1 DEF Inv, BucketsSound
  <2> QED
    BY <2>3, <2>4
<1>5. \A i \in Ids : heap'[i].credit <= Full
  BY StoreFacts DEF Inv, BucketsSound
<1>6. \A j \in Known' : heap'[seen'[j]].active <= Concurrency
  BY <1>1, <1>2 DEF Inv, BucketsSound
<1>7. BucketsSound'
  BY <1>3, <1>4, <1>5, <1>6 DEF BucketsSound
<1>8. OvershootBound'
  BY <1>1, <1>2 DEF OvershootBound, Inv, Debt
<1> QED
  BY <1>7, <1>8

\* A key without a bucket serves nobody; a served key's bucket counts its
\* handlers.
LEMMA ServedFacts ==
  ASSUME Inv, NEW k \in Keys
  PROVE  /\ Fresh(k) => Serving(k) = {}
         /\ Found(k).active = Cardinality(Serving(k))
<1>1. Fresh(k) => Serving(k) = {}
  BY DEF Inv, AdmissionsKeepTheirBucket, Serving, Admitted, Fresh, TypeOK, Ids, NoBucket, Idle
<1>2. CASE Fresh(k)
  BY <1>1, <1>2, FoundFacts, FS_EmptySet
<1>3. CASE ~Fresh(k)
  BY <1>3, FoundFacts DEF Inv, SlotsMatchHandlers, Known, Fresh
<1> QED
  BY <1>1, <1>2, <1>3

\* The refilled bucket is within the overshoot bound: a new one is full, a
\* known one gained what the clock gave it.
LEMMA FoundOvershoot ==
  ASSUME Inv, NEW k \in Keys
  PROVE  /\ Found(k).active <= Concurrency
         /\ Found(k).credit - Found(k).active * Debt > 0 - Concurrency * Debt
<1> USE ConstantFacts
<1>0. Found(k).credit \in Int /\ Found(k).active \in Int
  BY FoundFacts DEF Bucket
<1>1. CASE ~Fresh(k)
  <2>1. seen[k] \in Ids /\ heap[seen[k]] \in Bucket /\ k \in Known
    BY <1>1 DEF Inv, TypeOK, Known, Fresh
  <2>2. /\ heap[seen[k]].active <= Concurrency
        /\ heap[seen[k]].credit - heap[seen[k]].active * Debt > 0 - Concurrency * Debt
    BY <2>1 DEF Inv, BucketsSound, OvershootBound, Debt
  <2>3. heap[seen[k]].active * Debt \in Int /\ heap[seen[k]].credit \in Int /\ Concurrency * Debt \in Int
    BY <2>1, Products DEF Bucket
  <2> QED
    BY <1>0, <1>1, <2>2, <2>3, FoundFacts
<1>2. CASE Fresh(k)
  <2>1. Found(k).credit = Full /\ Found(k).active = 0
    BY <1>2, FoundFacts
  <2>2. Concurrency * Debt \in Nat /\ 0 * Debt = 0
    OBVIOUS
  <2> QED
    BY <2>1, <2>2
<1> QED
  BY <1>1, <1>2

\* A fresh clientBudget has no bucket and no admission.
LEMMA InitEstablishes == Init => Inv
<1> SUFFICES ASSUME Init PROVE Inv
  OBVIOUS
<1> USE ConstantFacts
<1>1. heap \in [Ids -> Bucket] /\ \A i \in Ids : heap[i].credit <= Full
  BY DEF Init, Bucket, FullBucket
<1>2. Known = {}
  BY DEF Init, Known
<1>3. TypeOK
  BY <1>1 DEF Init, TypeOK, Ids, NoBucket, Idle
<1>4. AdmissionsKeepTheirBucket
  BY DEF Init, AdmissionsKeepTheirBucket, Admitted
<1> QED
  BY <1>1, <1>2, <1>3, <1>4 DEF Inv, BucketsSound, SlotsMatchHandlers, OvershootBound

\* Steps that leave the admissions and the buckets alone.
LEMMA SameBuckets ==
  ASSUME Inv, UNCHANGED <<seen, heap, allocated, req>>, now' \in 0..MaxTime,
         moved' \in [Keys -> Nat], due' \in [Keys -> Nat]
  PROVE  Inv'
BY DEF Inv, TypeOK, BucketsSound, Known, AdmissionsKeepTheirBucket, SlotsMatchHandlers,
       Serving, Admitted, OvershootBound

\* The clock alone only adds credit.
LEMMA TickKeeps == ASSUME Inv, Tick PROVE Inv'
BY SameBuckets, ConstantFacts DEF Tick, Inv, TypeOK

\* An admission takes one slot of the bucket found under the mutex.
LEMMA AdmitKeeps ==
  ASSUME Inv, NEW h \in Handlers, NEW k \in Keys, NEW cap \in Caps, Admit(h, k, cap)
  PROVE  Inv'
<1> DEFINE bk == [Found(k) EXCEPT !.active = @ + 1]
           rec == [key |-> k, bucket |-> IdOf(k), cap |-> cap, moved |-> 0]
<1> USE ConstantFacts
<1>1. /\ req[h] = Idle /\ Found(k).credit > 0 /\ Found(k).active < Concurrency
      /\ Store(k, bk) /\ req' = [req EXCEPT ![h] = rec] /\ UNCHANGED <<now, moved, due>>
  BY DEF Admit, HasCredit, HasSlot
<1>2. /\ Found(k) \in Bucket /\ bk \in Bucket /\ bk.credit = Found(k).credit
      /\ bk.active = Found(k).active + 1
  BY FoundFacts DEF Bucket
<1>3. bk.credit - bk.active * Debt > 0 - Concurrency * Debt
  <2>1. bk.active \in Int /\ bk.active <= Concurrency /\ bk.credit \in Int /\ bk.credit > 0
    BY <1>1, <1>2 DEF Bucket
  <2> HIDE DEF bk
  <2>2. bk.active * Debt <= Concurrency * Debt /\ bk.active * Debt \in Int /\ Concurrency * Debt \in Int
    BY <2>1, Products
  <2> QED
    BY <2>1, <2>2
<1>4. BucketsSound' /\ OvershootBound'
  <2>1. bk.credit <= Full /\ bk.active <= Concurrency
    BY <1>1, <1>2, FoundFacts DEF Bucket
  <2> HIDE DEF bk
  <2> QED
    BY <1>1, <1>2, <1>3, <2>1, StoreSound
<1> HIDE DEF bk
<1>5. IdOf(k) \in Ids
  BY <1>1, <1>2, StoreFacts
<1>6. rec \in [key : Keys, bucket : Ids, cap : Caps, moved : 0..R] /\ rec # Idle
  BY <1>5 DEF Idle, Ids, NoBucket
<1>7. req' \in [Handlers -> {Idle} \cup [key : Keys, bucket : Ids, cap : Caps, moved : 0..R]]
  BY <1>1, <1>6 DEF Inv, TypeOK
<1>8. TypeOK'
  BY <1>1, <1>2, <1>7, StoreFacts DEF TypeOK, Inv
<1>9. Serving(k)' = Serving(k) \cup {h} /\ h \notin Serving(k)
  BY <1>1, <1>6 DEF Serving, Admitted, Inv, TypeOK
<1>10. \A j \in Keys \ {k} : Serving(j)' = Serving(j)
  BY <1>1, <1>6 DEF Serving, Admitted, Inv, TypeOK
<1>11. AdmissionsKeepTheirBucket'
  <2> SUFFICES ASSUME NEW g \in Handlers, Admitted(g)' PROVE seen'[req'[g].key] = req'[g].bucket
    BY DEF AdmissionsKeepTheirBucket
  <2>1. CASE g = h
    BY <2>1, <1>1, <1>2, StoreFacts DEF Inv, TypeOK
  <2>2. CASE g # h
    <3>1. req'[g] = req[g] /\ req[g] # Idle
      BY <2>2, <1>1 DEF Admitted, Inv, TypeOK
    <3>2. req[g].key \in Keys /\ req[g].bucket \in Ids /\ seen[req[g].key] = req[g].bucket /\ g \in Serving(req[g].key)
      BY <3>1 DEF Inv, TypeOK, AdmissionsKeepTheirBucket, Admitted, Serving
    <3>3. CASE req[g].key = k
      BY <3>1, <3>2, <3>3, <1>1, <1>2, StoreFacts DEF Fresh, Ids, NoBucket
    <3>4. CASE req[g].key # k
      BY <3>1, <3>2, <3>4, <1>1, <1>2, StoreFacts
    <3> QED
      BY <3>3, <3>4
  <2> QED
    BY <2>1, <2>2
<1>12. SlotsMatchHandlers'
  <2> SUFFICES ASSUME NEW j \in Known' PROVE heap'[seen'[j]].active = Cardinality(Serving(j)')
    BY DEF SlotsMatchHandlers
  <2>1. CASE j = k
    <3>1. Cardinality(Serving(k) \cup {h}) = Cardinality(Serving(k)) + 1
      BY <1>9, ServingFinite, FS_AddElement
    <3> QED
      BY <2>1, <3>1, <1>1, <1>2, <1>9, StoreFacts, ServedFacts
  <2>2. CASE j # k
    BY <2>2, <1>1, <1>2, <1>10, StoreFacts DEF Known, Inv, SlotsMatchHandlers
  <2> QED
    BY <2>1, <2>2
<1> QED
  BY <1>4, <1>8, <1>11, <1>12 DEF Inv

\* A refusal stores the refilled bucket and admits nobody.
LEMMA RefusalKeeps ==
  ASSUME Inv, NEW k \in Keys, Store(k, Found(k)), UNCHANGED <<now, req, moved>>,
         due' \in [Keys -> Nat]
  PROVE  Inv'
<1> DEFINE bk == Found(k)
<1>1. bk \in Bucket /\ Store(k, bk) /\ bk.credit <= Full
  BY FoundFacts
<1>2. bk.active <= Concurrency /\ bk.credit - bk.active * Debt > 0 - Concurrency * Debt
  BY FoundOvershoot
<1>3. bk.active = Cardinality(Serving(k)) /\ (Fresh(k) => Serving(k) = {})
  BY ServedFacts
<1> HIDE DEF bk
<1>4. BucketsSound' /\ OvershootBound'
  BY <1>1, <1>2, StoreSound
<1>5. TypeOK'
  BY <1>1, StoreFacts DEF TypeOK, Inv
<1>6. \A j \in Keys : Serving(j)' = Serving(j)
  BY DEF Serving, Admitted
<1>7. AdmissionsKeepTheirBucket'
  <2> SUFFICES ASSUME NEW g \in Handlers, req[g] # Idle PROVE seen'[req[g].key] = req[g].bucket
    BY DEF AdmissionsKeepTheirBucket, Admitted
  <2>1. req[g].key \in Keys /\ req[g].bucket \in Ids /\ seen[req[g].key] = req[g].bucket /\ g \in Serving(req[g].key)
    BY DEF Inv, TypeOK, AdmissionsKeepTheirBucket, Admitted, Serving
  <2>2. CASE req[g].key = k
    BY <2>1, <2>2, <1>1, StoreFacts DEF Fresh, Ids, NoBucket
  <2>3. CASE req[g].key # k
    BY <2>1, <2>3, <1>1, StoreFacts
  <2> QED
    BY <2>2, <2>3
<1>8. SlotsMatchHandlers'
  <2> SUFFICES ASSUME NEW j \in Known' PROVE heap'[seen'[j]].active = Cardinality(Serving(j)')
    BY DEF SlotsMatchHandlers
  <2>1. CASE j = k
    BY <2>1, <1>1, <1>3, <1>6, StoreFacts
  <2>2. CASE j # k
    BY <2>2, <1>1, <1>6, StoreFacts DEF Known, Inv, SlotsMatchHandlers
  <2> QED
    BY <2>1, <2>2
<1> QED
  BY <1>4, <1>5, <1>7, <1>8 DEF Inv

\* A refusal for lack of credit writes the Retry-After instant, a clock value.
LEMMA RefuseBytesKeeps ==
  ASSUME Inv, NEW h \in Handlers, NEW k \in Keys, RefuseBytes(h, k)
  PROVE  Inv'
<1>1. Found(k).credit \in Int /\ Found(k).credit <= 0
  BY FoundFacts DEF RefuseBytes, HasCredit, Bucket
<1>2. Max \in Nat \ {0} /\ Second \in Nat \ {0} /\ MaxRetryWait \in Nat
  BY BudgetAssumption
<1>3. \A a \in Nat, d \in Nat \ {0} : a \div d \in Nat
  OBVIOUS
<1>4. Wait(Found(k).credit) \in Nat
  BY <1>1, <1>2, <1>3 DEF Wait
<1>5. RetryAfter(Wait(Found(k).credit)) \in Nat
  BY <1>2, <1>3, <1>4 DEF RetryAfter
<1>7. now + Second * RetryAfter(Wait(Found(k).credit)) \in Nat
  BY <1>2, <1>5 DEF Inv, TypeOK
<1>6. due' \in [Keys -> Nat]
  BY <1>7 DEF RefuseBytes, Inv, TypeOK
<1> QED
  BY <1>6, RefusalKeeps DEF RefuseBytes

\* A refusal for lack of a slot admits nobody.
LEMMA RefuseConcurrencyKeeps ==
  ASSUME Inv, NEW h \in Handlers, NEW k \in Keys, RefuseConcurrency(h, k)
  PROVE  Inv'
<1>1. due' \in [Keys -> Nat]
  BY DEF RefuseConcurrency, Inv, TypeOK
<1> QED
  BY <1>1, RefusalKeeps DEF RefuseConcurrency

\* Moving bytes changes the handler's own counter and no bucket.
LEMMA TransferKeeps == ASSUME Inv, NEW h \in Handlers, Transfer(h) PROVE Inv'
<1> DEFINE rec == [req[h] EXCEPT !.moved = @ + 1]
<1>1. /\ req[h] \in [key : Keys, bucket : Ids, cap : Caps, moved : 0..R]
      /\ req[h] # Idle /\ req[h].moved < req[h].cap
      /\ req' = [req EXCEPT ![h] = rec] /\ UNCHANGED <<now, seen, heap, allocated, due>>
  BY DEF Transfer, Admitted, Inv, TypeOK
<1>2. /\ rec \in [key : Keys, bucket : Ids, cap : Caps, moved : 0..R]
      /\ rec.key = req[h].key /\ rec.bucket = req[h].bucket
  BY <1>1, BudgetAssumption
<1> HIDE DEF rec
<1>3. rec # Idle
  BY <1>2 DEF Idle, Ids, NoBucket
<1>4. req' \in [Handlers -> {Idle} \cup [key : Keys, bucket : Ids, cap : Caps, moved : 0..R]]
  BY <1>1, <1>2 DEF Inv, TypeOK
<1>5. moved' \in [Keys -> Nat]
  BY <1>1 DEF Transfer, Inv, TypeOK
<1>6. TypeOK'
  BY <1>1, <1>4, <1>5 DEF Inv, TypeOK
<1>7. \A g \in Handlers : /\ Admitted(g)' <=> Admitted(g)
                          /\ req'[g].key = req[g].key /\ req'[g].bucket = req[g].bucket
  BY <1>1, <1>2, <1>3 DEF Admitted, Inv, TypeOK
<1>8. \A k \in Keys : Serving(k)' = Serving(k)
  BY <1>7 DEF Serving
<1>9. AdmissionsKeepTheirBucket'
  BY <1>1, <1>7 DEF AdmissionsKeepTheirBucket, Inv
<1>10. BucketsSound' /\ OvershootBound' /\ Known' = Known
  BY <1>1 DEF BucketsSound, OvershootBound, Known, Inv
<1>11. SlotsMatchHandlers'
  <2> SUFFICES ASSUME NEW j \in Known' PROVE heap'[seen'[j]].active = Cardinality(Serving(j)')
    BY DEF SlotsMatchHandlers
  <2> QED
    BY <1>1, <1>8, <1>10 DEF SlotsMatchHandlers, Inv, Known
<1> QED
  BY <1>6, <1>9, <1>10, <1>11 DEF Inv

\* Settling n bytes of an admission for at most R keeps the invariant: the
\* bucket is charged no more than the request it stops counting.
LEMMA SettleKeeps ==
  ASSUME Inv, NEW h \in Handlers, Admitted(h), NEW n \in 0..R, settle(h, n)
  PROVE  Inv'
<1>0. PICK k \in Keys, i \in Ids : k = req[h].key /\ i = req[h].bucket
  BY DEF Inv, TypeOK, Admitted
<1> DEFINE bk == heap[i]
           new == [credit |-> balance(bk) - n * Window, last |-> now, active |-> bk.active - 1]
<1> USE ConstantFacts
<1>1. /\ k \in Keys /\ i \in Ids /\ seen[k] = i /\ k \in Known /\ h \in Serving(k)
      /\ bk \in Bucket /\ bk.credit <= Full /\ bk.active <= Concurrency
  <2>1. seen[k] = i /\ k \in Known /\ h \in Serving(k)
    BY <1>0 DEF Inv, AdmissionsKeepTheirBucket, Admitted, Serving, Known, Ids, NoBucket
  <2>2. bk \in Bucket
    BY <1>0 DEF Inv, TypeOK
  <2>3. bk.credit <= Full /\ bk.active <= Concurrency
    BY <1>0, <2>1 DEF Inv, BucketsSound
  <2> QED
    BY <1>0, <2>1, <2>2, <2>3
<1>2. bk.credit - bk.active * Debt > 0 - Concurrency * Debt
  BY <1>1 DEF Inv, OvershootBound, Debt
<1>3. /\ heap' = [heap EXCEPT ![i] = new] /\ req' = [req EXCEPT ![h] = Idle]
      /\ UNCHANGED <<now, seen, allocated, moved>> /\ due' = [due EXCEPT ![k] = 0]
  BY <1>0 DEF settle, Charged
<1>4. now \in Nat
  BY DEF Inv, TypeOK
<1>5. balance(bk) \in Int /\ bk.credit <= balance(bk) /\ balance(bk) <= Full
  BY <1>1, <1>4, BalanceFacts
<1>6. bk.active \in Int /\ bk.credit \in Int
  BY <1>1 DEF Bucket
<1>7. new \in Bucket /\ new.credit = balance(bk) - n * Window /\ new.active = bk.active - 1
  BY <1>4, <1>5, <1>6 DEF Bucket
<1> HIDE DEF new
<1>8. n * Window \in Nat /\ n * Window <= Debt
  OBVIOUS
<1>9. new.credit <= Full /\ new.active <= Concurrency
  BY <1>1, <1>5, <1>6, <1>7, <1>8
<1>10. new.credit - new.active * Debt > 0 - Concurrency * Debt
  <2>1. PICK a \in Int, c \in Int, d \in Nat : a = bk.active /\ c = Concurrency /\ d = Debt
    BY <1>6
  <2>2. (a - 1) * d = a * d - d /\ a * d \in Int /\ c * d \in Int
    BY Products
  <2>3. (bk.active - 1) * Debt = bk.active * Debt - Debt /\ bk.active * Debt \in Int /\ Concurrency * Debt \in Int
    BY <2>1, <2>2
  <2> QED
    BY <2>3, <1>2, <1>5, <1>6, <1>7, <1>8
<1>11. heap' \in [Ids -> Bucket] /\ heap'[i] = new /\ \A m \in Ids \ {i} : heap'[m] = heap[m]
  BY <1>1, <1>3, <1>7 DEF Inv, TypeOK
<1>12. Known' = Known /\ \A j \in Known \ {k} : seen[j] \in Ids /\ seen[j] # i
  BY <1>1, <1>3 DEF Inv, TypeOK, Known, BucketsSound
<1> HIDE DEF bk
<1>13. TypeOK'
  <2>1. req' \in [Handlers -> {Idle} \cup [key : Keys, bucket : Ids, cap : Caps, moved : 0..R]]
    BY <1>3 DEF Inv, TypeOK
  <2>2. due' \in [Keys -> Nat]
    BY <1>1, <1>3 DEF Inv, TypeOK
  <2> QED
    BY <2>1, <2>2, <1>3, <1>11 DEF Inv, TypeOK
<1>14. BucketsSound'
  BY <1>1, <1>3, <1>9, <1>11, <1>12 DEF Inv, BucketsSound
<1>15. OvershootBound'
  BY <1>1, <1>3, <1>10, <1>11, <1>12 DEF Inv, OvershootBound, Debt
<1>16. AdmissionsKeepTheirBucket'
  BY <1>3 DEF Inv, TypeOK, AdmissionsKeepTheirBucket, Admitted
<1>17. Serving(k)' = Serving(k) \ {h} /\ \A j \in Keys \ {k} : Serving(j)' = Serving(j)
  BY <1>0, <1>3 DEF Inv, TypeOK, Serving, Admitted
<1>18. SlotsMatchHandlers'
  <2> SUFFICES ASSUME NEW j \in Known' PROVE heap'[seen'[j]].active = Cardinality(Serving(j)')
    BY DEF SlotsMatchHandlers
  <2>1. CASE j = k
    <3>1. Cardinality(Serving(k) \ {h}) = Cardinality(Serving(k)) - 1
      BY <1>1, ServingFinite, FS_RemoveElement
    <3>2. bk.active = Cardinality(Serving(k))
      BY <1>1 DEF Inv, SlotsMatchHandlers, bk
    <3> QED
      BY <2>1, <3>1, <3>2, <1>1, <1>3, <1>7, <1>11, <1>17
  <2>2. CASE j # k
    BY <2>2, <1>3, <1>11, <1>12, <1>17 DEF Inv, SlotsMatchHandlers, Known
  <2> QED
    BY <2>1, <2>2
<1> QED
  BY <1>13, <1>14, <1>15, <1>16, <1>18 DEF Inv

\* A handler that returns settles what it moved.
LEMMA ReturnKeeps == ASSUME Inv, NEW h \in Handlers, Return(h) PROVE Inv'
<1>1. req[h].moved \in 0..R /\ Admitted(h)
  BY DEF Return, Admitted, Inv, TypeOK
<1> QED
  BY <1>1, SettleKeeps DEF Return

\* A handler that panics settles in its deferred call all the same.
LEMMA PanicKeeps == ASSUME Inv, NEW h \in Handlers, Panic(h) PROVE Inv'
<1>1. req[h].cap \in Caps /\ Admitted(h)
  BY DEF Panic, Admitted, Inv, TypeOK
<1>2. Caps \subseteq 0..R
  BY BudgetAssumption
<1> QED
  BY <1>1, <1>2, SettleKeeps DEF Panic

\* Every step keeps the invariant.
THEOREM Invariance == Spec => []Inv
<1>1. Init => Inv
  BY InitEstablishes
<1>2. Inv /\ [Next]_vars => Inv'
  <2> SUFFICES ASSUME Inv, [Next]_vars PROVE Inv'
    OBVIOUS
  <2>1. CASE Tick
    BY <2>1, TickKeeps
  <2>2. CASE \E h \in Handlers, k \in Keys, cap \in Caps : Admit(h, k, cap)
    BY <2>2, AdmitKeeps
  <2>3. CASE \E h \in Handlers, k \in Keys : RefuseBytes(h, k)
    BY <2>3, RefuseBytesKeeps
  <2>4. CASE \E h \in Handlers, k \in Keys : RefuseConcurrency(h, k)
    BY <2>4, RefuseConcurrencyKeeps
  <2>5. CASE \E h \in Handlers : Transfer(h)
    BY <2>5, TransferKeeps
  <2>6. CASE \E h \in Handlers : Return(h)
    BY <2>6, ReturnKeeps
  <2>7. CASE \E h \in Handlers : Panic(h)
    BY <2>7, PanicKeeps
  <2>8. CASE UNCHANGED vars
    BY <2>8, SameBuckets DEF vars, Inv, TypeOK
  <2> QED
    BY <2>1, <2>2, <2>3, <2>4, <2>5, <2>6, <2>7, <2>8 DEF Next
<1> QED
  BY <1>1, <1>2, PTL DEF Spec

\* Every bucket, admission and counter keeps its type.
THEOREM TypeCorrect == Spec => []TypeOK
<1>1. Inv => TypeOK
  BY DEF Inv
<1> QED
  BY <1>1, Invariance, PTL

\* The cleanup of admit never forgets a bucket with an outstanding admission.
THEOREM AdmissionsAreCharged == Spec => []AdmissionsKeepTheirBucket
<1>1. Inv => AdmissionsKeepTheirBucket
  BY DEF Inv
<1> QED
  BY <1>1, Invariance, PTL

\* The slots of a bucket are the handlers holding an admission for its key.
THEOREM SlotsAreHandlers == Spec => []SlotsMatchHandlers
<1>1. Inv => SlotsMatchHandlers
  BY DEF Inv
<1> QED
  BY <1>1, Invariance, PTL

\* SRV-12: an identity never has more than Concurrency handlers admitted.
THEOREM ConcurrencyIsBounded == Spec => []ConcurrencyBound
<1>1. Inv => ConcurrencyBound
  <2> SUFFICES ASSUME Inv, NEW k \in Keys PROVE Cardinality(Serving(k)) <= Concurrency
    BY DEF ConcurrencyBound
  <2>1. CASE Serving(k) = {}
    BY <2>1, FS_EmptySet, ConstantFacts
  <2>2. CASE Serving(k) # {}
    <3>1. k \in Known
      BY <2>2 DEF Inv, AdmissionsKeepTheirBucket, Serving, Admitted, Known, TypeOK, Ids, NoBucket, Idle
    <3> QED
      BY <3>1 DEF Inv, SlotsMatchHandlers, BucketsSound
  <2> QED
    BY <2>1, <2>2
<1> QED
  BY <1>1, Invariance, PTL

\* SRV-12: the debt of an identity, with every outstanding request charged in
\* full, stays below Concurrency requests.
THEOREM OvershootIsBounded == Spec => []OvershootBound
<1>1. Inv => OvershootBound
  BY DEF Inv
<1> QED
  BY <1>1, Invariance, PTL

(***************************************************************************)
(* SRV-8 over the whole run.  The payload of a key that is not yet settled *)
(* is counted byte by byte: a pair of a handler and the number of a byte it*)
(* has moved.  What is settled was paid for out of a full bucket and what  *)
(* time refilled, across any number of evictions.                          *)
(***************************************************************************)
InFlight(k) ==
  {p \in Handlers \X (1..R) : p[1] \in Serving(k) /\ p[2] <= req[p[1]].moved}

Settled(k) == moved[k] - Cardinality(InFlight(k))

\* A bucket's credit and what was settled on its key come out of Full and the
\* refill up to last; a key without a bucket could have been refilled in full.
PaidFor(k) ==
  IF k \in Known
  THEN /\ Settled(k) * Window + heap[seen[k]].credit <= Full + Max * heap[seen[k]].last
       /\ heap[seen[k]].last <= now
  ELSE Settled(k) * Window <= Max * now

\* A refusal's hint is enough of a wait from the bucket's last refill on, or it
\* lies beyond the clock.
HintHolds(k) ==
  k \in Known /\ due[k] # 0 =>
    \/ heap[seen[k]].credit > 0
    \/ due[k] >= heap[seen[k]].last /\ heap[seen[k]].credit + Max * (due[k] - heap[seen[k]].last) > 0
    \/ due[k] > MaxTime

ConformanceInv ==
  /\ \A k \in Keys : PaidFor(k) /\ HintHolds(k)
  /\ \A h \in Handlers : Admitted(h) => req[h].moved <= req[h].cap

\* Multiplication distributes over sums and differences.
LEMMA Distributes ==
  ASSUME NEW a \in Int, NEW b \in Int, NEW d \in Int
  PROVE  /\ (a + b) * d = a * d + b * d /\ (a - b) * d = a * d - b * d
         /\ d * (a + b) = d * a + d * b /\ d * (a - b) = d * a - d * b
         /\ d * a \in Int /\ d * b \in Int /\ a * d \in Int /\ b * d \in Int
OBVIOUS

\* The bytes in flight are finitely many, R at most for each handler.
LEMMA InFlightFinite ==
  ASSUME NEW k \in Keys
  PROVE  /\ IsFiniteSet(InFlight(k)) /\ Cardinality(InFlight(k)) \in Nat
         /\ Cardinality(InFlight(k)) <= Cardinality(Serving(k)) * R
<1>1. IsFiniteSet(1..R) /\ Cardinality(1..R) = R
  BY ConstantFacts, FS_Interval
<1>2. IsFiniteSet(Serving(k)) /\ Cardinality(Serving(k)) \in Nat
  BY ServingFinite
<1>3. IsFiniteSet(Serving(k) \X (1..R)) /\ Cardinality(Serving(k) \X (1..R)) = Cardinality(Serving(k)) * R
  BY <1>1, <1>2, FS_Product
<1>4. InFlight(k) \subseteq Serving(k) \X (1..R)
  BY DEF InFlight
<1> QED
  BY <1>3, <1>4, FS_Subset, FS_CardinalityType

\* Steps that leave every admission with what it had moved settle nothing.
LEMMA NothingSettled ==
  ASSUME Inv, moved' = moved,
         \A k \in Keys : InFlight(k)' = InFlight(k)
  PROVE  \A k \in Keys : Settled(k)' = Settled(k) /\ Settled(k) \in Int
BY InFlightFinite DEF Settled, Inv, TypeOK

\* The balance in plain arithmetic, once the clock is past the last refill.
LEMMA BalanceIs ==
  ASSUME now \in Nat, NEW bk \in Bucket, bk.last <= now
  PROVE  balance(bk) = AtMost(Full, bk.credit + (Max * now - Max * bk.last))
<1>1. bk.last \in Nat /\ bk.credit \in Int
  BY DEF Bucket
<1>2. NonNegative(now - bk.last) = now - bk.last
  BY <1>1 DEF NonNegative
<1>3. Max * (now - bk.last) = Max * now - Max * bk.last
  BY <1>1, ConstantFacts, Distributes
<1> QED
  BY <1>2, <1>3 DEF balance

\* Only a full balance without admissions is forgotten.
LEMMA ForgottenIsFull ==
  ASSUME Inv, NEW k \in Keys, NEW bk \in Bucket, Store(k, bk),
         NEW j \in Keys \ {k}, seen'[j] # seen[j]
  PROVE  j \in Known /\ j \notin Known' /\ balance(heap[seen[j]]) = Full
<1>1. seen'[j] = NoBucket /\ j \in Known
  BY StoreFacts DEF Known
<1>2. seen' = [(IF Fresh(k) THEN Cleaned ELSE seen) EXCEPT ![k] = IdOf(k)]
  BY DEF Store
<1>3. Cleaned \in [Keys -> Ids \cup {NoBucket}]
  BY DEF Cleaned, Inv, TypeOK
<1>4. seen'[j] \in {seen[j], Cleaned[j]}
  BY <1>2, <1>3 DEF Inv, TypeOK
<1>5. Evictable(heap[seen[j]])
  BY <1>1, <1>4, <1>3 DEF Cleaned, Inv, TypeOK
<1> QED
  BY <1>1, <1>5 DEF Evictable, Known

\* What the bucket admit finds has been paid for up to now.
LEMMA FoundPaid ==
  ASSUME Inv, ConformanceInv, NEW k \in Keys
  PROVE  /\ Found(k).last = now /\ Found(k).credit \in Int
         /\ Settled(k) * Window + Found(k).credit <= Full + Max * now
         /\ due[k] # 0 =>
              \/ Found(k).credit > 0
              \/ due[k] >= now /\ Found(k).credit + Max * (due[k] - now) > 0
              \/ due[k] > MaxTime
<1> USE ConstantFacts
<1>0. /\ now \in Nat /\ Settled(k) \in Int /\ Settled(k) * Window \in Int /\ due[k] \in Nat
      /\ Max * now \in Nat
  BY InFlightFinite, Distributes DEF Settled, Inv, TypeOK
<1>1. Found(k).last = now /\ Found(k).credit \in Int
  <2> DEFINE b == IF Fresh(k) THEN FullBucket(now) ELSE heap[seen[k]]
  <2>1. FullBucket(now) \in Bucket
    BY <1>0 DEF FullBucket, Bucket
  <2>2. b \in Bucket
    BY <2>1 DEF Fresh, Inv, TypeOK
  <2>3. Found(k) = refill(b)
    BY DEF Found
  <2> HIDE DEF b
  <2>4. Found(k).last = now
    BY <2>2, <2>3 DEF refill, Bucket
  <2>5. Found(k).credit \in Int
    BY FoundFacts DEF Bucket
  <2> QED
    BY <2>4, <2>5
<1>2. CASE Fresh(k)
  <2>1. Found(k).credit = Full /\ k \notin Known
    BY <1>2, FoundFacts DEF Known, Fresh
  <2>2. Settled(k) * Window <= Max * now
    BY <2>1 DEF ConformanceInv, PaidFor
  <2> QED
    BY <1>0, <1>1, <2>1, <2>2
<1>3. CASE ~Fresh(k)
  <2> DEFINE bk == heap[seen[k]]
  <2>1. k \in Known /\ bk \in Bucket
    BY <1>3 DEF Known, Fresh, Inv, TypeOK
  <2>2. /\ Settled(k) * Window + bk.credit <= Full + Max * bk.last /\ bk.last <= now
        /\ due[k] # 0 => \/ bk.credit > 0
                         \/ due[k] >= bk.last /\ bk.credit + Max * (due[k] - bk.last) > 0
                         \/ due[k] > MaxTime
    BY <2>1 DEF ConformanceInv, PaidFor, HintHolds
  <2>3. bk.last \in Nat /\ bk.credit \in Int /\ bk.credit <= Full
    <3>1. seen[k] \in Ids
      BY <1>3 DEF Fresh, Inv, TypeOK
    <3>2. bk.credit <= Full
      BY <3>1 DEF Inv, BucketsSound
    <3> HIDE DEF bk
    <3> QED
      BY <2>1, <3>2 DEF Bucket
  <2>4. Found(k).credit = balance(bk)
    BY <1>3, <2>1 DEF Found, refill, Bucket
  <2> HIDE DEF bk
  <2>5. Found(k).credit = AtMost(Full, bk.credit + (Max * now - Max * bk.last))
    BY <1>0, <2>1, <2>2, <2>4, BalanceIs
  <2>6. Max * bk.last \in Nat /\ Max * bk.last <= Max * now
    BY <1>0, <2>2, <2>3, Products
  <2>7. /\ Max * (due[k] - bk.last) = Max * due[k] - Max * bk.last /\ Max * due[k] \in Nat
        /\ Max * (due[k] - now) = Max * due[k] - Max * now
    BY <1>0, <2>3, Distributes
  <2>8. /\ due[k] >= now => Max * due[k] >= Max * now
        /\ due[k] < now => Max * due[k] <= Max * now
    BY <1>0, Products
  <2> QED
    BY <1>0, <1>1, <2>2, <2>3, <2>5, <2>6, <2>7, <2>8 DEF AtMost
<1> QED
  BY <1>2, <1>3

\* Storing the bucket found, with any number of slots, keeps what was paid.
LEMMA StoreConforms ==
  ASSUME Inv, ConformanceInv, NEW k \in Keys, NEW bk \in Bucket, Store(k, bk),
         bk.credit = Found(k).credit, bk.last = Found(k).last, now' = now,
         \A j \in Keys : Settled(j)' = Settled(j),
         \A h \in Handlers : Admitted(h)' => req'[h].moved <= req'[h].cap,
         \A j \in Keys \ {k} : due'[j] = due[j],
         \/ due'[k] = due[k]
         \/ due'[k] >= now /\ bk.credit + Max * (due'[k] - now) > 0
         \/ due'[k] > MaxTime
  PROVE  ConformanceInv'
<1>1. \A j \in Keys : Settled(j) \in Int
  BY InFlightFinite DEF Settled, Inv, TypeOK
<1>2. PaidFor(k)' /\ HintHolds(k)'
  <2>1. k \in Known' /\ heap'[seen'[k]] = bk
    BY StoreFacts DEF Known, Ids, NoBucket
  <2> QED
    BY <2>1, FoundPaid DEF PaidFor, HintHolds, Inv, TypeOK
<1>3. ASSUME NEW j \in Keys \ {k} PROVE PaidFor(j)' /\ HintHolds(j)'
  <2>1. CASE j \in Known /\ seen'[j] = seen[j]
    <3>1. j \in Known' /\ heap'[seen'[j]] = heap[seen[j]]
      BY <2>1, StoreFacts DEF Known
    <3> QED
      BY <2>1, <3>1 DEF ConformanceInv, PaidFor, HintHolds
  <2>2. CASE j \notin Known
    <3>1. j \notin Known'
      BY <2>2, StoreFacts DEF Known
    <3> QED
      BY <2>2, <3>1 DEF ConformanceInv, PaidFor, HintHolds
  <2>3. CASE j \in Known /\ seen'[j] # seen[j]
    <3> DEFINE b == heap[seen[j]]
    <3>1. j \notin Known' /\ balance(b) = Full /\ b \in Bucket
      BY <2>3, ForgottenIsFull DEF Inv, TypeOK, Known
    <3>2. Settled(j) * Window + b.credit <= Full + Max * b.last /\ b.last <= now
      BY <2>3 DEF ConformanceInv, PaidFor
    <3>3. now \in Nat /\ b.last \in Nat /\ b.credit \in Int
      BY <3>1 DEF Bucket, Inv, TypeOK
    <3> HIDE DEF b
    <3>4. Full <= b.credit + (Max * now - Max * b.last)
      <4>1. Max * now \in Int /\ Max * b.last \in Int
        BY <3>3, ConstantFacts, Distributes
      <4>2. balance(b) = AtMost(Full, b.credit + (Max * now - Max * b.last))
        BY <3>1, <3>2, <3>3, BalanceIs
      <4> QED
        BY <3>1, <3>3, <4>1, <4>2, ConstantFacts DEF AtMost
    <3>5. Settled(j) * Window \in Int /\ Max * now \in Int /\ Max * b.last \in Int
      BY <1>1, <3>3, ConstantFacts, Distributes
    <3>6. Settled(j) * Window <= Max * now
      BY <3>2, <3>3, <3>4, <3>5, ConstantFacts
    <3> QED
      BY <3>1, <3>6 DEF PaidFor, HintHolds
  <2> QED
    BY <2>1, <2>2, <2>3
<1> QED
  BY <1>2, <1>3 DEF ConformanceInv

\* The rounded hint is longer than the wait that brings the balance to zero,
\* or than any clock.
LEMMA HintSuffices ==
  ASSUME now \in Nat, NEW credit \in Int, credit <= 0, NEW d,
         d = now + Second * RetryAfter(Wait(credit))
  PROVE  /\ d \in Nat /\ d >= now
         /\ credit + Max * (d - now) > 0 \/ d > MaxTime
<1> USE BudgetAssumption
<1>1. \A a \in Nat, m \in Nat \ {0} : /\ a \div m \in Nat
                                     /\ m * (a \div m) \in Nat /\ a < m * (a \div m) + m
  OBVIOUS
<1>2. \A w \in Nat : Second * RetryAfter(w) \in Nat /\ Second * RetryAfter(w) > w
  <2> SUFFICES ASSUME NEW w \in Nat
               PROVE  Second * RetryAfter(w) \in Nat /\ Second * RetryAfter(w) > w
    OBVIOUS
  <2>1. w \div Second \in Nat /\ w < Second * (w \div Second) + Second
    BY <1>1
  <2>2. Second * ((w \div Second) + 1) = Second * (w \div Second) + Second * 1
    BY <2>1, Distributes
  <2> QED
    BY <2>1, <2>2 DEF RetryAfter
<1>3. CASE 0 - credit >= Max * MaxRetryWait
  <2>1. Wait(credit) = MaxRetryWait
    BY <1>3 DEF Wait
  <2> QED
    BY <1>2, <2>1
<1>4. CASE ~(0 - credit >= Max * MaxRetryWait)
  <2>1. Wait(credit) = (0 - credit) \div Max
    BY <1>4 DEF Wait
  <2> DEFINE w == (0 - credit) \div Max
  <2>2. w \in Nat /\ 0 - credit < Max * w + Max
    BY <1>1
  <2> HIDE DEF w
  <2>3. d - now \in Nat /\ d - now >= w + 1 /\ d \in Nat
    BY <1>2, <2>1, <2>2 DEF w
  <2>4. (w + 1) * Max <= (d - now) * Max /\ (w + 1) * Max = w * Max + Max
    BY <2>2, <2>3, Products
  <2>5. Max * w = w * Max /\ Max * (d - now) = (d - now) * Max /\ w * Max \in Int
    BY <2>2, <2>3
  <2> QED
    BY <2>2, <2>3, <2>4, <2>5
<1> QED
  BY <1>3, <1>4

\* The clock adds what it adds to every bound.
LEMMA TickConforms == ASSUME Inv, ConformanceInv, Tick PROVE ConformanceInv'
<1>1. now' = now + 1 /\ now \in Nat /\ UNCHANGED <<seen, heap, allocated, req, moved, due>>
  BY DEF Tick, Inv, TypeOK
<1>2. \A k \in Keys : Settled(k)' = Settled(k) /\ Settled(k) \in Int /\ Settled(k) * Window \in Int
  <2>1. \A k \in Keys : InFlight(k)' = InFlight(k)
    BY <1>1 DEF InFlight, Serving, Admitted
  <2> QED
    BY <1>1, <2>1, NothingSettled, ConstantFacts, Distributes
<1>3. Max * now' = Max * now + Max * 1 /\ Max * now \in Int
  BY <1>1, ConstantFacts, Distributes
<1>4. Known' = Known /\ \A k \in Known : heap[seen[k]].last \in Nat
  BY <1>1 DEF Known, Inv, TypeOK, Bucket
<1>5. ASSUME NEW k \in Keys PROVE PaidFor(k)' /\ HintHolds(k)'
  <2>1. HintHolds(k)'
    BY <1>1, <1>4 DEF ConformanceInv, HintHolds
  <2>2. CASE k \in Known
    BY <2>1, <2>2, <1>1, <1>2, <1>4 DEF ConformanceInv, PaidFor
  <2>3. CASE k \notin Known
    BY <2>1, <2>3, <1>1, <1>2, <1>3, <1>4, ConstantFacts DEF ConformanceInv, PaidFor
  <2> QED
    BY <2>2, <2>3
<1> QED
  BY <1>1, <1>5 DEF ConformanceInv, Admitted

\* A new admission has moved nothing.
LEMMA AdmitConforms ==
  ASSUME Inv, ConformanceInv, NEW h \in Handlers, NEW k \in Keys, NEW cap \in Caps, Admit(h, k, cap)
  PROVE  ConformanceInv'
<1> DEFINE bk == [Found(k) EXCEPT !.active = @ + 1]
           rec == [key |-> k, bucket |-> IdOf(k), cap |-> cap, moved |-> 0]
<1>1. /\ req[h] = Idle /\ Store(k, bk) /\ req' = [req EXCEPT ![h] = rec] /\ UNCHANGED <<now, moved, due>>
  BY DEF Admit
<1>2. bk \in Bucket /\ bk.credit = Found(k).credit /\ bk.last = Found(k).last
  BY FoundFacts DEF Bucket
<1> HIDE DEF bk
<1>3. \A j \in Keys : InFlight(j)' = InFlight(j)
  <2> SUFFICES ASSUME NEW j \in Keys, NEW g \in Handlers, NEW n \in 1..R
               PROVE  g \in Serving(j)' /\ n <= req'[g].moved <=> g \in Serving(j) /\ n <= req[g].moved
    BY ConstantFacts DEF InFlight
  <2>1. CASE g = h
    BY <2>1, <1>1, ConstantFacts DEF Serving, Admitted, Inv, TypeOK
  <2>2. CASE g # h
    BY <2>2, <1>1 DEF Serving, Admitted, Inv, TypeOK
  <2> QED
    BY <2>1, <2>2
<1>4. \A g \in Handlers : Admitted(g)' => req'[g].moved <= req'[g].cap
  <2>1. \A c \in Caps : 0 <= c
    BY BudgetAssumption
  <2> QED
    BY <1>1, <2>1 DEF ConformanceInv, Admitted, Inv, TypeOK
<1> HIDE DEF rec
<1> QED
  BY <1>1, <1>2, <1>3, <1>4, NothingSettled, StoreConforms

\* A refusal moves nothing, and its hint is enough.
LEMMA RefusalConforms ==
  ASSUME Inv, ConformanceInv, NEW h \in Handlers, NEW k \in Keys,
         RefuseBytes(h, k) \/ RefuseConcurrency(h, k)
  PROVE  ConformanceInv'
<1> DEFINE bk == Found(k)
<1>1. Store(k, bk) /\ UNCHANGED <<now, req, moved>> /\ bk \in Bucket
  BY FoundFacts DEF RefuseBytes, RefuseConcurrency
<1>2. \A j \in Keys : InFlight(j)' = InFlight(j)
  BY <1>1 DEF InFlight, Serving, Admitted
<1>3. \A j \in Keys : Settled(j)' = Settled(j)
  BY <1>1, <1>2, NothingSettled
<1>4. \A j \in Keys \ {k} : due'[j] = due[j]
  BY DEF RefuseBytes, RefuseConcurrency, Inv, TypeOK
<1>7. \A g \in Handlers : Admitted(g)' => req'[g].moved <= req'[g].cap
  BY <1>1 DEF ConformanceInv, Admitted
<1>5. CASE RefuseConcurrency(h, k)
  <2>1. due'[k] = due[k]
    BY <1>5 DEF RefuseConcurrency
  <2> HIDE DEF bk
  <2>2. bk.credit = Found(k).credit /\ bk.last = Found(k).last
    BY DEF bk
  <2> QED
    BY <1>1, <1>3, <1>4, <1>7, <2>1, <2>2, StoreConforms
<1>6. CASE RefuseBytes(h, k)
  <2>1. due'[k] = now + Second * RetryAfter(Wait(bk.credit))
    BY <1>6 DEF RefuseBytes, Inv, TypeOK
  <2>2. now \in Nat /\ bk.credit \in Int /\ bk.credit <= 0
    BY <1>1, <1>6 DEF RefuseBytes, HasCredit, Bucket, Inv, TypeOK
  <2>3. bk.credit = Found(k).credit /\ bk.last = Found(k).last
    OBVIOUS
  <2> HIDE DEF bk
  <2>4. due'[k] >= now /\ (bk.credit + Max * (due'[k] - now) > 0 \/ due'[k] > MaxTime)
    BY <2>1, <2>2, HintSuffices
  <2> QED
    BY <1>1, <1>3, <1>4, <1>7, <2>3, <2>4, StoreConforms
<1> QED
  BY <1>5, <1>6

\* A byte moved is a byte in flight.
LEMMA TransferConforms ==
  ASSUME Inv, ConformanceInv, NEW h \in Handlers, Transfer(h)
  PROVE  ConformanceInv'
<1>0. PICK k \in Keys, n \in 1..R : k = req[h].key /\ n = req[h].moved + 1 /\ n <= req[h].cap
  BY BudgetAssumption DEF Transfer, Admitted, Inv, TypeOK
<1>1. /\ req[h] \in [key : Keys, bucket : Ids, cap : Caps, moved : 0..R] /\ Admitted(h)
      /\ req' = [req EXCEPT ![h] = [req[h] EXCEPT !.moved = @ + 1]]
      /\ moved' = [moved EXCEPT ![k] = @ + 1]
      /\ UNCHANGED <<now, seen, heap, allocated, due>>
  BY <1>0 DEF Transfer, Admitted, Inv, TypeOK
<1>2. n \in Nat /\ R \in Nat /\ req[h].moved = n - 1
  BY <1>0, <1>1, ConstantFacts
<1>3. /\ req'[h].moved = n /\ req'[h].key = k /\ req'[h].bucket = req[h].bucket /\ req'[h].cap = req[h].cap
      /\ \A g \in Handlers \ {h} : req'[g] = req[g]
  BY <1>0, <1>1, <1>2 DEF Inv, TypeOK
<1>4. Admitted(h)'
  BY <1>1, <1>3 DEF Admitted, Idle, Ids, NoBucket
<1>5. moved'[k] = moved[k] + 1 /\ moved[k] \in Nat /\ \A j \in Keys \ {k} : moved'[j] = moved[j]
  BY <1>1 DEF Inv, TypeOK
<1>6. /\ \A j \in Keys : Serving(j)' = Serving(j)
      /\ h \in Serving(k) /\ \A j \in Keys \ {k} : h \notin Serving(j)
  BY <1>0, <1>1, <1>3, <1>4 DEF Serving, Admitted
<1>7. InFlight(k)' = InFlight(k) \cup {<<h, n>>}
  <2>1. ASSUME NEW g \in Handlers, NEW c \in 1..R
        PROVE  c <= req'[g].moved <=> c <= req[g].moved \/ (g = h /\ c = n)
    <3>1. CASE g = h
      BY <3>1, <1>2, <1>3
    <3>2. CASE g # h
      BY <3>2, <1>3
    <3> QED
      BY <3>1, <3>2
  <2> QED
    BY <1>0, <1>6, <2>1 DEF InFlight
<1>8. <<h, n>> \notin InFlight(k)
  BY <1>2 DEF InFlight
<1>9. \A j \in Keys \ {k} : InFlight(j)' = InFlight(j)
  BY <1>3, <1>6 DEF InFlight
<1>10. \A j \in Keys : Settled(j)' = Settled(j)
  <2>1. Cardinality(InFlight(k)') = Cardinality(InFlight(k)) + 1
    BY <1>7, <1>8, InFlightFinite, FS_AddElement
  <2>2. Settled(k)' = Settled(k)
    BY <1>5, <2>1, InFlightFinite DEF Settled
  <2> QED
    BY <1>5, <1>9, <2>2 DEF Settled
<1>11. \A g \in Handlers : Admitted(g)' => req'[g].moved <= req'[g].cap
  BY <1>0, <1>3 DEF ConformanceInv, Admitted
<1> QED
  BY <1>1, <1>10, <1>11 DEF ConformanceInv, PaidFor, HintHolds, Known

\* The bytes one handler has moved are as many as it says.
LEMMA OneHandlersBytes ==
  ASSUME NEW h, NEW m \in Nat
  PROVE  Cardinality({h} \X (1..m)) = m
<1>1. IsFiniteSet(1..m) /\ Cardinality(1..m) = m
  BY FS_Interval
<1>2. IsFiniteSet({h}) /\ Cardinality({h}) = 1
  BY FS_Singleton
<1>3. Cardinality({h} \X (1..m)) = Cardinality({h}) * Cardinality(1..m)
  BY <1>1, <1>2, FS_Product
<1> QED
  BY <1>1, <1>2, <1>3

\* What a handler settles is no less than what it had in flight.
LEMMA SettleConforms ==
  ASSUME Inv, ConformanceInv, NEW h \in Handlers, Admitted(h),
         NEW n \in 0..R, req[h].moved <= n, settle(h, n)
  PROVE  ConformanceInv'
<1>0. PICK k \in Keys, i \in Ids, m \in 0..R : k = req[h].key /\ i = req[h].bucket /\ m = req[h].moved
  BY DEF Inv, TypeOK, Admitted
<1> DEFINE bk == heap[i]
           new == [credit |-> balance(bk) - n * Window, last |-> now, active |-> bk.active - 1]
<1> USE ConstantFacts
<1>1. /\ seen[k] = i /\ k \in Known /\ h \in Serving(k) /\ bk \in Bucket
      /\ \A j \in Known \ {k} : seen[j] \in Ids /\ seen[j] # i
  <2>1. seen[k] = i /\ k \in Known /\ h \in Serving(k)
    BY <1>0 DEF Inv, AdmissionsKeepTheirBucket, Admitted, Serving, Known, Ids, NoBucket
  <2> QED
    BY <2>1, <1>0 DEF Inv, TypeOK, Known, BucketsSound
<1>2. /\ heap' = [heap EXCEPT ![i] = new] /\ req' = [req EXCEPT ![h] = Idle]
      /\ UNCHANGED <<now, seen, allocated, moved>> /\ due' = [due EXCEPT ![k] = 0]
  BY <1>0 DEF settle, Charged
<1>3. now \in Nat /\ bk.last \in Nat /\ bk.credit \in Int
  BY <1>1 DEF Inv, TypeOK, Bucket
<1>4. /\ Settled(k) * Window + bk.credit <= Full + Max * bk.last /\ bk.last <= now
      /\ Settled(k) \in Int
  BY <1>1, InFlightFinite DEF ConformanceInv, PaidFor, Settled, Inv, TypeOK
<1>5. balance(bk) <= bk.credit + (Max * now - Max * bk.last) /\ balance(bk) \in Int
  <2>1. balance(bk) = AtMost(Full, bk.credit + (Max * now - Max * bk.last))
    BY <1>1, <1>3, <1>4, BalanceIs
  <2>2. Max * now \in Int /\ Max * bk.last \in Int
    BY <1>3, Distributes
  <2> HIDE DEF bk
  <2> QED
    BY <2>1, <2>2, <1>3 DEF AtMost
<1>6. heap'[i] = new /\ new.credit = balance(bk) - n * Window /\ new.last = now
      /\ \A j \in Ids \ {i} : heap'[j] = heap[j]
  BY <1>0, <1>2 DEF Inv, TypeOK
<1> HIDE DEF new, bk
<1>7. Known' = Known /\ due'[k] = 0 /\ \A j \in Keys \ {k} : due'[j] = due[j]
  BY <1>2 DEF Known, Inv, TypeOK
<1>8. /\ InFlight(k)' = InFlight(k) \ ({h} \X (1..m))
      /\ InFlight(k) \cap ({h} \X (1..m)) = {h} \X (1..m)
  <2>1. \A g \in Handlers : g \in Serving(k)' <=> g \in Serving(k) /\ g # h
    BY <1>0, <1>2 DEF Serving, Admitted, Inv, TypeOK
  <2>2. \A g \in Handlers \ {h} : req'[g] = req[g]
    BY <1>2 DEF Inv, TypeOK
  <2>3. \A c \in 1..R : c <= m <=> c \in 1..m
    BY <1>0
  <2> QED
    BY <1>0, <1>1, <2>1, <2>2, <2>3 DEF InFlight
<1>9. \A j \in Keys \ {k} : InFlight(j)' = InFlight(j)
  <2> SUFFICES ASSUME NEW j \in Keys \ {k}, NEW g \in Handlers, NEW c \in 1..R
               PROVE  g \in Serving(j)' /\ c <= req'[g].moved <=> g \in Serving(j) /\ c <= req[g].moved
    BY DEF InFlight
  <2> QED
    BY <1>0, <1>2 DEF Serving, Admitted, Inv, TypeOK
<1>10. Settled(k)' = Settled(k) + m
  <2>1. m \in Nat
    BY <1>0
  <2>2. Cardinality({h} \X (1..m)) = m
    BY <2>1, OneHandlersBytes
  <2>3. Cardinality(InFlight(k)') = Cardinality(InFlight(k)) - Cardinality({h} \X (1..m))
    BY <1>8, InFlightFinite, FS_Difference
  <2>4. moved'[k] = moved[k] /\ moved[k] \in Nat
    BY <1>2 DEF Inv, TypeOK
  <2> QED
    BY <2>1, <2>2, <2>3, <2>4, InFlightFinite DEF Settled
<1>11. \A j \in Keys \ {k} : Settled(j)' = Settled(j)
  BY <1>2, <1>9 DEF Settled
<1>12. PaidFor(k)' /\ HintHolds(k)'
  <2>1. /\ Settled(k)' * Window = Settled(k) * Window + m * Window
        /\ Settled(k) * Window \in Int /\ m * Window \in Int /\ n * Window \in Int
        /\ Max * now \in Int /\ Max * bk.last \in Int
    BY <1>0, <1>3, <1>4, <1>10, Distributes
  <2>2. m * Window <= n * Window
    BY <1>0, Products
  <2>3. Settled(k)' * Window + new.credit <= Full + Max * now
    BY <2>1, <2>2, <1>3, <1>4, <1>5, <1>6
  <2>4. k \in Known' /\ heap'[seen'[k]] = new /\ now' = now
    BY <1>1, <1>2, <1>6, <1>7
  <2> QED
    BY <2>3, <2>4, <1>3, <1>6, <1>7 DEF PaidFor, HintHolds
<1>13. ASSUME NEW j \in Keys \ {k} PROVE PaidFor(j)' /\ HintHolds(j)'
  <2>1. j \in Known => heap'[seen'[j]] = heap[seen[j]]
    BY <1>1, <1>2, <1>6
  <2> QED
    BY <2>1, <1>2, <1>7, <1>11 DEF ConformanceInv, PaidFor, HintHolds
<1>14. \A g \in Handlers : Admitted(g)' => req'[g].moved <= req'[g].cap
  BY <1>2 DEF ConformanceInv, Admitted, Inv, TypeOK
<1> QED
  BY <1>12, <1>13, <1>14 DEF ConformanceInv

\* Every step keeps what the settled payload and the hints are worth.
LEMMA ConformanceInvariance == Spec => []ConformanceInv
<1>1. Init => ConformanceInv
  <2> SUFFICES ASSUME Init, NEW k \in Keys PROVE PaidFor(k) /\ HintHolds(k)
    BY DEF ConformanceInv, Init, Admitted
  <2>1. k \notin Known /\ moved[k] = 0 /\ now = 0
    BY DEF Init, Known
  <2>2. InFlight(k) = {}
    BY DEF Init, InFlight, Serving, Admitted
  <2>3. Settled(k) = 0
    BY <2>1, <2>2, FS_EmptySet DEF Settled
  <2>4. 0 * Window <= Max * 0
    BY ConstantFacts
  <2> QED
    BY <2>1, <2>3, <2>4 DEF PaidFor, HintHolds
<1>2. Inv /\ ConformanceInv /\ [Next]_vars => ConformanceInv'
  <2> SUFFICES ASSUME Inv, ConformanceInv, [Next]_vars PROVE ConformanceInv'
    OBVIOUS
  <2>1. CASE Tick
    BY <2>1, TickConforms
  <2>2. CASE \E h \in Handlers, k \in Keys, cap \in Caps : Admit(h, k, cap)
    BY <2>2, AdmitConforms
  <2>3. CASE \E h \in Handlers, k \in Keys : RefuseBytes(h, k) \/ RefuseConcurrency(h, k)
    BY <2>3, RefusalConforms
  <2>4. CASE \E h \in Handlers : Transfer(h)
    BY <2>4, TransferConforms
  <2>5. ASSUME NEW h \in Handlers, Return(h) PROVE ConformanceInv'
    <3>1. req[h].moved \in 0..R /\ req[h].moved <= req[h].moved /\ Admitted(h)
      BY <2>5, ConstantFacts DEF Return, Admitted, Inv, TypeOK
    <3> QED
      BY <2>5, <3>1, SettleConforms DEF Return
  <2>6. ASSUME NEW h \in Handlers, Panic(h) PROVE ConformanceInv'
    <3>0. Admitted(h) /\ req[h].cap \in Caps
      BY <2>6 DEF Panic, Admitted, Inv, TypeOK
    <3>3. Caps \subseteq 0..R
      BY BudgetAssumption
    <3>1. req[h].cap \in 0..R
      BY <3>0, <3>3
    <3>2. req[h].moved <= req[h].cap
      BY <3>0 DEF ConformanceInv
    <3> QED
      BY <2>6, <3>0, <3>1, <3>2, SettleConforms DEF Panic
  <2>7. CASE UNCHANGED vars
    BY <2>7 DEF vars, ConformanceInv, PaidFor, HintHolds, Settled, InFlight, Serving, Admitted, Known
  <2> QED
    BY <2>1, <2>2, <2>3, <2>4, <2>5, <2>6, <2>7 DEF Next
<1> QED
  BY <1>1, <1>2, Invariance, PTL DEF Spec

\* SRV-8 and SRV-12 over the whole run: for any clients, requests, refusals,
\* evictions and panics, the payload moved for a key is covered by one full
\* bucket, the refill of the elapsed time and Concurrency requests.
THEOREM BudgetIsConformedTo == Spec => []BudgetConformance
<1>1. Inv /\ ConformanceInv => BudgetConformance
  <2> SUFFICES ASSUME Inv, ConformanceInv, NEW k \in Keys
               PROVE  moved[k] * Window <= Full + Max * now + Concurrency * (R * Window)
    BY DEF BudgetConformance
  <2> USE ConstantFacts
  <2> DEFINE n == Cardinality(InFlight(k))
  <2>1. /\ n \in Nat /\ moved[k] \in Nat /\ now \in Nat /\ Settled(k) = moved[k] - n
        /\ Max * now \in Nat /\ Concurrency * Debt \in Nat
    BY InFlightFinite, Products DEF Settled, Inv, TypeOK
  <2>2. moved[k] * Window = Settled(k) * Window + n * Window /\ Settled(k) * Window \in Int /\ n * Window \in Int
    BY <2>1, Distributes
  <2>3. CASE k \notin Known
    <3>1. Serving(k) = {}
      BY <2>3, ServedFacts DEF Fresh, Known
    <3>2. n = 0
      BY <3>1, FS_EmptySet DEF InFlight
    <3>3. 0 * Window = 0
      OBVIOUS
    <3> HIDE DEF n
    <3> QED
      BY <2>1, <2>2, <2>3, <3>2, <3>3 DEF ConformanceInv, PaidFor, Debt
  <2>4. CASE k \in Known
    <3> DEFINE bk == heap[seen[k]]
               s == Cardinality(Serving(k))
    <3>1. /\ bk \in Bucket /\ bk.active = s /\ s \in Nat
          /\ bk.credit - bk.active * Debt > 0 - Concurrency * Debt
      BY <2>4, ServingFinite DEF Inv, TypeOK, Known, SlotsMatchHandlers, OvershootBound, Debt
    <3>2. bk.credit \in Int /\ bk.last \in Nat
      BY <3>1 DEF Bucket
    <3>3. Settled(k) * Window + bk.credit <= Full + Max * bk.last /\ bk.last <= now
      BY <2>4 DEF ConformanceInv, PaidFor
    <3>4. n <= s * R
      BY InFlightFinite
    <3> HIDE DEF n, bk, s
    <3>5. n * Window <= s * Debt /\ s * Debt \in Int
      <4>1. s * R \in Nat /\ n * Window <= (s * R) * Window
        BY <2>1, <3>1, <3>4, Products
      <4>2. (s * R) * Window = s * Debt
        BY <3>1 DEF Debt
      <4> QED
        BY <3>1, <4>1, <4>2, Distributes
    <3>6. Max * bk.last <= Max * now /\ Max * bk.last \in Int
      BY <2>1, <3>2, <3>3, Products
    <3> QED
      BY <2>1, <2>2, <3>1, <3>2, <3>3, <3>5, <3>6 DEF Debt
  <2> QED
    BY <2>3, <2>4
<1> QED
  BY <1>1, Invariance, ConformanceInvariance, PTL

\* A client that waits out the Retry-After of a byte refusal finds credit,
\* whatever the debt, the rounding and the evictions in between.
THEOREM HintsSuffice == Spec => []RetryAfterSuffices
<1>1. Inv /\ ConformanceInv => RetryAfterSuffices
  <2> SUFFICES ASSUME Inv, ConformanceInv, NEW k \in Known, due[k] # 0, now >= due[k]
               PROVE  balance(heap[seen[k]]) > 0
    BY DEF RetryAfterSuffices
  <2> USE ConstantFacts
  <2> DEFINE bk == heap[seen[k]]
  <2>1. k \in Keys /\ bk \in Bucket /\ now \in Nat /\ now <= MaxTime /\ due[k] \in Nat
    BY DEF Known, Inv, TypeOK
  <2>2. bk.last <= now
    BY <2>1 DEF ConformanceInv, PaidFor
  <2>3. bk.credit > 0 \/ (due[k] >= bk.last /\ bk.credit + Max * (due[k] - bk.last) > 0)
    BY <2>1 DEF ConformanceInv, HintHolds
  <2> HIDE DEF bk
  <2>4. bk.last \in Nat /\ bk.credit \in Int
    BY <2>1 DEF Bucket
  <2>5. balance(bk) = AtMost(Full, bk.credit + (Max * now - Max * bk.last))
    BY <2>1, <2>2, BalanceIs
  <2>6. Max * (due[k] - bk.last) = Max * due[k] - Max * bk.last
    BY <2>1, <2>4, Distributes
  <2>7. /\ Max * due[k] <= Max * now /\ Max * bk.last <= Max * now
        /\ Max * due[k] \in Int /\ Max * now \in Int /\ Max * bk.last \in Int
    BY <2>1, <2>2, <2>4, Products
  <2>8. balance(bk) > 0
    BY <2>3, <2>4, <2>5, <2>6, <2>7 DEF AtMost
  <2> QED
    BY <2>8 DEF bk
<1> QED
  BY <1>1, Invariance, ConformanceInvariance, PTL

(***************************************************************************)
(* The request path around the budget.                                     *)
(***************************************************************************)
\* The subjects a verified URL can name; the empty one is charged by address.
Named == Subjects \ (TooLong \cup {Empty})

Metered ==
  [stage : {"admit", "serve"}, cap : {R}, key : Keys,
   for : ({"address"} \X IPs) \cup ({"subject"} \X Named)]

\* The key of a metered request names whom the budget should charge.
KeyNamesClient(r) ==
  \/ r.key \in IPs /\ r.for = <<"address", r.key>>
  \/ \E s \in Named : r.key = Prefixed(s) /\ r.for = <<"subject", s>>

CallsSound ==
  \A h \in Handlers :
    \/ call[h] \in {NoCall, [stage |-> "unmetered"]}
    \/ call[h] \in Metered /\ KeyNamesClient(call[h])

\* Every URL was minted by a backend at some earlier tick.
WalletSound ==
  \A w \in wallet : \E key \in IssuerKeys, path \in DOMAIN Routes, ttl \in TTLs, sub \in Subjects, t \in Boot..Wall :
    w = [url |-> SignURL(key, path, t + skew + ttl, sub), ttl |-> ttl]

GuardInv ==
  /\ now \in 0..MaxTime /\ opt \in Configs /\ skew \in Skews
  /\ call \in [Handlers -> {NoCall, [stage |-> "unmetered"]} \cup Metered]
  /\ CallsSound /\ WalletSound

\* The four routes, of which the large ones are metered and the test ones
\* open to a signed URL.
LEMMA RouteFacts ==
  /\ DOMAIN Routes = {"config", "small", "large", "upload"}
  /\ \A r \in DOMAIN Routes : /\ Routes[r].cap \in {0, R}
                              /\ Routes[r].signed <=> r # "config"
BY DEF Routes

\* The parts of a request, whose URL is none or one minted, altered or not.
LEMMA RequestFacts ==
  ASSUME NEW q \in Requests
  PROVE  /\ q.route \in DOMAIN Routes /\ q.ip \in IPs
         /\ q.url # NoURL => \E w \in wallet : q.url \in Altered(w.url, q.route)
<1>1. PICK route \in DOMAIN Routes :
        q \in [route : {route}, method : {"GET", "POST"}, cred : {Empty, opt.token}, ip : IPs, url : Presented(route)]
  BY DEF Requests
<1>2. q.route = route /\ q.ip \in IPs /\ q.url \in Presented(route)
  BY <1>1
<1> QED
  BY <1>2 DEF Presented

\* What an altered URL keeps: its signature, and all that was not altered.
LEMMA AlteredFacts ==
  ASSUME NEW p, NEW e \in Int, NEW s, NEW g, NEW route,
         NEW u \in Altered([path |-> p, exp |-> e, sub |-> s, sig |-> g], route)
  PROVE  /\ u = [path |-> route, exp |-> u.exp, sub |-> u.sub, sig |-> g]
         /\ u.exp \in {e, e + 1} /\ u.sub \in {s, Empty}
BY DEF Altered

\* A URL whose signature verifies is one that was minted, with nothing altered:
\* the altered parameter differs from the one that was signed.
LEMMA SignatureBinds ==
  ASSUME GuardInv, NEW q \in Requests, Signed(q)
  PROVE  /\ Minted(q) /\ q.route # "config" /\ q.url.exp \in Int64
         /\ InWindow(UnixTime(q.url.exp), Wall)
         /\ q.url.sub \in Subjects \ TooLong
<1>1. /\ Routes[q.route].signed /\ q.url # NoURL /\ q.url.exp \in Int64
      /\ InWindow(UnixTime(q.url.exp), Wall) /\ q.url.sub \notin TooLong
      /\ \E key \in opt.keys : q.url.sig = <<key, q.url.path, q.url.exp, q.url.sub>>
  BY DEF Signed, verifySignature, signature
<1>2. q.route # "config"
  BY <1>1, RouteFacts, RequestFacts
<1>3. PICK w \in wallet : q.url \in Altered(w.url, q.route)
  BY <1>1, RequestFacts
<1>4. PICK key \in IssuerKeys, path \in DOMAIN Routes, ttl \in TTLs, sub \in Subjects, t \in Boot..Wall :
        w = [url |-> SignURL(key, path, t + skew + ttl, sub), ttl |-> ttl]
  BY DEF GuardInv, WalletSound
<1> DEFINE e == Unix(t + skew + ttl)
<1>5. w.url = [path |-> path, exp |-> e, sub |-> sub, sig |-> <<key, path, e, sub>>] /\ e \in Int
  <2>1. t + skew + ttl \in Int /\ Second \in Nat \ {0}
    BY GuardAssumption, BudgetAssumption DEF GuardInv, Wall
  <2>2. e \in Int
    BY <2>1 DEF Unix
  <2> QED
    BY <1>4, <2>2 DEF SignURL, signature
<1> HIDE DEF e
<1>6. /\ q.url.sig = <<key, path, e, sub>> /\ q.url.path = q.route
      /\ q.url = [path |-> q.route, exp |-> q.url.exp, sub |-> q.url.sub, sig |-> q.url.sig]
  BY <1>3, <1>5, AlteredFacts
<1>7. path = q.url.path /\ e = q.url.exp /\ sub = q.url.sub /\ key \in opt.keys
  BY <1>1, <1>6
<1>8. w.url = q.url /\ w.url.path = q.route /\ w.url.sig[1] \in opt.keys
  BY <1>5, <1>6, <1>7
<1> QED
  BY <1>1, <1>2, <1>7, <1>8 DEF Minted

\* The constants of the clock, in the form the provers use.
LEMMA ClockFacts ==
  /\ Boot \in Nat /\ Leeway \in Nat /\ MaxTTL \in Nat /\ Epoch \in Nat /\ MaxInt \in Nat
  /\ Second \in Nat \ {0} /\ MaxTime \in Nat /\ Leeway <= MaxInt
  /\ Second * (Epoch + 1) \in Nat /\ Second * MaxInt \in Nat
  /\ Boot + MaxTime + Leeway + MaxTTL + Second * (Epoch + 1) <= Second * MaxInt
  /\ Epoch < MaxInt
<1> USE GuardAssumption, BudgetAssumption
<1>1. Second * (Epoch + 1) \in Nat /\ Second * MaxInt \in Nat
  OBVIOUS
<1>2. MaxInt <= Epoch => MaxInt * Second <= Epoch * Second
  BY Products
<1>3. Second * (Epoch + 1) = Epoch * Second + Second /\ Second * MaxInt = MaxInt * Second
  <2>1. \A a, b \in Nat : a * (b + 1) = b * a + a /\ a * b = b * a
    OBVIOUS
  <2> QED
    BY <2>1
<1>4. Epoch * Second \in Nat /\ MaxInt * Second \in Nat
  OBVIOUS
<1> QED
  BY <1>1, <1>2, <1>3, <1>4

\* The sum of an expiry and the epoch wraps once at most.
LEMMA WrapFacts ==
  ASSUME NEW x \in Int
  PROVE  /\ x \in Int64 => Wrap(x) = x
         /\ x \in (MaxInt + 1)..(2 * MaxInt) => Wrap(x) = x - 2 * (MaxInt + 1)
<1>1. ASSUME NEW m \in Nat \ {0}, NEW y \in Int
      PROVE  /\ y >= 0 /\ y < m => y % m = y
             /\ y >= m /\ y < 2 * m => y % m = y - m
  BY <1>1
<1> DEFINE m == 2 * (MaxInt + 1)
           y == x + MaxInt + 1
<1>2. m \in Nat \ {0} /\ y \in Int
  BY ClockFacts
<1>3. Wrap(x) = (y % m) - MaxInt - 1
  BY DEF Wrap
<1>4. /\ y >= 0 /\ y < m => y % m = y
      /\ y >= m /\ y < 2 * m => y % m = y - m
  BY <1>1, <1>2
<1>5. x \in Int64 => y >= 0 /\ y < m
  BY ClockFacts DEF Int64
<1>6. x \in (MaxInt + 1)..(2 * MaxInt) => y >= m /\ y < 2 * m
  BY ClockFacts
<1>7. y = x + MaxInt + 1 /\ m = 2 * (MaxInt + 1)
  OBVIOUS
<1> HIDE DEF m, y
<1>8. x \in Int64 => Wrap(x) = y - MaxInt - 1
  BY <1>3, <1>4, <1>5
<1>9. x \in (MaxInt + 1)..(2 * MaxInt) => Wrap(x) = y - m - MaxInt - 1
  BY <1>3, <1>4, <1>6
<1> QED
  BY <1>7, <1>8, <1>9, ClockFacts

\* An expiry whose conversion does not wrap is what it says.
LEMMA UnixTimeExact ==
  ASSUME NEW e \in Int64, e + Epoch <= MaxInt
  PROVE  UnixTime(e) = Second * e
<1>1. e \in Int /\ e + Epoch \in Int64 /\ e + Epoch \in Int
  BY ClockFacts DEF Int64
<1>2. Wrap(e + Epoch) = e + Epoch
  BY <1>1, WrapFacts
<1>3. (e + Epoch) - Epoch = e
  BY <1>1, ClockFacts
<1> QED
  BY <1>2, <1>3 DEF UnixTime

\* An expiry that wraps has passed long ago, so within the window the
\* conversion is exact.
LEMMA WindowIsExact ==
  ASSUME NEW e \in Int64, NEW t \in Nat, InWindow(UnixTime(e), t)
  PROVE  UnixTime(e) = Second * e /\ Second * e \in Int
<1>1. e \in Int /\ Second * e \in Int
  BY ClockFacts DEF Int64
<1>2. CASE e + Epoch <= MaxInt
  BY <1>1, <1>2, UnixTimeExact
<1>3. CASE e + Epoch > MaxInt
  <2> DEFINE f == e - 2 * (MaxInt + 1)
  <2>1. PICK x \in Int : x = e + Epoch
    BY <1>1, ClockFacts
  <2>2. x \in (MaxInt + 1)..(2 * MaxInt)
    BY <2>1, <1>1, <1>3, ClockFacts DEF Int64
  <2>3. f \in Int /\ f < 0 - MaxInt - 1 /\ (x - 2 * (MaxInt + 1)) - Epoch = f
    BY <2>1, <1>1, ClockFacts DEF Int64
  <2>7. Wrap(x) = x - 2 * (MaxInt + 1)
    BY <2>2, WrapFacts
  <2>8. UnixTime(e) = Second * (Wrap(x) - Epoch)
    BY <2>1 DEF UnixTime
  <2>4. UnixTime(e) = Second * f
    BY <2>7, <2>8, <2>3
  <2> HIDE DEF f
  <2>5. Second * f <= f /\ Second * f \in Int
    <3>1. \A a \in Nat \ {0}, b \in Int : b < 0 => a * b <= b /\ a * b \in Int
      OBVIOUS
    <3> QED
      BY <3>1, <2>3, ClockFacts
  <2>6. ~(t > Second * f + Leeway)
    BY <2>4 DEF InWindow
  <2> QED
    BY <2>3, <2>5, <2>6, ClockFacts
<1> QED
  BY <1>1, <1>2, <1>3, ClockFacts


\* The guard's decision in a state of the invariant: the token, or a URL minted
\* for this route and valid in plain arithmetic.
LEMMA LetInIsEntitled ==
  ASSUME GuardInv, NEW q \in Requests, LetIn(q)
  PROVE  \/ opt = [token |-> Empty, keys |-> {}]
         \/ opt.token # Empty /\ q.cred = opt.token
         \/ q.route # "config" /\ Minted(q) /\ Valid(q.url, Wall)
<1>1. CASE ~Authed
  <2>1. opt = [token |-> opt.token, keys |-> opt.keys]
    BY GuardAssumption DEF GuardInv
  <2> QED
    BY <1>1, <2>1 DEF Authed
<1>2. CASE Bearer(q)
  BY <1>2 DEF Bearer
<1>3. CASE Signed(q)
  <2>1. /\ Minted(q) /\ q.route # "config" /\ q.url.exp \in Int64
        /\ InWindow(UnixTime(q.url.exp), Wall)
    BY <1>3, SignatureBinds
  <2>2. Wall \in Nat
    BY ClockFacts DEF GuardInv, Wall
  <2>3. PICK e \in Int64 : e = q.url.exp
    BY <2>1
  <2>4. InWindow(UnixTime(e), Wall)
    BY <2>1, <2>3
  <2>5. UnixTime(e) = Second * e /\ Second * e \in Int
    BY <2>2, <2>4, WindowIsExact
  <2>6. Second * e = e * Second
    <3>1. \A a \in Nat, b \in Int : a * b = b * a
      OBVIOUS
    <3> QED
      BY <3>1, ClockFacts DEF Int64
  <2>7. PICK x \in Int : x = e * Second
    BY <2>5, <2>6
  <2>8. ~(Wall > x + Leeway) /\ ~(x > Wall + MaxTTL + Leeway)
    BY <2>4, <2>5, <2>6, <2>7 DEF InWindow
  <2>9. Wall <= x + Leeway /\ x <= Wall + MaxTTL + Leeway
    BY <2>2, <2>8, ClockFacts
  <2>10. Valid(q.url, Wall)
    BY <2>3, <2>7, <2>9 DEF Valid
  <2> QED
    BY <2>1, <2>10
<1> QED
  BY <1>1, <1>2, <1>3 DEF LetIn, Authorised


\* Rounding down to seconds.
LEMMA Seconds ==
  ASSUME NEW x \in Int
  PROVE  Unix(x) \in Int /\ Second * Unix(x) \in Int /\ Second * Unix(x) <= x
<1>1. \A a \in Int, d \in Nat \ {0} : a \div d \in Int /\ d * (a \div d) \in Int /\ d * (a \div d) <= a
  OBVIOUS
<1> QED
  BY <1>1, ClockFacts DEF Unix

\* A bound on the product with a second bounds the factor.
LEMMA Cancels ==
  ASSUME NEW d \in Nat \ {0}, NEW a \in Int, NEW b \in Int
  PROVE  /\ d * a \in Int /\ d * b \in Int
         /\ d * a <= d * b => a <= b
         /\ a < 0 => d * a <= a
         /\ d * (a - b) = d * a - d * b
OBVIOUS


\* An expiry asked for within the leeway and the longest lifetime, on a URL not
\* yet expired for its issuer, is in the window of the server, and its
\* conversion does not wrap.
LEMMA HonestWindow ==
  ASSUME NEW t \in Boot..Wall, Wall \in Boot..(Boot + MaxTime), NEW k \in (0 - Leeway)..Leeway,
         NEW ttl \in Nat, ttl <= MaxTTL,
         NEW e \in Int, e = Unix(t + k + ttl), Wall + k <= e * Second
  PROVE  e \in Int64 /\ InWindow(UnixTime(e), Wall)
<1>1. /\ Boot \in Nat /\ t \in Nat /\ Wall \in Nat /\ k \in Int /\ t + k + ttl \in Int
      /\ t <= Wall /\ Wall <= Boot + MaxTime /\ 0 - Leeway <= k /\ k <= Leeway
  BY ClockFacts
<1>2. Second * e \in Int /\ Second * e <= t + k + ttl
  BY <1>1, Seconds
<1>3. Second * e = e * Second
  <2>1. \A a \in Nat, b \in Int : a * b = b * a
    OBVIOUS
  <2> QED
    BY <2>1, ClockFacts
<1>4. PICK x \in Int : x = Second * e
  BY <1>2
<1>5. x <= Wall + Leeway + MaxTTL /\ Wall - Leeway <= x
  BY <1>1, <1>2, <1>3, <1>4, ClockFacts
<1>6. e <= MaxInt - (Epoch + 1)
  <2>1. Second * (MaxInt - (Epoch + 1)) = Second * MaxInt - Second * (Epoch + 1)
    BY Cancels, ClockFacts
  <2>2. x <= Second * MaxInt - Second * (Epoch + 1)
    BY <1>1, <1>5, ClockFacts
  <2>3. MaxInt - (Epoch + 1) \in Int
    BY ClockFacts
  <2>4. Second * e <= Second * (MaxInt - (Epoch + 1))
    BY <2>1, <2>2, <1>4
  <2> QED
    BY <2>3, <2>4, Cancels, ClockFacts
<1>7. e >= 0 - MaxInt
  <2>1. e < 0 => x <= e
    BY <1>4, Cancels, ClockFacts
  <2> QED
    BY <2>1, <1>1, <1>5, ClockFacts
<1>8. e \in Int64 /\ e + Epoch <= MaxInt
  BY <1>6, <1>7, ClockFacts DEF Int64
<1>9. UnixTime(e) = x
  BY <1>4, <1>8, UnixTimeExact
<1>10. ~(Wall > x + Leeway) /\ ~(x > Wall + MaxTTL + Leeway)
  BY <1>1, <1>5, ClockFacts
<1> QED
  BY <1>8, <1>9, <1>10 DEF InWindow

\* An honest URL is accepted in every state of the invariant.
LEMMA HonestIsAuthorised ==
  ASSUME GuardInv, skew \in (0 - Leeway)..Leeway, NEW q \in Requests,
         Minted(q), q.route # "config", q.url.sub \notin TooLong,
         \E w \in wallet : w.url = q.url /\ w.ttl <= MaxTTL,
         Wall + skew <= q.url.exp * Second
  PROVE  Authorised(q)
<1>1. PICK w \in wallet : w.url = q.url /\ w.ttl <= MaxTTL
  OBVIOUS
<1>2. PICK key \in IssuerKeys, path \in DOMAIN Routes, ttl \in TTLs, sub \in Subjects, t \in Boot..Wall :
        w = [url |-> SignURL(key, path, t + skew + ttl, sub), ttl |-> ttl]
  BY DEF GuardInv, WalletSound
<1>3. /\ ttl \in Nat /\ t \in Int /\ skew \in Int /\ Wall \in Boot..(Boot + MaxTime)
      /\ t + skew + ttl \in Int
  BY GuardAssumption, ClockFacts DEF GuardInv, Wall
<1>4. PICK e \in Int : e = Unix(t + skew + ttl)
  BY <1>3, Seconds
<1>5. w.url = [path |-> path, exp |-> e, sub |-> sub, sig |-> <<key, path, e, sub>>] /\ w.ttl = ttl
  BY <1>2, <1>4 DEF SignURL, signature
<1>6. /\ q.url.path = path /\ q.url.exp = e /\ q.url.sub = sub
      /\ q.url.sig = <<key, path, e, sub>>
  BY <1>1, <1>5
<1>7. path = q.route /\ key \in opt.keys
  <2>1. q.url.path = q.route /\ q.url.sig[1] \in opt.keys
    BY DEF Minted
  <2> QED
    BY <2>1, <1>6
<1>8. Routes[q.route].signed /\ q.url # NoURL
  <2>1. q.route # "none"
    BY <1>7, RouteFacts
  <2> QED
    BY <2>1, <1>6, <1>7, RouteFacts DEF NoURL
<1>9. e \in Int64 /\ InWindow(UnixTime(e), Wall)
  BY <1>1, <1>3, <1>4, <1>5, <1>6, HonestWindow
<1>10. verifySignature(q.url, opt.keys, Wall)
  BY <1>6, <1>7, <1>9 DEF verifySignature, signature
<1> QED
  BY <1>8, <1>10 DEF Authorised, Signed


\* The bucket of a request that got in is that of the subject its URL was
\* signed for, or of its address.
LEMMA KeyOfRequest ==
  ASSUME GuardInv, NEW q \in Requests, LetIn(q),
         NEW r, r = [stage |-> "admit", cap |-> R, key |-> BudgetKey(q), for |-> Client(q)]
  PROVE  r \in Metered /\ KeyNamesClient(r)
<1>1. q.ip \in IPs /\ IPs \subseteq Keys
  BY RequestFacts, GuardAssumption
<1>2. CASE BudgetKey(q) = q.ip /\ Client(q) = <<"address", q.ip>>
  <2>1. <<"address", q.ip>> \in {"address"} \X IPs /\ q.ip \in Keys
    BY <1>1
  <2>2. r = [stage |-> "admit", cap |-> R, key |-> q.ip, for |-> <<"address", q.ip>>]
    BY <1>2
  <2> QED
    BY <1>1, <2>1, <2>2 DEF Metered, KeyNamesClient
<1>3. CASE Authed /\ ~Bearer(q) /\ q.url.sub # Empty
  <2>1. Signed(q)
    BY <1>3 DEF LetIn, Authorised
  <2>2. PICK s \in Named : s = q.url.sub
    BY <1>3, <2>1, SignatureBinds DEF Named
  <2>3. Prefixed(s) \in Keys
    BY <2>2, GuardAssumption DEF Named
  <2>4. BudgetKey(q) = Prefixed(s) /\ Client(q) = <<"subject", s>>
    BY <1>3, <2>2 DEF BudgetKey, SubjectKey, Client, Bearer
  <2>5. <<"subject", s>> \in {"subject"} \X Named
    OBVIOUS
  <2>6. r = [stage |-> "admit", cap |-> R, key |-> Prefixed(s), for |-> <<"subject", s>>]
    BY <2>4
  <2> QED
    BY <2>3, <2>5, <2>6 DEF Metered, KeyNamesClient
<1> QED
  BY <1>2, <1>3 DEF BudgetKey, Client, Bearer

\* It holds before the first request.
LEMMA GuardInitEstablishes == GuardInit => GuardInv
BY ConstantFacts DEF GuardInit, Init, GuardInv, CallsSound, WalletSound

\* Every step of the guard takes the budget through one of its own steps, or
\* leaves it alone.
LEMMA GuardTakesBudgetSteps ==
  ASSUME GuardInv, [GuardNext]_gvars
  PROVE  [Next]_vars
<1>1. ASSUME NEW h \in Handlers, Admission(h) PROVE Next
  <2>1. call[h] \in Metered
    BY <1>1 DEF Admission, GuardInv, CallsSound, NoCall
  <2>2. call[h].key \in Keys /\ call[h].cap \in Caps
    BY <2>1, GuardAssumption DEF Metered
  <2> QED
    BY <1>1, <2>2 DEF Admission, Next
<1>2. ASSUME NEW h \in Handlers, Serve(h) PROVE Next
  BY <1>2 DEF Serve, Next
<1>3. ASSUME NEW h \in Handlers, Refuse(h) \/ Arrive(h) \/ Reply(h) PROVE UNCHANGED vars
  BY <1>3 DEF Refuse, Arrive, Reply, gvars, vars
<1>4. GuardTick => Next
  BY DEF GuardTick, Next
<1>5. Mint \/ UNCHANGED gvars => UNCHANGED vars
  BY DEF Mint, gvars, vars
<1> QED
  BY <1>1, <1>2, <1>3, <1>4, <1>5 DEF GuardNext

\* Time does not run backwards, and only a tick moves it.
LEMMA ClockKeeps ==
  ASSUME GuardInv, [Next]_vars
  PROVE  now' \in 0..MaxTime /\ now <= now'
BY ConstantFacts
   DEF GuardInv, Next, vars, Tick, Admit, RefuseBytes, RefuseConcurrency, Transfer, Return, Panic, settle, Store

\* A range that ends later.
LEMMA LongerRange ==
  ASSUME NEW b \in Nat, NEW x \in Nat, NEW y \in Nat, x <= y
  PROVE  b..b + x \subseteq b..b + y
OBVIOUS

\* What was minted stays minted, whatever the clock says now.
LEMMA WalletKeeps ==
  ASSUME WalletSound, now \in 0..MaxTime, now' \in 0..MaxTime, now <= now',
         UNCHANGED <<wallet, skew>>
  PROVE  WalletSound'
<1>1. Boot \in Nat /\ MaxTime \in Nat
  BY ClockFacts
<1>2. Boot..Wall \subseteq Boot..(Wall')
  <2>1. PICK b \in Nat, m \in Nat : b = Boot /\ m = MaxTime
    BY <1>1
  <2>2. PICK x \in Nat, y \in Nat : x = now /\ y = now' /\ x <= y
    BY <1>1
  <2>3. b..b + x \subseteq b..b + y
    BY <2>2, LongerRange
  <2> QED
    BY <2>1, <2>2, <2>3 DEF Wall
<1> QED
  BY <1>2 DEF WalletSound

\* Calls stay sound when one of them is replaced by a sound one.
LEMMA CallsKeep ==
  ASSUME GuardInv, NEW h \in Handlers, NEW r, call' = [call EXCEPT ![h] = r],
         r \in {NoCall, [stage |-> "unmetered"]} \/ (r \in Metered /\ KeyNamesClient(r))
  PROVE  /\ (call \in [Handlers -> {NoCall, [stage |-> "unmetered"]} \cup Metered])'
         /\ CallsSound'
<1>1. call' \in [Handlers -> {NoCall, [stage |-> "unmetered"]} \cup Metered]
  BY DEF GuardInv
<1>2. \A g \in Handlers : call'[g] = IF g = h THEN r ELSE call[g]
  BY DEF GuardInv
<1>3. CallsSound'
  BY <1>2 DEF GuardInv, CallsSound, KeyNamesClient
<1> QED
  BY <1>1, <1>3 DEF Metered, NoCall


\* Discovery signs its URL with its own address, at the clock of its host.
LEMMA MintKeeps == ASSUME GuardInv, Mint PROVE GuardInv'
<1>1. PICK key \in IssuerKeys, path \in DOMAIN Routes, ttl \in TTLs, sub \in Subjects :
        wallet' = wallet \cup
          {[url |-> SignURL(key, path, Wall + skew + ttl, sub), ttl |-> ttl]}
  BY DEF Mint
<1>2. UNCHANGED <<now, opt, skew, call>>
  BY DEF Mint, vars
<1>3. Wall \in Boot..Wall /\ Wall' = Wall
  BY <1>2, ClockFacts DEF GuardInv, Wall
<1>4. WalletSound'
  <2> SUFFICES ASSUME NEW w \in wallet'
               PROVE  \E k \in IssuerKeys, p \in DOMAIN Routes, d \in TTLs, s \in Subjects, t \in Boot..Wall :
                        w = [url |-> SignURL(k, p, t + skew + d, s), ttl |-> d]
    BY <1>2, <1>3 DEF WalletSound
  <2>1. CASE w \in wallet
    BY <2>1 DEF GuardInv, WalletSound
  <2>2. CASE w = [url |-> SignURL(key, path, Wall + skew + ttl, sub), ttl |-> ttl]
    BY <2>2, <1>3
  <2> QED
    BY <1>1, <2>1, <2>2
<1> QED
  BY <1>2, <1>4 DEF GuardInv, CallsSound, Metered, Named, KeyNamesClient, NoCall

\* A request arrives with a URL that was handed out, altered or not.
LEMMA ArriveKeeps == ASSUME GuardInv, NEW h \in Handlers, Arrive(h) PROVE GuardInv'
<1>1. UNCHANGED <<now, opt, skew, wallet>>
  BY DEF Arrive, vars, Outside
<1>2. PICK q \in Requests :
        /\ LetIn(q)
        /\ call' = [call EXCEPT ![h] =
             IF Routes[q.route].cap = 0 THEN [stage |-> "unmetered"]
             ELSE [stage |-> "admit", cap |-> Routes[q.route].cap,
                   key |-> BudgetKey(q), for |-> Client(q)]]
  BY DEF Arrive
<1>3. Routes[q.route].cap \in {0, R}
  BY RequestFacts, RouteFacts
<1>4. PICK r : r = [stage |-> "admit", cap |-> R, key |-> BudgetKey(q), for |-> Client(q)]
  OBVIOUS
<1>5. r \in Metered /\ KeyNamesClient(r)
  BY <1>2, <1>4, KeyOfRequest
<1>6. call' = [call EXCEPT ![h] = [stage |-> "unmetered"]] \/ call' = [call EXCEPT ![h] = r]
  BY <1>2, <1>3, <1>4
<1>7. /\ (call \in [Handlers -> {NoCall, [stage |-> "unmetered"]} \cup Metered])'
      /\ CallsSound'
  BY <1>5, <1>6, CallsKeep
<1>8. WalletSound'
  BY <1>1, WalletKeeps, ClockFacts DEF GuardInv
<1> QED
  BY <1>1, <1>7, <1>8 DEF GuardInv

\* A handler forgets its call, or goes on to serve it under the same key.
LEMMA ProgressKeeps ==
  ASSUME GuardInv, NEW h \in Handlers, Admission(h) \/ Serve(h) \/ Reply(h)
  PROVE  GuardInv'
<1>1. UNCHANGED <<opt, skew, wallet>>
  BY DEF Admission, Serve, Reply, Outside
<1>2. [Next]_vars
  BY GuardTakesBudgetSteps DEF GuardNext
<1>3. now' \in 0..MaxTime /\ now <= now'
  BY <1>2, ClockKeeps
<1>4. WalletSound'
  BY <1>1, <1>3, WalletKeeps DEF GuardInv
<1>5. /\ (call \in [Handlers -> {NoCall, [stage |-> "unmetered"]} \cup Metered])'
      /\ CallsSound'
  <2>1. CASE Forget(h)
    BY <2>1, CallsKeep DEF Forget
  <2>2. CASE UNCHANGED call
    BY <2>2 DEF GuardInv, CallsSound, Metered, Named, KeyNamesClient, NoCall
  <2>3. CASE Admission(h) /\ call' = [call EXCEPT ![h].stage = "serve"]
    <3>1. call[h] \in Metered /\ KeyNamesClient(call[h])
      BY <2>3 DEF Admission, GuardInv, CallsSound, NoCall
    <3>2. PICK c \in Metered : c = call[h]
      BY <3>1
    <3>3. PICK r : r = [stage |-> "serve", cap |-> c.cap, key |-> c.key, for |-> c.for]
      OBVIOUS
    <3>4. r \in Metered
      BY <3>3 DEF Metered
    <3>5. r.key = c.key /\ r.for = c.for
      BY <3>3
    <3>6. KeyNamesClient(r)
      BY <3>1, <3>2, <3>5 DEF KeyNamesClient
    <3>7. call' = [call EXCEPT ![h] = r]
      <4>1. [c EXCEPT !.stage = "serve"] = r
        BY <3>2, <3>3 DEF Metered
      <4> QED
        BY <2>3, <3>2, <4>1
    <3> QED
      BY <3>4, <3>6, <3>7, CallsKeep
  <2> QED
    BY <2>1, <2>2, <2>3 DEF Admission, Serve, Reply
<1> QED
  BY <1>1, <1>3, <1>4, <1>5 DEF GuardInv

\* Every reachable state of the request path satisfies it.
LEMMA GuardInvariance == GuardSpec => []GuardInv
<1>1. ASSUME GuardInv, [GuardNext]_gvars PROVE GuardInv'
  <2>1. CASE GuardTick
    <3>1. now' \in 0..MaxTime /\ now <= now' /\ UNCHANGED <<opt, skew, wallet, call>>
      BY <2>1, <1>1, ClockKeeps, GuardTakesBudgetSteps DEF GuardTick
    <3>2. WalletSound'
      BY <1>1, <3>1, WalletKeeps DEF GuardInv
    <3> QED
      BY <1>1, <3>1, <3>2 DEF GuardInv, CallsSound, Metered, Named, KeyNamesClient, NoCall
  <2>2. CASE UNCHANGED gvars
    BY <1>1, <2>2
       DEF gvars, GuardInv, WalletSound, Wall, CallsSound, Metered, Named, KeyNamesClient, NoCall
  <2>3. ASSUME NEW h \in Handlers, Refuse(h) PROVE UNCHANGED gvars
    BY <2>3 DEF Refuse
  <2> QED
    BY <1>1, <2>1, <2>2, <2>3, MintKeeps, ArriveKeeps, ProgressKeeps DEF GuardNext
<1> QED
  BY <1>1, GuardInitEstablishes, PTL DEF GuardSpec

(***************************************************************************)
(* The request path keeps the budget: every behaviour of the guard is one  *)
(* of the client budget, so all that is proved of Spec above holds of the  *)
(* whole path.  The only keys and caps it admits with are the budget's.    *)
(***************************************************************************)
THEOREM GuardKeepsBudget == GuardSpec => Spec
<1>1. GuardInit => Init
  BY DEF GuardInit
<1>2. GuardInv /\ [GuardNext]_gvars => [Next]_vars
  BY GuardTakesBudgetSteps
<1> QED
  BY <1>1, <1>2, GuardInvariance, PTL DEF GuardSpec, Spec

(***************************************************************************)
(* Whoever gets past the guard of a server that asks for credentials holds *)
(* the token, or a URL minted for that route under a key still accepted,   *)
(* within its lifetime and the leeway in exact arithmetic, whatever the    *)
(* 64-bit conversion of the expiry did (server/sign.go verifySignature).   *)
(***************************************************************************)
THEOREM OnlyEntitledServed == GuardSpec => []ServedWereEntitled
<1>1. GuardInv => ServedWereEntitled
  BY LetInIsEntitled DEF ServedWereEntitled
<1> QED
  BY <1>1, GuardInvariance, PTL

(***************************************************************************)
(* A URL asked for within the longest lifetime, by an issuer whose clock   *)
(* is within the leeway of the server's, opens its route until it expires  *)
(* by the issuer's clock.                                                  *)
(***************************************************************************)
THEOREM HonestURLsOpen == GuardSpec => []HonestURLsAccepted
<1>1. GuardInv => HonestURLsAccepted
  BY HonestIsAuthorised DEF HonestURLsAccepted
<1> QED
  BY <1>1, GuardInvariance, PTL

(***************************************************************************)
(* Two metered requests share a bucket exactly when the budget should      *)
(* charge one client for both: server.go's "sub:" prefix keeps a subject   *)
(* apart from every address, and no key is made for the empty subject.     *)
(***************************************************************************)
THEOREM BucketsAreApart == GuardSpec => []BucketsAreNotShared
<1>1. GuardInv => BucketsAreNotShared
  <2> SUFFICES ASSUME GuardInv, NEW g \in Handlers, NEW h \in Handlers,
                      call[g].stage \in {"admit", "serve"}, call[h].stage \in {"admit", "serve"}
               PROVE  call[g].key = call[h].key <=> call[g].for = call[h].for
    BY DEF BucketsAreNotShared
  <2>1. KeyNamesClient(call[g]) /\ KeyNamesClient(call[h])
    BY DEF GuardInv, CallsSound, NoCall
  <2>2. \A s, t \in Named : Prefixed(s) \notin IPs /\ (Prefixed(s) = Prefixed(t) => s = t)
    BY GuardAssumption DEF Named
  <2> QED
    BY <2>1, <2>2 DEF KeyNamesClient
<1> QED
  BY <1>1, GuardInvariance, PTL
=============================================================================
