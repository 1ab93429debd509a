------------------------ MODULE OwnedTransportProofs ------------------------
(***************************************************************************)
(* Proofs about transport teardown for any number of dials of either kind, *)
(* and about the address sets those dials fill.                            *)
(***************************************************************************)
EXTENDS Transport, TLAPS

\* Only a connection that arrived is in the map, listed, handed over or
\* being closed, and a finished Close has closed it.
ArrivedOnly ==
  /\ \A d \in conns \cup todo \cup handed : socket[d] \in {"open", "closed"}
  /\ \A d \in Dials, g \in Callers :
       /\ call[d][g] # "idle" => socket[d] \in {"open", "closed"}
       /\ call[d][g] = "done" => socket[d] = "closed"

\* A wrapped connection past forget is not in the map.
ForgottenFirst ==
  \A d \in Wrapped, g \in Callers : call[d][g] \in {"close", "done"} => d \notin conns

\* The list is empty outside the loop, and closed is the latch of the snapshot.
LoopSound ==
  /\ closed <=> teardown \in {"closing", "returned"}
  /\ teardown # "closing" => todo = {}
  /\ teardown # "closing" => \A d \in Dials : call[d]["closeAll"] \in {"idle", "done"}

\* From the snapshot on, an open socket is listed or being closed.
SnapshotComplete ==
  closed => \A d \in Dials : socket[d] = "open" => d \in todo \/ BeingClosed(d)

Inv ==
  /\ TypeOK /\ ArrivedOnly /\ ForgottenFirst /\ LoopSound /\ SnapshotComplete
  /\ OpenIsTracked /\ ClosedIsForgotten

\* Nothing is open at the start.
LEMMA InitEstablishes == Init => Inv
<1> SUFFICES ASSUME Init PROVE Inv
  OBVIOUS
<1>1. TypeOK
  BY DEF Init, TypeOK
<1>2. ArrivedOnly /\ ForgottenFirst
  BY DEF Init, ArrivedOnly, ForgottenFirst, Dials
<1>3. LoopSound
  BY DEF Init, LoopSound, Callers
<1>4. SnapshotComplete /\ OpenIsTracked /\ ClosedIsForgotten
  BY DEF Init, SnapshotComplete, OpenIsTracked, ClosedIsForgotten, Dials
<1> QED
  BY <1>1, <1>2, <1>3, <1>4 DEF Inv

\* The dial itself concerns no connection.
LEMMA DialKeeps ==
  ASSUME Inv, NEW d \in Dials, Dial(d) \/ DialOk(d) \/ DialFails(d)
  PROVE  Inv'
<1>1. PICK s \in {"dialing", "dialled", "failed"} :
        /\ socket' = [socket EXCEPT ![d] = s] /\ socket[d] \notin {"open", "closed"}
        /\ UNCHANGED <<handed, conns, closed, todo, teardown, call>>
  BY DEF Dial, DialOk, DialFails
<1>2. TypeOK'
  BY <1>1 DEF Inv, TypeOK
<1>3. \A e \in Dials : socket'[e] = socket[e] \/ (e = d /\ socket'[e] \notin {"open", "closed"})
  BY <1>1 DEF Inv, TypeOK
<1>4. ArrivedOnly'
  BY <1>1, <1>3 DEF Inv, TypeOK, ArrivedOnly
<1>5. ForgottenFirst' /\ LoopSound'
  BY <1>1 DEF Inv, ForgottenFirst, LoopSound
<1>6. \A e \in Dials : BeingClosed(e)' <=> BeingClosed(e)
  BY <1>1 DEF BeingClosed
<1>7. SnapshotComplete' /\ OpenIsTracked' /\ ClosedIsForgotten'
  BY <1>1, <1>3, <1>6 DEF Inv, SnapshotComplete, OpenIsTracked, ClosedIsForgotten, Dials
<1> QED
  BY <1>2, <1>4, <1>5, <1>7 DEF Inv

\* Beginning a Close of a connection that has arrived.
LEMMA BeginFacts ==
  ASSUME Inv, NEW d \in Dials, NEW g \in Callers, call' = Begin(d, g)
  PROVE  /\ call' \in [Dials -> [Callers -> {"idle", "forget", "close", "done"}]]
         /\ BeingClosed(d)' /\ \A e \in Dials : BeingClosed(e) => BeingClosed(e)'
         /\ \A e \in Dials, h \in Callers : call'[e][h] = call[e][h] \/ (e = d /\ h = g)
         /\ d \in Wrapped => call'[d][g] = "forget"
         /\ call'[d][g] \in {"forget", "close"}
<1>1. call \in [Dials -> [Callers -> {"idle", "forget", "close", "done"}]]
  BY DEF Inv, TypeOK
<1>2. PICK s \in {"forget", "close"} : call' = [call EXCEPT ![d][g] = s] /\ (d \in Wrapped => s = "forget")
  BY DEF Begin
<1>3. call' \in [Dials -> [Callers -> {"idle", "forget", "close", "done"}]] /\ call'[d][g] = s
  BY <1>1, <1>2
<1>4. \A e \in Dials, h \in Callers : call'[e][h] = call[e][h] \/ (e = d /\ h = g)
  BY <1>1, <1>2
<1>5. BeingClosed(d)'
  BY <1>3 DEF BeingClosed
<1>6. \A e \in Dials : BeingClosed(e) => BeingClosed(e)'
  BY <1>4, <1>5 DEF BeingClosed
<1> QED
  BY <1>2, <1>3, <1>4, <1>5, <1>6

\* track files the connection, or closes it on arrival.
LEMMA TrackKeeps == ASSUME Inv, NEW d \in Dials, track(d) PROVE Inv'
<1>0. /\ socket[d] = "dialled" /\ socket' = [socket EXCEPT ![d] = "open"]
      /\ UNCHANGED <<closed, todo, teardown>> /\ closed \in BOOLEAN
  BY DEF track, Inv, TypeOK
<1>1. socket' \in [Dials -> {"none", "dialing", "dialled", "failed", "open", "closed"}] /\ socket'[d] = "open"
  BY <1>0 DEF Inv, TypeOK
<1>2. \A e \in Dials : e # d => socket'[e] = socket[e]
  BY <1>0 DEF Inv, TypeOK
<1>3. /\ \A g \in Callers : call[d][g] = "idle"
      /\ d \notin conns /\ d \notin todo /\ d \notin handed
  BY <1>0 DEF Inv, ArrivedOnly
<1>4. CASE ~closed
  <2>1. conns' = conns \cup {d} /\ handed' = handed \cup {d} /\ call' = call
    BY <1>4 DEF track
  <2>2. TypeOK'
    BY <1>0, <1>1, <2>1 DEF Inv, TypeOK
  <2>3. ArrivedOnly'
    BY <1>0, <1>1, <1>2, <1>3, <2>1 DEF Inv, TypeOK, ArrivedOnly
  <2>4. ForgottenFirst' /\ LoopSound'
    BY <1>0, <1>3, <2>1 DEF Inv, ForgottenFirst, LoopSound
  <2>5. \A e \in Dials : BeingClosed(e)' <=> BeingClosed(e)
    BY <2>1 DEF BeingClosed
  <2>6. SnapshotComplete' /\ OpenIsTracked' /\ ClosedIsForgotten'
    BY <1>0, <1>1, <1>2, <1>4, <2>1, <2>5 DEF Inv, SnapshotComplete, OpenIsTracked, ClosedIsForgotten, Dials
  <2> QED
    BY <2>2, <2>3, <2>4, <2>6 DEF Inv
<1>5. CASE closed
  <2>1. call' = Begin(d, "late") /\ UNCHANGED <<conns, handed>> /\ call[d]["late"] = "idle" /\ "late" \in Callers
    BY <1>3, <1>5 DEF track, Callers
  <2>2. /\ call' \in [Dials -> [Callers -> {"idle", "forget", "close", "done"}]]
        /\ BeingClosed(d)' /\ \A e \in Dials : BeingClosed(e) => BeingClosed(e)'
        /\ \A e \in Dials, h \in Callers : call'[e][h] = call[e][h] \/ (e = d /\ h = "late")
        /\ call'[d]["late"] \in {"forget", "close"} /\ (d \in Wrapped => call'[d]["late"] = "forget")
    BY <2>1, BeginFacts
  <2>3. TypeOK'
    BY <1>0, <1>1, <2>1, <2>2 DEF Inv, TypeOK
  <2>4. ArrivedOnly'
    BY <1>0, <1>1, <1>2, <1>3, <2>1, <2>2 DEF Inv, TypeOK, ArrivedOnly
  <2>5. ForgottenFirst'
    BY <1>3, <2>1, <2>2 DEF Inv, ForgottenFirst, Dials
  <2>6. LoopSound'
    BY <1>0, <2>1, <2>2 DEF Inv, LoopSound, Callers
  <2>7. SnapshotComplete' /\ OpenIsTracked' /\ ClosedIsForgotten'
    BY <1>0, <1>1, <1>2, <2>1, <2>2 DEF Inv, SnapshotComplete, OpenIsTracked, ClosedIsForgotten, Dials
  <2> QED
    BY <2>3, <2>4, <2>5, <2>6, <2>7 DEF Inv
<1> QED
  BY <1>0, <1>4, <1>5

\* The late connection reaches net/http closed.
LEMMA HandOverKeeps ==
  ASSUME Inv, NEW d \in Dials, HandOverLate(d)
  PROVE  Inv' /\ socket'[d] = "closed" /\ handed' = handed \cup {d}
<1>1. /\ call[d]["late"] = "done" /\ handed' = handed \cup {d} /\ "late" \in Callers
      /\ UNCHANGED <<socket, conns, closed, todo, teardown, call>>
  BY DEF HandOverLate, Callers
<1>2. socket[d] = "closed"
  BY <1>1 DEF Inv, ArrivedOnly
<1>3. TypeOK' /\ ArrivedOnly'
  BY <1>1, <1>2 DEF Inv, TypeOK, ArrivedOnly
<1>4. ForgottenFirst' /\ LoopSound' /\ ClosedIsForgotten'
  BY <1>1 DEF Inv, ForgottenFirst, LoopSound, ClosedIsForgotten
<1>5. \A e \in Dials : BeingClosed(e)' <=> BeingClosed(e)
  BY <1>1 DEF BeingClosed
<1>6. SnapshotComplete' /\ OpenIsTracked'
  BY <1>1, <1>5 DEF Inv, SnapshotComplete, OpenIsTracked
<1> QED
  BY <1>1, <1>2, <1>3, <1>4, <1>6 DEF Inv

\* net/http begins to close a connection it holds.
LEMMA HttpCloseKeeps == ASSUME Inv, NEW d \in Dials, HttpClose(d) PROVE Inv'
<1>1. /\ d \in handed /\ call[d]["http"] = "idle" /\ call' = Begin(d, "http") /\ "http" \in Callers
      /\ UNCHANGED <<socket, handed, conns, closed, todo, teardown>>
  BY DEF HttpClose, Callers
<1>2. /\ call' \in [Dials -> [Callers -> {"idle", "forget", "close", "done"}]]
      /\ BeingClosed(d)' /\ \A e \in Dials : BeingClosed(e) => BeingClosed(e)'
      /\ \A e \in Dials, h \in Callers : call'[e][h] = call[e][h] \/ (e = d /\ h = "http")
      /\ call'[d]["http"] \in {"forget", "close"} /\ (d \in Wrapped => call'[d]["http"] = "forget")
  BY <1>1, BeginFacts
<1>3. TypeOK'
  BY <1>1, <1>2 DEF Inv, TypeOK
<1>4. ArrivedOnly' /\ ForgottenFirst'
  BY <1>1, <1>2 DEF Inv, ArrivedOnly, ForgottenFirst, Dials
<1>5. LoopSound'
  BY <1>1, <1>2 DEF Inv, LoopSound, Callers
<1>6. SnapshotComplete' /\ OpenIsTracked' /\ ClosedIsForgotten'
  BY <1>1, <1>2 DEF Inv, SnapshotComplete, OpenIsTracked, ClosedIsForgotten
<1> QED
  BY <1>3, <1>4, <1>5, <1>6 DEF Inv

\* A wrapped connection leaves the map before its socket is closed.
LEMMA ForgetKeeps == ASSUME Inv, NEW d \in Dials, NEW g \in Callers, forget(d, g) PROVE Inv'
<1>1. /\ call[d][g] = "forget" /\ conns' = conns \ {d} /\ call' = [call EXCEPT ![d][g] = "close"]
      /\ UNCHANGED <<socket, handed, closed, todo, teardown>>
  BY DEF forget, Forgotten
<1>2. /\ call' \in [Dials -> [Callers -> {"idle", "forget", "close", "done"}]]
      /\ call'[d][g] = "close"
      /\ \A e \in Dials, h \in Callers : call'[e][h] = call[e][h] \/ (e = d /\ h = g)
  BY <1>1 DEF Inv, TypeOK
<1>3. TypeOK'
  BY <1>1, <1>2 DEF Inv, TypeOK
<1>4. ArrivedOnly'
  BY <1>1, <1>2 DEF Inv, ArrivedOnly
<1>5. ForgottenFirst'
  BY <1>1, <1>2 DEF Inv, ForgottenFirst, Dials
<1>6. LoopSound'
  BY <1>1, <1>2 DEF Inv, LoopSound, Callers
<1>7. BeingClosed(d)' /\ \A e \in Dials : BeingClosed(e) => BeingClosed(e)'
  BY <1>2 DEF BeingClosed
<1>8. SnapshotComplete' /\ OpenIsTracked' /\ ClosedIsForgotten'
  BY <1>1, <1>7 DEF Inv, SnapshotComplete, OpenIsTracked, ClosedIsForgotten
<1> QED
  BY <1>3, <1>4, <1>5, <1>6, <1>8 DEF Inv

\* The socket is closed.
LEMMA ConnCloseKeeps == ASSUME Inv, NEW d \in Dials, NEW g \in Callers, ConnClose(d, g) PROVE Inv'
<1>1. /\ call[d][g] = "close" /\ socket' = [socket EXCEPT ![d] = "closed"]
      /\ call' = [call EXCEPT ![d][g] = "done"]
      /\ UNCHANGED <<handed, conns, closed, todo, teardown>>
  BY DEF ConnClose
<1>2. /\ call' \in [Dials -> [Callers -> {"idle", "forget", "close", "done"}]]
      /\ call'[d][g] = "done"
      /\ \A e \in Dials, h \in Callers : call'[e][h] = call[e][h] \/ (e = d /\ h = g)
  BY <1>1 DEF Inv, TypeOK
<1>3. /\ socket' \in [Dials -> {"none", "dialing", "dialled", "failed", "open", "closed"}]
      /\ socket'[d] = "closed" /\ \A e \in Dials : e # d => socket'[e] = socket[e]
  BY <1>1 DEF Inv, TypeOK
<1>4. TypeOK'
  BY <1>1, <1>2, <1>3 DEF Inv, TypeOK
<1>5. ArrivedOnly'
  BY <1>1, <1>2, <1>3 DEF Inv, TypeOK, ArrivedOnly
<1>6. ForgottenFirst'
  BY <1>1, <1>2 DEF Inv, ForgottenFirst, Dials
<1>7. LoopSound'
  BY <1>1, <1>2 DEF Inv, LoopSound, Callers
<1>8. \A e \in Dials : e # d /\ BeingClosed(e) => BeingClosed(e)'
  BY <1>2 DEF BeingClosed
<1>9. SnapshotComplete' /\ OpenIsTracked'
  BY <1>1, <1>3, <1>8 DEF Inv, SnapshotComplete, OpenIsTracked
<1>10. ClosedIsForgotten'
  BY <1>1, <1>3 DEF Inv, ClosedIsForgotten, ForgottenFirst, Dials
<1> QED
  BY <1>4, <1>5, <1>6, <1>7, <1>9, <1>10 DEF Inv

\* closeAll closes a listed connection.
LEMMA CloseNextKeeps == ASSUME Inv, NEW d \in Dials, CloseNext(d) PROVE Inv'
<1>1. /\ teardown = "closing" /\ d \in todo /\ todo' = todo \ {d} /\ "closeAll" \in Callers
      /\ call[d]["closeAll"] \in {"idle", "done"} /\ call' = Begin(d, "closeAll")
      /\ UNCHANGED <<socket, handed, conns, closed, teardown>>
  BY DEF CloseNext, LoopIdle, Callers
<1>2. /\ call' \in [Dials -> [Callers -> {"idle", "forget", "close", "done"}]]
      /\ BeingClosed(d)' /\ \A e \in Dials : BeingClosed(e) => BeingClosed(e)'
      /\ \A e \in Dials, h \in Callers : call'[e][h] = call[e][h] \/ (e = d /\ h = "closeAll")
      /\ call'[d]["closeAll"] \in {"forget", "close"} /\ (d \in Wrapped => call'[d]["closeAll"] = "forget")
  BY <1>1, BeginFacts
<1>3. TypeOK'
  BY <1>1, <1>2 DEF Inv, TypeOK
<1>4. ArrivedOnly'
  BY <1>1, <1>2 DEF Inv, ArrivedOnly
<1>5. ForgottenFirst'
  BY <1>1, <1>2 DEF Inv, ForgottenFirst, Dials
<1>6. LoopSound'
  BY <1>1 DEF Inv, LoopSound
<1>7. SnapshotComplete' /\ OpenIsTracked' /\ ClosedIsForgotten'
  BY <1>1, <1>2 DEF Inv, SnapshotComplete, OpenIsTracked, ClosedIsForgotten
<1> QED
  BY <1>3, <1>4, <1>5, <1>6, <1>7 DEF Inv

\* The steps of closeAll around its loop.
LEMMA TeardownKeeps ==
  ASSUME Inv, closeAll \/ Snapshot \/ CloseAllReturns
  PROVE  Inv'
<1>1. UNCHANGED <<socket, handed, conns, call>>
  BY DEF closeAll, Snapshot, CloseAllReturns
<1>2. \A e \in Dials : BeingClosed(e)' <=> BeingClosed(e)
  BY <1>1 DEF BeingClosed
<1>3. ForgottenFirst' /\ ClosedIsForgotten'
  BY <1>1 DEF Inv, ForgottenFirst, ClosedIsForgotten
<1>4. CASE closeAll
  BY <1>1, <1>2, <1>3, <1>4 DEF closeAll, Inv, TypeOK, ArrivedOnly, LoopSound, SnapshotComplete, OpenIsTracked
<1>5. CASE Snapshot
  <2>1. todo = {} /\ todo' = conns /\ closed' = TRUE /\ teardown' = "closing"
    BY <1>5 DEF Snapshot, Latched, Inv, LoopSound
  <2>2. TypeOK'
    BY <1>1, <2>1 DEF Inv, TypeOK
  <2>3. ArrivedOnly' /\ LoopSound'
    BY <1>1, <2>1 DEF Inv, ArrivedOnly, LoopSound
  <2>4. SnapshotComplete' /\ OpenIsTracked'
    BY <1>1, <1>2, <2>1 DEF Inv, SnapshotComplete, OpenIsTracked
  <2> QED
    BY <1>3, <2>2, <2>3, <2>4 DEF Inv
<1>6. CASE CloseAllReturns
  BY <1>1, <1>2, <1>3, <1>6 DEF CloseAllReturns, LoopIdle, Inv, TypeOK,
       ArrivedOnly, LoopSound, SnapshotComplete, OpenIsTracked
<1> QED
  BY <1>4, <1>5, <1>6

\* Every step keeps the invariant.
LEMMA StepKeeps == ASSUME Inv, [Next]_vars PROVE Inv'
<1>1. CASE UNCHANGED vars
  BY <1>1 DEF vars, Inv, TypeOK, ArrivedOnly, ForgottenFirst, LoopSound, SnapshotComplete,
              OpenIsTracked, ClosedIsForgotten, BeingClosed
<1> QED
  BY <1>1, DialKeeps, TrackKeeps, HandOverKeeps, HttpCloseKeeps, ForgetKeeps, ConnCloseKeeps,
     CloseNextKeeps, TeardownKeeps DEF Next

\* The inductive invariant holds in every reachable state.
LEMMA Invariance == Spec => []Inv
BY InitEstablishes, StepKeeps, PTL DEF Spec

\* Sockets, the map and the latch keep their types.
THEOREM TypeCorrect == Spec => []TypeOK
<1>1. Inv => TypeOK
  BY DEF Inv
<1> QED
  BY <1>1, Invariance, PTL

\* No open connection is ever outside the map and the list of closeAll.
THEOREM OpenSocketsAreTracked == Spec => []OpenIsTracked
<1>1. Inv => OpenIsTracked
  BY DEF Inv
<1> QED
  BY <1>1, Invariance, PTL

\* The map forgets every wrapped connection that is closed.
THEOREM ClosedSocketsAreForgotten == Spec => []ClosedIsForgotten
<1>1. Inv => ClosedIsForgotten
  BY DEF Inv
<1> QED
  BY <1>1, Invariance, PTL

\* INV-4: closeAll leaves no socket open behind it.
THEOREM TeardownIsComplete == Spec => []NothingLeftOpen
<1>1. Inv => NothingLeftOpen
  BY DEF Inv, NothingLeftOpen, SnapshotComplete, LoopSound, BeingClosed, Callers
<1> QED
  BY <1>1, Invariance, PTL

\* INV-4: a dial that returns after the snapshot hands net/http a closed socket.
THEOREM LateDialsAreClosed == Spec => LateDialsArriveClosed
<1>1. Inv /\ [Next]_vars =>
        [closed => \A d \in handed' \ handed : socket'[d] = "closed"]_vars
  <2> SUFFICES ASSUME Inv, [Next]_vars, closed, NEW e \in handed' \ handed
               PROVE  socket'[e] = "closed"
    OBVIOUS
  <2>1. ASSUME NEW d \in Dials, HandOverLate(d) PROVE socket'[e] = "closed"
    BY <2>1, HandOverKeeps
  <2>2. ASSUME handed' = handed PROVE FALSE
    BY <2>2
  <2>3. ASSUME NEW d \in Dials, track(d) PROVE handed' = handed
    BY <2>3 DEF track
  <2> QED
    BY <2>1, <2>2, <2>3 DEF Next, vars, Dial, DialOk, DialFails, HttpClose, CloseNext, forget, ConnClose,
                            closeAll, Snapshot, CloseAllReturns
<1> QED
  BY <1>1, Invariance, PTL DEF Spec, LateDialsArriveClosed

\* The dial callbacks that record addresses are callbacks of the tracked
\* transport, so what is proved of it holds of the composition.
THEOREM CallbacksAreTracked == TransportSpec => Spec
<1>1. TransportInit => Init
  BY DEF TransportInit
<1>2. [TransportNext]_all => [Next]_vars
  <2>1. ASSUME NEW d \in Dials, Dialling(d) \/ Track(d) \/ Closing(d) PROVE Next
    BY <2>1 DEF Dialling, Track, Closing, Elsewhere, Next
  <2>2. ASSUME NEW d \in Dials, AddRemote(d) \/ AddLocal(d) PROVE UNCHANGED vars
    BY <2>2 DEF AddRemote, AddLocal
  <2>3. Teardown => Next
    BY DEF Teardown, Elsewhere, Next
  <2>4. UNCHANGED all => UNCHANGED vars
    BY DEF all
  <2> QED
    BY <2>1, <2>2, <2>3, <2>4 DEF TransportNext
<1> QED
  BY <1>1, <1>2, PTL DEF TransportSpec, Spec


(***************************************************************************)
(* The address sets of the factory.                                        *)
(***************************************************************************)
\* Both lists are sound, and a callback closes or hands over its connection
\* only when both of its adds have returned.
ListsInv ==
  /\ Remote!ListSound /\ Local!ListSound
  /\ \A d \in Dials : d \in handed \/ call[d]["late"] # "idle" => Recorded(d)

\* A returned add stays returned.
LEMMA RecordedStays ==
  ASSUME ListsInv, [TransportNext]_all, NEW d \in Dials, Recorded(d)
  PROVE  Recorded(d)'
<1>1. ASSUME NEW e \in Dials, AddRemote(e) PROVE Recorded(d)'
  <2>1. UNCHANGED localAt /\ Remote!add(e)
    BY <1>1 DEF AddRemote, localVars
  <2> QED
    BY <2>1 DEF ListsInv, Recorded, Remote!ListSound, Remote!Returned, Local!Returned, Remote!add,
                Remote!Ignore, Remote!Load, Remote!Scan, Remote!Swap, Remote!SwapFails
<1>2. ASSUME NEW e \in Dials, AddLocal(e) PROVE Recorded(d)'
  <2>1. UNCHANGED remoteAt /\ Local!add(e)
    BY <1>2 DEF AddLocal, remoteVars
  <2> QED
    BY <2>1 DEF ListsInv, Recorded, Local!ListSound, Remote!Returned, Local!Returned, Local!add,
                Local!Ignore, Local!Load, Local!Scan, Local!Swap, Local!SwapFails
<1>3. UNCHANGED <<remoteVars, localVars>> => Recorded(d)'
  BY DEF remoteVars, localVars, Recorded, Remote!Returned, Local!Returned
<1> QED
  BY <1>1, <1>2, <1>3 DEF TransportNext, Dialling, Track, Closing, Teardown, Elsewhere, all

\* A connection is handed over or closed late only once it was recorded.
LEMMA UnrecordedStays ==
  ASSUME Inv, [TransportNext]_all, NEW d \in Dials, ~Recorded(d),
         d \notin handed, call[d]["late"] = "idle"
  PROVE  (d \notin handed /\ call[d]["late"] = "idle")'
<1> USE DEF Inv, TypeOK, Callers, Begin
<1>1. ASSUME NEW e \in Dials, Track(e) PROVE (d \notin handed /\ call[d]["late"] = "idle")'
  <2>1. e # d /\ track(e)
    BY <1>1 DEF Track
  <2> QED
    BY <2>1 DEF track
<1>2. ASSUME NEW e \in Dials, HandOverLate(e) PROVE (d \notin handed /\ call[d]["late"] = "idle")'
  BY <1>2 DEF HandOverLate
<1>3. ASSUME NEW e \in Dials, HttpClose(e) \/ CloseNext(e)
      PROVE  (d \notin handed /\ call[d]["late"] = "idle")'
  BY <1>3 DEF HttpClose, CloseNext
<1>4. ASSUME NEW e \in Dials, NEW g \in Callers, forget(e, g) \/ ConnClose(e, g)
      PROVE  (d \notin handed /\ call[d]["late"] = "idle")'
  BY <1>4 DEF forget, ConnClose
<1>5. ASSUME NEW e \in Dials, Closing(e) PROVE (d \notin handed /\ call[d]["late"] = "idle")'
  BY <1>2, <1>3, <1>4, <1>5 DEF Closing, Elsewhere
<1>6. ASSUME NEW e \in Dials, Dialling(e) \/ AddRemote(e) \/ AddLocal(e)
      PROVE  UNCHANGED <<handed, call>>
  BY <1>6 DEF Dialling, Elsewhere, Dial, DialOk, DialFails, AddRemote, AddLocal, vars
<1>7. Teardown \/ UNCHANGED all => UNCHANGED <<handed, call>>
  BY DEF Teardown, Elsewhere, closeAll, Snapshot, CloseAllReturns, all, vars
<1> QED
  BY <1>1, <1>5, <1>6, <1>7 DEF TransportNext

\* A step of a dial takes a step of both sets or of none.
LEMMA ListsKeep == ASSUME Inv, ListsInv, [TransportNext]_all PROVE ListsInv'
<1>1. Remote!ListSound' /\ Local!ListSound'
  <2>1. ASSUME NEW d \in Dials, AddRemote(d) PROVE Remote!ListSound' /\ Local!ListSound'
    BY <2>1, Remote!AddKeeps
       DEF AddRemote, ListsInv, localVars, Local!ListSound, Local!Returned, Local!Addresses
  <2>2. ASSUME NEW d \in Dials, AddLocal(d) PROVE Remote!ListSound' /\ Local!ListSound'
    BY <2>2, Local!AddKeeps
       DEF AddLocal, ListsInv, remoteVars, Remote!ListSound, Remote!Returned, Remote!Addresses
  <2>3. UNCHANGED <<remoteVars, localVars>> => Remote!ListSound' /\ Local!ListSound'
    BY DEF ListsInv, remoteVars, localVars, Remote!ListSound, Remote!Returned, Remote!Addresses,
           Local!ListSound, Local!Returned, Local!Addresses
  <2> QED
    BY <2>1, <2>2, <2>3 DEF TransportNext, Dialling, Track, Closing, Teardown, Elsewhere, all
<1>2. ASSUME NEW d \in Dials, (d \in handed \/ call[d]["late"] # "idle")' PROVE Recorded(d)'
  <2>1. CASE Recorded(d)
    BY <2>1, RecordedStays
  <2>2. CASE ~Recorded(d)
    BY <2>2, <1>2, UnrecordedStays DEF ListsInv
  <2> QED
    BY <2>1, <2>2
<1> QED
  BY <1>1, <1>2 DEF ListsInv

(***************************************************************************)
(* The doc comment of addrSet, and ResolvedIPs and LocalIPs of a result:   *)
(* whatever dials race in the compare-and-swap loop of add, each set lists *)
(* an address once, and no connection reaches net/http before both of its  *)
(* addresses are listed.                                                   *)
(***************************************************************************)
THEOREM AddressesAreListed == TransportSpec => []AddressesListed
<1>1. TransportInit => ListsInv
  BY Remote!AddInit, Local!AddInit DEF TransportInit, Init, ListsInv, Callers
<1>2. ListsInv /\ Inv => AddressesListed
  BY DEF ListsInv, Inv, TypeOK, AddressesListed, Remote!ListSound, Remote!AddedOnce,
         Local!ListSound, Local!AddedOnce
<1> QED
  BY <1>1, <1>2, ListsKeep, Invariance, CallbacksAreTracked, PTL DEF TransportSpec
=============================================================================
