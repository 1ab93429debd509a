------------------------ MODULE LimitListenerProofs ------------------------
(***************************************************************************)
(* Proofs about the connection cap for any capacity, any finite number of  *)
(* connections and Serve loops and any calls of Close: the slots are       *)
(* accounted for, and the listener implements ConnectionCap.  Then about   *)
(* the nqserver command for any command line: its listener is this one, so *)
(* the cap holds while it serves and shuts down, and the exit code tells   *)
(* how serving ended.                                                      *)
(***************************************************************************)
EXTENDS Server, FiniteSetTheorems, TLAPS

\* The accept queue holds each waiting connection once.
QueueSound ==
  /\ \A i \in 1..Len(queue) : conn[queue[i]] = "queued"
  /\ \A i, j \in 1..Len(queue) : queue[i] = queue[j] => i = j

\* Only a connection that was handed out is closed or released.
CloseSound ==
  /\ \A c \in released : conn[c] \in {"open", "closed"}
  /\ \A c \in Conns, g \in Calls : call[c][g] # "idle" => conn[c] \in {"open", "closed"}

Inv == TypeOK /\ QueueSound /\ CloseSound /\ SlotsAccounted

\* Slot holders are finitely many.
LEMMA HoldersFinite ==
  /\ IsFiniteSet(Holders) /\ Cardinality(Holders) \in Nat
  /\ IsFiniteSet(Live) /\ Cardinality(Live) \in Nat
<1>1. Holders \subseteq Acceptors /\ Live \subseteq Conns
  BY DEF Holders, Live
<1>2. IsFiniteSet(Holders) /\ IsFiniteSet(Live)
  BY <1>1, FS_Subset, ListenerAssumption
<1> QED
  BY <1>2, FS_CardinalityType

\* The initial state has no slot taken.
LEMMA InitEstablishes == Init => Inv
<1> SUFFICES ASSUME Init PROVE Inv
  OBVIOUS
<1>1. queue \in Seq(Conns)
  BY DEF Init
<1>2. done \in BOOLEAN /\ listening \in BOOLEAN
  BY DEF Init
<1>3. TypeOK
  BY <1>1, <1>2, ListenerAssumption DEF Init, TypeOK
<1>4. Len(queue) = 0
  BY DEF Init
<1>5. QueueSound
  BY <1>4 DEF QueueSound
<1>6. CloseSound
  BY DEF Init, CloseSound
<1>7. Holders = {} /\ Live = {} /\ sem = 0
  BY DEF Init, Holders, Live
<1> QED
  BY <1>3, <1>7, <1>5, <1>6, FS_EmptySet DEF Inv, SlotsAccounted

\* A step that moves one Accept from outside to inside, or back, moves one slot.
LEMMA HolderMoves ==
  ASSUME Inv, NEW a \in Acceptors, NEW s \in {"serve", "select", "accept", "closed", "temporary", "returned"},
         acceptor' = [acceptor EXCEPT ![a] = s]
  PROVE  /\ acceptor' \in [Acceptors -> {"serve", "select", "accept", "closed", "temporary", "returned"}]
         /\ a \notin Holders /\ s = "accept" => Cardinality(Holders') = Cardinality(Holders) + 1
         /\ a \in Holders /\ s \in {"serve", "returned"} => Cardinality(Holders') = Cardinality(Holders) - 1
         /\ a \notin Holders /\ s \in {"select", "returned"} => Holders' = Holders
         /\ a \in Holders /\ s \in {"closed", "temporary"} => Holders' = Holders
<1>1. acceptor \in [Acceptors -> {"serve", "select", "accept", "closed", "temporary", "returned"}]
  BY DEF Inv, TypeOK
<1>2. ASSUME a \notin Holders, s = "accept" PROVE Cardinality(Holders') = Cardinality(Holders) + 1
  <2>1. Holders' = Holders \cup {a}
    BY <1>1, <1>2 DEF Holders
  <2> QED
    BY <2>1, <1>2, HoldersFinite, FS_AddElement
<1>3. ASSUME a \in Holders, s \in {"serve", "returned"} PROVE Cardinality(Holders') = Cardinality(Holders) - 1
  <2>1. Holders' = Holders \ {a}
    BY <1>1, <1>3 DEF Holders
  <2> QED
    BY <2>1, <1>3, HoldersFinite, FS_RemoveElement
<1>4. ASSUME a \notin Holders, s \in {"select", "returned"} PROVE Holders' = Holders
  BY <1>1, <1>4 DEF Holders
<1>5. ASSUME a \in Holders, s \in {"closed", "temporary"} PROVE Holders' = Holders
  BY <1>1, <1>5 DEF Holders
<1>6. acceptor' \in [Acceptors -> {"serve", "select", "accept", "closed", "temporary", "returned"}]
  BY <1>1
<1> QED
  BY <1>2, <1>3, <1>4, <1>5, <1>6

\* The steps of Accept that leave the connections alone.
LEMMA AcceptKeeps ==
  ASSUME Inv, NEW a \in Acceptors,
         CallAccept(a) \/ TakeSlot(a) \/ SeeDone(a) \/ InnerClosed(a) \/ InnerError(a) \/ GiveBack(a)
  PROVE  Inv' /\ Live' = Live
<1>1. UNCHANGED <<done, listening, queue, conn, released, closer, call>>
  BY DEF CallAccept, TakeSlot, SeeDone, InnerClosed, InnerError, GiveBack
<1>2. Live' = Live
  BY <1>1 DEF Live
<1>3. QueueSound' /\ CloseSound'
  BY <1>1 DEF Inv, QueueSound, CloseSound
<1>4. TypeOK' /\ SlotsAccounted'
  <2>1. CASE CallAccept(a)
    BY <2>1, <1>1, <1>2, HolderMoves DEF CallAccept, Holders, Inv, TypeOK, SlotsAccounted
  <2>2. CASE TakeSlot(a)
    <3>1. /\ sem' = sem + 1 /\ sem < Max /\ errors' = errors
          /\ acceptor' = [acceptor EXCEPT ![a] = "accept"] /\ a \notin Holders
      BY <2>2 DEF TakeSlot, HasRoom, Holders
    <3>2. TypeOK'
      BY <3>1, <1>1, HolderMoves, ListenerAssumption DEF Inv, TypeOK
    <3>3. Cardinality(Holders') = Cardinality(Holders) + 1
      BY <3>1, HolderMoves
    <3>4. SlotsAccounted'
      BY <3>1, <3>3, <1>2, HoldersFinite DEF Inv, SlotsAccounted
    <3> QED
      BY <3>2, <3>4
  <2>3. CASE SeeDone(a)
    BY <2>3, <1>1, <1>2, HolderMoves DEF SeeDone, Holders, Inv, TypeOK, SlotsAccounted
  <2>4. CASE InnerClosed(a)
    BY <2>4, <1>1, <1>2, HolderMoves DEF InnerClosed, Holders, Inv, TypeOK, SlotsAccounted
  <2>5. CASE InnerError(a)
    <3>1. PICK e \in {"temporary", "closed"} :
            /\ sem' = sem /\ errors' = errors + 1 /\ errors < MaxErrors
            /\ acceptor' = [acceptor EXCEPT ![a] = e] /\ a \in Holders
      BY <2>5 DEF InnerError, Holders
    <3>2. TypeOK'
      BY <3>1, <1>1, HolderMoves, ListenerAssumption DEF Inv, TypeOK
    <3>3. SlotsAccounted'
      BY <3>1, <1>2, HolderMoves DEF Inv, SlotsAccounted
    <3> QED
      BY <3>2, <3>3
  <2>6. CASE GiveBack(a)
    <3>1. PICK s \in {"returned", "serve"} :
            sem' = sem - 1 /\ sem > 0 /\ errors' = errors /\ acceptor' = [acceptor EXCEPT ![a] = s] /\ a \in Holders
      BY <2>6 DEF GiveBack, SlotBack, Holders
    <3>2. TypeOK'
      BY <3>1, <1>1, HolderMoves, ListenerAssumption DEF Inv, TypeOK
    <3>3. Cardinality(Holders') = Cardinality(Holders) - 1
      BY <3>1, HolderMoves
    <3>4. SlotsAccounted'
      BY <3>1, <3>3, <1>2, HoldersFinite DEF Inv, SlotsAccounted
    <3> QED
      BY <3>2, <3>4
  <2> QED
    BY <2>1, <2>2, <2>3, <2>4, <2>5, <2>6
<1> QED
  BY <1>2, <1>3, <1>4 DEF Inv

\* The inner Accept passes its slot to the connection it returns, which had none.
LEMMA InnerAcceptKeeps ==
  ASSUME Inv, NEW a \in Acceptors, InnerAccept(a)
  PROVE  /\ Inv' /\ released' = released
         /\ \E c \in Conns : /\ c \notin Live /\ c \notin released /\ Live' = Live \cup {c}
                             /\ Cardinality(Live) < Max
<1>1. PICK c \in Conns : c = Head(queue)
  BY DEF InnerAccept, Inv, TypeOK
<1>2. /\ acceptor' = [acceptor EXCEPT ![a] = "serve"] /\ conn' = [conn EXCEPT ![c] = "open"]
      /\ queue' = Tail(queue) /\ queue # <<>> /\ a \in Holders
      /\ UNCHANGED <<sem, done, listening, released, closer, call, errors>>
  BY <1>1 DEF InnerAccept, Holders
<1>3. /\ queue \in Seq(Conns) /\ Len(queue) > 0 /\ queue[1] = c /\ conn[c] = "queued"
      /\ Len(queue') = Len(queue) - 1 /\ \A i \in 1..Len(queue') : queue'[i] = queue[i + 1]
  BY <1>1, <1>2 DEF Inv, TypeOK, QueueSound
<1>4. c \notin released /\ c \notin Live
  BY <1>3 DEF Inv, CloseSound, Live
<1>5. Live' = Live \cup {c}
  BY <1>2, <1>4 DEF Live, Inv, TypeOK
<1>6. Cardinality(Live') = Cardinality(Live) + 1
  BY <1>4, <1>5, HoldersFinite, FS_AddElement
<1>7. Cardinality(Holders') = Cardinality(Holders) - 1
  BY <1>2, HolderMoves
<1>8. SlotsAccounted'
  BY <1>2, <1>6, <1>7, HoldersFinite DEF SlotsAccounted, Inv
<1>9. Cardinality(Live) < Max
  <2>1. Cardinality(Holders) # 0
    BY <1>2, HoldersFinite, FS_EmptySet
  <2> QED
    BY <2>1, HoldersFinite, ListenerAssumption DEF Inv, SlotsAccounted, TypeOK
<1>10. queue' \in Seq(Conns)
  BY <1>2, <1>3
<1>11. TypeOK'
  BY <1>2, <1>10, HolderMoves DEF Inv, TypeOK
<1>12. QueueSound'
  <2>1. \A i \in 1..Len(queue') : i + 1 \in 1..Len(queue) /\ queue'[i] = queue[i + 1]
    BY <1>3
  <2>2. \A i, j \in 1..Len(queue') : queue'[i] = queue'[j] => i = j
    BY <2>1, <1>3 DEF Inv, QueueSound
  <2>3. ASSUME NEW i \in 1..Len(queue') PROVE conn'[queue'[i]] = "queued"
    <3>1. queue[i + 1] # queue[1]
      BY <2>1, <1>3 DEF Inv, QueueSound
    <3> QED
      BY <3>1, <2>1, <1>2, <1>3 DEF Inv, TypeOK, QueueSound
  <2> QED
    BY <2>2, <2>3 DEF QueueSound
<1>13. CloseSound'
  BY <1>2, <1>3 DEF Inv, TypeOK, CloseSound
<1> QED
  BY <1>2, <1>4, <1>5, <1>8, <1>9, <1>11, <1>12, <1>13 DEF Inv

\* A dial enters the queue, which the connection was not in.
LEMMA DialKeeps == ASSUME Inv, NEW c \in Conns, Dial(c) PROVE Inv' /\ Live' = Live
<1>1. /\ conn[c] = "none" /\ conn' = [conn EXCEPT ![c] = "queued"] /\ queue' = Append(queue, c)
      /\ UNCHANGED <<sem, done, listening, released, acceptor, closer, call, errors>>
  BY DEF Dial
<1>2. Live' = Live /\ Holders' = Holders
  BY <1>1 DEF Live, Holders, Inv, TypeOK
<1>3. /\ queue' \in Seq(Conns) /\ Len(queue') = Len(queue) + 1 /\ queue'[Len(queue')] = c
      /\ \A i \in 1..Len(queue) : queue'[i] = queue[i]
  BY <1>1 DEF Inv, TypeOK
<1>4. TypeOK'
  BY <1>1, <1>3 DEF Inv, TypeOK
<1>5. QueueSound'
  <2>1. \A i \in 1..Len(queue) : queue[i] # c
    BY <1>1 DEF Inv, QueueSound
  <2>2. \A i \in 1..Len(queue') : i \in 1..Len(queue) \/ (i = Len(queue') /\ queue'[i] = c)
    BY <1>3 DEF Inv, TypeOK
  <2>3. \A i \in 1..Len(queue') : conn'[queue'[i]] = "queued"
    BY <2>2, <1>1, <1>3 DEF Inv, TypeOK, QueueSound
  <2>4. \A i, j \in 1..Len(queue') : queue'[i] = queue'[j] => i = j
    BY <2>1, <2>2, <1>3 DEF Inv, QueueSound
  <2> QED
    BY <2>3, <2>4 DEF QueueSound
<1>6. CloseSound'
  BY <1>1 DEF Inv, TypeOK, CloseSound
<1> QED
  BY <1>1, <1>2, <1>4, <1>5, <1>6 DEF Inv, SlotsAccounted

\* Closing the listener touches no connection that holds a slot.
LEMMA CloseKeeps == ASSUME Inv, NEW k \in Closers, Close(k) PROVE Inv' /\ Live' = Live
<1>1. CASE CloseDone(k)
  BY <1>1 DEF CloseDone, Inv, TypeOK, QueueSound, CloseSound, SlotsAccounted, Live, Holders
<1>2. CASE CloseInner(k)
  <2>1. /\ conn' = [c \in Conns |-> IF conn[c] = "queued" THEN "refused" ELSE conn[c]]
        /\ queue' = <<>> /\ listening' = FALSE /\ closer' = [closer EXCEPT ![k] = "returned"]
        /\ UNCHANGED <<sem, done, released, acceptor, call, errors>>
    BY <1>2 DEF CloseInner
  <2>2. Live' = Live /\ Holders' = Holders
    BY <2>1 DEF Live, Holders, Inv, TypeOK
  <2>3. conn' \in [Conns -> {"none", "queued", "open", "closed", "refused"}]
    BY <2>1 DEF Inv, TypeOK
  <2>4. queue' \in Seq(Conns)
    BY <2>1
  <2>5. listening' \in BOOLEAN
    BY <2>1
  <2>6. closer' \in [Closers -> {"idle", "inner", "returned"}]
    BY <2>1 DEF Inv, TypeOK
  <2>7. TypeOK'
    BY <2>1, <2>3, <2>4, <2>5, <2>6 DEF Inv, TypeOK
  <2>8. CloseSound'
    BY <2>1 DEF Inv, TypeOK, CloseSound
  <2>9. Len(queue') = 0
    BY <2>1
  <2>10. QueueSound'
    BY <2>9 DEF QueueSound
  <2> QED
    BY <2>1, <2>2, <2>7, <2>8, <2>10 DEF Inv, SlotsAccounted
<1> QED
  BY <1>1, <1>2 DEF Close

\* Closing a connection gives its slot back the first time and never again.
LEMMA CloseConnKeeps ==
  ASSUME Inv, NEW c \in Conns, NEW g \in Calls, CloseConn(c, g)
  PROVE  /\ Inv'
         /\ \/ Live' = Live /\ released' = released
            \/ c \in Live /\ Live' = Live \ {c} /\ released' = released \cup {c}
<1>1. CASE BeginClose(c, g)
  <2>1. UNCHANGED <<sem, done, listening, queue, conn, released, acceptor, closer, errors>>
    BY <1>1 DEF BeginClose
  <2>2. call' \in [Conns -> [Calls -> {"idle", "once", "close", "returned"}]]
    BY <1>1 DEF BeginClose, Inv, TypeOK
  <2>3. CloseSound'
    BY <1>1, <2>1 DEF BeginClose, CloseSound, Inv, TypeOK
  <2>4. TypeOK'
    BY <2>1, <2>2 DEF Inv, TypeOK
  <2>5. Live' = Live /\ Holders' = Holders /\ QueueSound'
    BY <2>1 DEF Live, Holders, QueueSound, Inv
  <2> QED
    BY <2>1, <2>3, <2>4, <2>5 DEF Inv, SlotsAccounted
<1>2. CASE Release(c, g)
  <2>1. /\ UNCHANGED <<done, listening, queue, conn, acceptor, closer, errors>>
        /\ released' = released \cup {c} /\ conn[c] \in {"open", "closed"}
    BY <1>2 DEF Release, Inv, CloseSound
  <2>2. call' \in [Conns -> [Calls -> {"idle", "once", "close", "returned"}]]
    BY <1>2 DEF Release, Inv, TypeOK
  <2>3. CloseSound'
    BY <1>2, <2>1 DEF Release, CloseSound, Inv, TypeOK
  <2>4. Holders' = Holders /\ QueueSound' /\ Live' = Live \ {c}
    BY <2>1 DEF Live, Holders, QueueSound, Inv
  <2>5. CASE c \in released
    <3>1. sem' = sem /\ released' = released /\ Live' = Live
      BY <1>2, <2>1, <2>4, <2>5 DEF Release, Live
    <3>2. TypeOK'
      BY <2>1, <2>2, <3>1 DEF Inv, TypeOK
    <3> QED
      BY <2>3, <2>4, <3>1, <3>2 DEF Inv, SlotsAccounted
  <2>6. CASE c \notin released
    <3>1. sem' = sem - 1 /\ sem > 0 /\ c \in Live
      BY <1>2, <2>1, <2>6 DEF Release, Live
    <3>2. Cardinality(Live') = Cardinality(Live) - 1
      BY <2>4, <3>1, HoldersFinite, FS_RemoveElement
    <3>3. TypeOK'
      BY <2>1, <2>2, <3>1, ListenerAssumption DEF Inv, TypeOK
    <3> QED
      BY <2>1, <2>3, <2>4, <3>1, <3>2, <3>3, HoldersFinite DEF Inv, SlotsAccounted
  <2> QED
    BY <2>5, <2>6
<1>3. CASE ConnClose(c, g)
  <2>1. /\ UNCHANGED <<sem, done, listening, queue, released, acceptor, closer, errors>>
        /\ conn' = [conn EXCEPT ![c] = "closed"] /\ conn[c] \in {"open", "closed"}
    BY <1>3 DEF ConnClose, Inv, CloseSound
  <2>2. call' \in [Conns -> [Calls -> {"idle", "once", "close", "returned"}]]
    BY <1>3 DEF ConnClose, Inv, TypeOK
  <2>3. CloseSound'
    BY <1>3, <2>1 DEF ConnClose, CloseSound, Inv, TypeOK
  <2>4. Holders' = Holders /\ Live' = Live
    BY <2>1 DEF Live, Holders, Inv, TypeOK
  <2>5. QueueSound'
    BY <2>1 DEF QueueSound, Inv, TypeOK
  <2>6. TypeOK'
    BY <2>1, <2>2 DEF Inv, TypeOK
  <2> QED
    BY <2>1, <2>3, <2>4, <2>5, <2>6 DEF Inv, SlotsAccounted
<1> QED
  BY <1>1, <1>2, <1>3 DEF CloseConn

\* Every step keeps the invariant, and maps to a step of ConnectionCap or to
\* a stuttering step.
LEMMA StepKeeps ==
  ASSUME Inv, [Next]_vars
  PROVE  Inv' /\ [Cap!Next]_<<Live, released>>
<1>1. ASSUME NEW c \in Conns, Dial(c) PROVE Inv' /\ UNCHANGED <<Live, released>>
  BY <1>1, DialKeeps DEF Dial
<1>2. ASSUME NEW a \in Acceptors, Serve(a) \/ InnerError(a), ~InnerAccept(a)
      PROVE  Inv' /\ UNCHANGED <<Live, released>>
  <2>1. CallAccept(a) \/ TakeSlot(a) \/ SeeDone(a) \/ InnerClosed(a) \/ InnerError(a) \/ GiveBack(a)
    BY <1>2 DEF Serve
  <2>2. released' = released
    BY <2>1 DEF CallAccept, TakeSlot, SeeDone, InnerClosed, InnerError, GiveBack
  <2> QED
    BY <2>1, <2>2, AcceptKeeps
<1>3. ASSUME NEW a \in Acceptors, InnerAccept(a) PROVE Inv' /\ Cap!Next
  <2>1. PICK c \in Conns : /\ c \notin Live /\ c \notin released /\ Live' = Live \cup {c}
                           /\ Cardinality(Live) < Max /\ released' = released
    BY <1>3, InnerAcceptKeeps
  <2>2. Cap!HandOut(c)
    BY <2>1, Zenon DEF Cap!HandOut, Cap!Cardinality, Cardinality
  <2> QED
    BY <1>3, <2>2, InnerAcceptKeeps DEF Cap!Next
<1>4. ASSUME NEW k \in Closers, Close(k) PROVE Inv' /\ UNCHANGED <<Live, released>>
  BY <1>4, CloseKeeps DEF Close, CloseDone, CloseInner
<1>5. ASSUME NEW c \in Conns, NEW g \in Calls, CloseConn(c, g)
      PROVE  Inv' /\ [Cap!Next]_<<Live, released>>
  <2>1. (Live' = Live /\ released' = released) \/ Cap!GiveUp(c)
    BY <1>5, CloseConnKeeps DEF Cap!GiveUp
  <2> QED
    BY <1>5, <2>1, CloseConnKeeps DEF Cap!Next
<1>6. ASSUME UNCHANGED vars PROVE Inv' /\ UNCHANGED <<Live, released>>
  BY <1>6 DEF vars, Inv, TypeOK, QueueSound, CloseSound, SlotsAccounted, Holders, Live
<1> QED
  BY <1>1, <1>2, <1>3, <1>4, <1>5, <1>6 DEF Next

\* The semaphore and every process keep their types; the channel never holds
\* more than Max tokens.
THEOREM TypeCorrect == Spec => []TypeOK
<1>1. Init => Inv
  BY InitEstablishes
<1>2. Inv /\ [Next]_vars => Inv'
  BY StepKeeps
<1>3. Inv => TypeOK
  BY DEF Inv
<1> QED
  BY <1>1, <1>2, <1>3, PTL DEF Spec

\* No slot leaks and none is given back twice.
THEOREM SlotsAreAccounted == Spec => []SlotsAccounted
<1>1. Init => Inv
  BY InitEstablishes
<1>2. Inv /\ [Next]_vars => Inv'
  BY StepKeeps
<1>3. Inv => SlotsAccounted
  BY DEF Inv
<1> QED
  BY <1>1, <1>2, <1>3, PTL DEF Spec

\* LimitListener implements the abstract connection cap.
THEOREM ImplementsCap == Spec => CapSpec
<1>1. Init => Inv /\ Cap!Init
  BY InitEstablishes DEF Init, Cap!Init, Live
<1>2. Inv /\ [Next]_vars => Inv' /\ [Cap!Next]_<<Live, released>>
  BY StepKeeps
<1> QED
  BY <1>1, <1>2, PTL DEF Spec, CapSpec, Cap!Spec

(***************************************************************************)
(* The command around the listener.                                        *)
(***************************************************************************)
\* The exit codes are told from each other and from the places before.
LEMMA CodesDiffer ==
  /\ exitOK \notin {"start", "listen", "serving", "shutdown"}
  /\ exitFail \notin {"start", "listen", "serving", "shutdown"}
  /\ exitUsage \notin {"start", "listen", "serving", "shutdown"}
  /\ exitOK # exitFail /\ exitOK # exitUsage /\ exitFail # exitUsage
BY Zenon DEF exitOK, exitFail, exitUsage

\* What the command does between two steps of the listener leaves it alone.
LEMMA NetworkIsListener ==
  ASSUME [ServerNext]_all
  PROVE  [Next]_vars
<1>1. CASE Network
  <2>1. "handler" \in Calls /\ "Shutdown" \in Calls /\ "Serve" \in Closers /\ "Shutdown" \in Closers
    BY ServerAssumption
  <2> QED
    BY <1>1, <2>1 DEF Network, Next
<1>2. ASSUME NEW to, Goes(to) PROVE UNCHANGED vars
  BY <1>2 DEF Goes
<1>3. ASSUME NEW a \in CommandLines, Start(a) PROVE UNCHANGED vars
  BY <1>2, <1>3 DEF Start, runSign
<1>4. CASE Main
  BY <1>2, <1>3, <1>4 DEF Main, Listen, SelectDone, SelectInterrupt, ShutdownReturns
<1>5. CASE ServeEnds \/ Interrupt \/ Timeout \/ Gone \/ UNCHANGED all
  BY <1>5 DEF ServeEnds, Interrupt, Timeout, Gone, all
<1> QED
  BY <1>1, <1>4, <1>5 DEF ServerNext

\* The command adds nothing to the listener: what is proved of LimitListener
\* holds while nqserver starts, serves and shuts down.
THEOREM CommandIsListener == ServerSpec => Spec
<1>1. ServerInit => Init
  BY DEF ServerInit
<1> QED
  BY <1>1, NetworkIsListener, PTL DEF ServerSpec, Spec

\* SRV-9: the server hands out each connection at most once and never holds
\* more than the cap, through errors of Accept, double closes and a shutdown.
THEOREM ServerKeepsCap == ServerSpec => CapSpec
BY CommandIsListener, ImplementsCap, PTL

\* Where the command is, and what that says of the listener: it is untouched
\* before serving, Serve has an error only after its loop has returned, and
\* what the shutdown and the exit wait for has happened.
ServerInv ==
  /\ main \in {"start", "listen", "serving", "shutdown", exitOK, exitFail, exitUsage}
  /\ serveErr \in {"none", "closed", "failed"}
  /\ main \in {"start", "listen"} => acceptor["Serve"] = "serve" /\ serveErr = "none"
  /\ main = "serving" => serveErr # "closed"
  /\ main = "shutdown" => signalled

\* A listener Close has closed done when it comes to the inner listener, which
\* is closed when it returns.
CloserSound ==
  \A k \in Closers : /\ closer[k] # "idle" => done
                     /\ closer[k] = "returned" => ~listening

\* The two stay closed, so every step of the listener keeps that.
LEMMA CloserStep ==
  ASSUME TypeOK, CloserSound, [Next]_vars
  PROVE  /\ CloserSound'
         /\ done => done'
         /\ ~listening => ~listening'
<1>1. ASSUME NEW k \in Closers, Close(k)
      PROVE  /\ done'
             /\ ~listening => ~listening'
             /\ \E s \in {"inner", "returned"} :
                  /\ closer' = [closer EXCEPT ![k] = s]
                  /\ s = "returned" => ~listening'
  BY <1>1 DEF Close, CloseDone, CloseInner, CloserSound
<1>2. ASSUME NEW k \in Closers, Close(k) PROVE CloserSound'
  BY <1>1, <1>2 DEF CloserSound, TypeOK
<1>3. ASSUME ~(\E k \in Closers : Close(k)) PROVE UNCHANGED <<done, listening, closer>>
  BY <1>3 DEF Next, vars, Dial, Serve, CallAccept, TakeSlot, SeeDone, InnerAccept, InnerClosed, GiveBack,
     InnerError, CloseConn, BeginClose, Release, ConnClose
<1>4. ASSUME ~(\E k \in Closers : Close(k)) PROVE CloserSound'
  BY <1>3, <1>4 DEF CloserSound
<1> QED
  BY <1>1, <1>2, <1>3, <1>4

\* Every step of the command keeps the invariant.
LEMMA ServerStep ==
  ASSUME TypeOK, CloserSound, ServerInv, [ServerNext]_all
  PROVE  ServerInv'
<1> USE CodesDiffer
<1>1. ASSUME NEW a \in CommandLines, Start(a) PROVE ServerInv'
  <2>1. PICK to \in {exitOK, exitFail, exitUsage, "listen"} : Goes(to)
    BY <1>1 DEF Start, runSign
  <2>2. main = "start"
    BY <1>1 DEF Start
  <2> QED
    BY <2>1, <2>2 DEF Goes, vars, ServerInv
<1>2. CASE Listen
  BY <1>2 DEF Listen, Goes, vars, ServerInv
<1>3. CASE SelectDone
  BY <1>3 DEF SelectDone, Stopped, Goes, vars, ServerInv
<1>4. CASE SelectInterrupt
  BY <1>4 DEF SelectInterrupt, Goes, vars, ServerInv
<1>5. CASE ShutdownReturns
  BY <1>5 DEF ShutdownReturns, Goes, vars, ServerInv
<1>6. CASE Network
  BY <1>6 DEF Network, Up, serverVars, ServerInv
<1>7. CASE ServeEnds
  BY <1>7 DEF ServeEnds, Up, vars, ServerInv
<1>8. CASE Interrupt
  BY <1>8 DEF Interrupt, vars, ServerInv
<1>9. CASE Timeout \/ Gone \/ UNCHANGED all
  BY <1>9 DEF Timeout, Gone, all, vars, serverVars, ServerInv
<1> QED
  BY <1>1, <1>2, <1>3, <1>4, <1>5, <1>6, <1>7, <1>8, <1>9 DEF ServerNext, Main

\* Only two steps end a server that is up, and each finds its listener closed.
LEMMA ExitStep ==
  ASSUME CloserSound, ServerInv, [ServerNext]_all
  PROVE  [ToldAtExit]_all
<1> USE CodesDiffer
<1> SUFFICES ASSUME Up, Exited'
    PROVE  /\ main' = exitOK => signalled
           /\ main' = exitFail => serveErr = "failed"
           /\ main' # exitUsage
           /\ done /\ ~listening
  BY DEF ToldAtExit
<1>1. main' # main
  BY DEF Up, Exited
<1>2. SelectDone \/ ShutdownReturns
  <2>1. Main
    BY <1>1 DEF ServerNext, Network, ServeEnds, Interrupt, Timeout, Gone, serverVars, all
  <2>2. ~SelectInterrupt /\ ~Listen /\ ~(\E a \in CommandLines : Start(a))
    BY DEF SelectInterrupt, Goes, Listen, Start, Up, Exited
  <2> QED
    BY <2>1, <2>2 DEF Main
<1>3. CASE SelectDone
  <2>1. done /\ ~listening
    BY <1>3, ServerAssumption DEF SelectDone, Delivered, CloserSound
  <2>2. serveErr = "failed" /\ main' = exitFail
    BY <1>3 DEF SelectDone, Delivered, Stopped, Goes, ServerInv
  <2> QED
    BY <2>1, <2>2
<1>4. CASE ShutdownReturns
  <2>1. done /\ ~listening
    BY <1>4, ServerAssumption DEF ShutdownReturns, CloserSound
  <2>2. signalled /\ main' = exitOK
    BY <1>4 DEF ShutdownReturns, Goes, ServerInv
  <2> QED
    BY <2>1, <2>2
<1> QED
  BY <1>2, <1>3, <1>4

\* SRV-6: whenever the interrupt comes, whatever Accept and the clients do, a
\* server that was up ends with the exit code that tells how serving ended, and
\* with its listener closed.
THEOREM ExitIsTold == ServerSpec => ExitTold
<1>1. ServerInit => ServerInv /\ CloserSound
  BY ServerAssumption, CodesDiffer DEF ServerInit, Init, ServerInv, CloserSound
<1>2. TypeOK /\ CloserSound /\ ServerInv /\ [ServerNext]_all => ServerInv' /\ CloserSound'
  BY CloserStep, ServerStep, NetworkIsListener
<1>3. CloserSound /\ ServerInv /\ [ServerNext]_all => [ToldAtExit]_all
  BY ExitStep
<1> QED
  BY <1>1, <1>2, <1>3, CommandIsListener, TypeCorrect, PTL DEF ServerSpec, ExitTold
=============================================================================
