--------------------------- MODULE LimitListener ---------------------------
(***************************************************************************)
(* The connection cap of the reference server (server.go LimitListener,    *)
(* limitListener, limitedConn): Accept takes a slot of the semaphore       *)
(* channel before it accepts, the wrapped connection gives it back when it *)
(* is closed, and Close releases an Accept that waits at the cap.          *)
(*                                                                         *)
(* Processes: Acceptors run http.Server's Serve loop, which calls Accept   *)
(* until it fails for good; Closers call the listener's Close; each        *)
(* connection is closed by any of the Calls (its serving goroutine, the    *)
(* server's shutdown).  A channel operation or a sync.Once body is atomic. *)
(***************************************************************************)
EXTENDS Naturals, FiniteSets, Sequences

CONSTANTS
  Conns,      \* connections that clients may open
  Max,        \* capacity of the semaphore channel
  Acceptors,  \* goroutines in Serve
  Closers,    \* calls of the listener's Close
  Calls,      \* calls of one connection's Close
  MaxErrors   \* bound of the model: errors of the inner Accept while it listens

ASSUME ListenerAssumption ==
  /\ Max \in Nat \ {0} /\ MaxErrors \in Nat
  /\ IsFiniteSet(Conns) /\ IsFiniteSet(Acceptors)

VARIABLES
  sem,       \* number of tokens in limitListener.sem
  done,      \* limitListener.done is closed
  listening, \* the inner listener is open
  queue,     \* the inner listener's accept queue
  conn,      \* net.Conn of each connection
  released,  \* connections whose limitedConn.once has run
  acceptor,  \* where each Serve loop is
  closer,    \* where each listener Close is
  call,      \* where each connection Close is
  errors     \* such errors so far

vars == <<sem, done, listening, queue, conn, released, acceptor, closer, call, errors>>

Init ==
  /\ sem = 0 /\ done = FALSE /\ listening = TRUE
  /\ queue = <<>>
  /\ conn = [c \in Conns |-> "none"]
  /\ released = {}
  /\ acceptor = [a \in Acceptors |-> "serve"]
  /\ closer = [k \in Closers |-> "idle"]
  /\ call = [c \in Conns |-> [g \in Calls |-> "idle"]]
  /\ errors = 0

(***************************************************************************)
(* The inner listener.                                                     *)
(***************************************************************************)
Dial(c) ==
  /\ listening /\ conn[c] = "none"
  /\ conn' = [conn EXCEPT ![c] = "queued"]
  /\ queue' = Append(queue, c)
  /\ UNCHANGED <<sem, done, listening, released, acceptor, closer, call, errors>>

(***************************************************************************)
(* Accept, in the loop of http.Server.Serve.                               *)
(***************************************************************************)
CallAccept(a) ==
  /\ acceptor[a] = "serve"
  /\ acceptor' = [acceptor EXCEPT ![a] = "select"]
  /\ UNCHANGED <<sem, done, listening, queue, conn, released, closer, call, errors>>

\* The capacity of the channel, or one more.
HasRoomForOneMore == sem <= Max
HasRoom == sem < Max

TakeSlot(a) ==
  /\ acceptor[a] = "select" /\ HasRoom
  /\ sem' = sem + 1
  /\ acceptor' = [acceptor EXCEPT ![a] = "accept"]
  /\ UNCHANGED <<done, listening, queue, conn, released, closer, call, errors>>

\* The case of the select that Close enables, or a select without it.
NoDoneCase == FALSE
DoneCase == done

\* net.ErrClosed: Serve returns.
SeeDone(a) ==
  /\ acceptor[a] = "select" /\ DoneCase
  /\ acceptor' = [acceptor EXCEPT ![a] = "returned"]
  /\ UNCHANGED <<sem, done, listening, queue, conn, released, closer, call, errors>>

InnerAccept(a) ==
  /\ acceptor[a] = "accept" /\ queue # <<>>
  /\ conn' = [conn EXCEPT ![Head(queue)] = "open"]
  /\ queue' = Tail(queue)
  /\ acceptor' = [acceptor EXCEPT ![a] = "serve"]
  /\ UNCHANGED <<sem, done, listening, released, closer, call, errors>>

\* The inner Accept fails for good once the inner listener is closed.
InnerClosed(a) ==
  /\ acceptor[a] = "accept" /\ ~listening
  /\ acceptor' = [acceptor EXCEPT ![a] = "closed"]
  /\ UNCHANGED <<sem, done, listening, queue, conn, released, closer, call, errors>>

\* The inner Accept fails while it listens, for once or for good.
InnerError(a) ==
  /\ acceptor[a] = "accept" /\ listening /\ errors < MaxErrors
  /\ errors' = errors + 1
  /\ \E e \in {"temporary", "closed"} : acceptor' = [acceptor EXCEPT ![a] = e]
  /\ UNCHANGED <<sem, done, listening, queue, conn, released, closer, call>>

\* The slot given back on the error path, or kept.
SlotKept == sem
SlotBack == sem - 1

\* <-l.sem on the error path; Serve retries a temporary error.
GiveBack(a) ==
  /\ acceptor[a] \in {"closed", "temporary"} /\ sem > 0
  /\ sem' = SlotBack
  /\ acceptor' = [acceptor EXCEPT ![a] = IF @ = "closed" THEN "returned" ELSE "serve"]
  /\ UNCHANGED <<done, listening, queue, conn, released, closer, call, errors>>

(***************************************************************************)
(* limitListener.Close: closeOnce closes done, then the inner listener is  *)
(* closed, which drops the connections still in its queue.                 *)
(***************************************************************************)
CloseDone(k) ==
  /\ closer[k] = "idle"
  /\ done' = TRUE
  /\ closer' = [closer EXCEPT ![k] = "inner"]
  /\ UNCHANGED <<sem, listening, queue, conn, released, acceptor, call, errors>>

CloseInner(k) ==
  /\ closer[k] = "inner"
  /\ listening' = FALSE
  /\ conn' = [c \in Conns |-> IF conn[c] = "queued" THEN "refused" ELSE conn[c]]
  /\ queue' = <<>>
  /\ closer' = [closer EXCEPT ![k] = "returned"]
  /\ UNCHANGED <<sem, done, released, acceptor, call, errors>>

(***************************************************************************)
(* limitedConn.Close: the slot is released once, then the connection is    *)
(* closed.                                                                 *)
(***************************************************************************)
BeginClose(c, g) ==
  /\ conn[c] \in {"open", "closed"} /\ call[c][g] = "idle"
  /\ call' = [call EXCEPT ![c][g] = "once"]
  /\ UNCHANGED <<sem, done, listening, queue, conn, released, acceptor, closer, errors>>

Release(c, g) ==
  /\ call[c][g] = "once"
  /\ \/ c \notin released /\ sem > 0 /\ sem' = sem - 1
     \/ c \in released /\ UNCHANGED sem
  /\ released' = released \cup {c}
  /\ call' = [call EXCEPT ![c][g] = "close"]
  /\ UNCHANGED <<done, listening, queue, conn, acceptor, closer, errors>>

ConnClose(c, g) ==
  /\ call[c][g] = "close"
  /\ conn' = [conn EXCEPT ![c] = "closed"]
  /\ call' = [call EXCEPT ![c][g] = "returned"]
  /\ UNCHANGED <<sem, done, listening, queue, released, acceptor, closer, errors>>

Serve(a) ==
  \/ CallAccept(a) \/ TakeSlot(a) \/ SeeDone(a) \/ InnerAccept(a)
  \/ InnerClosed(a) \/ GiveBack(a)

Close(k) == CloseDone(k) \/ CloseInner(k)

CloseConn(c, g) == BeginClose(c, g) \/ Release(c, g) \/ ConnClose(c, g)

Next ==
  \/ \E c \in Conns : Dial(c)
  \/ \E a \in Acceptors : Serve(a) \/ InnerError(a)
  \/ \E k \in Closers : Close(k)
  \/ \E c \in Conns, g \in Calls : CloseConn(c, g)

Spec == Init /\ [][Next]_vars
-----------------------------------------------------------------------------
TypeOK ==
  /\ sem \in 0..Max /\ done \in BOOLEAN /\ listening \in BOOLEAN
  /\ queue \in Seq(Conns)
  /\ conn \in [Conns -> {"none", "queued", "open", "closed", "refused"}]
  /\ released \in SUBSET Conns
  /\ acceptor \in [Acceptors ->
       {"serve", "select", "accept", "closed", "temporary", "returned"}]
  /\ closer \in [Closers -> {"idle", "inner", "returned"}]
  /\ call \in [Conns -> [Calls -> {"idle", "once", "close", "returned"}]]
  /\ errors \in 0..MaxErrors

\* The Accept calls that hold a slot, and the connections that hold one.
Holders == {a \in Acceptors : acceptor[a] \in {"accept", "closed", "temporary"}}
Live == {c \in Conns : conn[c] \in {"open", "closed"} /\ c \notin released}

\* No slot leaks and none is given back twice: every token in the channel is
\* owned by one Accept in progress or by one connection not yet released, so
\* no release ever finds the channel empty and blocks.
SlotsAccounted == sem = Cardinality(Holders) + Cardinality(Live)

\* The connections handed out follow the abstract cap, whatever the order of
\* accepts, errors, closes and double closes.
Cap == INSTANCE ConnectionCap WITH live <- Live, gone <- released
CapSpec == Cap!Spec
=============================================================================
