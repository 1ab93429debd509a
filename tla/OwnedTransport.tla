--------------------------- MODULE OwnedTransport ---------------------------
(***************************************************************************)
(* Teardown of a transport the library created (transport.go               *)
(* ownedTransport, trackedConn, the dial callbacks of newTransport,        *)
(* closeIdle): dials that outlive their request, net/http closing          *)
(* connections on its own, and closeAll.                                   *)
(*                                                                         *)
(* A section under ownedTransport.mu or inside a sync.Once is one action.  *)
(* Wrapped connections come from DialContext and are forgotten when they   *)
(* close; raw ones come from a caller's DialTLSContext and stay in the map *)
(* until closeAll.                                                         *)
(***************************************************************************)
EXTENDS Naturals

CONSTANTS Wrapped, Raw  \* the dials of a run, by callback

ASSUME TransportAssumption == Wrapped \cap Raw = {}

Dials == Wrapped \cup Raw

\* Who may be inside a connection's Close: net/http, closeAll's loop, or the
\* dial callback that found the transport closed.
Callers == {"http", "closeAll", "late"}

VARIABLES
  socket,   \* each dial's connection: none, dialing, dialled, failed, open, closed
  handed,   \* connections returned to net/http
  conns,    \* ownedTransport.conns
  closed,   \* ownedTransport.closed
  todo,     \* closeAll's snapshot, still to close
  teardown, \* where closeAll is: off, idle, closing, returned
  call      \* where each caller's Close of each connection is

vars == <<socket, handed, conns, closed, todo, teardown, call>>

Init ==
  /\ socket = [d \in Dials |-> "none"]
  /\ handed = {} /\ conns = {} /\ closed = FALSE /\ todo = {}
  /\ teardown = "off"
  /\ call = [d \in Dials |-> [g \in Callers |-> "idle"]]

(***************************************************************************)
(* Dials.  net/http dials in a goroutine that outlives the request.        *)
(***************************************************************************)
Dial(d) ==
  /\ socket[d] = "none"
  /\ socket' = [socket EXCEPT ![d] = "dialing"]
  /\ UNCHANGED <<handed, conns, closed, todo, teardown, call>>

DialOk(d) ==
  /\ socket[d] = "dialing"
  /\ socket' = [socket EXCEPT ![d] = "dialled"]
  /\ UNCHANGED <<handed, conns, closed, todo, teardown, call>>

DialFails(d) ==
  /\ socket[d] = "dialing"
  /\ socket' = [socket EXCEPT ![d] = "failed"]
  /\ UNCHANGED <<handed, conns, closed, todo, teardown, call>>

\* Close of a connection begins: a wrapped one forgets itself first.
Begin(d, g) == [call EXCEPT ![d][g] = IF d \in Wrapped THEN "forget" ELSE "close"]

\* track and trackRaw: filed and handed over, or closed on arrival.
track(d) ==
  /\ socket[d] = "dialled"
  /\ socket' = [socket EXCEPT ![d] = "open"]
  /\ \/ ~closed /\ conns' = conns \cup {d} /\ handed' = handed \cup {d} /\ UNCHANGED call
     \/ closed /\ call' = Begin(d, "late") /\ UNCHANGED <<conns, handed>>
  /\ UNCHANGED <<closed, todo, teardown>>

\* The late connection is returned to net/http once its Close has returned.
HandOverLate(d) ==
  /\ call[d]["late"] = "done" /\ d \notin handed
  /\ handed' = handed \cup {d}
  /\ UNCHANGED <<socket, conns, closed, todo, teardown, call>>

(***************************************************************************)
(* Close of a connection, and of the transport.                            *)
(***************************************************************************)
\* net/http closes a connection it holds whenever it likes: idle, broken,
\* without keep-alive, or from CloseIdleConnections.
HttpClose(d) ==
  /\ d \in handed /\ call[d]["http"] = "idle"
  /\ call' = Begin(d, "http")
  /\ UNCHANGED <<socket, handed, conns, closed, todo, teardown>>

\* The map without the connection, or as it was.
NotForgotten(d) == conns
Forgotten(d) == conns \ {d}

forget(d, g) ==
  /\ call[d][g] = "forget"
  /\ conns' = Forgotten(d)
  /\ call' = [call EXCEPT ![d][g] = "close"]
  /\ UNCHANGED <<socket, handed, closed, todo, teardown>>

ConnClose(d, g) ==
  /\ call[d][g] = "close"
  /\ socket' = [socket EXCEPT ![d] = "closed"]
  /\ call' = [call EXCEPT ![d][g] = "done"]
  /\ UNCHANGED <<handed, conns, closed, todo, teardown>>

closeAll ==
  /\ teardown = "off"
  /\ teardown' = "idle"
  /\ UNCHANGED <<socket, handed, conns, closed, todo, call>>

\* The latch that later dials find set, or left open.
Unlatched == FALSE
Latched == TRUE

Snapshot ==
  /\ teardown = "idle"
  /\ closed' = Latched /\ todo' = conns /\ teardown' = "closing"
  /\ UNCHANGED <<socket, handed, conns, call>>

\* The loop waits for each Close, or does not.
Unwaited == TRUE
LoopIdle == \A e \in Dials : call[e]["closeAll"] \in {"idle", "done"}

\* The loop closes one connection at a time, in any order.
CloseNext(d) ==
  /\ teardown = "closing" /\ d \in todo
  /\ LoopIdle
  /\ todo' = todo \ {d}
  /\ call' = Begin(d, "closeAll")
  /\ UNCHANGED <<socket, handed, conns, closed, teardown>>

CloseAllReturns ==
  /\ teardown = "closing" /\ todo = {}
  /\ LoopIdle
  /\ teardown' = "returned"
  /\ UNCHANGED <<socket, handed, conns, closed, todo, call>>

Next ==
  \/ \E d \in Dials :
       \/ Dial(d) \/ DialOk(d) \/ DialFails(d) \/ track(d) \/ HandOverLate(d) \/ HttpClose(d)
       \/ CloseNext(d)
       \/ \E g \in Callers : forget(d, g) \/ ConnClose(d, g)
  \/ closeAll \/ Snapshot \/ CloseAllReturns

Spec == Init /\ [][Next]_vars
-----------------------------------------------------------------------------
TypeOK ==
  /\ socket \in [Dials -> {"none", "dialing", "dialled", "failed", "open", "closed"}]
  /\ handed \in SUBSET Dials /\ conns \in SUBSET Dials /\ todo \in SUBSET Dials
  /\ closed \in BOOLEAN
  /\ teardown \in {"off", "idle", "closing", "returned"}
  /\ call \in [Dials -> [Callers -> {"idle", "forget", "close", "done"}]]

\* Somebody is inside the connection's Close and will close the socket.
BeingClosed(d) == \E g \in Callers : call[d][g] \in {"forget", "close"}

\* INV-4: when closeAll has returned, every socket the transport opened is
\* closed, unless net/http or a late dial callback is inside its Close; a dial
\* still out is not a socket.
NothingLeftOpen ==
  teardown = "returned" =>
    \A d \in Dials : socket[d] = "open" => \E g \in {"http", "late"} : call[d][g] \in {"forget", "close"}

\* INV-4 for net/http: it is never given an open socket after closeAll has
\* taken its snapshot, so nothing it holds stays open unseen.
LateDialsArriveClosed ==
  [][closed => \A d \in handed' \ handed : socket'[d] = "closed"]_vars

\* An open socket that nobody is closing is in the map, or on closeAll's
\* list: no connection is lost between the two.
OpenIsTracked ==
  \A d \in Dials : socket[d] = "open" /\ ~BeingClosed(d) => d \in conns \cup todo

\* A wrapped connection that is closed is no longer in the map: the map does
\* not grow with the connections a run has finished with.
ClosedIsForgotten ==
  \A d \in Wrapped : socket[d] = "closed" => d \notin conns
=============================================================================
