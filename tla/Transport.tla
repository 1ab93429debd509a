----------------------------- MODULE Transport -----------------------------
(***************************************************************************)
(* The transports of a run: the dial callbacks newTransport installs, with *)
(* the connection tracking of OwnedTransport and the two address sets of   *)
(* the factory that every callback fills before it hands its connection    *)
(* over.                                                                   *)
(***************************************************************************)
EXTENDS OwnedTransport, Sequences

CONSTANTS
  RemoteOf, LocalOf,  \* the addresses of each connection
  NoAddr

VARIABLES
  remote, remoteAt, remoteCur,  \* factory.remote and the calls of its add
  local, localAt, localCur      \* factory.local

remoteVars == <<remote, remoteAt, remoteCur>>
localVars == <<local, localAt, localCur>>
all == <<vars, remoteVars, localVars>>

Remote == INSTANCE AddrSet WITH
  Adders <- Dials, AddrOf <- RemoteOf, list <- remote, at <- remoteAt, cur <- remoteCur
Local == INSTANCE AddrSet WITH
  Adders <- Dials, AddrOf <- LocalOf, list <- local, at <- localAt, cur <- localCur

TransportInit == Init /\ Remote!Init /\ Local!Init

\* The callback after the inner dial: the remote address, the local one, and
\* only then the connection is tracked and returned.
AddRemote(d) ==
  /\ socket[d] = "dialled" /\ Remote!add(d)
  /\ UNCHANGED <<vars, localVars>>

AddLocal(d) ==
  /\ socket[d] = "dialled" /\ Remote!Returned(d) /\ Local!add(d)
  /\ UNCHANGED <<vars, remoteVars>>

Recorded(d) == Remote!Returned(d) /\ Local!Returned(d)

Track(d) == Recorded(d) /\ track(d) /\ UNCHANGED <<remoteVars, localVars>>

\* Every other step leaves the sets alone.
Elsewhere(A) == A /\ UNCHANGED <<remoteVars, localVars>>

Dialling(d) == Elsewhere(Dial(d) \/ DialOk(d) \/ DialFails(d))
Closing(d) ==
  Elsewhere(HandOverLate(d) \/ HttpClose(d) \/ CloseNext(d) \/ \E g \in Callers : forget(d, g) \/ ConnClose(d, g))
Teardown == Elsewhere(closeAll \/ Snapshot \/ CloseAllReturns)

TransportNext ==
  \/ \E d \in Dials : Dialling(d) \/ AddRemote(d) \/ AddLocal(d) \/ Track(d) \/ Closing(d)
  \/ Teardown

TransportSpec == TransportInit /\ [][TransportNext]_all

\* Goroutines that can run do, a dial returns, and the phase tears down the
\* transport it made (closeIdle is deferred or follows the join).
FairSpec ==
  /\ TransportSpec /\ WF_all(Teardown)
  /\ \A d \in Dials :
       /\ WF_all(Elsewhere(DialOk(d) \/ DialFails(d)))
       /\ WF_all(AddRemote(d)) /\ WF_all(AddLocal(d)) /\ WF_all(Track(d))
       /\ WF_all(Elsewhere(CloseNext(d)))
       /\ \A g \in Callers : WF_all(Elsewhere(forget(d, g) \/ ConnClose(d, g)))
-----------------------------------------------------------------------------
\* The doc comment of addrSet and the ResolvedIPs and LocalIPs of a result:
\* whatever dials race, each set lists an address once, and the addresses of
\* every connection the load or the probes may use are listed.
AddressesListed ==
  /\ Remote!AddedOnce /\ Local!AddedOnce
  /\ \A d \in handed : Recorded(d)

\* INV-4: every socket the transport ever opened is closed in the end, though
\* the callbacks retry their adds and the dial outlives the teardown.
AllSocketsClose ==
  \A d \in Dials : (socket[d] \in {"dialing", "dialled", "open"}) ~> (socket[d] \in {"failed", "closed"})
=============================================================================
