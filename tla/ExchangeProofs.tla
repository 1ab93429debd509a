--------------------------- MODULE ExchangeProofs ---------------------------
(***************************************************************************)
(* Proofs about one exchange, for any number of racing dial attempts, any  *)
(* body limit and any readings of the clock: the response is closed once,  *)
(* a sample is of a whole response, and its stages fit into its total.     *)
(***************************************************************************)
EXTENDS Exchange, TLAPS

\* What the hooks have recorded, instants and stages.
Times == [dnsStart : Int, connStart : Int, tlsStart : Int, wrote : Int, reused : BOOLEAN,
          DNS : Int, Connect : Int, TLS : Int, TTFB : Int]

TypeInv ==
  /\ kind \in Kinds /\ clock \in Nat \ {0} /\ start \in Nat /\ end \in Nat
  /\ pc \in {"start", "trip", "check", "copy", "defer", "join", "end", "lock", "returned"}
  /\ tr \in {"idle", "asked", "resolving", "dialing", "handshake", "connected", "sent",
             "answered", "failed"}
  /\ dial \in [Attempts -> [at : Nat, ended : {"no", "ok", "failed"}]]
  /\ hook \in {"no", "due", "called"}
  /\ pt \in Times
  /\ resp \in [ok : BOOLEAN, declared : Int, size : Nat, n : Nat]
  /\ cb \in {"none", "armed", "running", "done", "stopped"}
  /\ closes \in Nat

\* Where the exchange is and where the transport is with it.
Progress ==
  /\ pc = "start" => tr = "idle"
  /\ pc \in {"check", "copy", "defer", "join", "end", "lock"} => tr = "answered"
  /\ pc = "returned" => tr \in {"answered", "failed"}

\* The response has been closed by the callback, by the deferred function, or
\* not yet; the deferred function waits for a callback it could not stop.
CloseInv ==
  /\ pc \in {"start", "trip"} => cb = "none" /\ closes = 0
  /\ pc \in {"check", "copy", "defer", "join"} => closes = IF cb = "done" THEN 1 ELSE 0
  /\ pc \in {"check", "copy", "defer"} => cb # "stopped"
  /\ pc = "join" => cb \in {"running", "done"}
  /\ pc \in {"end", "lock"} => cb \in {"none", "stopped"} /\ closes = 1
  /\ pc = "returned" => /\ cb \notin {"armed", "running"} /\ closes <= 1
                        /\ tr = "answered" => closes = 1

\* What is known of the response where the copy is, and of a copy judged good.
Whole == resp.ok /\ resp.n = resp.size /\ resp.n \in 1..MaxBody

CopyInv ==
  /\ pc \in {"start", "trip", "check", "copy"} => out = Nothing
  /\ pc = "copy" => Acceptable
  /\ out \in {Nothing, Failed, Done} \/ (pc = "returned" /\ out.outcome = "sample")
  /\ pc \in {"end", "lock"} => Probing /\ out = Done
  /\ out.outcome = "sample" => Probing
  /\ Probing /\ out.outcome \in {"ok", "sample"} => Whole

ClosedWhole == TypeInv /\ Progress /\ CloseInv /\ CopyInv

\* The marks of a dial, each after the one before: until the connection is
\* there, and of a connection the request dialled for itself.
Dialled == ~pt.reused /\ tr \in {"connected", "sent", "answered"}

Marks ==
  /\ \A a \in Attempts : dial[a].at = NoInstant => dial[a].ended = "no"
  /\ tr \in {"idle", "asked"} => pt = NoTimes
  /\ tr \in {"idle", "asked", "resolving"} => \A a \in Attempts : dial[a].at = NoInstant
  /\ tr = "resolving" =>
       /\ start <= pt.dnsStart /\ pt.dnsStart <= clock /\ pt.DNS = 0
       /\ pt.connStart = NoInstant /\ pt.Connect = 0 /\ pt.TLS = 0
  /\ tr = "dialing" =>
       /\ start + pt.DNS <= clock /\ pt.DNS >= 0 /\ pt.Connect >= 0 /\ pt.TLS = 0
       /\ pt.connStart = NoInstant =>
            pt.Connect = 0 /\ \A a \in Attempts : dial[a].at = NoInstant
       /\ pt.connStart # NoInstant =>
            start + pt.DNS <= pt.connStart /\ pt.connStart + pt.Connect <= clock
       /\ \A a \in Attempts :
            /\ dial[a].at # NoInstant => pt.connStart <= dial[a].at /\ dial[a].at <= clock
            /\ dial[a].ended = "ok" => pt.Connect > 0
  /\ tr = "handshake" =>
       /\ pt.Connect > 0 /\ pt.TLS = 0
       /\ start + pt.DNS + pt.Connect <= pt.tlsStart /\ pt.tlsStart <= clock
  /\ Dialled => pt.Connect > 0 /\ start + pt.DNS + pt.Connect + pt.TLS <= clock

\* The request was written, if the hook has said so, after the connection was
\* there; what the first byte took lies between the write and the answer.
Written ==
  /\ pc # "start" => start \in 1..clock
  /\ tr \in {"idle", "asked", "resolving", "dialing", "handshake"} => ~pt.reused
  /\ tr \notin {"sent", "answered", "failed"} => hook = "no"
  /\ tr \in {"sent", "answered"} => hook # "no"
  /\ hook # "called" => pt.wrote = NoInstant /\ pt.TTFB = 0
  /\ pt.wrote # NoInstant /\ tr # "failed" =>
       /\ start <= pt.wrote /\ pt.wrote <= clock
       /\ Dialled => start + pt.DNS + pt.Connect + pt.TLS <= pt.wrote
  /\ pt.TTFB # 0 /\ tr # "failed" =>
       tr = "answered" /\ pt.wrote # NoInstant /\ pt.wrote + pt.TTFB <= clock
  /\ pc = "lock" =>
       /\ start <= end /\ end <= clock
       /\ Dialled => start + pt.DNS + pt.Connect + pt.TLS <= end
       /\ pt.TTFB # 0 => pt.wrote + pt.TTFB <= end

TimesInv == Marks /\ Written /\ StagesFitTotal

-----------------------------------------------------------------------------
USE DEF Exch, Net, Fixed, NoInstant, NoLength

\* The transport's steps, with what each may change.
LEMMA TransportType == ASSUME TypeInv, Transport PROVE TypeInv'
<1> USE ExchangeAssumption DEF TypeInv, Times
<1>1. CASE DNSStart \/ DNSDone \/ TLSStart \/ TLSDone
  BY <1>1 DEF DNSStart, DNSDone, TLSStart, TLSDone
<1>2. CASE GotReused \/ Send \/ WroteRequest
  <2>1. CASE GotReused
    BY <2>1 DEF GotReused
  <2>2. CASE Send
    BY <2>2 DEF Send
  <2>3. CASE WroteRequest
    BY <2>3 DEF WroteRequest
  <2> QED
    BY <1>2, <2>1, <2>2, <2>3
<1>3. CASE Stall \/ SeeCancel \/ Break \/ WriterEnds
  BY <1>3 DEF Stall, SeeCancel, Break, WriterEnds
<1>4. CASE Answer
  BY <1>4 DEF Answer
<1>5. ASSUME NEW a \in Attempts, ConnectStart(a) PROVE TypeInv'
  BY <1>5 DEF ConnectStart
<1>6. ASSUME NEW a \in Attempts, NEW ok \in BOOLEAN, ConnectDone(a, ok) PROVE TypeInv'
  <2>1. pt' \in Times
    BY <1>6 DEF ConnectDone, ConnectTime
  <2>2. dial' \in [Attempts -> [at : Nat, ended : {"no", "ok", "failed"}]]
    BY <1>6 DEF ConnectDone
  <2> QED
    BY <1>6, <2>1, <2>2 DEF ConnectDone
<1> QED
  BY <1>1, <1>2, <1>3, <1>4, <1>5, <1>6 DEF Transport

\* Every step keeps the types.
LEMMA NextType == TypeInv /\ [Next]_vars => TypeInv'
<1> SUFFICES ASSUME TypeInv, [Next]_vars PROVE TypeInv'
  OBVIOUS
<1> USE DEF TypeInv
<1>1. CASE Tick \/ Cancel
  BY <1>1 DEF Tick, Cancel
<1>2. CASE Caller
  <2>1. CASE Begin \/ TripFails \/ TripOk \/ CheckResponse
    BY <2>1 DEF Begin, TripFails, TripOk, CheckResponse, AfterFunc
  <2>2. CASE CopyByte \/ CopyEnds \/ CopyFails
    BY <2>2 DEF CopyByte, CopyEnds, CopyFails
  <2>3. CASE Defer \/ Join \/ ReadEnd \/ Sample
    BY <2>3 DEF Defer, Join, ReadEnd, Sample, CloseBody, Left
  <2> QED
    BY <1>2, <2>1, <2>2, <2>3 DEF Caller
<1>3. CASE Callback
  BY <1>3 DEF Callback, CbRuns, CbCloses, CloseBody
<1>4. CASE Finished \/ UNCHANGED vars
  BY <1>4 DEF Finished, vars
<1> QED
  BY <1>1, <1>2, <1>3, <1>4, TransportType DEF Next

\* The initial states are well typed.
LEMMA InitType == Init => TypeInv
BY DEF Init, TypeInv, Times, NoTimes

\* The transport answers a request that is waiting, and closes nothing.
LEMMA TransportCloses == ASSUME ClosedWhole, Transport PROVE ClosedWhole'
<1> USE DEF ClosedWhole
<1>1. TypeInv'
  BY TransportType
<1>2. UNCHANGED <<kind, pc, cb, closes, out>>
  BY DEF Transport, DNSStart, DNSDone, ConnectStart, ConnectDone, TLSStart, TLSDone, GotReused,
         Send, WroteRequest, Answer, Stall, SeeCancel, Break, WriterEnds
<1>3. tr' = tr \/ (tr \notin {"idle", "answered", "failed"} /\ tr' # "idle")
  BY DEF Transport, DNSStart, DNSDone, ConnectStart, ConnectDone, TLSStart, TLSDone, GotReused,
         Send, WroteRequest, Answer, Stall, SeeCancel, Break, WriterEnds
<1>4. resp' = resp \/ pc = "trip"
  BY DEF Progress, TypeInv, Transport, DNSStart, DNSDone, ConnectStart, ConnectDone, TLSStart,
         TLSDone, GotReused, Send, WroteRequest, Answer, Stall, SeeCancel, Break, WriterEnds
<1>5. Progress' /\ CloseInv'
  BY <1>2, <1>3 DEF TypeInv, Progress, CloseInv
<1>6. CopyInv'
  BY <1>2, <1>4 DEF CopyInv, Acceptable, Whole, Probing, Nothing, Done
<1> QED
  BY <1>1, <1>5, <1>6

\* The exchange closes the response unless the callback has, and believes a
\* probe's copy only when it came to the end of an acceptable response.
LEMMA CallerCloses == ASSUME ClosedWhole, Caller, TypeInv' PROVE ClosedWhole'
<1> USE DEF ClosedWhole, TypeInv, Progress, CloseInv, CopyInv, Probing, Nothing, Failed, Done, Whole
<1>1. CASE Begin \/ TripFails
  BY <1>1 DEF Begin, TripFails
<1>2. CASE TripOk
  BY <1>2 DEF TripOk, AfterFunc
<1>3. CASE CheckResponse
  BY <1>3 DEF CheckResponse, Acceptable
<1>4. CASE CopyByte
  BY <1>4 DEF CopyByte, Acceptable
<1>5. CASE CopyEnds
  <2>1. out' \in {Failed, Done} /\ (Probing /\ out' = Done => Whole)
    BY <1>5, ExchangeAssumption DEF CopyEnds, Judge, AtLimit, Limit, Acceptable
  <2>2. UNCHANGED <<kind, resp, tr, cb, closes>> /\ pc = "copy" /\ pc' = "defer"
    BY <1>5 DEF CopyEnds
  <2>3. Progress' /\ CloseInv'
    BY <2>2
  <2>4. CopyInv'
    BY <2>1, <2>2
  <2> QED
    BY <2>3, <2>4
<1>6. CASE CopyFails
  BY <1>6 DEF CopyFails
<1>7. CASE Defer
  BY <1>7 DEF Defer, Stopped, CloseBody, Left
<1>8. CASE Join \/ ReadEnd
  BY <1>8 DEF Join, ReadEnd
<1>9. CASE Sample
  BY <1>9 DEF Sample
<1> QED
  BY <1>1, <1>2, <1>3, <1>4, <1>5, <1>6, <1>7, <1>8, <1>9 DEF Caller

\* ClosedWhole holds in every reachable state.
LEMMA ClosedWholeHolds == Spec => []ClosedWhole
<1>1. Init => ClosedWhole
  BY InitType DEF Init, ClosedWhole, Progress, CloseInv, CopyInv, Nothing
<1>2. ClosedWhole /\ [Next]_vars => ClosedWhole'
  <2> SUFFICES ASSUME ClosedWhole, [Next]_vars PROVE ClosedWhole'
    OBVIOUS
  <2>1. TypeInv'
    BY NextType DEF ClosedWhole
  <2>2. CASE Tick \/ Cancel \/ Finished \/ UNCHANGED vars
    <3>1. UNCHANGED <<kind, pc, tr, resp, cb, closes, out>>
      BY <2>2 DEF Tick, Cancel, Finished, vars
    <3> QED
      BY <2>1, <3>1 DEF ClosedWhole, Progress, CloseInv, CopyInv, Acceptable, Whole, Probing,
                        Nothing, Done
  <2>3. CASE Callback
    BY <2>1, <2>3 DEF Callback, CbRuns, CbCloses, CloseBody, ClosedWhole, TypeInv, Progress,
       CloseInv, CopyInv, Acceptable, Whole, Probing, Nothing, Done
  <2> QED
    BY <2>1, <2>2, <2>3, TransportCloses, CallerCloses DEF Next
<1> QED
  BY <1>1, <1>2, PTL DEF Spec

\* A response is closed exactly once, however the cancellation's callback
\* interleaves with the end of the exchange.
THEOREM ResponseClosedOnce == Spec => []BodyClosedOnce
<1>1. ClosedWhole => BodyClosedOnce
  BY DEF ClosedWhole, TypeInv, Progress, CloseInv, BodyClosedOnce
<1> QED
  BY <1>1, ClosedWholeHolds, PTL

\* Whatever length the peer declares and sends, and wherever the stream
\* breaks, a probe whose response was not read whole yields no sample.
THEOREM SampleOfWholeResponse == Spec => []ProbeWasWhole
<1>1. ClosedWhole => ProbeWasWhole
  <2> SUFFICES ASSUME ClosedWhole, out.outcome = "sample" PROVE Whole
    BY DEF ProbeWasWhole, Whole
  <2> QED
    BY DEF ClosedWhole, CopyInv
<1> QED
  BY <1>1, ClosedWholeHolds, PTL

-----------------------------------------------------------------------------
(***************************************************************************)
(* The times.  Each mark is read after the one before and the clock does   *)
(* not go back, so the stages of a dial, the write and the first byte lie  *)
(* one after the other between start and end.                              *)
(***************************************************************************)
\* The dial's steps up to the address and the connection attempts.
LEMMA ResolveTimes ==
  ASSUME TypeInv, Progress, Marks, Written, DNSStart \/ DNSDone
  PROVE  Marks' /\ Written'
<1> USE DEF TypeInv, Times, Dialled
<1>1. CASE DNSStart
  BY <1>1 DEF DNSStart, NoTimes, Progress, Marks, Written
<1>2. CASE DNSDone
  BY <1>2 DEF DNSDone, Progress, Marks, Written
<1> QED
  BY <1>1, <1>2

\* The first attempt to start marks the connection's start.
LEMMA ConnectTimes ==
  ASSUME NEW a \in Attempts, TypeInv, Progress, Marks, Written, ConnectStart(a)
  PROVE  Marks' /\ Written'
<1> USE DEF TypeInv, Times, Dialled
<1>1. /\ tr = "dialing" /\ tr' = tr /\ dial[a].at = NoInstant
      /\ UNCHANGED <<kind, pc, clock, start, end, hook>>
      /\ dial'[a].at = clock /\ dial'[a].ended = dial[a].ended
      /\ \A b \in Attempts \ {a} : dial'[b] = dial[b]
      /\ pt' = [pt EXCEPT !.connStart = IF @ = NoInstant THEN clock ELSE @]
  BY DEF ConnectStart
<1>2. CASE pt.connStart = NoInstant
  BY <1>1, <1>2 DEF Marks, Written
<1>3. CASE pt.connStart # NoInstant
  BY <1>1, <1>3 DEF Marks, Written
<1> QED
  BY <1>2, <1>3

\* The first attempt to connect gives the time; it took some, so that no
\* later one, of an attempt that lost the race, can replace it.
LEMMA ConnectedTimes ==
  ASSUME NEW a \in Attempts, NEW ok \in BOOLEAN, TypeInv, Progress, Marks, Written,
         ConnectDone(a, ok)
  PROVE  Marks' /\ Written'
<1> USE DEF TypeInv, Times, Dialled
<1>1. /\ dial[a].at \notin {NoInstant, clock} /\ dial'[a].at = dial[a].at
      /\ dial'[a].ended = (IF ok THEN "ok" ELSE "failed")
      /\ \A b \in Attempts \ {a} : dial'[b] = dial[b]
      /\ UNCHANGED <<kind, pc, clock, start, end, hook, tr>>
  BY DEF ConnectDone
<1>2. tr \notin {"idle", "asked", "resolving"}
  BY <1>1 DEF Marks
<1>3. CASE ok /\ pt.Connect = 0
  <2>1. pt' = [pt EXCEPT !.Connect = clock - pt.connStart]
    BY <1>3 DEF ConnectDone, ConnectTime
  <2>2. tr # "handshake" /\ ~Dialled
    BY <1>3 DEF Marks
  <2>3. tr = "dialing" => pt.connStart # NoInstant /\ pt.connStart < clock
    BY <1>1 DEF Marks
  <2> QED
    BY <1>1, <1>2, <2>1, <2>2, <2>3 DEF Marks, Written
<1>4. CASE ~(ok /\ pt.Connect = 0)
  <2>1. pt' = pt /\ (ok => pt.Connect # 0)
    BY <1>4 DEF ConnectDone, ConnectTime
  <2>2. tr = "dialing" /\ ok => pt.Connect > 0
    BY <2>1 DEF Marks
  <2> QED
    BY <1>1, <1>2, <2>1, <2>2 DEF Marks, Written
<1> QED
  BY <1>3, <1>4

\* The handshake, and the connection the request is given.
LEMMA HandshakeTimes ==
  ASSUME TypeInv, Progress, Marks, Written, TLSStart \/ TLSDone \/ GotReused
  PROVE  Marks' /\ Written'
<1> USE DEF TypeInv, Times, Dialled
<1>1. CASE TLSStart
  <2>1. pt.Connect > 0 /\ pt.connStart # NoInstant
    BY <1>1 DEF TLSStart, Marks
  <2> QED
    BY <1>1, <2>1 DEF TLSStart, Progress, Marks, Written
<1>2. CASE TLSDone
  BY <1>2 DEF TLSDone, Progress, Marks, Written
<1>3. CASE GotReused
  BY <1>3 DEF GotReused, Progress, Marks, Written, NoTimes
<1> QED
  BY <1>1, <1>2, <1>3

\* The request is written after the connection is there, and answered; the
\* write may be seen after the answer, or never.
LEMMA RequestTimes ==
  ASSUME TypeInv, Progress, Marks, Written, Send \/ WroteRequest \/ Answer
  PROVE  Marks' /\ Written'
<1> USE DEF TypeInv, Times, Dialled
<1>1. CASE Send
  BY <1>1 DEF Send, Progress, Marks, Written
<1>2. CASE WroteRequest
  <2>1. /\ UNCHANGED <<kind, pc, clock, start, end, tr, dial>>
        /\ hook = "due" /\ hook' = "called" /\ pt' = [pt EXCEPT !.wrote = clock]
    BY <1>2 DEF WroteRequest
  <2>2. Marks'
    BY <2>1 DEF Progress, Marks, Written
  <2>3. Written'
    BY <2>1 DEF Progress, Marks, Written
  <2> QED
    BY <2>2, <2>3
<1>3. CASE Answer
  <2>1. /\ UNCHANGED <<kind, pc, clock, start, end, dial, hook>>
        /\ tr = "sent" /\ tr' = "answered"
        /\ \/ pt' = pt
           \/ pt.wrote # NoInstant /\ pt' = [pt EXCEPT !.TTFB = clock - pt.wrote]
    BY <1>3 DEF Answer
  <2>2. pc = "trip" /\ hook # "no" /\ pt.TTFB = 0
    BY <2>1 DEF Progress, Written
  <2>3. Marks'
    BY <2>1 DEF Marks
  <2>4. Written'
    BY <2>1, <2>2 DEF Written
  <2> QED
    BY <2>3, <2>4
<1> QED
  BY <1>1, <1>2, <1>3

\* The caller's two readings are the outer marks.
LEMMA CallerTimes ==
  ASSUME TypeInv, Progress, Marks, Written, Caller
  PROVE  Marks' /\ Written'
<1> USE DEF TypeInv, Times, Dialled
<1>1. CASE Begin
  BY <1>1 DEF Begin, Progress, Marks, Written, NoTimes
<1>2. CASE TripFails
  BY <1>2 DEF TripFails, Progress, Marks, Written
<1>3. CASE ReadEnd
  BY <1>3 DEF ReadEnd, Progress, Marks, Written
<1>4. CASE TripOk \/ CheckResponse \/ CopyByte \/ CopyEnds \/ CopyFails \/ Defer \/ Join \/ Sample
  <2>1. UNCHANGED <<clock, start, end, tr, dial, hook, pt>> /\ pc # "start" /\ pc' \notin {"start", "lock"}
    BY <1>4 DEF TripOk, CheckResponse, CopyByte, CopyEnds, CopyFails, Defer, Join, Sample, CloseBody, Left
  <2> QED
    BY <2>1 DEF Marks, Written
<1> QED
  BY <1>1, <1>2, <1>3, <1>4 DEF Caller

\* A sample is computed from marks in their order.
LEMMA SampleFits ==
  ASSUME TypeInv, ClosedWhole, Marks, Written, Sample
  PROVE  StagesFitTotal'
<1> USE DEF TypeInv, Times
<1>1. tr = "answered" /\ pc = "lock"
  BY DEF Sample, ClosedWhole, Progress
<1>2. /\ out'.Total = end - start /\ out'.HTTP = end - Since /\ out'.TTFB = pt.TTFB
      /\ out'.DNS = Stage(pt.DNS) /\ out'.Connect = Stage(pt.Connect) /\ out'.TLS = Stage(pt.TLS)
  BY DEF Sample
<1>3. start <= end /\ (pt.wrote # NoInstant => start <= pt.wrote)
  BY <1>1 DEF Written
<1>4. out'.DNS + out'.Connect + out'.TLS <= end - start
      /\ (pt.wrote # NoInstant => out'.DNS + out'.Connect + out'.TLS <= pt.wrote - start)
  <2>1. CASE pt.reused
    BY <1>2, <1>3, <2>1 DEF Stage
  <2>2. CASE ~pt.reused
    BY <1>1, <1>2, <2>2 DEF Stage, Dialled, Written
  <2> QED
    BY <2>1, <2>2
<1>5. out'.DNS \in Int /\ out'.Connect \in Int /\ out'.TLS \in Int
  BY <1>2 DEF Stage
<1>6. out'.HTTP # out'.Total => out'.DNS + out'.Connect + out'.TLS + out'.HTTP <= out'.Total
  BY <1>2, <1>4, <1>5 DEF Since
<1>7. out'.TTFB # 0 => out'.TTFB <= out'.HTTP
  BY <1>1, <1>2 DEF Since, Written
<1> QED
  BY <1>2, <1>4, <1>6, <1>7 DEF StagesFitTotal

\* No hook that comes late, out of order or not at all makes the stages of a
\* sample overlap: they fit into its total, for any readings of the clock.
THEOREM SampleStagesFit == Spec => []StagesFitTotal
<1>1. Init => TimesInv
  BY DEF Init, TimesInv, Marks, Written, StagesFitTotal, Dialled, NoTimes, Nothing
<1>2. ClosedWhole /\ TimesInv /\ [Next]_vars => TimesInv'
  <2> SUFFICES ASSUME ClosedWhole, TypeInv, Progress, Marks, Written, StagesFitTotal, [Next]_vars
               PROVE  TimesInv'
    BY DEF ClosedWhole, TimesInv
  <2>1. Marks' /\ Written'
    <3>1. CASE Tick
      BY <3>1 DEF Tick, TypeInv, Times, Marks, Written, Dialled
    <3>2. CASE Cancel \/ Callback \/ Finished \/ UNCHANGED vars \/ Stall \/ SeeCancel \/ Break
               \/ WriterEnds
      <4>1. UNCHANGED <<clock, start, end, tr, dial, hook, pt, pc>>
        BY <3>2 DEF Cancel, Callback, CbRuns, CbCloses, Finished, vars, Stall, SeeCancel, Break,
                    WriterEnds
      <4> QED
        BY <4>1 DEF Marks, Written, Dialled
    <3> QED
      BY <3>1, <3>2, ResolveTimes, ConnectTimes, ConnectedTimes, HandshakeTimes, RequestTimes,
         CallerTimes DEF Next, Transport
  <2>2. StagesFitTotal'
    <3>1. CASE Sample
      BY <3>1, SampleFits
    <3>2. CASE out' \in {Failed, Done}
      BY <3>2 DEF Failed, Done, StagesFitTotal
    <3>3. CASE out' = out
      BY <3>3 DEF StagesFitTotal
    <3>4. Transport => out' = out
      BY DEF Transport, DNSStart, DNSDone, ConnectStart, ConnectDone, TLSStart, TLSDone, GotReused,
             Send, WroteRequest, Answer, Stall, SeeCancel, Break, WriterEnds
    <3>5. Caller => out' = out \/ out' \in {Failed, Done} \/ Sample
      BY DEF Caller, Begin, TripFails, TripOk, CheckResponse, CopyByte, CopyEnds, CopyFails, Judge,
             Defer, Join, ReadEnd
    <3> QED
      BY <3>1, <3>2, <3>3, <3>4, <3>5 DEF Next, Tick, Cancel, Callback, CbRuns, CbCloses, Finished, vars
  <2> QED
    BY <2>1, <2>2 DEF TimesInv
<1>3. TimesInv => StagesFitTotal
  BY DEF TimesInv
<1> QED
  BY <1>1, <1>2, <1>3, ClosedWholeHolds, PTL DEF Spec
=============================================================================
