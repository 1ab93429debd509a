------------------------------ MODULE Exchange ------------------------------
(***************************************************************************)
(* One HTTP exchange of the client: a request of a load flow (load.go      *)
(* oneRequest) or a probe (probe.go foreignProbe, selfProbe, doProbe),     *)
(* against the goroutines it shares state with: the transport's dial and   *)
(* writer, which call the httptrace hooks, and the callback of             *)
(* context.AfterFunc that closes an upload's response.                     *)
(*                                                                         *)
(* A hook takes the probe's mutex and reads the clock inside it, so each   *)
(* is one step.  The transport is external: it calls the hooks of a dial   *)
(* in order, may call WroteRequest at any time after the request was       *)
(* sent, and the peer answers, stalls or fails as it likes.                *)
(***************************************************************************)
EXTENDS Integers, FiniteSets

CONSTANTS
  Kinds,      \* of "download", "upload", "foreign" and "self"
  Attempts,   \* the addresses a dial races
  MaxBody,    \* maxProbeBodyBytes
  MaxClock    \* bound of the model: clock readings

ASSUME ExchangeAssumption ==
  /\ Kinds \subseteq {"download", "upload", "foreign", "self"}
  /\ MaxBody \in Nat \ {0} /\ MaxClock \in Nat

NoInstant == 0        \* the zero instant; the clock starts at 1
NoLength == -1        \* a response without Content-Length

VARIABLES
  kind,     \* what the exchange is for
  pc,       \* the goroutine of the exchange
  clock,    \* monoNow
  ctx,      \* the request's context: "live" or "done"
  tr,       \* how far the transport is with the request
  dial,     \* the racing connection attempts: when each began, and how it ended
  hook,     \* the WroteRequest hook: "no", "due" or "called"
  pt,       \* probeTimes: stages, their starts, and reused
  start, end,  \* the readings before and after the exchange
  resp,     \* the response: status, declared and actual length, bytes read
  stream,   \* the response body: "none", "open", "ended" or "aborted"
  writer,   \* the transport's writer of an upload's body
  cb,       \* the AfterFunc callback
  closes,   \* calls of resp.Body.Close
  out       \* what the exchange returned

vars == <<kind, pc, clock, ctx, tr, dial, hook, pt, start, end, resp, stream, writer, cb, closes, out>>

Probing == kind \in {"foreign", "self"}
NoTimes == [dnsStart |-> NoInstant, connStart |-> NoInstant, tlsStart |-> NoInstant, wrote |-> NoInstant,
            reused |-> FALSE, DNS |-> 0, Connect |-> 0, TLS |-> 0, TTFB |-> 0]
Nothing == [outcome |-> "none"]
Failed == [outcome |-> "error"]
Done == [outcome |-> "ok"]

Init ==
  /\ kind \in Kinds
  /\ pc = "start" /\ clock = 1 /\ ctx = "live"
  /\ tr = "idle" /\ dial = [a \in Attempts |-> [at |-> NoInstant, ended |-> "no"]]
  /\ hook = "no" /\ pt = NoTimes /\ start = NoInstant /\ end = NoInstant
  /\ resp = [ok |-> TRUE, declared |-> NoLength, size |-> 0, n |-> 0]
  /\ stream = "none" /\ cb = "none" /\ closes = 0 /\ out = Nothing
  /\ writer = IF kind = "upload" THEN "writing" ELSE "done"

\* Only probes read the clock.
Tick ==
  /\ Probing /\ clock < MaxClock /\ clock' = clock + 1
  /\ UNCHANGED <<kind, pc, ctx, tr, dial, hook, pt, start, end, resp, stream, writer, cb, closes, out>>

Cancel ==
  /\ ctx = "live" /\ ctx' = "done"
  /\ UNCHANGED <<kind, pc, clock, tr, dial, hook, pt, start, end, resp, stream, writer, cb, closes, out>>
-----------------------------------------------------------------------------
(***************************************************************************)
(* The transport: dial, TLS, write, answer.  A foreign probe dials; a      *)
(* custom RoundTripper may give even that one a connection it has.         *)
(***************************************************************************)
Exch == <<kind, pc, clock, ctx, start, end, cb, closes, out>>

DNSStart ==
  /\ tr = "asked" /\ kind = "foreign"
  /\ tr' = "resolving" /\ pt' = [pt EXCEPT !.dnsStart = clock]
  /\ UNCHANGED <<Exch, dial, hook, resp, stream, writer>>

DNSDone ==
  /\ tr = "resolving"
  /\ tr' = "dialing" /\ pt' = [pt EXCEPT !.DNS = clock - pt.dnsStart]
  /\ UNCHANGED <<Exch, dial, hook, resp, stream, writer>>

ConnectStart(a) ==
  /\ tr = "dialing" /\ dial[a].at = NoInstant
  /\ dial' = [dial EXCEPT ![a].at = clock]
  /\ pt' = [pt EXCEPT !.connStart = IF @ = NoInstant THEN clock ELSE @]
  /\ UNCHANGED <<Exch, tr, hook, resp, stream, writer>>

\* The first attempt that connects is the connection's; later ones are dropped.
ConnectTimeOfLast(p) == [p EXCEPT !.Connect = clock - p.connStart]
ConnectTime(p) == IF p.Connect = 0 THEN [p EXCEPT !.Connect = clock - p.connStart] ELSE p

\* An attempt takes time, and a loser may connect after the winner.
ConnectDone(a, ok) ==
  /\ dial[a].ended = "no" /\ dial[a].at \notin {NoInstant, clock}
  /\ dial' = [dial EXCEPT ![a].ended = IF ok THEN "ok" ELSE "failed"]
  /\ pt' = IF ok THEN ConnectTime(pt) ELSE pt
  /\ UNCHANGED <<Exch, tr, hook, resp, stream, writer>>

TLSStart ==
  /\ tr = "dialing" /\ \E a \in Attempts : dial[a].ended = "ok"
  /\ tr' = "handshake" /\ pt' = [pt EXCEPT !.tlsStart = clock]
  /\ UNCHANGED <<Exch, dial, hook, resp, stream, writer>>

\* TLSHandshakeDone, then GotConn with the new connection.
TLSDone ==
  /\ tr = "handshake"
  /\ tr' = "connected" /\ pt' = [pt EXCEPT !.TLS = clock - pt.tlsStart]
  /\ UNCHANGED <<Exch, dial, hook, resp, stream, writer>>

\* GotConn with a pooled connection, whatever dial was begun.
GotReused ==
  /\ tr \in {"asked", "resolving", "dialing", "handshake"}
  /\ tr' = "connected" /\ pt' = [pt EXCEPT !.reused = TRUE]
  /\ UNCHANGED <<Exch, dial, hook, resp, stream, writer>>

Send ==
  /\ tr = "connected"
  /\ tr' = "sent" /\ hook' = "due"
  /\ UNCHANGED <<Exch, dial, pt, resp, stream, writer>>

WroteRequest ==
  /\ hook = "due" /\ hook' = "called"
  /\ pt' = [pt EXCEPT !.wrote = clock]
  /\ UNCHANGED <<Exch, tr, dial, resp, stream, writer>>

\* GotFirstResponseByte and the headers; an upload's come while it is writing.
Answer ==
  /\ tr = "sent" /\ tr' = "answered" /\ stream' = "open"
  /\ \E ok \in BOOLEAN, size \in 0..MaxBody + 1, declared \in BOOLEAN :
       resp' = [ok |-> ok, declared |-> IF declared THEN size ELSE NoLength, size |-> size, n |-> 0]
  /\ pt' = IF kind # "foreign" \/ pt.wrote = NoInstant THEN pt ELSE [pt EXCEPT !.TTFB = clock - pt.wrote]
  /\ UNCHANGED <<Exch, dial, hook, writer>>

\* The peer of an upload stops reading: the writer waits for flow control.
Stall ==
  /\ writer = "writing" /\ writer' = "stuck"
  /\ UNCHANGED <<Exch, tr, dial, hook, pt, resp, stream>>

\* The transport sees the cancellation, unless the writer is asleep in flow
\* control once there are headers.
SeeCancel ==
  /\ ctx = "done" /\ stream = "open" /\ writer # "stuck"
  /\ stream' = "aborted"
  /\ UNCHANGED <<Exch, tr, dial, hook, pt, resp, writer>>

\* The connection breaks under the response.
Break ==
  /\ stream = "open" /\ stream' = "aborted"
  /\ UNCHANGED <<Exch, tr, dial, hook, pt, resp, writer>>

\* An aborted stream, or a request that failed, wakes the writer.
WriterEnds ==
  /\ writer # "done" /\ (stream = "aborted" \/ tr = "failed")
  /\ writer' = "done"
  /\ UNCHANGED <<Exch, tr, dial, hook, pt, resp, stream>>
-----------------------------------------------------------------------------
(***************************************************************************)
(* The exchange.  A probe reads the clock before and after; between the    *)
(* second reading and the mutex a hook may still come.                     *)
(***************************************************************************)
Net == <<tr, dial, hook, pt, resp, stream, writer>>
Fixed == <<kind, clock, ctx>>

Begin ==
  /\ pc = "start" /\ pc' = "trip"
  /\ start' = clock /\ tr' = "asked"
  /\ UNCHANGED <<Fixed, dial, hook, pt, resp, stream, writer, end, cb, closes, out>>

\* RoundTrip fails, and always does after a cancellation before the headers.
TripFails ==
  /\ pc = "trip" /\ tr # "answered"
  /\ pc' = "returned" /\ out' = Failed /\ tr' = "failed"
  /\ UNCHANGED <<Fixed, dial, hook, pt, resp, stream, writer, start, end, cb, closes>>

\* The close that an upload registers to have called on cancellation.
NoAfterFunc == "none"
AfterFunc == IF kind = "upload" THEN "armed" ELSE "none"

TripOk ==
  /\ pc = "trip" /\ tr = "answered"
  /\ pc' = "check" /\ cb' = AfterFunc
  /\ UNCHANGED <<Fixed, Net, start, end, closes, out>>

\* checkStatus, and a probe's declared length.
Acceptable == resp.ok /\ (Probing => resp.declared <= MaxBody)

CheckResponse ==
  /\ pc = "check"
  /\ IF Acceptable THEN pc' = "copy" /\ UNCHANGED out ELSE pc' = "defer" /\ out' = Failed
  /\ UNCHANGED <<Fixed, Net, start, end, cb, closes>>

\* io.Copy, for a probe through a reader limited to one byte more than allowed.
LimitExact == MaxBody
Limit == MaxBody + 1
AtLimit == Probing /\ resp.n = Limit

CopyByte ==
  /\ pc = "copy" /\ stream = "open" /\ resp.n < resp.size /\ ~AtLimit
  /\ resp' = [resp EXCEPT !.n = @ + 1]
  /\ UNCHANGED <<Fixed, tr, dial, hook, pt, stream, writer, pc, start, end, cb, closes, out>>

\* What the caller makes of a copy that came to its end.
Judge == IF Probing /\ (resp.n = 0 \/ resp.n > MaxBody) THEN Failed ELSE Done

CopyEnds ==
  /\ pc = "copy" /\ stream = "open" /\ (resp.n = resp.size \/ AtLimit)
  /\ pc' = "defer" /\ out' = Judge
  /\ stream' = IF resp.n = resp.size THEN "ended" ELSE stream
  /\ UNCHANGED <<Fixed, tr, dial, hook, pt, resp, writer, start, end, cb, closes>>

CopyFails ==
  /\ pc = "copy" /\ stream = "aborted"
  /\ pc' = "defer" /\ out' = Failed
  /\ UNCHANGED <<Fixed, Net, start, end, cb, closes>>

CloseBody == closes' = closes + 1 /\ stream' = "aborted"
Left == IF Probing /\ out = Done THEN "end" ELSE "returned"

\* stop() keeps the callback from running, or it has been started.
StopIgnored == TRUE
Stopped == cb \in {"none", "armed"}

Defer ==
  /\ pc = "defer"
  /\ IF Stopped
     THEN pc' = Left /\ CloseBody /\ cb' = IF cb = "armed" THEN "stopped" ELSE cb
     ELSE pc' = "join" /\ UNCHANGED <<closes, stream, cb>>
  /\ UNCHANGED <<Fixed, tr, dial, hook, pt, resp, writer, start, end, out>>

Join ==
  /\ pc = "join" /\ cb = "done"
  /\ pc' = "returned"
  /\ UNCHANGED <<Fixed, Net, start, end, cb, closes, out>>

\* The callback, on a goroutine of its own.
CbRuns ==
  /\ cb = "armed" /\ ctx = "done"
  /\ cb' = "running"
  /\ UNCHANGED <<Fixed, Net, pc, start, end, closes, out>>

CbCloses ==
  /\ cb = "running"
  /\ cb' = "done" /\ CloseBody
  /\ UNCHANGED <<Fixed, tr, dial, hook, pt, resp, writer, pc, start, end, out>>

\* end := now()
ReadEnd ==
  /\ pc = "end" /\ pc' = "lock" /\ end' = clock
  /\ UNCHANGED <<Fixed, Net, start, cb, closes, out>>

\* The sample, from what the hooks have left under the mutex.
Since == IF pt.wrote = NoInstant THEN start ELSE pt.wrote
Stage(d) == IF pt.reused THEN 0 ELSE d

Sample ==
  /\ pc = "lock" /\ pc' = "returned"
  /\ out' = [outcome |-> "sample", Total |-> end - start, HTTP |-> end - Since, TTFB |-> pt.TTFB,
             Staged |-> kind = "foreign" /\ ~pt.reused,
             DNS |-> Stage(pt.DNS), Connect |-> Stage(pt.Connect), TLS |-> Stage(pt.TLS)]
  /\ UNCHANGED <<Fixed, Net, start, end, cb, closes>>

Transport ==
  \/ DNSStart \/ DNSDone \/ TLSStart \/ TLSDone \/ GotReused \/ Send \/ WroteRequest \/ Answer
  \/ \E a \in Attempts : ConnectStart(a) \/ \E ok \in BOOLEAN : ConnectDone(a, ok)
  \/ Stall \/ SeeCancel \/ Break \/ WriterEnds
Caller ==
  \/ Begin \/ TripFails \/ TripOk \/ CheckResponse \/ CopyByte \/ CopyEnds \/ CopyFails
  \/ Defer \/ Join \/ ReadEnd \/ Sample
Callback == CbRuns \/ CbCloses
Finished == pc = "returned" /\ UNCHANGED vars

Next == Tick \/ Cancel \/ Transport \/ Caller \/ Callback \/ Finished

\* Goroutines run, and the transport reacts to a cancellation and to the end
\* of a stream; nothing makes the peer answer or send.
Fairness ==
  /\ WF_vars(ctx = "done" /\ TripFails) /\ WF_vars(TripOk \/ CheckResponse \/ CopyFails)
  /\ WF_vars(Defer \/ Join) /\ WF_vars(ReadEnd \/ Sample) /\ WF_vars(Callback)
  /\ WF_vars(SeeCancel) /\ WF_vars(WriterEnds)

Spec == Init /\ [][Next]_vars /\ Fairness
-----------------------------------------------------------------------------
\* An exchange that returns has closed its response exactly once, whoever won
\* between the callback and the deferred function, and has left no callback
\* that could still close it.
BodyClosedOnce ==
  /\ closes <= 1
  /\ pc = "returned" =>
       /\ cb \notin {"armed", "running"}
       /\ tr = "answered" => closes = 1

\* A cancelled exchange that was begun ends, although a peer that answered early
\* and stopped reading has put the upload's writer to sleep; so does the writer.
ExchangeReturns ==
  (ctx = "done" /\ pc # "start") ~> (pc = "returned" /\ writer = "done")

\* A probe counts only if its whole response was read and was 1 to MaxBody bytes.
ProbeWasWhole ==
  out.outcome = "sample" => resp.ok /\ resp.n = resp.size /\ resp.n \in 1..MaxBody

\* The stages of a sample are of one connection: they do not overlap, so they
\* fit into its total, with the request time when the write was seen (it is the
\* total otherwise), and the time to the first byte fits into the request time.
StagesFitTotal ==
  out.outcome = "sample" =>
    LET connection == out.DNS + out.Connect + out.TLS IN
      /\ connection <= out.Total
      /\ out.HTTP # out.Total => connection + out.HTTP <= out.Total
      /\ out.TTFB # 0 => out.TTFB <= out.HTTP

\* clock_other.go and clock_windows.go, on sub: "a must not be earlier than b".
\* Every interval of a sample is measured forwards.
SubInOrder ==
  out.outcome = "sample" => out.HTTP >= 0
=============================================================================
