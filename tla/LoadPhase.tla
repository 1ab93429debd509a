----------------------------- MODULE LoadPhase -----------------------------
(***************************************************************************)
(* One load phase of netquality (run.go loadPhase and probeLoop, load.go   *)
(* byteCounter, uploadBody and runFlow): the goroutine that runs the phase *)
(* ("main"), one goroutine per load flow, the reader or writer that counts *)
(* the bytes of a flow's body (a "mover"), the probe scheduler and its     *)
(* probe goroutines, all stopped through phaseState.stop and the phase     *)
(* context.                                                                *)
(*                                                                         *)
(* The measurement engine is an oracle here: an interval's decision is any *)
(* one the contract of engine.Interval allows (module Engine models it).   *)
(***************************************************************************)
EXTENDS Integers, FiniteSets, FiniteSetsExt

CONSTANTS
  Upload,        \* TRUE for the upload direction, FALSE for download
  H2,            \* TRUE when the server negotiates HTTP/2
  MaxFlows,      \* Options.MaxFlows
  InitialFlows,  \* engine.InitialFlows(), already capped at MaxFlows
  Limit,         \* Options.MaxBytes; 0 means no cap
  Chunk,         \* bytes one Read or Write of a body moves
  SelfCost,      \* selfProbeBytes
  ForeignCost,   \* foreignProbeBytes
  MaxInFlight,   \* probeLoop's maxInFlight
  Endings,       \* how the caller's context may end
  MaxPayload,    \* bound of the model: load bytes moved
  MaxLaunches,   \* bound of the model: probe slots the scheduler reaches
  MaxTicks       \* bound of the model: completed intervals

ASSUME LoadPhaseAssumption ==
  /\ Upload \in BOOLEAN /\ H2 \in BOOLEAN
  /\ MaxFlows \in Nat \ {0} /\ InitialFlows \in 1..MaxFlows
  /\ Limit \in Nat /\ Chunk \in Nat \ {0}
  /\ SelfCost \in Nat /\ ForeignCost \in Nat
  /\ MaxInFlight \in Nat \ {0}
  /\ Endings \subseteq {"cancelled", "deadline"}
  /\ MaxPayload \in Nat /\ MaxLaunches \in Nat /\ MaxTicks \in Nat

Flows == 1..MaxFlows
Slots == 1..MaxInFlight

\* The goroutines that may call phaseState.stop.
Main == <<"main", 0>>
FlowOf(f) == <<"flow", f>>
MoverOf(f) == <<"mover", f>>
ProbeOf(i) == <<"probe", i>>
Movers == {MoverOf(f) : f \in Flows}
Probes == {ProbeOf(i) : i \in Slots}
Threads == {Main} \cup {FlowOf(f) : f \in Flows} \cup Movers \cup Probes

\* TruncationReason (result.go); the zero value is ReasonNone.
Reasons == {"none", "duration_cap", "bytes_cap", "flow_error", "cancelled"}

\* Where a goroutine is inside p.stop: not in it, at stopOnce.Do, or the
\* winner that has set the reason and not yet called p.cancel.
NotInStop == [at |-> "out", reason |-> "none"]
InStop == [at : {"do", "cancel"}, reason : Reasons]

\* Owner of a sync.Once that nobody ran, and of one whose function returned.
Free == <<"free", 0>>
Done == <<"done", 0>>

NoFlow == 0
ProbeState == [pc : {"free", "start", "tripped", "capping", "flight"},
               self : BOOLEAN, flow : Flows \cup {NoFlow}]
FreeSlot == [pc |-> "free", self |-> FALSE, flow |-> NoFlow]
NoResult == [reason |-> "none", intervals |-> 0, bytes |-> 0, samples |-> 0,
             err |-> "nil"]

VARIABLES
  ctx,         \* ctx.Err() of the caller: "live", "cancelled" or "deadline"
  pctx,        \* pctx.Err() of the phase
  timerFired,  \* history: the phase's own MaxDuration timer ended pctx
  main,        \* program counter of loadPhase
  toAdd,       \* flows addFlow has still to open before main goes on
  intervals,   \* dr.Intervals
  engStopped,  \* engine.Stopped()
  flow,        \* program counter of each flow goroutine
  mover,       \* program counter of each body reader or writer
  ready,       \* flows whose connection exists (f.ready)
  failed,      \* history: flows whose request failed while pctx was live
  flowErrs,    \* p.flowErrs; p.flowErr is set iff it is positive
  stopOnce,    \* owner of p.stopOnce
  reason,      \* p.reason
  call,        \* where each goroutine is inside p.stop
  payload,     \* byteCounter.payload
  total,       \* byteCounter.total
  capOnce,     \* owner of byteCounter.once
  loop,        \* program counter of probeLoop
  selfNext,    \* probeLoop's self: the next probe is a self probe
  launches,    \* probe slots reached so far
  probe,       \* probe goroutines, by the sem slot they hold
  attempted,   \* history: bytes charged for probe attempts
  cur,         \* len(p.curF) + len(p.curS)
  taken,       \* samples given to the engine with a completed interval
  produced,    \* history: samples probes completed
  foreignOpen, \* foreignRT has not been closed
  open,        \* flows whose transport has not been closed
  result       \* the DirectionResult and error loadPhase returned

mainVars == <<main, toAdd, intervals, engStopped, taken, result>>
flowVars == <<flow, ready, failed, flowErrs>>
stopVars == <<stopOnce, reason, call>>
ctxVars == <<ctx, pctx, timerFired>>
byteVars == <<payload, total, capOnce, mover>>
probeVars == <<loop, selfNext, launches, probe, attempted, cur, produced, foreignOpen>>
vars == <<mainVars, flowVars, stopVars, ctxVars, byteVars, probeVars, open>>

Live == pctx = "live"

TypeOK ==
  /\ ctx \in {"live", "cancelled", "deadline"}
  /\ pctx \in {"live", "cancelled", "deadline"}
  /\ timerFired \in BOOLEAN
  /\ main \in {"enter", "add", "loop", "stopNone", "decide", "stop", "cancel",
               "join", "joinProbes", "close", "collect", "return", "returned"}
  /\ toAdd \in 0..MaxFlows
  /\ intervals \in 0..MaxTicks
  /\ engStopped \in BOOLEAN
  /\ flow \in [Flows -> {"none", "check", "connect", "body", "okend", "errend",
                         "failed", "stopping", "done"}]
  /\ mover \in [Flows -> {"rest", "reading", "added", "tripped", "capping"}]
  /\ ready \in SUBSET Flows /\ failed \in SUBSET Flows
  /\ flowErrs \in Nat
  /\ stopOnce \in Threads \cup {Free, Done}
  /\ reason \in Reasons
  /\ call \in [Threads -> {NotInStop} \cup InStop]
  /\ payload \in Nat /\ total \in Nat /\ attempted \in Nat
  /\ capOnce \in Movers \cup Probes \cup {Free, Done}
  /\ loop \in {"unborn", "gap", "drain", "done"}
  /\ selfNext \in BOOLEAN
  /\ launches \in 0..MaxLaunches
  /\ probe \in [Slots -> ProbeState]
  /\ cur \in Nat /\ taken \in Nat /\ produced \in Nat
  /\ foreignOpen \in BOOLEAN
  /\ open \in SUBSET Flows
  /\ result \in [reason : Reasons, intervals : Nat, bytes : Nat, samples : Nat,
                 err : {"nil", "ctx", "flow"}]

Init ==
  /\ ctx \in {"live"} \cup Endings
  /\ pctx = "live" /\ timerFired = FALSE
  /\ main = "enter" /\ toAdd = InitialFlows /\ intervals = 0 /\ engStopped = FALSE
  /\ flow = [f \in Flows |-> "none"]
  /\ mover = [f \in Flows |-> "rest"]
  /\ ready = {} /\ failed = {} /\ flowErrs = 0
  /\ stopOnce = Free /\ reason = "none" /\ call = [t \in Threads |-> NotInStop]
  /\ payload = 0 /\ total = 0 /\ attempted = 0 /\ capOnce = Free
  /\ loop = "unborn" /\ selfNext = FALSE /\ launches = 0
  /\ probe = [i \in Slots |-> FreeSlot]
  /\ cur = 0 /\ taken = 0 /\ produced = 0
  /\ foreignOpen = FALSE /\ open = {}
  /\ result = NoResult

(***************************************************************************)
(* Contexts.  WithTimeout derives pctx from ctx: the caller's cancellation *)
(* or deadline sets ctx.Err() first and reaches pctx afterwards; the phase *)
(* timer ends pctx alone.  The first cause of pctx is kept.                *)
(***************************************************************************)
CallerEnds ==
  /\ ctx = "live"
  /\ ctx' \in Endings
  /\ UNCHANGED <<pctx, timerFired, mainVars, flowVars, stopVars, byteVars, probeVars, open>>

Propagate ==
  /\ main # "enter" /\ ctx # "live" /\ Live
  /\ pctx' = ctx
  /\ UNCHANGED <<ctx, timerFired, mainVars, flowVars, stopVars, byteVars, probeVars, open>>

PhaseTimer ==
  /\ main # "enter" /\ Live
  /\ pctx' = "deadline" /\ timerFired' = TRUE
  /\ UNCHANGED <<ctx, mainVars, flowVars, stopVars, byteVars, probeVars, open>>

CancelPhase == pctx' = IF Live THEN "cancelled" ELSE pctx

(***************************************************************************)
(* phaseState.stop: stopOnce picks one caller, who records its reason and  *)
(* then cancels pctx; the others wait in Do until it has returned.         *)
(***************************************************************************)
CallStop(t, r) == call' = [call EXCEPT ![t] = [at |-> "do", reason |-> r]]
OutOfStop(t) == call[t] = NotInStop

StopWin(t) ==
  /\ call[t].at = "do" /\ stopOnce = Free
  /\ stopOnce' = t
  /\ reason' = call[t].reason
  /\ call' = [call EXCEPT ![t].at = "cancel"]
  /\ UNCHANGED <<ctxVars, mainVars, flowVars, byteVars, probeVars, open>>

StopCancel(t) ==
  /\ call[t].at = "cancel"
  /\ CancelPhase
  /\ stopOnce' = Done
  /\ call' = [call EXCEPT ![t] = NotInStop]
  /\ UNCHANGED <<ctx, timerFired, reason, mainVars, flowVars, byteVars, probeVars, open>>

StopLose(t) ==
  /\ call[t].at = "do" /\ stopOnce = Done
  /\ call' = [call EXCEPT ![t] = NotInStop]
  /\ UNCHANGED <<ctxVars, stopOnce, reason, mainVars, flowVars, byteVars, probeVars, open>>

StopStep(t) == StopWin(t) \/ StopCancel(t) \/ StopLose(t)

Stop == \E t \in Threads : StopStep(t)

(***************************************************************************)
(* byteCounter.  add counts payload and then cost; a probe counts cost     *)
(* alone.  The caller whose addition reaches the limit runs onLimit, which *)
(* is stop(bytes_cap), under byteCounter.once.                             *)
(***************************************************************************)
Reached(t) == Limit > 0 /\ t >= Limit

\* uploadBody.Read hands out bytes only if it finds the context live.
MoverCheck(f) ==
  /\ Upload /\ mover[f] = "rest" /\ flow[f] = "body" /\ Live
  /\ payload + Chunk <= MaxPayload
  /\ mover' = [mover EXCEPT ![f] = "reading"]
  /\ UNCHANGED <<payload, total, capOnce, ctxVars, mainVars, flowVars, stopVars, probeVars, open>>

\* uploadBody.Read after its look at the context, or countingWriter.Write
\* during io.Copy.
MoverAdd(f) ==
  /\ \/ Upload /\ mover[f] = "reading"
     \/ ~Upload /\ mover[f] = "rest" /\ flow[f] = "body" /\ payload + Chunk <= MaxPayload
  /\ payload' = payload + Chunk
  /\ mover' = [mover EXCEPT ![f] = "added"]
  /\ UNCHANGED <<total, capOnce, ctxVars, mainVars, flowVars, stopVars, probeVars, open>>

MoverTotal(f) ==
  /\ mover[f] = "added"
  /\ total' = total + Chunk
  /\ mover' = [mover EXCEPT ![f] = IF Reached(total') THEN "tripped" ELSE "rest"]
  /\ UNCHANGED <<payload, capOnce, ctxVars, mainVars, flowVars, stopVars, probeVars, open>>

\* once.Do(onLimit) by goroutine t: run it, or return once it has been run.
OnLimitRun(t) == capOnce = Free /\ capOnce' = t /\ CallStop(t, "bytes_cap")
OnLimitRan == capOnce = Done /\ UNCHANGED <<capOnce, call>>
OnLimitReturns(t) == OutOfStop(t) /\ capOnce' = Done

MoverCap(f) ==
  /\ mover[f] = "tripped"
  /\ \/ OnLimitRun(MoverOf(f)) /\ mover' = [mover EXCEPT ![f] = "capping"]
     \/ OnLimitRan /\ mover' = [mover EXCEPT ![f] = "rest"]
  /\ UNCHANGED <<payload, total, stopOnce, reason, ctxVars, mainVars, flowVars, probeVars, open>>

MoverCapped(f) ==
  /\ mover[f] = "capping" /\ OnLimitReturns(MoverOf(f))
  /\ mover' = [mover EXCEPT ![f] = "rest"]
  /\ UNCHANGED <<payload, total, ctxVars, mainVars, flowVars, stopVars, probeVars, open>>

(***************************************************************************)
(* runFlow and the goroutine addFlow starts around it.                     *)
(***************************************************************************)
\* The top of the request loop: an ended context ends the flow.
FlowCheck(f) ==
  /\ flow[f] = "check"
  /\ flow' = [flow EXCEPT ![f] = IF Live THEN "connect" ELSE "done"]
  /\ UNCHANGED <<ready, failed, flowErrs, ctxVars, mainVars, stopVars, byteVars, probeVars, open>>

\* TLSHandshakeDone and GotConn: the protocol is known and the flow is ready.
FlowConnect(f) ==
  /\ flow[f] = "connect"
  /\ flow' = [flow EXCEPT ![f] = "body"]
  /\ ready' = ready \cup {f}
  /\ UNCHANGED <<failed, flowErrs, ctxVars, mainVars, stopVars, byteVars, probeVars, open>>

\* io.Copy counts on the flow goroutine, so a download returns between two
\* Writes; the transport may still be inside an upload body's Read.
BodyAtRest(f) == Upload \/ mover[f] = "rest"

\* oneRequest returns nil: the response body ended cleanly.
FlowOk(f) ==
  /\ flow[f] = "body" /\ BodyAtRest(f)
  /\ flow' = [flow EXCEPT ![f] = "okend"]
  /\ UNCHANGED <<ready, failed, flowErrs, ctxVars, mainVars, stopVars, byteVars, probeVars, open>>

\* oneRequest fails on its own: connection error, bad status, broken body.
FlowFail(f) ==
  /\ flow[f] \in {"connect", "body"} /\ BodyAtRest(f) /\ Live
  /\ flow' = [flow EXCEPT ![f] = "errend"]
  /\ failed' = failed \cup {f}
  /\ UNCHANGED <<ready, flowErrs, ctxVars, mainVars, stopVars, byteVars, probeVars, open>>

\* oneRequest fails because its context has ended.
FlowAbort(f) ==
  /\ flow[f] \in {"connect", "body"} /\ BodyAtRest(f) /\ ~Live
  /\ flow' = [flow EXCEPT ![f] = "errend"]
  /\ UNCHANGED <<ready, failed, flowErrs, ctxVars, mainVars, stopVars, byteVars, probeVars, open>>

\* After oneRequest: the context is read again before the error is believed;
\* a clean end is requested again.
AfterUnchecked(f) == IF flow[f] = "okend" THEN "check" ELSE "failed"
AfterRequest(f) == IF ~Live THEN "done" ELSE IF flow[f] = "okend" THEN "check" ELSE "failed"

FlowReturn(f) ==
  /\ flow[f] \in {"okend", "errend"}
  /\ flow' = [flow EXCEPT ![f] = AfterRequest(f)]
  /\ UNCHANGED <<ready, failed, flowErrs, ctxVars, mainVars, stopVars, byteVars, probeVars, open>>

\* flowFailed: count the error, then stop(flow_error).
FlowFailed(f) ==
  /\ flow[f] = "failed"
  /\ flowErrs' = flowErrs + 1
  /\ CallStop(FlowOf(f), "flow_error")
  /\ flow' = [flow EXCEPT ![f] = "stopping"]
  /\ UNCHANGED <<ready, failed, stopOnce, reason, ctxVars, mainVars, byteVars, probeVars, open>>

FlowStopped(f) ==
  /\ flow[f] = "stopping" /\ OutOfStop(FlowOf(f))
  /\ flow' = [flow EXCEPT ![f] = "done"]
  /\ UNCHANGED <<ready, failed, flowErrs, ctxVars, mainVars, stopVars, byteVars, probeVars, open>>

(***************************************************************************)
(* probeLoop and the goroutines launch starts.                             *)
(***************************************************************************)
SlotFree(i) == probe[i].pc = "free"

\* The gap elapsed: launch a probe if sem has room, else skip this turn.  The
\* select may take this branch although the context has ended.
Launch ==
  /\ loop = "gap" /\ launches < MaxLaunches
  /\ launches' = launches + 1
  /\ selfNext' = ~selfNext
  /\ \/ \E i \in Slots :
          /\ SlotFree(i) /\ \A j \in 1..(i - 1) : ~SlotFree(j)
          /\ probe' = [probe EXCEPT ![i] = [pc |-> "start", self |-> selfNext, flow |-> NoFlow]]
     \/ /\ \A i \in Slots : ~SlotFree(i)
        /\ probe' = probe
  /\ UNCHANGED <<loop, attempted, cur, produced, foreignOpen,
                 ctxVars, mainVars, flowVars, stopVars, byteVars, open>>

\* addProbe charges the attempt before the request is made.
Charge(i, cost, f) ==
  /\ total' = total + cost
  /\ attempted' = attempted + cost
  /\ probe' = [probe EXCEPT ![i] = [pc |-> IF Reached(total') THEN "tripped" ELSE "flight",
                                    self |-> probe[i].self, flow |-> f]]

Release(i) == probe' = [probe EXCEPT ![i] = FreeSlot]

\* A self probe without a flow to run on: its slot is given back, or leaks.
SkipLeaking(i) == UNCHANGED probe
Skip(i) == Release(i)

\* A self probe needs a ready flow (pickFlow) whose connection is known to speak
\* HTTP/2: one may be ready before its protocol is recorded.
ProbeStart(i) ==
  /\ probe[i].pc = "start"
  /\ \/ ~probe[i].self /\ Charge(i, ForeignCost, NoFlow)
     \/ /\ probe[i].self /\ H2
        /\ \E f \in ready : Charge(i, SelfCost, f)
     \/ /\ probe[i].self
        /\ Skip(i) /\ UNCHANGED <<total, attempted>>
  /\ UNCHANGED <<loop, selfNext, launches, cur, produced, foreignOpen, payload, capOnce,
                 mover, ctxVars, mainVars, flowVars, stopVars, open>>

ProbeCap(i) ==
  /\ probe[i].pc = "tripped"
  /\ \/ OnLimitRun(ProbeOf(i)) /\ probe' = [probe EXCEPT ![i].pc = "capping"]
     \/ OnLimitRan /\ probe' = [probe EXCEPT ![i].pc = "flight"]
  /\ UNCHANGED <<loop, selfNext, launches, attempted, cur, produced, foreignOpen,
                 payload, total, mover, stopOnce, reason, ctxVars, mainVars, flowVars, open>>

ProbeCapped(i) ==
  /\ probe[i].pc = "capping" /\ OnLimitReturns(ProbeOf(i))
  /\ probe' = [probe EXCEPT ![i].pc = "flight"]
  /\ UNCHANGED <<loop, selfNext, launches, attempted, cur, produced, foreignOpen,
                 payload, total, mover, ctxVars, mainVars, flowVars, stopVars, open>>

\* The probe completes: addSample files it under the interval in progress.
ProbeOk(i) ==
  /\ probe[i].pc = "flight"
  /\ cur' = cur + 1 /\ produced' = produced + 1
  /\ Release(i)
  /\ UNCHANGED <<loop, selfNext, launches, attempted, foreignOpen,
                 ctxVars, mainVars, flowVars, stopVars, byteVars, open>>

\* The probe fails: its sample is dropped, its cost stays charged.
ProbeErr(i) ==
  /\ probe[i].pc = "flight"
  /\ Release(i)
  /\ UNCHANGED <<loop, selfNext, launches, attempted, cur, produced, foreignOpen,
                 ctxVars, mainVars, flowVars, stopVars, byteVars, open>>

ProbeLoopEnds ==
  /\ loop = "gap" /\ ~Live
  /\ loop' = "drain"
  /\ UNCHANGED <<selfNext, launches, probe, attempted, cur, produced, foreignOpen,
                 ctxVars, mainVars, flowVars, stopVars, byteVars, open>>

\* wg.Wait for the probes, or no wait at all; then the deferred closeIdle.
ProbesUnjoined == TRUE
ProbesJoined == \A i \in Slots : SlotFree(i)

ProbeLoopJoin ==
  /\ loop = "drain" /\ ProbesJoined
  /\ loop' = "done" /\ foreignOpen' = FALSE
  /\ UNCHANGED <<selfNext, launches, probe, attempted, cur, produced,
                 ctxVars, mainVars, flowVars, stopVars, byteVars, open>>

(***************************************************************************)
(* loadPhase.                                                              *)
(***************************************************************************)
\* main moves on; what it leaves alone unless it says otherwise.
MainGoes(from, to) ==
  main = from /\ main' = to /\ UNCHANGED <<toAdd, intervals, engStopped, taken>>
others == <<ctxVars, flowVars, stopVars, byteVars, probeVars, open>>

flowCount == Cardinality({f \in Flows : flow[f] # "none"})

Enter ==
  /\ IF ctx # "live"
     THEN MainGoes("enter", "returned") /\ result' = [NoResult EXCEPT !.err = "ctx"]
     ELSE MainGoes("enter", "add") /\ UNCHANGED result
  /\ UNCHANGED others

AddFlow ==
  /\ main = "add" /\ toAdd > 0
  /\ toAdd' = toAdd - 1
  /\ LET f == flowCount + 1 IN
       flow' = [flow EXCEPT ![f] = "check"] /\ open' = open \cup {f}
  /\ UNCHANGED <<main, intervals, engStopped, taken, result, ready, failed, flowErrs,
                 ctxVars, stopVars, byteVars, probeVars>>

\* No flow left to open: start probeLoop the first time, then wait.
Added ==
  /\ main = "add" /\ toAdd = 0
  /\ main' = "loop"
  /\ loop' = IF loop = "unborn" THEN "gap" ELSE loop
  /\ foreignOpen' = IF loop = "unborn" THEN TRUE ELSE foreignOpen
  /\ UNCHANGED <<toAdd, intervals, engStopped, taken, result, selfNext, launches, probe,
                 attempted, cur, produced, ctxVars, flowVars, stopVars, byteVars, open>>

\* What take() leaves behind of the current samples.
LeavesAll == cur
LeavesNothing == 0

\* An interval completes: take() empties the current samples into the engine.
Interval ==
  /\ main = "loop" /\ intervals < MaxTicks
  /\ intervals' = intervals + 1
  /\ taken' = taken + cur /\ cur' = LeavesNothing
  /\ UNCHANGED <<result, loop, selfNext, launches, probe, attempted, produced, foreignOpen,
                 stopOnce, reason, ctxVars, flowVars, byteVars, open>>

TickStop ==
  /\ Interval
  /\ engStopped' = TRUE
  /\ CallStop(Main, "none") /\ main' = "stopNone"
  /\ UNCHANGED toAdd

TickGoesOn ==
  /\ Interval
  /\ toAdd' \in 0..(MaxFlows - flowCount)
  /\ main' = "add"
  /\ UNCHANGED <<engStopped, call>>

StoppedStable ==
  /\ OutOfStop(Main)
  /\ MainGoes("stopNone", "decide")
  /\ UNCHANGED <<result, others>>

LoopDone ==
  /\ ~Live
  /\ MainGoes("loop", "decide")
  /\ UNCHANGED <<result, others>>

\* The context's own verdict, and the caller's context looked at first.
ctxReason == IF pctx = "deadline" THEN "duration_cap" ELSE "cancelled"

EndReason == IF ctx # "live" THEN "cancelled" ELSE ctxReason

\* Name a reason for the case that nobody has; stopOnce keeps an earlier one.
Decide ==
  /\ main = "decide"
  /\ IF ctx # "live" \/ ~Live THEN CallStop(Main, EndReason) /\ main' = "stop"
     ELSE main' = "cancel" /\ UNCHANGED call
  /\ UNCHANGED <<toAdd, intervals, engStopped, taken, result, stopOnce, reason,
                 ctxVars, flowVars, byteVars, probeVars, open>>

Decided ==
  /\ OutOfStop(Main)
  /\ MainGoes("stop", "cancel")
  /\ UNCHANGED <<result, others>>

CancelAll ==
  /\ MainGoes("cancel", "join")
  /\ CancelPhase
  /\ UNCHANGED <<ctx, timerFired, result, flowVars, stopVars, byteVars, probeVars, open>>

\* wg.Wait for the flows, probeWG.Wait for probeLoop, or no wait at all.
Unjoined == TRUE
FlowsJoined == \A f \in Flows : flow[f] \in {"none", "done"}
ProbeLoopJoined == loop = "done"

JoinFlows ==
  /\ FlowsJoined
  /\ MainGoes("join", "joinProbes")
  /\ UNCHANGED <<result, others>>

JoinProbes ==
  /\ ProbeLoopJoined
  /\ MainGoes("joinProbes", "close")
  /\ UNCHANGED <<result, others>>

CloseFlows ==
  /\ MainGoes("close", "collect")
  /\ open' = {}
  /\ UNCHANGED <<result, ctxVars, flowVars, stopVars, byteVars, probeVars>>

\* The figures: dr.Bytes, the samples of the phase (Summary counts those of
\* the interval in progress too), and the recorded reason.
Collect ==
  /\ MainGoes("collect", "return")
  /\ cur' = 0
  /\ result' = [reason |-> reason, intervals |-> intervals, bytes |-> total,
                samples |-> taken + cur, err |-> "nil"]
  /\ UNCHANGED <<loop, selfNext, launches, probe, attempted, produced, foreignOpen,
                 ctxVars, flowVars, stopVars, byteVars, open>>

\* The error that accompanies the result: the phase's own, unless the caller's
\* context, read anew, has ended.
OwnError == IF reason = "flow_error" /\ intervals = 0 THEN "flow" ELSE "nil"
ReturnedError == IF ctx # "live" THEN "ctx" ELSE OwnError

Return ==
  /\ MainGoes("return", "returned")
  /\ result' = [result EXCEPT !.err = ReturnedError]
  /\ UNCHANGED others
-----------------------------------------------------------------------------
Contexts == CallerEnds \/ Propagate \/ PhaseTimer

FlowStep(f) ==
  \/ FlowCheck(f) \/ FlowConnect(f) \/ FlowOk(f) \/ FlowFail(f) \/ FlowAbort(f)
  \/ FlowReturn(f) \/ FlowFailed(f) \/ FlowStopped(f)

MoverStep(f) == MoverCheck(f) \/ MoverAdd(f) \/ MoverTotal(f) \/ MoverCap(f) \/ MoverCapped(f)

ProbeStep(i) == ProbeStart(i) \/ ProbeCap(i) \/ ProbeCapped(i) \/ ProbeOk(i) \/ ProbeErr(i)

ProbeLoop == Launch \/ ProbeLoopEnds \/ ProbeLoopJoin

\* main after the first interval has been waited for.
Teardown ==
  \/ StoppedStable \/ LoopDone \/ Decide \/ Decided \/ CancelAll \/ JoinFlows
  \/ JoinProbes \/ CloseFlows \/ Collect \/ Return

MainStep == Enter \/ AddFlow \/ Added \/ TickStop \/ TickGoesOn \/ Teardown

\* loadPhase has returned: nothing is left to do for its goroutines.
Finished == main = "returned" /\ UNCHANGED vars

Next ==
  \/ Contexts \/ Stop \/ MainStep \/ ProbeLoop \/ Finished
  \/ \E f \in Flows : FlowStep(f) \/ MoverStep(f)
  \/ \E i \in Slots : ProbeStep(i)

Spec == Init /\ [][Next]_vars

(***************************************************************************)
(* Fairness: every goroutine that can run does, the phase timer fires, an  *)
(* ended context reaches its children, and a request or probe whose        *)
(* context has ended returns.  A tick or a launch is never owed: the two   *)
(* selects choose among ready branches at random, so an ended context is   *)
(* seen in the end.                                                        *)
(***************************************************************************)
Fairness ==
  /\ WF_vars(Enter \/ AddFlow \/ Added \/ Teardown \/ StopStep(Main))
  /\ WF_vars(Propagate) /\ WF_vars(PhaseTimer)
  /\ WF_vars(ProbeLoopEnds \/ ProbeLoopJoin)
  /\ \A f \in Flows :
       /\ WF_vars(FlowCheck(f) \/ FlowReturn(f) \/ FlowFailed(f) \/ FlowStopped(f)
                  \/ FlowAbort(f) \/ StopStep(FlowOf(f)))
       /\ WF_vars((Upload /\ MoverAdd(f)) \/ MoverTotal(f) \/ MoverCap(f) \/ MoverCapped(f)
                  \/ StopStep(MoverOf(f)))
  /\ \A i \in Slots :
       WF_vars(ProbeStart(i) \/ ProbeCap(i) \/ ProbeCapped(i) \/ (~Live /\ ProbeErr(i))
               \/ StopStep(ProbeOf(i)))

FairSpec == Spec /\ Fairness
-----------------------------------------------------------------------------
\* What each reason claims about the phase.
TrueReason(r) ==
  /\ r = "none" => engStopped
  /\ r = "bytes_cap" => Reached(total)
  /\ r = "flow_error" => flowErrs > 0 /\ failed # {}
  /\ r = "duration_cap" => timerFired
  /\ r = "cancelled" => ctx # "live"

\* The reason p.stop recorded is true of the phase, whoever of main, the
\* flows, the body readers and the probes won stopOnce: no reason means the
\* engine stopped the phase, bytes_cap that the cost reached MaxBytes,
\* flow_error that a request failed on its own and was counted, duration_cap
\* that the phase's own timer fired (not the caller's deadline, LIM-4), and
\* cancelled that the caller's context had ended.
ReasonJustified == stopOnce # Free => TrueReason(reason)

\* A reason once recorded is never replaced: a byte cap or a flow failure that
\* comes during teardown cannot rewrite why the phase ended.
ReasonRecordedOnce ==
  [][stopOnce # Free => reason' = reason /\ stopOnce' # Free]_vars

\* Only failures of the requests themselves are counted in flow_errors: a
\* request broken by the end of the phase is not (runFlow's second look at
\* its context).
OnlyOwnFailuresCounted == flowErrs <= Cardinality(failed)

\* INV-4: when loadPhase returns, every flow and probe goroutine has ended,
\* the scheduler has ended and every transport it opened has been closed.
NothingOutlivesThePhase ==
  main = "returned" =>
    /\ \A f \in Flows : flow[f] \in {"none", "done"}
    /\ \A i \in Slots : SlotFree(i)
    /\ loop \in {"unborn", "done"} /\ ~foreignOpen /\ open = {}

\* A probe in flight has its transport open: the load transports are closed
\* after the probes have joined, the foreign transport after probeLoop's wait.
ProbesUseOpenTransports ==
  \A i \in Slots : ~SlotFree(i) =>
    IF probe[i].flow = NoFlow THEN foreignOpen ELSE probe[i].flow \in open

\* Every sample a probe completed is in exactly one interval or among those
\* of the interval in progress at the end, so the summary counts it once.
EverySampleCountedOnce ==
  /\ main \notin {"return", "returned"} => taken + cur = produced
  /\ main = "returned" => result.samples = produced

\* LOAD-11: a download's bytes are its load payload plus the fixed charge of
\* every probe attempted; nothing is counted after the figure was read.
BytesAreCost ==
  ~Upload /\ main = "returned" => result.bytes = payload + attempted

\* The phase as its caller sees it: where loadPhase is, and what it returns.
Contract == INSTANCE PhaseContract WITH
  ctx <- IF ctx = "live" THEN "live" ELSE "ended",
  at <- CASE main = "enter" -> "enter" [] main = "return" -> "phaseEnd"
          [] main = "returned" -> "back" [] OTHER -> "load",
  phase <- IF main \in {"return", "returned"} /\ flowCount > 0
           THEN [reason |-> result.reason, intervals |-> IF result.intervals > 0 THEN 1 ELSE 0]
           ELSE [reason |-> "absent", intervals |-> 0],
  phaseErr <- result.err

\* LIM-4, LOAD-9 and INV-3: whatever the goroutines of the phase do and whoever
\* ends it, the caller sees PhaseContract: one result with one reason, and the
\* error that goes with both, though the caller's context is read twice.
PhaseSpec == Contract!Spec

\* LIM-1: whatever flows, probes and the caller do, the phase returns.
PhaseReturns == <>(main = "returned")
=============================================================================
