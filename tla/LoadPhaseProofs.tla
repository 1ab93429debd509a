-------------------------- MODULE LoadPhaseProofs --------------------------
(***************************************************************************)
(* Proofs about the load phase for every number of flows and probe slots,  *)
(* every byte limit and every cost: type correctness (with the flow cap),  *)
(* that the recorded reason is true of the phase, that nothing outlives    *)
(* it, that the samples, bytes and failures it reports add up, and that it *)
(* implements PhaseContract.                                               *)
(***************************************************************************)
EXTENDS LoadPhase, FiniteSetTheorems, TLAPS

\* The flows opened so far are the first of Flows, and those still to be
\* opened fit under MaxFlows.
FlowsArePrefix ==
  \E k \in 0..MaxFlows :
    {f \in Flows : flow[f] # "none"} = 1..k /\ k + toAdd <= MaxFlows

TypeInv == TypeOK /\ FlowsArePrefix

USE DEF NotInStop, InStop, Reasons, MainGoes, others

\* When the opened flows are 1..k, flowCount is k.
LEMMA FlowCountOfPrefix ==
  ASSUME NEW k \in Nat, {f \in Flows : flow[f] # "none"} = 1..k
  PROVE  flowCount = k
<1>1. Cardinality(1..k) = k
  BY FS_Interval
<1> QED
  BY <1>1 DEF flowCount

\* What fits into the room that k of m leave does not exceed m.
LEMMA RoomLeft ==
  ASSUME NEW m \in Nat, NEW k \in 0..m, NEW x \in 0..(m - k)
  PROVE  x \in 0..m /\ k + x <= m
OBVIOUS

\* The named goroutines are goroutines, and none is a sentinel of a Once.
LEMMA ThreadFacts ==
  /\ Main \in Threads
  /\ \A f \in Flows : FlowOf(f) \in Threads /\ MoverOf(f) \in Movers
  /\ \A i \in Slots : ProbeOf(i) \in Probes
  /\ Movers \subseteq Threads /\ Probes \subseteq Threads
  /\ Free \notin Threads /\ Done \notin Threads /\ Free # Done
BY DEF Main, FlowOf, MoverOf, ProbeOf, Movers, Probes, Threads, Free, Done

\* A step that neither opens a flow nor changes how many are to be opened.
LEMMA PrefixKept ==
  ASSUME FlowsArePrefix, toAdd' = toAdd,
         \A f \in Flows : flow'[f] = "none" <=> flow[f] = "none"
  PROVE  FlowsArePrefix'
BY DEF FlowsArePrefix

\* The contexts change nothing but themselves.
LEMMA ContextsType == TypeInv /\ Contexts => TypeInv'
<1> SUFFICES ASSUME TypeInv, Contexts PROVE TypeInv'
  OBVIOUS
<1> USE DEF mainVars, flowVars, stopVars, byteVars, probeVars
<1>1. TypeOK'
  <2>1. CASE CallerEnds
    BY <2>1, LoadPhaseAssumption DEF TypeInv, TypeOK, CallerEnds
  <2>2. CASE Propagate
    BY <2>2 DEF TypeInv, TypeOK, Propagate
  <2>3. CASE PhaseTimer
    BY <2>3 DEF TypeInv, TypeOK, PhaseTimer
  <2> QED
    BY <2>1, <2>2, <2>3 DEF Contexts
<1>2. FlowsArePrefix'
  BY PrefixKept DEF TypeInv, Contexts, CallerEnds, Propagate, PhaseTimer
<1> QED
  BY <1>1, <1>2 DEF TypeInv

\* p.stop keeps the types.
LEMMA StopType == TypeInv /\ Stop => TypeInv'
<1> SUFFICES ASSUME TypeInv, NEW t \in Threads,
                    StopWin(t) \/ StopCancel(t) \/ StopLose(t)
             PROVE  TypeInv'
  BY DEF Stop, StopStep
<1> USE DEF TypeInv, TypeOK, mainVars, flowVars, ctxVars, byteVars, probeVars
<1>1. TypeOK'
  <2>1. CASE StopWin(t)
    BY <2>1 DEF StopWin
  <2>2. CASE StopCancel(t)
    BY <2>2 DEF StopCancel, CancelPhase, Live
  <2>3. CASE StopLose(t)
    BY <2>3 DEF StopLose
  <2> QED
    BY <2>1, <2>2, <2>3
<1>2. FlowsArePrefix'
  BY PrefixKept DEF StopWin, StopCancel, StopLose
<1> QED
  BY <1>1, <1>2

\* The byte counter's callers keep the types.
LEMMA MoverType ==
  ASSUME NEW f \in Flows, TypeInv, MoverStep(f)
  PROVE  TypeInv'
<1> USE LoadPhaseAssumption, ThreadFacts
    DEF TypeInv, TypeOK, mainVars, flowVars, ctxVars, probeVars, stopVars
<1>1. TypeOK'
  <2>1. CASE MoverAdd(f)
    BY <2>1 DEF MoverAdd
  <2>2. CASE MoverTotal(f)
    BY <2>2 DEF MoverTotal, Reached
  <2>3. CASE MoverCap(f)
    BY <2>3 DEF MoverCap, CallStop, OnLimitRun, OnLimitRan
  <2>4. CASE MoverCapped(f)
    BY <2>4 DEF MoverCapped, OnLimitReturns
  <2>5. CASE MoverCheck(f)
    BY <2>5 DEF MoverCheck
  <2> QED
    BY <2>1, <2>2, <2>3, <2>4, <2>5 DEF MoverStep
<1>2. FlowsArePrefix'
  BY PrefixKept DEF MoverStep, MoverCheck, MoverAdd, MoverTotal, MoverCap, MoverCapped
<1> QED
  BY <1>1, <1>2

\* The flow goroutines keep the types.
LEMMA FlowType ==
  ASSUME NEW f \in Flows, TypeInv, FlowStep(f)
  PROVE  TypeInv'
<1> USE ThreadFacts DEF TypeInv, TypeOK, mainVars, ctxVars, byteVars, probeVars, stopVars
<1>1. TypeOK'
  <2>1. CASE FlowCheck(f) \/ FlowConnect(f) \/ FlowOk(f)
    BY <2>1 DEF FlowCheck, FlowConnect, FlowOk
  <2>2. CASE FlowFail(f) \/ FlowAbort(f)
    BY <2>2 DEF FlowFail, FlowAbort
  <2>3. CASE FlowReturn(f)
    BY <2>3 DEF FlowReturn, AfterRequest
  <2>4. CASE FlowFailed(f)
    BY <2>4 DEF FlowFailed, CallStop
  <2>5. CASE FlowStopped(f)
    BY <2>5 DEF FlowStopped
  <2> QED
    BY <2>1, <2>2, <2>3, <2>4, <2>5 DEF FlowStep
<1>2. FlowsArePrefix'
  BY PrefixKept DEF FlowStep, FlowCheck, FlowConnect, FlowOk, FlowFail, FlowAbort,
                    FlowReturn, AfterRequest, FlowFailed, FlowStopped
<1> QED
  BY <1>1, <1>2

\* The probe goroutines keep the types.
LEMMA ProbeType ==
  ASSUME NEW i \in Slots, TypeInv, ProbeStep(i)
  PROVE  TypeInv'
<1> USE LoadPhaseAssumption, ThreadFacts
    DEF TypeInv, TypeOK, mainVars, flowVars, ctxVars, byteVars, stopVars, Release, FreeSlot
<1>1. TypeOK'
  <2>1. CASE ProbeStart(i)
    <3>1. ASSUME NEW cost \in Nat, NEW f \in Flows \cup {NoFlow}, Charge(i, cost, f)
          PROVE  probe' \in [Slots -> ProbeState]
                 /\ total' \in Nat /\ attempted' \in Nat
      BY <3>1 DEF Charge, ProbeState
    <3>2. CASE ~probe[i].self /\ Charge(i, ForeignCost, NoFlow)
      BY <2>1, <3>1, <3>2 DEF ProbeStart
    <3>3. CASE \E f \in ready : Charge(i, SelfCost, f)
      BY <2>1, <3>1, <3>3 DEF ProbeStart
    <3>4. CASE Release(i) /\ UNCHANGED <<total, attempted>>
      BY <2>1, <3>4 DEF ProbeStart, ProbeState
    <3> QED
      BY <2>1, <3>2, <3>3, <3>4 DEF ProbeStart, Skip, ProbeState
  <2>2. CASE ProbeCap(i)
    BY <2>2 DEF ProbeCap, ProbeState, CallStop, OnLimitRun, OnLimitRan
  <2>3. CASE ProbeCapped(i)
    BY <2>3 DEF ProbeCapped, ProbeState, OnLimitReturns
  <2>4. CASE ProbeOk(i)
    BY <2>4 DEF ProbeOk, ProbeState
  <2>5. CASE ProbeErr(i)
    BY <2>5 DEF ProbeErr, ProbeState
  <2> QED
    BY <2>1, <2>2, <2>3, <2>4, <2>5 DEF ProbeStep
<1>2. FlowsArePrefix'
  BY PrefixKept DEF ProbeStep, ProbeStart, ProbeCap, ProbeCapped, ProbeOk, ProbeErr
<1> QED
  BY <1>1, <1>2

\* The probe scheduler keeps the types.
LEMMA ProbeLoopType == TypeInv /\ ProbeLoop => TypeInv'
<1> SUFFICES ASSUME TypeInv, ProbeLoop PROVE TypeInv'
  OBVIOUS
<1> USE LoadPhaseAssumption
    DEF TypeInv, TypeOK, mainVars, flowVars, ctxVars, byteVars, stopVars
<1>1. TypeOK'
  <2>1. CASE Launch
    <3>1. probe' \in [Slots -> ProbeState]
      BY <2>1 DEF Launch, ProbeState, FreeSlot
    <3> QED
      BY <2>1, <3>1 DEF Launch
  <2>2. CASE ProbeLoopEnds
    BY <2>2 DEF ProbeLoopEnds
  <2>3. CASE ProbeLoopJoin
    <3>1. loop' = "done" /\ foreignOpen' \in BOOLEAN
      BY <2>3 DEF ProbeLoopJoin
    <3>2. UNCHANGED <<selfNext, launches, probe, attempted, cur, produced,
                      ctxVars, mainVars, flowVars, stopVars, byteVars, open>>
      BY <2>3 DEF ProbeLoopJoin
    <3> QED
      BY <3>1, <3>2
  <2> QED
    BY <2>1, <2>2, <2>3 DEF ProbeLoop
<1>2. FlowsArePrefix'
  BY PrefixKept DEF ProbeLoop, Launch, ProbeLoopEnds, ProbeLoopJoin
<1> QED
  BY <1>1, <1>2

\* Opening flows and completing intervals keeps the types; LIM-3 is what
\* AddFlow needs: the flow it opens is one of the MaxFlows.
LEMMA MainLoopType ==
  TypeInv /\ (Enter \/ AddFlow \/ Added \/ TickStop \/ TickGoesOn) => TypeInv'
<1> SUFFICES ASSUME TypeInv, Enter \/ AddFlow \/ Added \/ TickStop \/ TickGoesOn
             PROVE  TypeInv'
  OBVIOUS
<1> USE LoadPhaseAssumption, ThreadFacts
<1>0. PICK k \in 0..MaxFlows :
        {f \in Flows : flow[f] # "none"} = 1..k /\ k + toAdd <= MaxFlows
  BY DEF TypeInv, FlowsArePrefix
<1>1. flowCount = k
  BY <1>0, FlowCountOfPrefix
<1>a. ASSUME TickGoesOn PROVE toAdd' \in 0..MaxFlows /\ k + toAdd' <= MaxFlows
  <2>1. toAdd' \in 0..(MaxFlows - flowCount)
    BY <1>a DEF TickGoesOn
  <2>2. toAdd' \in 0..(MaxFlows - k)
    BY <1>1, <2>1
  <2> QED
    BY <2>2, RoomLeft
<1> USE DEF TypeInv, TypeOK, flowVars, ctxVars, byteVars, stopVars, probeVars
<1>2. CASE Enter
  <2>1. TypeOK'
    <3>1. main' \in {"add", "returned"}
      BY <1>2 DEF Enter
    <3>2. result' \in [reason : Reasons, intervals : Nat, bytes : Nat, samples : Nat,
                       err : {"nil", "ctx", "flow"}]
      BY <1>2 DEF Enter, NoResult
    <3> QED
      BY <1>2, <3>1, <3>2 DEF Enter
  <2>2. FlowsArePrefix'
    BY <1>2, PrefixKept DEF Enter
  <2> QED
    BY <2>1, <2>2
<1>3. CASE AddFlow
  <2>1. k + 1 \in Flows /\ k + 1 \in 0..MaxFlows
    BY <1>0, <1>3 DEF AddFlow, Flows
  <2>2. TypeOK'
    BY <1>1, <1>3, <2>1 DEF AddFlow
  <2>3. {f \in Flows : flow'[f] # "none"} = 1..(k + 1)
    BY <1>0, <1>1, <1>3, <2>1 DEF AddFlow, Flows
  <2>4. FlowsArePrefix'
    BY <1>0, <1>3, <2>1, <2>3 DEF AddFlow, FlowsArePrefix
  <2> QED
    BY <2>2, <2>4
<1>4. CASE Added
  <2>1. foreignOpen' \in BOOLEAN /\ loop' \in {"unborn", "gap", "drain", "done"} /\ main' = "loop"
    BY <1>4 DEF Added
  <2>2. TypeOK'
    <3>1. UNCHANGED <<toAdd, intervals, engStopped, taken, result, selfNext, launches, probe,
                 attempted, cur, produced, ctxVars, flowVars, stopVars, byteVars, open>>
      BY <1>4 DEF Added
    <3> QED
      BY <2>1, <3>1
  <2>3. FlowsArePrefix'
    BY <1>4, PrefixKept DEF Added
  <2> QED
    BY <2>2, <2>3
<1>5. CASE TickStop
  <2>1. TypeOK'
    <3>1. engStopped' \in BOOLEAN /\ main' = "stopNone"
      BY <1>5 DEF TickStop
    <3>2. call' \in [Threads -> {NotInStop} \cup InStop]
      BY <1>5 DEF TickStop, CallStop
    <3> QED
      BY <1>5, <3>1, <3>2 DEF TickStop, Interval, LeavesNothing
  <2>2. FlowsArePrefix'
    BY <1>5, PrefixKept DEF TickStop, Interval
  <2> QED
    BY <2>1, <2>2
<1>6. CASE TickGoesOn
  <2>1. toAdd' \in 0..MaxFlows /\ k + toAdd' <= MaxFlows
    BY <1>6, <1>a
  <2>2. TypeOK'
    <3>1. main' = "add" /\ UNCHANGED <<engStopped, call>>
      BY <1>6 DEF TickGoesOn
    <3> QED
      BY <1>6, <2>1, <3>1 DEF TickGoesOn, Interval, LeavesNothing
  <2>3. FlowsArePrefix'
    BY <1>0, <1>6, <2>1 DEF TickGoesOn, Interval, FlowsArePrefix
  <2> QED
    BY <2>2, <2>3
<1> QED
  BY <1>2, <1>3, <1>4, <1>5, <1>6

\* The end of the phase keeps the types.
LEMMA TeardownType == TypeInv /\ Teardown => TypeInv'
<1> SUFFICES ASSUME TypeInv, Teardown PROVE TypeInv'
  OBVIOUS
<1> USE LoadPhaseAssumption, ThreadFacts
    DEF TypeInv, TypeOK, flowVars, ctxVars, byteVars, stopVars, probeVars
<1>1. TypeOK'
  <2>1. CASE StoppedStable
    BY <2>1 DEF StoppedStable
  <2>2. CASE LoopDone
    BY <2>2 DEF LoopDone
  <2>3. CASE Decide
    <3>1. main' \in {"stop", "cancel"} /\ call' \in [Threads -> {NotInStop} \cup InStop]
      BY <2>3 DEF Decide, CallStop, EndReason, ctxReason
    <3> QED
      BY <2>3, <3>1 DEF Decide
  <2>4. CASE Decided
    BY <2>4 DEF Decided
  <2>5. CASE CancelAll
    BY <2>5 DEF CancelAll, CancelPhase
  <2>6. CASE JoinFlows
    BY <2>6 DEF JoinFlows
  <2>7. CASE JoinProbes
    BY <2>7 DEF JoinProbes
  <2>8. CASE CloseFlows
    BY <2>8 DEF CloseFlows
  <2>9. CASE Collect
    <3>1. result' \in [reason : Reasons, intervals : Nat, bytes : Nat, samples : Nat,
                       err : {"nil", "ctx", "flow"}]
      BY <2>9 DEF Collect
    <3> QED
      BY <2>9, <3>1 DEF Collect
  <2>10. CASE Return
    <3>1. result' \in [reason : Reasons, intervals : Nat, bytes : Nat, samples : Nat,
                       err : {"nil", "ctx", "flow"}]
      BY <2>10 DEF Return, ReturnedError, OwnError
    <3> QED
      BY <2>10, <3>1 DEF Return
  <2> QED
    BY <2>1, <2>2, <2>3, <2>4, <2>5, <2>6, <2>7, <2>8, <2>9, <2>10 DEF Teardown
<1>2. FlowsArePrefix'
  BY PrefixKept DEF Teardown, StoppedStable, LoopDone, Decide, Decided, CancelAll,
                    JoinFlows, JoinProbes, CloseFlows, Collect, Return
<1> QED
  BY <1>1, <1>2

\* Every step keeps the types.
LEMMA NextType == TypeInv /\ [Next]_vars => TypeInv'
<1> SUFFICES ASSUME TypeInv, [Next]_vars PROVE TypeInv'
  OBVIOUS
<1>1. CASE UNCHANGED vars
  <2>1. FlowsArePrefix'
    BY <1>1, PrefixKept DEF TypeInv, vars, mainVars, flowVars
  <2> QED
    BY <1>1, <2>1 DEF TypeInv, TypeOK, vars, mainVars, flowVars, ctxVars, byteVars, stopVars, probeVars
<1> QED
  BY <1>1, ContextsType, StopType, MoverType, FlowType, ProbeType, ProbeLoopType,
     MainLoopType, TeardownType DEF Next, MainStep, Finished

\* The initial states are well typed, and no flow is open in them.
LEMMA InitType == Init => TypeInv
<1> SUFFICES ASSUME Init PROVE TypeInv
  OBVIOUS
<1>1. TypeOK
  <2>1. probe \in [Slots -> ProbeState]
    BY DEF Init, FreeSlot, ProbeState
  <2>2. result \in [reason : Reasons, intervals : Nat, bytes : Nat, samples : Nat,
                    err : {"nil", "ctx", "flow"}]
    BY DEF Init, NoResult
  <2>3. /\ timerFired \in BOOLEAN /\ engStopped \in BOOLEAN
        /\ selfNext \in BOOLEAN /\ foreignOpen \in BOOLEAN
    BY DEF Init
  <2> QED
    BY <2>1, <2>2, <2>3, LoadPhaseAssumption DEF Init, TypeOK
<1>2. {f \in Flows : flow[f] # "none"} = 1..0
  BY DEF Init
<1>3. FlowsArePrefix
  BY <1>2, LoadPhaseAssumption DEF Init, FlowsArePrefix
<1> QED
  BY <1>1, <1>3 DEF TypeInv

\* Type correctness of the phase, and with it LIM-3: the flows loadPhase
\* opens are numbered within MaxFlows whatever the intervals decide.
THEOREM TypeCorrect == Spec => []TypeOK
<1>1. TypeInv => TypeOK
  BY DEF TypeInv
<1> QED
  BY <1>1, InitType, NextType, PTL DEF Spec
-----------------------------------------------------------------------------
(***************************************************************************)
(* The recorded reason.  A caller of stop asks for a reason that is true,  *)
(* or comes too late to matter; what makes a reason true only grows.       *)
(***************************************************************************)
CallsJustified ==
  \A t \in Threads, r \in Reasons :
    /\ call[t] = [at |-> "do", reason |-> r] => stopOnce # Free \/ TrueReason(r)
    /\ call[t] = [at |-> "cancel", reason |-> r] => stopOnce # Free

\* Why the phase context ended, and where that is already certain.
PhaseEndExplained ==
  /\ stopOnce = Done => ~Live
  /\ pctx = "cancelled" => ctx # "live" \/ stopOnce # Free
  /\ pctx = "deadline" => ctx # "live" \/ timerFired
  /\ main \in {"decide", "stop", "cancel"} => ~Live
  /\ main = "stopNone" /\ call[Main] = NotInStop => stopOnce = Done

\* What flows, body readers and probes know when they are about to stop.
CallersKnow ==
  /\ \A f \in Flows : /\ flow[f] = "errend" => f \in failed \/ ~Live
                      /\ flow[f] = "failed" => f \in failed
                      /\ mover[f] = "tripped" => Reached(total)
  /\ \A i \in Slots : probe[i].pc = "tripped" => Reached(total)

ReasonInv == ReasonJustified /\ CallsJustified /\ PhaseEndExplained /\ CallersKnow

\* Nothing that makes a reason true is ever taken back.
Growth ==
  /\ engStopped => engStopped'
  /\ timerFired => timerFired'
  /\ ctx # "live" => ctx' # "live"
  /\ total <= total' /\ total' \in Nat
  /\ flowErrs <= flowErrs' /\ flowErrs' \in Nat
  /\ failed \subseteq failed'

\* Every step only adds to the evidence.
LEMMA StepsGrow == TypeInv /\ [Next]_vars => Growth
<1> SUFFICES ASSUME TypeInv, [Next]_vars PROVE Growth
  OBVIOUS
<1>0. /\ total \in Nat /\ flowErrs \in Nat /\ Chunk \in Nat
      /\ SelfCost \in Nat /\ ForeignCost \in Nat
  BY LoadPhaseAssumption DEF TypeInv, TypeOK
<1> USE <1>0 DEF Growth, mainVars, flowVars, ctxVars, byteVars, stopVars, probeVars
<1>1. CASE UNCHANGED vars
  BY <1>1 DEF vars
<1>2. CASE Contexts
  BY <1>2 DEF Contexts, CallerEnds, Propagate, PhaseTimer
<1>3. CASE Stop
  BY <1>3 DEF Stop, StopStep, StopWin, StopCancel, StopLose
<1>4. ASSUME NEW f \in Flows, FlowStep(f) PROVE Growth
  BY <1>4 DEF FlowStep, FlowCheck, FlowConnect, FlowOk, FlowFail, FlowAbort,
              FlowReturn, FlowFailed, FlowStopped
<1>5. ASSUME NEW f \in Flows, MoverStep(f) PROVE Growth
  BY <1>5 DEF MoverStep, MoverCheck, MoverAdd, MoverTotal, MoverCap, MoverCapped
<1>6. ASSUME NEW i \in Slots, ProbeStep(i) PROVE Growth
  BY <1>6 DEF ProbeStep, ProbeStart, Charge, ProbeCap, ProbeCapped, ProbeOk, ProbeErr
<1>7. CASE ProbeLoop
  BY <1>7 DEF ProbeLoop, Launch, ProbeLoopEnds, ProbeLoopJoin
<1>8. CASE Enter \/ AddFlow \/ Added \/ TickStop \/ TickGoesOn
  <2>1. engStopped => engStopped'
    BY <1>8 DEF Enter, AddFlow, Added, TickStop, TickGoesOn
  <2>2. UNCHANGED <<timerFired, ctx, total, flowErrs, failed>>
    BY <1>8 DEF Enter, AddFlow, Added, TickStop, TickGoesOn, Interval
  <2> QED
    BY <2>1, <2>2
<1>9. CASE Teardown
  BY <1>9 DEF Teardown, StoppedStable, LoopDone, Decide, Decided, CancelAll,
              JoinFlows, JoinProbes, CloseFlows, Collect, Return
<1> QED
  BY <1>1, <1>2, <1>3, <1>4, <1>5, <1>6, <1>7, <1>8, <1>9 DEF Next, MainStep, Finished

\* A reason that is true stays true, and a limit that is reached stays so.
LEMMA TrueReasonGrows ==
  ASSUME TypeInv, Growth
  PROVE  /\ Reached(total) => Reached(total)'
         /\ \A r \in Reasons : TrueReason(r) => TrueReason(r)'
<1>1. Reached(total) => Reached(total)'
  BY LoadPhaseAssumption DEF Growth, Reached, TypeInv, TypeOK
<1>2. flowErrs > 0 => flowErrs' > 0
  BY DEF Growth, TypeInv, TypeOK
<1> QED
  BY <1>1, <1>2 DEF Growth, TrueReason

\* What the steps below carry over: evidence, and the reason already recorded.
LEMMA JustifiedKept ==
  ASSUME TypeInv, ReasonInv, Growth, UNCHANGED <<stopOnce, reason>>
  PROVE  ReasonJustified'
BY TrueReasonGrows DEF TypeInv, TypeOK, ReasonInv, ReasonJustified

\* Steps in which nobody enters or leaves stop carry CallsJustified over.
LEMMA CallsKept ==
  ASSUME TypeInv, ReasonInv, Growth, UNCHANGED <<stopOnce, call>>
  PROVE  CallsJustified'
BY TrueReasonGrows DEF ReasonInv, CallsJustified

\* A goroutine t enters stop with a reason that is true, or too late.
LEMMA CallsAdded ==
  ASSUME TypeInv, ReasonInv, Growth, UNCHANGED stopOnce,
         NEW t \in Threads, NEW r \in Reasons, CallStop(t, r),
         stopOnce # Free \/ TrueReason(r)'
  PROVE  CallsJustified'
<1> SUFFICES ASSUME NEW u \in Threads, NEW q \in Reasons
             PROVE  /\ call'[u] = [at |-> "do", reason |-> q] => stopOnce # Free \/ TrueReason(q)'
                    /\ call'[u] = [at |-> "cancel", reason |-> q] => stopOnce # Free
  BY DEF CallsJustified
<1>1. CASE u = t
  <2>1. call'[u] = [at |-> "do", reason |-> r]
    BY <1>1 DEF CallStop, TypeInv, TypeOK
  <2>2. call'[u] = [at |-> "do", reason |-> q] => q = r
    BY <2>1
  <2> QED
    BY <2>1, <2>2
<1>2. CASE u # t
  <2>1. call'[u] = call[u]
    BY <1>2 DEF CallStop, TypeInv, TypeOK
  <2> QED
    BY <2>1, TrueReasonGrows DEF ReasonInv, CallsJustified
<1> QED
  BY <1>1, <1>2

\* CallersKnow survives a step in which no flow fails and nobody trips.
LEMMA KnownKept ==
  ASSUME TypeInv, ReasonInv, Growth, ~Live => ~Live',
         UNCHANGED <<flow, mover, probe>>
  PROVE  CallersKnow'
BY TrueReasonGrows DEF ReasonInv, CallersKnow, Growth

\* The contexts: an end of pctx has its cause on record.
LEMMA ContextsReason ==
  ASSUME TypeInv, ReasonInv, Growth, Contexts
  PROVE  ReasonInv'
<1> USE DEF mainVars, flowVars, stopVars, byteVars, probeVars
<1>1. UNCHANGED <<stopOnce, reason, call, flow, mover, probe, main>>
  BY DEF Contexts, CallerEnds, Propagate, PhaseTimer
<1>2. PhaseEndExplained'
  BY <1>1 DEF TypeInv, TypeOK, ReasonInv, PhaseEndExplained, Live,
              Contexts, CallerEnds, Propagate, PhaseTimer
<1>3. ~Live => ~Live'
  BY DEF Live, Contexts, CallerEnds, Propagate, PhaseTimer
<1> QED
  BY <1>1, <1>2, <1>3, JustifiedKept, CallsKept, KnownKept DEF ReasonInv

\* stop: the winner asked for a true reason while nothing was recorded.
LEMMA StopReason ==
  ASSUME TypeInv, ReasonInv, Growth, Stop
  PROVE  ReasonInv'
<1> USE ThreadFacts DEF mainVars, flowVars, ctxVars, byteVars, probeVars
<1> PICK t \in Threads : StopWin(t) \/ StopCancel(t) \/ StopLose(t)
  BY DEF Stop, StopStep
<1>1. UNCHANGED <<flow, mover, probe, main, ctx, timerFired, engStopped, total, flowErrs, failed>>
  BY DEF StopWin, StopCancel, StopLose
<1>2. ~Live => ~Live'
  BY DEF StopWin, StopCancel, StopLose, CancelPhase, Live
<1>3. CallersKnow'
  BY <1>1, <1>2, KnownKept
<1>4. CASE StopWin(t)
  <2>1. PICK r \in Reasons : call[t] = [at |-> "do", reason |-> r]
    BY <1>4 DEF StopWin, TypeInv, TypeOK
  <2>2. stopOnce = Free /\ stopOnce' = t /\ reason' = r
    BY <1>4, <2>1 DEF StopWin
  <2>3. TrueReason(r)
    BY <2>1, <2>2 DEF ReasonInv, CallsJustified
  <2>4. ReasonJustified'
    BY <1>1, <2>2, <2>3 DEF ReasonJustified, TrueReason, Reached
  <2>5. CallsJustified'
    BY <2>2 DEF CallsJustified
  <2>6. PhaseEndExplained'
    BY <1>1, <1>4, <2>2 DEF StopWin, ReasonInv, PhaseEndExplained, Live, TypeInv, TypeOK
  <2> QED
    BY <1>3, <2>4, <2>5, <2>6 DEF ReasonInv
<1>5. CASE StopCancel(t)
  <2>1. PICK r \in Reasons : call[t] = [at |-> "cancel", reason |-> r]
    BY <1>5 DEF StopCancel, TypeInv, TypeOK
  <2>2. stopOnce # Free /\ stopOnce' = Done /\ reason' = reason /\ pctx' # "live"
    BY <1>5, <2>1 DEF StopCancel, CancelPhase, Live, ReasonInv, CallsJustified
  <2>3. ReasonJustified'
    BY <1>1, <2>2 DEF ReasonInv, ReasonJustified, TrueReason, Reached
  <2>4. CallsJustified'
    BY <2>2 DEF CallsJustified
  <2>5. PhaseEndExplained'
    BY <1>1, <1>5, <2>2 DEF StopCancel, CancelPhase, ReasonInv, PhaseEndExplained, Live
  <2> QED
    BY <1>3, <2>3, <2>4, <2>5 DEF ReasonInv
<1>6. CASE StopLose(t)
  <2>1. stopOnce = Done /\ UNCHANGED <<stopOnce, reason, pctx>>
    BY <1>6 DEF StopLose
  <2>2. CallsJustified'
    BY <2>1 DEF CallsJustified
  <2>3. PhaseEndExplained'
    BY <1>1, <2>1 DEF ReasonInv, PhaseEndExplained, Live
  <2> QED
    BY <1>3, <2>1, <2>2, <2>3, JustifiedKept DEF ReasonInv
<1> QED
  BY <1>4, <1>5, <1>6

\* PhaseEndExplained survives a step of a goroutine other than main that
\* leaves the contexts and stopOnce alone.
LEMMA ExplainedKept ==
  ASSUME ReasonInv, UNCHANGED <<stopOnce, pctx, ctx, timerFired, main>>,
         call'[Main] = call[Main]
  PROVE  PhaseEndExplained'
BY DEF ReasonInv, PhaseEndExplained, Live

\* Entering stop changes only the caller's own position.
LEMMA CallerIsNotMain ==
  ASSUME TypeInv, NEW t \in Threads \ {Main}, NEW r \in Reasons, CallStop(t, r)
  PROVE  call'[Main] = call[Main]
BY ThreadFacts DEF CallStop, TypeInv, TypeOK

\* No flow, body reader or probe is the main goroutine.
LEMMA OthersAreNotMain ==
  /\ \A f \in Flows : FlowOf(f) \in Threads \ {Main} /\ MoverOf(f) \in Threads \ {Main}
  /\ \A i \in Slots : ProbeOf(i) \in Threads \ {Main}
BY DEF FlowOf, MoverOf, ProbeOf, Threads, Movers, Probes, Main

\* The byte counter: whoever trips has seen the limit reached.
LEMMA MoverReason ==
  ASSUME NEW f \in Flows, TypeInv, ReasonInv, Growth, MoverStep(f)
  PROVE  ReasonInv'
<1> USE DEF mainVars, flowVars, ctxVars, probeVars, stopVars
<1>1. UNCHANGED <<stopOnce, reason, pctx, ctx, timerFired, main, flow, failed, probe>>
  BY DEF MoverStep, MoverCheck, MoverAdd, MoverTotal, MoverCap, MoverCapped
<1>2. ReasonJustified'
  BY <1>1, JustifiedKept
<1>3. mover[f] = "tripped" => TrueReason("bytes_cap")'
  <2>1. mover[f] = "tripped" => Reached(total)'
    BY TrueReasonGrows DEF ReasonInv, CallersKnow
  <2> QED
    BY <2>1 DEF TrueReason
<1>4. CallsJustified' /\ call'[Main] = call[Main]
  <2>1. CASE UNCHANGED call
    BY <1>1, <2>1, CallsKept
  <2>2. CASE mover[f] = "tripped" /\ CallStop(MoverOf(f), "bytes_cap")
    BY <1>1, <1>3, <2>2, CallsAdded, CallerIsNotMain, OthersAreNotMain
  <2> QED
    BY <2>1, <2>2 DEF MoverStep, MoverCheck, MoverAdd, MoverTotal, MoverCap, MoverCapped,
                      OnLimitRun, OnLimitRan
<1>5. PhaseEndExplained'
  BY <1>1, <1>4, ExplainedKept
<1>6. CallersKnow'
  <2>1. mover'[f] = "tripped" => Reached(total)'
    BY DEF MoverStep, MoverCheck, MoverAdd, MoverTotal, MoverCap, MoverCapped, TypeInv, TypeOK
  <2>2. \A g \in Flows \ {f} : mover'[g] = mover[g]
    BY DEF MoverStep, MoverCheck, MoverAdd, MoverTotal, MoverCap, MoverCapped, TypeInv, TypeOK
  <2> QED
    BY <1>1, <2>1, <2>2, TrueReasonGrows DEF ReasonInv, CallersKnow, Live
<1> QED
  BY <1>2, <1>4, <1>5, <1>6 DEF ReasonInv

\* The flows: an error believed is one that came while the context was live.
LEMMA FlowReason ==
  ASSUME NEW f \in Flows, TypeInv, ReasonInv, Growth, FlowStep(f)
  PROVE  ReasonInv'
<1> USE DEF mainVars, ctxVars, probeVars, stopVars, byteVars
<1>1. UNCHANGED <<stopOnce, reason, pctx, ctx, timerFired, main, mover, total, probe>>
  BY DEF FlowStep, FlowCheck, FlowConnect, FlowOk, FlowFail, FlowAbort,
         FlowReturn, FlowFailed, FlowStopped
<1>2. ReasonJustified'
  BY <1>1, JustifiedKept
<1>3. CallsJustified' /\ call'[Main] = call[Main]
  <2>1. CASE UNCHANGED call
    BY <1>1, <2>1, CallsKept
  <2>2. CASE FlowFailed(f)
    <3>1. flowErrs' > 0 /\ failed' # {}
      BY <2>2 DEF FlowFailed, TypeInv, TypeOK, ReasonInv, CallersKnow
    <3>2. TrueReason("flow_error")'
      BY <3>1 DEF TrueReason
    <3>3. CallStop(FlowOf(f), "flow_error")
      BY <2>2 DEF FlowFailed
    <3> QED
      BY <1>1, <3>2, <3>3, CallsAdded, CallerIsNotMain, OthersAreNotMain
  <2> QED
    BY <2>1, <2>2 DEF FlowStep, FlowCheck, FlowConnect, FlowOk, FlowFail, FlowAbort,
                      FlowReturn, FlowStopped
<1>4. PhaseEndExplained'
  BY <1>1, <1>3, ExplainedKept
<1>5. CallersKnow'
  <2>1. /\ flow'[f] = "errend" => f \in failed' \/ ~Live
        /\ flow'[f] = "failed" => f \in failed'
    BY DEF FlowStep, FlowCheck, FlowConnect, FlowOk, FlowFail, FlowAbort, FlowReturn, AfterRequest,
           FlowFailed, FlowStopped, TypeInv, TypeOK, ReasonInv, CallersKnow
  <2>2. \A g \in Flows \ {f} : flow'[g] = flow[g]
    BY DEF FlowStep, FlowCheck, FlowConnect, FlowOk, FlowFail, FlowAbort, FlowReturn,
           FlowFailed, FlowStopped, TypeInv, TypeOK
  <2> QED
    BY <1>1, <2>1, <2>2, TrueReasonGrows DEF ReasonInv, CallersKnow, Live, Growth
<1> QED
  BY <1>2, <1>3, <1>4, <1>5 DEF ReasonInv

\* The probes: as for the body readers.
LEMMA ProbeReason ==
  ASSUME NEW i \in Slots, TypeInv, ReasonInv, Growth, ProbeStep(i)
  PROVE  ReasonInv'
<1> USE DEF mainVars, flowVars, ctxVars, byteVars, stopVars
<1>1. UNCHANGED <<stopOnce, reason, pctx, ctx, timerFired, main, flow, failed, mover>>
  BY DEF ProbeStep, ProbeStart, ProbeCap, ProbeCapped, ProbeOk, ProbeErr
<1>2. ReasonJustified'
  BY <1>1, JustifiedKept
<1>3. probe[i].pc = "tripped" => TrueReason("bytes_cap")'
  <2>1. probe[i].pc = "tripped" => Reached(total)'
    BY TrueReasonGrows DEF ReasonInv, CallersKnow
  <2> QED
    BY <2>1 DEF TrueReason
<1>4. CallsJustified' /\ call'[Main] = call[Main]
  <2>1. CASE UNCHANGED call
    BY <1>1, <2>1, CallsKept
  <2>2. CASE probe[i].pc = "tripped" /\ CallStop(ProbeOf(i), "bytes_cap")
    BY <1>1, <1>3, <2>2, CallsAdded, CallerIsNotMain, OthersAreNotMain
  <2> QED
    BY <2>1, <2>2 DEF ProbeStep, ProbeStart, ProbeCap, ProbeCapped, ProbeOk, ProbeErr,
                      OnLimitRun, OnLimitRan
<1>5. PhaseEndExplained'
  BY <1>1, <1>4, ExplainedKept
<1>6. CallersKnow'
  <2>1. probe'[i].pc = "tripped" => Reached(total)'
    <3>1. CASE ProbeStart(i)
      BY <3>1 DEF ProbeStart, Skip, Charge, Release, FreeSlot, TypeInv, TypeOK
    <3>2. CASE ProbeCap(i) \/ ProbeCapped(i)
      BY <3>2 DEF ProbeCap, ProbeCapped, TypeInv, TypeOK, ProbeState
    <3>3. CASE ProbeOk(i) \/ ProbeErr(i)
      BY <3>3 DEF ProbeOk, ProbeErr, Release, FreeSlot, TypeInv, TypeOK
    <3> QED
      BY <3>1, <3>2, <3>3 DEF ProbeStep
  <2>2. \A j \in Slots \ {i} : probe'[j] = probe[j]
    BY DEF ProbeStep, ProbeStart, Skip, ProbeCap, ProbeCapped, ProbeOk, ProbeErr, Charge, Release,
           TypeInv, TypeOK
  <2> QED
    BY <1>1, <2>1, <2>2, TrueReasonGrows DEF ReasonInv, CallersKnow, Live
<1> QED
  BY <1>2, <1>4, <1>5, <1>6 DEF ReasonInv

\* The scheduler stops nobody.
LEMMA ProbeLoopReason ==
  ASSUME TypeInv, ReasonInv, Growth, ProbeLoop
  PROVE  ReasonInv'
<1> USE DEF mainVars, flowVars, ctxVars, byteVars, stopVars
<1>1. UNCHANGED <<stopOnce, reason, call, pctx, ctx, timerFired, main, flow, failed, mover, total>>
  BY DEF ProbeLoop, Launch, ProbeLoopEnds, ProbeLoopJoin
<1>2. \A i \in Slots : probe'[i].pc = "tripped" => probe[i].pc = "tripped"
  BY DEF ProbeLoop, Launch, ProbeLoopEnds, ProbeLoopJoin, TypeInv, TypeOK
<1>3. CallersKnow'
  BY <1>1, <1>2 DEF ReasonInv, CallersKnow, Live, Reached
<1> QED
  BY <1>1, <1>3, JustifiedKept, CallsKept, ExplainedKept DEF ReasonInv

\* main while the phase runs: it stops without a reason only when the
\* engine has stopped.
LEMMA MainLoopReason ==
  ASSUME TypeInv, ReasonInv, Growth,
         Enter \/ AddFlow \/ Added \/ TickStop \/ TickGoesOn
  PROVE  ReasonInv'
<1> USE DEF flowVars, ctxVars, byteVars, stopVars, probeVars
<1>1. UNCHANGED <<stopOnce, reason, pctx, ctx, timerFired, failed, mover, total, probe>>
  BY DEF Enter, AddFlow, Added, TickStop, TickGoesOn, Interval
<1>2. ReasonJustified'
  BY <1>1, JustifiedKept
<1>3. CallersKnow'
  <2>1. \A f \in Flows : flow'[f] # flow[f] => flow'[f] = "check"
    BY DEF Enter, AddFlow, Added, TickStop, TickGoesOn, Interval, TypeInv, TypeOK
  <2> QED
    BY <1>1, <2>1 DEF ReasonInv, CallersKnow, Live, Reached
<1>4. CASE TickStop
  <2>1. CallStop(Main, "none") /\ main' = "stopNone"
    BY <1>4 DEF TickStop
  <2>2. TrueReason("none")'
    BY <1>4 DEF TickStop, TrueReason
  <2>3. CallsJustified'
    BY <1>1, <2>1, <2>2, CallsAdded, ThreadFacts
  <2>4. call'[Main] # NotInStop
    BY <2>1, ThreadFacts DEF CallStop, TypeInv, TypeOK
  <2>5. PhaseEndExplained'
    BY <1>1, <2>1, <2>4 DEF ReasonInv, PhaseEndExplained, Live
  <2> QED
    BY <1>2, <1>3, <2>3, <2>5 DEF ReasonInv
<1>5. CASE Enter \/ AddFlow \/ Added \/ TickGoesOn
  <2>1. UNCHANGED call /\ main' \in {"add", "loop", "returned"}
    BY <1>5 DEF Enter, AddFlow, Added, TickGoesOn
  <2>2. PhaseEndExplained'
    BY <1>1, <2>1 DEF ReasonInv, PhaseEndExplained, Live
  <2> QED
    BY <1>1, <1>2, <1>3, <2>1, <2>2, CallsKept DEF ReasonInv
<1> QED
  BY <1>4, <1>5

\* main while it tears down: it names the caller's end, or its own timer's.
LEMMA TeardownReason ==
  ASSUME TypeInv, ReasonInv, Growth, Teardown
  PROVE  ReasonInv'
<1> USE DEF flowVars, ctxVars, byteVars, stopVars, probeVars
<1>1. UNCHANGED <<stopOnce, reason, ctx, timerFired, flow, mover, total, probe>>
  BY DEF Teardown, StoppedStable, LoopDone, Decide, Decided, CancelAll,
         JoinFlows, JoinProbes, CloseFlows, Collect, Return
<1>2. ReasonJustified'
  BY <1>1, JustifiedKept
<1>3. pctx' = pctx
  <2>1. CASE CancelAll
    BY <2>1 DEF CancelAll, CancelPhase, ReasonInv, PhaseEndExplained
  <2> QED
    BY <2>1 DEF Teardown, StoppedStable, LoopDone, Decide, Decided,
                JoinFlows, JoinProbes, CloseFlows, Collect, Return
<1>4. CallersKnow'
  BY <1>1, <1>3, KnownKept DEF Live
<1>5. CASE Decide
  <2>1. ~Live
    BY <1>5 DEF Decide, ReasonInv, PhaseEndExplained
  <2> DEFINE r == IF ctx # "live" THEN "cancelled" ELSE ctxReason
  <2>2. CallStop(Main, r)
    BY <1>5, <2>1 DEF Decide, EndReason, CallStop
  <2>3. r \in Reasons
    BY DEF ctxReason
  <2>4. ASSUME NEW q \in Reasons, q = r
        PROVE  stopOnce # Free \/ TrueReason(q)'
    BY <1>1, <2>1, <2>4 DEF ReasonInv, PhaseEndExplained, ctxReason, TrueReason, Live,
                            TypeInv, TypeOK
  <2>5. CallsJustified'
    <3>1. PICK q \in Reasons : q = r
      BY <2>3
    <3>2. CallStop(Main, q)
      BY <2>2, <3>1
    <3>3. stopOnce # Free \/ TrueReason(q)'
      BY <2>4, <3>1
    <3> HIDE DEF r
    <3> QED
      BY <1>1, <3>2, <3>3, CallsAdded, ThreadFacts
  <2>6. PhaseEndExplained'
    BY <1>1, <1>3, <1>5, <2>1 DEF Decide, ReasonInv, PhaseEndExplained, Live
  <2> QED
    BY <1>2, <1>4, <2>5, <2>6 DEF ReasonInv
<1>6. CASE ~Decide
  <2>1. UNCHANGED call
    BY <1>6 DEF Teardown, StoppedStable, LoopDone, Decided, CancelAll,
                JoinFlows, JoinProbes, CloseFlows, Collect, Return
  <2>2. PhaseEndExplained'
    BY <1>1, <1>3, <1>6, <2>1
       DEF Teardown, StoppedStable, LoopDone, Decided, CancelAll, JoinFlows, JoinProbes,
           CloseFlows, Collect, Return, ReasonInv, PhaseEndExplained, Live, OutOfStop
  <2> QED
    BY <1>1, <1>2, <1>4, <2>1, <2>2, CallsKept DEF ReasonInv
<1> QED
  BY <1>5, <1>6

\* ReasonInv holds in every reachable state.
LEMMA ReasonInvHolds == Spec => [](TypeInv /\ ReasonInv)
<1>1. Init => ReasonInv
  BY ThreadFacts DEF Init, ReasonInv, ReasonJustified, CallsJustified, PhaseEndExplained,
                     CallersKnow, Live, FreeSlot
<1>2. TypeInv /\ ReasonInv /\ [Next]_vars => ReasonInv'
  <2> SUFFICES ASSUME TypeInv, ReasonInv, [Next]_vars PROVE ReasonInv'
    OBVIOUS
  <2>1. Growth
    BY StepsGrow
  <2>2. CASE UNCHANGED vars
    <3>1. /\ UNCHANGED <<stopOnce, reason, call, flow, mover, probe>>
          /\ UNCHANGED <<pctx, ctx, timerFired, main>>
      BY <2>2 DEF vars, mainVars, flowVars, stopVars, ctxVars, byteVars, probeVars
    <3>2. ~Live => ~Live'
      BY <3>1 DEF Live
    <3> QED
      BY <2>1, <3>1, <3>2, JustifiedKept, CallsKept, KnownKept, ExplainedKept DEF ReasonInv
  <2> QED
    BY <2>1, <2>2, ContextsReason, StopReason, MoverReason, FlowReason, ProbeReason,
       ProbeLoopReason, MainLoopReason, TeardownReason DEF Next, MainStep, Finished
<1> QED
  BY <1>1, <1>2, InitType, NextType, PTL DEF Spec

\* Every reason loadPhase can record is true of the phase: for any number of
\* flows and probes, any byte cap, in every interleaving of their calls of
\* stop with the contexts' ends.
THEOREM ReasonIsJustified == Spec => []ReasonJustified
<1>1. ReasonInv => ReasonJustified
  BY DEF ReasonInv
<1> QED
  BY <1>1, ReasonInvHolds, PTL
-----------------------------------------------------------------------------
(***************************************************************************)
(* The order of the teardown: flows end before the probes are joined, the  *)
(* probes before the transports are closed.                                *)
(***************************************************************************)
FlowsEnded == \A f \in Flows : flow[f] \in {"none", "done"}
SlotsFree == \A i \in Slots : SlotFree(i)

TeardownOrder ==
  /\ main = "enter" => loop = "unborn" /\ open = {} /\ FlowsEnded
  /\ main \in {"joinProbes", "close", "collect", "return", "returned"} => FlowsEnded
  /\ main \in {"close", "collect", "return"} => loop = "done"
  /\ main = "returned" => loop \in {"unborn", "done"}
  /\ loop = "unborn" => main \in {"enter", "add", "returned"}
  /\ main \in {"collect", "return", "returned"} => open = {}

ProbesHoldTransports ==
  /\ loop \in {"unborn", "done"} => SlotsFree /\ ~foreignOpen
  /\ loop \in {"gap", "drain"} => foreignOpen
  /\ \A i \in Slots : ~SlotFree(i) => probe[i].flow \in ready \cup {NoFlow}
  /\ \A f \in ready : flow[f] # "none"
  /\ main \notin {"collect", "return", "returned"} =>
       \A f \in Flows : flow[f] # "none" => f \in open

JoinInv == TeardownOrder /\ ProbesHoldTransports

\* The conclusions drawn from JoinInv.
LEMMA JoinInvSuffices ==
  TypeInv /\ JoinInv => NothingOutlivesThePhase /\ ProbesUseOpenTransports
<1> SUFFICES ASSUME TypeInv, JoinInv
             PROVE  NothingOutlivesThePhase /\ ProbesUseOpenTransports
  OBVIOUS
<1>1. NothingOutlivesThePhase
  BY DEF JoinInv, TeardownOrder, ProbesHoldTransports, FlowsEnded, SlotsFree,
         NothingOutlivesThePhase
<1>2. ProbesUseOpenTransports
  <2> SUFFICES ASSUME NEW i \in Slots, ~SlotFree(i)
               PROVE  IF probe[i].flow = NoFlow THEN foreignOpen ELSE probe[i].flow \in open
    BY DEF ProbesUseOpenTransports
  <2>1. loop \in {"gap", "drain"} /\ foreignOpen
    BY DEF JoinInv, ProbesHoldTransports, SlotsFree, TypeInv, TypeOK
  <2>2. main \notin {"collect", "return", "returned"}
    BY <2>1 DEF JoinInv, TeardownOrder
  <2> QED
    BY <2>1, <2>2 DEF JoinInv, ProbesHoldTransports, TypeInv, TypeOK
<1> QED
  BY <1>1, <1>2

\* Steps of the contexts, of stop and of the byte counter touch nothing here.
LEMMA JoinKept ==
  ASSUME JoinInv, UNCHANGED <<main, flow, loop, probe, ready, foreignOpen, open>>
  PROVE  JoinInv'
BY DEF JoinInv, TeardownOrder, ProbesHoldTransports, FlowsEnded, SlotsFree, SlotFree

\* A flow goroutine that has ended stays ended, and none starts by itself.
LEMMA FlowJoin ==
  ASSUME NEW f \in Flows, TypeInv, JoinInv, FlowStep(f)
  PROVE  JoinInv'
<1> USE DEF mainVars, ctxVars, probeVars, stopVars, byteVars
<1>1. /\ UNCHANGED <<main, loop, probe, foreignOpen, open>>
      /\ flow[f] \notin {"none", "done"} /\ flow'[f] # "none"
      /\ \A g \in Flows \ {f} : flow'[g] = flow[g]
      /\ ready' \in {ready, ready \cup {f}}
  BY DEF FlowStep, FlowCheck, FlowConnect, FlowOk, FlowFail, FlowAbort, FlowReturn, AfterRequest,
         FlowFailed, FlowStopped, TypeInv, TypeOK
<1>2. TeardownOrder'
  BY <1>1 DEF JoinInv, TeardownOrder, FlowsEnded
<1>3. ProbesHoldTransports'
  BY <1>1 DEF JoinInv, ProbesHoldTransports, SlotsFree, SlotFree, TypeInv, TypeOK
<1> QED
  BY <1>2, <1>3 DEF JoinInv

\* A probe keeps its transport from launch to release.
LEMMA ProbeJoin ==
  ASSUME NEW i \in Slots, TypeInv, JoinInv, ProbeStep(i)
  PROVE  JoinInv'
<1> USE DEF mainVars, flowVars, ctxVars, byteVars, stopVars
<1>1. /\ UNCHANGED <<main, loop, flow, ready, foreignOpen, open>>
      /\ \A j \in Slots \ {i} : probe'[j] = probe[j]
      /\ probe[i].pc # "free"
  BY DEF ProbeStep, ProbeStart, Skip, ProbeCap, ProbeCapped, ProbeOk, ProbeErr, Charge, Release,
         TypeInv, TypeOK
<1>2. TeardownOrder'
  BY <1>1 DEF JoinInv, TeardownOrder, FlowsEnded
<1>3. probe'[i].pc # "free" => probe'[i].flow \in ready \cup {NoFlow}
  <2>1. CASE ProbeStart(i)
    BY <2>1 DEF ProbeStart, Skip, Charge, Release, FreeSlot, TypeInv, TypeOK
  <2>2. CASE ProbeCap(i) \/ ProbeCapped(i)
    <3>1. probe'[i].flow = probe[i].flow
      BY <2>2 DEF ProbeCap, ProbeCapped, TypeInv, TypeOK, ProbeState
    <3> QED
      BY <1>1, <3>1 DEF JoinInv, ProbesHoldTransports, SlotFree
  <2>3. CASE ProbeOk(i) \/ ProbeErr(i)
    BY <2>3 DEF ProbeOk, ProbeErr, Release, FreeSlot, TypeInv, TypeOK
  <2> QED
    BY <2>1, <2>2, <2>3 DEF ProbeStep
<1>4. ProbesHoldTransports'
  BY <1>1, <1>3 DEF JoinInv, ProbesHoldTransports, SlotsFree, SlotFree
<1> QED
  BY <1>2, <1>4 DEF JoinInv

\* The scheduler launches only while foreignRT is open and closes it last.
LEMMA ProbeLoopJoinInv ==
  ASSUME TypeInv, JoinInv, ProbeLoop
  PROVE  JoinInv'
<1> USE DEF mainVars, flowVars, ctxVars, byteVars, stopVars
<1>1. UNCHANGED <<main, flow, ready, open>>
  BY DEF ProbeLoop, Launch, ProbeLoopEnds, ProbeLoopJoin
<1>2. CASE Launch
  <2>1. \A i \in Slots : probe'[i] = probe[i] \/ probe'[i].flow = NoFlow
    BY <1>2 DEF Launch, TypeInv, TypeOK
  <2> QED
    BY <1>1, <1>2, <2>1 DEF Launch, JoinInv, TeardownOrder, ProbesHoldTransports, FlowsEnded, SlotFree
<1>3. CASE ProbeLoopEnds \/ ProbeLoopJoin
  BY <1>1, <1>3 DEF ProbeLoopEnds, ProbeLoopJoin, ProbesJoined, JoinInv, TeardownOrder, ProbesHoldTransports,
                    FlowsEnded, SlotsFree, SlotFree
<1> QED
  BY <1>2, <1>3 DEF ProbeLoop

\* main passes each join only when what it waits for has ended.
LEMMA MainJoin ==
  ASSUME TypeInv, JoinInv, MainStep
  PROVE  JoinInv'
<1> USE DEF flowVars, ctxVars, byteVars, stopVars
<1>1. CASE Enter
  BY <1>1 DEF Enter, probeVars, JoinInv, TeardownOrder, ProbesHoldTransports, FlowsEnded, SlotsFree, SlotFree
<1>2. CASE AddFlow
  BY <1>2 DEF AddFlow, probeVars, JoinInv, TeardownOrder, ProbesHoldTransports, FlowsEnded, SlotsFree,
              SlotFree, TypeInv, TypeOK
<1>3. CASE Added
  BY <1>3 DEF Added, JoinInv, TeardownOrder, ProbesHoldTransports, FlowsEnded, SlotsFree, SlotFree,
              TypeInv, TypeOK
<1>4. CASE TickStop \/ TickGoesOn
  BY <1>4 DEF TickStop, TickGoesOn, Interval, JoinInv, TeardownOrder, ProbesHoldTransports,
              FlowsEnded, SlotsFree, SlotFree
<1>5. CASE StoppedStable \/ LoopDone \/ Decide \/ Decided \/ CancelAll
  BY <1>5 DEF StoppedStable, LoopDone, Decide, Decided, CancelAll, probeVars,
              JoinInv, TeardownOrder, ProbesHoldTransports, FlowsEnded, SlotsFree, SlotFree
<1>6. CASE JoinFlows \/ JoinProbes \/ CloseFlows \/ Return
  BY <1>6 DEF JoinFlows, FlowsJoined, ProbeLoopJoined, JoinProbes, CloseFlows, Return, probeVars,
              JoinInv, TeardownOrder, ProbesHoldTransports, FlowsEnded, SlotsFree, SlotFree
<1>7. CASE Collect
  BY <1>7 DEF Collect, JoinInv, TeardownOrder, ProbesHoldTransports, FlowsEnded, SlotsFree, SlotFree
<1> QED
  BY <1>1, <1>2, <1>3, <1>4, <1>5, <1>6, <1>7 DEF MainStep, Teardown

\* JoinInv holds in every reachable state.
LEMMA JoinInvHolds == Spec => [](TypeInv /\ JoinInv)
<1>1. Init => JoinInv
  BY DEF Init, JoinInv, TeardownOrder, ProbesHoldTransports, FlowsEnded, SlotsFree, SlotFree, FreeSlot
<1>2. TypeInv /\ JoinInv /\ [Next]_vars => JoinInv'
  <2> SUFFICES ASSUME TypeInv, JoinInv, [Next]_vars PROVE JoinInv'
    OBVIOUS
  <2>1. CASE Contexts \/ Stop \/ UNCHANGED vars
    BY <2>1, JoinKept DEF Contexts, CallerEnds, Propagate, PhaseTimer, Stop, StopStep, StopWin,
       StopCancel, StopLose, vars, mainVars, flowVars, probeVars
  <2>2. ASSUME NEW f \in Flows, MoverStep(f) PROVE JoinInv'
    BY <2>2, JoinKept DEF MoverStep, MoverCheck, MoverAdd, MoverTotal, MoverCap, MoverCapped,
       mainVars, flowVars, probeVars
  <2> QED
    BY <2>1, <2>2, FlowJoin, ProbeJoin, ProbeLoopJoinInv, MainJoin DEF Next, Finished
<1> QED
  BY <1>1, <1>2, InitType, NextType, PTL DEF Spec

\* INV-4 for one phase: nothing loadPhase started is running, and nothing it
\* opened is open, once it has returned.
THEOREM PhaseLeavesNothing == Spec => []NothingOutlivesThePhase
BY JoinInvHolds, JoinInvSuffices, PTL

\* No probe ever runs on a transport that has been closed.
THEOREM ProbesHaveTransports == Spec => []ProbesUseOpenTransports
BY JoinInvHolds, JoinInvSuffices, PTL

\* The recorded reason is written once: no step after the first p.stop
\* changes it, so what teardown reports is what ended the phase.
THEOREM ReasonIsRecordedOnce == Spec => ReasonRecordedOnce
<1> USE DEF mainVars, flowVars, stopVars, ctxVars, byteVars, probeVars
<1>1. ASSUME [Next]_vars PROVE stopOnce # Free => reason' = reason /\ stopOnce' # Free
  <2>1. CASE UNCHANGED vars
    BY <2>1 DEF vars
  <2>2. CASE Stop
    BY <2>2, ThreadFacts DEF Stop, StopStep, StopWin, StopCancel, StopLose
  <2>3. CASE Contexts \/ ProbeLoop
    BY <2>3 DEF Contexts, CallerEnds, Propagate, PhaseTimer,
                ProbeLoop, Launch, ProbeLoopEnds, ProbeLoopJoin
  <2>4. ASSUME NEW f \in Flows, FlowStep(f) \/ MoverStep(f)
        PROVE  UNCHANGED <<stopOnce, reason>>
    BY <2>4 DEF FlowStep, FlowCheck, FlowConnect, FlowOk, FlowFail, FlowAbort, FlowReturn,
                FlowFailed, FlowStopped, MoverStep, MoverCheck, MoverAdd, MoverTotal, MoverCap, MoverCapped
  <2>5. ASSUME NEW i \in Slots, ProbeStep(i) PROVE UNCHANGED <<stopOnce, reason>>
    BY <2>5 DEF ProbeStep, ProbeStart, ProbeCap, ProbeCapped, ProbeOk, ProbeErr
  <2>6. CASE MainStep
    BY <2>6 DEF MainStep, Enter, AddFlow, Added, TickStop, TickGoesOn, Interval, Teardown,
                StoppedStable, LoopDone, Decide, Decided, CancelAll, JoinFlows, JoinProbes,
                CloseFlows, Collect, Return
  <2> QED
    BY <1>1, <2>1, <2>2, <2>3, <2>4, <2>5, <2>6 DEF Next, Finished
<1> QED
  BY <1>1, PTL DEF Spec, ReasonRecordedOnce
-----------------------------------------------------------------------------
(***************************************************************************)
(* The figures of the result: samples, bytes and failures.                 *)
(***************************************************************************)
\* The samples completed, wherever they are by now.
SamplesInv ==
  /\ main = "enter" => produced = 0
  /\ main \notin {"return", "returned"} => taken + cur = produced
  /\ main \in {"return", "returned"} => result.samples = produced

\* The movers between their two additions, whose bytes are payload already
\* and cost not yet.
Underway == {f \in Flows : mover[f] = "added"}

\* The ledger of the byte counter, the Chunks underway included; a download
\* has a mover at work only under a body, which is what join waits for.
BytesInv ==
  /\ total + Chunk * Cardinality(Underway) = payload + attempted
  /\ main = "enter" => total = 0 /\ \A f \in Flows : mover[f] = "rest"
  /\ ~Upload => \A f \in Flows : mover[f] # "rest" => flow[f] = "body"
  /\ main \in {"return", "returned"} /\ ~Upload => result.bytes = total

\* The flows that may have been counted: a flow is past its only count.
Past == {f \in failed : flow[f] \in {"stopping", "done"}}

FailuresInv == flowErrs <= Cardinality(Past)

\* A step that touches no sample and does not move main.
LEMMA SamplesKept ==
  ASSUME SamplesInv, UNCHANGED <<main, taken, cur, produced, result>>
  PROVE  SamplesInv'
BY DEF SamplesInv

\* No probe completes once main has passed the joins.
LEMMA ProbeSamples ==
  ASSUME NEW i \in Slots, TypeInv, JoinInv, SamplesInv, ProbeStep(i)
  PROVE  SamplesInv'
<1> USE DEF mainVars, flowVars, ctxVars, byteVars, stopVars
<1>1. CASE ProbeOk(i)
  <2>1. ~SlotFree(i) /\ UNCHANGED <<main, taken, result>> /\ cur' = cur + 1 /\ produced' = produced + 1
    BY <1>1 DEF ProbeOk, SlotFree
  <2>2. main \notin {"enter", "return", "returned"}
    BY <2>1 DEF JoinInv, TeardownOrder, ProbesHoldTransports, SlotsFree
  <2> QED
    BY <2>1, <2>2 DEF SamplesInv, TypeInv, TypeOK
<1>2. CASE ProbeStart(i) \/ ProbeCap(i) \/ ProbeCapped(i) \/ ProbeErr(i)
  BY <1>2, SamplesKept DEF ProbeStart, ProbeCap, ProbeCapped, ProbeErr
<1> QED
  BY <1>1, <1>2 DEF ProbeStep

\* main moves samples from the current interval to the engine and the result.
LEMMA MainSamples ==
  ASSUME TypeInv, SamplesInv, MainStep
  PROVE  SamplesInv'
<1> USE DEF flowVars, ctxVars, byteVars, stopVars, probeVars, SamplesInv
<1>1. CASE Enter
  BY <1>1 DEF Enter, NoResult, TypeInv, TypeOK
<1>2. CASE AddFlow \/ Added
  BY <1>2 DEF AddFlow, Added
<1>3. CASE TickStop \/ TickGoesOn
  <2>1. /\ main = "loop" /\ main' \in {"add", "stopNone"}
        /\ taken' = taken + cur /\ cur' = 0 /\ produced' = produced
    BY <1>3 DEF TickStop, TickGoesOn, Interval, LeavesNothing
  <2> QED
    BY <2>1 DEF TypeInv, TypeOK
<1>4. CASE Collect
  BY <1>4 DEF Collect, TypeInv, TypeOK
<1>5. CASE Return
  BY <1>5 DEF Return, TypeInv, TypeOK
<1>6. CASE StoppedStable \/ LoopDone \/ Decide \/ Decided \/ CancelAll \/ JoinFlows
             \/ JoinProbes \/ CloseFlows
  BY <1>6 DEF StoppedStable, LoopDone, Decide, Decided, CancelAll, JoinFlows, JoinProbes, CloseFlows
<1> QED
  BY <1>1, <1>2, <1>3, <1>4, <1>5, <1>6 DEF MainStep, Teardown

\* No sample is lost or counted twice: of any number of probes completing on
\* either side of an interval's end, each is in one interval or among the
\* samples of the interval the phase ended in, and so in its summary once.
THEOREM SamplesCountedOnce == Spec => []EverySampleCountedOnce
<1>1. Init => SamplesInv
  BY DEF Init, SamplesInv
<1>2. TypeInv /\ JoinInv /\ SamplesInv /\ [Next]_vars => SamplesInv'
  <2> SUFFICES ASSUME TypeInv, JoinInv, SamplesInv, [Next]_vars PROVE SamplesInv'
    OBVIOUS
  <2>1. CASE Contexts \/ Stop \/ UNCHANGED vars
    BY <2>1, SamplesKept DEF Contexts, CallerEnds, Propagate, PhaseTimer, Stop, StopStep, StopWin,
       StopCancel, StopLose, vars, mainVars, probeVars
  <2>2. ASSUME NEW f \in Flows, FlowStep(f) \/ MoverStep(f) PROVE SamplesInv'
    BY <2>2, SamplesKept DEF FlowStep, FlowCheck, FlowConnect, FlowOk, FlowFail, FlowAbort,
       FlowReturn, FlowFailed, FlowStopped, MoverStep, MoverCheck, MoverAdd, MoverTotal, MoverCap,
       MoverCapped, mainVars, probeVars
  <2>3. CASE ProbeLoop
    BY <2>3, SamplesKept DEF ProbeLoop, Launch, ProbeLoopEnds, ProbeLoopJoin, mainVars
  <2> QED
    BY <2>1, <2>2, <2>3, ProbeSamples, MainSamples DEF Next, Finished
<1>3. SamplesInv => EverySampleCountedOnce
  BY DEF SamplesInv, EverySampleCountedOnce
<1> QED
  BY <1>1, <1>2, <1>3, JoinInvHolds, PTL DEF Spec

\* Flows, and any part of them, can be counted.
LEMMA FlowsFinite == \A S \in SUBSET Flows : IsFiniteSet(S) /\ Cardinality(S) \in Nat
<1>1. IsFiniteSet(Flows)
  BY LoadPhaseAssumption, FS_Interval DEF Flows
<1> QED
  BY <1>1, FS_Subset, FS_CardinalityType

\* A flow is counted once: the count raises Past by the flow itself.
LEMMA FlowFailures ==
  ASSUME NEW f \in Flows, TypeInv, ReasonInv, FailuresInv, FlowStep(f)
  PROVE  FailuresInv'
<1> USE DEF TypeInv, TypeOK
<1>1. Past \in SUBSET Flows /\ Past' \in SUBSET Flows
  <2>1. failed' \in SUBSET Flows
    BY DEF FlowStep, FlowCheck, FlowConnect, FlowOk, FlowFail, FlowAbort, FlowReturn,
           FlowFailed, FlowStopped
  <2> QED
    BY <2>1 DEF Past
<1>2. Cardinality(Past) \in Nat /\ Cardinality(Past') \in Nat /\ IsFiniteSet(Past')
  BY <1>1, FlowsFinite
<1>3. CASE FlowFailed(f)
  <2>1. f \in failed /\ failed' = failed /\ flow[f] = "failed" /\ flowErrs' = flowErrs + 1
    BY <1>3 DEF FlowFailed, ReasonInv, CallersKnow
  <2>2. Past' = Past \cup {f} /\ f \notin Past
    BY <1>3, <2>1 DEF FlowFailed, Past
  <2>3. Cardinality(Past') = Cardinality(Past) + 1
    BY <1>1, <2>2, FlowsFinite, FS_AddElement
  <2> QED
    BY <1>2, <2>1, <2>3 DEF FailuresInv
<1>4. CASE ~FlowFailed(f)
  <2>1. flowErrs' = flowErrs
    BY <1>4 DEF FlowStep, FlowCheck, FlowConnect, FlowOk, FlowFail, FlowAbort, FlowReturn, FlowStopped
  <2>2. Past \subseteq Past'
    BY <1>4 DEF Past, FlowStep, FlowCheck, FlowConnect, FlowOk, FlowFail, FlowAbort, FlowReturn,
                FlowStopped
  <2>3. Cardinality(Past) <= Cardinality(Past')
    BY <1>2, <2>2, FS_Subset
  <2> QED
    BY <1>2, <2>1, <2>3 DEF FailuresInv
<1> QED
  BY <1>3, <1>4

\* main opens only flows that were not open, which are not in Past.
LEMMA MainFailures ==
  ASSUME TypeInv, FailuresInv, MainStep
  PROVE  FailuresInv'
<1> USE DEF mainVars, flowVars
<1>1. flowErrs' = flowErrs /\ failed' = failed
  BY DEF MainStep, Enter, AddFlow, Added, TickStop, TickGoesOn, Interval, Teardown, StoppedStable,
         LoopDone, Decide, Decided, CancelAll, JoinFlows, JoinProbes, CloseFlows, Collect, Return
<1>2. \A f \in Flows : flow[f] # "none" => flow'[f] = flow[f]
  <2>1. CASE AddFlow
    <3>1. PICK k \in 0..MaxFlows :
            {f \in Flows : flow[f] # "none"} = 1..k /\ k + toAdd <= MaxFlows
      BY DEF TypeInv, FlowsArePrefix
    <3>2. flowCount = k
      BY <3>1, FlowCountOfPrefix
    <3>3. flow' = [flow EXCEPT ![k + 1] = "check"] /\ k + 1 \notin 1..k
      BY <2>1, <3>2 DEF AddFlow
    <3> QED
      BY <3>1, <3>3 DEF TypeInv, TypeOK
  <2>2. CASE ~AddFlow
    BY <2>2 DEF MainStep, Enter, Added, TickStop, TickGoesOn, Interval, Teardown, StoppedStable,
         LoopDone, Decide, Decided, CancelAll, JoinFlows, JoinProbes, CloseFlows, Collect, Return
  <2> QED
    BY <2>1, <2>2
<1>3. Past \subseteq Past' /\ Past \in SUBSET Flows /\ Past' \in SUBSET Flows
  BY <1>1, <1>2 DEF Past, TypeInv, TypeOK
<1>4. Cardinality(Past) <= Cardinality(Past')
  BY <1>3, FlowsFinite, FS_Subset
<1> QED
  BY <1>1, <1>3, <1>4, FlowsFinite DEF FailuresInv, TypeInv, TypeOK

\* flow_errors counts no failure twice and none that the end of the phase
\* caused: there are at most as many as flows that failed on their own.
THEOREM OwnFailuresCounted == Spec => []OnlyOwnFailuresCounted
<1>1. Init => FailuresInv
  <2> SUFFICES ASSUME Init PROVE FailuresInv
    OBVIOUS
  <2>1. Past = {} /\ flowErrs = 0
    BY DEF Init, Past
  <2> QED
    BY <2>1, FS_EmptySet DEF FailuresInv
<1>2. TypeInv /\ ReasonInv /\ FailuresInv /\ [Next]_vars => FailuresInv'
  <2> SUFFICES ASSUME TypeInv, ReasonInv, FailuresInv, [Next]_vars PROVE FailuresInv'
    OBVIOUS
  <2>1. ASSUME UNCHANGED <<flow, failed, flowErrs>> PROVE FailuresInv'
    BY <2>1 DEF FailuresInv, Past
  <2>2. CASE Contexts \/ Stop \/ ProbeLoop \/ UNCHANGED vars
    BY <2>1, <2>2 DEF Contexts, CallerEnds, Propagate, PhaseTimer, Stop, StopStep, StopWin, StopCancel,
       StopLose, ProbeLoop, Launch, ProbeLoopEnds, ProbeLoopJoin, vars, flowVars
  <2>3. ASSUME NEW f \in Flows, MoverStep(f) PROVE FailuresInv'
    BY <2>1, <2>3 DEF MoverStep, MoverCheck, MoverAdd, MoverTotal, MoverCap, MoverCapped, flowVars
  <2>4. ASSUME NEW i \in Slots, ProbeStep(i) PROVE FailuresInv'
    BY <2>1, <2>4 DEF ProbeStep, ProbeStart, ProbeCap, ProbeCapped, ProbeOk, ProbeErr, flowVars
  <2> QED
    BY <2>2, <2>3, <2>4, FlowFailures, MainFailures DEF Next, Finished
<1>3. TypeInv /\ FailuresInv => OnlyOwnFailuresCounted
  <2> SUFFICES ASSUME TypeInv, FailuresInv PROVE OnlyOwnFailuresCounted
    OBVIOUS
  <2>1. failed \in SUBSET Flows /\ Past \in SUBSET failed
    BY DEF Past, TypeInv, TypeOK
  <2>2. /\ Cardinality(Past) <= Cardinality(failed)
        /\ Cardinality(Past) \in Nat /\ Cardinality(failed) \in Nat
    BY <2>1, FlowsFinite, FS_Subset
  <2> QED
    BY <2>2 DEF FailuresInv, OnlyOwnFailuresCounted, TypeInv, TypeOK
<1> QED
  BY <1>1, <1>2, <1>3, ReasonInvHolds, PTL DEF Spec

-----------------------------------------------------------------------------
\* One Chunk more, or one less, underway.
LEMMA OneChunk ==
  ASSUME NEW n \in Nat
  PROVE  Chunk * (n + 1) = Chunk * n + Chunk /\ Chunk * n \in Nat
BY LoadPhaseAssumption

\* Steps that leave the byte counter, its movers and what main reports alone.
LEMMA BytesKept ==
  ASSUME BytesInv, UNCHANGED <<main, mover, total, payload, attempted, result>>,
         \A f \in Flows : flow[f] = "body" /\ mover[f] # "rest" /\ ~Upload => flow'[f] = "body"
  PROVE  BytesInv'
BY DEF BytesInv, Underway

\* A flow leaves a download's body only between two Writes.
LEMMA FlowBytes ==
  ASSUME NEW f \in Flows, TypeInv, BytesInv, FlowStep(f)
  PROVE  BytesInv'
<1> USE DEF mainVars, ctxVars, probeVars, stopVars, byteVars
<1>1. UNCHANGED <<main, mover, total, payload, attempted, result>>
  BY DEF FlowStep, FlowCheck, FlowConnect, FlowOk, FlowFail, FlowAbort, FlowReturn,
         FlowFailed, FlowStopped
<1>2. flow[f] = "body" /\ mover[f] # "rest" /\ ~Upload => flow'[f] = "body"
  BY DEF FlowStep, FlowCheck, FlowConnect, FlowOk, FlowFail, FlowAbort, FlowReturn,
         FlowFailed, FlowStopped, BodyAtRest, TypeInv, TypeOK
<1>3. \A g \in Flows \ {f} : flow'[g] = flow[g]
  BY DEF FlowStep, FlowCheck, FlowConnect, FlowOk, FlowFail, FlowAbort, FlowReturn,
         FlowFailed, FlowStopped, TypeInv, TypeOK
<1> QED
  BY <1>1, <1>2, <1>3, BytesKept

\* A mover puts a Chunk underway, and then books it.
LEMMA MoverBytes ==
  ASSUME NEW f \in Flows, TypeInv, JoinInv, BytesInv, MoverStep(f)
  PROVE  BytesInv'
<1> USE LoadPhaseAssumption DEF mainVars, flowVars, ctxVars, probeVars, stopVars
<1>1. /\ UNCHANGED <<main, flow, attempted, result>>
      /\ \A g \in Flows \ {f} : mover'[g] = mover[g]
  BY DEF MoverStep, MoverCheck, MoverAdd, MoverTotal, MoverCap, MoverCapped, TypeInv, TypeOK
<1>2. main # "enter"
  BY DEF MoverStep, MoverCheck, MoverAdd, MoverTotal, MoverCap, MoverCapped, BytesInv, JoinInv, TeardownOrder,
         FlowsEnded
<1>3. ~Upload => flow[f] = "body" /\ main \notin {"return", "returned"}
  BY DEF MoverStep, MoverCheck, MoverAdd, MoverTotal, MoverCap, MoverCapped, BytesInv, JoinInv, TeardownOrder,
         FlowsEnded
<1>4. Underway \in SUBSET Flows /\ Underway' \in SUBSET Flows
  BY DEF Underway
<1>5. IsFiniteSet(Underway) /\ Cardinality(Underway) \in Nat /\ Cardinality(Underway') \in Nat
  BY <1>4, FlowsFinite
<1>6. total' + Chunk * Cardinality(Underway') = payload' + attempted'
  <2>1. CASE MoverAdd(f)
    <3>1. Underway' = Underway \cup {f} /\ f \notin Underway
      BY <1>1, <2>1 DEF MoverAdd, Underway, TypeInv, TypeOK
    <3>2. Cardinality(Underway') = Cardinality(Underway) + 1
      BY <1>5, <3>1, FS_AddElement
    <3>3. Chunk * Cardinality(Underway') = Chunk * Cardinality(Underway) + Chunk
          /\ Chunk * Cardinality(Underway) \in Nat
      BY <1>5, <3>2, OneChunk
    <3>4. total' = total /\ payload' = payload + Chunk
      BY <2>1 DEF MoverAdd
    <3> QED
      BY <1>1, <3>3, <3>4 DEF BytesInv, TypeInv, TypeOK
  <2>2. CASE MoverTotal(f)
    <3>1. Underway' = Underway \ {f} /\ f \in Underway
      BY <1>1, <2>2 DEF MoverTotal, Underway, TypeInv, TypeOK
    <3>2. Cardinality(Underway) = Cardinality(Underway') + 1
      <4>1. Cardinality(Underway \ {f}) = Cardinality(Underway) - 1
        BY <1>5, <3>1, FS_RemoveElement
      <4> QED
        BY <1>5, <3>1, <4>1
    <3>3. Chunk * Cardinality(Underway) = Chunk * Cardinality(Underway') + Chunk
          /\ Chunk * Cardinality(Underway') \in Nat
      BY <1>5, <3>2, OneChunk
    <3>4. total' = total + Chunk /\ payload' = payload
      BY <2>2 DEF MoverTotal
    <3> QED
      BY <1>1, <3>3, <3>4 DEF BytesInv, TypeInv, TypeOK
  <2>3. CASE MoverCheck(f) \/ MoverCap(f) \/ MoverCapped(f)
    <3>1. Underway' = Underway
      BY <1>1, <2>3 DEF MoverCheck, MoverCap, MoverCapped, Underway, TypeInv, TypeOK
    <3>2. total' = total /\ payload' = payload
      BY <2>3 DEF MoverCheck, MoverCap, MoverCapped
    <3> QED
      BY <1>1, <3>1, <3>2 DEF BytesInv
  <2> QED
    BY <2>1, <2>2, <2>3 DEF MoverStep
<1>7. ~Upload => \A g \in Flows : mover'[g] # "rest" => flow'[g] = "body"
  BY <1>1, <1>3 DEF BytesInv
<1> QED
  BY <1>1, <1>2, <1>3, <1>6, <1>7 DEF BytesInv

\* A probe's charge is in the total and in what was charged alike.
LEMMA ProbeBytes ==
  ASSUME NEW i \in Slots, TypeInv, JoinInv, BytesInv, ProbeStep(i)
  PROVE  BytesInv'
<1> USE LoadPhaseAssumption DEF mainVars, flowVars, ctxVars, byteVars, stopVars
<1>1. CASE ProbeStart(i)
  <2>1. UNCHANGED <<main, mover, flow, payload, result>>
    BY <1>1 DEF ProbeStart
  <2>2. main \notin {"enter", "return", "returned"}
    BY <1>1 DEF ProbeStart, JoinInv, TeardownOrder, ProbesHoldTransports, SlotsFree, SlotFree
  <2>3. PICK c \in Nat : total' = total + c /\ attempted' = attempted + c
    <3>1. ForeignCost \in Nat /\ SelfCost \in Nat /\ total \in Nat /\ attempted \in Nat
      BY DEF TypeInv, TypeOK
    <3>2. \/ total' = total + ForeignCost /\ attempted' = attempted + ForeignCost
          \/ total' = total + SelfCost /\ attempted' = attempted + SelfCost
          \/ total' = total /\ attempted' = attempted
      BY <1>1 DEF ProbeStart, Charge
    <3> QED
      BY <3>1, <3>2
  <2>4. Underway' = Underway
    BY <2>1 DEF Underway
  <2>5. Cardinality(Underway) \in Nat
    BY FlowsFinite DEF Underway
  <2>6. Chunk * Cardinality(Underway) \in Nat
    BY <2>5, OneChunk
  <2>7. total' + Chunk * Cardinality(Underway') = payload' + attempted'
    BY <2>1, <2>3, <2>4, <2>6 DEF BytesInv, TypeInv, TypeOK
  <2> QED
    BY <2>1, <2>2, <2>7 DEF BytesInv
<1>2. CASE ProbeCap(i) \/ ProbeCapped(i) \/ ProbeOk(i) \/ ProbeErr(i)
  BY <1>2, BytesKept DEF ProbeCap, ProbeCapped, ProbeOk, ProbeErr
<1> QED
  BY <1>1, <1>2 DEF ProbeStep

\* main reads the total once, and opens flows beside the movers' bodies.
LEMMA MainBytes ==
  ASSUME TypeInv, BytesInv, MainStep
  PROVE  BytesInv'
<1> USE DEF flowVars, ctxVars, byteVars, stopVars, probeVars
<1>1. UNCHANGED <<mover, total, payload, attempted>>
  BY DEF MainStep, Enter, AddFlow, Added, TickStop, TickGoesOn, Interval, Teardown, StoppedStable,
         LoopDone, Decide, Decided, CancelAll, JoinFlows, JoinProbes, CloseFlows, Collect, Return
<1>2. Underway' = Underway
  BY <1>1 DEF Underway
<1>3. \A f \in Flows : flow[f] = "body" => flow'[f] = "body"
  <2>1. CASE AddFlow
    <3>1. PICK k \in 0..MaxFlows :
            {f \in Flows : flow[f] # "none"} = 1..k /\ k + toAdd <= MaxFlows
      BY DEF TypeInv, FlowsArePrefix
    <3>2. flowCount = k
      BY <3>1, FlowCountOfPrefix
    <3>3. flow' = [flow EXCEPT ![k + 1] = "check"] /\ k + 1 \notin 1..k
      BY <2>1, <3>2 DEF AddFlow
    <3> QED
      BY <3>1, <3>3 DEF TypeInv, TypeOK
  <2>2. CASE ~AddFlow
    BY <2>2 DEF MainStep, Enter, Added, TickStop, TickGoesOn, Interval, Teardown, StoppedStable,
         LoopDone, Decide, Decided, CancelAll, JoinFlows, JoinProbes, CloseFlows, Collect, Return
  <2> QED
    BY <2>1, <2>2
<1>4. main' # "enter"
  BY DEF MainStep, Enter, AddFlow, Added, TickStop, TickGoesOn, Interval, Teardown, StoppedStable,
         LoopDone, Decide, Decided, CancelAll, JoinFlows, JoinProbes, CloseFlows, Collect, Return
<1>5. main' \in {"return", "returned"} /\ ~Upload => result'.bytes = total
  <2>1. CASE Enter
    BY <2>1 DEF Enter, NoResult, BytesInv
  <2>2. CASE Collect
    BY <2>2 DEF Collect
  <2>3. CASE Return
    BY <2>3 DEF Return, BytesInv, TypeInv, TypeOK
  <2> QED
    BY <2>1, <2>2, <2>3 DEF MainStep, AddFlow, Added, TickStop, TickGoesOn, Teardown,
         StoppedStable, LoopDone, Decide, Decided, CancelAll, JoinFlows, JoinProbes, CloseFlows
<1> QED
  BY <1>1, <1>2, <1>3, <1>4, <1>5 DEF BytesInv

\* LOAD-11: the bytes a download reports are its payload and the charges of
\* its probes, exactly: no Write is between its two additions when the total
\* is read, and nothing is added afterwards.
THEOREM BytesReported == Spec => []BytesAreCost
<1>1. Init => BytesInv
  <2> SUFFICES ASSUME Init PROVE BytesInv
    OBVIOUS
  <2>1. Underway = {}
    BY DEF Init, Underway
  <2>2. Cardinality(Underway) = 0
    BY <2>1, FS_EmptySet
  <2> QED
    BY <2>2, LoadPhaseAssumption DEF Init, BytesInv
<1>2. TypeInv /\ JoinInv /\ BytesInv /\ [Next]_vars => BytesInv'
  <2> SUFFICES ASSUME TypeInv, JoinInv, BytesInv, [Next]_vars PROVE BytesInv'
    OBVIOUS
  <2>1. CASE Contexts \/ Stop \/ ProbeLoop \/ UNCHANGED vars
    BY <2>1, BytesKept DEF Contexts, CallerEnds, Propagate, PhaseTimer, Stop, StopStep, StopWin, StopCancel,
       StopLose, ProbeLoop, Launch, ProbeLoopEnds, ProbeLoopJoin, vars, mainVars, flowVars,
       byteVars, probeVars
  <2> QED
    BY <2>1, FlowBytes, MoverBytes, ProbeBytes, MainBytes DEF Next, Finished
<1>3. TypeInv /\ JoinInv /\ BytesInv => BytesAreCost
  <2> SUFFICES ASSUME TypeInv, JoinInv, BytesInv, ~Upload, main = "returned"
               PROVE  result.bytes = payload + attempted
    BY DEF BytesAreCost
  <2>1. Underway = {}
    BY DEF Underway, BytesInv, JoinInv, TeardownOrder, FlowsEnded
  <2>2. Cardinality(Underway) = 0 /\ Chunk * 0 = 0
    BY <2>1, FS_EmptySet, LoadPhaseAssumption
  <2>3. result.bytes = total /\ total + Chunk * Cardinality(Underway) = payload + attempted
    BY DEF BytesInv
  <2> QED
    BY <2>2, <2>3 DEF TypeInv, TypeOK
<1> QED
  BY <1>1, <1>2, <1>3, JoinInvHolds, PTL DEF Spec

-----------------------------------------------------------------------------
(***************************************************************************)
(* The phase implements PhaseContract.  The mapping reads the result only  *)
(* of a phase that opened a flow, which is one that got past Enter; what   *)
(* the contract says at the end is known because the reason and the        *)
(* intervals no longer change there.                                       *)
(***************************************************************************)
Begun == \E f \in Flows : flow[f] # "none"

ContractInv ==
  /\ main = "enter" => toAdd > 0 /\ ~Begun
  /\ main = "add" => toAdd > 0 \/ Begun
  /\ main \notin {"enter", "add", "returned"} => Begun
  /\ main \notin {"return", "returned"} => result = NoResult
  /\ main = "return" =>
       result.err = "nil" /\ result.reason = reason /\ result.intervals = intervals
  /\ main = "stop" /\ call[Main] = NotInStop => stopOnce = Done
  /\ main \in {"cancel", "join", "joinProbes", "close", "collect", "return"} => stopOnce = Done
  /\ engStopped => intervals > 0

\* What the mapping looks at: whether any flow has been opened.
LEMMA CountOfBegun == (flowCount > 0 <=> Begun) /\ (flowCount' > 0 <=> Begun')
<1> DEFINE S == {f \in Flows : flow[f] # "none"}
           T == {f \in Flows : flow'[f] # "none"}
<1>1. S \in SUBSET Flows /\ T \in SUBSET Flows /\ (S # {} <=> Begun) /\ (T # {} <=> Begun')
  BY DEF Begun
<1>2. flowCount = Cardinality(S) /\ flowCount' = Cardinality(T)
  BY DEF flowCount
<1> HIDE DEF S, T
<1>3. /\ Cardinality(S) \in Nat /\ (Cardinality(S) = 0 <=> S = {})
      /\ Cardinality(T) \in Nat /\ (Cardinality(T) = 0 <=> T = {})
  BY <1>1, FlowsFinite, FS_EmptySet
<1> QED
  BY <1>1, <1>2, <1>3

\* A step of any goroutine but main: nothing the caller sees moves, and a
\* reason that has been recorded stays.
LEMMA ContractKept ==
  ASSUME ContractInv, UNCHANGED <<main, toAdd, intervals, engStopped, result>>,
         \A f \in Flows : flow'[f] = "none" <=> flow[f] = "none",
         stopOnce = Done => stopOnce' = Done /\ reason' = reason,
         call'[Main] = call[Main] \/ stopOnce' = Done
  PROVE  ContractInv' /\ Begun' = Begun
<1>1. Begun' = Begun
  BY DEF Begun
<1> QED
  BY <1>1 DEF ContractInv, NoResult

\* stop leaves main's call only when stopOnce is done.
LEMMA StopContract ==
  ASSUME TypeInv, ContractInv, Stop
  PROVE  ContractInv' /\ Begun' = Begun
<1> PICK t \in Threads : StopWin(t) \/ StopCancel(t) \/ StopLose(t)
  BY DEF Stop, StopStep
<1>1. UNCHANGED <<main, toAdd, intervals, engStopped, result, flow>>
  BY DEF StopWin, StopCancel, StopLose, mainVars, flowVars
<1>2. stopOnce = Done => stopOnce' = Done /\ reason' = reason
  BY ThreadFacts DEF StopWin, StopCancel, StopLose
<1>3. call'[Main] = call[Main] \/ stopOnce' = Done \/ StopWin(Main)
  BY ThreadFacts DEF StopWin, StopCancel, StopLose, TypeInv, TypeOK
<1>4. CASE StopWin(Main)
  <2>1. stopOnce = Free /\ call[Main] # NotInStop /\ call'[Main] # NotInStop
    BY <1>4, ThreadFacts DEF StopWin, TypeInv, TypeOK
  <2>2. main \notin {"cancel", "join", "joinProbes", "close", "collect", "return"}
    BY <2>1, ThreadFacts DEF ContractInv
  <2>3. Begun' = Begun
    BY <1>1 DEF Begun
  <2> QED
    BY <1>1, <2>1, <2>2, <2>3 DEF ContractInv, NoResult
<1>5. CASE ~StopWin(Main)
  BY <1>1, <1>2, <1>3, <1>5, ContractKept
<1> QED
  BY <1>4, <1>5

\* A flow's step neither opens a flow nor closes one.
LEMMA FlowContract ==
  ASSUME NEW f \in Flows, TypeInv, ContractInv, FlowStep(f) \/ MoverStep(f)
  PROVE  ContractInv' /\ Begun' = Begun
<1> USE DEF mainVars, stopVars
<1>1. UNCHANGED <<main, toAdd, intervals, engStopped, result, stopOnce, reason>>
  BY DEF FlowStep, FlowCheck, FlowConnect, FlowOk, FlowFail, FlowAbort, FlowReturn, FlowFailed,
         FlowStopped, MoverStep, MoverCheck, MoverAdd, MoverTotal, MoverCap, MoverCapped
<1>2. \A g \in Flows : flow'[g] = "none" <=> flow[g] = "none"
  BY DEF FlowStep, FlowCheck, FlowConnect, FlowOk, FlowFail, FlowAbort, FlowReturn, AfterRequest,
         FlowFailed, FlowStopped, MoverStep, MoverCheck, MoverAdd, MoverTotal, MoverCap, MoverCapped, flowVars,
         TypeInv, TypeOK
<1>3. call'[Main] = call[Main]
  <2>1. CASE FlowFailed(f)
    BY <2>1, CallerIsNotMain, OthersAreNotMain DEF FlowFailed
  <2>2. CASE CallStop(MoverOf(f), "bytes_cap")
    BY <2>2, CallerIsNotMain, OthersAreNotMain
  <2> QED
    BY <2>1, <2>2 DEF FlowStep, FlowCheck, FlowConnect, FlowOk, FlowFail, FlowAbort, FlowReturn,
       FlowStopped, MoverStep, MoverCheck, MoverAdd, MoverTotal, MoverCap, MoverCapped, OnLimitRun, OnLimitRan
<1> QED
  BY <1>1, <1>2, <1>3, ContractKept

\* Nor does a probe's.
LEMMA ProbeContract ==
  ASSUME NEW i \in Slots, TypeInv, ContractInv, ProbeStep(i)
  PROVE  ContractInv' /\ Begun' = Begun
<1> USE DEF mainVars, stopVars, flowVars
<1>1. UNCHANGED <<main, toAdd, intervals, engStopped, result, stopOnce, reason, flow>>
  BY DEF ProbeStep, ProbeStart, ProbeCap, ProbeCapped, ProbeOk, ProbeErr
<1>2. call'[Main] = call[Main]
  <2>1. CASE CallStop(ProbeOf(i), "bytes_cap")
    BY <2>1, CallerIsNotMain, OthersAreNotMain
  <2> QED
    BY <2>1 DEF ProbeStep, ProbeStart, ProbeCap, ProbeCapped, ProbeOk, ProbeErr, OnLimitRun,
                OnLimitRan
<1> QED
  BY <1>1, <1>2, ContractKept

\* main: nothing returns before it has begun, and nothing is decided twice.
LEMMA MainContract ==
  ASSUME TypeInv, ReasonInv, ContractInv, MainStep
  PROVE  ContractInv'
<1> USE ThreadFacts DEF flowVars, ctxVars, byteVars, stopVars, probeVars
<1>1. CASE AddFlow
  <2>1. Begun'
    <3>1. PICK k \in 0..MaxFlows :
            {f \in Flows : flow[f] # "none"} = 1..k /\ k + toAdd <= MaxFlows
      BY DEF TypeInv, FlowsArePrefix
    <3>2. flowCount = k
      BY <3>1, FlowCountOfPrefix
    <3>3. k + 1 \in Flows /\ flow' = [flow EXCEPT ![k + 1] = "check"]
      BY <1>1, <3>1, <3>2, LoadPhaseAssumption DEF AddFlow, Flows, TypeInv, TypeOK
    <3> QED
      BY <3>3 DEF Begun, TypeInv, TypeOK
  <2> QED
    BY <1>1, <2>1 DEF AddFlow, ContractInv, NoResult
<1>2. CASE ~AddFlow
  <2>1. Begun' = Begun
    BY <1>2 DEF Begun, MainStep, Enter, Added, TickStop, TickGoesOn, Interval, Teardown,
       StoppedStable, LoopDone, Decide, Decided, CancelAll, JoinFlows, JoinProbes, CloseFlows,
       Collect, Return
  <2> USE <2>1 DEF ContractInv, NoResult
  <2>2. CASE Enter
    BY <2>2 DEF Enter
  <2>3. CASE Added
    <3>1. /\ main = "add" /\ toAdd = 0 /\ main' = "loop"
          /\ UNCHANGED <<intervals, engStopped, result>>
      BY <2>3 DEF Added
    <3>2. Begun
      BY <3>1
    <3> QED
      BY <3>1, <3>2
  <2>4. CASE TickStop \/ TickGoesOn
    BY <2>4 DEF TickStop, TickGoesOn, Interval, TypeInv, TypeOK
  <2>5. CASE StoppedStable \/ LoopDone \/ CancelAll \/ JoinFlows \/ JoinProbes \/ CloseFlows
    BY <2>5 DEF StoppedStable, LoopDone, CancelAll, JoinFlows, JoinProbes, CloseFlows
  <2>6. CASE Decide
    <3>1. main' = "stop" /\ call'[Main] # NotInStop
      BY <2>6 DEF Decide, CallStop, ReasonInv, PhaseEndExplained, TypeInv, TypeOK
    <3> QED
      BY <2>6, <3>1 DEF Decide
  <2>7. CASE Decided
    BY <2>7 DEF Decided, OutOfStop
  <2>8. CASE Collect
    BY <2>8 DEF Collect
  <2>9. CASE Return
    BY <2>9 DEF Return
  <2> QED
    BY <1>2, <2>2, <2>3, <2>4, <2>5, <2>6, <2>7, <2>8, <2>9 DEF MainStep, Teardown
<1> QED
  BY <1>1, <1>2

\* ContractInv holds in every reachable state.
LEMMA ContractInvHolds == Spec => [](TypeInv /\ ReasonInv /\ ContractInv)
<1>1. Init => ContractInv
  BY LoadPhaseAssumption DEF Init, ContractInv, Begun
<1>2. TypeInv /\ ReasonInv /\ ContractInv /\ [Next]_vars => ContractInv'
  <2> SUFFICES ASSUME TypeInv, ReasonInv, ContractInv, [Next]_vars PROVE ContractInv'
    OBVIOUS
  <2>1. CASE Contexts \/ ProbeLoop \/ UNCHANGED vars
    <3>1. UNCHANGED <<main, toAdd, intervals, engStopped, result, stopOnce, reason, call, flow>>
      BY <2>1 DEF Contexts, CallerEnds, Propagate, PhaseTimer, ProbeLoop, Launch, ProbeLoopEnds,
         ProbeLoopJoin, vars, mainVars, flowVars, stopVars
    <3> QED
      BY <3>1, ContractKept
  <2> QED
    BY <2>1, StopContract, FlowContract, ProbeContract, MainContract DEF Next, Finished
<1> QED
  BY <1>1, <1>2, ReasonInvHolds, PTL DEF Spec

\* A step that the caller cannot see: main stays where it is, or inside the
\* load, and no flow is the first.
LEMMA Unseen ==
  ASSUME ContractInv, UNCHANGED <<ctx, result>>,
         \/ main' = main /\ Begun' = Begun
         \/ {main, main'} \cap {"enter", "return", "returned"} = {}
  PROVE  UNCHANGED Contract!vars
<1>1. CASE main' = main /\ Begun' = Begun
  <2>1. (flowCount' > 0) = (flowCount > 0)
    BY <1>1, CountOfBegun
  <2> QED
    BY <1>1, <2>1 DEF Contract!vars
<1>2. CASE {main, main'} \cap {"enter", "return", "returned"} = {}
  BY <1>2 DEF Contract!vars
<1> QED
  BY <1>1, <1>2

\* The caller's end is the contract's.
LEMMA CallerMaps ==
  ASSUME TypeInv, ContractInv, Contexts
  PROVE  [Contract!Next]_Contract!vars
<1>1. UNCHANGED <<main, result, flow>> /\ Begun' = Begun
  BY DEF Contexts, CallerEnds, Propagate, PhaseTimer, mainVars, flowVars, Begun
<1>2. CASE CallerEnds
  <2>1. (flowCount' > 0) = (flowCount > 0)
    BY <1>1, CountOfBegun
  <2>2. ctx = "live" /\ ctx' # "live"
    BY <1>2, LoadPhaseAssumption DEF CallerEnds
  <2>3. Contract!CallerEnds
    BY <1>1, <2>1, <2>2 DEF Contract!CallerEnds
  <2> QED
    BY <2>3 DEF Contract!Next
<1>3. CASE Propagate \/ PhaseTimer
  BY <1>1, <1>3, Unseen DEF Propagate, PhaseTimer
<1> QED
  BY <1>2, <1>3 DEF Contexts

\* Enter either returns nothing with the caller's error, or starts the load.
LEMMA EnterMaps ==
  ASSUME TypeInv, ContractInv, Enter
  PROVE  Contract!Enters
<1>1. /\ main = "enter" /\ result = NoResult /\ ctx' = ctx
      /\ ~(flowCount > 0) /\ ~(flowCount' > 0)
  <2>1. Begun' = Begun /\ main = "enter" /\ ctx' = ctx
    BY DEF Enter, flowVars, ctxVars, Begun
  <2> QED
    BY <2>1, CountOfBegun DEF ContractInv
<1>2. CASE ctx # "live"
  <2>1. main' = "returned" /\ result'.err = "ctx"
    BY <1>1, <1>2 DEF Enter, NoResult
  <2> QED
    BY <1>1, <1>2, <2>1 DEF Contract!Enters, Contract!Absent
<1>3. CASE ctx = "live"
  <2>1. main' = "add" /\ result' = result
    BY <1>3 DEF Enter
  <2> QED
    BY <1>1, <1>3, <2>1 DEF Contract!Enters, Contract!Absent
<1> QED
  BY <1>2, <1>3

\* Collect ends the phase for the recorded reason, which is true of it.
LEMMA CollectMaps ==
  ASSUME TypeInv, ReasonInv, ContractInv, Collect
  PROVE  \E p \in Contract!Phases : Contract!Ends(p)
<1> DEFINE p == [reason |-> reason, intervals |-> IF intervals > 0 THEN 1 ELSE 0]
<1>1. /\ main = "collect" /\ main' = "return" /\ ctx' = ctx
      /\ result'.reason = reason /\ result'.intervals = intervals
      /\ result'.err = "nil" /\ result.err = "nil"
  BY DEF Collect, ctxVars, ContractInv, NoResult
<1>2. flowCount' > 0
  <2>1. Begun' = Begun
    BY DEF Collect, flowVars, Begun
  <2> QED
    BY <1>1, <2>1, CountOfBegun DEF ContractInv
<1>3. TrueReason(reason)
  BY <1>1, ThreadFacts DEF ReasonInv, ReasonJustified, ContractInv
<1>4. p \in Contract!Phases
  BY DEF Contract!Phases, Contract!Reasons, TypeInv, TypeOK
<1>5. /\ p.reason = "cancelled" => ctx # "live"
      /\ p.reason = "none" => p.intervals > 0
  BY <1>3 DEF TrueReason, ContractInv
<1>6. Contract!Ends(p)
  BY <1>1, <1>2, <1>5 DEF Contract!Ends
<1> QED
  BY <1>4, <1>6

\* Return adds the error that the contract's second look at the context says.
LEMMA ReturnMaps ==
  ASSUME TypeInv, ContractInv, Return
  PROVE  Contract!Returns
<1>1. /\ main = "return" /\ main' = "returned" /\ ctx' = ctx
      /\ result' = [result EXCEPT !.err = ReturnedError]
      /\ result.reason = reason /\ result.intervals = intervals
  BY DEF Return, ctxVars, ContractInv
<1>2. flowCount > 0 /\ flowCount' > 0
  <2>1. Begun' = Begun
    BY DEF Return, flowVars, Begun
  <2> QED
    BY <1>1, <2>1, CountOfBegun DEF ContractInv
<1>3. /\ result'.reason = result.reason /\ result'.intervals = result.intervals
      /\ result'.err = ReturnedError
  BY <1>1 DEF TypeInv, TypeOK
<1>4. (result.intervals > 0) \/ result.intervals = 0
  BY <1>1 DEF TypeInv, TypeOK
<1> QED
  BY <1>1, <1>2, <1>3, <1>4 DEF Contract!Returns, ReturnedError, OwnError, TypeInv, TypeOK

\* The other steps of main are inside the load.
LEMMA InnerMaps ==
  ASSUME TypeInv, ContractInv, MainStep, ~Enter, ~Collect, ~Return
  PROVE  UNCHANGED Contract!vars
<1>1. UNCHANGED <<ctx, result>>
  BY DEF MainStep, AddFlow, Added, TickStop, TickGoesOn, Interval, Teardown, StoppedStable,
         LoopDone, Decide, Decided, CancelAll, JoinFlows, JoinProbes, CloseFlows, ctxVars
<1>2. {main, main'} \cap {"enter", "return", "returned"} = {}
  BY DEF MainStep, AddFlow, Added, TickStop, TickGoesOn, Interval, Teardown, StoppedStable,
         LoopDone, Decide, Decided, CancelAll, JoinFlows, JoinProbes, CloseFlows
<1> QED
  BY <1>1, <1>2, Unseen

\* LIM-4, LOAD-9 and INV-3 for any number of flows, probes and slots: the
\* phase is what PhaseContract says, so Run may take it for that.
THEOREM PhaseImplementsContract == Spec => PhaseSpec
<1>1. Init => Contract!Init
  <2> SUFFICES ASSUME Init PROVE Contract!Init
    OBVIOUS
  <2>1. main = "enter" /\ result.err = "nil"
    BY DEF Init, NoResult
  <2> QED
    BY <2>1 DEF Init, Contract!Init, Contract!Absent
<1>2. TypeInv /\ ReasonInv /\ ContractInv /\ [Next]_vars => [Contract!Next]_Contract!vars
  <2> SUFFICES ASSUME TypeInv, ReasonInv, ContractInv, [Next]_vars
               PROVE  [Contract!Next]_Contract!vars
    OBVIOUS
  <2>1. CASE Stop
    <3>1. UNCHANGED <<ctx, main, result>>
      BY <2>1 DEF Stop, StopStep, StopWin, StopCancel, StopLose, mainVars, ctxVars
    <3> QED
      BY <2>1, <3>1, StopContract, Unseen
  <2>2. ASSUME NEW f \in Flows, FlowStep(f) \/ MoverStep(f) PROVE UNCHANGED Contract!vars
    <3>1. UNCHANGED <<ctx, main, result>>
      BY <2>2 DEF FlowStep, FlowCheck, FlowConnect, FlowOk, FlowFail, FlowAbort, FlowReturn,
         FlowFailed, FlowStopped, MoverStep, MoverCheck, MoverAdd, MoverTotal, MoverCap, MoverCapped,
         mainVars, ctxVars
    <3> QED
      BY <2>2, <3>1, FlowContract, Unseen
  <2>3. ASSUME NEW i \in Slots, ProbeStep(i) PROVE UNCHANGED Contract!vars
    <3>1. UNCHANGED <<ctx, main, result>>
      BY <2>3 DEF ProbeStep, ProbeStart, ProbeCap, ProbeCapped, ProbeOk, ProbeErr, mainVars, ctxVars
    <3> QED
      BY <2>3, <3>1, ProbeContract, Unseen
  <2>4. CASE ProbeLoop \/ UNCHANGED vars
    <3>1. UNCHANGED <<ctx, main, result, flow>>
      BY <2>4 DEF ProbeLoop, Launch, ProbeLoopEnds, ProbeLoopJoin, vars, mainVars, ctxVars, flowVars
    <3>2. Begun' = Begun
      BY <3>1 DEF Begun
    <3> QED
      BY <3>1, <3>2, Unseen
  <2>5. CASE MainStep
    BY <2>5, EnterMaps, CollectMaps, ReturnMaps, InnerMaps DEF Contract!Next
  <2> QED
    BY <2>1, <2>2, <2>3, <2>4, <2>5, CallerMaps DEF Next, Finished
<1> QED
  BY <1>1, <1>2, ContractInvHolds, PTL DEF Spec, PhaseSpec, Contract!Spec
=============================================================================
