-------------------------------- MODULE Run --------------------------------
(***************************************************************************)
(* One run of netquality (run.go Run, runner.run, discover, idle, warn and *)
(* observeTLS): discovery, idle latency, the selected directions in turn,  *)
(* and the partial result that every early exit hands back.                *)
(*                                                                         *)
(* A direction is what PhaseContract says of it, which LoadPhase           *)
(* implements.  TLS handshakes are observed on net/http's dial goroutines, *)
(* which outlive the request that dialled.                                 *)
(***************************************************************************)
EXTENDS Naturals, Sequences

CONSTANTS
  Dirs,        \* the selected directions, in order
  IdleProbes,  \* Options.IdleProbes; 0 skips the idle phase
  Handshakes   \* TLS handshakes of a run

ASSUME RunAssumption ==
  /\ Dirs \in Seq({"download", "upload"}) /\ IdleProbes \in Nat
  /\ Handshakes \cap {"timeout", "size", "probe"} = {}

VARIABLES
  ctx,        \* the caller's context: "live" or "ended"
  ictx,       \* idle's context: "none", "live", or ended by "caller" or "timer"
  at,         \* where run is
  probes,     \* idle probes begun
  samples,    \* idle samples completed
  badSize,    \* idle's invalidSize is set
  idleErr,    \* the error idle returned
  next,       \* index of the direction to run
  phase,      \* what loadPhase is about to return
  phaseErr,   \* the error loadPhase returned
  idle,       \* res.Idle: its sample count, 0 when absent
  dirs,       \* res.Download and res.Upload
  cancelled,  \* res.Cancelled
  proxy,      \* res.Target.Proxy: what it says
  warnings,   \* res.Warnings: idle's, and one per interception verdict
  finished,   \* finish has filled in duration and addresses
  err,        \* the error Run returned
  checked,    \* chainChecked
  shake       \* each TLS handshake

idleVars == <<ictx, probes, samples, badSize, idleErr>>
phaseVars == <<next, phase, phaseErr>>
tlsVars == <<checked, shake>>
res == <<idle, dirs, cancelled, proxy, warnings, finished>>
\* The direction in progress; it has no result when Result.Download or
\* Result.Upload is nil.
Contract == INSTANCE PhaseContract
Absent == Contract!Absent
Phases == Contract!Phases

vars == <<ctx, at, idleVars, phaseVars, tlsVars, res, err>>

Init ==
  /\ ctx = "live" /\ ictx = "none" /\ at = "discover"
  /\ probes = 0 /\ samples = 0 /\ badSize = FALSE /\ idleErr = "nil"
  /\ next = 1 /\ phase = Absent /\ phaseErr = "nil"
  /\ idle = 0 /\ dirs = [i \in DOMAIN Dirs |-> Absent]
  /\ cancelled = FALSE /\ proxy = {} /\ warnings = {} /\ finished = FALSE
  /\ err = "nil" /\ checked = FALSE /\ shake = [h \in Handshakes |-> "none"]

(***************************************************************************)
(* Contexts: the caller's end reaches the idle context after its own.      *)
(***************************************************************************)
CallerEnds ==
  /\ ctx = "live"
  /\ ctx' = "ended"
  /\ UNCHANGED <<at, idleVars, phaseVars, tlsVars, res, err>>

Propagate ==
  /\ ctx = "ended" /\ ictx = "live"
  /\ ictx' = "caller"
  /\ UNCHANGED <<ctx, at, probes, samples, badSize, idleErr, phaseVars, tlsVars, res, err>>

\* idle's context has a timeout of its own, or none.
Untimed == FALSE
Timed == TRUE

IdleTimer ==
  /\ Timed /\ ictx = "live"
  /\ ictx' = "timer"
  /\ UNCHANGED <<ctx, at, probes, samples, badSize, idleErr, phaseVars, tlsVars, res, err>>

(***************************************************************************)
(* Every exit after discovery: finish, and the result with its error.      *)
(***************************************************************************)
Exit(e) == at' = "returned" /\ finished' = TRUE /\ err' = e
Cancel == Exit("ctx") /\ cancelled' = TRUE

(***************************************************************************)
(* discover, and the set-up that follows it.                               *)
(***************************************************************************)
DiscoverFails ==
  /\ at = "discover"
  /\ at' = "returned" /\ err' = "discover"
  /\ UNCHANGED <<ctx, idleVars, phaseVars, tlsVars, res>>

\* The base transport may route the test through an explicit proxy.
DiscoverOk ==
  /\ at = "discover"
  /\ at' = IF IdleProbes > 0 THEN "idle" ELSE "dirs"
  /\ proxy' \in {{}, {"explicit"}}
  /\ UNCHANGED <<ctx, idleVars, phaseVars, tlsVars, idle, dirs, cancelled, warnings, finished, err>>

(***************************************************************************)
(* idle                                                                    *)
(***************************************************************************)
\* WithTimeout of a context that has ended has ended too.
IdleStart ==
  /\ at = "idle"
  /\ ictx' = IF ctx = "live" THEN "live" ELSE "caller"
  /\ at' = "idleLoop"
  /\ UNCHANGED <<ctx, probes, samples, badSize, idleErr, phaseVars, tlsVars, res, err>>

IdleNext ==
  /\ at = "idleLoop"
  /\ IF probes < IdleProbes /\ ictx = "live"
     THEN at' = "probing" /\ probes' = probes + 1
     ELSE at' = "idleEnd" /\ UNCHANGED probes
  /\ UNCHANGED <<ctx, ictx, samples, badSize, idleErr, phaseVars, tlsVars, res, err>>

ProbeOk ==
  /\ at = "probing"
  /\ samples' = samples + 1
  /\ at' = "idleLoop"
  /\ UNCHANGED <<ctx, ictx, probes, badSize, idleErr, phaseVars, tlsVars, res, err>>

\* The probe fails by itself: the error is kept, one of a bad size as well.
ProbeFails ==
  /\ at = "probing"
  /\ badSize' \in {badSize, TRUE}
  /\ at' = "idleLoop"
  /\ UNCHANGED <<ctx, ictx, probes, samples, idleErr, phaseVars, tlsVars, res, err>>

\* The probe fails with the context's error, which ends the loop.
ProbeAborts ==
  /\ at = "probing" /\ ictx # "live"
  /\ at' = "idleEnd"
  /\ UNCHANGED <<ctx, idleVars, phaseVars, tlsVars, res, err>>

\* What idle returns; its own context is read anew.  res.Idle is set at once.
IdleErr ==
  IF ictx # "live" /\ samples < IdleProbes THEN "timeout"
  ELSE IF badSize THEN "size"
  ELSE IF samples = 0 THEN "probe" ELSE "nil"

\* The samples kept: all of them, or only those of a phase that ended well.
KeptIfDone == IF IdleErr = "nil" THEN samples ELSE 0
Kept == samples

IdleReturns ==
  /\ at = "idleEnd"
  /\ idleErr' = IdleErr
  /\ idle' = Kept
  /\ at' = "idleBack"
  /\ UNCHANGED <<ctx, ictx, probes, samples, badSize, phaseVars, tlsVars,
                 dirs, cancelled, proxy, warnings, finished, err>>

\* The caller's context is looked at before the idle error is, or not at all.
Unasked == FALSE
CallerGone == ctx = "ended"

IdleBack ==
  /\ at = "idleBack"
  /\ IF CallerGone THEN Cancel /\ UNCHANGED warnings
     ELSE /\ at' = "dirs"
          /\ warnings' = IF idleErr = "nil" THEN warnings ELSE warnings \cup {idleErr}
          /\ UNCHANGED <<cancelled, finished, err>>
  /\ UNCHANGED <<ctx, idleVars, phaseVars, tlsVars, idle, dirs, proxy>>

(***************************************************************************)
(* The directions, each a loadPhase.                                       *)
(***************************************************************************)
Direction ==
  /\ at = "dirs"
  /\ IF next > Len(Dirs) THEN Exit("nil") /\ UNCHANGED cancelled
     ELSE IF ctx = "ended" THEN Cancel
     ELSE at' = "enter" /\ UNCHANGED <<finished, err, cancelled>>
  /\ UNCHANGED <<ctx, idleVars, phaseVars, tlsVars, idle, dirs, proxy, warnings>>

PhaseEnters == Contract!Enters /\ UNCHANGED <<idleVars, next, tlsVars, res, err>>
PhaseEnds(p) == Contract!Ends(p) /\ UNCHANGED <<idleVars, next, tlsVars, res, err>>
PhaseReturns == Contract!Returns /\ UNCHANGED <<idleVars, next, tlsVars, res, err>>

\* A direction's error ends the run, or is dropped.
NeverFailed == FALSE
PhaseFailed == phaseErr # "nil"

\* The partial result is stored before the context and the error are looked at.
PhaseBack ==
  /\ at = "back"
  /\ dirs' = [dirs EXCEPT ![next] = phase]
  /\ next' = next + 1
  /\ IF ctx = "ended" THEN Cancel
     ELSE IF PhaseFailed THEN Exit(phaseErr) /\ UNCHANGED cancelled
     ELSE at' = "dirs" /\ UNCHANGED <<finished, err, cancelled>>
  /\ UNCHANGED <<ctx, idleVars, phase, phaseErr, tlsVars, idle, proxy, warnings>>

(***************************************************************************)
(* observeTLS: the first handshake decides, under mu; its warning is       *)
(* appended in a section of its own.                                       *)
(***************************************************************************)
\* A probe or flow dials; the handshake succeeds now or later.
Dial(h) ==
  /\ shake[h] = "none" /\ at \in {"probing", "load"}
  /\ shake' = [shake EXCEPT ![h] = "shaking"]
  /\ UNCHANGED <<ctx, at, idleVars, phaseVars, checked, res, err>>

\* The handshakes that decide: the first, or each.
Each == TRUE
First == ~checked

observeTLS(h, intercepted) ==
  /\ shake[h] = "shaking"
  /\ checked' = TRUE
  /\ proxy' = IF First /\ intercepted THEN proxy \cup {"intercepted"} ELSE proxy
  /\ shake' = [shake EXCEPT ![h] = IF First /\ intercepted THEN "warning" ELSE "done"]
  /\ UNCHANGED <<ctx, at, idleVars, phaseVars, idle, dirs, cancelled, warnings, finished, err>>

warn(h) ==
  /\ shake[h] = "warning"
  /\ warnings' = warnings \cup {h}
  /\ shake' = [shake EXCEPT ![h] = "done"]
  /\ UNCHANGED <<ctx, at, idleVars, phaseVars, checked, idle, dirs, cancelled, proxy, finished, err>>

Contexts == CallerEnds \/ Propagate \/ IdleTimer
Idle == IdleStart \/ IdleNext \/ ProbeOk \/ ProbeFails \/ ProbeAborts \/ IdleReturns \/ IdleBack
Load == Direction \/ PhaseEnters \/ (\E p \in Phases : PhaseEnds(p)) \/ PhaseReturns \/ PhaseBack
Observe(h) == Dial(h) \/ (\E b \in BOOLEAN : observeTLS(h, b)) \/ warn(h)

Next ==
  \/ Contexts \/ DiscoverFails \/ DiscoverOk \/ Idle \/ Load
  \/ \E h \in Handshakes : Observe(h)

Spec == Init /\ [][Next]_vars

(***************************************************************************)
(* Fairness: the goroutine of Run runs; discovery is bounded by its        *)
(* timeout, idle by its timer, a probe returns once its context has ended  *)
(* and a direction always returns (LoadPhase).                             *)
(***************************************************************************)
FairSpec ==
  /\ Spec
  /\ WF_vars(DiscoverFails \/ DiscoverOk)
  /\ WF_vars(Propagate) /\ WF_vars(IdleTimer) /\ WF_vars(ProbeAborts)
  /\ WF_vars(IdleStart \/ IdleNext \/ IdleReturns \/ IdleBack)
  /\ WF_vars(Load)
-----------------------------------------------------------------------------
TypeOK ==
  /\ ctx \in {"live", "ended"} /\ ictx \in {"none", "live", "caller", "timer"}
  /\ at \in {"discover", "idle", "idleLoop", "probing", "idleEnd", "idleBack", "dirs",
             "enter", "load", "phaseEnd", "back", "returned"}
  /\ probes \in 0..IdleProbes /\ samples \in 0..IdleProbes /\ badSize \in BOOLEAN
  /\ idleErr \in {"nil", "timeout", "size", "probe"}
  /\ next \in 1..(Len(Dirs) + 1) /\ phase \in Phases \cup {Absent}
  /\ phaseErr \in {"nil", "ctx", "flow"}
  /\ idle \in 0..IdleProbes /\ dirs \in [DOMAIN Dirs -> Phases \cup {Absent}]
  /\ cancelled \in BOOLEAN /\ proxy \in SUBSET {"explicit", "intercepted"}
  /\ warnings \subseteq {"timeout", "size", "probe"} \cup Handshakes
  /\ finished \in BOOLEAN /\ err \in {"nil", "discover", "ctx", "flow"}
  /\ checked \in BOOLEAN
  /\ shake \in [Handshakes -> {"none", "shaking", "warning", "done"}]

\* A direction that returns no error of its own.
Complete(p) == p \in Phases /\ p.reason # "cancelled" /\ ~(p.reason = "flow_error" /\ p.intervals = 0)

\* Run's comment, LIM-4 and INV-3: the error tells what the result holds.
\* Without one, every selected direction is there and none was cut short by
\* the caller or failed before its first interval; with the flow error, the
\* direction before the absent ones is the one that failed; with the context's,
\* the result is flagged and the caller's context has ended.
ErrorTellsResult ==
  at = "returned" =>
    /\ err = "nil" => ~cancelled /\ \A i \in DOMAIN Dirs : Complete(dirs[i])
    /\ err = "flow" =>
         /\ ~cancelled /\ dirs[next - 1] = [reason |-> "flow_error", intervals |-> 0]
         /\ \A i \in DOMAIN Dirs : i < next - 1 => Complete(dirs[i])
    /\ err = "ctx" => cancelled /\ ctx = "ended"
    /\ finished <=> err # "discover"

\* LIM-4: a run that ends early keeps what it measured: every idle sample
\* completed, the direction in progress, and the directions before it; the
\* directions not started are absent.
PartialResultKept ==
  at = "returned" =>
    /\ idle = samples
    /\ next > 1 => dirs[next - 1] = phase
    /\ \A i \in DOMAIN Dirs : /\ i < next - 1 => Complete(dirs[i])
                              /\ i >= next => dirs[i] = Absent

\* LIM-8 and LAT-1: the warning of an idle timeout means that the idle timer
\* fired, not the caller's deadline, and a run that goes on without idle
\* latency says why.
IdleOutcomeTold ==
  /\ "timeout" \in warnings => ictx = "timer"
  /\ IdleProbes > 0 /\ at \in {"dirs", "enter", "load", "phaseEnd", "back"} /\ idle = 0
       => warnings \cap {"timeout", "size", "probe"} # {}

\* The handshakes that found an interception, reported or about to be.
Verdicts == {h \in Handshakes : shake[h] = "warning" \/ h \in warnings}

\* PROXY-3: whatever handshakes run at once, the first alone decides, so an
\* interception is reported once, by a warning and in the target.
InterceptionReportedOnce ==
  /\ \A g, h \in Verdicts : g = h
  /\ Verdicts # {} <=> "intercepted" \in proxy

\* INV-4, "No work outlives Run": the result belongs to the caller once Run
\* has returned.
ResultFrozen == [][at = "returned" => UNCHANGED res]_vars
=============================================================================
