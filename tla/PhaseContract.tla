--------------------------- MODULE PhaseContract ---------------------------
(***************************************************************************)
(* What a load phase promises the run that calls it (the doc comment and   *)
(* the returns of runner.loadPhase): it measures nothing when the caller's *)
(* context has ended, otherwise it ends for one reason, and the error that *)
(* comes with the result is the caller's, or the phase's own, or none.     *)
(*                                                                         *)
(* Run takes its directions from these actions; LoadPhase implements them. *)
(***************************************************************************)
EXTENDS Naturals

Reasons == {"none", "duration_cap", "bytes_cap", "flow_error", "cancelled"}

\* No result at all; of a result, whether any interval was completed.
Absent == [reason |-> "absent", intervals |-> 0]
Phases == [reason : Reasons, intervals : {0, 1}]

VARIABLES
  ctx,      \* the caller's context: "live" or "ended"
  at,       \* "enter", "load", "phaseEnd", "back"
  phase,    \* the result
  phaseErr  \* the error returned with it

vars == <<ctx, at, phase, phaseErr>>

Init ==
  /\ ctx \in {"live", "ended"} /\ at = "enter"
  /\ phase = Absent /\ phaseErr = "nil"

CallerEnds ==
  /\ ctx = "live"
  /\ ctx' = "ended"
  /\ UNCHANGED <<at, phase, phaseErr>>

Enters ==
  /\ at = "enter"
  /\ IF ctx = "ended" THEN phase' = Absent /\ phaseErr' = "ctx" /\ at' = "back"
     ELSE at' = "load" /\ UNCHANGED <<phase, phaseErr>>
  /\ UNCHANGED ctx

\* LOAD-9, LIM-4 and INV-3: cancelled is said only of a caller's context that
\* has ended, and "no truncation" only of a phase that completed intervals.
Ends(p) ==
  /\ at = "load"
  /\ p.reason = "cancelled" => ctx = "ended"
  /\ p.reason = "none" => p.intervals > 0
  /\ phase' = p /\ at' = "phaseEnd"
  /\ UNCHANGED <<ctx, phaseErr>>

\* The context is read once more for the error.
Returns ==
  /\ at = "phaseEnd"
  /\ phaseErr' = IF ctx = "ended" THEN "ctx"
                 ELSE IF phase.reason = "flow_error" /\ phase.intervals = 0 THEN "flow" ELSE "nil"
  /\ at' = "back"
  /\ UNCHANGED <<ctx, phase>>

Next == CallerEnds \/ Enters \/ (\E p \in Phases : Ends(p)) \/ Returns

Spec == Init /\ [][Next]_vars
=============================================================================
