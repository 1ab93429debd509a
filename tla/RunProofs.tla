----------------------------- MODULE RunProofs -----------------------------
(***************************************************************************)
(* What a run hands back, for any selection of directions, any number of   *)
(* idle probes and any handshakes.  The invariant says, for every place in *)
(* run, how much of the result is already there and what the local results *)
(* of idle and loadPhase are worth.                                        *)
(***************************************************************************)
EXTENDS Client, TLAPS

IdleKinds == {"timeout", "size", "probe"}
InIdle == {"idle", "idleLoop", "probing", "idleEnd", "idleBack"}
InDirs == {"dirs", "enter", "load", "phaseEnd", "back"}
InPhase == {"enter", "load", "phaseEnd", "back"}
Failed == [reason |-> "flow_error", intervals |-> 0]

\* Nothing of the outcome is written before the exit that writes all of it.
OutcomeOpen == at # "returned" => err = "nil" /\ ~cancelled /\ ~finished

\* The directions before next are complete, those from next on are absent.
DirsInOrder ==
  /\ at \in {"discover"} \cup InIdle => next = 1
  /\ at \in InDirs => \A i \in DOMAIN Dirs : i < next => Complete(dirs[i])
  /\ \A i \in DOMAIN Dirs : i >= next => dirs[i] = Absent
  /\ at = "dirs" /\ next > 1 => dirs[next - 1] = phase

\* A direction that runs is one of those selected.
NextInRange == at \in InPhase => next <= Len(Dirs)

\* What loadPhase is about to return, and has returned.
PhaseTold ==
  /\ at = "phaseEnd" => phase \in Phases /\ (phase.reason = "cancelled" => ctx = "ended")
  /\ at = "back" => /\ phaseErr = "nil" => Complete(phase)
                    /\ phaseErr = "flow" => phase = Failed
                    /\ phaseErr = "ctx" => ctx = "ended"

\* The idle phase: its counters, its context and what it reported.
IdleCounts ==
  /\ samples <= probes /\ (at = "probing" => samples < probes)
  /\ at \notin {"idleLoop", "probing", "idleEnd"} => idle = samples
IdleReport ==
  /\ ictx = "caller" => ctx = "ended"
  /\ at \in {"discover"} \cup InIdle => warnings \cap IdleKinds = {}
  /\ at \in {"idleLoop", "probing", "idleEnd", "idleBack"} => ictx # "none"
  /\ at = "idleBack" => /\ idle = 0 => idleErr # "nil"
                        /\ idleErr = "timeout" => ictx # "live"

\* The verdict on interception.
VerdictOpen ==
  /\ ~checked => Verdicts = {}
  /\ at = "discover" => \A h \in Handshakes : shake[h] = "none" /\ h \notin warnings

\* The types, and the counters that bound the idle samples.
TypeInv == TypeOK /\ IdleCounts /\ NextInRange

\* The directions and the outcome.
OutcomeInv == OutcomeOpen /\ DirsInOrder /\ PhaseTold /\ ErrorTellsResult /\ PartialResultKept

\* What is said of the idle phase.
IdleInv == IdleReport /\ IdleOutcomeTold

\* What is said of interception.
VerdictInv == VerdictOpen /\ InterceptionReportedOnce

\* The selected directions are numbered from 1.
LEMMA DirsFacts ==
  /\ Len(Dirs) \in Nat /\ DOMAIN Dirs = 1..Len(Dirs) /\ IdleProbes \in Nat
  /\ Handshakes \cap IdleKinds = {}
BY RunAssumption DEF IdleKinds

\* A run starts with nothing measured and nothing reported.
LEMMA InitEstablishes == Init => TypeInv /\ OutcomeInv /\ IdleInv /\ VerdictInv
<1> SUFFICES ASSUME Init PROVE TypeInv /\ OutcomeInv /\ IdleInv /\ VerdictInv
  OBVIOUS
<1> USE DirsFacts DEF Init
<1>1. TypeInv
  <2>1. 1 \in 1..(Len(Dirs) + 1) /\ dirs \in [DOMAIN Dirs -> Phases \cup {Absent}]
    OBVIOUS
  <2>2. shake \in [Handshakes -> {"none", "shaking", "warning", "done"}]
    OBVIOUS
  <2>3. probes \in 0..IdleProbes /\ samples \in 0..IdleProbes /\ idle \in 0..IdleProbes
    OBVIOUS
  <2>4. TypeOK
    BY <2>1, <2>2, <2>3 DEF TypeOK
  <2> QED
    BY <2>4 DEF TypeInv, IdleCounts, NextInRange, InPhase
<1>2. OutcomeInv
  BY DEF OutcomeInv, OutcomeOpen, DirsInOrder, PhaseTold, ErrorTellsResult, PartialResultKept,
         InIdle, InDirs, InPhase
<1>3. IdleInv
  BY DEF IdleInv, IdleReport, IdleOutcomeTold, InIdle
<1>4. VerdictInv
  BY DEF VerdictInv, VerdictOpen, InterceptionReportedOnce, Verdicts
<1> QED
  BY <1>1, <1>2, <1>3, <1>4

\* Every step keeps the types and the idle counters.
LEMMA TypeStep ==
  ASSUME TypeInv, [Next]_vars
  PROVE  TypeInv'
<1> USE DirsFacts
<1>1. CASE Contexts
  <2>1. CASE CallerEnds
    BY <1>1, <2>1 DEF TypeInv, TypeOK, IdleCounts, NextInRange, InPhase, CallerEnds, idleVars,
       phaseVars, tlsVars, res
  <2>2. CASE Propagate
    BY <1>1, <2>2 DEF TypeInv, TypeOK, IdleCounts, NextInRange, InPhase, Propagate, idleVars,
       phaseVars, tlsVars, res
  <2>3. CASE IdleTimer
    BY <1>1, <2>3 DEF TypeInv, TypeOK, IdleCounts, NextInRange, InPhase, IdleTimer, idleVars,
       phaseVars, tlsVars, res
  <2> QED
    BY <1>1, <2>1, <2>2, <2>3 DEF Contexts
<1>2. CASE DiscoverFails
  BY <1>2 DEF TypeInv, TypeOK, IdleCounts, NextInRange, InPhase, DiscoverFails, idleVars,
     phaseVars, tlsVars, res
<1>3. CASE DiscoverOk
  BY <1>3 DEF TypeInv, TypeOK, IdleCounts, NextInRange, InPhase, DiscoverOk, idleVars, phaseVars,
     tlsVars, res
<1>4. CASE IdleStart
  BY <1>4 DEF TypeInv, TypeOK, IdleCounts, NextInRange, InPhase, IdleStart, idleVars, phaseVars,
     tlsVars, res
<1>5. CASE IdleNext
  BY <1>5 DEF TypeInv, TypeOK, IdleCounts, NextInRange, InPhase, IdleNext, idleVars, phaseVars,
     tlsVars, res
<1>6. CASE ProbeOk
  BY <1>6 DEF TypeInv, TypeOK, IdleCounts, NextInRange, InPhase, ProbeOk, idleVars, phaseVars,
     tlsVars, res
<1>7. CASE ProbeFails
  <2>1. badSize' \in BOOLEAN
    BY <1>7 DEF TypeInv, TypeOK, ProbeFails
  <2> QED
    BY <1>7, <2>1 DEF TypeInv, TypeOK, IdleCounts, NextInRange, InPhase, ProbeFails, idleVars,
       phaseVars, tlsVars, res
<1>8. CASE ProbeAborts
  BY <1>8 DEF TypeInv, TypeOK, IdleCounts, NextInRange, InPhase, ProbeAborts, idleVars, phaseVars,
     tlsVars, res
<1>9. CASE IdleReturns
  BY <1>9 DEF TypeInv, TypeOK, IdleCounts, NextInRange, InPhase, IdleReturns, Kept, IdleErr, idleVars,
     phaseVars, tlsVars, res
<1>10. CASE IdleBack
  <2>1. warnings' \subseteq {"timeout", "size", "probe"} \cup Handshakes
    BY <1>10 DEF TypeInv, TypeOK, IdleBack, CallerGone
  <2>2. cancelled' \in BOOLEAN /\ finished' \in BOOLEAN
    BY <1>10 DEF TypeInv, TypeOK, IdleBack, CallerGone, Cancel, Exit
  <2>3. at' \in {"returned", "dirs"} /\ err' \in {"ctx", err}
    BY <1>10 DEF IdleBack, CallerGone, Cancel, Exit
  <2> QED
    BY <1>10, <2>1, <2>2, <2>3 DEF TypeInv, TypeOK, IdleCounts, NextInRange, InPhase, IdleBack, CallerGone,
       idleVars, phaseVars, tlsVars, res
<1>11. CASE Direction
  <2>1. CASE next > Len(Dirs)
    BY <1>11, <2>1 DEF TypeInv, TypeOK, IdleCounts, NextInRange, InPhase, Direction, Exit,
       idleVars, phaseVars, tlsVars, res
  <2>2. CASE ~(next > Len(Dirs)) /\ ctx = "ended"
    BY <1>11, <2>2 DEF TypeInv, TypeOK, IdleCounts, NextInRange, InPhase, Direction, Cancel, Exit,
       idleVars, phaseVars, tlsVars, res
  <2>3. CASE ~(next > Len(Dirs)) /\ ctx # "ended"
    BY <1>11, <2>3 DEF TypeInv, TypeOK, IdleCounts, NextInRange, InPhase, Direction, idleVars,
       phaseVars, tlsVars, res
  <2> QED
    BY <1>11, <2>1, <2>2, <2>3 DEF Direction, Cancel, Exit, Complete
<1>12. CASE PhaseEnters
  BY <1>12 DEF TypeInv, TypeOK, IdleCounts, NextInRange, InPhase, PhaseEnters, Contract!Enters,
     Absent, idleVars, phaseVars, tlsVars, res
<1>13. ASSUME NEW p \in Phases, PhaseEnds(p) PROVE TypeInv'
  BY <1>13 DEF TypeInv, TypeOK, IdleCounts, NextInRange, InPhase, PhaseEnds, Contract!Ends, idleVars, phaseVars,
     tlsVars, res
<1>14. CASE PhaseReturns
  BY <1>14 DEF TypeInv, TypeOK, IdleCounts, NextInRange, InPhase, PhaseReturns, Contract!Returns, idleVars,
     phaseVars, tlsVars, res
<1>15. CASE PhaseBack
  <2>1. next' \in 1..(Len(Dirs) + 1) /\ dirs' \in [DOMAIN Dirs -> Phases \cup {Absent}]
    BY <1>15 DEF TypeInv, TypeOK, IdleCounts, NextInRange, InPhase, PhaseBack, PhaseFailed
  <2>2. cancelled' \in BOOLEAN /\ finished' \in BOOLEAN
    BY <1>15 DEF TypeInv, TypeOK, PhaseBack, PhaseFailed, Cancel, Exit
  <2>3. at' \in {"returned", "dirs"} /\ err' \in {"ctx", phaseErr, err}
    BY <1>15 DEF PhaseBack, PhaseFailed, Cancel, Exit
  <2> QED
    BY <1>15, <2>1, <2>2, <2>3 DEF TypeInv, TypeOK, IdleCounts, NextInRange, InPhase, PhaseBack, PhaseFailed,
       idleVars, phaseVars, tlsVars, res
<1>16. ASSUME NEW h \in Handshakes, Dial(h) PROVE TypeInv'
  BY <1>16 DEF TypeInv, TypeOK, IdleCounts, NextInRange, InPhase, Dial, idleVars, phaseVars,
     tlsVars, res
<1>17. ASSUME NEW h \in Handshakes, NEW b \in BOOLEAN, observeTLS(h, b) PROVE TypeInv'
  BY <1>17 DEF TypeInv, TypeOK, IdleCounts, NextInRange, InPhase, observeTLS, First, idleVars, phaseVars,
     tlsVars, res
<1>18. ASSUME NEW h \in Handshakes, warn(h) PROVE TypeInv'
  <2>1. warnings' \subseteq {"timeout", "size", "probe"} \cup Handshakes
    BY <1>18 DEF TypeInv, TypeOK, warn
  <2> QED
    BY <1>18, <2>1 DEF TypeInv, TypeOK, IdleCounts, NextInRange, InPhase, warn, idleVars,
       phaseVars, tlsVars, res
<1>19. CASE UNCHANGED vars
  BY <1>19 DEF TypeInv, TypeOK, IdleCounts, NextInRange, InPhase, vars, idleVars, phaseVars,
     tlsVars, res
<1> QED
  BY <1>1, <1>2, <1>3, <1>4, <1>5, <1>6, <1>7, <1>8, <1>9, <1>10, <1>11, <1>12, <1>13, <1>14,
     <1>15, <1>16, <1>17, <1>18, <1>19 DEF Next, Contexts, Idle, Load, Observe

\* Every step keeps the directions in order and the outcome honest.
LEMMA OutcomeStep ==
  ASSUME TypeInv, OutcomeInv, [Next]_vars
  PROVE  OutcomeInv'
<1> USE DirsFacts
<1>1. CASE Contexts
  BY <1>1 DEF TypeInv, TypeOK, NextInRange, OutcomeInv, OutcomeOpen, DirsInOrder, PhaseTold,
     ErrorTellsResult, PartialResultKept, IdleCounts, InIdle, InDirs, InPhase, Contexts,
     CallerEnds, Propagate, IdleTimer, idleVars, phaseVars, tlsVars, res
<1>2. CASE DiscoverFails
  BY <1>2 DEF TypeInv, TypeOK, NextInRange, OutcomeInv, OutcomeOpen, DirsInOrder, PhaseTold,
     ErrorTellsResult, PartialResultKept, IdleCounts, InIdle, InDirs, InPhase, DiscoverFails,
     idleVars, phaseVars, tlsVars, res
<1>3. CASE DiscoverOk
  BY <1>3 DEF TypeInv, TypeOK, NextInRange, OutcomeInv, OutcomeOpen, DirsInOrder, PhaseTold,
     ErrorTellsResult, PartialResultKept, IdleCounts, InIdle, InDirs, InPhase, DiscoverOk,
     idleVars, phaseVars, tlsVars, res
<1>4. CASE IdleStart
  BY <1>4 DEF TypeInv, TypeOK, NextInRange, OutcomeInv, OutcomeOpen, DirsInOrder, PhaseTold,
     ErrorTellsResult, PartialResultKept, IdleCounts, InIdle, InDirs, InPhase, IdleStart,
     idleVars, phaseVars, tlsVars, res
<1>5. CASE IdleNext
  BY <1>5 DEF TypeInv, TypeOK, NextInRange, OutcomeInv, OutcomeOpen, DirsInOrder, PhaseTold,
     ErrorTellsResult, PartialResultKept, IdleCounts, InIdle, InDirs, InPhase, IdleNext, idleVars,
     phaseVars, tlsVars, res
<1>6. CASE ProbeOk
  BY <1>6 DEF TypeInv, TypeOK, NextInRange, OutcomeInv, OutcomeOpen, DirsInOrder, PhaseTold,
     ErrorTellsResult, PartialResultKept, IdleCounts, InIdle, InDirs, InPhase, ProbeOk, idleVars,
     phaseVars, tlsVars, res
<1>7. CASE ProbeFails
  BY <1>7 DEF TypeInv, TypeOK, NextInRange, OutcomeInv, OutcomeOpen, DirsInOrder, PhaseTold,
     ErrorTellsResult, PartialResultKept, IdleCounts, InIdle, InDirs, InPhase, ProbeFails,
     idleVars, phaseVars, tlsVars, res
<1>8. CASE ProbeAborts
  BY <1>8 DEF TypeInv, TypeOK, NextInRange, OutcomeInv, OutcomeOpen, DirsInOrder, PhaseTold,
     ErrorTellsResult, PartialResultKept, IdleCounts, InIdle, InDirs, InPhase, ProbeAborts,
     idleVars, phaseVars, tlsVars, res
<1>9. CASE IdleReturns
  BY <1>9 DEF TypeInv, TypeOK, NextInRange, OutcomeInv, OutcomeOpen, DirsInOrder, PhaseTold,
     ErrorTellsResult, PartialResultKept, IdleCounts, InIdle, InDirs, InPhase, IdleReturns, Kept,
     IdleErr, idleVars, phaseVars, tlsVars, res
<1>10. CASE IdleBack
  BY <1>10 DEF TypeInv, TypeOK, NextInRange, OutcomeInv, OutcomeOpen, DirsInOrder, PhaseTold,
     ErrorTellsResult, PartialResultKept, IdleCounts, InIdle, InDirs, InPhase, IdleBack, CallerGone, Cancel,
     Exit, idleVars, phaseVars, tlsVars, res
<1>11. CASE Direction
  BY <1>11 DEF TypeInv, TypeOK, NextInRange, OutcomeInv, OutcomeOpen, DirsInOrder, PhaseTold,
     ErrorTellsResult, PartialResultKept, IdleCounts, InIdle, InDirs, InPhase, Direction, Cancel,
     Exit, idleVars, phaseVars, tlsVars, res
<1>12. CASE PhaseEnters
  BY <1>12 DEF TypeInv, TypeOK, NextInRange, OutcomeInv, OutcomeOpen, DirsInOrder, PhaseTold,
     ErrorTellsResult, PartialResultKept, IdleCounts, InIdle, InDirs, InPhase, PhaseEnters, Contract!Enters,
     idleVars, phaseVars, tlsVars, res
<1>13. ASSUME NEW p \in Phases, PhaseEnds(p) PROVE OutcomeInv'
  BY <1>13 DEF TypeInv, TypeOK, NextInRange, OutcomeInv, OutcomeOpen, DirsInOrder, PhaseTold,
     ErrorTellsResult, PartialResultKept, IdleCounts, InIdle, InDirs, InPhase, PhaseEnds, Contract!Ends,
     idleVars, phaseVars, tlsVars, res
<1>14. CASE PhaseReturns
  <2>1. phaseErr' = "nil" => Complete(phase)
    BY <1>14 DEF PhaseReturns, Contract!Returns, OutcomeInv, PhaseTold, Complete
  <2>2. phaseErr' = "flow" => phase = Failed
    BY <1>14 DEF PhaseReturns, Contract!Returns, OutcomeInv, PhaseTold, Phases,
       Contract!Phases, Failed
  <2> QED
    BY <1>14, <2>1, <2>2 DEF TypeInv, TypeOK, NextInRange, OutcomeInv, OutcomeOpen, DirsInOrder,
       PhaseTold, ErrorTellsResult, PartialResultKept, IdleCounts, InIdle, InDirs, InPhase,
       PhaseReturns, Contract!Returns, idleVars, phaseVars, tlsVars, res
<1>15. CASE PhaseBack
  <2>1. next \in 1..Len(Dirs) /\ next' = next + 1 /\ next' - 1 = next
    BY <1>15 DEF TypeInv, TypeOK, NextInRange, InPhase, PhaseBack, PhaseFailed
  <2>2. dirs'[next] = phase /\ \A i \in DOMAIN Dirs : i # next => dirs'[i] = dirs[i]
    BY <1>15, <2>1 DEF TypeInv, TypeOK, PhaseBack, PhaseFailed
  <2>3. /\ \A i \in DOMAIN Dirs : i < next => Complete(dirs'[i])
        /\ \A i \in DOMAIN Dirs : i >= next' => dirs'[i] = Absent
    BY <1>15, <2>1, <2>2 DEF OutcomeInv, DirsInOrder, InDirs, PhaseBack, PhaseFailed
  <2>4. idle = samples
    BY <1>15 DEF TypeInv, IdleCounts, PhaseBack, PhaseFailed
  <2>5. CASE ctx = "ended"
    BY <1>15, <2>1, <2>2, <2>3, <2>4, <2>5 DEF TypeInv, TypeOK, NextInRange, OutcomeInv,
       OutcomeOpen, DirsInOrder, PhaseTold, ErrorTellsResult, PartialResultKept, IdleCounts,
       InIdle, InDirs, InPhase, PhaseBack, PhaseFailed, Cancel, Exit, idleVars, phaseVars, tlsVars, res
  <2>6. CASE ctx # "ended" /\ phaseErr # "nil"
    BY <1>15, <2>1, <2>2, <2>3, <2>4, <2>6 DEF TypeInv, TypeOK, NextInRange, OutcomeInv,
       OutcomeOpen, DirsInOrder, PhaseTold, ErrorTellsResult, PartialResultKept, IdleCounts,
       InIdle, InDirs, InPhase, Failed, PhaseBack, PhaseFailed, Exit, idleVars, phaseVars, tlsVars, res
  <2>7. CASE ctx # "ended" /\ phaseErr = "nil"
    BY <1>15, <2>1, <2>2, <2>3, <2>4, <2>7 DEF TypeInv, TypeOK, NextInRange, OutcomeInv,
       OutcomeOpen, DirsInOrder, PhaseTold, ErrorTellsResult, PartialResultKept, IdleCounts,
       InIdle, InDirs, InPhase, PhaseBack, PhaseFailed, idleVars, phaseVars, tlsVars, res
  <2> QED
    BY <2>5, <2>6, <2>7
<1>16. ASSUME NEW h \in Handshakes, Dial(h) PROVE OutcomeInv'
  BY <1>16 DEF TypeInv, TypeOK, NextInRange, OutcomeInv, OutcomeOpen, DirsInOrder, PhaseTold,
     ErrorTellsResult, PartialResultKept, IdleCounts, InIdle, InDirs, InPhase, Dial, idleVars,
     phaseVars, tlsVars, res
<1>17. ASSUME NEW h \in Handshakes, NEW b \in BOOLEAN, observeTLS(h, b) PROVE OutcomeInv'
  BY <1>17 DEF TypeInv, TypeOK, NextInRange, OutcomeInv, OutcomeOpen, DirsInOrder, PhaseTold,
     ErrorTellsResult, PartialResultKept, IdleCounts, InIdle, InDirs, InPhase, observeTLS, First,
     idleVars, phaseVars, tlsVars, res
<1>18. ASSUME NEW h \in Handshakes, warn(h) PROVE OutcomeInv'
  BY <1>18 DEF TypeInv, TypeOK, NextInRange, OutcomeInv, OutcomeOpen, DirsInOrder, PhaseTold,
     ErrorTellsResult, PartialResultKept, IdleCounts, InIdle, InDirs, InPhase, warn, idleVars,
     phaseVars, tlsVars, res
<1>19. CASE UNCHANGED vars
  BY <1>19 DEF TypeInv, TypeOK, NextInRange, OutcomeInv, OutcomeOpen, DirsInOrder, PhaseTold,
     ErrorTellsResult, PartialResultKept, IdleCounts, InIdle, InDirs, InPhase, vars, idleVars,
     phaseVars, tlsVars, res
<1> QED
  BY <1>1, <1>2, <1>3, <1>4, <1>5, <1>6, <1>7, <1>8, <1>9, <1>10, <1>11, <1>12, <1>13, <1>14,
     <1>15, <1>16, <1>17, <1>18, <1>19 DEF Next, Contexts, Idle, Load, Observe

\* Every step keeps what the warnings say of the idle phase.
LEMMA IdleStep ==
  ASSUME TypeInv, IdleInv, [Next]_vars
  PROVE  IdleInv'
<1> USE DirsFacts
<1>1. CASE Contexts
  BY <1>1 DEF TypeInv, TypeOK, IdleCounts, IdleInv, IdleReport, IdleOutcomeTold, InIdle,
     IdleKinds, Contexts, CallerEnds, Propagate, IdleTimer, idleVars, phaseVars, tlsVars, res
<1>2. CASE DiscoverFails
  BY <1>2 DEF TypeInv, TypeOK, IdleCounts, IdleInv, IdleReport, IdleOutcomeTold, InIdle,
     IdleKinds, DiscoverFails, idleVars, phaseVars, tlsVars, res
<1>3. CASE DiscoverOk
  BY <1>3 DEF TypeInv, TypeOK, IdleCounts, IdleInv, IdleReport, IdleOutcomeTold, InIdle,
     IdleKinds, DiscoverOk, idleVars, phaseVars, tlsVars, res
<1>4. CASE IdleStart
  BY <1>4 DEF TypeInv, TypeOK, IdleCounts, IdleInv, IdleReport, IdleOutcomeTold, InIdle,
     IdleKinds, IdleStart, idleVars, phaseVars, tlsVars, res
<1>5. CASE IdleNext
  BY <1>5 DEF TypeInv, TypeOK, IdleCounts, IdleInv, IdleReport, IdleOutcomeTold, InIdle,
     IdleKinds, IdleNext, idleVars, phaseVars, tlsVars, res
<1>6. CASE ProbeOk
  BY <1>6 DEF TypeInv, TypeOK, IdleCounts, IdleInv, IdleReport, IdleOutcomeTold, InIdle,
     IdleKinds, ProbeOk, idleVars, phaseVars, tlsVars, res
<1>7. CASE ProbeFails
  BY <1>7 DEF TypeInv, TypeOK, IdleCounts, IdleInv, IdleReport, IdleOutcomeTold, InIdle,
     IdleKinds, ProbeFails, idleVars, phaseVars, tlsVars, res
<1>8. CASE ProbeAborts
  BY <1>8 DEF TypeInv, TypeOK, IdleCounts, IdleInv, IdleReport, IdleOutcomeTold, InIdle,
     IdleKinds, ProbeAborts, idleVars, phaseVars, tlsVars, res
<1>9. CASE IdleReturns
  BY <1>9 DEF TypeInv, TypeOK, IdleCounts, IdleInv, IdleReport, IdleOutcomeTold, InIdle,
     IdleKinds, IdleReturns, Kept, IdleErr, idleVars, phaseVars, tlsVars, res
<1>10. CASE IdleBack
  BY <1>10 DEF TypeInv, TypeOK, IdleCounts, IdleInv, IdleReport, IdleOutcomeTold, InIdle,
     IdleKinds, IdleBack, CallerGone, Cancel, Exit, idleVars, phaseVars, tlsVars, res
<1>11. CASE Direction
  BY <1>11 DEF TypeInv, TypeOK, IdleCounts, IdleInv, IdleReport, IdleOutcomeTold, InIdle,
     IdleKinds, Direction, Cancel, Exit, idleVars, phaseVars, tlsVars, res
<1>12. CASE PhaseEnters
  BY <1>12 DEF TypeInv, TypeOK, IdleCounts, IdleInv, IdleReport, IdleOutcomeTold, InIdle,
     IdleKinds, PhaseEnters, Contract!Enters, idleVars, phaseVars, tlsVars, res
<1>13. ASSUME NEW p \in Phases, PhaseEnds(p) PROVE IdleInv'
  BY <1>13 DEF TypeInv, TypeOK, IdleCounts, IdleInv, IdleReport, IdleOutcomeTold, InIdle,
     IdleKinds, PhaseEnds, Contract!Ends, idleVars, phaseVars, tlsVars, res
<1>14. CASE PhaseReturns
  BY <1>14 DEF TypeInv, TypeOK, IdleCounts, IdleInv, IdleReport, IdleOutcomeTold, InIdle,
     IdleKinds, PhaseReturns, Contract!Returns, idleVars, phaseVars, tlsVars, res
<1>15. CASE PhaseBack
  BY <1>15 DEF TypeInv, TypeOK, IdleCounts, IdleInv, IdleReport, IdleOutcomeTold, InIdle,
     IdleKinds, PhaseBack, PhaseFailed, Cancel, Exit, idleVars, phaseVars, tlsVars, res
<1>16. ASSUME NEW h \in Handshakes, Dial(h) PROVE IdleInv'
  BY <1>16 DEF TypeInv, TypeOK, IdleCounts, IdleInv, IdleReport, IdleOutcomeTold, InIdle,
     IdleKinds, Dial, idleVars, phaseVars, tlsVars, res
<1>17. ASSUME NEW h \in Handshakes, NEW b \in BOOLEAN, observeTLS(h, b) PROVE IdleInv'
  BY <1>17 DEF TypeInv, TypeOK, IdleCounts, IdleInv, IdleReport, IdleOutcomeTold, InIdle,
     IdleKinds, observeTLS, First, idleVars, phaseVars, tlsVars, res
<1>18. ASSUME NEW h \in Handshakes, warn(h) PROVE IdleInv'
  BY <1>18 DEF TypeInv, TypeOK, IdleCounts, IdleInv, IdleReport, IdleOutcomeTold, InIdle,
     IdleKinds, warn, idleVars, phaseVars, tlsVars, res
<1>19. CASE UNCHANGED vars
  BY <1>19 DEF TypeInv, TypeOK, IdleCounts, IdleInv, IdleReport, IdleOutcomeTold, InIdle,
     IdleKinds, vars, idleVars, phaseVars, tlsVars, res
<1> QED
  BY <1>1, <1>2, <1>3, <1>4, <1>5, <1>6, <1>7, <1>8, <1>9, <1>10, <1>11, <1>12, <1>13, <1>14,
     <1>15, <1>16, <1>17, <1>18, <1>19 DEF Next, Contexts, Idle, Load, Observe

\* Every step keeps the one verdict on interception.
LEMMA VerdictStep ==
  ASSUME TypeInv, VerdictInv, [Next]_vars
  PROVE  VerdictInv'
<1> USE DirsFacts
<1>1. CASE Contexts
  BY <1>1 DEF TypeInv, TypeOK, VerdictInv, VerdictOpen, InterceptionReportedOnce, Verdicts,
     IdleKinds, Contexts, CallerEnds, Propagate, IdleTimer, idleVars, phaseVars, tlsVars, res
<1>2. CASE DiscoverFails
  BY <1>2 DEF TypeInv, TypeOK, VerdictInv, VerdictOpen, InterceptionReportedOnce, Verdicts,
     IdleKinds, DiscoverFails, idleVars, phaseVars, tlsVars, res
<1>3. CASE DiscoverOk
  BY <1>3 DEF TypeInv, TypeOK, VerdictInv, VerdictOpen, InterceptionReportedOnce, Verdicts,
     IdleKinds, DiscoverOk, idleVars, phaseVars, tlsVars, res
<1>4. CASE IdleStart
  BY <1>4 DEF TypeInv, TypeOK, VerdictInv, VerdictOpen, InterceptionReportedOnce, Verdicts,
     IdleKinds, IdleStart, idleVars, phaseVars, tlsVars, res
<1>5. CASE IdleNext
  BY <1>5 DEF TypeInv, TypeOK, VerdictInv, VerdictOpen, InterceptionReportedOnce, Verdicts,
     IdleKinds, IdleNext, idleVars, phaseVars, tlsVars, res
<1>6. CASE ProbeOk
  BY <1>6 DEF TypeInv, TypeOK, VerdictInv, VerdictOpen, InterceptionReportedOnce, Verdicts,
     IdleKinds, ProbeOk, idleVars, phaseVars, tlsVars, res
<1>7. CASE ProbeFails
  BY <1>7 DEF TypeInv, TypeOK, VerdictInv, VerdictOpen, InterceptionReportedOnce, Verdicts,
     IdleKinds, ProbeFails, idleVars, phaseVars, tlsVars, res
<1>8. CASE ProbeAborts
  BY <1>8 DEF TypeInv, TypeOK, VerdictInv, VerdictOpen, InterceptionReportedOnce, Verdicts,
     IdleKinds, ProbeAborts, idleVars, phaseVars, tlsVars, res
<1>9. CASE IdleReturns
  BY <1>9 DEF TypeInv, TypeOK, VerdictInv, VerdictOpen, InterceptionReportedOnce, Verdicts,
     IdleKinds, IdleReturns, Kept, IdleErr, idleVars, phaseVars, tlsVars, res
<1>10. CASE IdleBack
  BY <1>10 DEF TypeInv, TypeOK, VerdictInv, VerdictOpen, InterceptionReportedOnce, Verdicts,
     IdleKinds, IdleBack, CallerGone, Cancel, Exit, idleVars, phaseVars, tlsVars, res
<1>11. CASE Direction
  BY <1>11 DEF TypeInv, TypeOK, VerdictInv, VerdictOpen, InterceptionReportedOnce, Verdicts,
     IdleKinds, Direction, Cancel, Exit, idleVars, phaseVars, tlsVars, res
<1>12. CASE PhaseEnters
  BY <1>12 DEF TypeInv, TypeOK, VerdictInv, VerdictOpen, InterceptionReportedOnce, Verdicts,
     IdleKinds, PhaseEnters, Contract!Enters, idleVars, phaseVars, tlsVars, res
<1>13. ASSUME NEW p \in Phases, PhaseEnds(p) PROVE VerdictInv'
  BY <1>13 DEF TypeInv, TypeOK, VerdictInv, VerdictOpen, InterceptionReportedOnce, Verdicts,
     IdleKinds, PhaseEnds, Contract!Ends, idleVars, phaseVars, tlsVars, res
<1>14. CASE PhaseReturns
  BY <1>14 DEF TypeInv, TypeOK, VerdictInv, VerdictOpen, InterceptionReportedOnce, Verdicts,
     IdleKinds, PhaseReturns, Contract!Returns, idleVars, phaseVars, tlsVars, res
<1>15. CASE PhaseBack
  BY <1>15 DEF TypeInv, TypeOK, VerdictInv, VerdictOpen, InterceptionReportedOnce, Verdicts,
     IdleKinds, PhaseBack, PhaseFailed, Cancel, Exit, idleVars, phaseVars, tlsVars, res
<1>16. ASSUME NEW h \in Handshakes, Dial(h) PROVE VerdictInv'
  BY <1>16 DEF TypeInv, TypeOK, VerdictInv, VerdictOpen, InterceptionReportedOnce, Verdicts,
     IdleKinds, Dial, idleVars, phaseVars, tlsVars, res
<1>17. ASSUME NEW h \in Handshakes, NEW b \in BOOLEAN, observeTLS(h, b) PROVE VerdictInv'
  BY <1>17 DEF TypeInv, TypeOK, VerdictInv, VerdictOpen, InterceptionReportedOnce, Verdicts,
     IdleKinds, observeTLS, First, idleVars, phaseVars, tlsVars, res
<1>18. ASSUME NEW h \in Handshakes, warn(h) PROVE VerdictInv'
  BY <1>18 DEF TypeInv, TypeOK, VerdictInv, VerdictOpen, InterceptionReportedOnce, Verdicts,
     IdleKinds, warn, idleVars, phaseVars, tlsVars, res
<1>19. CASE UNCHANGED vars
  BY <1>19 DEF TypeInv, TypeOK, VerdictInv, VerdictOpen, InterceptionReportedOnce, Verdicts,
     IdleKinds, vars, idleVars, phaseVars, tlsVars, res
<1> QED
  BY <1>1, <1>2, <1>3, <1>4, <1>5, <1>6, <1>7, <1>8, <1>9, <1>10, <1>11, <1>12, <1>13, <1>14,
     <1>15, <1>16, <1>17, <1>18, <1>19 DEF Next, Contexts, Idle, Load, Observe

\* The four parts together are inductive.
LEMMA Invariance == Spec => [](TypeInv /\ OutcomeInv /\ IdleInv /\ VerdictInv)
BY InitEstablishes, TypeStep, OutcomeStep, IdleStep, VerdictStep, PTL DEF Spec

\* Every part of a run and of its result keeps its type; no more idle probes
\* are sent than were asked for.
THEOREM TypeCorrect == Spec => []TypeOK
BY Invariance, PTL DEF TypeInv

\* LIM-4 and INV-3: the error Run returns tells what its result holds.
THEOREM ErrorsTellResults == Spec => []ErrorTellsResult
BY Invariance, PTL DEF OutcomeInv

\* LIM-4: a run that ends early keeps everything it measured.
THEOREM PartialResultsAreKept == Spec => []PartialResultKept
BY Invariance, PTL DEF OutcomeInv

\* LIM-8: an idle timeout is reported only of the idle timer, and a missing
\* idle latency never goes unexplained.
THEOREM IdleOutcomesAreTold == Spec => []IdleOutcomeTold
BY Invariance, PTL DEF IdleInv

\* PROXY-3: concurrent handshakes yield one verdict.
THEOREM InterceptionIsReportedOnce == Spec => []InterceptionReportedOnce
BY Invariance, PTL DEF VerdictInv

\* The command adds nothing to a run: what is proved of Run holds of every
\* behaviour of nq, handshakes that end while the result is printed included.
THEOREM CommandIsOneRun == ClientSpec => Spec
<1>1. ClientInit => Init
  BY DEF ClientInit
<1>2. [ClientNext]_<<vars, clientVars>> => [Next]_vars
  <2>1. ASSUME NEW a \in CommandLines, Start(a) PROVE UNCHANGED vars
    BY <2>1 DEF Start, Quits
  <2>2. RunStep => Next
    BY DEF RunStep
  <2>3. LateHandshake => Next
    BY DEF LateHandshake, Next
  <2>4. RunBack \/ Exits \/ Gone \/ UNCHANGED <<vars, clientVars>> => UNCHANGED vars
    BY DEF RunBack, Exits, Gone
  <2> QED
    BY <2>1, <2>2, <2>3, <2>4 DEF ClientNext
<1> QED
  BY <1>1, <1>2, PTL DEF ClientSpec, Spec

\* Where the command is, and what that says of the run and of stdout: nothing
\* is printed before Run is back, a result is printed unless discovery failed,
\* and the code is chosen from the error the finished run returned.
CommandInv ==
  /\ nq \in {"start", "running", "printing", exitOK, exitFail, exitUsage}
  /\ nq \in {"start", exitUsage} => at = "discover" /\ printed = "nothing"
  /\ nq = "running" => printed = "nothing"
  /\ nq = "printing" => at = "returned" /\ printed = "result" /\ err # "discover"
  /\ nq = exitOK =>
       \/ at = "discover" /\ printed \in {"nothing", "version"}
       \/ at = "returned" /\ printed = "result" /\ err = "nil"
  /\ nq = exitFail => at = "returned" /\ err # "nil" /\ (printed = "result" <=> err # "discover")

\* The exit codes are told from each other and from the places before.
LEMMA CodesDiffer ==
  /\ exitOK \notin {"start", "running", "printing"} /\ exitFail \notin {"start", "running", "printing"}
  /\ exitUsage \notin {"start", "running", "printing"}
  /\ exitOK # exitFail /\ exitOK # exitUsage /\ exitFail # exitUsage
BY Zenon DEF exitOK, exitFail, exitUsage

\* Every step of the command keeps it; a handshake that ends late touches
\* neither the error nor where the run is.
LEMMA CommandStep ==
  ASSUME CommandInv, [ClientNext]_<<vars, clientVars>>
  PROVE  CommandInv'
<1> USE CodesDiffer DEF clientVars
<1>1. ASSUME NEW a \in CommandLines, Start(a) PROVE CommandInv'
  BY <1>1 DEF CommandInv, Start, Quits, vars
<1>2. CASE RunStep
  BY <1>2 DEF CommandInv, RunStep, Running
<1>3. CASE LateHandshake
  <2>1. PICK h \in Handshakes : Observe(h)
    BY <1>3 DEF LateHandshake
  <2>2. UNCHANGED <<at, err, nq, printed>>
    BY <1>3, <2>1 DEF LateHandshake, Observe, Dial, observeTLS, warn
  <2> QED
    BY <2>2 DEF CommandInv
<1>4. CASE RunBack
  BY <1>4 DEF CommandInv, RunBack, Running, NoResult, vars
<1>5. CASE Exits
  BY <1>5 DEF CommandInv, Exits, ExitCode, vars
<1>6. CASE Gone \/ UNCHANGED <<vars, clientVars>>
  BY <1>6 DEF CommandInv, Gone, vars
<1> QED
  BY <1>1, <1>2, <1>3, <1>4, <1>5, <1>6 DEF ClientNext

\* CLI-8: whatever the command line, the run and the handshakes that outlive
\* it, the exit code tells what is on stdout.
THEOREM ExitsTellOutcomes == ClientSpec => []ExitTellsOutcome
<1>1. ClientInit => CommandInv
  BY CodesDiffer DEF ClientInit, Init, CommandInv
<1>2. CommandInv /\ ErrorTellsResult => ExitTellsOutcome
  BY CodesDiffer DEF CommandInv, ErrorTellsResult, ExitTellsOutcome, Exited
<1>3. ClientSpec => []CommandInv
  BY <1>1, CommandStep, PTL DEF ClientSpec
<1> QED
  BY <1>2, <1>3, CommandIsOneRun, ErrorsTellResults, PTL
=============================================================================
