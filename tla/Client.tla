------------------------------- MODULE Client -------------------------------
(***************************************************************************)
(* The nq command (cmd/nq/main.go run): the command line, the one call of  *)
(* netquality.Run whose context ends at the first Ctrl-C, what is printed, *)
(* and the exit code.                                                      *)
(***************************************************************************)
EXTENDS Run

CONSTANT CommandLines  \* what the arguments may be

\* The arguments: the version subcommand, how flag parsing ends ("ok", "help"
\* or "malformed"), a stray argument, both of the -only flags, how the target
\* is named, and the value of --max-bytes.
ASSUME ClientAssumption ==
  CommandLines \subseteq
    [version : BOOLEAN, parsed : {"ok", "help", "malformed"}, stray : BOOLEAN, bothOnly : BOOLEAN,
     target : {"configURL", "wellKnown", "named", "unknown"}, maxBytes : {"omitted", "valid", "invalid"}]

exitOK == "exit 0"
exitFail == "exit 1"
exitUsage == "exit 2"

VARIABLES
  nq,       \* "start", "running", "printing" or the exit code
  printed   \* what was printed on stdout: "nothing", "version" or the result

clientVars == <<nq, printed>>

ClientInit == Init /\ nq = "start" /\ printed = "nothing"

Running == nq = "running"

\* The command line ends the command before anything is dialled.
Quits(code) ==
  /\ nq' = code
  /\ UNCHANGED <<vars, printed>>

Usage(a) ==
  \/ a.parsed = "malformed" \/ a.stray \/ a.bothOnly
  \/ a.target = "unknown" \/ a.maxBytes = "invalid"

Start(a) ==
  /\ nq = "start"
  /\ \/ a.version /\ nq' = exitOK /\ printed' = "version" /\ UNCHANGED vars
     \/ ~a.version /\ a.parsed = "help" /\ Quits(exitOK)
     \/ ~a.version /\ a.parsed # "help" /\ Usage(a) /\ Quits(exitUsage)
     \/ ~a.version /\ a.parsed # "help" /\ ~Usage(a) /\ Quits("running")

\* netquality.Run, with the interrupt as the end of its context.
RunStep == Running /\ Next /\ UNCHANGED clientVars

\* A dial goroutine of net/http may still finish a handshake after Run.
LateHandshake ==
  /\ nq = "printing"
  /\ \E h \in Handshakes : Observe(h)
  /\ UNCHANGED clientVars

\* Run has returned.  A nil result is an error without one (discovery).
NoResult == err = "discover"

RunBack ==
  /\ Running /\ at = "returned"
  /\ IF NoResult THEN nq' = exitFail /\ UNCHANGED printed
     ELSE nq' = "printing" /\ printed' = "result"
  /\ UNCHANGED vars

\* The code after the result is printed: that of the error.
AlwaysOK == exitOK
ExitCode == IF err # "nil" THEN exitFail ELSE exitOK

Exits ==
  /\ nq = "printing"
  /\ nq' = ExitCode
  /\ UNCHANGED <<vars, printed>>

\* The process is gone.
Exited == nq \in {exitOK, exitFail, exitUsage}
Gone == Exited /\ UNCHANGED <<vars, clientVars>>

ClientNext ==
  (\E a \in CommandLines : Start(a)) \/ RunStep \/ LateHandshake \/ RunBack \/ Exits \/ Gone

ClientSpec == ClientInit /\ [][ClientNext]_<<vars, clientVars>>

all == <<vars, clientVars>>
Fairly(A) == Running /\ A /\ UNCHANGED clientVars

\* The main goroutine runs, and Run does as its own fairness says.
ClientFair ==
  /\ ClientSpec
  /\ WF_all(\E a \in CommandLines : Start(a)) /\ WF_all(RunBack) /\ WF_all(Exits)
  /\ WF_all(Fairly(DiscoverFails \/ DiscoverOk))
  /\ WF_all(Fairly(Propagate)) /\ WF_all(Fairly(IdleTimer)) /\ WF_all(Fairly(ProbeAborts))
  /\ WF_all(Fairly(IdleStart \/ IdleNext \/ IdleReturns \/ IdleBack))
  /\ WF_all(Fairly(Load))
-----------------------------------------------------------------------------
\* CLI-8: the exit code tells what is on stdout.  0 after a run means a result
\* with every direction complete; 2 that nothing was dialled; 1 that the run
\* failed, and every result there is, partial or not, was printed before.
ExitTellsOutcome ==
  Exited =>
    /\ nq = exitOK /\ printed # "version" /\ at # "discover" =>
         printed = "result" /\ ~cancelled /\ \A i \in DOMAIN Dirs : Complete(dirs[i])
    /\ nq = exitUsage => at = "discover" /\ printed = "nothing"
    /\ nq = exitFail => err # "nil" /\ (printed = "result" <=> finished)

\* LIM-1, LIM-8 and INV-1: the command always ends, whatever the network does.
CommandExits == <>Exited
=============================================================================
