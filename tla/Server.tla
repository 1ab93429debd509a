------------------------------- MODULE Server -------------------------------
(***************************************************************************)
(* The nqserver command (cmd/nqserver/main.go run and runSign): the        *)
(* command line, the Serve goroutine behind its done channel, the interrupt*)
(* that starts a graceful shutdown of two seconds, and the exit code; with *)
(* the listener of LimitListener.                                          *)
(*                                                                         *)
(* http.Server is external: its Serve loop is the one acceptor, its        *)
(* deferred Close of the listener and Shutdown's are the two closers, and  *)
(* a connection is closed by its handler or, when idle, by Shutdown.       *)
(***************************************************************************)
EXTENDS LimitListener

CONSTANT CommandLines  \* what the arguments may be

\* The arguments of nqserver and nqserver sign: the subcommand, how flag
\* parsing ends, the signing key, --version or --new-key, the certificate,
\* whether there is a token, --allow-anonymous, and whether the URLs and the
\* lifetime to sign are in order.
ASSUME ServerAssumption ==
  /\ CommandLines \subseteq
       [sign : BOOLEAN, parsed : {"ok", "help", "malformed"}, key : {"none", "good", "bad"}, only : BOOLEAN,
        cert : {"selfSigned", "files", "unusable"}, token : BOOLEAN, anonymous : BOOLEAN, urls : BOOLEAN]
  /\ Acceptors = {"Serve"} /\ Closers = {"Serve", "Shutdown"} /\ Calls = {"handler", "Shutdown"}

exitOK == "exit 0"
exitFail == "exit 1"
exitUsage == "exit 2"

VARIABLES
  main,       \* "start", "listen", "serving", "shutdown" or the exit code
  signalled,  \* the context of the interrupt has ended
  serveErr,   \* ServeTLS: "none" while it runs, then "closed" or "failed"
  expired     \* the two seconds of shutdownCtx are over

serverVars == <<main, signalled, serveErr, expired>>
all == <<vars, serverVars>>

ServerInit == Init /\ main = "start" /\ signalled = FALSE /\ serveErr = "none" /\ expired = FALSE

Goes(to) == main' = to /\ UNCHANGED <<vars, signalled, serveErr, expired>>

(***************************************************************************)
(* The command line.                                                       *)
(***************************************************************************)
\* runSign: a random key may fail, a URL may not be one to sign.
runSign(a) ==
  \/ a.parsed = "help" /\ Goes(exitOK)
  \/ a.parsed = "malformed" /\ Goes(exitUsage)
  \/ a.parsed = "ok" /\ a.only /\ (Goes(exitOK) \/ Goes(exitFail))
  \/ a.parsed = "ok" /\ ~a.only /\ a.urls /\ a.key = "good" /\ Goes(exitOK)
  \/ a.parsed = "ok" /\ ~a.only /\ ~(a.urls /\ a.key = "good") /\ Goes(exitUsage)

\* No certificate, or a real one and nobody to keep out.
Refused(a) ==
  \/ a.cert = "unusable"
  \/ a.cert = "files" /\ ~a.token /\ a.key = "none" /\ ~a.anonymous

\* The keys are parsed before --version is looked at.
Start(a) ==
  /\ main = "start"
  /\ \/ a.sign /\ runSign(a)
     \/ ~a.sign /\ a.parsed = "help" /\ Goes(exitOK)
     \/ ~a.sign /\ a.parsed # "help" /\ (a.parsed = "malformed" \/ a.key = "bad") /\ Goes(exitUsage)
     \/ /\ ~a.sign /\ a.parsed = "ok" /\ a.key # "bad"
        /\ \/ a.only /\ Goes(exitOK)
           \/ ~a.only /\ Refused(a) /\ Goes(exitUsage)
           \/ ~a.only /\ ~Refused(a) /\ Goes("listen")

Listen == main = "listen" /\ (Goes("serving") \/ Goes(exitFail))

(***************************************************************************)
(* Serving.                                                                *)
(***************************************************************************)
Up == main \in {"serving", "shutdown"}

\* The listener and the connections; a listener Close has its caller: Serve
\* when it returns, Shutdown when it was called.
Network ==
  /\ Up
  /\ \/ \E c \in Conns : Dial(c) \/ CloseConn(c, "handler")
     \/ \E a \in Acceptors : Serve(a) \/ InnerError(a)
     \/ serveErr # "none" /\ Close("Serve")
     \/ main = "shutdown" /\ (Close("Shutdown") \/ \E c \in Conns : CloseConn(c, "Shutdown"))
  /\ UNCHANGED serverVars

\* Serve reads inShutdown to tell a closed server from a failed one.
ServeEnds ==
  /\ Up /\ acceptor["Serve"] = "returned" /\ serveErr = "none"
  /\ serveErr' = IF main = "shutdown" THEN "closed" ELSE "failed"
  /\ UNCHANGED <<vars, main, signalled, expired>>

Interrupt ==
  /\ main \in {"start", "listen", "serving", "shutdown"} /\ ~signalled
  /\ signalled' = TRUE
  /\ UNCHANGED <<vars, main, serveErr, expired>>

\* The error of Serve is in the done channel once its deferred Close is over.
Delivered == serveErr # "none" /\ closer["Serve"] = "returned"

\* The exit code of a server that stopped by itself.
StoppedOK == exitOK
Stopped == IF serveErr = "failed" THEN exitFail ELSE exitOK

SelectDone == main = "serving" /\ Delivered /\ Goes(Stopped)
SelectInterrupt == main = "serving" /\ signalled /\ Goes("shutdown")

\* shutdownCtx has a deadline, or none.
NeverExpires == FALSE
Expires == TRUE

Timeout ==
  /\ Expires /\ main = "shutdown" /\ ~expired
  /\ expired' = TRUE
  /\ UNCHANGED <<vars, main, signalled, serveErr>>

\* Shutdown closes the listener and waits for the connections or its context.
Drained == \A c \in Conns : conn[c] # "open"
ShutdownReturns ==
  /\ main = "shutdown" /\ closer["Shutdown"] = "returned" /\ (Drained \/ expired)
  /\ Goes(exitOK)

Exited == main \in {exitOK, exitFail, exitUsage}
Gone == Exited /\ UNCHANGED all

Main == (\E a \in CommandLines : Start(a)) \/ Listen \/ SelectDone \/ SelectInterrupt \/ ShutdownReturns

ServerNext == Main \/ Network \/ ServeEnds \/ Interrupt \/ Timeout \/ Gone

ServerSpec == ServerInit /\ [][ServerNext]_all

\* A goroutine that can run does; no client and no handler has to close a
\* connection, but a Close that has begun finishes.  The timer of the shutdown
\* is left out: a property that needs it says so.
Running(A) == Up /\ A /\ UNCHANGED serverVars

ServerFair ==
  /\ ServerSpec
  /\ WF_all(Main) /\ WF_all(ServeEnds)
  /\ WF_all(Running(\E a \in Acceptors : Serve(a)))
  /\ WF_all(Running(serveErr # "none" /\ Close("Serve")))
  /\ WF_all(Running(main = "shutdown" /\ Close("Shutdown")))
  /\ \A c \in Conns, g \in Calls : WF_all(Running(Release(c, g) \/ ConnClose(c, g)))
-----------------------------------------------------------------------------
\* LimitListener's comment: Accept resumes as connections close; while every
\* accepted connection is closed in the end, a waiting client is accepted
\* unless the listener is closed or the server has failed.
WaitersAreServed ==
  (\A c \in Conns : (conn[c] = "open") ~> (conn[c] = "closed"))
    => \A c \in Conns : (conn[c] = "queued") ~> (conn[c] \in {"open", "closed"} \/ done \/ ~Up)

\* What the step that ends a server says of it.
ToldAtExit ==
  Up /\ Exited' =>
    /\ main' = exitOK => signalled
    /\ main' = exitFail => serveErr = "failed"
    /\ main' # exitUsage
    /\ done /\ ~listening

\* SRV-6: a server that was up ends with 0 only after an interrupt, and with 1
\* only when Serve failed on its own; its listener has been closed by then,
\* though Serve need not have returned.
ExitTold == [][ToldAtExit]_all

\* SRV-6 and LimitListener's comment: an interrupt ends the command, though
\* transfers may never end.  While the two seconds last only an open connection
\* holds it up: Close has released an Accept that waited at the cap, and the
\* Serve loop has returned.
InterruptEnds ==
  /\ signalled ~> (Exited \/ (acceptor["Serve"] = "returned" /\ ~Drained))
  /\ WF_all(Timeout) => (signalled ~> Exited)
=============================================================================
