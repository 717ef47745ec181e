------------------------------- MODULE Process -------------------------------
(***************************************************************************)
(* The whole life of the authorization server process                      *)
(* (src/cmd/orionis-auth/main.go): run parses the command line, starts the *)
(* runtime (Startup), asks to be told of signals, and serves until a       *)
(* signal or a failure (ServeHTTP).  Until it has asked, a signal kills    *)
(* the process.                                                            *)
(***************************************************************************)
EXTENDS Startup

CONSTANT MaxRequests    \* requests in flight at a time

ASSUME MaxRequestsAssumption == MaxRequests \in Nat

VARIABLES
    signalled, main, serve, serveErr, errCh, closing, inFlight, result, \* of ServeHTTP
    flags,      \* the command line: "unparsed", "parsed", "help" (-h) or "bad"
    notified,   \* signal.NotifyContext was called
    killed      \* a signal met its default action

Server == INSTANCE ServeHTTP

server == <<signalled, main, serve, serveErr, errCh, closing, inFlight, result>>
processVars == <<vars, server, flags, notified, killed>>

ProcessInit ==
    /\ Init
    /\ Server!Init
    /\ flags = "unparsed"
    /\ notified = FALSE
    /\ killed = FALSE

\* run has returned, or the process was killed.
Over == flags \in {"help", "bad"} \/ phase = "failed" \/ killed \/ main = "returned"

\* main makes an exit code of the error that run returns; flag.ErrHelp is none.
ExitCode ==
    IF flags = "help" \/ (phase # "failed" /\ ~ killed /\ result = "nil") THEN 0 ELSE 1

\* flags.Parse: help was asked for, the arguments are wrong, or there is a configuration to load.
ParseFlags ==
    /\ flags = "unparsed" /\ ~ killed
    /\ flags' \in {"help", "bad", "parsed"}
    /\ UNCHANGED <<vars, server, notified, killed>>

\* run up to a runtime that can serve, or an error.
Starts ==
    /\ flags = "parsed" /\ ~ killed
    /\ Next
    /\ UNCHANGED <<server, flags, notified, killed>>

Notify ==
    /\ phase = "serving" /\ ~ notified /\ ~ killed
    /\ notified' = TRUE
    /\ UNCHANGED <<vars, server, flags, killed>>

SignalKills ==
    /\ ~ notified /\ ~ Over
    /\ killed' = TRUE
    /\ UNCHANGED <<vars, server, flags, notified>>

\* serveHTTPServer
Serves ==
    /\ phase = "serving" /\ notified
    /\ Server!Next
    /\ UNCHANGED <<vars, flags, notified, killed>>

ProcessNext == ParseFlags \/ Starts \/ Notify \/ SignalKills \/ Serves

ProcessSpec == ProcessInit /\ [][ProcessNext]_processVars

\* Both goroutines run and the deadline's timer fires; nothing is assumed of the
\* handlers, which may never answer, or of the signal.
FairSpec == /\ ProcessSpec
            /\ WF_processVars(Serves /\ Server!Serving)
            /\ WF_processVars(Serves /\ Server!Main)
-----------------------------------------------------------------------------
(* Properties *)

\* The process exits with success in two cases only.  Help was asked for
\* (main_test.go:39), and then nothing has been done: no configuration was accepted,
\* no key was made, no server was started.  Or it served, was told to stop,
\* answered every request and closed the server.  A bad command line, a start that
\* failed, a server that failed, even if it did while the signal came, and a kill are
\* never reported as a success.
CleanExit ==
    (Over /\ ExitCode = 0) =>
        \/ flags = "help" /\ cfg = Absent /\ signers = <<>> /\ serve = "start"
        \/ phase = "serving" /\ signalled /\ inFlight = 0 /\ serveErr = "closed"

\* After a signal the process ends, also when the server never came up, has failed
\* already, or its handlers hang.
SignalEndsProcess == signalled ~> Over

\* The serving goroutine ends too: it is never left blocked on the channel by a
\* main goroutine that has returned at the deadline.
ServingGoroutineEnds == (main = "returned") ~> (serve = "ended")
=============================================================================
