------------------------------ MODULE ServeHTTP ------------------------------
(***************************************************************************)
(* The life of the server process (src/cmd/orionis-auth/http_server.go,    *)
(* main.go): one goroutine runs ListenAndServe and sends what it returns   *)
(* to a channel; the main goroutine waits for that or for a signal, and    *)
(* shuts the server down with a deadline.  net/http is external.           *)
(***************************************************************************)
EXTENDS Naturals, Sequences

CONSTANT MaxRequests    \* requests in flight at a time

VARIABLES
    signalled,  \* ctx.Done(): SIGINT or SIGTERM came
    main,       \* main goroutine: "select", "shutdown", "receive", "returned"
    serve,      \* serving goroutine: "start", "serving", "send", "ended"
    serveErr,   \* what ListenAndServe returned: "", "closed", "failed"
    errCh,      \* the channel, of capacity one
    closing,    \* http.Server.inShutdown
    inFlight,   \* requests being handled
    result      \* what serveHTTPServer returned: "", "nil", "failed", "deadline"

vars == <<signalled, main, serve, serveErr, errCh, closing, inFlight, result>>

Init ==
    /\ signalled = FALSE
    /\ main = "select"
    /\ serve = "start"
    /\ serveErr = ""
    /\ errCh = <<>>
    /\ closing = FALSE
    /\ inFlight = 0
    /\ result = ""

-----------------------------------------------------------------------------
(* The serving goroutine, and net/http *)

ServeReturns(err) ==
    /\ serve' = "send"
    /\ serveErr' = err
    /\ UNCHANGED <<signalled, main, errCh, closing, inFlight, result>>

\* ListenAndServe listens, unless Shutdown came first.
Listen ==
    /\ serve = "start" /\ ~ closing
    /\ serve' = "serving"
    /\ UNCHANGED <<signalled, main, serveErr, errCh, closing, inFlight, result>>

\* It cannot listen, or Accept fails for good and Shutdown is not the reason.
ServeFails ==
    /\ serve = "start" \/ (serve = "serving" /\ ~ closing)
    /\ ServeReturns("failed")

\* Once Shutdown is called it returns ErrServerClosed.
ServeCloses ==
    /\ serve \in {"start", "serving"} /\ closing
    /\ ServeReturns("closed")

\* Mutant: the channel has no buffer.
SendUnbuffered ==
    /\ serve = "send" /\ main \in {"select", "receive"}
    /\ errCh' = Append(errCh, serveErr)
    /\ serve' = "ended"
    /\ UNCHANGED <<signalled, main, serveErr, closing, inFlight, result>>

\* errCh <- serve()
Send ==
    /\ serve = "send" /\ Len(errCh) < 1
    /\ errCh' = Append(errCh, serveErr)
    /\ serve' = "ended"
    /\ UNCHANGED <<signalled, main, serveErr, closing, inFlight, result>>

Request ==
    /\ serve = "serving" /\ ~ closing /\ inFlight < MaxRequests
    /\ inFlight' = inFlight + 1
    /\ UNCHANGED <<signalled, main, serve, serveErr, errCh, closing, result>>

Answer ==
    /\ inFlight > 0 /\ main # "returned"
    /\ inFlight' = inFlight - 1
    /\ UNCHANGED <<signalled, main, serve, serveErr, errCh, closing, result>>

Signal ==
    /\ ~ signalled
    /\ signalled' = TRUE
    /\ UNCHANGED <<main, serve, serveErr, errCh, closing, inFlight, result>>

-----------------------------------------------------------------------------
(* serveHTTPServer *)

Returns(err) == main' = "returned" /\ result' = err

\* Mutant: after a shutdown the serving goroutine's error is dropped.
ReportedNever(err) == "nil"

\* What is reported for an error of the serving goroutine.
Reported(err) == IF err = "closed" THEN "nil" ELSE err

\* The select takes ctx.Done(), even when errCh is ready too: Shutdown is called.
SelectDone ==
    /\ main = "select" /\ signalled
    /\ main' = "shutdown"
    /\ closing' = TRUE
    /\ UNCHANGED <<signalled, serve, serveErr, errCh, inFlight, result>>

\* The select takes errCh.
SelectErr ==
    /\ main = "select" /\ errCh # <<>>
    /\ errCh' = Tail(errCh)
    /\ Returns(Reported(Head(errCh)))
    /\ UNCHANGED <<signalled, serve, serveErr, closing, inFlight>>

\* Shutdown returns nil once no request is in flight.
ShutdownIdle ==
    /\ main = "shutdown" /\ inFlight = 0
    /\ main' = "receive"
    /\ UNCHANGED <<signalled, serve, serveErr, errCh, closing, inFlight, result>>

\* Mutant: Shutdown is called without a deadline.
ShutdownUnlimited ==
    /\ main = "shutdown" /\ inFlight = 0
    /\ Returns("deadline")
    /\ UNCHANGED <<signalled, serve, serveErr, errCh, closing, inFlight>>

\* The deadline passes: the requests in flight end with the process.
ShutdownDeadline ==
    /\ main = "shutdown"
    /\ Returns("deadline")
    /\ UNCHANGED <<signalled, serve, serveErr, errCh, closing, inFlight>>

\* err := <-errCh
ReceiveErr ==
    /\ main = "receive" /\ errCh # <<>>
    /\ errCh' = Tail(errCh)
    /\ Returns(Reported(Head(errCh)))
    /\ UNCHANGED <<signalled, serve, serveErr, closing, inFlight>>

Serving == Listen \/ ServeFails \/ ServeCloses \/ Send
Main == SelectDone \/ SelectErr \/ ShutdownIdle \/ ShutdownDeadline \/ ReceiveErr
Next == Serving \/ Main \/ Request \/ Answer \/ Signal

Spec == Init /\ [][Next]_vars
=============================================================================
