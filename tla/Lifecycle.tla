------------------------------ MODULE Lifecycle ------------------------------
(***************************************************************************)
(* How the monolith (cmd/api) stops: on a signal, when the HTTP server     *)
(* fails or when the RSS worker returns, run shuts down the server, the    *)
(* background tasks of the handlers and the worker, all within one         *)
(* deadline, and then closes Redis and the PostgreSQL pool.                *)
(*                                                                         *)
(* run, the handlers, their background tasks and the worker are            *)
(* goroutines; when run returns the process ends and they all vanish.      *)
(***************************************************************************)
EXTENDS FiniteSets, SequencesExt

CONSTANT Requests   \* HTTP requests; each starts at most one background task

VARIABLES
    main,             \* where run is
    cancelled,        \* appCtx is done
    deadline,         \* shutdownCtx is done
    server,           \* what the HTTP server does
    request,          \* per request: its handler
    task,             \* per request: the background task of its handler
    backgroundClosed, \* Handler.backgroundClosed
    background,       \* what Handler.Shutdown returned, "none" before
    worker,           \* the RSS worker: between batches, in one, returned
    workerFinished,   \* run has received the worker's result
    runErr,           \* run is to return an error
    functions,        \* close functions of the Closer that have not run yet
    pool,             \* pgxpool: open, closing (waits for connections), closed
    conns             \* who holds a connection of the pool

mainVars == <<main, cancelled, deadline, workerFinished, runErr>>
handlerVars == <<request, task>>
shutdownVars == <<backgroundClosed, background>>
closeVars == <<functions, pool>>
vars == <<mainVars, server, handlerVars, shutdownVars, worker, closeVars, conns>>

Worker == "worker"
Active  == {r \in Requests : request[r] = "active"}
Running == {r \in Requests : task[r] = "running"}

Init ==
    /\ main = "serving"
    /\ cancelled = FALSE /\ deadline = FALSE
    /\ server = "listening"
    /\ request = [r \in Requests |-> "none"]
    /\ task = [r \in Requests |-> "none"]
    /\ backgroundClosed = FALSE /\ background = "none"
    /\ worker = "idle" /\ workerFinished = FALSE
    /\ runErr = FALSE
    /\ functions = <<"PostgreSQL pool", "Redis client">>
    /\ pool = "open"
    /\ conns = {}

-----------------------------------------------------------------------------
(* Handlers and their background tasks.                                    *)

Arrive(r) ==
    /\ server = "listening"
    /\ request[r] = "none"
    /\ request' = [request EXCEPT ![r] = "active"]
    /\ UNCHANGED <<mainVars, server, task, shutdownVars, worker, closeVars, conns>>

\* Mutant: the flag is not looked at.
RunUnchecked(r) ==
    /\ request[r] = "active" /\ task[r] = "none"
    /\ task' = [task EXCEPT ![r] = "running"]
    /\ UNCHANGED <<mainVars, server, request, shutdownVars, worker, closeVars, conns>>

\* The flag is checked and the wait group counted up under one mutex, which
\* Shutdown takes as well.  A task refused is not started later.
RunInBackground(r) ==
    /\ request[r] = "active" /\ task[r] = "none"
    /\ task' = [task EXCEPT ![r] = IF backgroundClosed THEN "refused" ELSE "running"]
    /\ UNCHANGED <<mainVars, server, request, shutdownVars, worker, closeVars, conns>>

TaskEnds(r) ==
    /\ task[r] = "running"
    /\ task' = [task EXCEPT ![r] = "done"]
    /\ UNCHANGED <<mainVars, server, request, shutdownVars, worker, closeVars, conns>>

Respond(r) ==
    /\ request[r] = "active" /\ r \notin conns
    /\ request' = [request EXCEPT ![r] = "done"]
    /\ UNCHANGED <<mainVars, server, task, shutdownVars, worker, closeVars, conns>>

\* A query of a handler or of the worker takes a connection for a while.
Acquire(x) ==
    /\ x \in Active \/ (x = Worker /\ worker = "batch")
    /\ pool = "open"
    /\ x \notin conns
    /\ conns' = conns \union {x}
    /\ UNCHANGED <<mainVars, server, handlerVars, shutdownVars, worker, closeVars>>

Release(x) ==
    /\ x \in conns
    /\ conns' = conns \ {x}
    /\ UNCHANGED <<mainVars, server, handlerVars, shutdownVars, worker, closeVars>>

-----------------------------------------------------------------------------
(* The RSS worker, worker.Start.                                           *)

WorkerSet(from, to) ==
    /\ worker = from
    /\ worker' = to
    /\ UNCHANGED <<mainVars, server, handlerVars, shutdownVars, closeVars, conns>>

BeginBatch    == ~cancelled /\ WorkerSet("idle", "batch")
EndBatch      == Worker \notin conns /\ WorkerSet("batch", "idle")
WorkerReturns == cancelled /\ WorkerSet("idle", "returned")

-----------------------------------------------------------------------------
(* What makes the process stop.                                            *)

Signal ==
    /\ ~cancelled
    /\ cancelled' = TRUE
    /\ UNCHANGED <<main, deadline, workerFinished, runErr, server, handlerVars,
                   shutdownVars, worker, closeVars, conns>>

ServerFails ==
    /\ server = "listening"
    /\ server' = "failed"
    /\ UNCHANGED <<mainVars, handlerVars, shutdownVars, worker, closeVars, conns>>

Deadline ==
    /\ main \notin {"serving", "stopped"}
    /\ ~deadline
    /\ deadline' = TRUE
    /\ UNCHANGED <<main, cancelled, workerFinished, runErr, server, handlerVars,
                   shutdownVars, worker, closeVars, conns>>

-----------------------------------------------------------------------------
(* run.                                                                    *)

\* Mutant: stopSignals is not called when the server fails.
WakeUncancelled ==
    /\ main = "serving"
    /\ cancelled \/ server = "failed"
    /\ main' = "shutdown"
    /\ runErr' = (server = "failed")
    /\ UNCHANGED <<cancelled, deadline, workerFinished, server, handlerVars,
                   shutdownVars, worker, closeVars, conns>>

\* The select over appCtx.Done, serverDone and workerDone takes any case that
\* is ready; stopSignals cancels appCtx.
Wake ==
    /\ main = "serving"
    /\ \/ cancelled /\ UNCHANGED <<runErr, workerFinished>>
       \/ server = "failed" /\ runErr' = TRUE /\ UNCHANGED workerFinished
       \/ worker = "returned" /\ workerFinished' = TRUE /\ UNCHANGED runErr
    /\ cancelled' = TRUE
    /\ main' = "shutdown"
    /\ UNCHANGED <<deadline, server, handlerVars, shutdownVars, worker, closeVars, conns>>

Move(from, to) ==
    /\ main = from
    /\ main' = to
    /\ UNCHANGED <<cancelled, deadline, workerFinished, handlerVars, worker,
                   closeVars, conns>>

\* server.Shutdown: no new connections, then wait for the active ones.
StopListening ==
    /\ Move("shutdown", "draining")
    /\ server' = "closed"
    /\ UNCHANGED <<runErr, shutdownVars>>

Drained ==
    /\ Move("draining", "handler")
    /\ Active = {}
    /\ UNCHANGED <<runErr, server, shutdownVars>>

\* server.Close does not wait for the handlers, which go on.
DrainTimesOut ==
    /\ Move("draining", "handler")
    /\ deadline
    /\ runErr' = TRUE
    /\ UNCHANGED <<server, shutdownVars>>

\* Handler.Shutdown: first under the mutex, then the select.
CloseBackground ==
    /\ Move("handler", "background")
    /\ backgroundClosed' = TRUE
    /\ UNCHANGED <<runErr, server, background>>

\* Mutant: the wait group is not waited for.
BackgroundUnawaited ==
    /\ Move("background", "worker")
    /\ background' = "nil"
    /\ UNCHANGED <<runErr, server, backgroundClosed>>

BackgroundDone ==
    /\ Move("background", "worker")
    /\ Running = {}
    /\ background' = "nil"
    /\ UNCHANGED <<runErr, server, backgroundClosed>>

BackgroundTimesOut ==
    /\ Move("background", "worker")
    /\ deadline
    /\ background' = "error"
    /\ runErr' = TRUE
    /\ UNCHANGED <<server, backgroundClosed>>

WorkerDone ==
    /\ Move("worker", "closing")
    /\ worker = "returned"
    /\ UNCHANGED <<runErr, server, shutdownVars>>

WorkerTimesOut ==
    /\ Move("worker", "closing")
    /\ deadline /\ ~workerFinished
    /\ runErr' = TRUE
    /\ UNCHANGED <<server, shutdownVars>>

\* Closer.Close: the functions in reverse order; closing the pool waits until
\* every connection has been given back.
CloseRedis ==
    /\ main = "closing" /\ functions # <<>> /\ Last(functions) = "Redis client"
    /\ functions' = Front(functions)
    /\ runErr' \in {runErr, TRUE}
    /\ UNCHANGED <<main, cancelled, deadline, workerFinished, server, handlerVars,
                   shutdownVars, worker, pool, conns>>

ClosePool ==
    /\ main = "closing" /\ functions # <<>> /\ Last(functions) = "PostgreSQL pool"
    /\ \/ pool = "open" /\ pool' = "closing" /\ UNCHANGED functions
       \/ pool = "closing" /\ conns = {} /\ pool' = "closed" /\ functions' = Front(functions)
    /\ UNCHANGED <<mainVars, server, handlerVars, shutdownVars, worker, conns>>

Return ==
    /\ functions = <<>>
    /\ Move("closing", "stopped")
    /\ UNCHANGED <<runErr, server, shutdownVars>>

-----------------------------------------------------------------------------

Main ==
    \/ Wake \/ StopListening \/ Drained \/ DrainTimesOut
    \/ CloseBackground \/ BackgroundDone \/ BackgroundTimesOut
    \/ WorkerDone \/ WorkerTimesOut \/ CloseRedis \/ ClosePool \/ Return

Handle(r) == Arrive(r) \/ RunInBackground(r) \/ TaskEnds(r) \/ Respond(r)

Next ==
    \/ Main
    \/ /\ main # "stopped"
       /\ \/ \E r \in Requests : Handle(r)
          \/ \E x \in Requests \union {Worker} : Acquire(x) \/ Release(x)
          \/ BeginBatch \/ EndBatch \/ WorkerReturns
          \/ Signal \/ ServerFails \/ Deadline

Spec == Init /\ [][Next]_vars

(***************************************************************************)
(* Every goroutine that can run does, and queries, tasks and downloads     *)
(* end.  Nothing is assumed of the deadline, of signals or of clients.     *)
(***************************************************************************)
Fairness ==
    /\ WF_vars(Main)
    /\ \A r \in Requests :
          WF_vars(main # "stopped" /\ TaskEnds(r)) /\ SF_vars(main # "stopped" /\ Respond(r))
    /\ \A x \in Requests \union {Worker} : WF_vars(main # "stopped" /\ Release(x))
    /\ SF_vars(main # "stopped" /\ EndBatch)
    /\ WF_vars(main # "stopped" /\ WorkerReturns)

FairSpec == Spec /\ Fairness

-----------------------------------------------------------------------------
(* Properties.                                                             *)

\* When Handler.Shutdown has returned nil no background task runs any more,
\* although handlers that the server gave up on may still ask for one.
NoTaskAfterShutdown == background = "nil" => Running = {}

\* Resources are closed under nobody's feet: as long as run has no error to
\* report, handlers, tasks and worker have ended before the Closer starts.
CleanExitIsQuiet ==
    main \in {"closing", "stopped"} /\ ~runErr =>
       Active = {} /\ Running = {} /\ worker = "returned"

\* A signal or a failed server ends the process; the deadline is not needed
\* for it.
ShutdownEnds == (cancelled \/ server = "failed") ~> main = "stopped"

=============================================================================
