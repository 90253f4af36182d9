--------------------------- MODULE LifecycleProofs ---------------------------
(***************************************************************************)
(* How the monolith stops, for every number of requests: the inductive     *)
(* invariant follows run through its stages and says at each of them which *)
(* goroutines are known to have ended, as long as there is no error.       *)
(***************************************************************************)
EXTENDS Lifecycle, TLAPS

-----------------------------------------------------------------------------
(* The inductive invariant.                                                *)

Stages == {"serving", "shutdown", "draining", "handler", "background", "worker",
           "closing", "stopped"}

\* The stages after a stage of run.
AfterListening  == {"draining", "handler", "background", "worker", "closing", "stopped"}
AfterDraining   == AfterListening \ {"draining"}
AfterBackground == {"worker", "closing", "stopped"}

ShapeOK ==
    /\ main \in Stages
    /\ request \in [Requests -> {"none", "active", "done"}]
    /\ task \in [Requests -> {"none", "running", "refused", "done"}]
    /\ background \in {"none", "nil", "error"}
    /\ runErr \in BOOLEAN

\* The server takes no request any more, so none is active once it has drained.
ServerOK ==
    /\ main \in AfterListening => server # "listening"
    /\ main \in AfterDraining /\ ~runErr => Active = {}

\* Handler.Shutdown returns what it found after it had closed the door.
BackgroundOK ==
    /\ main \in AfterBackground \union {"background"} => backgroundClosed
    /\ background # "none" => main \in AfterBackground
    /\ background = "nil" => Running = {}
    /\ main \in AfterBackground /\ ~runErr => background = "nil"

WorkerOK == main \in {"closing", "stopped"} /\ ~runErr => worker = "returned"

IInv == ShapeOK /\ ServerOK /\ BackgroundOK /\ WorkerOK

-----------------------------------------------------------------------------
(* The steps, by the goroutine that takes them.                            *)

LEMMA InitIInv == Init => IInv
BY DEF Init, IInv, ShapeOK, ServerOK, BackgroundOK, WorkerOK, Stages, AfterListening,
       AfterDraining, AfterBackground, Running

\* A handler starts no task once Handler.Shutdown has closed the door, and no
\* handler starts once the server is closed.
LEMMA HandleKeeps ==
    ASSUME IInv, NEW r \in Requests, Handle(r)
    PROVE  IInv'
<1> USE DEF mainVars, handlerVars, shutdownVars, closeVars
<1>0. ShapeOK /\ ServerOK /\ BackgroundOK /\ WorkerOK
  BY DEF IInv
<1>1. /\ UNCHANGED <<main, runErr, server, backgroundClosed, background, worker>>
      /\ ShapeOK'
  BY <1>0 DEF Handle, Arrive, RunInBackground, TaskEnds, Respond, ShapeOK
<1>2. Active' \subseteq Active \/ server = "listening"
  BY <1>0 DEF Handle, Arrive, RunInBackground, TaskEnds, Respond, ShapeOK, Active
<1>3. Running' \subseteq Running \/ ~backgroundClosed
  BY <1>0 DEF Handle, Arrive, RunInBackground, TaskEnds, Respond, ShapeOK, Running
<1>4. ServerOK'
  BY <1>0, <1>1, <1>2 DEF ServerOK, AfterDraining
<1>5. BackgroundOK'
  BY <1>0, <1>1, <1>3 DEF BackgroundOK
<1>6. WorkerOK'
  BY <1>0, <1>1 DEF WorkerOK
<1> QED
  BY <1>1, <1>4, <1>5, <1>6 DEF IInv

\* A worker that has returned does not start again.
LEMMA WorldKeeps ==
    ASSUME IInv,
           \/ \E x \in Requests \union {Worker} : Acquire(x) \/ Release(x)
           \/ BeginBatch \/ EndBatch \/ WorkerReturns
           \/ Signal \/ ServerFails \/ Deadline
    PROVE  IInv'
<1>0. ShapeOK /\ ServerOK /\ BackgroundOK /\ WorkerOK
  BY DEF IInv
<1>1. /\ UNCHANGED <<main, request, task, backgroundClosed, background, runErr>>
      /\ server' = server \/ server' = "failed"
      /\ worker = "returned" => worker' = "returned"
  BY DEF mainVars, handlerVars, shutdownVars, closeVars, Acquire, Release, BeginBatch, EndBatch,
         WorkerReturns, WorkerSet, Signal, ServerFails, Deadline
<1> QED
  BY <1>0, <1>1 DEF IInv, ShapeOK, ServerOK, BackgroundOK, WorkerOK, Active, Running

\* run goes from stage to stage: it waits, or reports an error.
LEMMA MainKeeps ==
    ASSUME IInv, Main
    PROVE  IInv'
<1> USE DEF Move, mainVars, handlerVars, shutdownVars, closeVars, IInv, ShapeOK, ServerOK,
            BackgroundOK, WorkerOK, Stages, AfterListening, AfterDraining, AfterBackground,
            Active, Running
<1>1. CASE Wake
  BY <1>1 DEF Wake
<1>2. CASE StopListening
  BY <1>2 DEF StopListening
<1>3. CASE Drained
  BY <1>3 DEF Drained
<1>4. CASE DrainTimesOut
  BY <1>4 DEF DrainTimesOut
<1>5. CASE CloseBackground
  BY <1>5 DEF CloseBackground
<1>6. CASE BackgroundDone
  BY <1>6 DEF BackgroundDone
<1>7. CASE BackgroundTimesOut
  BY <1>7 DEF BackgroundTimesOut
<1>8. CASE WorkerDone
  BY <1>8 DEF WorkerDone
<1>9. CASE WorkerTimesOut
  BY <1>9 DEF WorkerTimesOut
<1>10. CASE CloseRedis
  <2>1. runErr' \in BOOLEAN /\ (~runErr' => ~runErr)
    <3>1. runErr' = runErr \/ runErr' = TRUE
      BY <1>10 DEF CloseRedis
    <3>2. runErr \in BOOLEAN
      OBVIOUS
    <3>3. CASE runErr' = runErr
      BY <3>2, <3>3
    <3>4. CASE runErr' = TRUE
      BY <3>4
    <3> QED
      BY <3>1, <3>3, <3>4
  <2>2. UNCHANGED <<main, server, request, task, backgroundClosed, background, worker>>
    BY <1>10 DEF CloseRedis
  <2> QED
    BY <2>1, <2>2
<1>11. CASE ClosePool
  BY <1>11 DEF ClosePool
<1>12. CASE Return
  BY <1>12 DEF Return
<1> QED
  BY <1>1, <1>2, <1>3, <1>4, <1>5, <1>6, <1>7, <1>8, <1>9, <1>10, <1>11, <1>12 DEF Main

LEMMA IInvInductive == IInv /\ [Next]_vars => IInv'
<1> SUFFICES ASSUME IInv, [Next]_vars PROVE IInv'
  OBVIOUS
<1>1. CASE UNCHANGED vars
  BY <1>1 DEF vars, mainVars, handlerVars, shutdownVars, IInv, ShapeOK, ServerOK, BackgroundOK,
              WorkerOK, Active, Running
<1> QED
  BY <1>1, HandleKeeps, WorldKeeps, MainKeeps DEF Next

LEMMA InvariantHolds == Spec => []IInv
<1> QED
  BY InitIInv, IInvInductive, PTL DEF Spec

-----------------------------------------------------------------------------
(* The theorems.                                                           *)

\* Handler.Shutdown and runInBackground share a mutex: what Shutdown counted as
\* ended stays the last, whatever handlers outlive the server.
THEOREM NoTaskAfterShutdownTheorem == Spec => []NoTaskAfterShutdown
<1>1. IInv => NoTaskAfterShutdown
  BY DEF IInv, BackgroundOK, NoTaskAfterShutdown
<1> QED
  BY <1>1, InvariantHolds, PTL

\* When run has no error to return, the Closer closes Redis and the pool after
\* the last handler, the last background task and the worker have ended.
THEOREM CleanExitIsQuietTheorem == Spec => []CleanExitIsQuiet
<1>1. IInv => CleanExitIsQuiet
  BY DEF IInv, ServerOK, BackgroundOK, WorkerOK, CleanExitIsQuiet, AfterListening,
         AfterDraining, AfterBackground
<1> QED
  BY <1>1, InvariantHolds, PTL

=============================================================================
