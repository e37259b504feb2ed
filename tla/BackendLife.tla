------------------------------ MODULE BackendLife ------------------------------
(***************************************************************************)
(* The life of a bus with a process behind it, as far as the calls in      *)
(* flight depend on it: what AsyncStdioBus reads of its backend's state,   *)
(* whether a message can be sent, and whether one can still arrive.        *)
(* Client composes its calls with it; SubprocessBackend is shown to        *)
(* implement it.                                                           *)
(***************************************************************************)
VARIABLES
  backend,   \* the backend's BusState, "NONE" once destroy() dropped it
  starting,  \* a start() is suspended in its grace period
  stopping,  \* a stop() is suspended, waiting for the process to exit
  stdin,     \* the pipe to the process
  reading    \* the read loop runs

lifeVars == <<backend, starting, stopping, stdin, reading>>

BusStates == {"CREATED", "STARTING", "RUNNING", "STOPPING", "STOPPED", "NONE"}

Init ==
  /\ backend = "CREATED"
  /\ starting = FALSE
  /\ stopping = FALSE
  /\ stdin = "open"
  /\ reading = FALSE

\* start() up to its grace period, or to the error of the spawn.
Start ==
  /\ backend = "CREATED"
  /\ \/ backend' = "STARTING" /\ starting' = TRUE
     \/ backend' = "STOPPED" /\ UNCHANGED starting
  /\ UNCHANGED <<stopping, stdin, reading>>

\* The grace period is over.  start() does not look at the state again, so a
\* stop() that has not finished yet is overwritten; once stop() reaped the
\* process, its exit code makes start() raise.
StartReturns ==
  /\ starting
  /\ starting' = FALSE
  /\ \/ /\ backend # "NONE"
        /\ stdin = "open" \/ stopping
        /\ backend' = "RUNNING"
        /\ reading' = TRUE
     \/ /\ stdin = "closed"
        /\ backend' = IF backend = "NONE" THEN "NONE" ELSE "STOPPED"
        /\ UNCHANGED reading
  /\ UNCHANGED <<stopping, stdin>>

\* stop() up to its wait for the process.
Stop ==
  /\ backend \in {"RUNNING", "STARTING"}
  /\ backend' = "STOPPING"
  /\ stdin' = "closed"
  /\ stopping' = TRUE
  /\ UNCHANGED <<starting, reading>>

\* The process exited or was killed: stop() ends.
StopReturns ==
  /\ stopping
  /\ stopping' = FALSE
  /\ reading' = FALSE
  /\ backend' = IF backend = "NONE" THEN "NONE" ELSE "STOPPED"
  /\ UNCHANGED <<starting, stdin>>

\* destroy() kills the process and clears the handlers.
Destroy ==
  /\ backend # "NONE"
  /\ backend' = "NONE"
  /\ stdin' = "closed"
  /\ reading' = FALSE
  /\ UNCHANGED <<starting, stopping>>

\* The read loop meets end of file or an error: a crash while RUNNING.
ReadLoopEnds ==
  /\ reading
  /\ reading' = FALSE
  /\ backend' = IF backend = "RUNNING" THEN "STOPPED" ELSE backend
  /\ UNCHANGED <<starting, stopping, stdin>>

Next == Start \/ StartReturns \/ Stop \/ StopReturns \/ Destroy \/ ReadLoopEnds

Spec == Init /\ [][Next]_lifeVars

\* A message may be handed over.  While stop() waits the read loop may still
\* hand over a line it was already waiting for.
Hears == reading /\ backend \in {"RUNNING", "STOPPING"}
=============================================================================
