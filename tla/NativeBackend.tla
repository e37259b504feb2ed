---------------------------- MODULE NativeBackend ----------------------------
(***************************************************************************)
(* src/stdiobus/backends/native.py: the C library's bus in the process of  *)
(* the client, stepped from the event loop: on a descriptor, on a timer,   *)
(* soon after a send, and in the drain loop of stop().  A step calls the   *)
(* message handlers, and those may call send() and destroy(), inside it.   *)
(* start() and stop() have no await: only a handler gets in between.       *)
(*                                                                         *)
(* The library is external: a step hands over all the messages its workers *)
(* wrote, and is taken to survive a destroy() from within.                 *)
(***************************************************************************)
EXTENDS Integers

CONSTANTS
  MaxMessages,   \* how many messages the workers write
  MaxSoon,       \* how many sends may be waiting for their step
  MaxDrain       \* the longest budget of steps stop() may have

ASSUME BoundsAssumption ==
  MaxMessages \in Nat /\ MaxSoon \in Nat /\ MaxDrain \in Nat

VARIABLES
  ptr,        \* _bus: "none", "null" after a failed creation, "set"
  bus,        \* the state of the library's bus
  looped,     \* _loop is set
  stopping,   \* _stopping
  stepping,   \* _stepping
  reader,     \* the poll descriptor is registered with the loop
  timer,      \* the poll timer is scheduled
  soon,       \* steps scheduled with call_soon
  handlers,   \* _message_handlers is not cleared
  stack,      \* what the loop runs: nothing, a step (from the timer or not),
              \* stop() between two drain steps or in one
  budget,     \* drain steps left
  output,     \* messages written and not handed over yet
  written,    \* messages written
  handed      \* messages handed to the handlers

pollVars == <<reader, timer>>
flagVars == <<looped, stopping, stepping, handlers>>
msgVars == <<output, written, handed>>
vars == <<ptr, bus, pollVars, flagVars, soon, stack, budget, msgVars>>

Init ==
  /\ ptr = "none" /\ bus = "none"
  /\ looped = FALSE /\ stopping = FALSE /\ stepping = FALSE
  /\ reader = FALSE /\ timer = FALSE
  /\ soon = 0
  /\ handlers = TRUE
  /\ stack = "idle"
  /\ budget = 0
  /\ output = 0 /\ written = 0 /\ handed = 0

-----------------------------------------------------------------------------
\* start(): the library may fail to create the bus, which leaves a null
\* pointer, or to start it.  What polls it is up to the library.
Start ==
  /\ stack = "idle"
  /\ ptr = "none"
  /\ \/ ptr' = "null" /\ UNCHANGED <<bus, looped, stopping, pollVars, output>>
     \/ UNCHANGED <<ptr, bus, looped, stopping, pollVars, output>>
     \/ /\ ptr' = "set"
        /\ bus' = "running"
        /\ looped' = TRUE
        /\ stopping' = FALSE
        /\ reader' \in BOOLEAN
        /\ timer' = ~reader'
        /\ output' = 0
  /\ UNCHANGED <<stepping, handlers, soon, stack, budget, written, handed>>

\* Faulty variant: steps go on after stop().
MayStepStopping == ~stepping /\ ptr = "set"

\* The tests of _step_nonblocking.
MayStep == ~stepping /\ ~stopping /\ ptr = "set"

\* Faulty variants: the timer is set again whatever happened in the step, or
\* not at all.
TimerForSure == timer' = TRUE
TimerOnce == timer' = FALSE

\* _schedule_poll_timer
ScheduleTimer == timer' = (~stopping /\ looped)

TimerFires ==
  /\ stack = "idle"
  /\ timer
  /\ IF MayStep THEN stack' = "timerStep" /\ stepping' = TRUE /\ timer' = FALSE
                ELSE ScheduleTimer /\ UNCHANGED <<stack, stepping>>
  /\ UNCHANGED <<ptr, bus, looped, stopping, handlers, reader, soon, budget, msgVars>>

\* _step_nonblocking from the loop: the descriptor is readable, or after a send.
StepOrNot ==
  IF MayStep THEN stack' = "step" /\ stepping' = TRUE
             ELSE UNCHANGED <<stack, stepping>>

DescriptorReady ==
  /\ stack = "idle"
  /\ reader
  /\ output > 0
  /\ StepOrNot
  /\ UNCHANGED <<ptr, bus, looped, stopping, handlers, pollVars, soon, budget, msgVars>>

SoonRuns ==
  /\ stack = "idle"
  /\ soon > 0
  /\ soon' = soon - 1
  /\ StepOrNot
  /\ UNCHANGED <<ptr, bus, looped, stopping, handlers, pollVars, budget, msgVars>>

-----------------------------------------------------------------------------
\* send() from the loop's thread: the library takes the message or refuses.
SendCall ==
  /\ ptr = "set"
  /\ IF looped /\ ~stopping THEN soon < MaxSoon /\ soon' = soon + 1 ELSE UNCHANGED soon
  /\ UNCHANGED <<ptr, bus, pollVars, flagVars>>

\* destroy(): a null pointer stays what it is.
DestroyCall ==
  /\ IF ptr = "set" THEN ptr' = "none" /\ bus' = "freed" ELSE UNCHANGED <<ptr, bus>>
  /\ reader' = FALSE /\ timer' = FALSE
  /\ looped' = FALSE /\ stopping' = FALSE /\ stepping' = FALSE
  /\ handlers' = FALSE
  /\ UNCHANGED soon

Send == stack = "idle" /\ SendCall /\ UNCHANGED <<stack, budget, msgVars>>
Destroy == stack = "idle" /\ DestroyCall /\ UNCHANGED <<stack, budget, msgVars>>

Steps == {"step", "timerStep", "drainStep"}

\* The library calls on_message; the handlers do nothing to the bus, send, or
\* destroy it.
Hand ==
  /\ stack \in Steps
  /\ bus # "freed"
  /\ output > 0
  /\ output' = output - 1
  /\ IF handlers
       THEN /\ handed' = handed + 1
            /\ \/ UNCHANGED <<ptr, bus, pollVars, flagVars, soon>>
               \/ SendCall
               \/ DestroyCall
       ELSE UNCHANGED <<ptr, bus, pollVars, flagVars, soon, handed>>
  /\ UNCHANGED <<stack, budget, written>>

\* The step is over: nothing is left to hand over, or the bus is gone.
StepReturns ==
  /\ stack \in Steps
  /\ output = 0 \/ bus = "freed"
  /\ IF stack = "drainStep"
       THEN stack' = "drain" /\ UNCHANGED <<stepping, timer>>
       ELSE /\ stack' = "idle"
            /\ stepping' = FALSE
            /\ IF stack = "timerStep" THEN ScheduleTimer ELSE UNCHANGED timer
  /\ UNCHANGED <<ptr, bus, looped, stopping, handlers, reader, soon, budget, msgVars>>

-----------------------------------------------------------------------------
\* stop() up to its drain loop.
Stop ==
  /\ stack = "idle"
  /\ ptr = "set"
  /\ stopping' = TRUE
  /\ reader' = FALSE /\ timer' = FALSE
  /\ bus' = IF bus = "running" THEN "stopping" ELSE bus
  /\ budget' \in 0..MaxDrain
  /\ stack' = "drain"
  /\ UNCHANGED <<ptr, looped, stepping, handlers, soon, msgVars>>

DrainEnds ==
  /\ stack' = "idle"
  /\ UNCHANGED <<ptr, bus, pollVars, flagVars, soon, budget, msgVars>>

\* Faulty variants: the loop has no budget, or one round more than it.
DrainForever ==
  /\ stack = "drain"
  /\ IF ptr # "set" \/ bus = "stopped"
       THEN DrainEnds
       ELSE /\ stack' = "drainStep"
            /\ UNCHANGED <<ptr, bus, pollVars, flagVars, soon, budget, msgVars>>
DrainOneMore ==
  /\ stack = "drain"
  /\ IF ptr # "set" \/ bus = "stopped" \/ budget < 0
       THEN DrainEnds
       ELSE /\ stack' = "drainStep"
            /\ budget' = budget - 1
            /\ UNCHANGED <<ptr, bus, pollVars, flagVars, soon, msgVars>>

\* One round of the drain loop.  Without a bus, after a handler's destroy(),
\* the library call raises TypeError and stop() is over too.
Drain ==
  /\ stack = "drain"
  /\ IF ptr # "set" \/ bus = "stopped" \/ budget = 0
       THEN DrainEnds
       ELSE /\ stack' = "drainStep"
            /\ budget' = budget - 1
            /\ UNCHANGED <<ptr, bus, pollVars, flagVars, soon, msgVars>>

-----------------------------------------------------------------------------
(* The library and its workers.                                            *)

WorkersWrite ==
  /\ bus \in {"running", "stopping"}
  /\ stack \in {"idle", "drain"}
  /\ written < MaxMessages
  /\ written' = written + 1
  /\ output' = output + 1
  /\ UNCHANGED <<ptr, bus, pollVars, flagVars, soon, stack, budget, handed>>

\* The last worker is gone: the library notices in a step.
BusStops ==
  /\ stack = "drainStep"
  /\ bus = "stopping"
  /\ bus' = "stopped"
  /\ UNCHANGED <<ptr, pollVars, flagVars, soon, stack, budget, msgVars>>

-----------------------------------------------------------------------------
Next ==
  \/ Start \/ Send \/ Destroy \/ Stop
  \/ TimerFires \/ DescriptorReady \/ SoonRuns
  \/ Hand \/ StepReturns \/ Drain
  \/ WorkersWrite \/ BusStops

Spec == Init /\ [][Next]_vars

\* The loop calls its callbacks, and what runs on it goes on.
FairSpec ==
  /\ Spec
  /\ WF_vars(TimerFires) /\ WF_vars(DescriptorReady)
  /\ WF_vars(Hand \/ StepReturns) /\ WF_vars(Drain)

-----------------------------------------------------------------------------
(* Properties.                                                             *)

\* The drain loop never makes more steps than the timeout of stop() allows, and
\* no message is handed over that was not written, or twice.
TypeOK ==
  /\ ptr \in {"none", "null", "set"}
  /\ bus \in {"none", "running", "stopping", "stopped", "freed"}
  /\ {looped, stopping, stepping, reader, timer, handlers} \subseteq BOOLEAN
  /\ soon \in 0..MaxSoon
  /\ stack \in Steps \cup {"idle", "drain"}
  /\ budget \in 0..MaxDrain
  /\ output \in 0..MaxMessages
  /\ written \in 0..MaxMessages
  /\ handed \in 0..written

\* The loop polls the bus, by exactly one of descriptor and timer (or is in
\* the step that sets the timer again), while there is a bus that stop() was
\* not called for, and never else: no callback outlives its bus.
PolledWhileRunning ==
  /\ ~(reader /\ timer)
  /\ reader \/ timer => ptr = "set" /\ ~stopping
  /\ ptr = "set" /\ ~stopping => reader \/ timer \/ stack = "timerStep"

\* No message reaches the client after stop() returned, though steps that
\* sends scheduled are still in the loop.
QuietAfterStop == [][handed' # handed => ~stopping \/ stack = "drainStep"]_vars

\* What the workers write is handed over, as long as the bus runs.
OutputIsHandedOver ==
  output > 0 /\ ptr = "set" /\ ~stopping ~> output = 0 \/ ptr # "set" \/ stopping

\* stop() ends, whatever the library does and the handlers call.
StopReturns == stack \in {"drain", "drainStep"} ~> stack = "idle"
=============================================================================
