------------------------ MODULE NativeBackend_proofs ------------------------
(* Theorems about module NativeBackend and their proofs. *)
EXTENDS NativeBackend, TLAPS

\* What the loop polls, what it runs and what the backend holds agree: a loop
\* is kept exactly as long as the bus is, a step of the loop is never one of a
\* stopping bus, and the step of the timer runs with nothing else registered.
PollInv ==
  /\ reader \in BOOLEAN /\ timer \in BOOLEAN /\ stopping \in BOOLEAN /\ looped \in BOOLEAN
  /\ PolledWhileRunning
  /\ looped <=> ptr = "set"
  /\ stack \in {"step", "timerStep"} => ~stopping
  /\ stack = "timerStep" => ~reader /\ ~timer
  /\ ptr = "none" => stopping = FALSE

\* A call from a handler or from the loop keeps it, whatever is running.
LEMMA CallsKeepPolling ==
  ASSUME PollInv, SendCall \/ DestroyCall, UNCHANGED stack PROVE PollInv'
<1> USE DEF PollInv, PolledWhileRunning
<1>1. CASE SendCall
  BY <1>1 DEF SendCall, pollVars, flagVars
<1>2. CASE DestroyCall
  BY <1>2 DEF DestroyCall
<1> QED BY <1>1, <1>2

\* Every step of the loop, of the callers and of the library keeps it.
LEMMA PollStep == PollInv /\ [Next]_vars => PollInv'
<1> SUFFICES ASSUME PollInv, [Next]_vars PROVE PollInv'
  OBVIOUS
<1> USE DEF PollInv, PolledWhileRunning, pollVars, flagVars, Steps
<1>1. CASE Start
  <2>1. CASE ptr' = "set" /\ reader' /\ ~timer'
    BY <1>1, <2>1 DEF Start
  <2>2. CASE ptr' = "set" /\ ~reader' /\ timer'
    BY <1>1, <2>2 DEF Start
  <2>3. CASE ptr' # "set"
    BY <1>1, <2>3 DEF Start
  <2>4. ptr' = "set" => (reader' /\ ~timer') \/ (~reader' /\ timer')
    BY <1>1 DEF Start
  <2> QED BY <2>1, <2>2, <2>3, <2>4
<1>2. CASE Send \/ Destroy
  BY <1>2, CallsKeepPolling DEF Send, Destroy
<1>3. CASE Stop
  BY <1>3 DEF Stop
<1>4. CASE TimerFires
  BY <1>4 DEF TimerFires, MayStep, ScheduleTimer
<1>5. CASE DescriptorReady \/ SoonRuns
  BY <1>5 DEF DescriptorReady, SoonRuns, StepOrNot, MayStep
<1>6. CASE Hand
  <2>1. CASE SendCall \/ DestroyCall
    BY <1>6, <2>1, CallsKeepPolling DEF Hand
  <2>2. CASE UNCHANGED <<ptr, bus, pollVars, flagVars, soon>>
    BY <1>6, <2>2 DEF Hand
  <2> QED BY <1>6, <2>1, <2>2 DEF Hand
<1>7. CASE StepReturns
  BY <1>7 DEF StepReturns, ScheduleTimer
<1>8. CASE Drain
  BY <1>8 DEF Drain, DrainEnds
<1>9. CASE WorkersWrite \/ BusStops
  BY <1>9 DEF WorkersWrite, BusStops
<1>10. CASE UNCHANGED vars
  BY <1>10 DEF vars
<1> QED
  BY <1>1, <1>2, <1>3, <1>4, <1>5, <1>6, <1>7, <1>8, <1>9, <1>10 DEF Next

LEMMA PollAlways == Spec => []PollInv
<1>1. Init => PollInv
  BY DEF Init, PollInv, PolledWhileRunning
<1> QED BY <1>1, PollStep, PTL DEF Spec

\* A bus that runs is polled by exactly one of descriptor and timer, and no
\* callback of the loop outlives the bus or its stop().
THEOREM PolledAlways == Spec => []PolledWhileRunning
<1>1. PollInv => PolledWhileRunning
  BY DEF PollInv
<1> QED BY <1>1, PollAlways, PTL

\* After stop() no message reaches the handlers, whatever steps are still
\* scheduled.
THEOREM QuietAlways == Spec => QuietAfterStop
<1>1. PollInv /\ [Next]_vars
        => [handed' # handed => ~stopping \/ stack = "drainStep"]_vars
  <2> SUFFICES ASSUME PollInv, Next, handed' # handed
               PROVE ~stopping \/ stack = "drainStep"
    OBVIOUS
  <2>1. CASE Hand
    BY <2>1 DEF Hand, PollInv, Steps
  <2>2. CASE ~Hand
    BY <2>2 DEF Next, Start, Send, Destroy, Stop, TimerFires, DescriptorReady,
      SoonRuns, StepReturns, Drain, DrainEnds, WorkersWrite, BusStops, msgVars
  <2> QED BY <2>1, <2>2
<1> QED BY <1>1, PollAlways, PTL DEF Spec, QuietAfterStop

-----------------------------------------------------------------------------
\* Every message written is handed over once at most: those the bus holds and
\* those handed are among those written, also across a new start(), which
\* loses what the old bus held.
CountInv == TypeOK /\ output + handed <= written

\* A call from a handler or from the loop keeps the types of what it touches.
LEMMA CallsKeepTypes ==
  ASSUME BoundsAssumption, CountInv, SendCall \/ DestroyCall, UNCHANGED <<stack, budget>>,
         output' \in 0..MaxMessages, written' \in 0..MaxMessages, handed' \in 0..written',
         output' + handed' <= written'
  PROVE  CountInv'
<1>1. ptr' \in {"none", "null", "set"} /\ bus' \in {"none", "running", "stopping", "stopped", "freed"}
  BY DEF SendCall, DestroyCall, CountInv, TypeOK
<1>2. {looped', stopping', stepping', reader', timer', handlers'} \subseteq BOOLEAN
  BY DEF SendCall, DestroyCall, CountInv, TypeOK, pollVars, flagVars
<1>3. soon' \in 0..MaxSoon
  BY DEF SendCall, DestroyCall, CountInv, TypeOK, BoundsAssumption
<1> QED BY <1>1, <1>2, <1>3 DEF CountInv, TypeOK

\* Every step keeps the types and the count.
LEMMA CountStep == BoundsAssumption /\ CountInv /\ [Next]_vars => CountInv'
<1> SUFFICES ASSUME BoundsAssumption, CountInv, [Next]_vars PROVE CountInv'
  OBVIOUS
<1> USE DEF CountInv, TypeOK, pollVars, flagVars, msgVars, Steps
<1>1. CASE Start
  <2>1. output' + handed' <= written' /\ output' \in 0..MaxMessages
    BY <1>1 DEF Start, BoundsAssumption
  <2> QED BY <1>1, <2>1 DEF Start
<1>2. CASE Send \/ Destroy
  BY <1>2, CallsKeepTypes DEF Send, Destroy
<1>3. CASE Stop
  BY <1>3 DEF Stop
<1>4. CASE TimerFires
  BY <1>4 DEF TimerFires, ScheduleTimer
<1>5. CASE DescriptorReady
  BY <1>5 DEF DescriptorReady, StepOrNot
<1>6. CASE SoonRuns
  <2>1. soon' \in 0..MaxSoon
    <3>1. soon > 0 /\ soon' = soon - 1
      BY <1>6 DEF SoonRuns
    <3> QED BY <3>1 DEF BoundsAssumption
  <2> QED BY <1>6, <2>1 DEF SoonRuns, StepOrNot
<1>7. CASE Hand
  <2>1. /\ output' \in 0..MaxMessages /\ written' = written /\ handed' \in 0..written
        /\ output' + handed' <= written
    <3>1. output > 0 /\ output' = output - 1 /\ written' = written
          /\ (handed' = handed \/ handed' = handed + 1)
      BY <1>7 DEF Hand
    <3> QED BY <3>1 DEF BoundsAssumption
  <2>2. CASE SendCall \/ DestroyCall
    BY <1>7, <2>1, <2>2, CallsKeepTypes DEF Hand
  <2>3. CASE UNCHANGED <<ptr, bus, pollVars, flagVars, soon>>
    BY <1>7, <2>1, <2>3 DEF Hand
  <2> QED BY <1>7, <2>2, <2>3 DEF Hand
<1>8. CASE StepReturns
  BY <1>8 DEF StepReturns, ScheduleTimer
<1>9. CASE Drain
  BY <1>9 DEF Drain, DrainEnds, BoundsAssumption
<1>10. CASE WorkersWrite
  BY <1>10 DEF WorkersWrite, BoundsAssumption
<1>11. CASE BusStops
  BY <1>11 DEF BusStops
<1>12. CASE UNCHANGED vars
  BY <1>12 DEF vars
<1> QED
  BY <1>1, <1>2, <1>3, <1>4, <1>5, <1>6, <1>7, <1>8, <1>9, <1>10, <1>11, <1>12 DEF Next

\* The types of the native backend, and with them that the drain loop keeps to
\* its budget and that no more is handed to the handlers than was written.
THEOREM NativeTypeCorrect == Spec => []TypeOK
<1>1. BoundsAssumption /\ Init => CountInv
  <2>1. BoundsAssumption => 0 \in 0..MaxMessages /\ 0 \in 0..MaxSoon /\ 0 \in 0..MaxDrain
    BY DEF BoundsAssumption
  <2>2. 0 \in 0..0 /\ 0 + 0 <= 0
    OBVIOUS
  <2> QED BY <2>1, <2>2 DEF Init, CountInv, TypeOK
<1>2. CountInv => TypeOK
  BY DEF CountInv
<1> QED BY <1>1, <1>2, CountStep, BoundsAssumption, PTL DEF Spec
=============================================================================
