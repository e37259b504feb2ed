---------------------- MODULE SubprocessBackend_proofs ----------------------
(* Theorems about module SubprocessBackend and their proofs. *)
EXTENDS SubprocessBackend, TLAPS

\* A running process is known to its backend and registered for the exit of
\* the interpreter, and, unless the read loop failed or the program is over, the
\* backend does not report STOPPED.  It is inductive with what start() and
\* stop() rely on: a return code is one of a process that exited, and a process
\* is spawned once.
ProcessInv ==
  /\ proc = "running" => /\ handle
                         /\ gone \/ registered
                         /\ state # "CREATED"
                         /\ reader # "failed" /\ ~leaving => state # "STOPPED"
  /\ gone => proc # "running"
  /\ reaped => proc = "exited"
  /\ state = "CREATED" => proc = "none"
  /\ proc \in {"none", "running", "exited"}

\* Every step of the backend, of the process and of the interpreter keeps it.
LEMMA ProcessStep == ProcessInv /\ [Next]_vars => ProcessInv'
<1> SUFFICES ASSUME ProcessInv, [Next]_vars PROVE ProcessInv'
  OBVIOUS
<1> USE DEF ProcessInv, lifeVars, coVars, readVars, errVars, osVars, exitVars
<1>1. CASE ~gone /\ ~leaving /\ (Start \/ StartChecks \/ CancelStart)
  BY <1>1 DEF Start, StartChecks, CancelStart
<1>2. CASE ReaderTests \/ ReaderReads \/ ReaderMeetsEnd
  BY <1>2 DEF ReaderTests, ReaderReads, ReaderMeetsEnd, ReaderEnds, ReaderKeeps
<1>3. CASE ReaderFails
  BY <1>3 DEF ReaderFails, ReaderEnds, ReaderKeeps
<1>4. CASE ErrLoop \/ ThreadReturns
  BY <1>4 DEF ErrLoop, ErrTests, ErrReads, ThreadReturns
<1>5. CASE Stop \/ DrainTimesOut \/ CancelStop
  BY <1>5 DEF Stop, DrainTimesOut, CancelStop
<1>6. CASE StopResumes \/ TermTimesOut
  BY <1>6 DEF StopResumes, TermTimesOut, StopEnds
<1>7. CASE Destroy \/ AtExit
  BY <1>7 DEF Destroy, AtExit, ForceKill
<1>8. CASE Leave
  BY <1>8 DEF Leave, CancelAll, ReaderEnds
<1>9. CASE ProcessWrites \/ ProcessExits \/ Reap
  BY <1>9 DEF ProcessWrites, ProcessExits, Reap
<1>10. CASE UNCHANGED vars
  BY <1>10 DEF vars
<1> QED BY <1>1, <1>2, <1>3, <1>4, <1>5, <1>6, <1>7, <1>8, <1>9, <1>10 DEF Next, LoopStep, ReadLoop

LEMMA ProcessAlways == Spec => []ProcessInv
<1>1. Init => ProcessInv
  BY DEF Init, ProcessInv
<1> QED BY <1>1, ProcessStep, PTL DEF Spec

\* No bus process outlives the interpreter, whatever was started, stopped,
\* cancelled or destroyed before.
THEOREM NoOrphanEver == Spec => []NoOrphan
<1>1. ProcessInv => NoOrphan
  BY DEF ProcessInv, NoOrphan
<1> QED BY <1>1, ProcessAlways, PTL

\* A backend that reports STOPPED has no process running behind it, unless a
\* line of the process broke the read loop or the program is over.
THEOREM StoppedIsTrue == Spec => []StoppedMeansExited
<1>1. ProcessInv => StoppedMeansExited
  BY DEF ProcessInv, StoppedMeansExited
<1> QED BY <1>1, ProcessAlways, PTL

-----------------------------------------------------------------------------
(* The backend implements BackendLife.                                     *)

\* What makes the end of start() safe, and the read loop quiet.  start() fails
\* where its process is gone for good, by destroy() or reaped by a stop(), and
\* only there; and a read loop that hears serves a backend that runs or stops.
LifeInv ==
  /\ handlers \in BOOLEAN /\ notices \in Nat
  /\ state \in {"CREATED", "STARTING", "RUNNING", "STOPPING", "STOPPED"}
  /\ stdin \in {"none", "open", "closed"}
  /\ ~handlers => state = "STOPPED" /\ ~handle
  /\ startPc = "grace" => reader = "none" /\ (handle \/ ~handlers)
  /\ startPc = "grace" /\ stopPc = "over" => reaped
  /\ reaped => stopPc # "none"
  /\ stopPc # "none" => stdin = "closed"
  /\ stdin = "closed" /\ handlers => stopPc # "none"
  /\ state = "CREATED" => startPc = "none" /\ stopPc = "none" /\ reader = "none"
  /\ handlers /\ reader \in {"test", "readline"} => state \in {"RUNNING", "STOPPING"}
  /\ startPc \in {"none", "grace", "cancelled", "over"}
  /\ stopPc \in {"none", "drain", "term", "cancelled", "over"}

LEMMA LifeStep == LifeInv /\ [Next]_vars => LifeInv'
<1> SUFFICES ASSUME LifeInv, [Next]_vars PROVE LifeInv'
  OBVIOUS
<1> USE DEF LifeInv, lifeVars, coVars, readVars, errVars, osVars, exitVars
<1>1. CASE Start \/ StartChecks \/ CancelStart
  BY <1>1 DEF Start, StartChecks, CancelStart
<1>2. CASE ReadLoop
  BY <1>2 DEF ReadLoop, ReaderTests, ReaderReads, ReaderMeetsEnd, ReaderFails, ReaderEnds, ReaderKeeps
<1>3. CASE ErrLoop \/ ThreadReturns
  BY <1>3 DEF ErrLoop, ErrTests, ErrReads, ThreadReturns
<1>4. CASE Stop \/ DrainTimesOut \/ CancelStop
  BY <1>4 DEF Stop, DrainTimesOut, CancelStop
<1>5. CASE StopResumes \/ TermTimesOut
  BY <1>5 DEF StopResumes, TermTimesOut, StopEnds
<1>6. CASE Destroy
  BY <1>6 DEF Destroy
<1>7. CASE AtExit
  BY <1>7 DEF AtExit
<1>8. CASE Leave
  BY <1>8 DEF Leave, CancelAll, ReaderEnds
<1>9. CASE ProcessWrites \/ ProcessExits \/ Reap
  BY <1>9 DEF ProcessWrites, ProcessExits, Reap
<1>10. CASE UNCHANGED vars
  BY <1>10 DEF vars
<1> QED BY <1>1, <1>2, <1>3, <1>4, <1>5, <1>6, <1>7, <1>8, <1>9, <1>10 DEF Next, LoopStep

LEMMA LifeAlways == Spec => []LifeInv
<1>1. Init => LifeInv
  BY DEF Init, LifeInv
<1> QED BY <1>1, LifeStep, PTL DEF Spec

\* Each step is one of BackendLife or leaves what it speaks of alone.
LEMMA StepIsLife == LifeInv /\ LifeInv' /\ [Next]_vars => [Life!Next]_(Life!lifeVars)
<1> SUFFICES ASSUME LifeInv, LifeInv', [Next]_vars PROVE [Life!Next]_(Life!lifeVars)
  OBVIOUS
<1> USE DEF LifeInv, lifeVars, coVars, readVars, errVars, osVars, exitVars, Life!Next, Life!lifeVars, Reads
<1>1. CASE Start
  BY <1>1 DEF Start, Life!Start
<1>2. CASE StartChecks
  BY <1>2 DEF StartChecks, Life!StartReturns
<1>3. CASE CancelStart \/ DrainTimesOut \/ CancelStop
  BY <1>3 DEF CancelStart, DrainTimesOut, CancelStop
<1>4. CASE ReaderTests
  BY <1>4 DEF ReaderTests, ReaderEnds, ReaderKeeps, Life!ReadLoopEnds
<1>5. CASE ReaderReads
  BY <1>5 DEF ReaderReads, ReaderKeeps
<1>6. CASE ReaderFails \/ ReaderMeetsEnd
  BY <1>6 DEF ReaderFails, ReaderMeetsEnd, ReaderEnds, ReaderKeeps, Life!ReadLoopEnds
<1>7. CASE ErrLoop \/ ThreadReturns
  BY <1>7 DEF ErrLoop, ErrTests, ErrReads, ThreadReturns
<1>8. CASE Stop
  BY <1>8 DEF Stop, Life!Stop
<1>9. CASE StopResumes \/ TermTimesOut
  BY <1>9 DEF StopResumes, TermTimesOut, StopEnds, Life!StopReturns
<1>10. CASE Destroy
  BY <1>10 DEF Destroy, Life!Destroy
<1>11. CASE Leave
  BY <1>11 DEF Leave, CancelAll, ReaderEnds, Life!ReadLoopEnds
<1>12. CASE AtExit \/ ProcessWrites \/ ProcessExits \/ Reap
  BY <1>12 DEF AtExit, ProcessWrites, ProcessExits, Reap
<1>13. CASE UNCHANGED vars
  BY <1>13 DEF vars
<1> QED BY <1>1, <1>2, <1>3, <1>4, <1>5, <1>6, <1>7, <1>8, <1>9, <1>10, <1>11, <1>12, <1>13
      DEF Next, LoopStep, ReadLoop

\* A line is handed over by the read loop alone.
LEMMA StepHears == LifeInv /\ [Next]_vars => [heard' # heard => Life!Hears]_vars
<1> SUFFICES ASSUME LifeInv, Next, heard' # heard PROVE Life!Hears
  OBVIOUS
<1> USE DEF LifeInv, lifeVars, coVars, readVars, errVars, osVars, exitVars
<1>1. CASE ReaderReads
  BY <1>1 DEF ReaderReads, ReaderKeeps, Life!Hears, Reads
<1>2. CASE ReaderTests \/ ReaderFails \/ ReaderMeetsEnd
  BY <1>2 DEF ReaderTests, ReaderFails, ReaderMeetsEnd
<1>3. CASE Start \/ StartChecks \/ CancelStart \/ Stop \/ DrainTimesOut \/ CancelStop \/ Destroy
  BY <1>3 DEF Start, StartChecks, CancelStart, Stop, DrainTimesOut, CancelStop, Destroy
<1>4. CASE StopResumes \/ TermTimesOut \/ ErrLoop \/ ThreadReturns
  BY <1>4 DEF StopResumes, TermTimesOut, StopEnds, ErrLoop, ErrTests, ErrReads, ThreadReturns
<1>5. CASE Leave \/ AtExit \/ ProcessWrites \/ ProcessExits \/ Reap
  BY <1>5 DEF Leave, CancelAll, AtExit, ProcessWrites, ProcessExits, Reap
<1> QED BY <1>1, <1>2, <1>3, <1>4, <1>5 DEF Next, LoopStep, ReadLoop

\* The callback is called where the read loop ends, and nowhere else.
LEMMA StepTells ==
  LifeInv /\ [Next]_vars =>
    [notices' # notices <=> state = "RUNNING" /\ Reads /\ ~Reads']_vars
<1> SUFFICES ASSUME LifeInv, Next
             PROVE  notices' # notices <=> state = "RUNNING" /\ Reads /\ ~Reads'
  OBVIOUS
<1> USE DEF LifeInv, Reads, lifeVars, coVars, readVars, errVars, osVars, exitVars
<1>1. CASE ReadLoop
  BY <1>1 DEF ReadLoop, ReaderTests, ReaderReads, ReaderFails, ReaderMeetsEnd, ReaderEnds, ReaderKeeps
<1>2. CASE Start \/ StartChecks \/ CancelStart \/ Stop \/ DrainTimesOut \/ CancelStop \/ Destroy
  BY <1>2 DEF Start, StartChecks, CancelStart, Stop, DrainTimesOut, CancelStop, Destroy
<1>3. CASE StopResumes \/ TermTimesOut
  BY <1>3 DEF StopResumes, TermTimesOut, StopEnds
<1>4. CASE Leave
  BY <1>4 DEF Leave, CancelAll, ReaderEnds
<1>5. CASE ErrLoop \/ ThreadReturns
  BY <1>5 DEF ErrLoop, ErrTests, ErrReads, ThreadReturns
<1>6. CASE AtExit \/ ProcessWrites \/ ProcessExits \/ Reap
  BY <1>6 DEF AtExit, ProcessWrites, ProcessExits, Reap
<1> QED BY <1>1, <1>2, <1>3, <1>4, <1>5, <1>6 DEF Next, LoopStep

\* The subprocess backend is what the client's model takes its backend to be:
\* whatever is started, stopped, cancelled, destroyed or crashes in any order,
\* its life is one of BackendLife, and a line reaches the client only where
\* that says one can.
THEOREM SubprocessImplementsLife == Spec => ImplementsContract
<1>1. Init => Life!Init
  BY DEF Init, Life!Init, Reads
<1>2. Spec => Life!Init /\ [][Life!Next]_(Life!lifeVars)
  BY <1>1, LifeAlways, StepIsLife, PTL DEF Spec
<1>3. Spec => [][heard' # heard => Life!Hears]_vars
  BY LifeAlways, StepHears, PTL DEF Spec
<1>4. Spec => [][notices' # notices <=> state = "RUNNING" /\ Reads /\ ~Reads']_vars
  BY LifeAlways, StepTells, PTL DEF Spec
<1> QED BY <1>2, <1>3, <1>4 DEF ImplementsContract, HearsInTime, TellsOfEnds, Life!Spec

-----------------------------------------------------------------------------
(* Type correctness.                                                       *)

\* The variables that say where things are.
ControlOK ==
  /\ state \in {"CREATED", "STARTING", "RUNNING", "STOPPING", "STOPPED"}
  /\ handle \in BOOLEAN /\ registered \in BOOLEAN /\ handlers \in BOOLEAN
  /\ reaped \in BOOLEAN /\ leaving \in BOOLEAN /\ gone \in BOOLEAN
  /\ stdin \in {"none", "open", "closed"}
  /\ startPc \in {"none", "grace", "cancelled", "over"}
  /\ stopPc \in {"none", "drain", "term", "cancelled", "over"}
  /\ reader \in {"none", "test", "readline", "over", "failed"}
  /\ errReader \in {"none", "test", "readline", "over"}
  /\ proc \in {"none", "running", "exited"}

ThreadsOK == threads \in SUBSET {"out", "err"}

\* The callback has not run while the read loop goes on.
NoticesOK ==
  /\ notices \in {0, 1}
  /\ reader \in {"none", "test", "readline"} => notices = 0

\* The pipes: a line is handed over after it was written.
PipesOK ==
  /\ out \in Seq(LineKinds)
  /\ heard \in Nat /\ written \in Nat /\ logs \in Nat /\ err \in Nat
  /\ heard + Len(out) <= written
  /\ written <= MaxLines
  /\ err + logs <= MaxLogs

LEMMA ControlStep == ControlOK /\ [Next]_vars => ControlOK'
<1> SUFFICES ASSUME ControlOK, [Next]_vars PROVE ControlOK'
  OBVIOUS
<1> USE DEF ControlOK, lifeVars, coVars, readVars, errVars, osVars, exitVars
<1>1. CASE Start
  BY <1>1 DEF Start
<1>2. CASE StartChecks
  <2>1. CASE reaped \/ ~handle
    <3>1. /\ state' = "STOPPED" /\ registered' = FALSE /\ startPc' = "over" /\ reader' = reader
          /\ UNCHANGED <<handle, stdin, handlers, stopPc, errReader, reaped, leaving, gone, proc>>
      BY <1>2, <2>1 DEF StartChecks
    <3>2. state' \in {"CREATED", "STARTING", "RUNNING", "STOPPING", "STOPPED"}
      BY <3>1
    <3>3. startPc' \in {"none", "grace", "cancelled", "over"} /\ registered' \in BOOLEAN
      BY <3>1
    <3> QED BY <3>1, <3>2, <3>3
  <2>2. CASE ~reaped /\ handle
    BY <1>2, <2>2 DEF StartChecks
  <2> QED BY <2>1, <2>2
<1>3. CASE CancelStart
  BY <1>3 DEF CancelStart
<1>4. CASE ReaderTests
  BY <1>4 DEF ReaderTests, ReaderEnds, ReaderKeeps
<1>5. CASE ReaderReads
  BY <1>5 DEF ReaderReads, ReaderKeeps
<1>6. CASE ReaderFails
  BY <1>6 DEF ReaderFails, ReaderEnds, ReaderKeeps
<1>7. CASE ReaderMeetsEnd
  BY <1>7 DEF ReaderMeetsEnd, ReaderEnds, ReaderKeeps
<1>8. CASE ErrTests
  BY <1>8 DEF ErrTests
<1>9. CASE ErrReads
  BY <1>9 DEF ErrReads
<1>10. CASE Stop
  BY <1>10 DEF Stop
<1>11. CASE StopResumes
  BY <1>11 DEF StopResumes, StopEnds
<1>12. CASE DrainTimesOut
  BY <1>12 DEF DrainTimesOut
<1>13. CASE TermTimesOut
  BY <1>13 DEF TermTimesOut, StopEnds
<1>14. CASE CancelStop
  BY <1>14 DEF CancelStop
<1>15. CASE Destroy
  BY <1>15 DEF Destroy, ForceKill
<1>16. CASE Leave
  BY <1>16 DEF Leave, CancelAll, ReaderEnds
<1>17. CASE ThreadReturns
  BY <1>17 DEF ThreadReturns
<1>18. CASE AtExit
  BY <1>18 DEF AtExit, ForceKill
<1>19. CASE ProcessWrites
  BY <1>19 DEF ProcessWrites
<1>20. CASE ProcessExits \/ Reap
  BY <1>20 DEF ProcessExits, Reap
<1>21. CASE UNCHANGED vars
  BY <1>21 DEF vars
<1> QED BY <1>1, <1>2, <1>3, <1>4, <1>5, <1>6, <1>7, <1>8, <1>9, <1>10, <1>11, <1>12, <1>13,
           <1>14, <1>15, <1>16, <1>17, <1>18, <1>19, <1>20, <1>21
           DEF Next, LoopStep, ReadLoop, ErrLoop

LEMMA ThreadsStep == ThreadsOK /\ [Next]_vars => ThreadsOK'
<1> SUFFICES ASSUME ThreadsOK, [Next]_vars PROVE ThreadsOK'
  OBVIOUS
<1> USE DEF ThreadsOK, lifeVars, coVars, readVars, errVars, osVars, exitVars
<1>1. CASE Start \/ CancelStart
  BY <1>1 DEF Start, CancelStart
<1>2. CASE StartChecks
  BY <1>2 DEF StartChecks
<1>3. CASE ReaderTests
  BY <1>3 DEF ReaderTests, ReaderEnds, ReaderKeeps
<1>4. CASE ReaderReads
  BY <1>4 DEF ReaderReads, ReaderKeeps
<1>5. CASE ReaderFails
  BY <1>5 DEF ReaderFails, ReaderEnds, ReaderKeeps
<1>6. CASE ReaderMeetsEnd
  BY <1>6 DEF ReaderMeetsEnd, ReaderEnds, ReaderKeeps
<1>7. CASE ErrLoop
  BY <1>7 DEF ErrLoop, ErrTests, ErrReads
<1>8. CASE Stop \/ DrainTimesOut \/ CancelStop \/ Destroy
  BY <1>8 DEF Stop, DrainTimesOut, CancelStop, Destroy
<1>9. CASE StopResumes
  BY <1>9 DEF StopResumes, StopEnds
<1>10. CASE TermTimesOut
  BY <1>10 DEF TermTimesOut, StopEnds
<1>11. CASE Leave
  BY <1>11 DEF Leave, CancelAll, ReaderEnds
<1>12. CASE ThreadReturns
  BY <1>12 DEF ThreadReturns
<1>13. CASE AtExit \/ ProcessWrites \/ ProcessExits \/ Reap
  BY <1>13 DEF AtExit, ProcessWrites, ProcessExits, Reap
<1>14. CASE UNCHANGED vars
  BY <1>14 DEF vars
<1> QED BY <1>1, <1>2, <1>3, <1>4, <1>5, <1>6, <1>7, <1>8, <1>9, <1>10, <1>11, <1>12, <1>13,
           <1>14 DEF Next, LoopStep, ReadLoop

LEMMA NoticesStep == NoticesOK /\ LifeInv /\ [Next]_vars => NoticesOK'
<1> SUFFICES ASSUME NoticesOK, LifeInv, [Next]_vars PROVE NoticesOK'
  OBVIOUS
<1> USE DEF NoticesOK, lifeVars, coVars, readVars, errVars, osVars, exitVars
<1>1. CASE Start \/ CancelStart
  BY <1>1 DEF Start, CancelStart
<1>2. CASE StartChecks
  BY <1>2 DEF StartChecks, LifeInv
<1>3. CASE ReaderTests
  BY <1>3 DEF ReaderTests, ReaderEnds, ReaderKeeps
<1>4. CASE ReaderReads
  BY <1>4 DEF ReaderReads, ReaderKeeps
<1>5. CASE ReaderFails
  BY <1>5 DEF ReaderFails, ReaderEnds, ReaderKeeps
<1>6. CASE ReaderMeetsEnd
  BY <1>6 DEF ReaderMeetsEnd, ReaderEnds, ReaderKeeps
<1>7. CASE ErrLoop
  BY <1>7 DEF ErrLoop, ErrTests, ErrReads
<1>8. CASE Stop \/ DrainTimesOut \/ CancelStop \/ Destroy
  BY <1>8 DEF Stop, DrainTimesOut, CancelStop, Destroy
<1>9. CASE StopResumes
  BY <1>9 DEF StopResumes, StopEnds
<1>10. CASE TermTimesOut
  BY <1>10 DEF TermTimesOut, StopEnds
<1>11. CASE Leave
  BY <1>11 DEF Leave, CancelAll, ReaderEnds
<1>12. CASE ThreadReturns
  BY <1>12 DEF ThreadReturns
<1>13. CASE AtExit \/ ProcessWrites \/ ProcessExits \/ Reap
  BY <1>13 DEF AtExit, ProcessWrites, ProcessExits, Reap
<1>14. CASE UNCHANGED vars
  BY <1>14 DEF vars
<1> QED BY <1>1, <1>2, <1>3, <1>4, <1>5, <1>6, <1>7, <1>8, <1>9, <1>10, <1>11, <1>12, <1>13,
           <1>14 DEF Next, LoopStep, ReadLoop

LEMMA PipesStep == PipesOK /\ [Next]_vars => PipesOK'
<1> SUFFICES ASSUME PipesOK, [Next]_vars PROVE PipesOK'
  OBVIOUS
<1> USE LinesAssumption DEF PipesOK, lifeVars, coVars, readVars, errVars, osVars, exitVars
<1>1. CASE Start \/ CancelStart \/ StartChecks
  BY <1>1 DEF Start, CancelStart, StartChecks
<1>2. CASE ReaderTests \/ ReaderMeetsEnd
  BY <1>2 DEF ReaderTests, ReaderMeetsEnd, ReaderKeeps
<1>3. CASE ReaderReads
  BY <1>3 DEF ReaderReads, ReaderKeeps
<1>4. CASE ReaderFails
  BY <1>4 DEF ReaderFails, ReaderKeeps
<1>5. CASE ErrTests \/ ErrReads
  BY <1>5 DEF ErrTests, ErrReads
<1>6. CASE Stop \/ DrainTimesOut \/ CancelStop \/ Destroy
  BY <1>6 DEF Stop, DrainTimesOut, CancelStop, Destroy
<1>7. CASE StopResumes \/ TermTimesOut
  BY <1>7 DEF StopResumes, TermTimesOut, StopEnds
<1>8. CASE Leave
  BY <1>8 DEF Leave, CancelAll
<1>9. CASE ThreadReturns
  <2>1. CASE out' = out
    BY <1>9, <2>1 DEF ThreadReturns
  <2>2. CASE out # <<>> /\ out' = Tail(out)
    <3>1. out' \in Seq(LineKinds) /\ Len(out') = Len(out) - 1 /\ Len(out) \in Nat
      BY <2>2
    <3> QED BY <1>9, <3>1 DEF ThreadReturns
  <2> QED BY <1>9, <2>1, <2>2 DEF ThreadReturns
<1>10. CASE AtExit \/ ProcessExits \/ Reap
  BY <1>10 DEF AtExit, ProcessExits, Reap
<1>11. CASE ProcessWrites
  <2>1. CASE out' = out
    BY <1>11, <2>1 DEF ProcessWrites
  <2>2. ASSUME NEW line \in LineKinds, out' = Append(out, line), written < MaxLines,
               written' = written + 1, UNCHANGED <<logs, err>>
        PROVE  PipesOK'
    <3>1. out' \in Seq(LineKinds) /\ Len(out') = Len(out) + 1 /\ Len(out) \in Nat
      BY <2>2
    <3>2. heard' = heard
      BY <1>11 DEF ProcessWrites
    <3> QED BY <2>2, <3>1, <3>2
  <2> QED BY <1>11, <2>1, <2>2 DEF ProcessWrites
<1>12. CASE UNCHANGED vars
  BY <1>12 DEF vars
<1> QED BY <1>1, <1>2, <1>3, <1>4, <1>5, <1>6, <1>7, <1>8, <1>9, <1>10, <1>11, <1>12
        DEF Next, LoopStep, ReadLoop, ErrLoop

\* Type correctness for any number of lines: the close callback runs at most
\* once, and no more lines are handed over than were written.
THEOREM SubprocessTypeCorrect == Spec => []TypeOK
<1>1. Init => ControlOK /\ ThreadsOK /\ NoticesOK /\ PipesOK
  <2>1. Init => ControlOK /\ ThreadsOK /\ NoticesOK
    BY DEF Init, ControlOK, ThreadsOK, NoticesOK
  <2>2. Init => PipesOK
    BY LinesAssumption DEF Init, PipesOK
  <2> QED BY <2>1, <2>2
<1>2. ControlOK /\ ThreadsOK /\ NoticesOK /\ PipesOK => TypeOK
  BY LinesAssumption DEF ControlOK, ThreadsOK, NoticesOK, PipesOK, TypeOK
<1> QED BY <1>1, <1>2, ControlStep, ThreadsStep, NoticesStep, PipesStep, LifeAlways, PTL DEF Spec

=============================================================================
