------------------------- MODULE SubprocessBackend -------------------------
(***************************************************************************)
(* src/stdiobus/backends/subprocess.py: the life cycle of the bus process  *)
(* as SubprocessBackend drives it.  start() and stop() are coroutines that *)
(* suspend (in the grace period, in proc.wait) and interleave with each    *)
(* other, with destroy(), with the read loop, with the thread that reaps   *)
(* the process, with the process itself and with the end of the program.   *)
(* The process may exit at any time, and may ignore the end of its input   *)
(* and SIGTERM.                                                            *)
(***************************************************************************)
EXTENDS Naturals, Sequences

CONSTANTS
  MaxLines,   \* how many lines the process writes to its stdout
  MaxLogs,    \* and to its stderr
  LineKinds   \* what they may be: JSON; none ("junk"); or one json.loads fails
              \* on with another error than JSONDecodeError ("broken")

ASSUME LinesAssumption == MaxLines \in Nat /\ MaxLogs \in Nat
ASSUME KindsAssumption == LineKinds \subseteq {"json", "junk", "broken"}

VARIABLES
  state,       \* _state
  handle,      \* _process is set
  stdin,       \* _stdin
  registered,  \* the backend is in _active_processes
  handlers,    \* _message_handlers is not cleared
  startPc,     \* start(): not called, in its grace period, cancelled, over
  stopPc,      \* stop(): not called, waiting, waiting after SIGTERM,
               \* cancelled, over
  reader,      \* the read loop: at its test of the state, in readline, over,
               \* or failed on a broken line
  errReader,   \* the stderr loop
  threads,     \* the streams an executor thread sits in readline of
  notices,     \* calls of the on_close callback
  heard,       \* lines handed to the message handlers
  proc,        \* the process
  reaped,      \* its return code is known
  written,     \* lines it wrote so far
  out,         \* the lines in the stdout pipe
  logs,        \* lines it may still write to its stderr
  err,         \* the number of lines in the stderr pipe
  leaving,     \* the program is over: the loop runs no more
  gone         \* the interpreter exited

lifeVars == <<state, handle, stdin, registered, handlers>>
coVars == <<startPc, stopPc>>
readVars == <<reader, notices, heard>>
errVars == <<errReader, logs, err>>
osVars == <<proc, reaped, written, out>>
exitVars == <<leaving, gone>>
vars == <<lifeVars, coVars, readVars, errVars, threads, osVars, exitVars>>

Init ==
  /\ state = "CREATED"
  /\ handle = FALSE
  /\ stdin = "none"
  /\ registered = FALSE
  /\ handlers = TRUE
  /\ startPc = "none"
  /\ stopPc = "none"
  /\ reader = "none"
  /\ notices = 0
  /\ heard = 0
  /\ proc = "none"
  /\ reaped = FALSE
  /\ written = 0
  /\ out = <<>>
  /\ errReader = "none"
  /\ threads = {}
  /\ logs = MaxLogs
  /\ err = 0
  /\ leaving = FALSE
  /\ gone = FALSE

-----------------------------------------------------------------------------
\* start() up to its grace period: the spawn registers and runs the process
\* and its stderr loop, or raises and leaves the backend stopped.
Start ==
  /\ state = "CREATED"
  /\ \/ /\ state' = "STARTING"
        /\ handle' = TRUE
        /\ stdin' = "open"
        /\ registered' = TRUE
        /\ proc' = "running"
        /\ startPc' = "grace"
        /\ errReader' = "test"
     \/ /\ state' = "STOPPED"
        /\ startPc' = "over"
        /\ UNCHANGED <<handle, stdin, registered, proc, errReader>>
  /\ UNCHANGED <<handlers, stopPc, readVars, threads, logs, err, reaped, written, out, exitVars>>

\* The end of the grace period.  Only a return code that is known already
\* makes start() fail, or a process object that destroy() dropped; the state
\* is not looked at again.
StartChecks ==
  /\ startPc = "grace"
  /\ startPc' = "over"
  /\ IF reaped \/ ~handle
       THEN /\ state' = "STOPPED"
            /\ registered' = FALSE
            /\ UNCHANGED reader
       ELSE /\ state' = "RUNNING"
            /\ reader' = "test"
            /\ UNCHANGED registered
  /\ UNCHANGED <<handle, stdin, handlers, stopPc, notices, heard, errVars, threads, osVars, exitVars>>

\* The task in start() is cancelled: CancelledError is no Exception, and the
\* state stays what it is.
CancelStart ==
  /\ startPc = "grace"
  /\ startPc' = "cancelled"
  /\ UNCHANGED <<lifeVars, stopPc, readVars, errVars, threads, osVars, exitVars>>

-----------------------------------------------------------------------------
\* Faulty variant: the callback runs and the state stays RUNNING.
NoticeOnly ==
  /\ notices' = IF state = "RUNNING" THEN notices + 1 ELSE notices
  /\ UNCHANGED state

\* The finally clause of the read loop: an end while RUNNING is a crash.
ReaderEnds ==
  IF state = "RUNNING"
    THEN state' = "STOPPED" /\ notices' = notices + 1
    ELSE UNCHANGED <<state, notices>>

\* What the steps of the read loop leave alone.
ReaderKeeps == UNCHANGED <<handle, stdin, registered, handlers, coVars, errVars, proc, reaped, written, exitVars>>

ReaderTests ==
  /\ reader = "test"
  /\ IF state = "RUNNING"
       THEN /\ reader' = "readline"
            /\ threads' = threads \cup {"out"}
            /\ UNCHANGED <<state, notices>>
       ELSE reader' = "over" /\ ReaderEnds /\ UNCHANGED threads
  /\ UNCHANGED <<heard, out>> /\ ReaderKeeps

\* Faulty variant: each line is handed over twice.
ReaderHandsTwice ==
  /\ reader = "readline"
  /\ out # <<>> /\ Head(out) # "broken"
  /\ out' = Tail(out)
  /\ heard' = IF Head(out) = "json" /\ handlers THEN heard + 2 ELSE heard
  /\ reader' = "test"
  /\ threads' = threads \ {"out"}
  /\ UNCHANGED <<state, notices>> /\ ReaderKeeps

\* readline returned a line: a line that is no JSON is dropped.
ReaderReads ==
  /\ reader = "readline"
  /\ out # <<>> /\ Head(out) # "broken"
  /\ out' = Tail(out)
  /\ heard' = IF Head(out) = "json" /\ handlers THEN heard + 1 ELSE heard
  /\ reader' = "test"
  /\ threads' = threads \ {"out"}
  /\ UNCHANGED <<state, notices>> /\ ReaderKeeps

\* The validation of the line raised an error that only the loop's outer
\* except clause catches: the loop ends as if the process had exited.
ReaderFails ==
  /\ reader = "readline"
  /\ out # <<>> /\ Head(out) = "broken"
  /\ out' = Tail(out)
  /\ reader' = "failed"
  /\ threads' = threads \ {"out"}
  /\ ReaderEnds
  /\ UNCHANGED heard /\ ReaderKeeps

\* readline returned nothing: end of file.
ReaderMeetsEnd ==
  /\ reader = "readline"
  /\ out = <<>>
  /\ proc = "exited"
  /\ reader' = "over"
  /\ threads' = threads \ {"out"}
  /\ ReaderEnds
  /\ UNCHANGED <<heard, out>> /\ ReaderKeeps

ErrTests ==
  /\ errReader = "test"
  /\ IF state \in {"STARTING", "RUNNING"}
       THEN errReader' = "readline" /\ threads' = threads \cup {"err"}
       ELSE errReader' = "over" /\ UNCHANGED threads
  /\ UNCHANGED <<lifeVars, coVars, readVars, logs, err, osVars, exitVars>>

ErrReads ==
  /\ errReader = "readline"
  /\ \/ err > 0 /\ err' = err - 1 /\ errReader' = "test"
     \/ err = 0 /\ proc = "exited" /\ errReader' = "over" /\ UNCHANGED err
  /\ threads' = threads \ {"err"}
  /\ UNCHANGED <<lifeVars, coVars, readVars, logs, osVars, exitVars>>

-----------------------------------------------------------------------------
\* A stop() that finds another one waiting, since start() wrote RUNNING over
\* its STOPPING, waits beside it.
Stop ==
  /\ state \in {"RUNNING", "STARTING"}
  /\ state' = "STOPPING"
  /\ stdin' = "closed"
  /\ stopPc' = IF stopPc = "term" THEN "term" ELSE "drain"
  /\ UNCHANGED <<handle, registered, handlers, startPc, readVars, errVars, threads, osVars, exitVars>>

\* The last part of stop(): the two loops are cancelled, the finally clause of
\* the read loop runs, and the backend is stopped and off the registry.
StopEnds ==
  /\ stopPc' = "over"
  /\ reader' = IF reader \in {"test", "readline"} THEN "over" ELSE reader
  /\ notices' = IF reader \in {"test", "readline"} /\ state = "RUNNING"
                  THEN notices + 1 ELSE notices
  /\ errReader' = "over"
  /\ state' = "STOPPED"
  /\ registered' = FALSE
  /\ UNCHANGED <<handle, stdin, handlers, startPc, heard, logs, err, threads, reaped, written, out, exitVars>>

\* proc.wait returned in its thread, and stop() resumes.
StopResumes ==
  /\ stopPc \in {"drain", "term"}
  /\ reaped
  /\ StopEnds
  /\ UNCHANGED proc

\* Faulty variant: stop() waits for the process however long it takes.
WaitForever == FALSE /\ UNCHANGED vars

\* The drain timeout: SIGTERM, which the process may obey later or never.
DrainTimesOut ==
  /\ stopPc = "drain"
  /\ stopPc' = "term"
  /\ UNCHANGED <<lifeVars, startPc, readVars, errVars, threads, osVars, exitVars>>

\* Faulty variant: stop() gives up after SIGTERM.
TermGivesUp ==
  /\ stopPc = "term"
  /\ startPc # "grace"
  /\ StopEnds
  /\ UNCHANGED proc

\* Five seconds after SIGTERM: SIGKILL, and stop() ends.  The grace period of
\* start(), which began before and is of half a second, is over by then.
TermTimesOut ==
  /\ stopPc = "term"
  /\ startPc # "grace"
  /\ proc' = "exited"
  /\ StopEnds

\* The task in stop() is cancelled; the state stays STOPPING.
CancelStop ==
  /\ stopPc \in {"drain", "term"}
  /\ stopPc' = "cancelled"
  /\ UNCHANGED <<lifeVars, startPc, readVars, errVars, threads, osVars, exitVars>>

\* _force_kill
ForceKill == proc' = IF handle /\ proc = "running" THEN "exited" ELSE proc

\* Faulty variant: the process is let go and not killed.
DestroyWithoutKill ==
  /\ registered' = FALSE
  /\ stdin' = IF stdin = "open" THEN "closed" ELSE stdin
  /\ handle' = FALSE
  /\ handlers' = FALSE
  /\ state' = "STOPPED"
  /\ UNCHANGED <<coVars, readVars, errVars, threads, osVars, exitVars>>

Destroy ==
  /\ ForceKill
  /\ registered' = FALSE
  /\ stdin' = IF stdin = "open" THEN "closed" ELSE stdin
  /\ handle' = FALSE
  /\ handlers' = FALSE
  /\ state' = "STOPPED"
  /\ UNCHANGED <<coVars, readVars, errVars, threads, reaped, written, out, exitVars>>

-----------------------------------------------------------------------------
(* The end of the program.                                                 *)

\* asyncio.run cancels the tasks that are left.
CancelAll ==
  /\ startPc' = IF startPc = "grace" THEN "cancelled" ELSE startPc
  /\ stopPc' = IF stopPc \in {"drain", "term"} THEN "cancelled" ELSE stopPc
  /\ errReader' = IF errReader = "none" THEN "none" ELSE "over"
  /\ IF reader \in {"test", "readline"}
       THEN reader' = "over" /\ ReaderEnds
       ELSE UNCHANGED <<reader, state, notices>>
  /\ UNCHANGED <<handle, stdin, registered, handlers, heard, logs, err, threads, osVars, gone>>

\* The main program is over.  asyncio.run cancels what is left; the private
\* loop of StdioBus is just never run again.
Leave ==
  /\ ~leaving
  /\ leaving' = TRUE
  /\ \/ CancelAll
     \/ UNCHANGED <<lifeVars, coVars, readVars, errVars, threads, osVars, gone>>

\* A read returns in its thread after the loop, or the task, stopped caring.
ThreadReturns ==
  \/ /\ "out" \in threads
     /\ leaving \/ reader # "readline"
     /\ out # <<>> \/ proc = "exited"
     /\ out' = IF out = <<>> THEN out ELSE Tail(out)
     /\ threads' = threads \ {"out"}
     /\ UNCHANGED <<lifeVars, coVars, readVars, errVars, proc, reaped, written, exitVars>>
  \/ /\ "err" \in threads
     /\ leaving \/ errReader # "readline"
     /\ err > 0 \/ proc = "exited"
     /\ err' = IF err = 0 THEN 0 ELSE err - 1
     /\ threads' = threads \ {"err"}
     /\ UNCHANGED <<lifeVars, coVars, readVars, errReader, logs, osVars, exitVars>>

\* The interpreter joins the threads of its executors, those in proc.wait too,
\* and only then calls _cleanup_orphans, which kills what is registered.
AtExit ==
  /\ leaving
  /\ threads = {}
  /\ stopPc = "none" \/ reaped
  /\ gone' = TRUE
  /\ IF registered THEN ForceKill ELSE UNCHANGED proc
  /\ UNCHANGED <<lifeVars, coVars, readVars, errVars, threads, reaped, written, out, leaving>>

-----------------------------------------------------------------------------
(* The process and the thread that waits for it.                           *)

ProcessWrites ==
  /\ proc = "running"
  /\ \/ /\ written < MaxLines
        /\ written' = written + 1
        /\ \E line \in LineKinds : out' = Append(out, line)
        /\ UNCHANGED <<logs, err>>
     \/ /\ logs > 0
        /\ logs' = logs - 1
        /\ err' = err + 1
        /\ UNCHANGED <<written, out>>
  /\ UNCHANGED <<lifeVars, coVars, readVars, errReader, threads, proc, reaped, exitVars>>

ProcessExits ==
  /\ proc = "running"
  /\ proc' = "exited"
  /\ UNCHANGED <<lifeVars, coVars, readVars, errVars, threads, reaped, written, out, exitVars>>

\* proc.wait() in an executor thread, started by stop() and never cancelled.
Reap ==
  /\ stopPc # "none"
  /\ proc = "exited"
  /\ ~reaped
  /\ reaped' = TRUE
  /\ UNCHANGED <<lifeVars, coVars, readVars, errVars, threads, proc, written, out, exitVars>>

-----------------------------------------------------------------------------
ReadLoop == ReaderTests \/ ReaderReads \/ ReaderFails \/ ReaderMeetsEnd
ErrLoop == ErrTests \/ ErrReads

\* What runs on the event loop.
LoopStep ==
  \/ Start \/ StartChecks \/ CancelStart \/ ReadLoop \/ ErrLoop
  \/ Stop \/ StopResumes \/ DrainTimesOut \/ TermTimesOut \/ CancelStop
  \/ Destroy

Next ==
  /\ ~gone
  /\ \/ ~leaving /\ LoopStep
     \/ Leave \/ ThreadReturns \/ AtExit
     \/ ProcessWrites \/ ProcessExits \/ Reap

Spec == Init /\ [][Next]_vars

\* The loop resumes what is ready, its timers fire, and the threads whose read
\* or wait is over go on.  Nothing is assumed of the process, nor that the
\* program ends.
Fairness ==
  /\ WF_vars(~leaving /\ StartChecks)
  /\ WF_vars(~leaving /\ ReadLoop) /\ WF_vars(~leaving /\ ErrLoop)
  /\ WF_vars(~leaving /\ StopResumes)
  /\ WF_vars(~leaving /\ DrainTimesOut) /\ WF_vars(~leaving /\ TermTimesOut)
  /\ WF_vars(~gone /\ ThreadReturns) /\ WF_vars(~gone /\ Reap)
  /\ WF_vars(~gone /\ AtExit)

FairSpec == Spec /\ Fairness

-----------------------------------------------------------------------------
(* Properties.                                                             *)

TypeOK ==
  /\ state \in {"CREATED", "STARTING", "RUNNING", "STOPPING", "STOPPED"}
  /\ handle \in BOOLEAN /\ registered \in BOOLEAN /\ handlers \in BOOLEAN
  /\ reaped \in BOOLEAN /\ leaving \in BOOLEAN /\ gone \in BOOLEAN
  /\ stdin \in {"none", "open", "closed"}
  /\ startPc \in {"none", "grace", "cancelled", "over"}
  /\ stopPc \in {"none", "drain", "term", "cancelled", "over"}
  /\ reader \in {"none", "test", "readline", "over", "failed"}
  /\ errReader \in {"none", "test", "readline", "over"}
  /\ threads \in SUBSET {"out", "err"}
  /\ notices \in {0, 1}
  /\ heard \in Nat /\ heard <= written
  /\ proc \in {"none", "running", "exited"}
  /\ written \in 0..MaxLines
  /\ out \in Seq(LineKinds)
  /\ logs \in 0..MaxLogs
  /\ err \in 0..MaxLogs

\* The registry and its atexit handler leave no orphan: whatever start(),
\* stop(), destroy(), cancellations and crashes went before, no bus process
\* outlives the interpreter.
NoOrphan == gone => proc # "running"

\* STOPPED is the truth, unless a line broke the read loop or asyncio.run
\* cancelled it at its end: no process runs behind a backend that reports it,
\* so that the early return of stop() abandons nothing.
StoppedMeansExited ==
  state = "STOPPED" /\ reader # "failed" /\ ~leaving => proc # "running"

\* A process that exits while the backend runs is noticed.
CrashIsNoticed == state = "RUNNING" /\ proc = "exited" ~> state # "RUNNING" \/ leaving

\* stop() ends, whatever the process does.
StopIsOver == stopPc \in {"drain", "term"} ~> stopPc \in {"over", "cancelled"} \/ leaving

\* A program that stopped or destroyed its bus before its end exits: no thread
\* is left in a read, or in proc.wait, that does not return.
LeavesOnceStopped == leaving /\ (stopPc = "over" \/ ~handlers) ~> gone

\* The read loop runs.
Reads == reader \in {"test", "readline"}

\* What the client relies on (BackendLife): a cancelled start() or stop() is
\* one that goes on for ever, and destroy() takes the backend away.
Life == INSTANCE BackendLife WITH
  backend <- IF handlers THEN state ELSE "NONE",
  starting <- startPc \in {"grace", "cancelled"},
  stopping <- stopPc \in {"drain", "term", "cancelled"},
  stdin <- IF stdin = "closed" \/ ~handlers THEN "closed" ELSE "open",
  reading <- handlers /\ Reads

\* No line reaches the client but where BackendLife says one can.
HearsInTime == [][heard' # heard => Life!Hears]_vars

\* The close callback runs when the read loop ends while RUNNING, and only then.
TellsOfEnds == [][notices' # notices <=> state = "RUNNING" /\ Reads /\ ~Reads']_vars

\* The backend behaves as the client's model takes it to: in particular no line
\* reaches the client after stop() or destroy() is over, or once it was told of
\* a crash, and after a stop() no message can be sent.
ImplementsContract == Life!Spec /\ HearsInTime /\ TellsOfEnds

-----------------------------------------------------------------------------
(* What the comments say and the code does not do.                         *)

\* The close callback reports a process that "exits unexpectedly": not the
\* exit that stop() asked for.
StopIsNotACrash == ~(notices > 0 /\ stopPc # "none")

\* The atexit handler is to kill the processes "still alive": once the program
\* is over, none runs on.
OrphansAreKilled == leaving ~> proc # "running"
=============================================================================
