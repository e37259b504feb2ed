--------------------------------- MODULE Pipes ---------------------------------
(***************************************************************************)
(* The four pipes between src/stdiobus/backends/subprocess.py and the bus  *)
(* process, with their capacities.  The configuration and every message    *)
(* are written on the event loop by calls that block; stdout and stderr    *)
(* are read in executor threads that need the loop to hand each line over. *)
(* The loop is the one of asyncio.run, which runs all the time, or the     *)
(* private one of the synchronous StdioBus, which runs only inside one of  *)
(* its calls.  The bus process is single-threaded: it reads a request only *)
(* when it has written all it owes, and its log before its output.         *)
(***************************************************************************)
EXTENDS Integers

CONSTANTS
  CfgCap, InCap, OutCap, ErrCap,  \* capacities: units in, lines out
  ConfigUnits,   \* size of the configuration
  RequestUnits,  \* size of a request
  ReplyLines,    \* lines the process may write for a request
  LogLines,      \* lines it may log for a request
  StartLogs,     \* lines it may log before it reads its configuration
  MaxSends       \* bound on the messages sent

ASSUME CapsAssumption == {CfgCap, InCap, OutCap, ErrCap} \subseteq Nat \ {0}
ASSUME SizesAssumption ==
  /\ {ConfigUnits, RequestUnits} \subseteq Nat \ {0}
  /\ {ReplyLines, LogLines, StartLogs, MaxSends} \subseteq Nat

VARIABLES
  call,       \* the call that runs the loop: "run" for asyncio.run; "none"
              \* while the loop of a StdioBus stands still
  state,      \* _state
  starting,   \* start() is in its grace period
  stopPc,     \* stop(): not called, waiting, waiting after SIGTERM, over
  closed,     \* stdin is closed
  destroyed,  \* destroy() is over
  write,      \* what blocks the thread of the loop: a write of the "config" or
              \* of a "request", the "close" of stdout and stderr in destroy()
  left,       \* the units of it that are not in the pipe yet
  cfg, inp,   \* units in the configuration pipe and in stdin
  out, err,   \* lines in stdout and in stderr
  reader,     \* the read loop: none, its task created ("begin"), its thread
              \* reading, the thread done with a line ("holding") or with the
              \* end of file ("eof"), over
  errReader,  \* the stderr loop
  proc,       \* the process: none, loading its configuration, serving, exited
  part,       \* units it has read of a request
  owed,       \* lines it is to write to stdout before it reads on
  owedLogs,   \* and before that, to stderr
  unread,     \* requests it has not read to the end
  sends,      \* messages sent
  heard,      \* lines handed over by the read loop
  logged      \* and by the stderr loop

pyVars == <<call, state, starting, stopPc, closed, destroyed>>
writeVars == <<write, left>>
readVars == <<reader, errReader, heard, logged>>
procVars == <<proc, part, owed, owedLogs>>
countVars == <<unread, sends>>
vars == <<pyVars, writeVars, cfg, inp, out, err, readVars, procVars, countVars>>

Init ==
  /\ call \in {"run", "none"}
  /\ state = "CREATED" /\ starting = FALSE /\ stopPc = "none" /\ closed = FALSE
  /\ destroyed = FALSE
  /\ write = "none" /\ left = 0
  /\ cfg = 0 /\ inp = 0 /\ out = 0 /\ err = 0
  /\ reader = "none" /\ errReader = "none"
  /\ proc = "none" /\ part = 0 /\ owed = 0 /\ owedLogs = 0
  /\ unread = 0 /\ sends = 0 /\ heard = 0 /\ logged = 0

-----------------------------------------------------------------------------
(* The loop and its calls.                                                 *)

\* Something can run on the loop.
LoopRuns == call # "none" /\ write = "none"

\* A coroutine may begin: as a task of asyncio.run, or as the call of a
\* StdioBus that makes the loop run.
Begins(c) ==
  /\ write = "none"
  /\ call \in {"run", "none"}
  /\ call' = IF call = "run" THEN "run" ELSE c

\* The call that ran the loop, if it is c, returns.
Returns(c) == call' = IF call = c THEN "none" ELSE call

\* start() up to the write of the configuration: on the loop, with the process
\* running and nobody reading what it writes.
Start ==
  /\ state = "CREATED"
  /\ Begins("start")
  /\ state' = "STARTING"
  /\ write' = "config" /\ left' = ConfigUnits
  /\ proc' = "loading"
  /\ owedLogs' \in 0..StartLogs
  /\ UNCHANGED <<starting, stopPc, closed, destroyed, cfg, inp, out, err, readVars, part, owed, countVars>>

\* Faulty variant: the message is written a second time.
SendsTwice ==
  /\ state = "RUNNING" /\ ~closed
  /\ sends < MaxSends
  /\ Begins("request") \/ Begins("none")
  /\ write' = "request" /\ left' = 2 * RequestUnits
  /\ sends' = sends + 1 /\ unread' = unread + 1
  /\ UNCHANGED <<state, starting, stopPc, closed, destroyed, cfg, inp, out, err, readVars, procVars>>

\* send(), by a request of either wrapper or by StdioBus.send, which writes
\* while the loop stands still.
Send ==
  /\ state = "RUNNING" /\ ~closed
  /\ sends < MaxSends
  /\ Begins("request") \/ Begins("none")
  /\ write' = "request" /\ left' = RequestUnits
  /\ sends' = sends + 1 /\ unread' = unread + 1
  /\ UNCHANGED <<state, starting, stopPc, closed, destroyed, cfg, inp, out, err, readVars, procVars>>

\* A unit of the message finds room in the pipe.
WritesMessage ==
  /\ write = "request" /\ inp < InCap
  /\ inp' = inp + 1 /\ left' = left - 1
  /\ write' = IF left = 1 THEN "none" ELSE write
  /\ UNCHANGED <<cfg, starting, errReader>>

\* A unit of the configuration does.  After the last one the grace period of
\* start() begins, and the task of the stderr loop is created.
WritesConfig ==
  /\ write = "config" /\ cfg < CfgCap
  /\ cfg' = cfg + 1 /\ left' = left - 1
  /\ IF left = 1
       THEN write' = "none" /\ starting' = TRUE /\ errReader' = "begin"
       ELSE UNCHANGED <<write, starting, errReader>>
  /\ UNCHANGED inp

\* Faulty variant: the rest of the message is kept for the next one.
WriteBreaksKeepingRest ==
  /\ write \in {"config", "request"} /\ proc = "exited"
  /\ write' = "none"
  /\ UNCHANGED <<left, cfg, inp, starting, errReader>>

\* The process is gone: send() returns False, and the rest of the configuration
\* is dropped without an error.
WriteBreaks ==
  /\ write \in {"config", "request"} /\ proc = "exited"
  /\ write' = "none" /\ left' = 0
  /\ IF write = "config"
       THEN starting' = TRUE /\ errReader' = "begin"
       ELSE UNCHANGED <<starting, errReader>>
  /\ UNCHANGED <<cfg, inp>>

WriteGoesOn ==
  /\ WritesMessage \/ WritesConfig \/ WriteBreaks
  /\ UNCHANGED <<call, state, stopPc, closed, destroyed, out, err, reader, heard, logged, procVars, countVars>>

\* The end of the grace period.  A return code is known if a stop() asked for
\* it, and there is no process to ask for one after destroy().  The task of the
\* read loop is created: it runs when the loop comes to it, which in a call of
\* StdioBus is before start() returns.
StartReturns ==
  /\ LoopRuns /\ starting
  /\ starting' = FALSE
  /\ \/ /\ destroyed \/ (stopPc # "none" /\ proc = "exited")
        /\ state' = "STOPPED"
        /\ Returns("start")
        /\ UNCHANGED reader
     \/ /\ ~destroyed /\ ~(stopPc = "over" /\ proc = "exited")
        /\ state' = "RUNNING"
        /\ reader' = "begin"
        /\ UNCHANGED call
  /\ UNCHANGED <<stopPc, closed, destroyed, writeVars, cfg, inp, out, err, errReader, heard, logged, procVars, countVars>>

\* request() has its answer, or its deadline passed.
RequestReturns ==
  /\ LoopRuns
  /\ call = "request"
  /\ Returns("request")
  /\ UNCHANGED <<state, starting, stopPc, closed, destroyed, writeVars, cfg, inp, out, err, readVars, procVars, countVars>>

\* KeyboardInterrupt in run_until_complete: what ran stays on the loop, which
\* stands still until the next call.
Interrupt ==
  /\ LoopRuns
  /\ call # "run"
  /\ call' = "none"
  /\ UNCHANGED <<state, starting, stopPc, closed, destroyed, writeVars, cfg, inp, out, err, readVars, procVars, countVars>>

Stop ==
  /\ state \in {"RUNNING", "STARTING"}
  /\ Begins("stop")
  /\ state' = "STOPPING"
  /\ stopPc' = IF stopPc = "term" THEN "term" ELSE "drain"
  /\ closed' = TRUE
  /\ UNCHANGED <<starting, destroyed, writeVars, cfg, inp, out, err, readVars, procVars, countVars>>

StopEnds ==
  /\ stopPc' = "over"
  /\ state' = "STOPPED"
  /\ reader' = IF reader = "none" THEN "none" ELSE "over"
  /\ errReader' = "over"
  /\ Returns("stop")
  /\ UNCHANGED <<starting, closed, destroyed, writeVars, cfg, inp, out, err, heard, logged, part, owed, owedLogs, countVars>>

StopResumes ==
  /\ LoopRuns
  /\ stopPc \in {"drain", "term"}
  /\ proc = "exited"
  /\ StopEnds
  /\ UNCHANGED proc

\* SIGTERM, which the process may take as it likes.
DrainTimesOut ==
  /\ LoopRuns
  /\ stopPc = "drain"
  /\ stopPc' = "term"
  /\ UNCHANGED <<call, state, starting, closed, destroyed, writeVars, cfg, inp, out, err, readVars, procVars, countVars>>

\* Faulty variant: no SIGKILL: stop() waits until the process exits by itself.
TermWaits == FALSE /\ UNCHANGED vars

\* SIGKILL, five seconds later and after the grace period.
TermTimesOut ==
  /\ LoopRuns
  /\ stopPc = "term"
  /\ ~starting
  /\ proc' = "exited"
  /\ StopEnds

\* Faulty variant: the streams are closed before the process is killed.
DestroyClosesFirst ==
  /\ write = "none" /\ ~destroyed /\ state # "CREATED"
  /\ write' = "close" /\ left' = 0
  /\ closed' = TRUE
  /\ UNCHANGED <<call, state, starting, stopPc, destroyed, cfg, inp, out, err, readVars, procVars, countVars>>

\* destroy() up to the close of stdout, on the loop or beside it.
Destroy ==
  /\ write = "none" /\ ~destroyed /\ state # "CREATED"
  /\ proc' = "exited"
  /\ closed' = TRUE
  /\ write' = "close" /\ left' = 0
  /\ UNCHANGED <<call, state, starting, stopPc, destroyed, cfg, inp, out, err, readVars, part, owed, owedLogs, countVars>>

\* A stream is closed only when no thread is in its readline.
DestroyReturns ==
  /\ write = "close"
  /\ reader # "reading" /\ errReader # "reading"
  /\ write' = "none"
  /\ state' = "STOPPED"
  /\ destroyed' = TRUE
  /\ UNCHANGED <<call, starting, stopPc, closed, left, cfg, inp, out, err, readVars, procVars, countVars>>

-----------------------------------------------------------------------------
(* The read loop and the stderr loop, and their threads.                   *)

\* The read loop comes to its first readline, if the state lets it.
ReaderBegins ==
  /\ LoopRuns
  /\ reader = "begin"
  /\ reader' = IF state = "RUNNING" THEN "reading" ELSE "over"
  /\ Returns("start")
  /\ UNCHANGED <<state, starting, stopPc, closed, destroyed, writeVars, cfg, inp, out, err, errReader, heard, logged, procVars, countVars>>

\* Faulty variant: stderr is read during start() only.
ErrReadsAtStart == state = "STARTING"

\* While the stderr loop goes on.
ErrReadsOn == state \in {"STARTING", "RUNNING"}

ErrReaderBegins ==
  /\ LoopRuns
  /\ errReader = "begin"
  /\ errReader' = IF ErrReadsOn THEN "reading" ELSE "over"
  /\ UNCHANGED <<pyVars, writeVars, cfg, inp, out, err, reader, heard, logged, procVars, countVars>>

\* readline returns, in its thread: a line, or nothing at the end of file.
ThreadReads ==
  \/ /\ reader = "reading"
     /\ \/ out > 0 /\ out' = out - 1 /\ reader' = "holding"
        \/ out = 0 /\ proc = "exited" /\ reader' = "eof" /\ UNCHANGED out
     /\ UNCHANGED <<pyVars, writeVars, cfg, inp, err, errReader, heard, logged, procVars, countVars>>
  \/ /\ errReader = "reading"
     /\ \/ err > 0 /\ err' = err - 1 /\ errReader' = "holding"
        \/ err = 0 /\ proc = "exited" /\ errReader' = "eof" /\ UNCHANGED err
     /\ UNCHANGED <<pyVars, writeVars, cfg, inp, out, reader, heard, logged, procVars, countVars>>

\* The loop takes the line over and, if the state lets it, reads on; the end of
\* file is a crash while RUNNING.
ReaderResumes ==
  /\ LoopRuns
  /\ \/ /\ reader = "holding"
        /\ heard' = IF destroyed THEN heard ELSE heard + 1
        /\ reader' = IF state = "RUNNING" THEN "reading" ELSE "over"
        /\ UNCHANGED state
     \/ /\ reader = "eof"
        /\ reader' = "over"
        /\ state' = IF state = "RUNNING" THEN "STOPPED" ELSE state
        /\ UNCHANGED heard
  /\ UNCHANGED <<call, starting, stopPc, closed, destroyed, writeVars, cfg, inp, out, err, errReader, logged, procVars, countVars>>

ErrReaderResumes ==
  /\ LoopRuns
  /\ \/ /\ errReader = "holding"
        /\ logged' = logged + 1
        /\ errReader' = IF ErrReadsOn THEN "reading" ELSE "over"
     \/ errReader = "eof" /\ errReader' = "over" /\ UNCHANGED logged
  /\ UNCHANGED <<pyVars, writeVars, cfg, inp, out, err, reader, heard, procVars, countVars>>

-----------------------------------------------------------------------------
(* The bus process.                                                        *)

OwesNothing == owed = 0 /\ owedLogs = 0

\* It reads its configuration to the end of file.
ProcessLoads ==
  /\ proc = "loading" /\ OwesNothing
  /\ \/ cfg > 0 /\ cfg' = cfg - 1 /\ UNCHANGED proc
     \/ cfg = 0 /\ write # "config" /\ proc' = "serving" /\ UNCHANGED cfg
  /\ UNCHANGED <<pyVars, writeVars, inp, out, err, readVars, part, owed, owedLogs, countVars>>

\* It reads a unit of a request; after the last one it owes what it answers.
ProcessReads ==
  /\ proc = "serving" /\ OwesNothing
  /\ inp > 0
  /\ inp' = inp - 1
  /\ IF part + 1 < RequestUnits
       THEN part' = part + 1 /\ UNCHANGED <<owed, owedLogs, unread>>
       ELSE /\ part' = 0
            /\ unread' = unread - 1
            /\ owed' \in 0..ReplyLines
            /\ owedLogs' \in 0..LogLines
  /\ UNCHANGED <<pyVars, writeVars, cfg, out, err, readVars, proc, sends>>

ProcessWrites ==
  /\ proc \in {"loading", "serving"}
  /\ \/ /\ owedLogs > 0 /\ err < ErrCap
        /\ err' = err + 1 /\ owedLogs' = owedLogs - 1
        /\ UNCHANGED <<out, owed>>
     \/ /\ owedLogs = 0 /\ owed > 0 /\ out < OutCap
        /\ out' = out + 1 /\ owed' = owed - 1
        /\ UNCHANGED <<err, owedLogs>>
  /\ UNCHANGED <<pyVars, writeVars, cfg, inp, readVars, proc, part, countVars>>

\* It exits, at the end of its input or at any other time.
ProcessExits ==
  /\ proc \in {"loading", "serving"}
  /\ proc' = "exited"
  /\ UNCHANGED <<pyVars, writeVars, cfg, inp, out, err, readVars, part, owed, owedLogs, countVars>>

-----------------------------------------------------------------------------
Next ==
  \/ Start \/ Send \/ WriteGoesOn \/ StartReturns \/ RequestReturns \/ Interrupt
  \/ Stop \/ StopResumes \/ DrainTimesOut \/ TermTimesOut
  \/ Destroy \/ DestroyReturns
  \/ ReaderBegins \/ ErrReaderBegins
  \/ ThreadReads \/ ReaderResumes \/ ErrReaderResumes
  \/ ProcessLoads \/ ProcessReads \/ ProcessWrites \/ ProcessExits

Spec == Init /\ [][Next]_vars

\* What is ready on the loop runs, its timers fire, pipes and threads work, and
\* the process reads and writes what it can.  Nobody need exit.
Fairness ==
  /\ WF_vars(StartReturns) /\ WF_vars(RequestReturns) /\ WF_vars(StopResumes)
  /\ WF_vars(DrainTimesOut) /\ WF_vars(TermTimesOut)
  /\ WF_vars(ReaderBegins) /\ WF_vars(ErrReaderBegins)
  /\ WF_vars(ReaderResumes) /\ WF_vars(ErrReaderResumes)
  /\ WF_vars(WriteGoesOn) /\ WF_vars(DestroyReturns)
  /\ WF_vars(ThreadReads /\ reader' # reader)
  /\ WF_vars(ThreadReads /\ errReader' # errReader)
  /\ WF_vars(ProcessLoads) /\ WF_vars(ProcessReads) /\ WF_vars(ProcessWrites)

FairSpec == Spec /\ Fairness

-----------------------------------------------------------------------------
(* Properties.                                                             *)

ReaderStates == {"none", "begin", "reading", "holding", "eof", "over"}

TypeOK ==
  /\ call \in {"run", "none", "start", "request", "stop"}
  /\ state \in {"CREATED", "STARTING", "RUNNING", "STOPPING", "STOPPED"}
  /\ starting \in BOOLEAN /\ closed \in BOOLEAN /\ destroyed \in BOOLEAN
  /\ stopPc \in {"none", "drain", "term", "over"}
  /\ write \in {"none", "config", "request", "close"}
  /\ IF write \in {"config", "request"} THEN left > 0 ELSE left = 0
  /\ cfg \in 0..CfgCap /\ inp \in 0..InCap /\ out \in 0..OutCap /\ err \in 0..ErrCap
  /\ reader \in ReaderStates /\ errReader \in ReaderStates
  /\ proc \in {"none", "loading", "serving", "exited"}
  /\ part \in 0..(RequestUnits - 1)
  /\ left \in Nat /\ owed \in Nat /\ owedLogs \in Nat
  /\ unread \in Nat /\ heard \in Nat /\ logged \in Nat
  /\ sends \in 0..MaxSends

\* The process cannot go on before somebody reads what it wrote.
Stuck ==
  /\ proc \in {"loading", "serving"}
  /\ \/ owedLogs > 0 /\ err = ErrCap
     \/ owedLogs = 0 /\ owed > 0 /\ out = OutCap

\* The deadly embrace: the loop waits for room in a pipe the process does not
\* read, and the process for room in one whose reader waits for the loop.
Embrace ==
  /\ \/ write = "config" /\ cfg = CfgCap
     \/ write = "request" /\ inp = InCap
  /\ proc \in {"loading", "serving"}
  /\ \/ owedLogs > 0 /\ err = ErrCap /\ errReader # "reading"
     \/ owedLogs = 0 /\ owed > 0 /\ out = OutCap /\ reader # "reading"

\* The messages sent before the one that is being written.
Earlier == IF write = "request" THEN sends - 1 ELSE sends

\* No embrace while the lines that the messages sent before can cause on the
\* stream the process is stuck on, and were not handed over yet, fit into the
\* pipe of that stream.
EmbraceNeedsOverflow ==
  Embrace =>
    IF owedLogs > 0 THEN StartLogs + LogLines * Earlier > logged + ErrCap
                    ELSE ReplyLines * Earlier > heard + OutCap

\* What blocks the loop ends: a write, unless it is caught in the embrace, and
\* the wait of destroy() for the threads that sit in readline.
LoopComesBack == write # "none" ~> write = "none" \/ Embrace

\* As long as the backend starts or runs, and the loop does, a process that is
\* stuck gets room.
ProcessIsServed ==
  Stuck /\ state \in {"STARTING", "RUNNING"}
    ~> ~Stuck \/ state \notin {"STARTING", "RUNNING"} \/ call = "none" \/ Embrace

\* Each call of a StdioBus returns, stop() also when the process is stuck in
\* output that nobody reads any more, unless it is caught in the embrace.
CallReturns == call \in {"start", "request", "stop"} ~> call = "none" \/ Embrace
=============================================================================
