---------------------------- MODULE DockerBackend ----------------------------
(***************************************************************************)
(* src/stdiobus/backends/docker.py: the container the backend starts, the  *)
(* TCP connection to the bus in it and the read loop that cuts the bytes   *)
(* it receives into lines.  start() and stop() suspend in several awaits   *)
(* each and interleave with each other, with destroy(), with cancellation  *)
(* and with the engine.  Nobody is told when the read loop ends.           *)
(*                                                                         *)
(* A byte of the k-th line the bus writes is <<k, part>>: "x" a character  *)
(* of one byte, "h" and "t" the two of a longer one, "n" the line feed.    *)
(***************************************************************************)
EXTENDS Naturals, FiniteSets, Sequences, SequencesExt

CONSTANTS
  MaxLines,    \* how many lines the bus writes
  LineShapes   \* "narrow" lines, and "wide" ones, with a character of two bytes

ASSUME LinesAssumption == MaxLines \in Nat
ASSUME LineShapesAssumption == LineShapes \subseteq {"narrow", "wide"}

VARIABLES
  state,      \* _state
  known,      \* _container_id is set
  conn,       \* _writer is set
  startPc,    \* start(): creating the container, connecting, over, or
              \* cancelled while the engine was creating
  stopPc,     \* stop(): awaiting the read task, the connection, the engine
  reader,     \* the read loop: not begun, in read, over, failed
  buffer,     \* the read loop's buffer
  heard,      \* the lines handed to the message handlers
  run,        \* the "docker run" command
  container,
  link,       \* the connection: none, made, or closed or reset by its other
              \* end ("lost")
  refused,    \* the engine failed to stop or kill a container that ran
  sent,       \* the shapes of the lines the bus wrote
  wire        \* the bytes not read yet

coVars == <<startPc, stopPc>>
readVars == <<reader, buffer, heard>>
engineVars == <<run, container, link, refused>>
busVars == <<sent, wire>>
vars == <<state, known, conn, coVars, readVars, engineVars, busVars>>

Parts(shape) == IF shape = "narrow" THEN <<"x", "x">> ELSE <<"x", "h", "t">>

\* The k-th line, which is of that shape.
Text(k, shape) == [i \in 1..Len(Parts(shape)) |-> <<k, Parts(shape)[i]>>]

Init ==
  /\ state = "CREATED"
  /\ known = FALSE
  /\ conn = FALSE
  /\ startPc = "none"
  /\ stopPc = "none"
  /\ reader = "none"
  /\ buffer = <<>>
  /\ heard = <<>>
  /\ run = "none"
  /\ container = "none"
  /\ link = "none"
  /\ refused = FALSE
  /\ sent = <<>>
  /\ wire = <<>>

-----------------------------------------------------------------------------
(* start()                                                                 *)

\* Up to the first await: the image is there, or pulling it raised.
Start ==
  /\ state = "CREATED"
  /\ \/ state' = "STARTING" /\ startPc' = "creating" /\ run' = "running"
     \/ state' = "STOPPED" /\ startPc' = "over" /\ UNCHANGED run
  /\ UNCHANGED <<known, conn, stopPc, readVars, container, link, refused, busVars>>

\* "docker run" returned; the state is not looked at again, here or below.
StartCreated ==
  /\ startPc = "creating"
  /\ \/ /\ run = "ok"
        /\ known' = TRUE
        /\ startPc' = "connecting"
        /\ UNCHANGED state
     \/ /\ run = "failed"
        /\ state' = "STOPPED"
        /\ startPc' = "over"
        /\ UNCHANGED known
  /\ UNCHANGED <<conn, stopPc, readVars, engineVars, busVars>>

StartConnected ==
  /\ startPc = "connecting"
  /\ link # "none"
  /\ conn' = TRUE
  /\ state' = "RUNNING"
  /\ reader' = "begin"
  /\ startPc' = "over"
  /\ UNCHANGED <<known, stopPc, buffer, heard, engineVars, busVars>>

\* startup_timeout_sec is over; the container stays.
StartGivesUp ==
  /\ startPc = "connecting"
  /\ link = "none"
  /\ state' = "STOPPED"
  /\ startPc' = "over"
  /\ UNCHANGED <<known, conn, stopPc, readVars, engineVars, busVars>>

\* The task in start() is cancelled: the state stays, and the command the
\* task was waiting for goes on.
CancelStart ==
  /\ startPc \in {"creating", "connecting"}
  /\ startPc' = IF startPc = "creating" THEN "cancelled" ELSE "over"
  /\ UNCHANGED <<state, known, conn, stopPc, readVars, engineVars, busVars>>

-----------------------------------------------------------------------------
(* The read loop.                                                          *)

\* The condition of the loop.
LoopTest == IF state = "RUNNING" THEN "read" ELSE "over"

ReaderBegins ==
  /\ reader = "begin"
  /\ reader' = LoopTest
  /\ UNCHANGED <<state, known, conn, coVars, buffer, heard, engineVars, busVars>>

\* decode() raises on bytes that begin or end within a character.
Decodable(data) == data[1][2] # "t" /\ Last(data)[2] # "h"

\* The positions of the line feeds of a text, and that of the k-th of them;
\* the 0-th stands before the text.
Feeds(text) == {i \in 1..Len(text) : text[i][2] = "n"}
Feed(text, k) ==
  CHOOSE i \in {0} \cup Feeds(text) : Cardinality({j \in Feeds(text) : j <= i}) = k
FeedCount(text) == Cardinality(Feeds(text))

\* The lines that end in a text.
Lines(text) ==
  [k \in 1..FeedCount(text) |-> SubSeq(text, Feed(text, k - 1) + 1, Feed(text, k) - 1)]

\* Faulty variants: nothing is kept, or the last line feed too.
RestForgotten(text) == <<>>
RestWithFeed(text) ==
  IF Feeds(text) = {} THEN text ELSE SubSeq(text, Feed(text, FeedCount(text)), Len(text))

\* What follows the last line feed of a text.
Rest(text) == SubSeq(text, Feed(text, FeedCount(text)) + 1, Len(text))

\* Faulty variant: the first complete line only.
ReaderReadsOne ==
  /\ reader = "read"
  /\ \E n \in 1..Len(wire) :
       LET data == SubSeq(wire, 1, n)
           text == buffer \o data
           first == IF Feeds(text) = {} THEN <<>> ELSE <<Head(Lines(text))>> IN
       /\ Decodable(data)
       /\ wire' = SubSeq(wire, n + 1, Len(wire))
       /\ heard' = heard \o first
       /\ buffer' = IF first = <<>> THEN text
                    ELSE SubSeq(text, Len(first[1]) + 2, Len(text))
  /\ reader' = LoopTest
  /\ UNCHANGED <<state, known, conn, coVars, engineVars, sent>>

\* Any bytes that arrived, from one to all: the complete lines are handed
\* over.  stop() and destroy() do not keep a read that is done from resuming.
ReaderReads ==
  /\ reader = "read"
  /\ \E n \in 1..Len(wire) :
       LET data == SubSeq(wire, 1, n)
           text == buffer \o data IN
       /\ Decodable(data)
       /\ wire' = SubSeq(wire, n + 1, Len(wire))
       /\ heard' = heard \o Lines(text)
       /\ buffer' = Rest(text)
  /\ reader' = LoopTest
  /\ UNCHANGED <<state, known, conn, coVars, engineVars, sent>>

\* A read that ends within a character: the exception ends the loop.
ReaderFails ==
  /\ reader = "read"
  /\ \E n \in 1..Len(wire) :
       /\ ~Decodable(SubSeq(wire, 1, n))
       /\ wire' = SubSeq(wire, n + 1, Len(wire))
  /\ reader' = "failed"
  /\ UNCHANGED <<state, known, conn, coVars, buffer, heard, engineVars, sent>>

\* End of file, or the connection was reset: the state stays RUNNING, whether
\* the container is up or not.
ReaderMeetsEnd ==
  /\ reader = "read"
  /\ ~conn \/ container # "up" \/ link = "lost"
  /\ reader' = "over"
  /\ UNCHANGED <<state, known, conn, coVars, buffer, heard, engineVars, busVars>>

-----------------------------------------------------------------------------
(* stop() and destroy()                                                    *)

Stop ==
  /\ state = "RUNNING"
  /\ state' = "STOPPING"
  /\ stopPc' = "reading"
  /\ UNCHANGED <<known, conn, startPc, readVars, engineVars, busVars>>

\* The cancellation stop() asked for reaches the read loop.
ReaderCancelled ==
  /\ stopPc # "none"
  /\ reader \in {"begin", "read"}
  /\ reader' = "over"
  /\ UNCHANGED <<state, known, conn, coVars, buffer, heard, engineVars, busVars>>

\* stop() comes to the container: there is one to stop, or it is over.
ToContainer ==
  IF known THEN stopPc' = "stopping" /\ UNCHANGED state
           ELSE stopPc' = "over" /\ state' = "STOPPED"

ToConnection ==
  IF conn THEN stopPc' = "closing" /\ UNCHANGED state ELSE ToContainer

\* The read task ended.
StopReads ==
  /\ stopPc = "reading"
  /\ reader \notin {"begin", "read"}
  /\ ToConnection
  /\ UNCHANGED <<known, conn, startPc, readVars, engineVars, busVars>>

\* Faulty variant: stop() ends with the connection.
StopAtConnection ==
  /\ stopPc = "closing"
  /\ conn' = FALSE
  /\ stopPc' = "over"
  /\ state' = "STOPPED"
  /\ UNCHANGED <<known, startPc, readVars, engineVars, busVars>>

\* The connection is closed.
StopCloses ==
  /\ stopPc = "closing"
  /\ conn' = FALSE
  /\ ToContainer
  /\ UNCHANGED <<known, startPc, readVars, engineVars, busVars>>

\* The engine stops or kills a container, or fails to: nobody looks.
EngineEnds ==
  \/ container' = (IF container = "up" THEN "down" ELSE container) /\ UNCHANGED refused
  \/ container = "up" /\ refused' = TRUE /\ UNCHANGED container

\* "docker stop" returned.
StopEnds ==
  /\ stopPc = "stopping"
  /\ EngineEnds
  /\ known' = FALSE
  /\ state' = "STOPPED"
  /\ stopPc' = "over"
  /\ UNCHANGED <<conn, startPc, readVars, run, link, busVars>>

\* The task in stop() is cancelled and stop() left where it was.  While it
\* awaits the read task a cancellation is taken for that one's, and ignored.
CancelStop ==
  /\ stopPc \in {"closing", "stopping"}
  /\ stopPc' = "cancelled"
  /\ UNCHANGED <<state, known, conn, startPc, readVars, engineVars, busVars>>

\* Faulty variant: the container is killed only with the connection.
DestroyConnected ==
  /\ conn' = FALSE
  /\ IF known /\ conn THEN EngineEnds ELSE UNCHANGED <<container, refused>>
  /\ known' = FALSE
  /\ state' = "STOPPED"
  /\ UNCHANGED <<coVars, readVars, run, link, busVars>>

\* The read task and the handlers stay.
Destroy ==
  /\ conn' = FALSE
  /\ IF known THEN EngineEnds ELSE UNCHANGED <<container, refused>>
  /\ known' = FALSE
  /\ state' = "STOPPED"
  /\ UNCHANGED <<coVars, readVars, run, link, busVars>>

-----------------------------------------------------------------------------
(* The engine, the container and the bus in it.                            *)

EngineRuns ==
  /\ run = "running"
  /\ \/ run' = "ok" /\ container' = "up"
     \/ run' = "failed" /\ UNCHANGED container
  /\ UNCHANGED <<state, known, conn, coVars, readVars, link, refused, busVars>>

LinkMade ==
  /\ startPc = "connecting"
  /\ container = "up"
  /\ link = "none"
  /\ link' = "made"
  /\ UNCHANGED <<state, known, conn, coVars, readVars, run, container, refused, busVars>>

\* The bus, or what forwards to it, closes the connection or resets it.
LinkLost ==
  /\ link = "made"
  /\ link' = "lost"
  /\ UNCHANGED <<state, known, conn, coVars, readVars, run, container, refused, busVars>>

ContainerExits ==
  /\ container = "up"
  /\ container' = "down"
  /\ UNCHANGED <<state, known, conn, coVars, readVars, run, link, refused, busVars>>

BusWrites ==
  /\ container = "up"
  /\ link = "made"
  /\ Len(sent) < MaxLines
  /\ \E shape \in LineShapes :
       /\ sent' = Append(sent, shape)
       /\ wire' = wire \o Text(Len(sent) + 1, shape) \o <<<<Len(sent) + 1, "n">>>>
  /\ UNCHANGED <<state, known, conn, coVars, readVars, engineVars>>

-----------------------------------------------------------------------------
Next ==
  \/ Start \/ StartCreated \/ StartConnected \/ StartGivesUp \/ CancelStart
  \/ ReaderBegins \/ ReaderReads \/ ReaderFails \/ ReaderMeetsEnd
  \/ Stop \/ ReaderCancelled \/ StopReads \/ StopCloses \/ StopEnds \/ CancelStop
  \/ Destroy
  \/ EngineRuns \/ LinkMade \/ LinkLost \/ ContainerExits \/ BusWrites

Spec == Init /\ [][Next]_vars

\* The loop runs its tasks, and a read that can return returns.
FairSpec ==
  /\ Spec
  /\ WF_vars(ReaderBegins)
  /\ WF_vars(ReaderReads \/ ReaderFails \/ ReaderMeetsEnd)

-----------------------------------------------------------------------------
(* Properties.                                                             *)

Bytes == (1..MaxLines) \X {"x", "h", "t", "n"}

\* The buffer never holds a complete line.
TypeOK ==
  /\ state \in {"CREATED", "STARTING", "RUNNING", "STOPPING", "STOPPED"}
  /\ {known, conn, refused} \subseteq BOOLEAN
  /\ startPc \in {"none", "creating", "connecting", "over", "cancelled"}
  /\ stopPc \in {"none", "reading", "closing", "stopping", "over", "cancelled"}
  /\ reader \in {"none", "begin", "read", "over", "failed"}
  /\ buffer \in Seq({b \in Bytes : b[2] # "n"})
  /\ heard \in Seq(Seq(Bytes))
  /\ run \in {"none", "running", "ok", "failed"}
  /\ container \in {"none", "up", "down"}
  /\ link \in {"none", "made", "lost"}
  /\ sent \in Seq(LineShapes)
  /\ wire \in Seq(Bytes)

\* The lines handed over are the lines the bus wrote, whole, in order and
\* once, wherever the reads cut them.
FramesAreLines ==
  /\ Len(heard) <= Len(sent)
  /\ \A k \in 1..Len(heard) : heard[k] = Text(k, sent[k])

\* A container that runs can be stopped: the backend knows it or is about to.
\* The exceptions are a start() cancelled while the engine was creating it,
\* and an engine that failed to stop or kill it.
NoContainerForgotten ==
  container = "up" => known \/ startPc \in {"creating", "cancelled"} \/ refused

\* When stop() ran to its end the container is gone, whatever destroy() or a
\* cancellation did meanwhile, unless the engine failed to stop it.
StopLeavesNothing == stopPc = "over" => container # "up" \/ refused

\* While the backend runs, each line is handed over in the end, unless a read
\* ended within a character or the container or the connection is gone.
EveryLineHeard ==
  \A k \in 1..MaxLines :
    Len(sent) >= k /\ state = "RUNNING" ~>
      \/ Len(heard) >= k
      \/ state # "RUNNING" \/ reader = "failed" \/ container # "up" \/ link = "lost"
=============================================================================
