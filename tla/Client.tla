------------------------------- MODULE Client -------------------------------
(***************************************************************************)
(* The in-flight side of AsyncStdioBus (src/stdiobus/client.py): the       *)
(* table of pending requests, the callers suspended in request() and in    *)
(* stream_request(), the dispatch of the backend's messages to them, and   *)
(* what start(), stop(), destroy() and the exit of the bus process do to   *)
(* calls in flight.  What the backend does is BackendLife: the subprocess  *)
(* backend, the only one whose exit the client is told of.                 *)
(*                                                                         *)
(* The event loop runs one coroutine at a time, from one await to the      *)
(* next: every action is such a segment, or one step of the agent, of the  *)
(* read loop or of the clock.  A call is its message id.  The k-th         *)
(* agent_message_chunk the agent ever writes has the text k, so that       *)
(* order, loss, duplication and ownership of chunks can be told.           *)
(***************************************************************************)
EXTENDS Naturals, Sequences, FiniteSets

CONSTANTS
  FutureCalls,   \* calls of request()
  StreamCalls,   \* calls of stream_request()
  MaxChunks,     \* how many chunks the agent writes, over all calls
  ErrorShapes    \* shapes of a response's "error" member: "object", "other"

ASSUME CallsAssumption == FutureCalls \cap StreamCalls = {}
ASSUME ChunksAssumption == MaxChunks \in Nat
ASSUME ShapesAssumption == ErrorShapes \subseteq {"object", "other"}

Calls == FutureCalls \cup StreamCalls

VARIABLES
  backend,   \* the backend's BusState, "NONE" once destroy() dropped it
  starting,  \* a start() is suspended in its grace period
  stopping,  \* a stop() is suspended, waiting for the process to exit
  stdin,     \* the pipe to the process
  reading,   \* the read loop runs
  pending,   \* the keys of _pending_requests
  chunks,    \* _PendingRequest.chunks
  queue,     \* _PendingRequest.queue, of the stream-mode calls
  future,    \* _PendingRequest.future, of the future-mode calls
  pc,        \* where the caller is
  expired,   \* the call's total deadline has passed
  outcome,   \* how the call ended for its caller
  yielded,   \* the chunks a stream's consumer was given
  asked,     \* the calls the agent may still write a message for
  emitted    \* chunks the agent wrote

\* The life of the backend: module BackendLife over the same variables.
Life == INSTANCE BackendLife

lifeVars == <<backend, starting, stopping, stdin, reading>>
tableVars == <<pending, chunks, queue, future>>
callerVars == <<pc, expired, outcome, yielded>>
agentVars == <<asked, emitted>>
vars == <<lifeVars, tableVars, callerVars, agentVars>>

\* What is put in a future or in a stream's queue, and what a call ends with.
Event(kind, text) == [kind |-> kind, text |-> text]
Nothing == Event("none", <<>>)
Terminal == {"result", "plain", "rpc", "transport"}
Endings == Terminal \cup {"timeout", "cancelled", "refused", "valueerror"}

Live == {"waiting", "yielded", "abandoned"}

Init ==
  /\ Life!Init
  /\ pending = {}
  /\ chunks = [r \in Calls |-> <<>>]
  /\ queue = [r \in StreamCalls |-> <<>>]
  /\ future = [r \in FutureCalls |-> Nothing]
  /\ pc = [r \in Calls |-> "idle"]
  /\ expired = [r \in Calls |-> FALSE]
  /\ outcome = [r \in Calls |-> Nothing]
  /\ yielded = [r \in StreamCalls |-> <<>>]
  /\ asked = {}
  /\ emitted = 0

-----------------------------------------------------------------------------
(* Delivery to pending requests.                                           *)

\* Faulty variant: only futures are resolved.
DeliverToFutures(S, e) ==
  /\ future' = [r \in FutureCalls |->
                 IF r \in S /\ future[r] = Nothing THEN e ELSE future[r]]
  /\ UNCHANGED queue

\* deliver_result and deliver_error to every call of S: a stream's queue
\* takes the event, a future takes it only while it is not done.
Deliver(S, e) ==
  /\ queue' = [r \in StreamCalls |->
                 IF r \in S THEN Append(queue[r], e) ELSE queue[r]]
  /\ future' = [r \in FutureCalls |->
                 IF r \in S /\ future[r] = Nothing THEN e ELSE future[r]]

\* deliver_chunk to every call of S.
DeliverChunk(S, k) ==
  /\ chunks' = [r \in Calls |->
                 IF r \in S THEN Append(chunks[r], k) ELSE chunks[r]]
  /\ queue' = [r \in StreamCalls |->
                 IF r \in S THEN Append(queue[r], Event("chunk", <<k>>))
                            ELSE queue[r]]

\* Faulty variant: the table is not cleared.
FailAllKeepingTable ==
  /\ Deliver(pending, Event("transport", <<>>))
  /\ UNCHANGED pending

\* What stop() and _on_backend_closed do to the calls in flight.
FailAll ==
  /\ Deliver(pending, Event("transport", <<>>))
  /\ pending' = {}

\* Faulty variant of the two operators below: the entry stays.
Kept(r) == pending

\* The table once the response to r was found in it.
Answered(r) == pending \ {r}

\* The table when the generator of r leaves through its finally clause.
Released(r) == pending \ {r}

-----------------------------------------------------------------------------
(* The life cycle of the bus: the backend's part is in BackendLife.        *)

Start == Life!Start /\ UNCHANGED <<tableVars, callerVars, agentVars>>

StartReturns == Life!StartReturns /\ UNCHANGED <<tableVars, callerVars, agentVars>>

\* stop(): fail every pending request, then let the backend stop.
Stop ==
  /\ FailAll
  /\ \/ Life!Stop
     \/ backend \notin {"RUNNING", "STARTING"} /\ UNCHANGED lifeVars
  /\ UNCHANGED <<chunks, callerVars, agentVars>>

StopReturns == Life!StopReturns /\ UNCHANGED <<tableVars, callerVars, agentVars>>

\* destroy() drops the backend; it leaves the table.
Destroy == Life!Destroy /\ UNCHANGED <<tableVars, callerVars, agentVars>>

\* The end of the read loop is taken for an unexpected exit only while the
\* state is RUNNING: then every request is failed.
ReadLoopEnds ==
  /\ Life!ReadLoopEnds
  /\ IF backend = "RUNNING" THEN FailAll ELSE UNCHANGED <<queue, future, pending>>
  /\ UNCHANGED <<chunks, callerVars, agentVars>>

-----------------------------------------------------------------------------
(* Messages of the agent, handed over by the read loop.                    *)

\* An agent_message_chunk, written for one of the calls: it carries no request
\* id and goes to every pending one.
ReceiveChunk ==
  /\ Life!Hears
  /\ asked # {}
  /\ emitted < MaxChunks
  /\ emitted' = emitted + 1
  /\ DeliverChunk(pending, emitted + 1)
  /\ UNCHANGED <<lifeVars, pending, future, callerVars, asked>>

\* Faulty variants: the text is what the consumer took; the response gives none.
AnswerOfTaken(r, kind) ==
  Event(kind, IF kind # "result" THEN <<>>
              ELSE IF r \in StreamCalls THEN yielded[r] ELSE chunks[r])
AnswerOfNothing(r, kind) == Nothing

\* What a response delivers: a result that is a dict gets the aggregated text.
Answer(r, kind) ==
  Event(kind, IF kind = "result" THEN chunks[r] ELSE <<>>)

\* A response to r, which may not be the last one.  The entry is taken out
\* of the table before the error member is decoded: if that one is not an
\* object, the decoding raises and nothing is delivered.
ReceiveResponse(r) ==
  /\ Life!Hears
  /\ r \in asked
  /\ asked' \in {asked, asked \ {r}}
  /\ IF r \in pending
       THEN /\ pending' = Answered(r)
            /\ \/ \E kind \in {"result", "plain"} : Deliver({r}, Answer(r, kind))
               \/ /\ "object" \in ErrorShapes
                  /\ Deliver({r}, Answer(r, "rpc"))
               \/ /\ "other" \in ErrorShapes
                  /\ UNCHANGED <<queue, future>>
       ELSE UNCHANGED <<pending, queue, future>>
  /\ UNCHANGED <<lifeVars, chunks, callerVars, emitted>>

-----------------------------------------------------------------------------
(* The callers.                                                            *)

End(r, e) ==
  /\ pc' = [pc EXCEPT ![r] = "done"]
  /\ outcome' = [outcome EXCEPT ![r] = e]

\* Faulty variant: only a stream whose consumer waits counts.
StreamWaiting == \E s \in StreamCalls : s \in pending /\ pc[s] = "waiting"

\* Only one stream may be in the table.
StreamActive == \E s \in StreamCalls : s \in pending

Refused(r) ==
  \/ backend # "RUNNING"
  \/ r \in StreamCalls /\ StreamActive

\* request() and stream_request() up to their first await: refused, sent, or
\* not sent.  Writing to a stdin that stop() closed raises ValueError.
Call(r) ==
  /\ pc[r] = "idle"
  /\ \/ /\ Refused(r)
        /\ End(r, Event("refused", <<>>))
        /\ UNCHANGED <<pending, asked>>
     \/ /\ ~Refused(r)
        /\ stdin = "open"
        /\ pc' = [pc EXCEPT ![r] = "waiting"]
        /\ pending' = pending \cup {r}
        /\ asked' = asked \cup {r}
        /\ UNCHANGED outcome
     \/ /\ ~Refused(r)
        /\ End(r, Event(IF stdin = "open" THEN "transport" ELSE "valueerror", <<>>))
        /\ UNCHANGED <<pending, asked>>
  /\ UNCHANGED <<lifeVars, chunks, queue, future, expired, yielded, emitted>>

\* The deadline of r passes.
Expire(r) ==
  /\ pc[r] \in {"waiting", "yielded"}
  /\ ~expired[r]
  /\ expired' = [expired EXCEPT ![r] = TRUE]
  /\ UNCHANGED <<lifeVars, tableVars, pc, outcome, yielded, agentVars>>

\* request() resumes with its future done.
RequestReturns(r) ==
  /\ r \in FutureCalls
  /\ pc[r] = "waiting"
  /\ future[r] # Nothing
  /\ End(r, future[r])
  /\ pending' = IF future[r].kind \in {"result", "plain"} THEN pending ELSE Released(r)
  /\ UNCHANGED <<lifeVars, chunks, queue, future, expired, yielded, agentVars>>

\* Faulty variant: only calls still in the table time out.
PendingTimesOut(r) ==
  /\ r \in FutureCalls \cap pending
  /\ pc[r] = "waiting"
  /\ expired[r]
  /\ End(r, Event("timeout", <<>>))
  /\ pending' = Released(r)
  /\ UNCHANGED <<lifeVars, chunks, queue, future, expired, yielded, agentVars>>

\* The timer of wait_for fired before request() resumed, be the future done
\* by now or not.
RequestTimesOut(r) ==
  /\ r \in FutureCalls
  /\ pc[r] = "waiting"
  /\ expired[r]
  /\ End(r, Event("timeout", <<>>))
  /\ pending' = Released(r)
  /\ UNCHANGED <<lifeVars, chunks, queue, future, expired, yielded, agentVars>>

\* The caller's task is cancelled: CancelledError is no Exception, so no
\* clause of request() takes the entry out of the table.
CancelRequest(r) ==
  /\ r \in FutureCalls
  /\ pc[r] = "waiting"
  /\ End(r, Event("cancelled", <<>>))
  /\ future' = [future EXCEPT ![r] = Event("cancelled", <<>>)]
  /\ UNCHANGED <<lifeVars, pending, chunks, queue, expired, yielded, agentVars>>

\* The generator takes the next item of its queue, which is not empty:
\* when it is woken in get(), or when its consumer asks for the next event.
TakeItem(r) ==
  LET item == Head(queue[r]) IN
  /\ queue' = [queue EXCEPT ![r] = Tail(queue[r])]
  /\ IF item.kind = "chunk"
       THEN /\ yielded' = [yielded EXCEPT ![r] = @ \o item.text]
            /\ pc' = [pc EXCEPT ![r] = "yielded"]
            /\ UNCHANGED <<outcome, pending>>
       ELSE /\ End(r, item)
            /\ pending' = Released(r)
            /\ UNCHANGED yielded

StreamResumes(r) ==
  /\ r \in StreamCalls
  /\ pc[r] \in {"waiting", "yielded"}
  /\ queue[r] # <<>>
  /\ TakeItem(r)
  /\ UNCHANGED <<lifeVars, chunks, future, expired, agentVars>>

\* The consumer asks for the next event and there is none: the generator
\* times out at once or suspends in get().
StreamAwaits(r) ==
  /\ r \in StreamCalls
  /\ pc[r] = "yielded"
  /\ queue[r] = <<>>
  /\ IF expired[r]
       THEN End(r, Event("timeout", <<>>)) /\ pending' = Released(r)
       ELSE pc' = [pc EXCEPT ![r] = "waiting"] /\ UNCHANGED <<outcome, pending>>
  /\ UNCHANGED <<lifeVars, chunks, queue, future, expired, yielded, agentVars>>

\* The timer of wait_for fired while the generator was suspended in get();
\* it does not look at its queue again, whatever was put there meanwhile.
StreamTimesOut(r) ==
  /\ r \in StreamCalls
  /\ pc[r] = "waiting"
  /\ expired[r]
  /\ End(r, Event("timeout", <<>>))
  /\ pending' = Released(r)
  /\ UNCHANGED <<lifeVars, chunks, queue, future, expired, yielded, agentVars>>

\* The consumer's task is cancelled while the generator is suspended in get().
CancelStream(r) ==
  /\ r \in StreamCalls
  /\ pc[r] = "waiting"
  /\ End(r, Event("cancelled", <<>>))
  /\ pending' = Released(r)
  /\ UNCHANGED <<lifeVars, chunks, queue, future, expired, yielded, agentVars>>

\* The consumer leaves its async for; the generator stays suspended in its
\* yield until the loop finalizes it.
Abandon(r) ==
  /\ r \in StreamCalls
  /\ pc[r] = "yielded"
  /\ pc' = [pc EXCEPT ![r] = "abandoned"]
  /\ UNCHANGED <<lifeVars, tableVars, expired, outcome, yielded, agentVars>>

FinalizeStream(r) ==
  /\ r \in StreamCalls
  /\ pc[r] = "abandoned"
  /\ End(r, Event("cancelled", <<>>))
  /\ pending' = Released(r)
  /\ UNCHANGED <<lifeVars, chunks, queue, future, expired, yielded, agentVars>>

-----------------------------------------------------------------------------
Next ==
  \/ Start \/ StartReturns \/ Stop \/ StopReturns \/ Destroy \/ ReadLoopEnds
  \/ ReceiveChunk
  \/ \E r \in Calls :
       \/ ReceiveResponse(r) \/ Call(r) \/ Expire(r)
       \/ RequestReturns(r) \/ RequestTimesOut(r) \/ CancelRequest(r)
       \/ StreamResumes(r) \/ StreamAwaits(r) \/ StreamTimesOut(r)
       \/ CancelStream(r) \/ Abandon(r) \/ FinalizeStream(r)

Spec == Init /\ [][Next]_vars

\* The loop goes on with call r: it resumes the caller from its wait.
Resumes(r) ==
  \/ RequestReturns(r) \/ RequestTimesOut(r)
  \/ pc[r] = "waiting" /\ StreamResumes(r)
  \/ StreamTimesOut(r)

\* The clock runs, and the loop goes on with what is ready, in no set order.
Fairness == \A r \in Calls : WF_vars(Expire(r)) /\ WF_vars(Resumes(r))

FairSpec == Spec /\ Fairness

-----------------------------------------------------------------------------
(* Properties.                                                             *)

TypeOK ==
  /\ backend \in Life!BusStates
  /\ {starting, stopping, reading} \subseteq BOOLEAN
  /\ stdin \in {"open", "closed"}
  /\ pending \subseteq Calls
  /\ chunks \in [Calls -> Seq(Nat)]
  /\ queue \in [StreamCalls -> Seq([kind : Terminal \cup {"chunk"}, text : Seq(Nat)])]
  /\ future \in [FutureCalls ->
                   [kind : Terminal \cup {"none", "cancelled"}, text : Seq(Nat)]]
  /\ pc \in [Calls -> Live \cup {"idle", "done"}]
  /\ expired \in [Calls -> BOOLEAN]
  /\ outcome \in [Calls -> [kind : Endings \cup {"none"}, text : Seq(Nat)]]
  /\ yielded \in [StreamCalls -> Seq(Nat)]
  /\ asked \subseteq Calls
  /\ emitted \in Nat

\* The end of call r is on its way to the caller.
Settled(r) ==
  IF r \in FutureCalls
    THEN future[r] # Nothing
    ELSE \E i \in 1..Len(queue[r]) : queue[r][i].kind # "chunk"

\* A caller still in flight is in the table, where a response, a stop() or a
\* crash finds it, or its end was delivered already: nobody is forgotten.
\* (What pop-then-deliver in _handle_message_on_loop and the clear() of
\* stop() and _on_backend_closed must keep.)
InFlightIsTracked ==
  \A r \in Calls : pc[r] \in Live => r \in pending \/ Settled(r)

\* Conversely an entry of the table is a call in flight that was delivered
\* no end, or a request() whose task was cancelled.
TableIsInFlight ==
  \A r \in pending :
    \/ pc[r] \in Live /\ ~Settled(r)
    \/ r \in FutureCalls /\ pc[r] = "done" /\ outcome[r].kind = "cancelled"

\* A stream's consumer misses no chunk, gets none twice and none out of order:
\* what it was given and what its queue holds are the chunks recorded for the
\* aggregated text, and at most one end follows them, with nothing after it.
StreamConserves ==
  \A r \in StreamCalls :
    LET given == Len(yielded[r])
        left == Len(chunks[r]) - given IN
    /\ given <= Len(chunks[r])
    /\ Len(queue[r]) \in {left, left + 1}
    /\ \A i \in 1..given : yielded[r][i] = chunks[r][i]
    /\ \A i \in 1..Len(queue[r]) :
         IF i <= left THEN queue[r][i] = Event("chunk", <<chunks[r][given + i]>>)
                      ELSE queue[r][i].kind \in Terminal

\* A sequence is an unbroken run of the chunks the agent wrote.
IsARun(text) ==
  \A i \in 1..Len(text) : text[i] <= emitted /\ text[i] = text[1] + i - 1

\* What a call records is an unbroken run of the agent's chunks: none that
\* arrives while it is in the table is left out or counted twice.  A dict result
\* carries exactly what was recorded, and a stream's consumer was given
\* exactly that before it.
ResultCarriesItsChunks ==
  \A r \in Calls :
    /\ IsARun(chunks[r])
    /\ outcome[r].kind = "result" =>
         /\ outcome[r].text = chunks[r]
         /\ r \in StreamCalls => outcome[r].text = yielded[r]

\* Once the bus is stopping or stopped, whether by stop() or by a crash, no
\* call is left in the table: none can wait for an answer that cannot come.
NothingPendingOnceDown ==
  backend \in {"STOPPING", "STOPPED"} => pending = {}

\* A caller suspended in request() or in the wait for a stream's next event is
\* resumed in the end, by its answer, a failure or its deadline, whatever the
\* agent writes or omits and whatever happens to the bus.
WaitEnds == \A r \in Calls : pc[r] = "waiting" ~> pc[r] # "waiting"

-----------------------------------------------------------------------------
(* The client implements the contract of its callers (module CallContract). *)

Phase == [r \in Calls |->
            IF pc[r] = "idle" THEN "idle"
            ELSE IF pc[r] = "done" THEN "ended" ELSE "active"]

Contract == INSTANCE CallContract
              WITH phase <- Phase, seen <- yielded, ending <- outcome

\* Every step the program takes is, for the callers, a step of the contract:
\* outcomes are final, chunks come in order and once, results carry them.
KeepsContract == Contract!Spec

-----------------------------------------------------------------------------
(* What the comments and the documentation say and the code does not do.   *)

\* "Cleanup on every exit path": a call that ended has left the table
\* (client.py, finally of stream_request; Property 1 for both modes).
CleanupIsTotal == \A r \in Calls : pc[r] = "done" => r \notin pending

\* A terminal item that is ready at or after the deadline wins over the
\* timeout (client.py, comment in stream_request).
ReadyEndBeatsTimeout ==
  \A r \in StreamCalls : outcome[r].kind = "timeout" => ~Settled(r)

=============================================================================
