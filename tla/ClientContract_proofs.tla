----------------------- MODULE ClientContract_proofs -----------------------
(* What becomes of the chunks, and that module Client implements CallContract. *)
EXTENDS Client_proofs

-----------------------------------------------------------------------------
(* The inductive invariant.                                                 *)

\* The queue q holds what is left to show of the recorded chunks, and at most
\* one end behind it.
Continues(shown, recorded, q) ==
  LET given == Len(shown)
      left == Len(recorded) - given IN
  /\ given <= Len(recorded)
  /\ Len(q) = left \/ Len(q) = left + 1
  /\ \A i \in 1..given : shown[i] = recorded[i]
  /\ \A i \in 1..left : q[i] = Event("chunk", <<recorded[given + i]>>)
  /\ Len(q) = left + 1 => q[Len(q)].kind \in Terminal

\* StreamConserves for one stream.
Conserves(r) == Continues(yielded[r], chunks[r], queue[r])

\* What a call records is a run, which goes on as long as the call is in the
\* table: then its last chunk is the last one the agent wrote.
Recorded(r) ==
  /\ pc[r] = "idle" => chunks[r] = <<>>
  /\ \A i \in 1..Len(chunks[r]) :
       chunks[r][i] \in 1..emitted /\ chunks[r][i] = chunks[r][1] + i - 1
  /\ r \in pending /\ chunks[r] # <<>> => chunks[r][Len(chunks[r])] = emitted

\* An end carries the recorded chunks if it is a dict result, and no text
\* otherwise.
Carries(r, e) ==
  /\ e.kind = "result" => e.text = chunks[r]
  /\ e.kind # "result" => e.text = <<>>

\* An end on its way, or taken, carries what it must, and the call records
\* nothing any more once a dict result was delivered.
Carried(r) ==
  /\ r \in FutureCalls => Carries(r, future[r])
  /\ r \in FutureCalls /\ r \in pending => future[r].kind # "result"
  /\ r \in StreamCalls =>
       \A i \in 1..Len(queue[r]) : queue[r][i].kind # "chunk" => Carries(r, queue[r][i])
  /\ outcome[r].kind = "result" =>
       /\ pc[r] = "done" /\ r \notin pending /\ outcome[r].text = chunks[r]
       /\ r \in StreamCalls => outcome[r].text = yielded[r]

\* One stream is in the table at a time: two streams record no common chunk.
OneStream ==
  /\ \A r, s \in StreamCalls : r \in pending /\ s \in pending => r = s
  /\ \A r, s \in StreamCalls : r # s =>
       \A i \in 1..Len(chunks[r]), j \in 1..Len(chunks[s]) : chunks[r][i] # chunks[s][j]

ChunkInv ==
  /\ TrackInv
  /\ emitted \in 0..MaxChunks
  /\ \A r \in StreamCalls : Conserves(r)
  /\ \A r \in Calls : Recorded(r) /\ Carried(r)
  /\ OneStream

-----------------------------------------------------------------------------
(* The queue of a stream.                                                   *)

\* A chunk that is recorded and queued continues what was shown.
LEMMA ContinuesChunk ==
  ASSUME NEW shown \in Seq(Nat), NEW recorded \in Seq(Nat), NEW q \in Seq(Items),
         NEW k \in Nat, Continues(shown, recorded, q), Len(q) = Len(recorded) - Len(shown)
  PROVE  Continues(shown, Append(recorded, k), Append(q, Event("chunk", <<k>>)))
<1> DEFINE e == Event("chunk", <<k>>)
           c == Append(recorded, k)
           p == Append(q, e)
           given == Len(shown)
           n == Len(recorded)
           left == Len(q)
<1>1. e \in Items
  BY DEF Items, Event
<1>2. left \in Nat /\ n \in Nat /\ given \in Nat
  OBVIOUS
<1>3. /\ Len(c) = n + 1 /\ c[n + 1] = k
      /\ \A i \in 1..n : c[i] = recorded[i]
  OBVIOUS
<1>4. /\ Len(p) = left + 1 /\ p[left + 1] = e
      /\ \A i \in 1..left : p[i] = q[i]
  BY <1>1, AppendProperties
<1>5. /\ given <= n /\ left = n - given
      /\ \A i \in 1..given : shown[i] = recorded[i]
      /\ \A i \in 1..left : q[i] = Event("chunk", <<recorded[given + i]>>)
  BY DEF Continues
<1> HIDE DEF c, p, given, left, n
<1>6. \A i \in 1..given : shown[i] = c[i]
  BY <1>2, <1>3, <1>5
<1>7. ASSUME NEW i \in 1..left + 1 PROVE p[i] = Event("chunk", <<c[given + i]>>)
  <2>1. CASE i = left + 1
    <3>1. given + i = n + 1
      BY <1>2, <1>5, <2>1
    <3> QED BY <1>3, <1>4, <2>1, <3>1
  <2>2. CASE i # left + 1
    <3>1. i \in 1..left /\ given + i \in 1..n
      BY <1>2, <1>5, <2>2
    <3> QED BY <1>3, <1>4, <1>5, <3>1
  <2> QED BY <2>1, <2>2
<1>8. Len(c) - given = left + 1 /\ given <= Len(c)
  BY <1>2, <1>3, <1>5
<1>9. Len(p) = left + 1 /\ left + 1 # left + 1 + 1
  BY <1>2, <1>4
<1>10. Continues(shown, c, p)
  BY <1>6, <1>7, <1>8, <1>9 DEF Continues, given
<1> QED BY <1>10 DEF c, p

\* So does an end behind the last chunk.
LEMMA ContinuesEnd ==
  ASSUME NEW shown \in Seq(Nat), NEW recorded \in Seq(Nat), NEW q \in Seq(Items),
         NEW e \in Items, e.kind \in Terminal,
         Continues(shown, recorded, q), Len(q) = Len(recorded) - Len(shown)
  PROVE  Continues(shown, recorded, Append(q, e))
<1> DEFINE p == Append(q, e)
<1>1. /\ Len(p) = Len(q) + 1 /\ p[Len(q) + 1] = e
      /\ \A i \in 1..Len(q) : p[i] = q[i]
  BY AppendProperties
<1>2. Len(q) \in Nat /\ Len(recorded) \in Nat /\ Len(shown) \in Nat
  OBVIOUS
<1> HIDE DEF p
<1>3. Len(p) = Len(recorded) - Len(shown) + 1 /\ p[Len(p)] = e
  BY <1>1, <1>2
<1>4. Continues(shown, recorded, p)
  BY <1>1, <1>3 DEF Continues
<1> QED BY <1>4 DEF p

\* The head is the next chunk to show, or the end behind the last one.
LEMMA ContinuesHead ==
  ASSUME NEW shown \in Seq(Nat), NEW recorded \in Seq(Nat), NEW q \in Seq(Items),
         Continues(shown, recorded, q), q # <<>>
  PROVE  /\ Head(q).kind = "chunk" =>
              /\ Len(shown) + 1 \in 1..Len(recorded)
              /\ Head(q).text = <<recorded[Len(shown) + 1]>>
         /\ Head(q).kind # "chunk" =>
              shown = recorded /\ Len(q) = 1 /\ Head(q).kind \in Terminal
<1>1. /\ Len(q) \in Nat \ {0} /\ Len(recorded) \in Nat /\ Len(shown) \in Nat
      /\ Head(q) = q[1]
  BY QueueTail
<1>2. Len(shown) <= Len(recorded)
  BY DEF Continues
<1>3. CASE Len(shown) = Len(recorded)
  <2>1. q[1].kind \in Terminal /\ Len(q) = 1
    BY <1>1, <1>3 DEF Continues
  <2>2. shown = recorded
    BY <1>3, SeqEqual DEF Continues
  <2> QED BY <1>1, <2>1, <2>2 DEF Terminal
<1>4. CASE Len(shown) < Len(recorded)
  <2>1. 1 \in 1..Len(recorded) - Len(shown) /\ Len(shown) + 1 \in 1..Len(recorded)
    BY <1>1, <1>4
  <2>2. q[1] = Event("chunk", <<recorded[Len(shown) + 1]>>)
    BY <2>1 DEF Continues
  <2> QED BY <1>1, <2>1, <2>2 DEF Event
<1> QED BY <1>1, <1>2, <1>3, <1>4

\* Showing the head moves it from what is left to what was shown.
LEMMA ContinuesTail ==
  ASSUME NEW shown \in Seq(Nat), NEW recorded \in Seq(Nat), NEW q \in Seq(Items),
         Continues(shown, recorded, q), q # <<>>
  PROVE  IF Head(q).kind = "chunk" THEN Continues(shown \o Head(q).text, recorded, Tail(q))
                                   ELSE Continues(shown, recorded, Tail(q))
<1> DEFINE given == Len(shown)
           n == Len(recorded)
           left == n - given
           m == Len(q)
           p == Tail(q)
<1>1. /\ m \in Nat \ {0} /\ n \in Nat /\ given \in Nat
      /\ Len(p) = m - 1
      /\ \A i \in 1..Len(p) : p[i] = q[i + 1]
  BY QueueTail
<1>2. CASE Head(q).kind = "chunk"
  <2> DEFINE k == recorded[given + 1]
             s == shown \o <<k>>
  <2>1. given + 1 \in 1..n /\ Head(q).text = <<k>>
    BY <1>2, ContinuesHead, Zenon
  <2>2. k \in Nat
    BY <2>1, ElementOfSeq
  <2>3. /\ Len(s) = given + 1 /\ s[given + 1] = k
        /\ \A i \in 1..given : s[i] = shown[i]
    <3> HIDE DEF k
    <3> QED BY <2>2
  <2>4. /\ \A i \in 1..given : shown[i] = recorded[i]
        /\ \A i \in 1..left : q[i] = Event("chunk", <<recorded[given + i]>>)
        /\ m = left \/ m = left + 1
        /\ m = left + 1 => q[m].kind \in Terminal
    BY DEF Continues
  <2>5. k = recorded[given + 1] /\ left = n - given
    OBVIOUS
  <2> HIDE DEF s, p, given, n, left, m, k
  <2>6. \A i \in 1..given + 1 : s[i] = recorded[i]
    BY <1>1, <2>3, <2>4, <2>5
  <2>7. ASSUME NEW i \in 1..left - 1
        PROVE  p[i] = Event("chunk", <<recorded[given + 1 + i]>>)
    <3>1. i + 1 \in 1..left /\ i \in 1..Len(p) /\ given + (i + 1) = given + 1 + i
      BY <1>1, <2>1, <2>4, <2>5
    <3> QED BY <1>1, <2>4, <3>1
  <2>8. /\ n - (given + 1) = left - 1 /\ given + 1 <= n
        /\ Len(p) = left - 1 \/ Len(p) = left - 1 + 1
    BY <1>1, <2>1, <2>4, <2>5
  <2>9. Len(p) = left - 1 + 1 => p[Len(p)].kind \in Terminal
    <3>1. Len(p) = left - 1 + 1 => m = left + 1 /\ Len(p) \in 1..Len(p) /\ Len(p) + 1 = m
      BY <1>1, <2>1, <2>5
    <3> QED BY <1>1, <2>4, <3>1
  <2>10. Continues(s, recorded, p)
    BY <2>3, <2>6, <2>7, <2>8, <2>9 DEF Continues, n
  <2> QED BY <1>2, <2>1, <2>10 DEF s, p
<1>3. CASE Head(q).kind # "chunk"
  <2>1. shown = recorded /\ m = 1
    BY <1>3, ContinuesHead
  <2>2. Len(p) = 0 /\ n - n = 0
    BY <1>1, <2>1
  <2> HIDE DEF p
  <2>3. Continues(shown, recorded, p)
    BY <1>1, <2>1, <2>2 DEF Continues
  <2> QED BY <1>3, <2>3 DEF p
<1> QED BY <1>2, <1>3

\* A stream in the table was delivered no end, so that its queue holds just
\* the chunks that it recorded and did not show.
LEMMA PendingQueue ==
  ASSUME TrackInv, CallsAssumption, NEW r \in StreamCalls, r \in pending, Conserves(r)
  PROVE  /\ Len(queue[r]) = Len(chunks[r]) - Len(yielded[r])
         /\ pc[r] \in Live /\ ~Settled(r)
<1>1. ~Settled(r) /\ r \notin FutureCalls /\ pc[r] \in Live
  BY DEF TrackInv, Tracked, TableEntry, CallsAssumption, Calls
<1>2. queue[r] \in Seq(Items) /\ chunks[r] \in Seq(Nat) /\ yielded[r] \in Seq(Nat)
  BY DEF TrackInv, TypeOK, Items, Calls
<1>3. Len(queue[r]) \in Nat /\ Len(chunks[r]) \in Nat /\ Len(yielded[r]) \in Nat
  BY <1>2
<1>4. ASSUME Len(queue[r]) = Len(chunks[r]) - Len(yielded[r]) + 1 PROVE FALSE
  <2>1. queue[r][Len(queue[r])].kind \in Terminal /\ Len(chunks[r]) >= Len(yielded[r])
    BY <1>4 DEF Conserves, Continues
  <2>2. Len(queue[r]) \in 1..Len(queue[r])
    BY <1>3, <1>4, <2>1
  <2> QED BY <1>1, <2>1, <2>2 DEF Settled, Terminal
<1> QED BY <1>1, <1>4 DEF Conserves, Continues

-----------------------------------------------------------------------------
(* The steps of the client, by what they do to calls and chunks.            *)

\* The agent's next chunk goes to every call in the table.
Grows ==
  /\ emitted < MaxChunks /\ emitted' = emitted + 1
  /\ DeliverChunk(pending, emitted + 1)
  /\ UNCHANGED <<pending, future, pc, outcome, yielded>>

\* Some calls are delivered an end, and with others they leave the table.
Delivers(S, e) ==
  /\ S \subseteq pending /\ pending' \subseteq pending \ S
  /\ Deliver(S, e)
  /\ \A r \in S : Carries(r, e)
  /\ UNCHANGED <<chunks, pc, outcome, yielded, emitted>>

\* A call enters the table, a stream only while it is the only one.
Begins(r) ==
  /\ pc[r] = "idle" /\ pc' = [pc EXCEPT ![r] = "waiting"]
  /\ pending' = pending \cup {r}
  /\ r \in StreamCalls => pending \cap StreamCalls = {}
  /\ UNCHANGED <<chunks, queue, future, outcome, yielded, emitted>>

\* The ends of a call that was refused or not sent, and of one that was made.
Refusals == {"refused", "transport", "valueerror"}
LiveEndings == {"plain", "rpc", "transport", "timeout", "cancelled"}

\* A call ends with e, which it does not take from a stream's queue.
Ends(r, e) ==
  /\ End(r, e)
  /\ pc[r] = "idle" => e.kind \in Refusals
  /\ pc[r] # "idle" => pc[r] \in Live /\ e.kind \in LiveEndings \cup {"result"}
  /\ Carries(r, e)
  /\ e.kind = "result" => r \in FutureCalls /\ r \notin pending
  /\ pending' \subseteq pending
  /\ future' = future \/ future' = [future EXCEPT ![r] = Event("cancelled", <<>>)]
  /\ UNCHANGED <<chunks, queue, yielded, emitted>>

\* Nothing but the state of the bus, a deadline, or a stream between its events.
Rests ==
  /\ \A r \in Calls : pc'[r] # pc[r] => {pc[r], pc'[r]} \subseteq Live
  /\ UNCHANGED <<pending, chunks, queue, future, outcome, yielded, emitted>>

\* A stream takes an item from its queue.
Takes(r) ==
  /\ r \in StreamCalls /\ pc[r] \in Live /\ queue[r] # <<>>
  /\ TakeItem(r)
  /\ UNCHANGED <<chunks, future, emitted>>

\* stop() and a crash deliver a TransportError, which carries no text.
LEMMA FailAllDelivers ==
  ASSUME FailAll, UNCHANGED <<chunks, pc, outcome, yielded, emitted>>
  PROVE  \E e \in [kind : Terminal, text : Seq(Nat)] : Delivers(pending, e)
<1> DEFINE e == Event("transport", <<>>)
<1>1. e \in [kind : Terminal, text : Seq(Nat)]
  BY DEF Event, Terminal
<1>2. \A r \in pending : Carries(r, e)
  BY DEF Carries, Event
<1>3. Deliver(pending, e) /\ pending' = {}
  BY DEF FailAll
<1> HIDE DEF e
<1>4. Delivers(pending, e)
  BY <1>2, <1>3 DEF Delivers
<1> QED BY <1>1, <1>4

\* An end without text is carried by any call.
LEMMA BareEnd ==
  ASSUME NEW r, NEW kind, kind # "result"
  PROVE  Event(kind, <<>>).kind = kind /\ Carries(r, Event(kind, <<>>))
BY DEF Event, Carries

\* Every step is of one of these kinds.
LEMMA StepKinds ==
  ASSUME CallsAssumption, ChunkInv, [Next]_vars
  PROVE  \/ Grows \/ Rests
         \/ \E S \in SUBSET Calls, e \in [kind : Terminal, text : Seq(Nat)] : Delivers(S, e)
         \/ \E r \in Calls : Begins(r) \/ Takes(r)
         \/ \E r \in Calls, e \in [kind : Endings, text : Seq(Nat)] : Ends(r, e)
<1> DEFINE Goal ==
      \/ Grows \/ Rests
      \/ \E S \in SUBSET Calls, e \in [kind : Terminal, text : Seq(Nat)] : Delivers(S, e)
      \/ \E r \in Calls : Begins(r) \/ Takes(r)
      \/ \E r \in Calls, e \in [kind : Endings, text : Seq(Nat)] : Ends(r, e)
<1> USE DEF lifeVars, tableVars, callerVars, agentVars
<1>t. TypeOK /\ \A r \in Calls : Recorded(r) /\ Carried(r)
  BY DEF ChunkInv, TrackInv
<1>d. ASSUME FailAll, UNCHANGED <<chunks, pc, outcome, yielded, emitted>> PROVE Goal
  <2>1. pending \in SUBSET Calls
    BY <1>t DEF TypeOK
  <2> QED BY <1>d, <2>1, FailAllDelivers
<1>b. \A kind \in Endings : Event(kind, <<>>) \in [kind : Endings, text : Seq(Nat)]
  BY DEF Event
<1>e. ASSUME NEW r \in Calls, NEW kind \in LiveEndings, pc[r] \in Live, End(r, Event(kind, <<>>)),
             pending' = Released(r) \/ pending' = pending,
             future' = future \/ future' = [future EXCEPT ![r] = Event("cancelled", <<>>)],
             UNCHANGED <<chunks, queue, yielded, emitted>>
      PROVE  Goal
  <2>1. kind # "result" /\ kind \in Endings
    BY DEF LiveEndings, Endings, Terminal
  <2>2. Event(kind, <<>>).kind = kind /\ Carries(r, Event(kind, <<>>))
    BY <2>1, BareEnd
  <2>3. pc[r] # "idle"
    BY <1>e DEF Live
  <2>4. Ends(r, Event(kind, <<>>))
    BY <1>e, <2>1, <2>2, <2>3 DEF Ends, Released
  <2> QED BY <1>b, <2>1, <2>4
<1>1. CASE Start \/ StartReturns \/ StopReturns \/ Destroy
  BY <1>1 DEF Start, StartReturns, StopReturns, Destroy, Rests
<1>2. CASE Stop
  BY <1>2, <1>d DEF Stop
<1>3. CASE ReadLoopEnds
  <2>1. CASE backend = "RUNNING"
    BY <1>3, <1>d, <2>1 DEF ReadLoopEnds
  <2>2. CASE backend # "RUNNING"
    BY <1>3, <2>2 DEF ReadLoopEnds, Rests
  <2> QED BY <2>1, <2>2
<1>4. CASE ReceiveChunk
  BY <1>4 DEF ReceiveChunk, Grows
<1>5. ASSUME NEW r \in Calls, ReceiveResponse(r) PROVE Goal
  <2>1. CASE UNCHANGED <<pending, queue, future>>
    BY <1>5, <2>1 DEF ReceiveResponse, Rests
  <2>2. ASSUME NEW kind \in Terminal, r \in pending, pending' = Answered(r),
               Deliver({r}, Answer(r, kind))
        PROVE  Goal
    <3>1. Answer(r, kind) \in [kind : Terminal, text : Seq(Nat)]
      BY <1>t DEF Answer, Event, TypeOK
    <3>2. Carries(r, Answer(r, kind))
      BY DEF Carries, Answer, Event
    <3>3. Delivers({r}, Answer(r, kind))
      BY <1>5, <2>2, <3>2 DEF Delivers, ReceiveResponse, Answered
    <3> QED BY <3>1, <3>3
  <2>3. CASE r \in pending /\ pending' = Answered(r) /\ UNCHANGED <<queue, future>>
    <3> DEFINE e == Event("transport", <<>>)
    <3>1. e \in [kind : Terminal, text : Seq(Nat)]
      BY DEF Event, Terminal
    <3>2. Deliver({}, e)
      BY <1>t, <2>3 DEF Deliver, TypeOK
    <3>3. Delivers({}, e)
      BY <1>5, <2>3, <3>2 DEF Delivers, ReceiveResponse, Answered
    <3> QED BY <3>1, <3>3
  <2> QED BY <1>5, <2>1, <2>2, <2>3 DEF ReceiveResponse, Terminal
<1>6. ASSUME NEW r \in Calls, Call(r) PROVE Goal
  <2>1. CASE pc' = [pc EXCEPT ![r] = "waiting"] /\ pending' = pending \cup {r} /\ ~Refused(r)
             /\ UNCHANGED outcome
    BY <1>6, <2>1 DEF Call, Begins, Refused, StreamActive
  <2>2. ASSUME NEW kind \in Refusals, End(r, Event(kind, <<>>)), UNCHANGED pending
        PROVE  Goal
    <3>1. kind # "result" /\ kind \in Endings
      BY DEF Refusals, Endings, Terminal
    <3>2. Event(kind, <<>>).kind = kind /\ Carries(r, Event(kind, <<>>))
      BY <3>1, BareEnd
    <3>3. Ends(r, Event(kind, <<>>))
      BY <1>6, <2>2, <3>1, <3>2 DEF Ends, Call
    <3> QED BY <1>b, <3>1, <3>3
  <2> QED BY <1>6, <2>1, <2>2 DEF Call, Refusals
<1>7. ASSUME NEW r \in Calls, Expire(r) PROVE Goal
  BY <1>7 DEF Expire, Rests
<1>8. ASSUME NEW r \in Calls, RequestReturns(r) PROVE Goal
  <2>1. /\ future[r] \in [kind : Terminal \cup {"none", "cancelled"}, text : Seq(Nat)]
        /\ Carries(r, future[r])
        /\ future[r].kind = "result" => r \notin pending
    BY <1>8, <1>t DEF RequestReturns, TypeOK, Carried
  <2>2. future[r].kind # "none"
    <3>1. ASSUME future[r].kind = "none" PROVE future[r] = Nothing
      BY <2>1, <3>1 DEF Carries, Nothing, Event
    <3> QED BY <1>8, <3>1 DEF RequestReturns
  <2>3. future[r] \in [kind : Endings, text : Seq(Nat)] /\ future[r].kind \in LiveEndings \cup {"result"}
    BY <2>1, <2>2 DEF Endings, LiveEndings, Terminal
  <2>4. Ends(r, future[r])
    BY <1>8, <2>1, <2>3 DEF RequestReturns, Ends, Released, Live
  <2> QED BY <2>3, <2>4
<1>9. ASSUME NEW r \in Calls,
             \/ RequestTimesOut(r) \/ StreamTimesOut(r) \/ CancelStream(r) \/ FinalizeStream(r)
             \/ CancelRequest(r)
      PROVE  Goal
  BY <1>9, <1>e
     DEF RequestTimesOut, StreamTimesOut, CancelStream, FinalizeStream, CancelRequest,
         LiveEndings, Live
<1>10. ASSUME NEW r \in Calls, StreamResumes(r) PROVE Goal
  BY <1>10 DEF StreamResumes, Takes, Live
<1>11. ASSUME NEW r \in Calls, StreamAwaits(r) PROVE Goal
  <2>1. CASE expired[r]
    BY <1>11, <1>e, <2>1 DEF StreamAwaits, LiveEndings, Live
  <2>2. CASE ~expired[r]
    BY <1>11, <1>t, <2>2 DEF StreamAwaits, Rests, Live, TypeOK
  <2> QED BY <2>1, <2>2
<1>12. ASSUME NEW r \in Calls, Abandon(r) PROVE Goal
  BY <1>12, <1>t DEF Abandon, Rests, Live, TypeOK
<1>13. CASE UNCHANGED vars
  BY <1>13 DEF vars, Rests
<1> QED
  BY <1>1, <1>2, <1>3, <1>4, <1>5, <1>6, <1>7, <1>8, <1>9, <1>10, <1>11, <1>12, <1>13 DEF Next

-----------------------------------------------------------------------------
(* Each part of the invariant is kept by each kind of step.                 *)

\* The types of what one stream, or one call, keeps of the chunks.
LEMMA ChunkTypes ==
  ASSUME TypeOK
  PROVE  /\ \A r \in Calls : chunks[r] \in Seq(Nat)
         /\ \A r \in StreamCalls :
              r \in Calls /\ queue[r] \in Seq(Items) /\ yielded[r] \in Seq(Nat)
BY DEF TypeOK, Items, Calls

\* A stream's queue keeps continuing what it showed.
LEMMA ConservesStep ==
  ASSUME CallsAssumption, ChunkInv, [Next]_vars, NEW r \in StreamCalls
  PROVE  Conserves(r)'
<1>t. TrackInv /\ TypeOK /\ emitted + 1 \in Nat /\ Conserves(r)
  <2>1. emitted \in Nat
    BY DEF ChunkInv, TrackInv, TypeOK
  <2> QED BY <2>1 DEF ChunkInv, TrackInv
<1>y. /\ r \in Calls /\ queue[r] \in Seq(Items)
      /\ chunks[r] \in Seq(Nat) /\ yielded[r] \in Seq(Nat)
  BY <1>t, ChunkTypes
<1>p. r \in pending => Len(queue[r]) = Len(chunks[r]) - Len(yielded[r])
  BY <1>t, PendingQueue
<1>1. CASE Grows
  <2>1. yielded'[r] = yielded[r]
    BY <1>1 DEF Grows
  <2>2. CASE r \in pending
    <3>1. /\ chunks'[r] = Append(chunks[r], emitted + 1)
          /\ queue'[r] = Append(queue[r], Event("chunk", <<emitted + 1>>))
      BY <1>1, <1>y, <2>2 DEF Grows, DeliverChunk
    <3> QED BY <1>t, <1>y, <1>p, <2>1, <2>2, <3>1, ContinuesChunk DEF Conserves
  <2>3. CASE r \notin pending
    <3>1. chunks'[r] = chunks[r] /\ queue'[r] = queue[r]
      BY <1>1, <1>y, <2>3 DEF Grows, DeliverChunk
    <3> QED BY <1>t, <2>1, <3>1 DEF Conserves
  <2> QED BY <2>2, <2>3
<1>2. ASSUME NEW S \in SUBSET Calls, NEW e \in [kind : Terminal, text : Seq(Nat)], Delivers(S, e)
      PROVE  Conserves(r)'
  <2>1. yielded' = yielded /\ chunks' = chunks
    BY <1>2 DEF Delivers
  <2>2. CASE r \in S
    <3>1. queue'[r] = Append(queue[r], e) /\ r \in pending
      BY <1>2, <2>2 DEF Delivers, Deliver
    <3>2. e \in Items
      BY DEF Items
    <3> QED BY <1>t, <1>y, <1>p, <2>1, <3>1, <3>2, ContinuesEnd DEF Conserves
  <2>3. CASE r \notin S
    <3>1. queue'[r] = queue[r]
      BY <1>2, <2>3 DEF Delivers, Deliver
    <3> QED BY <1>t, <2>1, <3>1 DEF Conserves
  <2> QED BY <2>2, <2>3
<1>3. ASSUME NEW x \in Calls, Takes(x) PROVE Conserves(r)'
  <2>1. chunks' = chunks
    BY <1>3 DEF Takes
  <2>2. CASE x = r
    <3>1. queue'[r] = Tail(queue[r]) /\ queue[r] # <<>>
      BY <1>3, <1>t, <2>2 DEF Takes, TakeItem, TypeOK
    <3>2. yielded'[r] = IF Head(queue[r]).kind = "chunk"
                          THEN yielded[r] \o Head(queue[r]).text ELSE yielded[r]
      BY <1>3, <1>t, <2>2 DEF Takes, TakeItem, TypeOK
    <3> QED BY <1>t, <1>y, <2>1, <3>1, <3>2, ContinuesTail DEF Conserves
  <2>3. CASE x # r
    <3>1. queue'[r] = queue[r] /\ yielded'[r] = yielded[r]
      BY <1>3, <1>t, <2>3 DEF Takes, TakeItem, TypeOK
    <3> QED BY <1>t, <2>1, <3>1 DEF Conserves
  <2> QED BY <2>2, <2>3
<1>4. CASE UNCHANGED <<chunks, queue, yielded>>
  BY <1>4, <1>t DEF Conserves
<1> QED BY <1>1, <1>2, <1>3, <1>4, StepKinds DEF Begins, Ends, Rests

\* A call that is not made yet is not in the table and was delivered no end.
LEMMA IdleCall ==
  ASSUME TrackInv, NEW r \in Calls, pc[r] = "idle"
  PROVE  r \notin pending /\ ~Settled(r)
BY DEF TrackInv, Tracked, TableEntry, FreshCall, Live

\* What a call records stays a run.
LEMMA RecordedStep ==
  ASSUME CallsAssumption, ChunkInv, [Next]_vars, NEW r \in Calls
  PROVE  Recorded(r)'
<1>t. TrackInv /\ TypeOK /\ emitted \in Nat /\ Recorded(r) /\ chunks[r] \in Seq(Nat)
  BY DEF ChunkInv, TrackInv, TypeOK
<1>1. CASE Grows
  <2>0. emitted' = emitted + 1 /\ pending' = pending /\ pc' = pc
    BY <1>1 DEF Grows
  <2>1. CASE r \notin pending
    <3>1. chunks'[r] = chunks[r]
      BY <1>1, <2>1 DEF Grows, DeliverChunk
    <3> QED BY <1>t, <2>0, <2>1, <3>1 DEF Recorded
  <2>2. CASE r \in pending
    <3> DEFINE c == chunks[r]
               n == Len(c)
               d == chunks'[r]
    <3>1. d = Append(c, emitted + 1) /\ pc[r] # "idle"
      BY <1>1, <1>t, <2>2, IdleCall DEF Grows, DeliverChunk
    <3>2. /\ n \in Nat /\ Len(d) = n + 1 /\ d[n + 1] = emitted + 1
          /\ \A i \in 1..n : d[i] = c[i]
      BY <1>t, <3>1, AppendProperties
    <3>3. /\ \A i \in 1..n : c[i] \in 1..emitted /\ c[i] = c[1] + i - 1
          /\ c # <<>> => c[n] = emitted
      BY <1>t, <2>2 DEF Recorded
    <3>4. n # 0 => c # <<>>
      OBVIOUS
    <3> HIDE DEF c, n, d
    <3>5. ASSUME NEW i \in 1..n + 1
          PROVE  d[i] \in 1..emitted + 1 /\ d[i] = d[1] + i - 1
      <4>1. CASE i \in 1..n
        <5>1. d[i] = c[i] /\ d[1] = c[1]
          BY <3>2, <4>1
        <5> QED BY <1>t, <3>3, <4>1, <5>1
      <4>2. CASE i = n + 1 /\ n = 0
        BY <1>t, <3>2, <4>2
      <4>3. CASE i = n + 1 /\ n # 0
        <5>1. d[1] = c[1] /\ c[n] = c[1] + n - 1 /\ c[n] = emitted /\ c[1] \in 1..emitted
          BY <3>2, <3>3, <3>4, <4>3
        <5>2. emitted \in Nat /\ c[1] \in Int /\ emitted = c[1] + n - 1
          BY <1>t, <5>1
        <5>3. emitted + 1 = c[1] + (n + 1) - 1
          BY <3>2, <5>2
        <5>4. emitted + 1 \in 1..emitted + 1
          BY <5>2
        <5> QED BY <3>2, <4>3, <5>1, <5>3, <5>4
      <4> QED BY <3>2, <4>1, <4>2, <4>3
    <3>6. d[Len(d)] = emitted + 1
      BY <3>2
    <3> QED BY <2>0, <3>1, <3>2, <3>5, <3>6 DEF Recorded, d
  <2> QED BY <2>1, <2>2
<1>2. ASSUME chunks' = chunks, emitted' = emitted, r \in pending' => r \in pending \/ pc[r] = "idle",
             pc'[r] = "idle" => pc[r] = "idle"
      PROVE  Recorded(r)'
  BY <1>2, <1>t DEF Recorded
<1>3. ASSUME NEW S, NEW e, Delivers(S, e) PROVE Recorded(r)'
  BY <1>2, <1>3 DEF Delivers
<1>4. ASSUME NEW x \in Calls, Begins(x) PROVE Recorded(r)'
  <2>1. pc'[r] = "idle" => pc[r] = "idle"
    BY <1>4, <1>t DEF Begins, TypeOK
  <2> QED BY <1>2, <1>4, <2>1 DEF Begins
<1>5. ASSUME NEW x \in Calls, NEW e, Ends(x, e) PROVE Recorded(r)'
  <2>1. pc'[r] = "idle" => pc[r] = "idle"
    BY <1>5, <1>t DEF Ends, End, TypeOK
  <2> QED BY <1>2, <1>5, <2>1 DEF Ends
<1>6. ASSUME NEW x \in Calls, Takes(x) PROVE Recorded(r)'
  <2>1. pc'[r] = "idle" => pc[r] = "idle"
    BY <1>6, <1>t DEF Takes, TakeItem, End, TypeOK
  <2>2. pending' \subseteq pending
    BY <1>6 DEF Takes, TakeItem, Released
  <2> QED BY <1>2, <1>6, <2>1, <2>2 DEF Takes
<1>7. CASE Rests
  BY <1>2, <1>7 DEF Rests, Live
<1> QED BY <1>1, <1>3, <1>4, <1>5, <1>6, <1>7, StepKinds

\* The streams keep recording different chunks.
LEMMA OneStreamStep ==
  ASSUME CallsAssumption, ChunkInv, [Next]_vars
  PROVE  OneStream'
<1>t. /\ TypeOK /\ OneStream /\ emitted \in Nat
      /\ \A r \in StreamCalls : Recorded(r) /\ chunks[r] \in Seq(Nat)
  BY DEF ChunkInv, TrackInv, TypeOK, Calls
<1>1. CASE Grows
  <2>1. pending' = pending
    BY <1>1 DEF Grows
  <2>2. ASSUME NEW r \in StreamCalls, NEW i \in 1..Len(chunks'[r])
        PROVE  \/ i \in 1..Len(chunks[r]) /\ chunks'[r][i] = chunks[r][i]
               \/ r \in pending /\ chunks'[r][i] = emitted + 1
    <3>1. CASE r \in pending
      <4>1. chunks'[r] = Append(chunks[r], emitted + 1)
        BY <1>1, <3>1 DEF Grows, DeliverChunk, Calls
      <4>2. /\ Len(chunks'[r]) = Len(chunks[r]) + 1 /\ Len(chunks[r]) \in Nat
            /\ chunks'[r][Len(chunks[r]) + 1] = emitted + 1
            /\ \A j \in 1..Len(chunks[r]) : chunks'[r][j] = chunks[r][j]
        BY <1>t, <4>1, AppendProperties
      <4>3. i \in 1..Len(chunks[r]) \/ i = Len(chunks[r]) + 1
        BY <4>2
      <4> QED BY <3>1, <4>2, <4>3
    <3>2. CASE r \notin pending
      <4>1. chunks'[r] = chunks[r]
        BY <1>1, <3>2 DEF Grows, DeliverChunk, Calls
      <4> QED BY <4>1
    <3> QED BY <3>1, <3>2
  <2>3. ASSUME NEW r \in StreamCalls, NEW i \in 1..Len(chunks[r])
        PROVE  chunks[r][i] # emitted + 1
    <3>1. chunks[r][i] \in 1..emitted
      BY <1>t DEF Recorded
    <3> QED BY <1>t, <3>1
  <2>4. ASSUME NEW r \in StreamCalls, NEW s \in StreamCalls, r # s,
               NEW i \in 1..Len(chunks'[r]), NEW j \in 1..Len(chunks'[s])
        PROVE  chunks'[r][i] # chunks'[s][j]
    <3>1. ~(r \in pending /\ s \in pending)
      BY <1>t, <2>4 DEF OneStream
    <3>2. \/ i \in 1..Len(chunks[r]) /\ chunks'[r][i] = chunks[r][i]
          \/ r \in pending /\ chunks'[r][i] = emitted + 1
      BY <2>2
    <3>3. \/ j \in 1..Len(chunks[s]) /\ chunks'[s][j] = chunks[s][j]
          \/ s \in pending /\ chunks'[s][j] = emitted + 1
      BY <2>2
    <3> QED BY <1>t, <2>3, <2>4, <3>1, <3>2, <3>3 DEF OneStream
  <2> QED BY <1>t, <2>1, <2>4 DEF OneStream
<1>2. ASSUME NEW x \in Calls, Begins(x) PROVE OneStream'
  BY <1>2, <1>t DEF Begins, OneStream
<1>3. CASE pending' \subseteq pending /\ chunks' = chunks
  BY <1>3, <1>t DEF OneStream
<1> QED BY <1>1, <1>2, <1>3, StepKinds DEF Delivers, Ends, Rests, Takes, TakeItem, Released

\* A call keeps its ends true to what it recorded.
LEMMA CarriedStep ==
  ASSUME CallsAssumption, ChunkInv, [Next]_vars, NEW r \in Calls
  PROVE  Carried(r)'
<1>t. TrackInv /\ TypeOK /\ Carried(r) /\ Tracked(r)
  BY DEF ChunkInv, TrackInv
<1>y. r \in StreamCalls => queue[r] \in Seq(Items) /\ r \notin FutureCalls
  BY <1>t, ChunkTypes DEF CallsAssumption
<1>1. CASE Grows
  <2>0. UNCHANGED <<pending, future, pc, outcome, yielded>>
    BY <1>1 DEF Grows
  <2>1. CASE r \notin pending
    <3>1. chunks'[r] = chunks[r] /\ (r \in StreamCalls => queue'[r] = queue[r])
      BY <1>1, <2>1 DEF Grows, DeliverChunk
    <3> QED BY <1>t, <2>0, <3>1 DEF Carried, Carries
  <2>2. CASE r \in pending
    <3>1. r \in FutureCalls => future[r].kind # "result" /\ future[r].text = <<>>
      BY <1>t, <2>2 DEF Carried, Carries
    <3>2. outcome[r].kind # "result"
      BY <1>t, <2>2 DEF Carried
    <3>3. ASSUME r \in StreamCalls
          PROVE  \A i \in 1..Len(queue'[r]) : queue'[r][i].kind = "chunk"
      <4>1. emitted + 1 \in Nat /\ pending \in SUBSET Calls
        BY <1>t DEF TypeOK
      <4>2. ~Settled(r)'
        BY <1>1, <1>t, <1>y, <2>0, <2>2, <3>3, <4>1, ChunkSettlesNone DEF Grows, Tracked, TableEntry
      <4> QED BY <1>y, <3>3, <4>2 DEF Settled
    <3> QED BY <2>0, <2>2, <3>1, <3>2, <3>3 DEF Carried, Carries
  <2> QED BY <2>1, <2>2
<1>2. ASSUME NEW S \in SUBSET Calls, NEW e \in [kind : Terminal, text : Seq(Nat)], Delivers(S, e)
      PROVE  Carried(r)'
  <2>0. UNCHANGED <<chunks, pc, outcome, yielded>> /\ (r \in pending' => r \in pending /\ r \notin S)
    BY <1>2 DEF Delivers
  <2>1. CASE r \notin S
    <3>1. /\ r \in StreamCalls => queue'[r] = queue[r]
          /\ r \in FutureCalls => future'[r] = future[r]
      BY <1>2, <2>1 DEF Delivers, Deliver
    <3> QED BY <1>t, <2>0, <3>1 DEF Carried, Carries
  <2>2. CASE r \in S
    <3>1. Carries(r, e) /\ r \notin pending'
      BY <1>2, <2>0, <2>2 DEF Delivers
    <3>2. r \in FutureCalls => Carries(r, future'[r])
      BY <1>2, <1>t, <3>1 DEF Delivers, Deliver, Carried
    <3>3. ASSUME r \in StreamCalls, NEW i \in 1..Len(queue'[r]), queue'[r][i].kind # "chunk"
          PROVE  Carries(r, queue'[r][i])
      <4>1. queue'[r] = Append(queue[r], e) /\ e \in Items
        BY <1>2, <2>2, <3>3 DEF Delivers, Deliver, Items
      <4>2. /\ Len(queue'[r]) = Len(queue[r]) + 1 /\ Len(queue[r]) \in Nat
            /\ queue'[r][Len(queue[r]) + 1] = e
            /\ \A j \in 1..Len(queue[r]) : queue'[r][j] = queue[r][j]
        BY <1>y, <3>3, <4>1, AppendProperties
      <4>3. i \in 1..Len(queue[r]) \/ i = Len(queue[r]) + 1
        BY <4>2
      <4> QED BY <1>t, <3>1, <3>3, <4>2, <4>3 DEF Carried
    <3> QED BY <1>t, <2>0, <3>1, <3>2, <3>3 DEF Carried, Carries
  <2> QED BY <2>1, <2>2
<1>3. ASSUME NEW x \in Calls, Begins(x) PROVE Carried(r)'
  <2>1. UNCHANGED <<chunks, queue, future, outcome, yielded>>
    BY <1>3 DEF Begins
  <2>2. CASE x = r
    <3>1. pc[r] = "idle" /\ outcome[r].kind # "result"
      BY <1>3, <1>t, <2>2 DEF Begins, Carried
    <3>2. r \in FutureCalls => future[r].kind # "result"
      BY <1>t, <3>1, IdleCall DEF Settled, Nothing, Event
    <3> QED BY <1>t, <2>1, <3>1, <3>2 DEF Carried, Carries
  <2>3. CASE x # r
    <3>1. pc'[r] = pc[r] /\ (r \in pending' <=> r \in pending)
      BY <1>3, <1>t, <2>3 DEF Begins, TypeOK
    <3> QED BY <1>t, <2>1, <3>1 DEF Carried, Carries
  <2> QED BY <2>2, <2>3
<1>4. ASSUME NEW x \in Calls, NEW e \in [kind : Endings, text : Seq(Nat)], Ends(x, e)
      PROVE  Carried(r)'
  <2>1. UNCHANGED <<chunks, queue, yielded>> /\ (r \in pending' => r \in pending)
    BY <1>4 DEF Ends
  <2>2. ASSUME r \in FutureCalls
        PROVE  Carries(r, future'[r]) /\ (r \in pending' => future'[r].kind # "result")
    <3>1. future'[r] = future[r] \/ future'[r] = Event("cancelled", <<>>)
      BY <1>4, <1>t, <2>2 DEF Ends, TypeOK
    <3> QED BY <1>t, <2>1, <2>2, <3>1 DEF Carried, Carries, Event
  <2>3. CASE x = r
    <3>1. pc'[r] = "done" /\ outcome'[r] = e
      BY <1>4, <1>t, <2>3 DEF Ends, End, TypeOK
    <3>2. e.kind = "result" => e.text = chunks[r] /\ r \notin pending /\ r \notin StreamCalls
      BY <1>4, <1>y, <2>3 DEF Ends, Carries
    <3> QED BY <1>t, <2>1, <2>2, <3>1, <3>2 DEF Carried, Carries
  <2>4. CASE x # r
    <3>1. pc'[r] = pc[r] /\ outcome'[r] = outcome[r]
      BY <1>4, <1>t, <2>4 DEF Ends, End, TypeOK
    <3> QED BY <1>t, <2>1, <2>2, <3>1 DEF Carried, Carries
  <2> QED BY <2>3, <2>4
<1>5. ASSUME NEW x \in Calls, Takes(x) PROVE Carried(r)'
  <2>1. UNCHANGED <<chunks, future>> /\ (r \in pending' => r \in pending)
    BY <1>5 DEF Takes, TakeItem, Released
  <2>2. CASE x # r
    <3>1. /\ pc'[r] = pc[r] /\ outcome'[r] = outcome[r]
          /\ r \in StreamCalls => queue'[r] = queue[r] /\ yielded'[r] = yielded[r]
      BY <1>5, <1>t, <2>2 DEF Takes, TakeItem, End, TypeOK
    <3> QED BY <1>t, <2>1, <3>1 DEF Carried, Carries
  <2>3. CASE x = r
    <3>0. r \in StreamCalls /\ pc[r] \in Live /\ queue[r] # <<>> /\ r \notin FutureCalls
      BY <1>5, <1>y, <2>3 DEF Takes
    <3>1. queue'[r] = Tail(queue[r])
      BY <1>5, <1>t, <2>3 DEF Takes, TakeItem, TypeOK
    <3>2. /\ Len(queue[r]) \in Nat \ {0} /\ Len(queue'[r]) = Len(queue[r]) - 1
          /\ \A i \in 1..Len(queue'[r]) : queue'[r][i] = queue[r][i + 1]
          /\ Head(queue[r]) = queue[r][1]
      BY <1>y, <3>0, <3>1, QueueTail
    <3>3. ASSUME NEW i \in 1..Len(queue'[r]), queue'[r][i].kind # "chunk"
          PROVE  Carries(r, queue'[r][i])
      <4>1. i + 1 \in 1..Len(queue[r]) /\ queue'[r][i] = queue[r][i + 1]
        BY <3>2
      <4> QED BY <1>t, <3>0, <3>3, <4>1 DEF Carried
    <3>4. CASE Head(queue[r]).kind = "chunk"
      <4>1. outcome' = outcome /\ outcome[r].kind # "result"
        BY <1>5, <1>t, <2>3, <3>0, <3>4 DEF Takes, TakeItem, Carried, Live
      <4> QED BY <2>1, <3>0, <3>3, <4>1 DEF Carried, Carries
    <3>5. CASE Head(queue[r]).kind # "chunk"
      <4>1. /\ pc'[r] = "done" /\ outcome'[r] = Head(queue[r]) /\ r \notin pending'
            /\ yielded' = yielded
        BY <1>5, <1>t, <2>3, <3>5 DEF Takes, TakeItem, End, Released, TypeOK
      <4>2. Carries(r, Head(queue[r]))
        BY <1>t, <3>0, <3>2, <3>5 DEF Carried
      <4>3. yielded[r] = chunks[r]
        BY <1>t, <1>y, <3>0, <3>5, ChunkTypes, ContinuesHead DEF ChunkInv, Conserves
      <4> QED BY <2>1, <3>0, <3>3, <4>1, <4>2, <4>3 DEF Carried, Carries
    <3> QED BY <3>4, <3>5
  <2> QED BY <2>2, <2>3
<1>6. CASE Rests
  <2>1. pc[r] = "done" => pc'[r] = "done"
    BY <1>6 DEF Rests, Live
  <2> QED BY <1>6, <1>t, <2>1 DEF Rests, Carried, Carries
<1> QED BY <1>1, <1>2, <1>3, <1>4, <1>5, <1>6, StepKinds

\* Initially nothing is written, recorded or delivered.
LEMMA ChunkInit == ChunksAssumption /\ CallsAssumption /\ Init => ChunkInv
<1> SUFFICES ASSUME ChunksAssumption, CallsAssumption, Init PROVE ChunkInv
  OBVIOUS
<1>1. Len(<<>>) = 0 /\ 1..0 = {} /\ 0 - 0 = 0
  OBVIOUS
<1>2. \A r \in StreamCalls : Conserves(r)
  <2> SUFFICES ASSUME NEW r \in StreamCalls PROVE Conserves(r)
    OBVIOUS
  <2>1. yielded[r] = <<>> /\ chunks[r] = <<>> /\ queue[r] = <<>>
    BY DEF Init, Calls
  <2> QED BY <1>1, <2>1 DEF Conserves, Continues
<1>3. \A r \in Calls : Recorded(r) /\ Carried(r)
  <2> SUFFICES ASSUME NEW r \in Calls PROVE Recorded(r) /\ Carried(r)
    OBVIOUS
  <2>1. chunks[r] = <<>> /\ outcome[r] = Nothing /\ r \notin pending
    BY DEF Init
  <2>2. Recorded(r)
    BY <1>1, <2>1 DEF Recorded
  <2>3. r \in StreamCalls => queue[r] = <<>>
    BY DEF Init
  <2>4. r \in FutureCalls => future[r] = Nothing
    BY DEF Init
  <2>5. Carried(r)
    BY <1>1, <2>1, <2>3, <2>4 DEF Carried, Carries, Nothing, Event
  <2> QED BY <2>2, <2>5
<1>4. OneStream
  BY <1>1 DEF OneStream, Init, Calls
<1>5. emitted \in 0..MaxChunks
  BY DEF Init, ChunksAssumption
<1> QED BY <1>2, <1>3, <1>4, <1>5, TrackInit DEF ChunkInv

\* Every step keeps the invariant.
LEMMA ChunkStep == CallsAssumption /\ ChunksAssumption /\ ChunkInv /\ [Next]_vars => ChunkInv'
<1> SUFFICES ASSUME CallsAssumption, ChunksAssumption, ChunkInv, [Next]_vars PROVE ChunkInv'
  OBVIOUS
<1>1. TrackInv'
  BY TrackStep DEF ChunkInv
<1>2. emitted' \in 0..MaxChunks
  <2>1. emitted' = emitted \/ (emitted < MaxChunks /\ emitted' = emitted + 1)
    BY StepKinds DEF Grows, Rests, Delivers, Begins, Takes, Ends
  <2> QED BY <2>1 DEF ChunkInv, ChunksAssumption
<1> QED
  BY <1>1, <1>2, ConservesStep, RecordedStep, OneStreamStep, CarriedStep DEF ChunkInv

LEMMA ChunkAlways == Spec => []ChunkInv
BY ChunkInit, ChunkStep, CallsAssumption, ChunksAssumption, PTL DEF Spec

\* A stream's consumer misses no chunk, gets none twice and none out of order,
\* for any number of calls and chunks, however the agent, the reads of the
\* consumer, stop() and crashes interleave.
THEOREM ChunksConserved == Spec => []StreamConserves
<1>1. ChunkInv => StreamConserves
  <2> SUFFICES ASSUME ChunkInv, NEW r \in StreamCalls
               PROVE  LET given == Len(yielded[r])
                          left == Len(chunks[r]) - given IN
                      /\ given <= Len(chunks[r])
                      /\ Len(queue[r]) \in {left, left + 1}
                      /\ \A i \in 1..given : yielded[r][i] = chunks[r][i]
                      /\ \A i \in 1..Len(queue[r]) :
                           IF i <= left THEN queue[r][i] = Event("chunk", <<chunks[r][given + i]>>)
                                        ELSE queue[r][i].kind \in Terminal
    BY DEF StreamConserves
  <2> DEFINE given == Len(yielded[r])
             n == Len(chunks[r])
             m == Len(queue[r])
  <2>1. given \in Nat /\ n \in Nat /\ m \in Nat
    BY ChunkTypes DEF ChunkInv, TrackInv
  <2>2. Conserves(r)
    BY DEF ChunkInv
  <2>3. /\ given <= n /\ (m = n - given \/ m = n - given + 1)
        /\ \A i \in 1..given : yielded[r][i] = chunks[r][i]
        /\ \A i \in 1..n - given : queue[r][i] = Event("chunk", <<chunks[r][given + i]>>)
        /\ m = n - given + 1 => queue[r][m].kind \in Terminal
    BY <2>2 DEF Conserves, Continues
  <2> HIDE DEF given, n, m
  <2>4. ASSUME NEW i \in 1..m
        PROVE  IF i <= n - given THEN queue[r][i] = Event("chunk", <<chunks[r][given + i]>>)
                                 ELSE queue[r][i].kind \in Terminal
    <3>1. CASE i <= n - given
      BY <2>1, <2>3, <3>1
    <3>2. CASE ~(i <= n - given)
      <4>1. i = m /\ m = n - given + 1
        BY <2>1, <2>3, <3>2
      <4> QED BY <2>3, <3>2, <4>1
    <3> QED BY <3>1, <3>2
  <2> QED BY <2>3, <2>4 DEF given, n, m
<1> QED BY <1>1, ChunkAlways, PTL

\* What a call records is an unbroken run of the agent's chunks, and a dict
\* result carries exactly that run, which a stream's consumer was given
\* before it.
THEOREM ResultsAreExact == Spec => []ResultCarriesItsChunks
<1>1. ChunkInv => ResultCarriesItsChunks
  <2> SUFFICES ASSUME ChunkInv, NEW r \in Calls
               PROVE  /\ IsARun(chunks[r])
                      /\ outcome[r].kind = "result" =>
                           /\ outcome[r].text = chunks[r]
                           /\ r \in StreamCalls => outcome[r].text = yielded[r]
    BY DEF ResultCarriesItsChunks
  <2>1. Recorded(r) /\ Carried(r) /\ emitted \in Nat
    BY DEF ChunkInv, TrackInv, TypeOK
  <2>2. IsARun(chunks[r])
    BY <2>1 DEF Recorded, IsARun
  <2> QED BY <2>1, <2>2 DEF Carried
<1> QED BY <1>1, ChunkAlways, PTL

-----------------------------------------------------------------------------
(* Every step of the client is a step of the contract of its callers.       *)

\* An unbroken run of written chunks is one of the texts of a dict result.
LEMMA RunIsAText ==
  ASSUME ChunksAssumption, emitted \in 0..MaxChunks, NEW text \in Seq(Nat),
         \A i \in 1..Len(text) : text[i] \in 1..emitted /\ text[i] = text[1] + i - 1
  PROVE  text \in Contract!Runs
<1> DEFINE n == Len(text)
           k == IF n = 0 THEN 0 ELSE text[1] - 1
<1>1. n \in Nat /\ text = [i \in 1..n |-> text[i]]
  OBVIOUS
<1>2. \A i \in 1..n : text[i] \in 1..emitted /\ text[i] = text[1] + i - 1
  OBVIOUS
<1>3. emitted \in Nat /\ emitted <= MaxChunks /\ MaxChunks \in Nat
  BY DEF ChunksAssumption
<1> HIDE DEF n
<1>4. n \in 0..MaxChunks /\ k \in 0..MaxChunks
  <2>1. CASE n = 0
    BY <1>3, <2>1
  <2>2. CASE n # 0
    <3>1. 1 \in 1..n /\ n \in 1..n
      BY <1>1, <2>2
    <3>2. text[1] \in 1..emitted /\ text[n] \in 1..emitted /\ text[n] = text[1] + n - 1
      BY <1>2, <3>1
    <3> QED BY <1>1, <1>3, <2>2, <3>2
  <2> QED BY <2>1, <2>2
<1>5. \A i \in 1..n : text[i] = k + i
  <2> SUFFICES ASSUME NEW i \in 1..n PROVE text[i] = k + i
    OBVIOUS
  <2>1. 1 \in 1..n /\ n # 0
    BY <1>1
  <2>2. text[1] \in 1..emitted /\ text[i] = text[1] + i - 1
    BY <1>2, <2>1
  <2> QED BY <1>1, <1>3, <2>1, <2>2
<1> HIDE DEF k
<1>6. text = [i \in 1..n |-> k + i]
  BY <1>1, <1>5
<1>7. text = Contract!Run(n, k)
  BY <1>6 DEF Contract!Run
<1> QED BY <1>4, <1>7 DEF Contract!Runs

\* How a call's phase follows its program counter.
LEMMA PhaseStep ==
  ASSUME pc \in [Calls -> Live \cup {"idle", "done"}], NEW r \in Calls
  PROVE  /\ Phase[r] = "idle" <=> pc[r] = "idle"
         /\ Phase[r] = "active" <=> pc[r] \in Live
         /\ \A v \in Live : pc' = [pc EXCEPT ![r] = v] => Phase' = [Phase EXCEPT ![r] = "active"]
         /\ pc' = [pc EXCEPT ![r] = "done"] => Phase' = [Phase EXCEPT ![r] = "ended"]
BY DEF Phase, Live

\* The end of a call is the contract's end of it.
LEMMA EndIsEndWith ==
  ASSUME pc \in [Calls -> Live \cup {"idle", "done"}], NEW r \in Calls, NEW e,
         e = Event(e.kind, e.text), End(r, e), UNCHANGED yielded
  PROVE  Contract!EndWith(r, e.kind, e.text)
BY PhaseStep DEF End, Event, Contract!EndWith

\* A record with the fields of an end is the end with these fields.
LEMMA EventFields ==
  ASSUME NEW K, NEW e \in [kind : K, text : Seq(Nat)]
  PROVE  e = Event(e.kind, e.text)
BY DEF Event

\* A call ends as the contract lets it: refused before it began, or finished.
LEMMA EndsIsStep ==
  ASSUME CallsAssumption, ChunksAssumption, ChunkInv,
         NEW r \in Calls, NEW e \in [kind : Endings, text : Seq(Nat)], Ends(r, e)
  PROVE  Contract!Refuse(r) \/ Contract!Finish(r)
<1>t. /\ pc \in [Calls -> Live \cup {"idle", "done"}] /\ Recorded(r) /\ chunks[r] \in Seq(Nat)
      /\ emitted \in 0..MaxChunks
  BY DEF ChunkInv, TrackInv, TypeOK
<1>1. Contract!EndWith(r, e.kind, e.text)
  BY <1>t, EventFields, EndIsEndWith DEF Ends
<1>2. e.kind # "result" => e.text = <<>>
  BY DEF Ends, Carries
<1>3. CASE pc[r] = "idle"
  <2>1. e.kind \in {"refused", "transport", "valueerror"} /\ Phase[r] = "idle"
    BY <1>3, <1>t, PhaseStep DEF Ends, Refusals
  <2>2. Contract!Refuse(r)
    BY <1>1, <1>2, <2>1 DEF Contract!Refuse
  <2> QED BY <2>2
<1>4. CASE pc[r] # "idle"
  <2>1. Phase[r] = "active" /\ e.kind \in LiveEndings \cup {"result"}
    BY <1>4, <1>t, PhaseStep DEF Ends
  <2>2. CASE e.kind \in LiveEndings
    BY <1>1, <1>2, <2>1, <2>2 DEF Contract!Finish, LiveEndings
  <2>3. CASE e.kind = "result"
    <3>1. r \in FutureCalls /\ e.text = chunks[r]
      BY <2>3 DEF Ends, Carries
    <3>2. e.text \in Contract!Runs
      BY <1>t, <3>1, RunIsAText DEF Recorded
    <3> QED BY <1>1, <2>1, <2>3, <3>1, <3>2 DEF Contract!Finish
  <2> QED BY <2>1, <2>2, <2>3
<1> QED BY <1>3, <1>4

\* The chunk a stream shows next follows those it showed, and no other stream
\* showed it.
LEMMA NextChunkIsFresh ==
  ASSUME CallsAssumption, ChunksAssumption, ChunkInv, NEW r \in StreamCalls, queue[r] # <<>>,
         Head(queue[r]).kind = "chunk"
  PROVE  \E k \in 1..MaxChunks : Head(queue[r]).text = <<k>> /\ Contract!Fresh(r, k)
<1>t. TypeOK /\ OneStream /\ \A s \in StreamCalls : Recorded(s) /\ Conserves(s)
  BY DEF ChunkInv, TrackInv, Calls
<1>m. emitted \in Nat /\ emitted \in 0..MaxChunks /\ MaxChunks \in Nat
  BY DEF ChunkInv, TrackInv, TypeOK, ChunksAssumption
<1>y. \A s \in StreamCalls :
        chunks[s] \in Seq(Nat) /\ queue[s] \in Seq(Items) /\ yielded[s] \in Seq(Nat)
  BY <1>t, ChunkTypes
<1> DEFINE c == chunks[r]
           y == yielded[r]
           given == Len(y)
           k == c[given + 1]
<1>1. given + 1 \in 1..Len(c) /\ Head(queue[r]).text = <<k>>
  BY <1>t, <1>y, ContinuesHead DEF Conserves
<1>2. \A s \in StreamCalls :
        /\ Len(yielded[s]) \in Nat /\ Len(chunks[s]) \in Nat
        /\ Len(yielded[s]) <= Len(chunks[s])
        /\ \A i \in 1..Len(yielded[s]) : yielded[s][i] = chunks[s][i]
  <2> SUFFICES ASSUME NEW s \in StreamCalls
               PROVE  /\ Len(yielded[s]) \in Nat /\ Len(chunks[s]) \in Nat
                      /\ Len(yielded[s]) <= Len(chunks[s])
                      /\ \A i \in 1..Len(yielded[s]) : yielded[s][i] = chunks[s][i]
    OBVIOUS
  <2>1. Len(yielded[s]) \in Nat /\ Len(chunks[s]) \in Nat
    BY <1>y
  <2>2. Conserves(s)
    BY <1>t
  <2> QED BY <2>1, <2>2 DEF Conserves, Continues
<1>3. \A i \in 1..Len(c) : c[i] \in 1..emitted /\ c[i] = c[1] + i - 1
  BY <1>t DEF Recorded
<1>4. given \in Nat /\ Len(c) \in Nat /\ \A i \in 1..given : y[i] = c[i]
  BY <1>2
<1>5. y # <<>> => given # 0
  BY <1>y
<1>6. ASSUME NEW s \in StreamCalls \ {r}, NEW i \in 1..Len(yielded[s])
      PROVE  yielded[s][i] # k
  <2>1. yielded[s][i] = chunks[s][i] /\ i \in 1..Len(chunks[s])
    BY <1>2
  <2> QED BY <1>t, <1>1, <2>1 DEF OneStream
<1> HIDE DEF c, y, given
<1>7. k \in 1..MaxChunks
  BY <1>1, <1>3, <1>m
<1>8. ASSUME y # <<>> PROVE k = y[given] + 1
  <2>1. given \in 1..given /\ given \in 1..Len(c)
    BY <1>1, <1>4, <1>5, <1>8
  <2>2. y[given] = c[1] + given - 1 /\ k = c[1] + (given + 1) - 1 /\ c[1] \in Int
    <3>1. 1 \in 1..Len(c)
      BY <1>4, <2>1
    <3> QED BY <1>1, <1>3, <1>4, <2>1, <3>1
  <2> QED BY <1>4, <2>2
<1>9. Contract!Fresh(r, k)
  BY <1>6, <1>8 DEF Contract!Fresh, y, given
<1> HIDE DEF k
<1> QED BY <1>1, <1>7, <1>9

\* A stream that takes an item from its queue shows a fresh chunk or ends; a
\* dict result it ends with carries what it showed.
LEMMA TakesIsStep ==
  ASSUME CallsAssumption, ChunksAssumption, ChunkInv, NEW r \in Calls, Takes(r)
  PROVE  Contract!Show(r) \/ Contract!Finish(r)
<1>t. TypeOK /\ Conserves(r) /\ Carried(r)
  BY DEF ChunkInv, TrackInv, Takes
<1>p. pc \in [Calls -> Live \cup {"idle", "done"}]
  BY <1>t DEF TypeOK
<1>y. /\ r \in StreamCalls /\ queue[r] # <<>> /\ pc[r] \in Live /\ r \notin FutureCalls
      /\ chunks[r] \in Seq(Nat) /\ queue[r] \in Seq(Items) /\ yielded[r] \in Seq(Nat)
  BY <1>t, ChunkTypes DEF Takes, CallsAssumption
<1>a. Phase[r] = "active"
  BY <1>p, <1>y, PhaseStep
<1>1. CASE Head(queue[r]).kind = "chunk"
  <2>1. PICK k \in 1..MaxChunks : Head(queue[r]).text = <<k>> /\ Contract!Fresh(r, k)
    BY <1>1, <1>y, NextChunkIsFresh
  <2>2. /\ yielded' = [yielded EXCEPT ![r] = @ \o <<k>>]
        /\ pc' = [pc EXCEPT ![r] = "yielded"] /\ UNCHANGED outcome
    BY <1>1, <2>1 DEF Takes, TakeItem
  <2>3. k \in Nat
    BY <2>1 DEF ChunksAssumption
  <2>4. yielded[r] \o <<k>> = Append(yielded[r], k)
    BY <1>y, <2>3
  <2>5. yielded' = [yielded EXCEPT ![r] = Append(@, k)]
    BY <1>t, <2>2, <2>4 DEF TypeOK
  <2>6. Phase' = Phase
    <3>1. Phase' = [Phase EXCEPT ![r] = "active"]
      BY <1>p, <2>2, PhaseStep DEF Live
    <3> QED BY <1>a, <3>1 DEF Phase
  <2>7. Contract!Show(r)
    BY <1>y, <1>a, <2>1, <2>2, <2>5, <2>6 DEF Contract!Show, Contract!Chunks
  <2> QED BY <2>7
<1>2. CASE Head(queue[r]).kind # "chunk"
  <2> DEFINE e == Head(queue[r])
  <2>1. End(r, e) /\ UNCHANGED yielded
    BY <1>2 DEF Takes, TakeItem
  <2>2. yielded[r] = chunks[r] /\ e.kind \in Terminal /\ Len(queue[r]) = 1
    BY <1>2, <1>t, <1>y, ContinuesHead DEF Conserves
  <2>3. e = queue[r][1] /\ e \in Items
    BY <1>y, QueueTail, HeadTailProperties
  <2>4. Carries(r, e)
    BY <1>2, <1>t, <1>y, <2>2, <2>3 DEF Carried
  <2> HIDE DEF e
  <2>5. Contract!EndWith(r, e.kind, e.text)
    BY <1>p, <2>1, <2>3, EventFields, EndIsEndWith DEF Items
  <2>6. Contract!Finish(r)
    BY <1>a, <1>y, <2>2, <2>4, <2>5 DEF Contract!Finish, Carries, Terminal
  <2> QED BY <2>6
<1> QED BY <1>1, <1>2

\* Every step of the client is a step of the contract, or shows the callers
\* nothing.
LEMMA StepIsContract ==
  CallsAssumption /\ ChunksAssumption /\ ChunkInv /\ [Next]_vars
    => [Contract!Next]_(Contract!cvars)
<1> SUFFICES ASSUME CallsAssumption, ChunksAssumption, ChunkInv, [Next]_vars
             PROVE  Contract!Next \/ UNCHANGED Contract!cvars
  OBVIOUS
<1>p. pc \in [Calls -> Live \cup {"idle", "done"}]
  BY DEF ChunkInv, TrackInv, TypeOK
<1>c. Contract!Calls = Calls
  BY DEF Contract!Calls, Calls
<1>1. CASE UNCHANGED <<pc, outcome, yielded>>
  BY <1>1 DEF Contract!cvars, Phase
<1>2. CASE Rests
  <2>1. ASSUME NEW r \in Calls PROVE Phase[r]' = Phase[r]
    BY <1>2, <1>p, <2>1 DEF Rests, Phase, Live
  <2>2. Phase' = Phase
    BY <2>1 DEF Phase
  <2> QED BY <1>2, <2>2 DEF Rests, Contract!cvars
<1>3. ASSUME NEW r \in Calls, Begins(r) PROVE Contract!Next
  <2>1. Contract!Begin(r)
    BY <1>3, <1>p, PhaseStep DEF Begins, Contract!Begin, Live
  <2> QED BY <1>c, <2>1 DEF Contract!Next
<1>4. ASSUME NEW r \in Calls, Takes(r) PROVE Contract!Next
  BY <1>4, <1>c, TakesIsStep DEF Contract!Next
<1>5. ASSUME NEW r \in Calls, NEW e \in [kind : Endings, text : Seq(Nat)], Ends(r, e)
      PROVE  Contract!Next
  BY <1>5, <1>c, EndsIsStep DEF Contract!Next
<1> QED BY <1>1, <1>2, <1>3, <1>4, <1>5, StepKinds DEF Grows, Delivers

\* AsyncStdioBus keeps the contract of its callers (module CallContract) for
\* any calls and any number of chunks: outcomes are final, a stream shows
\* chunks in order and once, and a dict result carries what was recorded.
THEOREM ClientKeepsContract == Spec => KeepsContract
<1>1. Init => Contract!Init
  BY DEF Init, Contract!Init, Contract!Calls, Phase, Nothing, Event, Calls
<1> QED BY <1>1, ChunkAlways, StepIsContract, CallsAssumption, ChunksAssumption, PTL
        DEF Spec, KeepsContract, Contract!Spec
=============================================================================
