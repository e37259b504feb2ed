--------------------------- MODULE Client_proofs ---------------------------
(* Theorems about module Client and their proofs. *)
EXTENDS Client, SequenceTheorems, TLAPS

\* The types of what is delivered and of what a call ends with.
Items == [kind : Terminal \cup {"chunk"}, text : Seq(Nat)]

\* What delivery does to the queues and the futures, in one lemma for all the
\* handlers that deliver an end: types are kept.
LEMMA DeliverType ==
  ASSUME TypeOK, NEW S \in SUBSET Calls, NEW e \in [kind : Terminal, text : Seq(Nat)],
         Deliver(S, e)
  PROVE  /\ queue' \in [StreamCalls -> Seq(Items)]
         /\ future' \in [FutureCalls ->
                           [kind : Terminal \cup {"none", "cancelled"}, text : Seq(Nat)]]
<1>1. \A r \in StreamCalls : queue[r] \in Seq(Items)
  BY DEF TypeOK, Items
<1>2. e \in Items
  BY DEF Items
<1>3. \A r \in StreamCalls : Append(queue[r], e) \in Seq(Items)
  BY <1>1, <1>2
<1>4. queue' \in [StreamCalls -> Seq(Items)]
  BY <1>1, <1>3 DEF Deliver
<1>5. future' \in [FutureCalls ->
                    [kind : Terminal \cup {"none", "cancelled"}, text : Seq(Nat)]]
  BY DEF Deliver, TypeOK
<1> QED BY <1>4, <1>5

\* The initial state and every step keep the types (initially and after each
\* handler, every variable of the client holds a value of its kind).
LEMMA TypeInit == Init => TypeOK
<1> SUFFICES ASSUME Init PROVE TypeOK
  OBVIOUS
<1>1. <<>> \in Seq(Nat) /\ <<>> \in Seq(Calls) /\ <<>> \in Seq(Items)
  OBVIOUS
<1>2. Nothing \in [kind : Terminal \cup {"none", "cancelled"}, text : Seq(Nat)]
  BY DEF Nothing, Event
<1>3. Nothing \in [kind : Endings \cup {"none"}, text : Seq(Nat)]
  BY DEF Nothing, Event
<1> QED BY <1>1, <1>2, <1>3 DEF Init, Life!Init, TypeOK, Life!BusStates, Live, Items

\* stop() and the crash callback keep the types.
LEMMA FailAllType ==
  ASSUME TypeOK, FailAll
  PROVE  /\ queue' \in [StreamCalls -> Seq(Items)]
         /\ future' \in [FutureCalls ->
                           [kind : Terminal \cup {"none", "cancelled"}, text : Seq(Nat)]]
         /\ pending' \subseteq Calls
<1>1. Event("transport", <<>>) \in [kind : Terminal, text : Seq(Nat)]
  BY DEF Event, Terminal
<1> QED BY <1>1, DeliverType DEF FailAll, TypeOK

\* Ending a call with an outcome of the right type keeps the types.
LEMMA EndType ==
  ASSUME TypeOK, NEW r \in Calls, NEW e \in [kind : Endings \cup {"none"}, text : Seq(Nat)],
         End(r, e)
  PROVE  /\ pc' \in [Calls -> Live \cup {"idle", "done"}]
         /\ outcome' \in [Calls -> [kind : Endings \cup {"none"}, text : Seq(Nat)]]
BY DEF End, TypeOK

\* Every step of the client keeps the types.
LEMMA TypeStep == TypeOK /\ [Next]_vars => TypeOK'
<1> SUFFICES ASSUME TypeOK, [Next]_vars PROVE TypeOK'
  OBVIOUS
<1> USE DEF lifeVars, tableVars, callerVars, agentVars
<1>e. /\ \A kind \in Terminal : Event(kind, <<>>) \in [kind : Terminal, text : Seq(Nat)]
      /\ \A kind \in Endings : Event(kind, <<>>) \in [kind : Endings \cup {"none"}, text : Seq(Nat)]
  BY DEF Event, Terminal, Endings
<1>1. CASE Start
  BY <1>1 DEF Start, Life!Start, TypeOK, Life!BusStates
<1>2. CASE StartReturns
  BY <1>2 DEF StartReturns, Life!StartReturns, TypeOK, Life!BusStates
<1>3. CASE Stop
  BY <1>3, FailAllType DEF Stop, Life!Stop, TypeOK, Life!BusStates, Items
<1>4. CASE StopReturns
  BY <1>4 DEF StopReturns, Life!StopReturns, TypeOK, Life!BusStates
<1>5. CASE Destroy
  BY <1>5 DEF Destroy, Life!Destroy, TypeOK, Life!BusStates
<1>6. CASE ReadLoopEnds
  BY <1>6, FailAllType DEF ReadLoopEnds, Life!ReadLoopEnds, TypeOK, Life!BusStates, Items
<1>7. CASE ReceiveChunk
  <2>1. emitted' \in Nat /\ emitted + 1 \in Nat
    BY <1>7 DEF ReceiveChunk, TypeOK
  <2>2. chunks' \in [Calls -> Seq(Nat)]
    BY <1>7, <2>1 DEF ReceiveChunk, DeliverChunk, TypeOK
  <2>3. Event("chunk", <<emitted + 1>>) \in Items
    BY <2>1 DEF Event, Items
  <2>4. \A x \in StreamCalls : queue[x] \in Seq(Items)
    BY DEF TypeOK, Items
  <2>5. \A x \in StreamCalls :
          Append(queue[x], Event("chunk", <<emitted + 1>>)) \in Seq(Items)
    BY <2>3, <2>4
  <2>6. queue' \in [StreamCalls -> Seq(Items)]
    BY <1>7, <2>4, <2>5 DEF ReceiveChunk, DeliverChunk
  <2> QED BY <1>7, <2>1, <2>2, <2>6 DEF ReceiveChunk, TypeOK, Items
<1>8. ASSUME NEW r \in Calls, ReceiveResponse(r) PROVE TypeOK'
  <2>1. \A kind \in Terminal : Answer(r, kind) \in [kind : Terminal, text : Seq(Nat)]
    BY DEF Answer, Event, TypeOK
  <2>2. /\ queue' \in [StreamCalls -> Seq(Items)]
        /\ future' \in [FutureCalls ->
                          [kind : Terminal \cup {"none", "cancelled"}, text : Seq(Nat)]]
    <3>1. CASE \E kind \in Terminal : Deliver({r}, Answer(r, kind))
      BY <3>1, <2>1, DeliverType
    <3>2. CASE UNCHANGED <<queue, future>>
      BY <3>2 DEF TypeOK, Items
    <3> QED BY <1>8, <3>1, <3>2 DEF ReceiveResponse, Terminal
  <2> QED BY <1>8, <2>2 DEF ReceiveResponse, Answered, TypeOK, Items
<1>9. ASSUME NEW r \in Calls, Call(r) PROVE TypeOK'
  <2>1. CASE pc' = [pc EXCEPT ![r] = "waiting"] /\ UNCHANGED outcome
    BY <1>9, <2>1 DEF Call, TypeOK, Live
  <2>2. CASE \E kind \in Endings : End(r, Event(kind, <<>>))
    BY <1>9, <2>2, <1>e, EndType DEF Call, TypeOK
  <2> QED BY <1>9, <2>1, <2>2 DEF Call, Endings, Terminal
<1>10. ASSUME NEW r \in Calls, Expire(r) PROVE TypeOK'
  BY <1>10 DEF Expire, TypeOK
<1>11. ASSUME NEW r \in Calls, RequestReturns(r) PROVE TypeOK'
  <2>1. future[r] \in [kind : Endings \cup {"none"}, text : Seq(Nat)]
    BY <1>11 DEF RequestReturns, TypeOK, Endings
  <2> QED BY <1>11, <2>1, EndType DEF RequestReturns, Released, TypeOK
<1>12. ASSUME NEW r \in Calls,
              RequestTimesOut(r) \/ StreamTimesOut(r) \/ CancelStream(r) \/ FinalizeStream(r)
       PROVE  TypeOK'
  <2>1. \E kind \in Endings : End(r, Event(kind, <<>>))
    BY <1>12 DEF RequestTimesOut, StreamTimesOut, CancelStream, FinalizeStream, Endings
  <2>2. /\ pending' = Released(r)
        /\ UNCHANGED <<lifeVars, chunks, queue, future, expired, yielded, agentVars>>
    BY <1>12 DEF RequestTimesOut, StreamTimesOut, CancelStream, FinalizeStream
  <2> QED BY <2>1, <2>2, <1>e, EndType DEF Released, TypeOK
<1>13. ASSUME NEW r \in Calls, CancelRequest(r) PROVE TypeOK'
  <2>1. Event("cancelled", <<>>) \in
          [kind : Terminal \cup {"none", "cancelled"}, text : Seq(Nat)]
    BY DEF Event
  <2> QED BY <1>13, <2>1, <1>e, EndType DEF CancelRequest, TypeOK, Endings
<1>14. ASSUME NEW r \in Calls, StreamResumes(r) PROVE TypeOK'
  <2>1. r \in StreamCalls /\ queue[r] \in Seq(Items) /\ queue[r] # <<>>
    BY <1>14 DEF StreamResumes, TypeOK, Items
  <2>2. Head(queue[r]) \in Items /\ Tail(queue[r]) \in Seq(Items)
    BY <2>1
  <2>3. queue' \in [StreamCalls -> Seq(Items)]
    BY <1>14, <2>2 DEF StreamResumes, TakeItem, TypeOK, Items
  <2>4. CASE Head(queue[r]).kind = "chunk"
    <3>1. yielded[r] \o Head(queue[r]).text \in Seq(Nat)
      BY <2>1, <2>2 DEF TypeOK, Items
    <3>2. yielded' \in [StreamCalls -> Seq(Nat)]
      BY <1>14, <2>4, <3>1 DEF StreamResumes, TakeItem, TypeOK
    <3> QED BY <1>14, <2>3, <2>4, <3>2 DEF StreamResumes, TakeItem, TypeOK, Live, Items
  <2>5. CASE Head(queue[r]).kind # "chunk"
    <3>1. Head(queue[r]) \in [kind : Endings \cup {"none"}, text : Seq(Nat)]
      BY <2>2, <2>5 DEF Items, Endings
    <3> QED BY <1>14, <2>3, <2>5, <3>1, EndType DEF StreamResumes, TakeItem, Released, TypeOK, Items
  <2> QED BY <2>4, <2>5
<1>15. ASSUME NEW r \in Calls, StreamAwaits(r) PROVE TypeOK'
  <2>1. CASE expired[r]
    <3>1. End(r, Event("timeout", <<>>))
      BY <1>15, <2>1 DEF StreamAwaits
    <3> QED BY <1>15, <2>1, <3>1, <1>e, EndType DEF StreamAwaits, Released, TypeOK, Endings
  <2>2. CASE ~expired[r]
    BY <1>15, <2>2 DEF StreamAwaits, TypeOK, Live
  <2> QED BY <2>1, <2>2
<1>16. ASSUME NEW r \in Calls, Abandon(r) PROVE TypeOK'
  BY <1>16 DEF Abandon, TypeOK, Live
<1>17. CASE UNCHANGED vars
  BY <1>17 DEF vars, TypeOK
<1> QED
  BY <1>1, <1>2, <1>3, <1>4, <1>5, <1>6, <1>7, <1>8, <1>9, <1>10, <1>11, <1>12, <1>13,
     <1>14, <1>15, <1>16, <1>17 DEF Next

\* Type correctness: in every reachable state, for any sets of calls and any
\* bound on chunks, the client's variables hold values of their kind.
THEOREM TypeCorrect == Spec => []TypeOK
<1> QED BY TypeInit, TypeStep, PTL DEF Spec

-----------------------------------------------------------------------------
(* Who is in the table.  TableIsInFlight and InFlightIsTracked hold call by   *)
(* call; they are inductive together with the fact that a call not made yet  *)
(* was delivered no end.                                                     *)

WellFormedErrors == ErrorShapes \subseteq {"object"}

TableEntry(r) ==
  r \in pending =>
    \/ pc[r] \in Live /\ ~Settled(r)
    \/ r \in FutureCalls /\ pc[r] = "done" /\ outcome[r].kind = "cancelled"

FreshCall(r) == pc[r] = "idle" => ~Settled(r)

NotForgotten(r) ==
  WellFormedErrors /\ pc[r] \in Live => r \in pending \/ Settled(r)

Tracked(r) == TableEntry(r) /\ FreshCall(r) /\ NotForgotten(r)

TrackInv == TypeOK /\ \A r \in Calls : Tracked(r)

\* Delivering an end settles the calls it goes to and no other.
LEMMA DeliverSettles ==
  ASSUME TypeOK, NEW S \in SUBSET Calls, NEW e \in [kind : Terminal, text : Seq(Nat)],
         Deliver(S, e), NEW r \in Calls
  PROVE  /\ r \in S => Settled(r)'
         /\ r \notin S => (Settled(r)' <=> Settled(r))
<1>1. e # Nothing /\ e.kind # "chunk"
  BY DEF Nothing, Event, Terminal
<1>2. CASE r \in FutureCalls
  <2>1. future'[r] = IF r \in S /\ future[r] = Nothing THEN e ELSE future[r]
    BY <1>2 DEF Deliver
  <2> QED BY <1>1, <1>2, <2>1 DEF Settled, Nothing, Event
<1>3. CASE r \notin FutureCalls
  <2>1. r \in StreamCalls /\ queue[r] \in Seq(Items)
    BY <1>3 DEF Calls, TypeOK, Items
  <2>2. e \in Items
    BY DEF Items
  <2>3. CASE r \in S
    <3>1. queue'[r] = Append(queue[r], e)
      BY <2>1, <2>3 DEF Deliver
    <3>2. Len(queue[r]) + 1 \in 1..Len(queue'[r]) /\ queue'[r][Len(queue[r]) + 1] = e
      BY <2>1, <2>2, <3>1
    <3> QED BY <1>1, <1>3, <2>3, <3>2 DEF Settled
  <2>4. CASE r \notin S
    <3>1. queue'[r] = queue[r]
      BY <2>1, <2>4 DEF Deliver
    <3> QED BY <1>3, <2>4, <3>1 DEF Settled
  <2> QED BY <2>3, <2>4
<1> QED BY <1>2, <1>3

\* A chunk settles no call.
LEMMA ChunkSettlesNone ==
  ASSUME TypeOK, NEW S \in SUBSET Calls, NEW k \in Nat, DeliverChunk(S, k),
         UNCHANGED future, NEW r \in Calls
  PROVE  Settled(r)' <=> Settled(r)
<1>1. CASE r \in FutureCalls
  BY <1>1 DEF Settled
<1>2. CASE r \notin FutureCalls
  <2> DEFINE e == Event("chunk", <<k>>)
  <2>1. r \in StreamCalls /\ queue[r] \in Seq(Items)
    BY <1>2 DEF Calls, TypeOK, Items
  <2>2. e \in Items /\ e.kind = "chunk"
    BY DEF Items, Event
  <2>3. queue'[r] = IF r \in S THEN Append(queue[r], e) ELSE queue[r]
    BY <2>1 DEF DeliverChunk
  <2> HIDE DEF e
  <2>4. CASE r \in S
    <3>1. /\ Len(queue'[r]) = Len(queue[r]) + 1
          /\ \A i \in 1..Len(queue[r]) : queue'[r][i] = queue[r][i]
          /\ queue'[r][Len(queue[r]) + 1] = e
      BY <2>1, <2>2, <2>3, <2>4
    <3>2. Len(queue[r]) \in Nat
      BY <2>1
    <3>3. /\ 1..Len(queue'[r]) = 1..Len(queue[r]) \cup {Len(queue[r]) + 1}
          /\ Len(queue[r]) + 1 \notin 1..Len(queue[r])
      BY <3>1, <3>2
    <3>4. (\E i \in 1..Len(queue'[r]) : queue'[r][i].kind # "chunk")
            <=> \E i \in 1..Len(queue[r]) : queue[r][i].kind # "chunk"
      BY <2>2, <3>1, <3>3, Zenon
    <3> QED BY <1>2, <3>4 DEF Settled
  <2>5. CASE r \notin S
    BY <1>2, <2>3, <2>5 DEF Settled
  <2> QED BY <2>4, <2>5
<1> QED BY <1>1, <1>2

\* What a step leaves alone stays tracked.
LEMMA TrackFrame ==
  ASSUME NEW r \in Calls, Tracked(r),
         pc'[r] = pc[r], outcome'[r] = outcome[r],
         Settled(r)' <=> Settled(r), r \in pending' <=> r \in pending
  PROVE  Tracked(r)'
BY DEF Tracked, TableEntry, FreshCall, NotForgotten, WellFormedErrors

\* stop() and a crash deliver an end to all they take out of the table.
LEMMA TrackFailAll ==
  ASSUME TrackInv, FailAll, UNCHANGED <<pc, outcome>>
  PROVE  \A r \in Calls : Tracked(r)'
<1> SUFFICES ASSUME NEW r \in Calls PROVE Tracked(r)'
  OBVIOUS
<1>1. Event("transport", <<>>) \in [kind : Terminal, text : Seq(Nat)]
  BY DEF Event, Terminal
<1>2. pending \in SUBSET Calls
  BY DEF TrackInv, TypeOK
<1>3. /\ r \in pending => Settled(r)'
      /\ r \notin pending => (Settled(r)' <=> Settled(r))
  BY <1>1, <1>2, DeliverSettles DEF FailAll, TrackInv
<1>4. Tracked(r)
  BY DEF TrackInv
<1> QED BY <1>3, <1>4 DEF FailAll, Tracked, TableEntry, FreshCall, NotForgotten,
           WellFormedErrors, Live

\* A call that ends, and leaves the table, is tracked; the others are untouched.
LEMMA TrackEnd ==
  ASSUME TrackInv, NEW r \in Calls, NEW e, End(r, e), pending' = pending \ {r},
         \A c \in Calls \ {r} : Settled(c)' <=> Settled(c)
  PROVE  \A c \in Calls : Tracked(c)'
<1>1. Tracked(r)'
  <2>1. pc'[r] = "done" /\ r \notin pending'
    BY DEF End, TrackInv, TypeOK
  <2> QED BY <2>1 DEF Tracked, TableEntry, FreshCall, NotForgotten, Live
<1>2. ASSUME NEW c \in Calls, c # r PROVE Tracked(c)'
  <2>1. pc'[c] = pc[c] /\ outcome'[c] = outcome[c]
    BY <1>2 DEF End, TrackInv, TypeOK
  <2> QED BY <1>2, <2>1, TrackFrame DEF TrackInv
<1> QED BY <1>1, <1>2

\* The items of a queue after its head was taken.
LEMMA QueueTail ==
  ASSUME NEW q \in Seq(Items), q # <<>>
  PROVE  /\ Len(q) \in Nat \ {0}
         /\ Len(Tail(q)) = Len(q) - 1
         /\ \A i \in 1..Len(Tail(q)) : Tail(q)[i] = q[i + 1]
         /\ Head(q) = q[1]
<1>1. Len(q) \in Nat \ {0}
  BY EmptySeq
<1>2. Len(Tail(q)) = Len(q) - 1
  BY <1>1
<1>3. \A i \in 1..Len(Tail(q)) : Tail(q)[i] = q[i + 1]
  BY <1>1, <1>2
<1> QED BY <1>1, <1>2, <1>3

\* Taking a chunk from a stream's queue settles nothing and unsettles nothing.
LEMMA TakeChunkSettles ==
  ASSUME TypeOK, CallsAssumption, NEW r \in StreamCalls, queue[r] # <<>>,
         Head(queue[r]).kind = "chunk",
         queue' = [queue EXCEPT ![r] = Tail(queue[r])], UNCHANGED future, NEW c \in Calls
  PROVE  Settled(c)' <=> Settled(c)
<1>1. CASE c = r
  <2>1. queue[r] \in Seq(Items) /\ queue'[r] = Tail(queue[r]) /\ r \notin FutureCalls
    BY DEF TypeOK, Items, CallsAssumption
  <2>2. /\ Len(queue[r]) \in Nat \ {0}
        /\ Len(queue'[r]) = Len(queue[r]) - 1
        /\ \A i \in 1..Len(queue'[r]) : queue'[r][i] = queue[r][i + 1]
        /\ queue[r][1].kind = "chunk"
    BY <2>1, QueueTail
  <2>3. ASSUME Settled(r) PROVE Settled(r)'
    <3>1. PICK i \in 1..Len(queue[r]) : queue[r][i].kind # "chunk"
      BY <2>1, <2>3 DEF Settled
    <3>2. i - 1 \in 1..Len(queue'[r]) /\ queue'[r][i - 1] = queue[r][i]
      BY <2>2, <3>1
    <3> QED BY <2>1, <3>1, <3>2 DEF Settled
  <2>4. ASSUME Settled(r)' PROVE Settled(r)
    <3>1. PICK i \in 1..Len(queue'[r]) : queue'[r][i].kind # "chunk"
      BY <2>1, <2>4 DEF Settled
    <3>2. i + 1 \in 1..Len(queue[r]) /\ queue'[r][i] = queue[r][i + 1]
      BY <2>2, <3>1
    <3> QED BY <2>1, <3>1, <3>2 DEF Settled
  <2> QED BY <1>1, <2>3, <2>4
<1>2. CASE c # r
  <2>1. CASE c \in FutureCalls
    BY <2>1 DEF Settled
  <2>2. CASE c \notin FutureCalls
    <3>1. queue'[c] = queue[c]
      BY <1>2, <2>2 DEF Calls, TypeOK
    <3> QED BY <2>2, <3>1 DEF Settled
  <2> QED BY <2>1, <2>2
<1> QED BY <1>1, <1>2

\* Initially no call is made and nothing is delivered.
LEMMA TrackInit == Init => TrackInv
<1> SUFFICES ASSUME Init, NEW r \in Calls PROVE Tracked(r)
  BY TypeInit DEF TrackInv
<1>1. pc[r] = "idle" /\ r \notin pending
  BY DEF Init
<1>2. ~Settled(r)
  <2>1. CASE r \in FutureCalls
    BY <2>1 DEF Init, Settled
  <2>2. CASE r \notin FutureCalls
    <3>1. queue[r] = <<>>
      BY <2>2 DEF Init, Calls
    <3> QED BY <2>2, <3>1 DEF Settled
  <2> QED BY <2>1, <2>2
<1> QED BY <1>1, <1>2 DEF Tracked, TableEntry, FreshCall, NotForgotten, Live

\* Every step keeps every call tracked.
LEMMA TrackStep == CallsAssumption /\ TrackInv /\ [Next]_vars => TrackInv'
<1> SUFFICES ASSUME CallsAssumption, TrackInv, [Next]_vars
             PROVE  \A c \in Calls : Tracked(c)'
  BY TypeStep DEF TrackInv
<1> USE DEF lifeVars, tableVars, callerVars, agentVars
<1>t. TypeOK /\ \A c \in Calls : Tracked(c)
  BY DEF TrackInv
<1>u. ASSUME UNCHANGED <<queue, future>> PROVE \A c \in Calls : Settled(c)' <=> Settled(c)
  BY <1>u DEF Settled
<1>f. ASSUME UNCHANGED <<pending, queue, future, pc, outcome>>
      PROVE  \A c \in Calls : Tracked(c)'
  BY <1>f, <1>t, <1>u, TrackFrame
<1>1. CASE Start \/ StartReturns \/ StopReturns \/ Destroy
  BY <1>1, <1>f DEF Start, StartReturns, StopReturns, Destroy
<1>2. CASE Stop
  BY <1>2, TrackFailAll DEF Stop
<1>3. CASE ReadLoopEnds
  <2>1. CASE backend = "RUNNING"
    BY <1>3, <2>1, TrackFailAll DEF ReadLoopEnds
  <2>2. CASE backend # "RUNNING"
    BY <1>3, <2>2, <1>f DEF ReadLoopEnds
  <2> QED BY <2>1, <2>2
<1>4. CASE ReceiveChunk
  <2>1. pending \in SUBSET Calls /\ emitted + 1 \in Nat
    BY <1>t DEF TypeOK
  <2>2. \A c \in Calls : Settled(c)' <=> Settled(c)
    BY <1>4, <1>t, <2>1, ChunkSettlesNone DEF ReceiveChunk
  <2> QED BY <1>4, <1>t, <2>2, TrackFrame DEF ReceiveChunk
<1>5. ASSUME NEW r \in Calls, ReceiveResponse(r) PROVE \A c \in Calls : Tracked(c)'
  <2>1. CASE r \notin pending
    BY <1>5, <2>1, <1>f DEF ReceiveResponse
  <2>2. CASE r \in pending
    <3>0. pending' = pending \ {r} /\ UNCHANGED <<pc, outcome>>
      BY <1>5, <2>2 DEF ReceiveResponse, Answered
    <3>1. CASE \E kind \in Terminal : Deliver({r}, Answer(r, kind))
      <4>1. \A kind \in Terminal : Answer(r, kind) \in [kind : Terminal, text : Seq(Nat)]
        BY <1>t DEF Answer, Event, TypeOK
      <4>2. Settled(r)' /\ \A c \in Calls \ {r} : Settled(c)' <=> Settled(c)
        BY <1>t, <3>1, <4>1, DeliverSettles
      <4>3. Tracked(r)'
        BY <1>t, <2>2, <3>0, <4>2 DEF Tracked, TableEntry, FreshCall, NotForgotten, Live
      <4>4. ASSUME NEW c \in Calls \ {r} PROVE Tracked(c)'
        BY <1>t, <3>0, <4>2, TrackFrame
      <4> QED BY <4>3, <4>4
    <3>2. CASE "other" \in ErrorShapes /\ UNCHANGED <<queue, future>>
      <4>1. ~WellFormedErrors
        BY <3>2 DEF WellFormedErrors
      <4>2. Tracked(r)'
        BY <1>t, <1>u, <2>2, <3>0, <3>2, <4>1
           DEF Tracked, TableEntry, FreshCall, NotForgotten, WellFormedErrors, Live
      <4>3. ASSUME NEW c \in Calls \ {r} PROVE Tracked(c)'
        BY <1>t, <1>u, <3>0, <3>2, TrackFrame
      <4> QED BY <4>2, <4>3
    <3> QED BY <1>5, <2>2, <3>1, <3>2 DEF ReceiveResponse, Terminal
  <2> QED BY <2>1, <2>2
<1>6. ASSUME NEW r \in Calls, Call(r) PROVE \A c \in Calls : Tracked(c)'
  <2>0. pc[r] = "idle" /\ ~Settled(r) /\ r \notin pending /\ UNCHANGED <<queue, future>>
    BY <1>6, <1>t DEF Call, Tracked, TableEntry, FreshCall, Live
  <2>1. CASE pc' = [pc EXCEPT ![r] = "waiting"] /\ pending' = pending \cup {r} /\ UNCHANGED outcome
    <3>1. Tracked(r)'
      BY <1>t, <1>u, <2>0, <2>1 DEF TypeOK, Tracked, TableEntry, FreshCall, NotForgotten, Live
    <3>2. ASSUME NEW c \in Calls \ {r} PROVE Tracked(c)'
      BY <1>t, <1>u, <2>0, <2>1, TrackFrame DEF TypeOK
    <3> QED BY <3>1, <3>2
  <2>2. CASE \E e : End(r, e) /\ UNCHANGED pending
    <3>1. pending' = pending \ {r}
      BY <2>0, <2>2
    <3> QED BY <1>u, <2>0, <2>2, <3>1, TrackEnd
  <2> QED BY <1>6, <2>1, <2>2 DEF Call
<1>7. ASSUME NEW r \in Calls, Expire(r) PROVE \A c \in Calls : Tracked(c)'
  BY <1>7, <1>f DEF Expire
<1>8. ASSUME NEW r \in Calls, RequestReturns(r) PROVE \A c \in Calls : Tracked(c)'
  <2>1. r \notin pending
    BY <1>8, <1>t DEF RequestReturns, Tracked, TableEntry, Settled
  <2>2. pending' = pending \ {r}
    BY <1>8, <2>1 DEF RequestReturns, Released
  <2> QED BY <1>8, <1>u, <2>2, TrackEnd DEF RequestReturns
<1>9. ASSUME NEW r \in Calls,
             RequestTimesOut(r) \/ StreamTimesOut(r) \/ CancelStream(r) \/ FinalizeStream(r)
      PROVE  \A c \in Calls : Tracked(c)'
  BY <1>9, <1>u, TrackEnd
     DEF RequestTimesOut, StreamTimesOut, CancelStream, FinalizeStream, Released
<1>10. ASSUME NEW r \in Calls, CancelRequest(r) PROVE \A c \in Calls : Tracked(c)'
  <2>1. Tracked(r)'
    BY <1>10, <1>t DEF CancelRequest, End, Event, TypeOK, Tracked, TableEntry, FreshCall,
                       NotForgotten, Live
  <2>2. ASSUME NEW c \in Calls \ {r} PROVE Tracked(c)'
    <3>1. Settled(c)' <=> Settled(c)
      BY <1>10, <1>t DEF CancelRequest, TypeOK, Settled
    <3> QED BY <1>10, <1>t, <3>1, TrackFrame DEF CancelRequest, End, TypeOK
  <2> QED BY <2>1, <2>2
<1>11. ASSUME NEW r \in Calls, StreamResumes(r) PROVE \A c \in Calls : Tracked(c)'
  <2>1. CASE Head(queue[r]).kind = "chunk"
    <3>1. \A c \in Calls : Settled(c)' <=> Settled(c)
      BY <1>11, <1>t, <2>1, TakeChunkSettles DEF StreamResumes, TakeItem
    <3>2. Tracked(r)'
      BY <1>11, <1>t, <2>1, <3>1
         DEF StreamResumes, TakeItem, TypeOK, Tracked, TableEntry, FreshCall, NotForgotten,
             WellFormedErrors, Live
    <3>3. ASSUME NEW c \in Calls \ {r} PROVE Tracked(c)'
      BY <1>11, <1>t, <2>1, <3>1, TrackFrame DEF StreamResumes, TakeItem, TypeOK
    <3> QED BY <3>2, <3>3
  <2>2. CASE Head(queue[r]).kind # "chunk"
    <3>1. \A c \in Calls \ {r} : Settled(c)' <=> Settled(c)
      BY <1>11, <1>t DEF StreamResumes, TakeItem, TypeOK, Settled, Calls
    <3> QED BY <1>11, <2>2, <3>1, TrackEnd DEF StreamResumes, TakeItem, Released
  <2> QED BY <2>1, <2>2
<1>12. ASSUME NEW r \in Calls, StreamAwaits(r) PROVE \A c \in Calls : Tracked(c)'
  <2>1. CASE expired[r]
    BY <1>12, <1>u, <2>1, TrackEnd DEF StreamAwaits, Released
  <2>2. CASE ~expired[r]
    <3>1. Tracked(r)'
      BY <1>12, <1>t, <1>u, <2>2
         DEF StreamAwaits, TypeOK, Tracked, TableEntry, FreshCall, NotForgotten,
             WellFormedErrors, Live
    <3>2. ASSUME NEW c \in Calls \ {r} PROVE Tracked(c)'
      BY <1>12, <1>t, <1>u, <2>2, TrackFrame DEF StreamAwaits, TypeOK
    <3> QED BY <3>1, <3>2
  <2> QED BY <2>1, <2>2
<1>13. ASSUME NEW r \in Calls, Abandon(r) PROVE \A c \in Calls : Tracked(c)'
  <2>1. Tracked(r)'
    BY <1>13, <1>t, <1>u
       DEF Abandon, TypeOK, Tracked, TableEntry, FreshCall, NotForgotten, WellFormedErrors, Live
  <2>2. ASSUME NEW c \in Calls \ {r} PROVE Tracked(c)'
    BY <1>13, <1>t, <1>u, TrackFrame DEF Abandon, TypeOK
  <2> QED BY <2>1, <2>2
<1>14. CASE UNCHANGED vars
  BY <1>14, <1>f DEF vars
<1> QED
  BY <1>1, <1>2, <1>3, <1>4, <1>5, <1>6, <1>7, <1>8, <1>9, <1>10, <1>11, <1>12, <1>13, <1>14
     DEF Next

\* Whatever the agent, the clock and the user do, an entry of the table is a
\* call in flight without an end, or the leftover of a cancelled request().
THEOREM TableCorrect == Spec => []TableIsInFlight
<1>1. TrackInv => TableIsInFlight
  BY DEF TrackInv, Tracked, TableEntry, TableIsInFlight, TypeOK
<1> QED BY <1>1, CallsAssumption, TrackInit, TrackStep, PTL DEF Spec

\* If the agent's error members are objects, no caller in flight is forgotten:
\* each is in the table or its end was delivered.
THEOREM NobodyForgotten ==
  ASSUME ErrorShapes \subseteq {"object"}
  PROVE  Spec => []InFlightIsTracked
<1>1. TrackInv => InFlightIsTracked
  BY DEF TrackInv, Tracked, NotForgotten, WellFormedErrors, InFlightIsTracked
<1> QED BY <1>1, CallsAssumption, TrackInit, TrackStep, PTL DEF Spec

-----------------------------------------------------------------------------
(* The table of a bus that is down.  That it is empty is inductive with what  *)
(* keeps it empty while the state can still change: no request is written     *)
(* before the bus runs, nor once stop() closed the input of the process.      *)

DownInv ==
  /\ backend \in {"CREATED", "STARTING", "STOPPING", "STOPPED"} => pending = {}
  /\ stdin = "closed" /\ backend # "NONE" => pending = {}
  /\ stopping => stdin = "closed"

\* Only a call that is written to a running bus enters the table.
LEMMA DownStep == DownInv /\ [Next]_vars => DownInv'
<1> SUFFICES ASSUME DownInv, [Next]_vars PROVE DownInv'
  OBVIOUS
<1> USE DEF DownInv, lifeVars, tableVars, callerVars, agentVars
<1>1. CASE Start \/ StartReturns \/ StopReturns \/ Destroy
  BY <1>1 DEF Start, StartReturns, StopReturns, Destroy, Life!Start,
              Life!StartReturns, Life!StopReturns, Life!Destroy
<1>2. CASE Stop
  BY <1>2 DEF Stop, Life!Stop, FailAll
<1>3. CASE ReadLoopEnds
  BY <1>3 DEF ReadLoopEnds, Life!ReadLoopEnds, FailAll
<1>4. ASSUME NEW r \in Calls, ReceiveResponse(r) PROVE DownInv'
  BY <1>4 DEF ReceiveResponse, Answered
<1>9. CASE ReceiveChunk
  BY <1>9 DEF ReceiveChunk
<1>5. ASSUME NEW r \in Calls, Call(r) PROVE DownInv'
  BY <1>5 DEF Call, Refused
<1>6. ASSUME NEW r \in Calls,
             \/ RequestReturns(r) \/ RequestTimesOut(r) \/ StreamResumes(r) \/ StreamAwaits(r)
             \/ StreamTimesOut(r) \/ CancelStream(r) \/ FinalizeStream(r)
      PROVE  DownInv'
  <2>1. pending' \subseteq pending /\ UNCHANGED lifeVars
    BY <1>6 DEF RequestReturns, RequestTimesOut, StreamResumes, TakeItem, StreamAwaits,
                StreamTimesOut, CancelStream, FinalizeStream, Released
  <2> QED BY <2>1
<1>7. ASSUME NEW r \in Calls, Expire(r) \/ CancelRequest(r) \/ Abandon(r) PROVE DownInv'
  BY <1>7 DEF Expire, CancelRequest, Abandon
<1>8. CASE UNCHANGED vars
  BY <1>8 DEF vars
<1> QED BY <1>1, <1>2, <1>3, <1>4, <1>5, <1>6, <1>7, <1>8, <1>9 DEF Next

\* No call is left in the table of a bus that is stopping or stopped, however
\* start(), stop(), crashes and calls interleave.
THEOREM DownMeansEmpty == Spec => []NothingPendingOnceDown
<1>1. Init => DownInv
  BY DEF Init, Life!Init, DownInv
<1>2. DownInv => NothingPendingOnceDown
  BY DEF DownInv, NothingPendingOnceDown
<1> QED BY <1>1, <1>2, DownStep, PTL DEF Spec
=============================================================================
