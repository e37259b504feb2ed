---------------------------- MODULE Subscription ----------------------------
(***************************************************************************)
(* The pull-based notification subscriptions of AsyncStdioBus              *)
(* (NotificationSubscription in src/stdiobus/client.py): bounded queues,   *)
(* the overflow policies, fan-out to the active set, close(), the teardown *)
(* by stop() and destroy(), and the consumers suspended in __anext__, with *)
(* the hand-over of wake-ups inside asyncio.Queue.                         *)
(*                                                                         *)
(* The n-th notification is the number n.                                  *)
(***************************************************************************)
EXTENDS Naturals, FiniteSets, Functions, SequencesExt

CONSTANTS
  DropSubs,          \* subscriptions with overflow="drop"
  CloseSubs,         \* subscriptions with overflow="close"
  MaxQueue,          \* max_queue of every subscription
  Consumers,
  ConsumerOf,        \* the subscription each consumer iterates
  MaxNotifications   \* how many notifications the agent sends

Subs == DropSubs \cup CloseSubs

ASSUME SubsAssumption == DropSubs \cap CloseSubs = {}
ASSUME QueueAssumption == MaxQueue \in Nat /\ MaxNotifications \in Nat
ASSUME ConsumersAssumption == ConsumerOf \in [Consumers -> Subs]

VARIABLES
  count,     \* notifications dispatched so far
  sub,       \* "none" before subscribe_notifications(), then _closed
  active,    \* AsyncStdioBus._subscriptions
  queue,     \* the items of _queue
  getters,   \* the consumers blocked in _queue.get(), in order
  pc,        \* where each consumer is
  received,  \* what the consumers of a subscription were given
  since,     \* the notifications dispatched before it was created
  missed     \* the notifications its overflow policy discarded

vars == <<count, sub, active, queue, getters, pc, received, since, missed>>

CloseMark == 0     \* _CLOSE_SENTINEL

Init ==
  /\ count = 0
  /\ sub = [s \in Subs |-> "none"]
  /\ active = {}
  /\ queue = [s \in Subs |-> <<>>]
  /\ getters = [s \in Subs |-> <<>>]
  /\ pc = [c \in Consumers |-> "idle"]
  /\ received = [s \in Subs |-> <<>>]
  /\ since = [s \in Subs |-> 0]
  /\ missed = [s \in Subs |-> {}]

-----------------------------------------------------------------------------
\* Faulty variant: off by one.
FullTooLate(s) == MaxQueue > 0 /\ Len(queue[s]) > MaxQueue

\* asyncio.Queue.full(): a queue of maxsize 0 is never full.
Full(s) == MaxQueue > 0 /\ Len(queue[s]) >= MaxQueue

\* put_nowait wakes the first getter of each queue of S.
Wake(S) ==
  LET first == {Head(getters[s]) : s \in {x \in S : getters[x] # <<>>}} IN
  /\ pc' = [c \in Consumers |-> IF c \in first THEN "woken" ELSE pc[c]]
  /\ getters' = [s \in Subs |->
                   IF s \in S /\ getters[s] # <<>> THEN Tail(getters[s])
                                                   ELSE getters[s]]

\* Faulty variant: close() only marks the subscription.
CloseSilently(S) ==
  /\ sub' = [s \in Subs |-> IF s \in S THEN "closed" ELSE sub[s]]
  /\ active' = active \ S
  /\ UNCHANGED <<queue, pc, getters>>

\* close() of every subscription of S, none of them closed yet: the sentinel
\* is put unless the queue is full.
CloseAll(S) ==
  LET room == {s \in S : ~Full(s)} IN
  /\ sub' = [s \in Subs |-> IF s \in S THEN "closed" ELSE sub[s]]
  /\ active' = active \ S
  /\ queue' = [s \in Subs |->
                 IF s \in room THEN Append(queue[s], CloseMark) ELSE queue[s]]
  /\ Wake(room)

-----------------------------------------------------------------------------
Subscribe(s) ==
  /\ sub[s] = "none"
  /\ sub' = [sub EXCEPT ![s] = "open"]
  /\ active' = active \cup {s}
  /\ since' = [since EXCEPT ![s] = count]
  /\ UNCHANGED <<count, queue, getters, pc, received, missed>>

\* Faulty variant: the live set is iterated, and changes under the loop when a
\* subscription is closed for overflow.
ReachedOfLiveSet ==
  {s \in active : s \in CloseSubs \/ ~\E x \in active \cap CloseSubs : Full(x)}

\* The fan-out iterates a snapshot: every active subscription is reached.
Reached == active

\* A notification is dispatched, whatever the state of the bus: put where there is room, discarded by a full
\* "drop" queue, the end of a full "close" one (whose queue has no room for
\* the sentinel either).
Notify ==
  LET room == {s \in Reached : ~Full(s)}
      over == {s \in Reached : Full(s) /\ s \in CloseSubs} IN
  /\ count < MaxNotifications
  /\ count' = count + 1
  /\ queue' = [s \in Subs |->
                 IF s \in room THEN Append(queue[s], count + 1) ELSE queue[s]]
  /\ Wake(room)
  /\ missed' = [s \in Subs |->
                  IF s \in Reached \ room THEN missed[s] \cup {count + 1} ELSE missed[s]]
  /\ sub' = [s \in Subs |-> IF s \in over THEN "closed" ELSE sub[s]]
  /\ active' = active \ over
  /\ UNCHANGED <<received, since>>

Close(s) ==
  /\ sub[s] = "open"
  /\ CloseAll({s})
  /\ UNCHANGED <<count, received, since, missed>>

\* stop() or destroy(): close a snapshot of the active set. Subscriptions can be
\* made, and notifications dispatched, after it as before.
Teardown ==
  /\ CloseAll(active)
  /\ UNCHANGED <<count, received, since, missed>>

-----------------------------------------------------------------------------
\* The consumer c takes the head of the queue of s.
Take(c, s) ==
  /\ queue' = [queue EXCEPT ![s] = Tail(@)]
  /\ IF Head(queue[s]) = CloseMark
       THEN pc' = [pc EXCEPT ![c] = "stopped"] /\ UNCHANGED received
       ELSE /\ pc' = [pc EXCEPT ![c] = "idle"]
            /\ received' = [received EXCEPT ![s] = Append(@, Head(queue[s]))]

Block(c, s) ==
  /\ pc' = [pc EXCEPT ![c] = "blocked"]
  /\ getters' = [getters EXCEPT ![s] = Append(@, c)]

\* Faulty variants of the test below: a closed subscription ends at once; or
\* only the sentinel ends it.
ClosedAtOnce(s) == sub[s] = "closed"
NeverExhausted(s) == FALSE

\* Drain, then stop.
Exhausted(s) == sub[s] = "closed" /\ queue[s] = <<>>

\* __anext__ up to its await.
Anext(c) ==
  LET s == ConsumerOf[c] IN
  /\ pc[c] = "idle"
  /\ sub[s] # "none"
  /\ \/ /\ Exhausted(s)
        /\ pc' = [pc EXCEPT ![c] = "stopped"]
        /\ UNCHANGED <<queue, received, getters>>
     \/ /\ ~Exhausted(s)
        /\ queue[s] # <<>>
        /\ Take(c, s)
        /\ UNCHANGED getters
     \/ /\ ~Exhausted(s)
        /\ queue[s] = <<>>
        /\ Block(c, s)
        /\ UNCHANGED <<queue, received>>
  /\ UNCHANGED <<count, sub, active, since, missed>>

\* A woken consumer resumes inside get(); if another one emptied the queue in
\* the meantime it blocks again, without looking at _closed.
Resume(c) ==
  LET s == ConsumerOf[c] IN
  /\ pc[c] = "woken"
  /\ \/ /\ queue[s] # <<>>
        /\ Take(c, s)
        /\ UNCHANGED getters
     \/ /\ queue[s] = <<>>
        /\ Block(c, s)
        /\ UNCHANGED <<queue, received>>
  /\ UNCHANGED <<count, sub, active, since, missed>>

\* The getter of c, which waits for the queue of s, is removed.
Forget(c, s) ==
  \E i \in 1..Len(getters[s]) :
    getters[s][i] = c /\ getters' = [getters EXCEPT ![s] = RemoveAt(@, i)]

\* Faulty variant: a cancelled consumer keeps its wake-up to itself.
NoHandOver(c, s) ==
  /\ pc' = [pc EXCEPT ![c] = "idle"]
  /\ IF pc[c] = "blocked" THEN Forget(c, s) ELSE UNCHANGED getters

\* get() is cancelled: the getter is removed, and a wake-up that came already
\* is handed to the next one when there is an item to take.
HandOver(c, s) ==
  \/ /\ pc[c] = "blocked"
     /\ pc' = [pc EXCEPT ![c] = "idle"]
     /\ Forget(c, s)
  \/ /\ pc[c] = "woken"
     /\ queue[s] = <<>> \/ getters[s] = <<>>
     /\ pc' = [pc EXCEPT ![c] = "idle"]
     /\ UNCHANGED getters
  \/ /\ pc[c] = "woken"
     /\ queue[s] # <<>> /\ getters[s] # <<>>
     /\ pc' = [pc EXCEPT ![c] = "idle", ![Head(getters[s])] = "woken"]
     /\ getters' = [getters EXCEPT ![s] = Tail(@)]

\* The task awaiting __anext__ is cancelled, or its wait_for times out.
CancelWait(c) ==
  /\ pc[c] \in {"blocked", "woken"}
  /\ HandOver(c, ConsumerOf[c])
  /\ UNCHANGED <<count, sub, active, queue, received, since, missed>>

-----------------------------------------------------------------------------
Next ==
  \/ Notify \/ Teardown
  \/ \E s \in Subs : Subscribe(s) \/ Close(s)
  \/ \E c \in Consumers : Anext(c) \/ Resume(c) \/ CancelWait(c)

Spec == Init /\ [][Next]_vars

\* The loop resumes woken consumers, and consumers iterate to the end.
FairSpec == Spec /\ \A c \in Consumers : WF_vars(Resume(c)) /\ WF_vars(Anext(c))

-----------------------------------------------------------------------------
(* Properties.                                                             *)

TypeOK ==
  /\ count \in 0..MaxNotifications
  /\ sub \in [Subs -> {"none", "open", "closed"}]
  /\ active \subseteq Subs
  /\ queue \in [Subs -> Seq(0..MaxNotifications)]
  /\ MaxQueue > 0 => \A s \in Subs : Len(queue[s]) <= MaxQueue
  /\ getters \in [Subs -> Seq(Consumers)]
  /\ pc \in [Consumers -> {"idle", "blocked", "woken", "stopped"}]
  /\ received \in [Subs -> Seq(0..MaxNotifications)]
  /\ since \in [Subs -> 0..MaxNotifications]
  /\ missed \in [Subs -> SUBSET (1..MaxNotifications)]

\* Fan-out and isolation (R2.1, R2.2, Property 6): whatever the queues of the
\* others do, an open subscription was given, holds, or itself discarded each
\* notification dispatched since it was created, once and in order.
OpenSubscriberGetsAll ==
  \A s \in Subs : sub[s] = "open" =>
    LET got == received[s] \o queue[s] IN
    /\ Range(got) \cup missed[s] = since[s] + 1 .. count
    /\ Range(got) \cap missed[s] = {}
    /\ \A i, j \in 1..Len(got) : i < j => got[i] < got[j]

\* Drain-then-stop (Property 8): when a consumer was told the end, nothing
\* that was buffered is left behind.
StoppedMeansDrained ==
  \A c \in Consumers : pc[c] = "stopped" =>
    sub[ConsumerOf[c]] = "closed" /\ queue[ConsumerOf[c]] = <<>>

\* The class documents a single consumer: close() leaves one sentinel, which
\* wakes one of several.
Alone(c) == \A x \in Consumers : ConsumerOf[x] = ConsumerOf[c] => x = c

\* The consumer of a subscription does not stay blocked on it once it is
\* closed, also when the sentinel found no room in its queue.
NoneBlockedOnClosed ==
  \A c \in Consumers : Alone(c) /\ pc[c] = "blocked" => sub[ConsumerOf[c]] # "closed"

\* Consumers that share a subscription lose no wake-up to each other or to a
\* cancellation: while items wait and a consumer is blocked, one is awake.
NoLostWakeup ==
  \A c \in Consumers : pc[c] = "blocked" /\ queue[ConsumerOf[c]] # <<>> =>
    \E d \in Consumers : ConsumerOf[d] = ConsumerOf[c] /\ pc[d] = "woken"

\* The iteration over a closed subscription ends (Property 8), whether it was
\* closed by its owner, by the bus, or by an overflow.
IterationEnds ==
  \A c \in Consumers :
    Alone(c) /\ sub[ConsumerOf[c]] = "closed" ~> pc[c] = "stopped"
=============================================================================
