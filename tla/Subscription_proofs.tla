------------------------ MODULE Subscription_proofs ------------------------
(* Theorems about module Subscription and their proofs. *)
EXTENDS Subscription, SequenceTheorems, FiniteSetTheorems, TLAPS

-----------------------------------------------------------------------------
(* The inductive invariant.                                                 *)

\* The consumers of s that wait in get(), and those a put or a hand-over woke.
Blocked(s) == {x \in Consumers : ConsumerOf[x] = s /\ pc[x] = "blocked"}
Woken(s) == {x \in Consumers : ConsumerOf[x] = s /\ pc[x] = "woken"}

\* The sequence g holds each member of B once, and nothing else.
Lists(g, B) ==
  /\ \A i \in 1..Len(g) : g[i] \in B
  /\ \A x \in B : \E i \in 1..Len(g) : g[i] = x
  /\ \A i, j \in 1..Len(g) : g[i] = g[j] => i = j

\* While someone waits, there are at least as many woken consumers, of W, as
\* items in the queue q: every item has its taker.
Served(g, q, W) ==
  /\ IsFiniteSet(W)
  /\ g # <<>> => Len(q) <= Cardinality(W)

\* A subscription that was not made yet holds nothing.
Untouched(s) == sub[s] = "none" => received[s] = <<>> /\ queue[s] = <<>> /\ missed[s] = {}

\* The sentinel is the last item of a closed subscription.
Marked(s) ==
  \A i \in 1..Len(queue[s]) :
    queue[s][i] = CloseMark => sub[s] = "closed" /\ i = Len(queue[s])

\* What became of the notifications since, up to n, when got were given or are
\* queued and lost were discarded.
Accounted(got, lost, from, n) ==
  /\ Range(got) \cup lost = from + 1 .. n
  /\ Range(got) \cap lost = {}
  /\ \A i, j \in 1..Len(got) : i < j => got[i] < got[j]

\* OpenSubscriberGetsAll for one subscription.
Gets(s) ==
  /\ since[s] <= count
  /\ sub[s] = "open" => Accounted(received[s] \o queue[s], missed[s], since[s], count)

\* A consumer that was told the end left nothing behind; a lone one is woken
\* for an item, and does not wait for a closed subscription.
Ends(x) ==
  LET s == ConsumerOf[x] IN
  /\ pc[x] = "stopped" => sub[s] = "closed" /\ queue[s] = <<>>
  /\ Alone(x) /\ pc[x] = "woken" => queue[s] # <<>>
  /\ Alone(x) /\ pc[x] = "blocked" => sub[s] # "closed"

Lined(s) == Lists(getters[s], Blocked(s)) /\ Served(getters[s], queue[s], Woken(s))

SubInv ==
  /\ TypeOK
  /\ active = {s \in Subs : sub[s] = "open"}
  /\ \A s \in Subs : Untouched(s) /\ Marked(s) /\ Gets(s) /\ Lined(s)
  /\ \A x \in Consumers : Ends(x)

-----------------------------------------------------------------------------
(* Lines of waiting consumers.                                              *)

\* The first of a line is one of those who wait, and the rest are the others.
LEMMA ListsTail ==
  ASSUME NEW S, NEW g \in Seq(S), NEW B, Lists(g, B), g # <<>>
  PROVE  Head(g) \in B /\ Lists(Tail(g), B \ {Head(g)})
<1> DEFINE n == Len(g)
           t == Tail(g)
<1>1. /\ n \in Nat \ {0} /\ Len(t) = n - 1 /\ Head(g) = g[1]
      /\ \A i \in 1..n - 1 : t[i] = g[i + 1]
  BY HeadTailProperties, LenProperties, EmptySeq
<1>2. /\ \A i \in 1..n : g[i] \in B
      /\ \A x \in B : \E i \in 1..n : g[i] = x
      /\ \A i, j \in 1..n : g[i] = g[j] => i = j
  BY DEF Lists
<1> HIDE DEF n, t
<1>3. ASSUME NEW i \in 1..n - 1 PROVE t[i] \in B \ {g[1]}
  <2>1. i + 1 \in 1..n /\ 1 \in 1..n /\ i + 1 # 1
    BY <1>1
  <2> QED BY <1>1, <1>2, <2>1
<1>4. ASSUME NEW x \in B \ {g[1]} PROVE \E i \in 1..n - 1 : t[i] = x
  <2>1. PICK i \in 1..n : g[i] = x
    BY <1>2
  <2>2. i - 1 \in 1..n - 1 /\ i - 1 + 1 = i
    BY <1>1, <1>4, <2>1
  <2> QED BY <1>1, <2>1, <2>2
<1>5. ASSUME NEW i \in 1..n - 1, NEW j \in 1..n - 1, t[i] = t[j] PROVE i = j
  <2>1. i + 1 \in 1..n /\ j + 1 \in 1..n
    BY <1>1
  <2>2. i + 1 = j + 1
    BY <1>1, <1>2, <1>5, <2>1
  <2> QED BY <2>2
<1>6. g[1] \in B
  BY <1>1, <1>2
<1>7. Lists(t, B \ {g[1]})
  BY <1>1, <1>3, <1>4, <1>5 DEF Lists
<1> QED BY <1>1, <1>6, <1>7 DEF t

\* A newcomer goes to the end of the line.
LEMMA ListsAppend ==
  ASSUME NEW S, NEW g \in Seq(S), NEW B, Lists(g, B), NEW c \in S, c \notin B
  PROVE  Lists(Append(g, c), B \cup {c})
<1> DEFINE n == Len(g)
           a == Append(g, c)
<1>1. /\ n \in Nat /\ Len(a) = n + 1 /\ a[n + 1] = c
      /\ \A i \in 1..n : a[i] = g[i]
  BY AppendProperties, LenProperties
<1>2. /\ \A i \in 1..n : g[i] \in B
      /\ \A x \in B : \E i \in 1..n : g[i] = x
      /\ \A i, j \in 1..n : g[i] = g[j] => i = j
  BY DEF Lists
<1> HIDE DEF n, a
<1>3. \A i \in 1..n + 1 : i \in 1..n \/ i = n + 1
  BY <1>1
<1>4. n + 1 \in 1..n + 1 /\ \A i \in 1..n : i \in 1..n + 1
  BY <1>1
<1>5. \A i \in 1..n + 1 : a[i] \in B \cup {c}
  BY <1>1, <1>2, <1>3
<1>6. \A x \in B \cup {c} : \E i \in 1..n + 1 : a[i] = x
  BY <1>1, <1>2, <1>4
<1>7. \A i, j \in 1..n + 1 : a[i] = a[j] => i = j
  BY <1>1, <1>2, <1>3
<1>8. Lists(a, B \cup {c})
  BY <1>1, <1>5, <1>6, <1>7 DEF Lists
<1> QED BY <1>8 DEF a

\* One who gives up leaves the line as it is around him.
LEMMA ListsRemove ==
  ASSUME NEW S, NEW g \in Seq(S), NEW B, Lists(g, B), NEW k \in 1..Len(g)
  PROVE  RemoveAt(g, k) \in Seq(S) /\ Lists(RemoveAt(g, k), B \ {g[k]})
<1> DEFINE n == Len(g)
           u == SubSeq(g, 1, k - 1)
           v == SubSeq(g, k + 1, n)
           h == RemoveAt(g, k)
<1>1. n \in Nat /\ k \in 1..n /\ \A i \in 1..n : g[i] \in S
  BY LenProperties, ElementOfSeq
<1>2. /\ \A i \in 1..n : g[i] \in B
      /\ \A x \in B : \E i \in 1..n : g[i] = x
      /\ \A i, j \in 1..n : g[i] = g[j] => i = j
  BY DEF Lists
<1>3. /\ u \in Seq(S) /\ Len(u) = k - 1
      /\ \A i \in 1..k - 1 : u[i] = g[i]
  <2> HIDE DEF n
  <2>1. k - 1 \in Int /\ k - 1 - 1 + 1 = k - 1 /\ 1 \in Int
    BY <1>1
  <2>2. \A i \in 1..k - 1 : g[i] \in S
    BY <1>1
  <2>3. /\ u \in Seq(S) /\ Len(u) = IF 1 <= k - 1 THEN k - 1 - 1 + 1 ELSE 0
        /\ \A i \in 1..k - 1 - 1 + 1 : u[i] = g[1 + i - 1]
    BY <2>1, <2>2, SubSeqProperties
  <2> HIDE DEF u
  <2> QED BY <1>1, <2>3
<1>4. /\ v \in Seq(S) /\ Len(v) = n - k
      /\ \A i \in 1..n - k : v[i] = g[k + i]
  <2> HIDE DEF n
  <2>1. k + 1 \in Int /\ n \in Int /\ n - (k + 1) + 1 = n - k
    BY <1>1
  <2>2. \A i \in k + 1..n : g[i] \in S
    BY <1>1
  <2>3. /\ v \in Seq(S) /\ Len(v) = IF k + 1 <= n THEN n - (k + 1) + 1 ELSE 0
        /\ \A i \in 1..n - (k + 1) + 1 : v[i] = g[k + 1 + i - 1]
    BY <2>1, <2>2, SubSeqProperties
  <2> HIDE DEF v
  <2> QED BY <1>1, <2>3
<1>5. h = u \o v
  BY DEF RemoveAt
<1> HIDE DEF n, u, v, h
<1>6. /\ h \in Seq(S) /\ Len(h) = n - 1
      /\ \A i \in 1..n - 1 : h[i] = IF i <= k - 1 THEN u[i] ELSE v[i - (k - 1)]
  <2>1. /\ h \in Seq(S) /\ Len(h) = Len(u) + Len(v)
        /\ \A i \in 1..Len(u) + Len(v) : h[i] = IF i <= Len(u) THEN u[i] ELSE v[i - Len(u)]
    BY <1>3, <1>4, <1>5, ConcatProperties
  <2>2. Len(u) + Len(v) = n - 1
    BY <1>1, <1>3, <1>4
  <2> QED BY <1>3, <2>1, <2>2
<1>7. ASSUME NEW i \in 1..n - 1
      PROVE  /\ i < k => h[i] = g[i] /\ i \in 1..n
             /\ i >= k => h[i] = g[i + 1] /\ i + 1 \in 1..n
  <2>1. CASE i < k
    BY <1>1, <1>3, <1>6, <2>1
  <2>2. CASE i >= k
    <3>1. ~(i <= k - 1) /\ i - (k - 1) \in 1..n - k /\ k + (i - (k - 1)) = i + 1
      BY <1>1, <2>2
    <3> QED BY <1>1, <1>4, <1>6, <2>2, <3>1
  <2> QED BY <1>1, <2>1, <2>2
<1>8. ASSUME NEW i \in 1..n - 1 PROVE h[i] \in B \ {g[k]}
  BY <1>1, <1>2, <1>7
<1>9. ASSUME NEW x \in B \ {g[k]} PROVE \E i \in 1..n - 1 : h[i] = x
  <2>1. PICK i \in 1..n : g[i] = x
    BY <1>2
  <2>2. CASE i < k
    BY <1>1, <1>7, <2>1, <2>2
  <2>3. CASE i > k
    <3>1. i - 1 \in 1..n - 1 /\ i - 1 >= k /\ i - 1 + 1 = i
      BY <1>1, <2>3
    <3> QED BY <1>7, <2>1, <3>1
  <2> QED BY <1>1, <1>9, <2>1, <2>2, <2>3
<1>10. ASSUME NEW i \in 1..n - 1, NEW j \in 1..n - 1, h[i] = h[j] PROVE i = j
  BY <1>1, <1>2, <1>7, <1>10
<1>11. Lists(h, B \ {g[k]})
  BY <1>6, <1>8, <1>9, <1>10 DEF Lists
<1> QED BY <1>6, <1>11 DEF h

-----------------------------------------------------------------------------
(* The account of the notifications.                                        *)

\* What is put on a queue is put behind what was given.
LEMMA PutBehind ==
  ASSUME NEW S, NEW r \in Seq(S), NEW q \in Seq(S), NEW k \in S
  PROVE  r \o Append(q, k) = Append(r \o q, k)
<1>1. Append(q, k) = q \o <<k>> /\ r \o q \in Seq(S) /\ <<k>> \in Seq(S)
  BY AppendIsConcat, ConcatProperties
<1>2. Append(r \o q, k) = (r \o q) \o <<k>>
  BY <1>1, AppendIsConcat
<1> QED BY <1>1, <1>2, ConcatAssociative

\* What is taken from a queue goes where it was in the account.
LEMMA TakeMoves ==
  ASSUME NEW S, NEW r \in Seq(S), NEW q \in Seq(S), q # <<>>
  PROVE  Append(r, Head(q)) \o Tail(q) = r \o q
<1>1. Head(q) \in S /\ Tail(q) \in Seq(S) /\ <<Head(q)>> \in Seq(S)
  BY HeadTailProperties
<1>2. <<Head(q)>> \o Tail(q) = q
  BY <1>1
<1>3. Append(r, Head(q)) = r \o <<Head(q)>>
  BY <1>1, AppendIsConcat
<1> QED BY <1>1, <1>2, <1>3, ConcatAssociative

\* The next notification is accounted for when it is put, or discarded.
LEMMA AccountNext ==
  ASSUME NEW M, NEW got \in Seq(0..M), NEW lost, NEW from \in Nat, NEW n \in Nat,
         n + 1 <= M, M \in Nat, from <= n, Accounted(got, lost, from, n)
  PROVE  /\ Accounted(Append(got, n + 1), lost, from, n + 1)
         /\ Accounted(got, lost \cup {n + 1}, from, n + 1)
<1> DEFINE a == Append(got, n + 1)
           m == Len(got)
<1>1. /\ m \in Nat /\ Len(a) = m + 1 /\ a[m + 1] = n + 1 /\ a \in Seq(0..M)
      /\ \A i \in 1..m : a[i] = got[i]
  BY AppendProperties, LenProperties
<1>2. Range(got) = {got[i] : i \in 1..m} /\ Range(a) = {a[i] : i \in 1..Len(a)}
  BY <1>1, RangeEquality
<1>3. /\ Range(got) \cup lost = from + 1 .. n /\ Range(got) \cap lost = {}
      /\ \A i, j \in 1..m : i < j => got[i] < got[j]
  BY DEF Accounted
<1>4. from + 1 .. n + 1 = (from + 1 .. n) \cup {n + 1} /\ n + 1 \notin from + 1 .. n
  OBVIOUS
<1> HIDE DEF a, m
<1>5. \A i \in 1..m + 1 : i \in 1..m \/ i = m + 1
  BY <1>1
<1>6. m + 1 \in 1..m + 1 /\ \A i \in 1..m : i \in 1..m + 1
  BY <1>1
<1>7. Range(a) = Range(got) \cup {n + 1}
  BY <1>1, <1>2, <1>5, <1>6
<1>8. \A i \in 1..m : got[i] \in from + 1 .. n
  BY <1>2, <1>3
<1>9. ASSUME NEW i \in 1..m + 1, NEW j \in 1..m + 1, i < j PROVE a[i] < a[j]
  <2>1. i \in 1..m
    BY <1>1, <1>9
  <2>2. CASE j \in 1..m
    BY <1>1, <1>3, <1>9, <2>1, <2>2
  <2>3. CASE j = m + 1
    <3>1. got[i] \in from + 1 .. n /\ a[i] = got[i] /\ a[j] = n + 1
      BY <1>1, <1>8, <2>1, <2>3
    <3> QED BY <3>1
  <2> QED BY <1>5, <2>2, <2>3
<1>10. Accounted(a, lost, from, n + 1)
  BY <1>1, <1>3, <1>4, <1>7, <1>9 DEF Accounted
<1>11. Accounted(got, lost \cup {n + 1}, from, n + 1)
  BY <1>3, <1>4 DEF Accounted, m
<1> QED BY <1>10, <1>11 DEF a

-----------------------------------------------------------------------------
(* The types.                                                               *)

\* put_nowait keeps the types of the consumers and of the lines.
LEMMA WakeType ==
  ASSUME TypeOK, NEW S, Wake(S)
  PROVE  /\ pc' \in [Consumers -> {"idle", "blocked", "woken", "stopped"}]
         /\ getters' \in [Subs -> Seq(Consumers)]
<1>1. \A s \in Subs : getters[s] # <<>> => Tail(getters[s]) \in Seq(Consumers)
  BY HeadTailProperties DEF TypeOK
<1> QED BY <1>1 DEF Wake, TypeOK

\* Putting one item on the queues of S that have room keeps their types.
LEMMA PutType ==
  ASSUME TypeOK, QueueAssumption, NEW S, NEW k \in 0..MaxNotifications,
         \A s \in S : ~Full(s),
         queue' = [s \in Subs |-> IF s \in S THEN Append(queue[s], k) ELSE queue[s]]
  PROVE  /\ queue' \in [Subs -> Seq(0..MaxNotifications)]
         /\ MaxQueue > 0 => \A s \in Subs : Len(queue'[s]) <= MaxQueue
<1>1. \A s \in Subs : queue[s] \in Seq(0..MaxNotifications)
  BY DEF TypeOK
<1>2. ASSUME NEW s \in Subs
      PROVE  /\ queue'[s] \in Seq(0..MaxNotifications)
             /\ MaxQueue > 0 => Len(queue'[s]) <= MaxQueue
  <2>1. CASE s \in S
    <3>1. queue'[s] = Append(queue[s], k)
      BY <2>1
    <3>2. /\ Append(queue[s], k) \in Seq(0..MaxNotifications)
          /\ Len(Append(queue[s], k)) = Len(queue[s]) + 1 /\ Len(queue[s]) \in Nat
      BY <1>1, AppendProperties, LenProperties
    <3>3. MaxQueue > 0 => Len(queue[s]) < MaxQueue
      BY <2>1, <3>2 DEF Full, QueueAssumption
    <3>4. MaxQueue > 0 => Len(queue[s]) + 1 <= MaxQueue
      BY <3>2, <3>3 DEF QueueAssumption
    <3> QED BY <3>1, <3>2, <3>4
  <2>2. CASE s \notin S
    BY <1>1, <2>2 DEF TypeOK
  <2> QED BY <2>1, <2>2
<1> QED BY <1>2

\* So does close() of some subscriptions.
LEMMA CloseType ==
  ASSUME TypeOK, QueueAssumption, NEW S, CloseAll(S),
         UNCHANGED <<count, received, since, missed>>
  PROVE  TypeOK'
<1>1. 0 \in 0..MaxNotifications
  BY DEF QueueAssumption
<1>2. /\ queue' \in [Subs -> Seq(0..MaxNotifications)]
      /\ MaxQueue > 0 => \A s \in Subs : Len(queue'[s]) <= MaxQueue
  <2> DEFINE room == {s \in S : ~Full(s)}
  <2>1. queue' = [s \in Subs |-> IF s \in room THEN Append(queue[s], 0) ELSE queue[s]]
    BY DEF CloseAll, CloseMark
  <2>2. \A s \in room : ~Full(s)
    OBVIOUS
  <2> HIDE DEF room
  <2> QED BY <1>1, <2>1, <2>2, PutType
<1>3. /\ pc' \in [Consumers -> {"idle", "blocked", "woken", "stopped"}]
      /\ getters' \in [Subs -> Seq(Consumers)]
  BY WakeType DEF CloseAll
<1>4. sub' \in [Subs -> {"none", "open", "closed"}] /\ active' \subseteq Subs
  BY DEF CloseAll, TypeOK
<1> QED BY <1>2, <1>3, <1>4 DEF TypeOK

\* Taking the head of a queue keeps the types.
LEMMA TakeType ==
  ASSUME TypeOK, QueueAssumption, NEW c \in Consumers, NEW s \in Subs,
         queue[s] # <<>>, Take(c, s)
  PROVE  /\ queue' \in [Subs -> Seq(0..MaxNotifications)]
         /\ MaxQueue > 0 => \A x \in Subs : Len(queue'[x]) <= MaxQueue
         /\ received' \in [Subs -> Seq(0..MaxNotifications)]
         /\ pc' \in [Consumers -> {"idle", "blocked", "woken", "stopped"}]
<1>1. queue[s] \in Seq(0..MaxNotifications) /\ received[s] \in Seq(0..MaxNotifications)
  BY DEF TypeOK
<1>2. /\ Head(queue[s]) \in 0..MaxNotifications /\ Tail(queue[s]) \in Seq(0..MaxNotifications)
      /\ Len(Tail(queue[s])) = Len(queue[s]) - 1 /\ Len(queue[s]) \in Nat
  BY <1>1, HeadTailProperties, LenProperties
<1>3. Append(received[s], Head(queue[s])) \in Seq(0..MaxNotifications)
  BY <1>1, <1>2, AppendProperties
<1>4. queue' = [queue EXCEPT ![s] = Tail(queue[s])]
  BY DEF Take
<1>5. MaxQueue > 0 => \A x \in Subs : Len(queue'[x]) <= MaxQueue
  <2> SUFFICES ASSUME MaxQueue > 0, NEW x \in Subs PROVE Len(queue'[x]) <= MaxQueue
    OBVIOUS
  <2>1. Len(queue[x]) <= MaxQueue /\ Len(queue[s]) <= MaxQueue
    BY DEF TypeOK
  <2>2. Len(queue[s]) - 1 <= MaxQueue
    BY <1>2, <2>1 DEF QueueAssumption
  <2>3. queue'[x] = IF x = s THEN Tail(queue[s]) ELSE queue[x]
    BY <1>4 DEF TypeOK
  <2> QED BY <1>2, <2>1, <2>2, <2>3
<1>6. queue' \in [Subs -> Seq(0..MaxNotifications)]
  BY <1>2, <1>4 DEF TypeOK
<1>7. /\ received' \in [Subs -> Seq(0..MaxNotifications)]
      /\ pc' \in [Consumers -> {"idle", "blocked", "woken", "stopped"}]
  BY <1>3 DEF Take, TypeOK
<1> QED BY <1>5, <1>6, <1>7

\* A consumer that suspends in get() keeps the types.
LEMMA BlockType ==
  ASSUME TypeOK, NEW c \in Consumers, NEW s \in Subs, Block(c, s)
  PROVE  /\ pc' \in [Consumers -> {"idle", "blocked", "woken", "stopped"}]
         /\ getters' \in [Subs -> Seq(Consumers)]
<1>1. Append(getters[s], c) \in Seq(Consumers)
  BY AppendProperties DEF TypeOK
<1> QED BY <1>1 DEF Block, TypeOK

\* Every step keeps the types, and with them no queue outgrows max_queue.
LEMMA TypeStep ==
  ASSUME QueueAssumption, ConsumersAssumption, TypeOK, [Next]_vars,
         \A s \in Subs : Lists(getters[s], Blocked(s))
  PROVE  TypeOK'
<1>1. CASE Notify
  <2> DEFINE room == {s \in Reached : ~Full(s)}
  <2>1. /\ count' = count + 1 /\ count < MaxNotifications /\ Wake(room)
        /\ queue' = [s \in Subs |-> IF s \in room THEN Append(queue[s], count + 1) ELSE queue[s]]
        /\ missed' = [s \in Subs |-> IF s \in Reached \ room THEN missed[s] \cup {count + 1}
                                                             ELSE missed[s]]
        /\ UNCHANGED <<received, since>>
    BY <1>1 DEF Notify
  <2>2. \A s \in room : ~Full(s)
    OBVIOUS
  <2>3. sub' \in [Subs -> {"none", "open", "closed"}] /\ active' \subseteq Subs
    BY <1>1 DEF Notify, TypeOK
  <2> HIDE DEF room
  <2>4. count + 1 \in 1..MaxNotifications /\ count + 1 \in 0..MaxNotifications
    BY <2>1 DEF TypeOK, QueueAssumption
  <2>5. /\ queue' \in [Subs -> Seq(0..MaxNotifications)]
        /\ MaxQueue > 0 => \A s \in Subs : Len(queue'[s]) <= MaxQueue
    BY <2>1, <2>2, <2>4, PutType
  <2>6. /\ pc' \in [Consumers -> {"idle", "blocked", "woken", "stopped"}]
        /\ getters' \in [Subs -> Seq(Consumers)]
    BY <2>1, WakeType
  <2>7. missed' \in [Subs -> SUBSET (1..MaxNotifications)]
    BY <2>1, <2>4 DEF TypeOK
  <2> QED BY <2>1, <2>3, <2>4, <2>5, <2>6, <2>7 DEF TypeOK
<1>2. CASE Teardown
  BY <1>2, CloseType DEF Teardown
<1>3. ASSUME NEW s \in Subs, Subscribe(s) PROVE TypeOK'
  BY <1>3 DEF Subscribe, TypeOK
<1>4. ASSUME NEW s \in Subs, Close(s) PROVE TypeOK'
  BY <1>4, CloseType DEF Close, TypeOK
<1>5. ASSUME NEW c \in Consumers, Anext(c) \/ Resume(c) PROVE TypeOK'
  <2> DEFINE s == ConsumerOf[c]
  <2>0. s \in Subs
    BY DEF ConsumersAssumption
  <2>1. UNCHANGED <<count, sub, active, since, missed>>
    BY <1>5 DEF Anext, Resume
  <2>2. CASE queue[s] # <<>> /\ Take(c, s) /\ UNCHANGED getters
    BY <2>0, <2>1, <2>2, TakeType DEF TypeOK
  <2>3. CASE Block(c, s) /\ UNCHANGED <<queue, received>>
    BY <2>0, <2>1, <2>3, BlockType DEF TypeOK
  <2>4. CASE pc' = [pc EXCEPT ![c] = "stopped"] /\ UNCHANGED <<queue, received, getters>>
    BY <2>1, <2>4 DEF TypeOK
  <2> QED BY <1>5, <2>2, <2>3, <2>4 DEF Anext, Resume
<1>6. ASSUME NEW c \in Consumers, CancelWait(c) PROVE TypeOK'
  <2> DEFINE s == ConsumerOf[c]
             g == getters[s]
  <2>0. s \in Subs /\ g \in Seq(Consumers) /\ Lists(g, Blocked(s))
    BY DEF ConsumersAssumption, TypeOK
  <2>1. UNCHANGED <<count, sub, active, queue, received, since, missed>> /\ HandOver(c, s)
    BY <1>6 DEF CancelWait
  <2>2. \A i \in 1..Len(g) : RemoveAt(g, i) \in Seq(Consumers)
    BY <2>0, ListsRemove
  <2>3. g # <<>> => Head(g) \in Consumers /\ Tail(g) \in Seq(Consumers)
    BY <2>0, HeadTailProperties
  <2>4. getters' \in [Subs -> Seq(Consumers)]
    <3>1. \/ getters' = getters
          \/ \E i \in 1..Len(g) : getters' = [getters EXCEPT ![s] = RemoveAt(g, i)]
          \/ g # <<>> /\ getters' = [getters EXCEPT ![s] = Tail(g)]
      BY <2>1 DEF HandOver, Forget
    <3>2. \A h \in Seq(Consumers) : [getters EXCEPT ![s] = h] \in [Subs -> Seq(Consumers)]
      BY <2>0 DEF TypeOK
    <3> HIDE DEF g, s
    <3>3. CASE getters' = getters
      BY <3>3 DEF TypeOK
    <3>4. ASSUME NEW i \in 1..Len(g), getters' = [getters EXCEPT ![s] = RemoveAt(g, i)]
          PROVE  getters' \in [Subs -> Seq(Consumers)]
      BY <2>2, <3>2, <3>4
    <3>5. CASE g # <<>> /\ getters' = [getters EXCEPT ![s] = Tail(g)]
      BY <2>3, <3>2, <3>5
    <3> QED BY <3>1, <3>3, <3>4, <3>5
  <2>5. pc' \in [Consumers -> {"idle", "blocked", "woken", "stopped"}]
    BY <2>1, <2>3 DEF HandOver, TypeOK
  <2> QED BY <2>1, <2>4, <2>5 DEF TypeOK
<1>7. CASE UNCHANGED vars
  BY <1>7 DEF vars, TypeOK
<1> QED BY <1>1, <1>2, <1>3, <1>4, <1>5, <1>6, <1>7 DEF Next

-----------------------------------------------------------------------------
(* The steps of the program, by what they do to one subscription.           *)

\* The consumers of s do nothing but c, which goes to v.
Goes(c, s, v) ==
  \A x \in Consumers : ConsumerOf[x] = s => pc'[x] = IF x = c THEN v ELSE pc[x]

Still(s) ==
  /\ queue'[s] = queue[s] /\ getters'[s] = getters[s] /\ received'[s] = received[s]
  /\ \A x \in Consumers : ConsumerOf[x] = s => pc'[x] = pc[x]

\* An item is put, and the first who waits is woken.
Puts(s, k) ==
  /\ ~Full(s) /\ queue'[s] = Append(queue[s], k) /\ received'[s] = received[s]
  /\ getters[s] = <<>> =>
       /\ getters'[s] = getters[s]
       /\ \A x \in Consumers : ConsumerOf[x] = s => pc'[x] = pc[x]
  /\ getters[s] # <<>> =>
       getters'[s] = Tail(getters[s]) /\ Goes(Head(getters[s]), s, "woken")

\* A consumer takes an item; the sentinel ends its iteration.
Takes(c, s) ==
  /\ pc[c] \in {"idle", "woken"} /\ queue[s] # <<>>
  /\ queue'[s] = Tail(queue[s]) /\ getters'[s] = getters[s]
  /\ Head(queue[s]) = CloseMark => Goes(c, s, "stopped") /\ received'[s] = received[s]
  /\ Head(queue[s]) # CloseMark =>
       Goes(c, s, "idle") /\ received'[s] = Append(received[s], Head(queue[s]))

Suspends(c, s) ==
  /\ pc[c] \in {"idle", "woken"} /\ queue[s] = <<>>
  /\ pc[c] = "idle" => sub[s] # "closed"
  /\ Goes(c, s, "blocked") /\ getters'[s] = Append(getters[s], c)
  /\ queue'[s] = queue[s] /\ received'[s] = received[s]

Leaves(c, s) ==
  /\ pc[c] = "idle" /\ Exhausted(s) /\ Goes(c, s, "stopped")
  /\ queue'[s] = queue[s] /\ getters'[s] = getters[s] /\ received'[s] = received[s]

\* A wait is cancelled: of one who waits, of one woken for nothing that another
\* could take, and of one woken, whose wake-up goes to the next.
GivesUp(c, s) ==
  /\ queue'[s] = queue[s] /\ received'[s] = received[s]
  /\ \/ /\ pc[c] = "blocked" /\ Goes(c, s, "idle")
        /\ \E i \in 1..Len(getters[s]) :
             getters[s][i] = c /\ getters'[s] = RemoveAt(getters[s], i)
     \/ /\ pc[c] = "woken" /\ (queue[s] = <<>> \/ getters[s] = <<>>)
        /\ Goes(c, s, "idle") /\ getters'[s] = getters[s]
     \/ /\ pc[c] = "woken" /\ queue[s] # <<>> /\ getters[s] # <<>>
        /\ \A x \in Consumers : ConsumerOf[x] = s =>
             pc'[x] = IF x = Head(getters[s]) THEN "woken" ELSE IF x = c THEN "idle" ELSE pc[x]
        /\ getters'[s] = Tail(getters[s])

Consumes(s) ==
  \E c \in Consumers :
    ConsumerOf[c] = s /\ (Takes(c, s) \/ Suspends(c, s) \/ Leaves(c, s) \/ GivesUp(c, s))

\* A notification comes: it is put, discarded by a full queue, or not for s.
Notified(s) ==
  /\ count' = count + 1 /\ count < MaxNotifications /\ since'[s] = since[s]
  /\ \/ /\ sub[s] = "open" /\ sub'[s] = "open" /\ missed'[s] = missed[s]
        /\ Puts(s, count + 1)
     \/ /\ sub[s] = "open" /\ sub'[s] \in {"open", "closed"} /\ Full(s) /\ Still(s)
        /\ missed'[s] = missed[s] \cup {count + 1}
     \/ /\ sub[s] # "open" /\ sub'[s] = sub[s] /\ Still(s) /\ missed'[s] = missed[s]

Opens(s) ==
  /\ sub[s] = "none" /\ sub'[s] = "open" /\ count' = count /\ since'[s] = count
  /\ missed'[s] = missed[s] /\ Still(s)

\* s is closed: the sentinel finds room or not.
Closes(s) ==
  /\ sub[s] = "open" /\ sub'[s] = "closed"
  /\ count' = count /\ since'[s] = since[s] /\ missed'[s] = missed[s]
  /\ Puts(s, CloseMark) \/ (Full(s) /\ Still(s))

\* The life of s goes on, with or without a step of one of its consumers.
GoesOn(s) ==
  /\ sub'[s] = sub[s] /\ count' = count /\ since'[s] = since[s] /\ missed'[s] = missed[s]
  /\ Still(s) \/ Consumes(s)

\* put_nowait wakes, of each subscription, its own consumers only.
LEMMA WakeIsLocal ==
  ASSUME TypeOK, NEW S \in SUBSET Subs, Wake(S),
         \A x \in Subs : Lists(getters[x], Blocked(x)), NEW s \in Subs
  PROVE  /\ s \in S /\ getters[s] # <<>> =>
              getters'[s] = Tail(getters[s]) /\ Goes(Head(getters[s]), s, "woken")
         /\ s \notin S \/ getters[s] = <<>> =>
              /\ getters'[s] = getters[s]
              /\ \A x \in Consumers : ConsumerOf[x] = s => pc'[x] = pc[x]
<1> DEFINE first == {Head(getters[y]) : y \in {x \in S : getters[x] # <<>>}}
<1>1. /\ pc' = [c \in Consumers |-> IF c \in first THEN "woken" ELSE pc[c]]
      /\ getters' = [x \in Subs |-> IF x \in S /\ getters[x] # <<>> THEN Tail(getters[x])
                                                                    ELSE getters[x]]
  BY DEF Wake
<1>2. \A y \in S : getters[y] # <<>> => ConsumerOf[Head(getters[y])] = y
  <2> SUFFICES ASSUME NEW y \in S, getters[y] # <<>> PROVE ConsumerOf[Head(getters[y])] = y
    OBVIOUS
  <2>1. getters[y] \in Seq(Consumers) /\ Lists(getters[y], Blocked(y))
    BY DEF TypeOK
  <2>2. Head(getters[y]) \in Blocked(y)
    BY <2>1, ListsTail
  <2> QED BY <2>2 DEF Blocked
<1>3. ASSUME NEW x \in Consumers, ConsumerOf[x] = s
      PROVE  x \in first <=> s \in S /\ getters[s] # <<>> /\ x = Head(getters[s])
  <2>1. ASSUME x \in first PROVE s \in S /\ getters[s] # <<>> /\ x = Head(getters[s])
    <3>1. PICK y \in S : getters[y] # <<>> /\ x = Head(getters[y])
      BY <2>1
    <3> QED BY <1>2, <1>3, <3>1
  <2> QED BY <2>1
<1> HIDE DEF first
<1> QED BY <1>1, <1>3 DEF Goes

\* Putting on the queues of S puts on the queue of s, or leaves s alone.
LEMMA PutIsLocal ==
  ASSUME TypeOK, NEW S \in SUBSET Subs, NEW k, Wake(S), \A x \in S : ~Full(x),
         queue' = [s \in Subs |-> IF s \in S THEN Append(queue[s], k) ELSE queue[s]],
         \A x \in Subs : Lists(getters[x], Blocked(x)),
         NEW s \in Subs, received'[s] = received[s]
  PROVE  IF s \in S THEN Puts(s, k) ELSE Still(s)
<1>1. CASE s \in S
  <2>1. ~Full(s) /\ queue'[s] = Append(queue[s], k)
    BY <1>1
  <2> HIDE DEF Full
  <2> QED BY <1>1, <2>1, WakeIsLocal DEF Puts
<1>2. CASE s \notin S
  BY <1>2, WakeIsLocal DEF Still
<1> QED BY <1>1, <1>2

\* What close() of each subscription of S is for s.
LEMMA CloseIsLocal ==
  ASSUME SubInv, NEW S \in SUBSET active, CloseAll(S),
         UNCHANGED <<count, received, since, missed>>, NEW s \in Subs
  PROVE  Closes(s) \/ GoesOn(s)
<1>0. /\ TypeOK /\ S \in SUBSET Subs /\ \A x \in S : sub[x] = "open"
      /\ \A x \in Subs : Lists(getters[x], Blocked(x))
  BY DEF SubInv, Lined
<1> DEFINE room == {x \in S : ~Full(x)}
<1>1. /\ sub' = [x \in Subs |-> IF x \in S THEN "closed" ELSE sub[x]]
      /\ queue' = [x \in Subs |-> IF x \in room THEN Append(queue[x], CloseMark) ELSE queue[x]]
      /\ Wake(room)
  BY DEF CloseAll
<1>2. room \in SUBSET Subs /\ \A x \in room : ~Full(x)
  BY <1>0
<1>3. (s \in room <=> s \in S /\ ~Full(s)) /\ received'[s] = received[s]
  OBVIOUS
<1> HIDE DEF room
<1>4. IF s \in room THEN Puts(s, CloseMark) ELSE Still(s)
  BY <1>0, <1>1, <1>2, <1>3, PutIsLocal
<1> QED BY <1>0, <1>1, <1>3, <1>4 DEF Closes, GoesOn

\* A step of a consumer of o leaves another subscription alone.
LEMMA OthersStayStill ==
  ASSUME TypeOK, NEW c \in Consumers, NEW o \in Subs, ConsumerOf[c] = o, NEW s \in Subs, s # o,
         UNCHANGED <<queue, received>> \/ Take(c, o),
         \/ UNCHANGED getters
         \/ \E g : getters' = [getters EXCEPT ![o] = g],
         \/ \E v : pc' = [pc EXCEPT ![c] = v]
         \/ \E y \in Consumers : ConsumerOf[y] = o /\ pc' = [pc EXCEPT ![c] = "idle", ![y] = "woken"]
  PROVE  Still(s)
<1>1. queue'[s] = queue[s] /\ received'[s] = received[s]
  BY DEF Take, TypeOK
<1>2. getters'[s] = getters[s]
  BY DEF TypeOK
<1>3. \A x \in Consumers : ConsumerOf[x] = s => pc'[x] = pc[x]
  BY DEF TypeOK
<1> QED BY <1>1, <1>2, <1>3 DEF Still

\* Cancelling the wait of c is c's giving up, for the subscription it iterates.
LEMMA HandOverIsGivingUp ==
  ASSUME TypeOK, NEW c \in Consumers, NEW s \in Subs, ConsumerOf[c] = s, HandOver(c, s),
         UNCHANGED <<queue, received>>, getters[s] # <<>> => Head(getters[s]) \in Blocked(s)
  PROVE  GivesUp(c, s)
<1>t. getters \in [Subs -> Seq(Consumers)] /\ pc \in [Consumers -> {"idle", "blocked", "woken", "stopped"}]
  BY DEF TypeOK
<1>g. \A g : getters' = [getters EXCEPT ![s] = g] => getters'[s] = g
  BY <1>t
<1>1. CASE pc[c] = "blocked" /\ pc' = [pc EXCEPT ![c] = "idle"] /\ Forget(c, s)
  <2>1. \E i \in 1..Len(getters[s]) : getters[s][i] = c /\ getters'[s] = RemoveAt(getters[s], i)
    BY <1>1, <1>g DEF Forget
  <2>2. Goes(c, s, "idle")
    BY <1>1, <1>t DEF Goes
  <2> QED BY <1>1, <2>1, <2>2 DEF GivesUp
<1>2. CASE /\ pc[c] = "woken" /\ (queue[s] = <<>> \/ getters[s] = <<>>)
           /\ pc' = [pc EXCEPT ![c] = "idle"] /\ UNCHANGED getters
  <2>1. Goes(c, s, "idle")
    BY <1>2, <1>t DEF Goes
  <2> QED BY <1>2, <2>1 DEF GivesUp
<1>3. CASE /\ pc[c] = "woken" /\ queue[s] # <<>> /\ getters[s] # <<>>
           /\ pc' = [pc EXCEPT ![c] = "idle", ![Head(getters[s])] = "woken"]
           /\ getters' = [getters EXCEPT ![s] = Tail(@)]
  <2> DEFINE y == Head(getters[s])
  <2>1. y \in Consumers /\ getters'[s] = Tail(getters[s])
    BY <1>3, <1>t DEF Blocked
  <2> HIDE DEF y
  <2>2. \A x \in Consumers : pc'[x] = IF x = y THEN "woken" ELSE IF x = c THEN "idle" ELSE pc[x]
    BY <1>3, <1>t, <2>1 DEF y
  <2> QED BY <1>3, <2>1, <2>2 DEF GivesUp, y
<1> QED BY <1>1, <1>2, <1>3 DEF HandOver

\* What a step of a consumer is for its own subscription, and for others.
LEMMA ConsumerIsLocal ==
  ASSUME TypeOK, ConsumersAssumption, NEW c \in Consumers,
         Anext(c) \/ Resume(c) \/ CancelWait(c), NEW s \in Subs,
         \A x \in Subs : Lists(getters[x], Blocked(x))
  PROVE  GoesOn(s)
<1>0. UNCHANGED <<count, sub, since, missed>>
  BY DEF Anext, Resume, CancelWait
<1>t. /\ queue \in [Subs -> Seq(0..MaxNotifications)] /\ getters \in [Subs -> Seq(Consumers)]
      /\ received \in [Subs -> Seq(0..MaxNotifications)]
      /\ pc \in [Consumers -> {"idle", "blocked", "woken", "stopped"}]
  BY DEF TypeOK
<1>o. PICK o \in Subs : ConsumerOf[c] = o
  BY DEF ConsumersAssumption
<1>h. getters[o] # <<>> => Head(getters[o]) \in Blocked(o)
  BY <1>t, ListsTail
<1>s. Still(s) => GoesOn(s)
  BY <1>0 DEF GoesOn
<1>c. ASSUME s = o, Takes(c, s) \/ Suspends(c, s) \/ Leaves(c, s) \/ GivesUp(c, s) PROVE GoesOn(s)
  BY <1>0, <1>o, <1>c DEF GoesOn, Consumes
<1>1. CASE pc[c] \in {"idle", "woken"} /\ queue[o] # <<>> /\ Take(c, o) /\ UNCHANGED getters
  <2>1. CASE s # o
    <3>1. \E v : pc' = [pc EXCEPT ![c] = v]
      BY <1>1 DEF Take
    <3> QED BY <1>1, <1>o, <1>s, <2>1, <3>1, OthersStayStill
  <2>2. CASE s = o
    <3>1. Takes(c, s)
      BY <1>1, <1>t, <1>o, <2>2 DEF Take, Takes, Goes
    <3> QED BY <1>c, <2>2, <3>1
  <2> QED BY <2>1, <2>2
<1>2. CASE /\ pc[c] \in {"idle", "woken"} /\ queue[o] = <<>> /\ Block(c, o)
           /\ pc[c] = "idle" => sub[o] # "closed"
           /\ UNCHANGED <<queue, received>>
  <2>1. CASE s # o
    <3>1. (\E v : pc' = [pc EXCEPT ![c] = v]) /\ \E g : getters' = [getters EXCEPT ![o] = g]
      BY <1>2 DEF Block
    <3> QED BY <1>2, <1>o, <1>s, <2>1, <3>1, OthersStayStill
  <2>2. CASE s = o
    <3>1. Suspends(c, s)
      BY <1>2, <1>t, <1>o, <2>2 DEF Block, Suspends, Goes
    <3> QED BY <1>c, <2>2, <3>1
  <2> QED BY <2>1, <2>2
<1>3. CASE /\ pc[c] = "idle" /\ Exhausted(o) /\ pc' = [pc EXCEPT ![c] = "stopped"]
           /\ UNCHANGED <<queue, received, getters>>
  <2>1. CASE s # o
    BY <1>3, <1>o, <1>s, <2>1, OthersStayStill
  <2>2. CASE s = o
    <3>1. Leaves(c, s)
      BY <1>3, <1>t, <1>o, <2>2 DEF Leaves, Goes
    <3> QED BY <1>c, <2>2, <3>1
  <2> QED BY <2>1, <2>2
<1>4. CASE HandOver(c, o) /\ UNCHANGED <<queue, received>>
  <2>1. CASE s # o
    <3>1. UNCHANGED getters \/ \E g : getters' = [getters EXCEPT ![o] = g]
      BY <1>4 DEF HandOver, Forget
    <3>2. \/ \E v : pc' = [pc EXCEPT ![c] = v]
          \/ \E y \in Consumers :
               ConsumerOf[y] = o /\ pc' = [pc EXCEPT ![c] = "idle", ![y] = "woken"]
      BY <1>4, <1>h DEF HandOver, Blocked
    <3> QED BY <1>4, <1>o, <1>s, <2>1, <3>1, <3>2, OthersStayStill
  <2>2. CASE s = o
    BY <1>4, <1>o, <1>h, <1>c, <2>2, HandOverIsGivingUp
  <2> QED BY <2>1, <2>2
<1>5. CASE Anext(c)
  BY <1>5, <1>o, <1>1, <1>2, <1>3 DEF Anext, Exhausted
<1>6. CASE Resume(c)
  BY <1>6, <1>o, <1>1, <1>2 DEF Resume
<1>7. CASE CancelWait(c)
  BY <1>7, <1>o, <1>4 DEF CancelWait
<1> QED BY <1>5, <1>6, <1>7

\* Every step is one of these for each subscription.
LEMMA StepIsLocal ==
  ASSUME ConsumersAssumption, SubInv, [Next]_vars, NEW s \in Subs
  PROVE  Opens(s) \/ Notified(s) \/ Closes(s) \/ GoesOn(s)
<1>0. /\ TypeOK /\ active = {x \in Subs : sub[x] = "open"}
      /\ \A x \in Subs : Lists(getters[x], Blocked(x))
  BY DEF SubInv, Lined
<1>1. CASE Notify
  <2> DEFINE room == {x \in active : ~Full(x)}
             over == {x \in active : Full(x) /\ x \in CloseSubs}
  <2>1. /\ count' = count + 1 /\ count < MaxNotifications
        /\ queue' = [x \in Subs |-> IF x \in room THEN Append(queue[x], count + 1) ELSE queue[x]]
        /\ Wake(room)
        /\ missed' = [x \in Subs |-> IF x \in active \ room THEN missed[x] \cup {count + 1}
                                                             ELSE missed[x]]
        /\ sub' = [x \in Subs |-> IF x \in over THEN "closed" ELSE sub[x]]
        /\ UNCHANGED <<received, since>>
    BY <1>1 DEF Notify, Reached
  <2>2. room \in SUBSET Subs /\ \A x \in room : ~Full(x)
    BY <1>0
  <2>3. /\ s \in room <=> sub[s] = "open" /\ ~Full(s)
        /\ s \in over <=> sub[s] = "open" /\ Full(s) /\ s \in CloseSubs
        /\ s \in active <=> sub[s] = "open"
    BY <1>0
  <2> HIDE DEF room, over
  <2>4. IF s \in room THEN Puts(s, count + 1) ELSE Still(s)
    BY <1>0, <2>1, <2>2, PutIsLocal
  <2>5. CASE s \in room
    BY <2>1, <2>3, <2>4, <2>5 DEF Notified
  <2>6. CASE s \notin room
    BY <2>1, <2>3, <2>4, <2>6 DEF Notified
  <2> QED BY <2>5, <2>6
<1>2. CASE Teardown
  BY <1>2, CloseIsLocal DEF Teardown
<1>3. ASSUME NEW x \in Subs, Subscribe(x) PROVE Opens(s) \/ GoesOn(s)
  BY <1>0, <1>3 DEF Subscribe, Opens, GoesOn, Still, TypeOK
<1>4. ASSUME NEW x \in Subs, Close(x) PROVE Closes(s) \/ GoesOn(s)
  <2>1. {x} \in SUBSET active
    BY <1>0, <1>4 DEF Close
  <2> QED BY <1>4, <2>1, CloseIsLocal DEF Close
<1>5. ASSUME NEW c \in Consumers, Anext(c) \/ Resume(c) \/ CancelWait(c) PROVE GoesOn(s)
  BY <1>0, <1>5, ConsumerIsLocal
<1>6. CASE UNCHANGED vars
  BY <1>6 DEF vars, GoesOn, Still
<1> QED BY <1>1, <1>2, <1>3, <1>4, <1>5, <1>6 DEF Next

-----------------------------------------------------------------------------
(* Each part of the invariant is kept.                                      *)

\* A step changes what s holds in one of these ways.
Moves(s) == Still(s) \/ Consumes(s) \/ \E k \in 0..MaxNotifications : Puts(s, k)

LEMMA LocalMoves ==
  ASSUME QueueAssumption, TypeOK, NEW s \in Subs,
         Opens(s) \/ Notified(s) \/ Closes(s) \/ GoesOn(s)
  PROVE  Moves(s)
<1>1. 0 \in 0..MaxNotifications /\ (count < MaxNotifications => count + 1 \in 0..MaxNotifications)
  BY DEF QueueAssumption, TypeOK
<1> QED BY <1>1 DEF Opens, Notified, Closes, GoesOn, Moves, CloseMark

\* Who waits in the line of s, and who was woken.
LEMMA GoesSets ==
  ASSUME NEW c \in Consumers, NEW s, ConsumerOf[c] = s, NEW v, Goes(c, s, v)
  PROVE  /\ v = "woken" => Woken(s)' = Woken(s) \cup {c} /\ Blocked(s)' = Blocked(s) \ {c}
         /\ v = "blocked" => Woken(s)' = Woken(s) \ {c} /\ Blocked(s)' = Blocked(s) \cup {c}
         /\ v \in {"idle", "stopped"} =>
              Woken(s)' = Woken(s) \ {c} /\ Blocked(s)' = Blocked(s) \ {c}
BY DEF Goes, Woken, Blocked

\* Every item on the queue of s keeps its taker, and the line of s its members.
LEMMA LinedStep ==
  ASSUME QueueAssumption, TypeOK, NEW s \in Subs, Lined(s), Moves(s)
  PROVE  Lined(s)'
<1> DEFINE g == getters[s]
           q == queue[s]
           B == Blocked(s)
           W == Woken(s)
<1>t. g \in Seq(Consumers) /\ q \in Seq(0..MaxNotifications) /\ B \subseteq Consumers
  BY DEF TypeOK, Blocked
<1>l. Lists(g, B) /\ IsFiniteSet(W) /\ (g # <<>> => Len(q) <= Cardinality(W))
  BY DEF Lined, Served
<1>n. Len(q) \in Nat /\ Cardinality(W) \in Nat /\ (q = <<>> => Len(q) = 0) /\ (q # <<>> => Len(q) # 0)
  BY <1>t, <1>l, FS_CardinalityType
<1>w. \A x \in W : x \notin B /\ x \in Consumers /\ ConsumerOf[x] = s /\ pc[x] = "woken"
  BY DEF Woken, Blocked
<1>b. \A x \in B : x \in Consumers /\ ConsumerOf[x] = s /\ pc[x] = "blocked"
  BY DEF Blocked
<1>f. /\ \A x : IsFiniteSet(W \ {x}) /\ Cardinality(W \ {x}) \in Nat
      /\ \A x : IsFiniteSet(W \cup {x}) /\ Cardinality(W \cup {x}) \in Nat
      /\ \A x : Cardinality(W \ {x}) = IF x \in W THEN Cardinality(W) - 1 ELSE Cardinality(W)
      /\ \A x : Cardinality(W \cup {x}) = IF x \in W THEN Cardinality(W) ELSE Cardinality(W) + 1
  BY <1>l, FS_AddElement, FS_RemoveElement, FS_CardinalityType
<1>c. ASSUME NEW x
      PROVE  /\ g # <<>> => Len(q) - 1 <= Cardinality(W \ {x})
             /\ q = <<>> => Len(q) <= Cardinality(W \ {x})
             /\ g # <<>> /\ x \notin W => Len(q) + 1 <= Cardinality(W \cup {x})
  <2> DEFINE n == Len(q)
             m == Cardinality(W)
             d == Cardinality(W \ {x})
             u == Cardinality(W \cup {x})
  <2>1. n \in Nat /\ m \in Nat /\ (g # <<>> => n <= m) /\ (q = <<>> => n = 0)
    BY <1>l, <1>n
  <2>2. d \in Nat /\ (d = m \/ d = m - 1) /\ (x \notin W => u = m + 1)
    BY <1>f
  <2> HIDE DEF n, m, d, u
  <2>3. (g # <<>> => n - 1 <= d) /\ (q = <<>> => n <= d) /\ (g # <<>> /\ x \notin W => n + 1 <= u)
    BY <2>1, <2>2
  <2> QED BY <2>3 DEF n, d, u
<1>h. g # <<>> => Head(g) \in B /\ Lists(Tail(g), B \ {Head(g)})
  BY <1>t, <1>l, ListsTail
<1>x. \A x : (x \notin B => B \ {x} = B) /\ (x \notin W => W \ {x} = W)
  OBVIOUS
<1>q. ASSUME NEW G, NEW Q, NEW C, NEW V, getters'[s] = G, queue'[s] = Q, Blocked(s)' = C,
             Woken(s)' = V, Lists(G, C), IsFiniteSet(V), G # <<>> => Len(Q) <= Cardinality(V)
      PROVE  Lined(s)'
  BY <1>q DEF Lined, Served
<1>1. CASE Still(s)
  <2>1. Woken(s)' = W /\ Blocked(s)' = B
    BY <1>1 DEF Still, Woken, Blocked
  <2>2. getters'[s] = g /\ queue'[s] = q
    BY <1>1 DEF Still
  <2> HIDE DEF g, q, B, W
  <2> QED BY <1>l, <1>q, <2>1, <2>2
<1>2. ASSUME NEW k \in 0..MaxNotifications, Puts(s, k) PROVE Lined(s)'
  <2>1. queue'[s] = Append(q, k) /\ Len(Append(q, k)) = Len(q) + 1
    BY <1>2, <1>t, AppendProperties DEF Puts
  <2>2. CASE g = <<>>
    <3>1. Woken(s)' = W /\ Blocked(s)' = B /\ getters'[s] = g
      BY <1>2, <2>2 DEF Puts, Woken, Blocked
    <3> HIDE DEF g, q, B, W
    <3> QED BY <1>l, <1>q, <2>1, <2>2, <3>1
  <2>3. CASE g # <<>>
    <3> DEFINE h == Head(g)
    <3>1. getters'[s] = Tail(g) /\ Goes(h, s, "woken")
      BY <1>2, <2>3 DEF Puts
    <3>2. h \in B /\ h \in Consumers /\ ConsumerOf[h] = s /\ h \notin W
      BY <1>h, <1>w, <1>b, <2>3
    <3>3. Lists(Tail(g), B \ {h})
      BY <1>h, <2>3
    <3> HIDE DEF h, g, q, B, W
    <3>4. Woken(s)' = W \cup {h} /\ Blocked(s)' = B \ {h}
      BY <3>1, <3>2, GoesSets DEF B, W
    <3>5. Len(q) + 1 <= Cardinality(W \cup {h}) /\ IsFiniteSet(W \cup {h})
      BY <1>c, <1>f, <2>3, <3>2
    <3> QED BY <1>q, <2>1, <3>1, <3>3, <3>4, <3>5
  <2> QED BY <2>2, <2>3
<1>3. ASSUME NEW c \in Consumers, ConsumerOf[c] = s, Takes(c, s) PROVE Lined(s)'
  <2>1. /\ queue'[s] = Tail(q) /\ getters'[s] = g /\ q # <<>> /\ c \notin B
        /\ Goes(c, s, "idle") \/ Goes(c, s, "stopped")
    BY <1>3, <1>b DEF Takes
  <2>2. Len(Tail(q)) = Len(q) - 1
    BY <1>t, <2>1, HeadTailProperties
  <2> HIDE DEF g, q, B, W
  <2>3. Woken(s)' = W \ {c} /\ Blocked(s)' = B
    BY <1>3, <1>x, <2>1, GoesSets DEF B, W
  <2>4. g # <<>> => Len(Tail(q)) <= Cardinality(W \ {c})
    BY <1>c, <2>2
  <2> QED BY <1>l, <1>q, <1>f, <2>1, <2>3, <2>4
<1>4. ASSUME NEW c \in Consumers, ConsumerOf[c] = s, Suspends(c, s) PROVE Lined(s)'
  <2>1. /\ queue'[s] = q /\ q = <<>> /\ getters'[s] = Append(g, c) /\ c \notin B
        /\ Goes(c, s, "blocked")
    BY <1>4, <1>b DEF Suspends
  <2>2. Lists(Append(g, c), B \cup {c})
    BY <1>t, <1>l, <2>1, ListsAppend
  <2> HIDE DEF g, q, B, W
  <2>3. Woken(s)' = W \ {c} /\ Blocked(s)' = B \cup {c}
    BY <1>4, <2>1, GoesSets DEF B, W
  <2>4. Len(q) <= Cardinality(W \ {c})
    BY <1>c, <2>1
  <2> QED BY <1>q, <1>f, <2>1, <2>2, <2>3, <2>4
<1>5. ASSUME NEW c \in Consumers, ConsumerOf[c] = s, Leaves(c, s) PROVE Lined(s)'
  <2>1. /\ queue'[s] = q /\ getters'[s] = g /\ q = <<>> /\ c \notin B
        /\ Goes(c, s, "stopped")
    BY <1>5, <1>b DEF Leaves, Exhausted
  <2> HIDE DEF g, q, B, W
  <2>2. Woken(s)' = W \ {c} /\ Blocked(s)' = B
    BY <1>5, <1>x, <2>1, GoesSets DEF B, W
  <2>3. Len(q) <= Cardinality(W \ {c})
    BY <1>c, <2>1
  <2> QED BY <1>l, <1>q, <1>f, <2>1, <2>2, <2>3
<1>6. ASSUME NEW c \in Consumers, ConsumerOf[c] = s, GivesUp(c, s) PROVE Lined(s)'
  <2>0. queue'[s] = q
    BY <1>6 DEF GivesUp
  <2>1. ASSUME pc[c] = "blocked", Goes(c, s, "idle"), NEW i \in 1..Len(g),
               g[i] = c, getters'[s] = RemoveAt(g, i)
        PROVE  Lined(s)'
    <3>1. Lists(RemoveAt(g, i), B \ {c})
      BY <1>t, <1>l, <2>1, ListsRemove
    <3>2. c \notin W /\ g # <<>>
      BY <1>w, <1>t, <2>1
    <3> HIDE DEF g, q, B, W
    <3>3. Woken(s)' = W /\ Blocked(s)' = B \ {c}
      BY <1>6, <1>x, <2>1, <3>2, GoesSets DEF B, W
    <3> QED BY <1>l, <1>q, <2>0, <2>1, <3>1, <3>2, <3>3
  <2>2. CASE pc[c] = "woken" /\ (q = <<>> \/ g = <<>>) /\ Goes(c, s, "idle") /\ getters'[s] = g
    <3>1. c \notin B
      BY <1>b, <2>2
    <3> HIDE DEF g, q, B, W
    <3>2. Woken(s)' = W \ {c} /\ Blocked(s)' = B
      BY <1>6, <1>x, <2>2, <3>1, GoesSets DEF B, W
    <3>3. g # <<>> => Len(q) <= Cardinality(W \ {c})
      BY <1>c, <2>2
    <3> QED BY <1>l, <1>q, <1>f, <2>0, <2>2, <3>2, <3>3
  <2>3. CASE /\ pc[c] = "woken" /\ q # <<>> /\ g # <<>>
             /\ \A x \in Consumers : ConsumerOf[x] = s =>
                  pc'[x] = IF x = Head(g) THEN "woken" ELSE IF x = c THEN "idle" ELSE pc[x]
             /\ getters'[s] = Tail(g)
    <3> DEFINE h == Head(g)
               V == (W \ {c}) \cup {h}
    <3>1. /\ h \in B /\ h \in Consumers /\ ConsumerOf[h] = s /\ h \notin W
          /\ Lists(Tail(g), B \ {h}) /\ c \in W /\ h # c
      BY <1>6, <1>h, <1>w, <1>b, <2>3 DEF Woken
    <3>2. Woken(s)' = V
      BY <1>6, <2>3, <3>1 DEF Woken
    <3>3. Blocked(s)' = B \ {h}
      BY <1>6, <2>3, <3>1 DEF Blocked
    <3>4. IsFiniteSet(V) /\ Cardinality(V) = Cardinality(W \ {c}) + 1
      BY <1>f, <3>1, FS_AddElement
    <3> HIDE DEF h, V, g, q, B, W
    <3>5. Len(q) <= Cardinality(V)
      BY <1>l, <1>n, <1>f, <2>3, <3>1, <3>4
    <3>6. getters'[s] = Tail(g)
      BY <2>3
    <3> QED BY <1>q, <2>0, <3>1, <3>2, <3>3, <3>4, <3>5, <3>6
  <2> QED BY <1>6, <2>1, <2>2, <2>3 DEF GivesUp
<1> QED BY <1>1, <1>2, <1>3, <1>4, <1>5, <1>6 DEF Moves, Consumes

\* What the consumers of s do to its queue and to what they were given.
LEMMA ConsumeEffect ==
  ASSUME TypeOK, NEW s \in Subs, Consumes(s)
  PROVE  \/ queue'[s] = queue[s] /\ received'[s] = received[s]
         \/ /\ queue[s] # <<>> /\ queue'[s] = Tail(queue[s])
            /\ \/ Head(queue[s]) = CloseMark /\ received'[s] = received[s]
               \/ /\ Head(queue[s]) # CloseMark
                  /\ received'[s] = Append(received[s], Head(queue[s]))
BY DEF Consumes, Takes, Suspends, Leaves, GivesUp

\* The items of a queue, its head and its tail.
LEMMA QueueItems ==
  ASSUME TypeOK, NEW s \in Subs
  PROVE  /\ queue[s] \in Seq(0..MaxNotifications) /\ received[s] \in Seq(0..MaxNotifications)
         /\ Len(queue[s]) \in Nat /\ (queue[s] # <<>> <=> Len(queue[s]) # 0)
         /\ queue[s] # <<>> =>
              /\ Head(queue[s]) = queue[s][1] /\ Len(Tail(queue[s])) = Len(queue[s]) - 1
              /\ \A i \in 1..Len(Tail(queue[s])) : Tail(queue[s])[i] = queue[s][i + 1]
<1>1. queue[s] \in Seq(0..MaxNotifications) /\ received[s] \in Seq(0..MaxNotifications)
  BY DEF TypeOK
<1> QED BY <1>1, LenProperties, EmptySeq, HeadTailProperties

\* The sentinel stays the last item.
LEMMA MarkedStep ==
  ASSUME QueueAssumption, TypeOK, NEW s \in Subs, Marked(s),
         Opens(s) \/ Notified(s) \/ Closes(s) \/ GoesOn(s)
  PROVE  Marked(s)'
<1> DEFINE q == queue[s]
           n == Len(q)
<1>t. q \in Seq(0..MaxNotifications) /\ n \in Nat
  BY QueueItems
<1>m. \A i \in 1..n : q[i] = CloseMark => sub[s] = "closed" /\ i = n
  BY DEF Marked
<1>1. CASE queue'[s] = q /\ (sub[s] = "closed" => sub'[s] = "closed")
  BY <1>1, <1>m DEF Marked
<1>2. ASSUME NEW k \in 0..MaxNotifications, Puts(s, k), sub[s] = "open",
             k = CloseMark => sub'[s] = "closed"
      PROVE  Marked(s)'
  <2>1. queue'[s] = Append(q, k)
    BY <1>2 DEF Puts
  <2>2. /\ Len(queue'[s]) = n + 1 /\ queue'[s][n + 1] = k
        /\ \A i \in 1..n : queue'[s][i] = q[i]
    BY <1>t, <2>1, AppendProperties
  <2> HIDE DEF n, q
  <2>3. \A i \in 1..n + 1 : i \in 1..n \/ i = n + 1
    BY <1>t
  <2> QED BY <1>m, <1>2, <2>2, <2>3 DEF Marked
<1>3. CASE q # <<>> /\ queue'[s] = Tail(q) /\ sub'[s] = sub[s]
  <2>1. Len(queue'[s]) = n - 1 /\ \A i \in 1..n - 1 : queue'[s][i] = q[i + 1]
    BY <1>3, QueueItems
  <2> HIDE DEF n, q
  <2>2. ASSUME NEW i \in 1..n - 1, q[i + 1] = CloseMark PROVE sub[s] = "closed" /\ i = n - 1
    <3>1. i + 1 \in 1..n /\ (i + 1 = n => i = n - 1)
      BY <1>t
    <3> QED BY <1>m, <2>2, <3>1
  <2> QED BY <1>3, <2>1, <2>2 DEF Marked
<1>4. 0 \in 0..MaxNotifications /\ (count < MaxNotifications => count + 1 \in 1..MaxNotifications)
  BY DEF QueueAssumption, TypeOK
<1>5. CASE Opens(s)
  BY <1>1, <1>5 DEF Opens, Still
<1>6. CASE Notified(s)
  <2>1. \A k \in 1..MaxNotifications : k \in 0..MaxNotifications /\ k # 0
    OBVIOUS
  <2> QED BY <1>1, <1>2, <1>4, <1>6, <2>1 DEF Notified, Still, CloseMark
<1>7. CASE Closes(s)
  BY <1>1, <1>2, <1>4, <1>7 DEF Closes, Still, CloseMark
<1>8. CASE GoesOn(s)
  <2>1. sub'[s] = sub[s]
    BY <1>8 DEF GoesOn
  <2>2. CASE Still(s)
    BY <1>1, <2>1, <2>2 DEF Still
  <2>3. CASE Consumes(s)
    BY <1>1, <1>3, <2>1, <2>3, ConsumeEffect
  <2> QED BY <1>8, <2>2, <2>3 DEF GoesOn
<1> QED BY <1>5, <1>6, <1>7, <1>8

\* A subscription nobody made yet is given nothing.
LEMMA UntouchedStep ==
  ASSUME TypeOK, NEW s \in Subs, Untouched(s),
         Opens(s) \/ Notified(s) \/ Closes(s) \/ GoesOn(s)
  PROVE  Untouched(s)'
<1> SUFFICES ASSUME sub'[s] = "none"
             PROVE  received'[s] = <<>> /\ queue'[s] = <<>> /\ missed'[s] = {}
  BY DEF Untouched
<1>1. sub[s] = "none" /\ missed'[s] = missed[s] /\ (Still(s) \/ Consumes(s))
  BY DEF Opens, Notified, Closes, GoesOn
<1>2. received[s] = <<>> /\ queue[s] = <<>> /\ missed[s] = {}
  BY <1>1 DEF Untouched
<1> QED BY <1>1, <1>2, ConsumeEffect DEF Still

\* An open subscription accounts for every notification.
LEMMA GetsStep ==
  ASSUME QueueAssumption, TypeOK, NEW s \in Subs, Untouched(s), Marked(s), Gets(s),
         Opens(s) \/ Notified(s) \/ Closes(s) \/ GoesOn(s)
  PROVE  Gets(s)'
<1> DEFINE q == queue[s]
           r == received[s]
           N == 0..MaxNotifications
<1>t. /\ q \in Seq(N) /\ r \in Seq(N) /\ since[s] \in Nat /\ count \in Nat
      /\ since[s] <= count /\ MaxNotifications \in Nat
  BY QueueItems DEF TypeOK, Gets, QueueAssumption
<1>r. r \o q \in Seq(N)
  BY <1>t, ConcatProperties
<1>a. sub[s] = "open" => Accounted(r \o q, missed[s], since[s], count)
  BY DEF Gets
<1>1. CASE Opens(s)
  <2>1. /\ since'[s] = count /\ count' = count /\ missed'[s] = {}
        /\ queue'[s] = <<>> /\ received'[s] = <<>>
    BY <1>1 DEF Opens, Still, Untouched
  <2>2. <<>> \o <<>> = <<>> /\ Len(<<>>) = 0 /\ Range(<<>>) = {}
    <3>1. <<>> \in Seq(Nat) /\ Len(<<>>) = 0 /\ 1..0 = {}
      OBVIOUS
    <3>2. Range(<<>>) = {<<>>[i] : i \in 1..Len(<<>>)}
      BY <3>1, RangeEquality, Zenon
    <3> QED BY <3>1, <3>2, ConcatEmptySeq
  <2>3. count + 1 .. count = {}
    BY <1>t
  <2>4. Accounted(<<>>, {}, count, count)
    <3>1. 1..0 = {}
      OBVIOUS
    <3> QED BY <2>2, <2>3, <3>1, Zenon DEF Accounted
  <2> QED BY <1>t, <2>1, <2>2, <2>4 DEF Gets
<1>2. CASE Notified(s)
  <2>1. /\ count' = count + 1 /\ count + 1 <= MaxNotifications /\ since'[s] = since[s]
        /\ count + 1 \in N /\ since[s] <= count + 1
    BY <1>2, <1>t DEF Notified
  <2>2. CASE sub'[s] # "open"
    BY <2>1, <2>2 DEF Gets
  <2>3. CASE sub[s] = "open"
    <3>1. /\ Accounted(Append(r \o q, count + 1), missed[s], since[s], count + 1)
          /\ Accounted(r \o q, missed[s] \cup {count + 1}, since[s], count + 1)
      BY <1>t, <1>r, <1>a, <2>1, <2>3, AccountNext
    <3>2. r \o Append(q, count + 1) = Append(r \o q, count + 1)
      <4>1. count + 1 \in N
        BY <2>1
      <4> HIDE DEF N, q, r
      <4> QED BY <1>t, <4>1, PutBehind
    <3>3. CASE Puts(s, count + 1) /\ missed'[s] = missed[s]
      <4>1. queue'[s] = Append(q, count + 1) /\ received'[s] = r
        BY <3>3 DEF Puts
      <4> QED BY <2>1, <3>1, <3>2, <3>3, <4>1 DEF Gets
    <3>4. CASE Still(s) /\ missed'[s] = missed[s] \cup {count + 1}
      <4>1. queue'[s] = q /\ received'[s] = r
        BY <3>4 DEF Still
      <4> QED BY <2>1, <3>1, <3>4, <4>1 DEF Gets
    <3> QED BY <1>2, <2>3, <3>3, <3>4 DEF Notified
  <2> QED BY <1>2, <2>2, <2>3 DEF Notified
<1>3. CASE Closes(s)
  BY <1>3, <1>t DEF Closes, Gets
<1>4. CASE GoesOn(s)
  <2>1. sub'[s] = sub[s] /\ count' = count /\ since'[s] = since[s] /\ missed'[s] = missed[s]
    BY <1>4 DEF GoesOn
  <2>2. CASE sub[s] # "open"
    BY <1>t, <2>1, <2>2 DEF Gets
  <2>3. CASE sub[s] = "open"
    <3>1. received'[s] \o queue'[s] = r \o q
      <4>1. CASE queue'[s] = q /\ received'[s] = r
        BY <4>1
      <4>2. CASE q # <<>> /\ queue'[s] = Tail(q) /\ Head(q) # CloseMark
                 /\ received'[s] = Append(r, Head(q))
        BY <1>t, <4>2, TakeMoves
      <4>3. ASSUME q # <<>>, Head(q) = CloseMark PROVE FALSE
        <5>1. q[1] = CloseMark /\ 1 \in 1..Len(q)
          BY <4>3, QueueItems
        <5> QED BY <2>3, <5>1 DEF Marked
      <4> QED BY <1>4, <4>1, <4>2, <4>3, ConsumeEffect DEF GoesOn, Still
    <3> QED BY <1>t, <1>a, <2>1, <2>3, <3>1 DEF Gets
  <2> QED BY <2>2, <2>3
<1> QED BY <1>1, <1>2, <1>3, <1>4

\* A full queue is not empty.
LEMMA FullIsNotEmpty ==
  ASSUME QueueAssumption, TypeOK, NEW s \in Subs, Full(s)
  PROVE  queue[s] # <<>>
BY QueueItems DEF Full, QueueAssumption

\* A consumer is told the end when nothing is left, and a lone consumer is
\* woken for an item and waits for an open subscription.
LEMMA EndsStep ==
  ASSUME QueueAssumption, TypeOK, NEW x \in Consumers, NEW s \in Subs, ConsumerOf[x] = s,
         Marked(s), Lined(s), Ends(x), Moves(s),
         Opens(s) \/ Notified(s) \/ Closes(s) \/ GoesOn(s)
  PROVE  Ends(x)'
<1>t. queue[s] \in Seq(0..MaxNotifications) /\ getters[s] \in Seq(Consumers)
  BY DEF TypeOK
<1>e. /\ pc[x] = "stopped" => sub[s] = "closed" /\ queue[s] = <<>>
      /\ Alone(x) /\ pc[x] = "woken" => queue[s] # <<>>
      /\ Alone(x) /\ pc[x] = "blocked" => sub[s] # "closed"
  BY DEF Ends
<1>g. ASSUME /\ pc'[x] = "stopped" => sub'[s] = "closed" /\ queue'[s] = <<>>
             /\ Alone(x) /\ pc'[x] = "woken" => queue'[s] # <<>>
             /\ Alone(x) /\ pc'[x] = "blocked" => sub'[s] # "closed"
      PROVE  Ends(x)'
  BY <1>g DEF Ends, Alone
<1>a. ASSUME Alone(x), NEW c \in Consumers, ConsumerOf[c] = s PROVE c = x
  BY <1>a DEF Alone
<1>h. getters[s] # <<>> => Head(getters[s]) \in Blocked(s)
  BY <1>t, ListsTail DEF Lined
<1>b. pc[x] = "blocked" => getters[s] # <<>>
  <2> SUFFICES ASSUME pc[x] = "blocked" PROVE getters[s] # <<>>
    OBVIOUS
  <2>1. x \in Blocked(s) /\ Len(<<>>) = 0
    BY DEF Blocked
  <2> QED BY <2>1 DEF Lined, Lists
<1>1. ASSUME NEW k \in 0..MaxNotifications, Puts(s, k), sub[s] = "open" PROVE Ends(x)'
  <2>1. queue'[s] # <<>>
    <3>1. queue'[s] = Append(queue[s], k)
      BY <1>1 DEF Puts
    <3>2. Len(Append(queue[s], k)) = Len(queue[s]) + 1 /\ Len(queue[s]) \in Nat
      BY <1>t, AppendProperties, LenProperties
    <3>3. Len(queue'[s]) # 0 /\ Len(<<>>) = 0
      BY <3>1, <3>2
    <3> QED BY <3>3
  <2>2. pc'[x] = "stopped" => pc[x] = "stopped"
    BY <1>1, <1>h DEF Puts, Goes
  <2>3. Alone(x) => pc'[x] # "blocked"
    <3> SUFFICES ASSUME Alone(x), pc'[x] = "blocked" PROVE FALSE
      OBVIOUS
    <3>1. pc[x] = "blocked"
      BY <1>1 DEF Puts, Goes
    <3>2. Head(getters[s]) = x
      BY <1>a, <1>b, <1>h, <3>1 DEF Blocked
    <3> QED BY <1>1, <1>b, <3>1, <3>2 DEF Puts, Goes
  <2> QED BY <1>1, <1>e, <1>g, <2>1, <2>2, <2>3
<1>2. ASSUME Full(s), Still(s), sub[s] = "open" PROVE Ends(x)'
  <2>1. queue[s] # <<>>
    BY <1>2, FullIsNotEmpty
  <2>2. ~(Alone(x) /\ pc[x] = "blocked")
    <3> SUFFICES ASSUME Alone(x), pc[x] = "blocked" PROVE FALSE
      OBVIOUS
    <3>1. IsFiniteSet(Woken(s)) /\ Len(queue[s]) <= Cardinality(Woken(s))
      BY <1>b DEF Lined, Served
    <3>2. Woken(s) = {}
      BY <1>a DEF Woken
    <3>3. Len(queue[s]) <= 0
      BY <3>1, <3>2, FS_EmptySet
    <3> QED BY <2>1, <3>3, QueueItems
  <2>3. pc'[x] = pc[x] /\ queue'[s] = queue[s]
    BY <1>2 DEF Still
  <2> QED BY <1>2, <1>e, <1>g, <2>1, <2>2, <2>3
<1>3. CASE Still(s) /\ (sub'[s] = sub[s] \/ Opens(s))
  BY <1>3, <1>e, <1>g DEF Still, Opens
<1>4. CASE sub'[s] = sub[s] /\ Consumes(s)
  <2> PICK c \in Consumers :
        ConsumerOf[c] = s /\ (Takes(c, s) \/ Suspends(c, s) \/ Leaves(c, s) \/ GivesUp(c, s))
    BY <1>4 DEF Consumes
  <2>0. Alone(x) => c = x
    BY <1>a
  <2>1. CASE Takes(c, s)
    <3>1. queue[s] # <<>> /\ queue'[s] = Tail(queue[s])
      BY <2>1 DEF Takes
    <3>2. Head(queue[s]) = CloseMark => sub[s] = "closed" /\ Tail(queue[s]) = <<>>
      <4> SUFFICES ASSUME Head(queue[s]) = CloseMark PROVE sub[s] = "closed" /\ Tail(queue[s]) = <<>>
        OBVIOUS
      <4>1. queue[s][1] = CloseMark /\ 1 \in 1..Len(queue[s])
        BY <3>1, QueueItems
      <4>2. sub[s] = "closed" /\ 1 = Len(queue[s])
        BY <4>1 DEF Marked
      <4>3. Tail(queue[s]) \in Seq(0..MaxNotifications) /\ Len(Tail(queue[s])) = 0
        <5>1. Tail(queue[s]) \in Seq(0..MaxNotifications) /\ Len(Tail(queue[s])) = Len(queue[s]) - 1
          BY <1>t, <3>1, HeadTailProperties
        <5> QED BY <4>2, <5>1
      <4> QED BY <4>2, <4>3, EmptySeq
    <3>3. c = x => pc'[x] \in {"idle", "stopped"} /\ (pc'[x] = "stopped" => Head(queue[s]) = CloseMark)
      BY <2>1 DEF Takes, Goes
    <3>4. c # x => pc'[x] = pc[x] /\ pc[x] # "stopped"
      BY <2>1, <1>e, <3>1 DEF Takes, Goes
    <3> QED BY <1>4, <1>g, <2>0, <3>1, <3>2, <3>3, <3>4
  <2>2. CASE Suspends(c, s)
    BY <1>4, <1>e, <1>g, <2>0, <2>2 DEF Suspends, Goes
  <2>3. CASE Leaves(c, s)
    BY <1>4, <1>e, <1>g, <2>0, <2>3 DEF Leaves, Goes, Exhausted
  <2>4. CASE GivesUp(c, s)
    <3>1. queue'[s] = queue[s]
      BY <2>4 DEF GivesUp
    <3>2. Alone(x) => pc'[x] = "idle"
      BY <1>a, <1>h, <2>0, <2>4 DEF GivesUp, Goes, Blocked
    <3>3. pc'[x] = "stopped" => pc[x] = "stopped"
      BY <2>4 DEF GivesUp, Goes
    <3> QED BY <1>4, <1>e, <1>g, <3>1, <3>2, <3>3
  <2> QED BY <2>1, <2>2, <2>3, <2>4
<1>5. CASE Notified(s)
  <2>1. count < MaxNotifications => count + 1 \in 0..MaxNotifications
    BY DEF TypeOK, QueueAssumption
  <2> QED BY <1>1, <1>2, <1>3, <1>5, <2>1 DEF Notified
<1>6. CASE Closes(s)
  <2>1. CloseMark \in 0..MaxNotifications
    BY DEF CloseMark, QueueAssumption
  <2> QED BY <1>1, <1>2, <1>6, <2>1 DEF Closes
<1>7. CASE GoesOn(s)
  BY <1>3, <1>4, <1>7 DEF GoesOn
<1>8. CASE Opens(s)
  BY <1>3, <1>8 DEF Opens
<1> QED BY <1>5, <1>6, <1>7, <1>8

\* The active set holds the open subscriptions.
LEMMA ActiveStep ==
  ASSUME active = {s \in Subs : sub[s] = "open"}, TypeOK, [Next]_vars
  PROVE  (active = {s \in Subs : sub[s] = "open"})'
<1>1. ASSUME NEW S, active' = active \ S,
             sub' = [s \in Subs |-> IF s \in S THEN "closed" ELSE sub[s]]
      PROVE  active' = {s \in Subs : sub'[s] = "open"}
  BY <1>1
<1>2. CASE Notify
  BY <1>1, <1>2 DEF Notify
<1>3. CASE Teardown
  BY <1>1, <1>3 DEF Teardown, CloseAll
<1>4. ASSUME NEW s \in Subs, Subscribe(s) PROVE active' = {x \in Subs : sub'[x] = "open"}
  BY <1>4 DEF Subscribe, TypeOK
<1>5. ASSUME NEW s \in Subs, Close(s) PROVE active' = {x \in Subs : sub'[x] = "open"}
  BY <1>1, <1>5 DEF Close, CloseAll
<1>6. CASE UNCHANGED <<sub, active>>
  BY <1>6
<1> QED BY <1>2, <1>3, <1>4, <1>5, <1>6 DEF Next, vars, Anext, Resume, CancelWait

-----------------------------------------------------------------------------
(* The theorems.                                                            *)

\* Initially nothing is subscribed.
LEMMA SubInit == QueueAssumption /\ ConsumersAssumption /\ Init => SubInv
<1> SUFFICES ASSUME QueueAssumption, ConsumersAssumption, Init PROVE SubInv
  OBVIOUS
<1>0. Len(<<>>) = 0 /\ 1..0 = {} /\ 0 \in 0..MaxNotifications
  BY DEF QueueAssumption
<1>1. TypeOK
  BY <1>0 DEF TypeOK, Init, QueueAssumption
<1>2. ASSUME NEW s \in Subs PROVE Untouched(s) /\ Marked(s) /\ Gets(s) /\ Lined(s)
  <2>1. queue[s] = <<>> /\ getters[s] = <<>> /\ since[s] = 0 /\ count = 0 /\ sub[s] = "none"
        /\ received[s] = <<>> /\ missed[s] = {}
    BY DEF Init
  <2>2. Blocked(s) = {} /\ Woken(s) = {}
    BY DEF Init, Blocked, Woken
  <2>3. Lined(s)
    BY <1>0, <2>1, <2>2, FS_EmptySet DEF Lined, Lists, Served
  <2> QED BY <1>0, <2>1, <2>3 DEF Untouched, Marked, Gets
<1>3. \A x \in Consumers : Ends(x)
  BY DEF Ends, Init
<1> QED BY <1>1, <1>2, <1>3 DEF SubInv, Init

\* Every step keeps the invariant.
LEMMA SubStep ==
  QueueAssumption /\ ConsumersAssumption /\ SubInv /\ [Next]_vars => SubInv'
<1> SUFFICES ASSUME QueueAssumption, ConsumersAssumption, SubInv, [Next]_vars PROVE SubInv'
  OBVIOUS
<1>0. /\ TypeOK /\ active = {s \in Subs : sub[s] = "open"}
      /\ \A s \in Subs : Untouched(s) /\ Marked(s) /\ Gets(s) /\ Lined(s)
      /\ \A x \in Consumers : Ends(x)
  BY DEF SubInv
<1>1. TypeOK'
  BY <1>0, TypeStep DEF Lined
<1>2. (active = {s \in Subs : sub[s] = "open"})'
  BY <1>0, ActiveStep
<1>3. ASSUME NEW s \in Subs PROVE Opens(s) \/ Notified(s) \/ Closes(s) \/ GoesOn(s)
  BY StepIsLocal
<1>4. ASSUME NEW s \in Subs PROVE Moves(s)
  BY <1>0, <1>3, LocalMoves
<1>5. ASSUME NEW s \in Subs PROVE (Untouched(s) /\ Marked(s) /\ Gets(s) /\ Lined(s))'
  BY <1>0, <1>3, <1>4, UntouchedStep, MarkedStep, GetsStep, LinedStep
<1>6. ASSUME NEW x \in Consumers PROVE Ends(x)'
  <2>1. PICK s \in Subs : ConsumerOf[x] = s
    BY DEF ConsumersAssumption
  <2> QED BY <1>0, <1>3, <1>4, <2>1, EndsStep
<1> QED BY <1>1, <1>2, <1>5, <1>6 DEF SubInv

LEMMA SubAlways == Spec => []SubInv
BY SubInit, SubStep, QueueAssumption, ConsumersAssumption, PTL DEF Spec

\* Types, and no queue holds more than max_queue items, for any subscriptions,
\* consumers and number of notifications.
THEOREM SubscriptionTypeCorrect == Spec => []TypeOK
BY SubAlways, PTL DEF SubInv

\* Fan-out and isolation: an open subscription was given, holds, or itself
\* discarded every notification since it was made, once and in order, whatever
\* the others do.
THEOREM FanOutIsIsolated == Spec => []OpenSubscriberGetsAll
<1>1. SubInv => OpenSubscriberGetsAll
  BY DEF SubInv, Gets, Accounted, OpenSubscriberGetsAll
<1> QED BY <1>1, SubAlways, PTL

\* A consumer is told the end only when everything buffered was taken.
THEOREM DrainedBeforeStopped == Spec => []StoppedMeansDrained
<1>1. SubInv => StoppedMeansDrained
  BY DEF SubInv, Ends, StoppedMeansDrained
<1> QED BY <1>1, SubAlways, PTL

\* The single consumer of a subscription never stays blocked on it once it is
\* closed, also when the sentinel found no room.
THEOREM LoneConsumerIsReleased == Spec => []NoneBlockedOnClosed
<1>1. SubInv => NoneBlockedOnClosed
  BY DEF SubInv, Ends, NoneBlockedOnClosed
<1> QED BY <1>1, SubAlways, PTL

\* Any number of consumers of a subscription lose no wake-up, to each other or
\* to a cancellation.
THEOREM WakeupsAreNotLost == Spec => []NoLostWakeup
<1>1. ConsumersAssumption /\ SubInv => NoLostWakeup
  <2> SUFFICES ASSUME ConsumersAssumption, SubInv, NEW c \in Consumers, pc[c] = "blocked",
                      queue[ConsumerOf[c]] # <<>>,
                      \A d \in Consumers : ConsumerOf[d] = ConsumerOf[c] => pc[d] # "woken"
               PROVE  FALSE
    BY DEF NoLostWakeup
  <2>1. PICK s \in Subs : ConsumerOf[c] = s
    BY DEF ConsumersAssumption
  <2>2. c \in Blocked(s) /\ Woken(s) = {}
    BY <2>1 DEF Blocked, Woken
  <2>3. getters[s] # <<>>
    BY <2>2, EmptySeq DEF SubInv, Lined, Lists
  <2>4. Len(queue[s]) <= 0
    BY <2>2, <2>3, FS_EmptySet DEF SubInv, Lined, Served
  <2> QED BY <2>1, <2>4, QueueItems DEF SubInv
<1> QED BY <1>1, SubAlways, ConsumersAssumption, PTL
=============================================================================
