------------------------ MODULE DockerBackend_proofs ------------------------
(* Theorems about module DockerBackend and their proofs. *)
EXTENDS DockerBackend, SequenceTheorems, FiniteSetTheorems, TLAPS

\* The two properties are inductive together with the order of start() and
\* stop(): no container before "docker run" ended well, of which there is one,
\* and no stop() before start() ended well.
ContainerInv ==
  /\ NoContainerForgotten
  /\ StopLeavesNothing
  /\ state = "CREATED" => run = "none"
  /\ run # "ok" => container = "none"
  /\ run = "running" => startPc \in {"creating", "cancelled"}
  /\ startPc = "connecting" => run = "ok"
  /\ state = "RUNNING" \/ stopPc # "none" => startPc = "over" /\ run = "ok"

\* Every step of the backend, of the engine and of the container keeps it.
LEMMA ContainerStep == ContainerInv /\ [Next]_vars => ContainerInv'
<1> SUFFICES ASSUME ContainerInv, [Next]_vars PROVE ContainerInv'
  OBVIOUS
<1> USE DEF ContainerInv, NoContainerForgotten, StopLeavesNothing,
            coVars, readVars, engineVars, busVars
<1>1. CASE Start \/ CancelStart
  BY <1>1 DEF Start, CancelStart
<1>2. CASE StartCreated \/ StartConnected \/ StartGivesUp
  BY <1>2 DEF StartCreated, StartConnected, StartGivesUp
<1>3. CASE ReaderBegins \/ ReaderReads \/ ReaderFails \/ ReaderMeetsEnd \/ ReaderCancelled
  BY <1>3 DEF ReaderBegins, ReaderReads, ReaderFails, ReaderMeetsEnd, ReaderCancelled
<1>4. CASE Stop \/ CancelStop
  BY <1>4 DEF Stop, CancelStop
<1>5. CASE StopReads \/ StopCloses
  BY <1>5 DEF StopReads, StopCloses, ToConnection, ToContainer
<1>6. CASE StopEnds
  BY <1>6 DEF StopEnds, EngineEnds
<1>7. CASE Destroy
  BY <1>7 DEF Destroy, EngineEnds
<1>8. CASE EngineRuns \/ LinkMade \/ LinkLost \/ ContainerExits \/ BusWrites
  BY <1>8 DEF EngineRuns, LinkMade, LinkLost, ContainerExits, BusWrites
<1>9. CASE UNCHANGED vars
  BY <1>9 DEF vars
<1> QED BY <1>1, <1>2, <1>3, <1>4, <1>5, <1>6, <1>7, <1>8, <1>9 DEF Next

LEMMA ContainerAlways == Spec => []ContainerInv
<1>1. Init => ContainerInv
  BY DEF Init, ContainerInv, NoContainerForgotten, StopLeavesNothing
<1> QED BY <1>1, ContainerStep, PTL DEF Spec

\* A container that runs can be stopped: the backend knows it, unless start()
\* was cancelled while the engine was creating it or the engine failed.
THEOREM ContainerIsKnown == Spec => []NoContainerForgotten
<1>1. ContainerInv => NoContainerForgotten
  BY DEF ContainerInv
<1> QED BY <1>1, ContainerAlways, PTL

\* A stop() that ran to its end left no container, whatever destroy() did
\* meanwhile, unless the engine failed.
THEOREM StopIsComplete == Spec => []StopLeavesNothing
<1>1. ContainerInv => StopLeavesNothing
  BY DEF ContainerInv
<1> QED BY <1>1, ContainerAlways, PTL

(***************************************************************************)
(* What the read loop makes of the bytes.                                  *)
(***************************************************************************)

\* ends tells where in text the lines h + 1, h + 2, ... of these shapes end:
\* the text is those lines, each with its line feed, one after the other.
Framed(text, ends, h, shapes) ==
  /\ ends \in [h..Len(shapes) -> 0..Len(text)]
  /\ ends[h] = 0 /\ ends[Len(shapes)] = Len(text)
  /\ \A k \in h + 1..Len(shapes) : ends[k] = ends[k - 1] + Len(Parts(shapes[k])) + 1
  /\ \A j, k \in h..Len(shapes) : j < k => ends[j] < ends[k]
  /\ \A i \in 1..Len(text) :
       LET k == text[i][1] IN
       /\ k \in h + 1..Len(shapes) /\ ends[k - 1] < i /\ i <= ends[k]
       /\ text[i] = <<k, IF i = ends[k] THEN "n" ELSE Parts(shapes[k])[i - ends[k - 1]]>>

\* As long as no read failed, what the loop keeps and what it has not read
\* yet are the lines not handed over.
FrameInv ==
  /\ TypeOK
  /\ FramesAreLines
  /\ Len(sent) <= MaxLines
  /\ state = "CREATED" => startPc = "none"
  /\ startPc \in {"none", "creating", "connecting"} => reader = "none"
  /\ reader # "failed" =>
       \E ends \in [Len(heard)..Len(sent) -> 0..Len(buffer \o wire)] :
         Framed(buffer \o wire, ends, Len(heard), sent)

\* The lines h + 1 to m of these shapes.
LinesFrom(h, m, shapes) == [k \in 1..m - h |-> Text(h + k, shapes[h + k])]

\* A shape has two parts or three, none of them a line feed.
LEMMA PartsType ==
  ASSUME NEW shape \in LineShapes
  PROVE  /\ Len(Parts(shape)) \in {2, 3}
         /\ \A i \in 1..Len(Parts(shape)) : Parts(shape)[i] \in {"x", "h", "t"}
<1>1. shape = "narrow" \/ shape = "wide"
  BY LineShapesAssumption
<1>2. CASE shape = "narrow"
  <2>1. Parts(shape) = <<"x", "x">>
    BY <1>2 DEF Parts
  <2> QED BY <2>1
<1>3. CASE shape = "wide"
  <2>1. Parts(shape) = <<"x", "h", "t">>
    BY <1>3 DEF Parts
  <2> QED BY <2>1
<1> QED BY <1>1, <1>2, <1>3

LEMMA TextType ==
  ASSUME NEW k \in 1..MaxLines, NEW shape \in LineShapes
  PROVE  /\ Text(k, shape) \in Seq(Bytes)
         /\ Len(Text(k, shape)) = Len(Parts(shape))
         /\ \A i \in 1..Len(Parts(shape)) : Text(k, shape)[i] = <<k, Parts(shape)[i]>>
<1> DEFINE w == Len(Parts(shape))
           t == Text(k, shape)
<1>1. w \in Nat /\ \A i \in 1..w : Parts(shape)[i] \in {"x", "h", "t"}
  BY PartsType
<1>2. t = [i \in 1..w |-> <<k, Parts(shape)[i]>>]
  BY DEF Text
<1>3. \A i \in 1..w : <<k, Parts(shape)[i]>> \in Bytes
  BY <1>1 DEF Bytes
<1> HIDE DEF w, t
<1>4. t \in [1..w -> Bytes]
  BY <1>2, <1>3
<1>5. t \in Seq(Bytes) /\ Len(t) = w
  BY <1>1, <1>4
<1> QED BY <1>2, <1>5 DEF w, t

\* The feeds of a text, told by an increasing list, are counted and found.
LEMMA FeedsFound ==
  ASSUME NEW text, NEW m \in Nat, NEW p, p[0] = 0,
         \A j \in 0..m : p[j] \in Nat,
         \A j, l \in 0..m : j < l => p[j] < p[l],
         \A i : i \in Feeds(text) <=> \E j \in 1..m : i = p[j]
  PROVE  /\ FeedCount(text) = m
         /\ \A j \in 0..m : Feed(text, j) = p[j]
<1> DEFINE F == Feeds(text)
           Upto(i) == {f \in F : f <= i}
<1>1. ASSUME NEW j \in 0..m PROVE Cardinality({f \in F : f <= p[j]}) = j
  <2> DEFINE S == {f \in F : f <= p[j]}
             b == [l \in 1..j |-> p[l]]
  <2>1. \A l \in 1..j : l \in 1..m /\ l \in 0..m /\ (l < j \/ l = j)
    OBVIOUS
  <2>2. \A l \in 1..j : p[l] \in S
    <3> TAKE l \in 1..j
    <3>1. p[l] \in F
      BY <2>1
    <3>2. p[l] <= p[j]
      BY <2>1
    <3> QED BY <3>1, <3>2
  <2>3. \A f \in S : \E l \in 1..j : b[l] = f
    <3> TAKE f \in S
    <3>1. PICK l \in 1..m : f = p[l]
      OBVIOUS
    <3>2. p[l] <= p[j] /\ l \in 0..m /\ p[l] \in Nat /\ p[j] \in Nat
      BY <3>1
    <3>3. ~(j < l)
      BY <3>2
    <3>4. l \in 1..j
      BY <3>3
    <3> QED BY <3>1, <3>4
  <2>4. \A l, k \in 1..j : l # k => b[l] # b[k]
    <3> TAKE l, k \in 1..j
    <3>1. l \in 0..m /\ k \in 0..m /\ p[l] \in Nat /\ p[k] \in Nat
      BY <2>1
    <3>2. l < k \/ k < l \/ l = k
      OBVIOUS
    <3> QED BY <3>1, <3>2
  <2>5. b \in [1..j -> S]
    BY <2>2
  <2>6. b \in Bijection(1..j, S)
    BY <2>3, <2>4, <2>5 DEF Bijection, Injection, Surjection, IsInjective
  <2>7. ExistsBijection(1..j, S)
    BY <2>6 DEF ExistsBijection
  <2>8. j \in Nat
    OBVIOUS
  <2> HIDE DEF S
  <2>9. Cardinality(S) = j
    BY <2>7, <2>8, FS_CountingElements
  <2> QED BY <2>9 DEF S
<1>2. \A f \in F : f <= p[m]
  <2> TAKE f \in F
  <2>1. PICK j \in 1..m : f = p[j]
    OBVIOUS
  <2>2. j \in 0..m /\ m \in 0..m /\ (j < m \/ j = m)
    OBVIOUS
  <2> QED BY <2>1, <2>2
<1>3. F = {f \in F : f <= p[m]}
  BY <1>2
<1>4. FeedCount(text) = m
  <2>1. m \in 0..m
    OBVIOUS
  <2> QED BY <1>1, <1>3, <2>1 DEF FeedCount
<1>5. ASSUME NEW j \in 0..m PROVE Feed(text, j) = p[j]
  <2>1. p[j] \in {0} \cup F
    <3>1. CASE j = 0
      BY <3>1
    <3>2. CASE j # 0
      BY <3>2
    <3> QED BY <3>1, <3>2
  <2>2. Cardinality({f \in F : f <= p[j]}) = j
    BY <1>1
  <2>3. ASSUME NEW i \in {0} \cup F, Cardinality({f \in F : f <= i}) = j
        PROVE  i = p[j]
    <3>1. \E l \in 0..m : i = p[l]
      <4>1. CASE i = 0
        BY <4>1
      <4>2. CASE i \in F
        <5>1. PICK l \in 1..m : i = p[l]
          BY <4>2
        <5>2. l \in 0..m
          OBVIOUS
        <5> QED BY <5>1, <5>2
      <4> QED BY <4>1, <4>2
    <3>2. PICK l \in 0..m : i = p[l]
      BY <3>1
    <3>3. Cardinality({f \in F : f <= p[l]}) = l
      BY <1>1
    <3>4. l = j
      BY <2>3, <3>2, <3>3
    <3> QED BY <3>2, <3>4
  <2> QED BY <2>1, <2>2, <2>3 DEF Feed
<1> QED BY <1>4, <1>5

LEMMA EndsType ==
  ASSUME NEW text, NEW ends, NEW h \in Nat, NEW shapes,
         Len(text) \in Nat, Framed(text, ends, h, shapes), NEW k \in h..Len(shapes)
  PROVE  ends[k] \in Nat /\ ends[k] <= Len(text)
<1>1. ends \in [h..Len(shapes) -> 0..Len(text)]
  BY DEF Framed
<1>2. ends[k] \in 0..Len(text)
  BY <1>1
<1> QED BY <1>2

\* The byte at a place between two ends is that line's.
LEMMA ByteOfLine ==
  ASSUME NEW text, NEW ends, NEW h \in Nat, NEW shapes \in Seq(LineShapes),
         Len(text) \in Nat, Framed(text, ends, h, shapes),
         NEW k \in h + 1..Len(shapes), NEW i \in 1..Len(text),
         ends[k - 1] < i, i <= ends[k]
  PROVE  text[i] = <<k, IF i = ends[k] THEN "n" ELSE Parts(shapes[k])[i - ends[k - 1]]>>
<1> DEFINE s == Len(shapes)
           j == text[i][1]
<1>1. s \in Nat
  OBVIOUS
<1>2. \A x \in h..s : ends[x] \in Nat
  BY EndsType
<1>3. \A x, y \in h..s : x < y => ends[x] < ends[y]
  BY DEF Framed
<1>4. /\ j \in h + 1..s /\ ends[j - 1] < i /\ i <= ends[j]
      /\ text[i] = <<j, IF i = ends[j] THEN "n" ELSE Parts(shapes[j])[i - ends[j - 1]]>>
  BY DEF Framed
<1>5. j \in h..s /\ j - 1 \in h..s /\ k \in h..s /\ k - 1 \in h..s
  BY <1>1, <1>4
<1> HIDE DEF s, j
<1>6. ~(j < k)
  <2> SUFFICES ASSUME j < k PROVE FALSE
    OBVIOUS
  <2>1. j = k - 1 \/ j < k - 1
    BY <1>5
  <2>2. ends[j] = ends[k - 1] \/ ends[j] < ends[k - 1]
    BY <1>3, <1>5, <2>1
  <2>3. ends[j] \in Nat /\ ends[k - 1] \in Nat
    BY <1>2, <1>5
  <2> QED BY <1>4, <2>2, <2>3
<1>7. ~(k < j)
  <2> SUFFICES ASSUME k < j PROVE FALSE
    OBVIOUS
  <2>1. k = j - 1 \/ k < j - 1
    BY <1>5
  <2>2. ends[k] = ends[j - 1] \/ ends[k] < ends[j - 1]
    BY <1>3, <1>5, <2>1
  <2>3. ends[k] \in Nat /\ ends[j - 1] \in Nat
    BY <1>2, <1>5
  <2> QED BY <1>4, <2>2, <2>3
<1>8. j = k
  BY <1>5, <1>6, <1>7
<1> QED BY <1>4, <1>8

LEMMA ByteWithinLine ==
  ASSUME NEW text, NEW ends, NEW h \in Nat, NEW shapes \in Seq(LineShapes),
         Len(text) \in Nat, Framed(text, ends, h, shapes),
         NEW k \in h + 1..Len(shapes), NEW i \in 1..Len(Parts(shapes[k]))
  PROVE  text[ends[k - 1] + i][1] = k /\ text[ends[k - 1] + i][2] = Parts(shapes[k])[i]
<1> DEFINE w == Len(Parts(shapes[k]))
           a == ends[k - 1]
           e == ends[k]
           b == a + i
<1>1. w \in Nat /\ i \in 1..w
  <2>1. shapes[k] \in LineShapes
    BY ElementOfSeq
  <2> QED BY <2>1, PartsType
<1>2. a \in Nat /\ e \in Nat /\ e <= Len(text) /\ e = a + w + 1
  <2>1. k \in h..Len(shapes) /\ k - 1 \in h..Len(shapes)
    OBVIOUS
  <2>2. e = a + w + 1
    BY DEF Framed
  <2>3. a \in Nat /\ e \in Nat /\ e <= Len(text)
    BY <2>1, EndsType
  <2> QED BY <2>2, <2>3
<1> HIDE DEF w, a, e
<1>3. b \in 1..Len(text) /\ a < b /\ b <= e /\ b # e /\ b - a = i
  BY <1>1, <1>2
<1> HIDE DEF b
<1>4. b \in 1..Len(text) /\ ends[k - 1] < b /\ b <= ends[k]
  BY <1>3 DEF a, e
<1>5. text[b] = <<k, IF b = ends[k] THEN "n" ELSE Parts(shapes[k])[b - ends[k - 1]]>>
  BY <1>4, ByteOfLine
<1>6. text[b][1] = k /\ text[b][2] = Parts(shapes[k])[i]
  BY <1>3, <1>5 DEF a, e
<1> QED BY <1>6 DEF a, b

\* The line feeds of a framed text are where its lines end.
LEMMA FeedsAreEnds ==
  ASSUME NEW text, NEW ends, NEW h \in Nat, NEW shapes \in Seq(LineShapes),
         Len(text) \in Nat, Framed(text, ends, h, shapes), NEW i \in 1..Len(text)
  PROVE  text[i][2] = "n" <=> \E k \in h + 1..Len(shapes) : i = ends[k]
<1> DEFINE j == text[i][1]
<1>1. /\ j \in h + 1..Len(shapes) /\ ends[j - 1] < i /\ i <= ends[j]
      /\ text[i] = <<j, IF i = ends[j] THEN "n" ELSE Parts(shapes[j])[i - ends[j - 1]]>>
      /\ ends[j] = ends[j - 1] + Len(Parts(shapes[j])) + 1
      /\ ends[j - 1] \in Nat
  <2>1. /\ j \in h + 1..Len(shapes) /\ ends[j - 1] < i /\ i <= ends[j]
        /\ text[i] = <<j, IF i = ends[j] THEN "n" ELSE Parts(shapes[j])[i - ends[j - 1]]>>
    BY DEF Framed
  <2>2. j - 1 \in h..Len(shapes) /\ Len(shapes) \in Nat
    BY <2>1
  <2>3. ends[j] = ends[j - 1] + Len(Parts(shapes[j])) + 1
    BY <2>1 DEF Framed
  <2>4. ends[j - 1] \in Nat
    BY <2>2, EndsType
  <2> QED BY <2>1, <2>3, <2>4
<1>2. i # ends[j] => text[i][2] # "n"
  <2> SUFFICES ASSUME i # ends[j] PROVE text[i][2] # "n"
    OBVIOUS
  <2>1. shapes[j] \in LineShapes
    BY <1>1
  <2>2. /\ Len(Parts(shapes[j])) \in {2, 3}
        /\ \A x \in 1..Len(Parts(shapes[j])) : Parts(shapes[j])[x] \in {"x", "h", "t"}
    BY <2>1, PartsType
  <2>3. i - ends[j - 1] \in 1..Len(Parts(shapes[j]))
    <3> DEFINE w == Len(Parts(shapes[j]))
               a == ends[j - 1]
               e == ends[j]
    <3>1. w \in Nat /\ a \in Nat /\ e = a + w + 1 /\ a < i /\ i <= e /\ i # e /\ i \in Nat
      BY <1>1, <2>2
    <3> HIDE DEF w, a, e
    <3>2. i - a \in 1..w
      BY <3>1
    <3> QED BY <3>2 DEF w, a
  <2>4. text[i][2] = Parts(shapes[j])[i - ends[j - 1]]
    BY <1>1
  <2> QED BY <2>2, <2>3, <2>4
<1>3. ASSUME NEW k \in h + 1..Len(shapes), i = ends[k] PROVE text[i][2] = "n"
  <2>1. k - 1 \in h..Len(shapes) /\ k \in h..Len(shapes) /\ k - 1 < k
    OBVIOUS
  <2>2. ends[k - 1] < i /\ i <= ends[k]
    <3>1. ends[k - 1] < ends[k]
      BY <2>1 DEF Framed
    <3>2. ends[k] \in Nat
      BY <2>1, EndsType
    <3> QED BY <1>3, <3>1, <3>2
  <2>3. text[i] = <<k, IF i = ends[k] THEN "n" ELSE Parts(shapes[k])[i - ends[k - 1]]>>
    BY <2>2, ByteOfLine
  <2> QED BY <1>3, <2>3
<1> QED BY <1>1, <1>2, <1>3

\* The last line that ends within the first n bytes of a framed text.
LEMMA LastEnd ==
  ASSUME NEW text, NEW ends, NEW h \in Nat, NEW shapes \in Seq(LineShapes),
         Len(text) \in Nat, h <= Len(shapes), Framed(text, ends, h, shapes),
         NEW n \in 0..Len(text)
  PROVE  \E m \in h..Len(shapes) :
           ends[m] <= n /\ \A k \in m + 1..Len(shapes) : n < ends[k]
<1> DEFINE s == Len(shapes)
<1>1. s \in Nat /\ s \in h..s
  OBVIOUS
<1>2. CASE n = Len(text)
  <2>1. ends[s] <= n
    BY <1>2 DEF Framed
  <2>2. \A k \in s + 1..s : FALSE
    BY <1>1
  <2> QED BY <1>1, <2>1, <2>2
<1>3. CASE n < Len(text)
  <2> DEFINE j == text[n + 1][1]
  <2>1. n + 1 \in 1..Len(text)
    BY <1>3
  <2>2. j \in h + 1..s /\ ends[j - 1] < n + 1 /\ n + 1 <= ends[j]
    BY <2>1 DEF Framed
  <2> HIDE DEF j
  <2>3. j - 1 \in h..s /\ j \in h..s /\ ends[j - 1] \in Nat /\ ends[j] \in Nat
    <3>1. j - 1 \in h..s /\ j \in h..s
      BY <1>1, <2>2
    <3> QED BY <3>1, EndsType
  <2>4. ends[j - 1] <= n
    BY <2>2, <2>3
  <2>5. ASSUME NEW k \in (j - 1) + 1..s PROVE n < ends[k]
    <3>1. k \in h..s /\ (j < k \/ j = k)
      BY <1>1, <2>2, <2>3
    <3>2. ends[j] = ends[k] \/ ends[j] < ends[k]
      BY <2>3, <3>1 DEF Framed
    <3>3. ends[k] \in Nat
      BY <3>1, EndsType
    <3> QED BY <2>2, <2>3, <3>2, <3>3
  <2> QED BY <2>3, <2>4, <2>5
<1> QED BY <1>2, <1>3

\* What the loop finds in the first n bytes of a text when m is the last line
\* that ends there: the lines up to that one, and a rest without a line feed.
CutAfter(m, text, n, ends, h, shapes) ==
  LET p == SubSeq(text, 1, n) IN
  /\ ends[m] <= n
  /\ Lines(p) = LinesFrom(h, m, shapes)
  /\ Rest(p) = SubSeq(p, ends[m] + 1, n)
  /\ \A i \in ends[m] + 1..n : p[i][2] # "n"

LEMMA ReadCuts ==
  ASSUME NEW text \in Seq(Bytes), NEW ends, NEW h \in Nat,
         NEW shapes \in Seq(LineShapes), h <= Len(shapes), Len(shapes) <= MaxLines,
         Framed(text, ends, h, shapes), NEW n \in 0..Len(text)
  PROVE  \E m \in h..Len(shapes) : CutAfter(m, text, n, ends, h, shapes)
<1> DEFINE s == Len(shapes)
           p == SubSeq(text, 1, n)
<1>1. s \in Nat /\ Len(text) \in Nat /\ n \in Nat /\ n <= Len(text)
  BY LenProperties
<1>2. /\ p \in Seq(Bytes) /\ Len(p) = n
      /\ \A i \in 1..n : p[i] = text[i] /\ p[i] \in Bytes
  <2>1. \A i \in 1..n : text[i] \in Bytes
    BY <1>1, ElementOfSeq
  <2>2. /\ p \in Seq(Bytes) /\ Len(p) = IF 1 <= n THEN n - 1 + 1 ELSE 0
        /\ \A i \in 1..n - 1 + 1 : p[i] = text[1 + i - 1]
    BY <1>1, <2>1, SubSeqProperties
  <2> HIDE DEF p
  <2> QED BY <1>1, <2>1, <2>2
<1>3. PICK m \in h..s : ends[m] <= n /\ \A k \in m + 1..s : n < ends[k]
  BY <1>1, LastEnd
<1> DEFINE q == [j \in 0..m - h |-> ends[h + j]]
<1> HIDE DEF p
<1>4. m \in Nat /\ h <= m /\ m - h \in Nat /\ m <= s
  BY <1>1, <1>3
<1>5. \A j \in 0..m - h : h + j \in h..s /\ q[j] = ends[h + j]
  BY <1>1, <1>4
<1>6. \A k \in h..s : ends[k] \in Nat
  BY <1>1, EndsType
<1>7. \A j, k \in h..s : j < k => ends[j] < ends[k]
  BY DEF Framed
<1>8. ends[h] = 0
  BY DEF Framed
<1>9. \A i : i \in Feeds(p) <=> \E j \in 1..m - h : i = q[j]
  <2>1. ASSUME NEW i \in Feeds(p) PROVE \E j \in 1..m - h : i = q[j]
    <3>1. i \in 1..n /\ i \in 1..Len(text) /\ text[i][2] = "n"
      BY <1>1, <1>2 DEF Feeds
    <3>2. PICK k \in h + 1..s : i = ends[k]
      BY <1>1, <3>1, FeedsAreEnds
    <3>3. ~(k \in m + 1..s)
      BY <1>1, <1>3, <3>1, <3>2
    <3>4. k - h \in 1..m - h /\ k - h \in 0..m - h /\ h + (k - h) = k
      BY <1>1, <1>4, <3>2, <3>3
    <3>5. q[k - h] = ends[h + (k - h)]
      BY <1>5, <3>4
    <3> QED BY <3>2, <3>4, <3>5
  <2>2. ASSUME NEW j \in 1..m - h PROVE q[j] \in Feeds(p)
    <3>1. /\ h + j \in h + 1..s /\ h + j \in h..s /\ h \in h..s /\ h < h + j
          /\ m \in h..s /\ (h + j < m \/ h + j = m) /\ j \in 0..m - h
      BY <1>1, <1>4
    <3>2. ends[h] < ends[h + j] /\ (ends[h + j] < ends[m] \/ ends[h + j] = ends[m])
      BY <1>7, <3>1
    <3>3. ends[h + j] \in Nat /\ ends[m] \in Nat
      BY <1>6, <3>1
    <3>4. ends[h + j] \in 1..n
      BY <1>1, <1>3, <1>8, <3>2, <3>3
    <3>5. ends[h + j] \in 1..Len(text)
      BY <1>1, <3>4
    <3>6. text[ends[h + j]][2] = "n"
      BY <1>1, <3>1, <3>5, FeedsAreEnds
    <3>7. q[j] = ends[h + j]
      BY <1>5, <3>1
    <3> HIDE DEF q
    <3> QED BY <1>2, <3>4, <3>6, <3>7 DEF Feeds
  <2> QED BY <2>1, <2>2
<1>10. FeedCount(p) = m - h /\ \A j \in 0..m - h : Feed(p, j) = ends[h + j]
  <2>1. q[0] = 0
    <3>1. 0 \in 0..m - h /\ h + 0 = h
      BY <1>4
    <3> HIDE DEF q
    <3> QED BY <1>5, <1>8, <3>1
  <2>2. \A j \in 0..m - h : q[j] \in Nat
    BY <1>5, <1>6
  <2>3. \A j, l \in 0..m - h : j < l => q[j] < q[l]
    <3> TAKE j, l \in 0..m - h
    <3>1. j < l => h + j < h + l
      BY <1>4
    <3> HIDE DEF q
    <3> QED BY <1>5, <1>7, <3>1
  <2> HIDE DEF q
  <2>4. FeedCount(p) = m - h /\ \A j \in 0..m - h : Feed(p, j) = q[j]
    BY <1>4, <1>9, <2>1, <2>2, <2>3, FeedsFound
  <2> QED BY <1>5, <2>4
<1> HIDE DEF q
<1>11. ASSUME NEW k \in 1..m - h
       PROVE  SubSeq(p, Feed(p, k - 1) + 1, Feed(p, k) - 1) = Text(h + k, shapes[h + k])
  <2> DEFINE a == ends[h + k - 1]
             e == ends[h + k]
             w == Len(Parts(shapes[h + k]))
             t == SubSeq(p, a + 1, e - 1)
  <2>1. /\ k - 1 \in 0..m - h /\ k \in 0..m - h /\ h + (k - 1) = h + k - 1
        /\ h + k \in h + 1..s /\ h + k \in h..s /\ h + k - 1 \in h..s /\ h + k \in 1..MaxLines
        /\ m \in h..s /\ (h + k < m \/ h + k = m)
    BY <1>1, <1>4, LinesAssumption
  <2>2. Feed(p, k - 1) = a /\ Feed(p, k) = e
    BY <1>10, <2>1
  <2>3. shapes[h + k] \in LineShapes
    BY <1>1, <2>1, ElementOfSeq
  <2>4. /\ Text(h + k, shapes[h + k]) \in Seq(Bytes)
        /\ Len(Text(h + k, shapes[h + k])) = w
        /\ \A i \in 1..w : Text(h + k, shapes[h + k])[i] = <<h + k, Parts(shapes[h + k])[i]>>
    BY <2>1, <2>3, TextType
  <2>5. w \in Nat /\ w > 0
    <3>1. w \in {2, 3}
      BY <2>3, PartsType
    <3> HIDE DEF w
    <3> QED BY <3>1
  <2>6. a \in Nat /\ e \in Nat /\ e = a + w + 1 /\ e <= n
    <3>1. a \in Nat /\ e \in Nat /\ ends[m] \in Nat
      BY <1>6, <2>1
    <3>2. e = a + w + 1
      BY <2>1 DEF Framed
    <3>3. e < ends[m] \/ e = ends[m]
      BY <1>7, <2>1
    <3> QED BY <1>1, <1>3, <3>1, <3>2, <3>3
  <2>7. \A i \in 1..w : text[a + i][1] = h + k /\ text[a + i][2] = Parts(shapes[h + k])[i]
    <3>1. h + k \in h + 1..Len(shapes) /\ Len(text) \in Nat
      BY <1>1, <2>1
    <3>2. \A i \in 1..Len(Parts(shapes[h + k])) :
            /\ text[ends[(h + k) - 1] + i][1] = h + k
            /\ text[ends[(h + k) - 1] + i][2] = Parts(shapes[h + k])[i]
      BY <3>1, ByteWithinLine
    <3>3. ends[(h + k) - 1] = a
      OBVIOUS
    <3> QED BY <3>2, <3>3
  <2>8. /\ t \in Seq(Bytes) /\ Len(t) = w
        /\ \A i \in 1..w : t[i] = p[a + i]
    <3>1. a + 1 \in Int /\ e - 1 \in Int /\ (e - 1) - (a + 1) + 1 = w /\ a + 1 <= e - 1
      <4> HIDE DEF a, e, w
      <4> QED BY <2>5, <2>6
    <3>2. \A i \in a + 1..e - 1 : p[i] \in Bytes
      <4>1. \A i \in a + 1..e - 1 : i \in 1..n
        <5> HIDE DEF a, e, w
        <5> QED BY <1>1, <2>6
      <4> QED BY <1>2, <4>1
    <3> HIDE DEF a, e, w
    <3>3. /\ t \in Seq(Bytes)
          /\ Len(t) = IF a + 1 <= e - 1 THEN (e - 1) - (a + 1) + 1 ELSE 0
          /\ \A i \in 1..(e - 1) - (a + 1) + 1 : t[i] = p[(a + 1) + i - 1]
      BY <3>1, <3>2, SubSeqProperties
    <3>4. \A i \in 1..w : (a + 1) + i - 1 = a + i
      BY <2>5, <2>6
    <3> HIDE DEF t
    <3> QED BY <3>1, <3>3, <3>4
  <2>9. \A i \in 1..w : p[a + i] = text[a + i]
    <3>1. \A i \in 1..w : a + i \in 1..n
      <4> HIDE DEF a, e, w
      <4> QED BY <1>1, <2>5, <2>6
    <3> QED BY <1>2, <3>1
  <2>10. t = Text(h + k, shapes[h + k])
    <3> DEFINE u == Text(h + k, shapes[h + k])
    <3>1. /\ t \in Seq(Bytes) /\ u \in Seq(Bytes) /\ Len(t) = Len(u)
          /\ \A i \in 1..Len(t) : t[i] = u[i]
      <4> HIDE DEF a
      <4>1. /\ t \in Seq(Bytes) /\ u \in Seq(Bytes) /\ Len(t) = w /\ Len(u) = w
            /\ \A i \in 1..w : u[i] = <<h + k, Parts(shapes[h + k])[i]>>
        BY <2>4, <2>8
      <4> HIDE DEF t, u
      <4>2. ASSUME NEW i \in 1..w PROVE t[i] = u[i]
        <5> HIDE DEF w
        <5>1. t[i] \in Bytes
          BY <4>1, ElementOfSeq
        <5>2. t[i] = <<t[i][1], t[i][2]>>
          BY <5>1 DEF Bytes
        <5>3. t[i][1] = h + k /\ t[i][2] = Parts(shapes[h + k])[i]
          BY <2>7, <2>8, <2>9
        <5> QED BY <4>1, <5>2, <5>3
      <4> QED BY <4>1, <4>2
    <3> HIDE DEF t, u
    <3>2. t = u
      BY <3>1, SeqEqual
    <3> QED BY <3>2 DEF u
  <2> QED BY <2>2, <2>10
<1>12. Lines(p) = LinesFrom(h, m, shapes)
  BY <1>10, <1>11 DEF Lines, LinesFrom
<1>13. Rest(p) = SubSeq(p, ends[m] + 1, n)
  <2>1. m - h \in 0..m - h /\ h + (m - h) = m
    BY <1>4
  <2>2. Feed(p, FeedCount(p)) = ends[m]
    BY <1>10, <2>1
  <2> QED BY <1>2, <2>2 DEF Rest
<1>14. ASSUME NEW i \in ends[m] + 1..n PROVE p[i][2] # "n"
  <2>1. m \in h..s /\ ends[m] \in Nat
    BY <1>6
  <2>2. i \in 1..n /\ i \in 1..Len(text) /\ ends[m] < i
    BY <1>1, <2>1
  <2>3. ASSUME NEW k \in h + 1..s, i = ends[k] PROVE FALSE
    <3>1. k \in m + 1..s \/ k = m \/ k < m
      BY <1>1, <1>4
    <3>2. CASE k \in m + 1..s
      BY <1>1, <1>3, <2>2, <2>3, <3>2
    <3>3. CASE k = m
      BY <2>1, <2>2, <2>3, <3>3
    <3>4. CASE k < m
      <4>1. k \in h..s
        BY <1>1
      <4>2. ends[k] < ends[m] /\ ends[k] \in Nat
        BY <1>6, <1>7, <2>1, <3>4, <4>1
      <4> QED BY <2>1, <2>2, <2>3, <4>2
    <3> QED BY <3>1, <3>2, <3>3, <3>4
  <2>4. text[i][2] # "n"
    BY <1>1, <2>2, <2>3, FeedsAreEnds
  <2> QED BY <1>2, <2>2, <2>4
<1>15. CutAfter(m, text, n, ends, h, shapes)
  BY <1>3, <1>12, <1>13, <1>14 DEF CutAfter, p
<1> QED BY <1>3, <1>15

\* Without its first lines a framed text is the lines that remain.
LEMMA FramedRest ==
  ASSUME NEW text, NEW ends, NEW h \in Nat, NEW shapes \in Seq(LineShapes),
         Len(text) \in Nat, Framed(text, ends, h, shapes), NEW m \in h..Len(shapes),
         NEW rest, Len(rest) \in Nat, Len(rest) = Len(text) - ends[m],
         \A i \in 1..Len(rest) : rest[i] = text[ends[m] + i]
  PROVE  \E e \in [m..Len(shapes) -> 0..Len(rest)] : Framed(rest, e, m, shapes)
<1> DEFINE s == Len(shapes)
           a == ends[m]
           e == [k \in m..s |-> ends[k] - a]
<1>1. s \in Nat /\ m \in Nat /\ h <= m /\ m <= s /\ \A k \in m..s : k \in h..s
  OBVIOUS
<1>2. a \in Nat /\ \A k \in h..s : ends[k] \in Nat /\ ends[k] <= Len(text)
  BY <1>1, EndsType
<1>3. /\ ends[s] = Len(text)
      /\ \A k \in h + 1..s : ends[k] = ends[k - 1] + Len(Parts(shapes[k])) + 1
      /\ \A j, k \in h..s : j < k => ends[j] < ends[k]
  BY DEF Framed
<1>4. ASSUME NEW k \in m..s PROVE e[k] = ends[k] - a /\ e[k] \in 0..Len(rest)
  <2>1. k \in h..s /\ m \in h..s /\ (k = m \/ m < k)
    BY <1>1
  <2>2. ends[k] \in Nat /\ ends[k] <= Len(text) /\ (a = ends[k] \/ a < ends[k])
    BY <1>2, <1>3, <2>1
  <2>3. e[k] = ends[k] - a
    OBVIOUS
  <2>4. a \in Nat /\ Len(rest) = Len(text) - a
    BY <1>2
  <2> HIDE DEF a, e
  <2>5. a <= ends[k]
    BY <2>2, <2>4
  <2> QED BY <2>2, <2>3, <2>4, <2>5
<1>5. e \in [m..s -> 0..Len(rest)]
  BY <1>4
<1>6. e[m] = 0 /\ e[s] = Len(rest)
  <2>1. m \in m..s /\ s \in m..s
    BY <1>1
  <2> QED BY <1>2, <1>3, <1>4, <2>1
<1>7. ASSUME NEW k \in m + 1..s PROVE e[k] = e[k - 1] + Len(Parts(shapes[k])) + 1
  <2>1. k \in m..s /\ k - 1 \in m..s /\ k \in h + 1..s
    BY <1>1
  <2>2. e[k] = ends[k] - a /\ e[k - 1] = ends[k - 1] - a
    BY <1>4, <2>1
  <2>3. ends[k] = ends[k - 1] + Len(Parts(shapes[k])) + 1
    BY <1>3, <2>1
  <2>4. ends[k - 1] \in Nat
    BY <1>1, <1>2, <2>1
  <2>5. Len(Parts(shapes[k])) \in Nat
    <3>1. shapes[k] \in LineShapes
      BY <1>1, <2>1, ElementOfSeq
    <3>2. Len(Parts(shapes[k])) \in {2, 3}
      BY <3>1, PartsType
    <3> QED BY <3>2
  <2> HIDE DEF e, a
  <2> QED BY <1>2, <2>2, <2>3, <2>4, <2>5
<1>8. ASSUME NEW j \in m..s, NEW k \in m..s, j < k PROVE e[j] < e[k]
  <2>1. ends[j] < ends[k] /\ ends[j] \in Nat /\ ends[k] \in Nat
    BY <1>1, <1>2, <1>3, <1>8
  <2>2. e[j] = ends[j] - a /\ e[k] = ends[k] - a
    BY <1>4
  <2> HIDE DEF e, a
  <2> QED BY <1>2, <2>1, <2>2
<1>9. ASSUME NEW i \in 1..Len(rest)
      PROVE  LET k == rest[i][1] IN
             /\ k \in m + 1..s /\ e[k - 1] < i /\ i <= e[k]
             /\ rest[i] = <<k, IF i = e[k] THEN "n" ELSE Parts(shapes[k])[i - e[k - 1]]>>
  <2> DEFINE b == a + i
             k == text[b][1]
  <2>1. b \in 1..Len(text) /\ rest[i] = text[b]
    <3>1. rest[i] = text[b]
      OBVIOUS
    <3>2. Len(rest) = Len(text) - a
      OBVIOUS
    <3> HIDE DEF a
    <3>3. b \in 1..Len(text)
      BY <1>2, <3>2
    <3> QED BY <3>1, <3>3
  <2> HIDE DEF b
  <2>2. /\ k \in h + 1..s /\ ends[k - 1] < b /\ b <= ends[k]
        /\ text[b] = <<k, IF b = ends[k] THEN "n" ELSE Parts(shapes[k])[b - ends[k - 1]]>>
    BY <2>1 DEF Framed
  <2> HIDE DEF k
  <2>3. k \in Nat /\ k \in h..s /\ k - 1 \in h..s
    BY <1>1, <2>2
  <2>4. ends[k] \in Nat /\ ends[k - 1] \in Nat
    BY <1>2, <2>3
  <2>5. b = a + i
    BY DEF b
  <2>6. ~(k <= m)
    <3> SUFFICES ASSUME k <= m PROVE FALSE
      OBVIOUS
    <3>1. k = m \/ k < m
      BY <1>1, <2>3
    <3>2. ends[k] = a \/ ends[k] < a
      BY <1>1, <1>3, <2>3, <3>1
    <3>3. b <= ends[k] /\ a \in Nat
      BY <1>2, <2>2
    <3> HIDE DEF a
    <3>4. ends[k] <= a
      BY <2>4, <3>2, <3>3
    <3>5. i \in Nat /\ i > 0
      OBVIOUS
    <3> QED BY <2>4, <2>5, <3>3, <3>4, <3>5
  <2>7. k \in m + 1..s /\ k \in m..s /\ k - 1 \in m..s
    BY <1>1, <2>2, <2>3, <2>6
  <2>8. e[k] = ends[k] - a /\ e[k - 1] = ends[k - 1] - a
    BY <1>4, <2>7
  <2> HIDE DEF e, a
  <2>9. e[k - 1] < i /\ i <= e[k] /\ (i = e[k] <=> b = ends[k]) /\ i - e[k - 1] = b - ends[k - 1]
    <3>1. a \in Nat /\ i \in Nat /\ ends[k - 1] < b /\ b <= ends[k]
      BY <1>2, <2>2
    <3>2. e[k] \in Int /\ e[k - 1] \in Int
      BY <2>4, <2>8, <3>1
    <3>3. e[k - 1] < i /\ i <= e[k]
      BY <2>4, <2>5, <2>8, <3>1
    <3>4. i - e[k - 1] = b - ends[k - 1]
      BY <2>4, <2>5, <2>8, <3>1
    <3>5. ASSUME i = e[k] PROVE b = ends[k]
      BY <2>4, <2>5, <2>8, <3>1, <3>5
    <3>6. ASSUME b = ends[k] PROVE i = e[k]
      BY <2>4, <2>5, <2>8, <3>1, <3>6
    <3> QED BY <3>3, <3>4, <3>5, <3>6
  <2>10. rest[i] = <<k, IF i = e[k] THEN "n" ELSE Parts(shapes[k])[i - e[k - 1]]>>
    BY <2>1, <2>2, <2>9
  <2>11. rest[i][1] = k
    BY <2>1 DEF k
  <2> QED BY <2>7, <2>9, <2>10, <2>11
<1> HIDE DEF e
<1>10. Framed(rest, e, m, shapes)
  BY <1>5, <1>6, <1>7, <1>8, <1>9 DEF Framed
<1> QED BY <1>5, <1>10

\* With one more line at its end a framed text is framed.
LEMMA FramedMore ==
  ASSUME NEW text \in Seq(Bytes), NEW ends, NEW h \in Nat, NEW shapes \in Seq(LineShapes),
         h <= Len(shapes), Len(shapes) < MaxLines, Framed(text, ends, h, shapes),
         NEW shape \in LineShapes, NEW more,
         more = Text(Len(shapes) + 1, shape) \o <<<<Len(shapes) + 1, "n">>>>
  PROVE  /\ more \in Seq(Bytes)
         /\ \E e \in [h..Len(Append(shapes, shape)) -> 0..Len(text \o more)] :
              Framed(text \o more, e, h, Append(shapes, shape))
<1> DEFINE s == Len(shapes)
           z == s + 1
           n == Len(text)
           w == Len(Parts(shape))
           t == text \o more
           l == Append(shapes, shape)
           e == [k \in h..z |-> IF k = z THEN n + w + 1 ELSE ends[k]]
<1>1. s \in Nat /\ n \in Nat /\ z \in 1..MaxLines /\ z \notin h..s
      /\ \A k \in h..z : k = z \/ k \in h..s
  BY LenProperties, LinesAssumption
<1>2. w \in Nat /\ \A i \in 1..w : Parts(shape)[i] \in {"x", "h", "t"}
  BY PartsType
<1>3. /\ more \in Seq(Bytes) /\ Len(more) = w + 1
      /\ \A i \in 1..w + 1 : more[i] = <<z, IF i = w + 1 THEN "n" ELSE Parts(shape)[i]>>
  <2> DEFINE f == <<<<z, "n">>>>
             x == Text(z, shape)
  <2>1. <<z, "n">> \in Bytes
    BY <1>1 DEF Bytes
  <2>2. f \in Seq(Bytes) /\ Len(f) = 1 /\ f[1] = <<z, "n">>
    BY <2>1
  <2>3. /\ x \in Seq(Bytes) /\ Len(x) = w
        /\ \A i \in 1..w : x[i] = <<z, Parts(shape)[i]>>
    BY <1>1, TextType
  <2>4. more = x \o f
    OBVIOUS
  <2> HIDE DEF f, x, z, w
  <2>5. /\ x \o f \in Seq(Bytes) /\ Len(x \o f) = w + 1
        /\ \A i \in 1..w + 1 : (x \o f)[i] = IF i <= w THEN x[i] ELSE f[i - w]
    <3>1. /\ x \o f \in Seq(Bytes) /\ Len(x \o f) = Len(x) + Len(f)
          /\ \A i \in 1..Len(x) + Len(f) : (x \o f)[i] = IF i <= Len(x) THEN x[i] ELSE f[i - Len(x)]
      <4>1. x \in Seq(Bytes) /\ f \in Seq(Bytes)
        BY <2>2, <2>3
      <4> QED BY <4>1, ConcatProperties
    <3> QED BY <2>2, <2>3, <3>1
  <2>6. ASSUME NEW i \in 1..w + 1
        PROVE  more[i] = <<z, IF i = w + 1 THEN "n" ELSE Parts(shape)[i]>>
    <3>1. CASE i = w + 1
      <4>1. ~(i <= w) /\ i - w = 1
        BY <1>2, <3>1
      <4> QED BY <2>2, <2>4, <2>5, <3>1, <4>1
    <3>2. CASE i # w + 1
      <4>1. i \in 1..w /\ i <= w
        BY <1>2, <3>2
      <4> QED BY <2>3, <2>4, <2>5, <3>2, <4>1
    <3> QED BY <3>1, <3>2
  <2> QED BY <2>4, <2>5, <2>6
<1>4. /\ Len(t) = n + (w + 1)
      /\ \A i \in 1..n : t[i] = text[i]
      /\ \A i \in 1..w + 1 : t[n + i] = more[i]
  <2>1. /\ Len(t) = n + Len(more)
        /\ \A i \in 1..n + Len(more) : t[i] = IF i <= n THEN text[i] ELSE more[i - n]
    <3>1. text \in Seq(Bytes) /\ more \in Seq(Bytes)
      BY <1>3
    <3> QED BY <3>1, ConcatProperties
  <2> HIDE DEF t, n, w
  <2>2. \A i \in 1..n : i \in 1..n + Len(more) /\ i <= n
    BY <1>1, <1>2, <1>3
  <2>3. \A i \in 1..w + 1 : n + i \in 1..n + Len(more) /\ ~(n + i <= n) /\ (n + i) - n = i
    BY <1>1, <1>2, <1>3
  <2> QED BY <1>3, <2>1, <2>2, <2>3
<1>5. Len(l) = z /\ l[z] = shape /\ \A k \in 1..s : l[k] = shapes[k]
  BY AppendProperties
<1>6. \A k \in h..s : ends[k] \in Nat /\ ends[k] <= n
  BY <1>1, EndsType
<1>7. /\ ends[h] = 0 /\ ends[s] = n
      /\ \A k \in h + 1..s : ends[k] = ends[k - 1] + Len(Parts(shapes[k])) + 1
      /\ \A j, k \in h..s : j < k => ends[j] < ends[k]
  BY DEF Framed
<1>8. e[z] = n + w + 1 /\ \A k \in h..s : e[k] = ends[k]
  BY <1>1
<1>9. e \in [h..z -> 0..Len(t)]
  <2>1. ASSUME NEW k \in h..z PROVE (IF k = z THEN n + w + 1 ELSE ends[k]) \in 0..Len(t)
    <3>1. CASE k = z
      <4> HIDE DEF t, n, w
      <4> QED BY <1>1, <1>2, <1>4, <3>1
    <3>2. CASE k \in h..s
      <4>1. k # z /\ ends[k] \in Nat /\ ends[k] <= n
        BY <1>1, <1>6, <3>2
      <4> HIDE DEF t, n, w, z
      <4> QED BY <1>1, <1>2, <1>4, <4>1
    <3> QED BY <1>1, <3>1, <3>2
  <2> QED BY <2>1
<1> HIDE DEF e, t, l, w, n
<1>10. e[h] = 0 /\ e[z] = Len(t)
  <2>1. h \in h..s
    BY <1>1
  <2> QED BY <1>1, <1>2, <1>4, <1>7, <1>8, <2>1
<1>11. ASSUME NEW k \in h + 1..z PROVE e[k] = e[k - 1] + Len(Parts(l[k])) + 1
  <2>1. CASE k = z
    <3>1. k - 1 = s /\ s \in h..s
      BY <1>1, <2>1
    <3>2. e[k - 1] = n /\ l[k] = shape
      BY <1>5, <1>7, <1>8, <2>1, <3>1
    <3> QED BY <1>1, <1>2, <1>8, <2>1, <3>2 DEF w
  <2>2. CASE k # z
    <3>1. k \in h + 1..s /\ k \in h..s /\ k - 1 \in h..s /\ k \in 1..s
      BY <1>1, <2>2
    <3> QED BY <1>5, <1>7, <1>8, <3>1
  <2> QED BY <2>1, <2>2
<1>12. ASSUME NEW j \in h..z, NEW k \in h..z, j < k PROVE e[j] < e[k]
  <2>1. j \in h..s
    BY <1>1, <1>12
  <2>2. CASE k = z
    <3>1. e[j] = ends[j] /\ ends[j] \in Nat /\ ends[j] <= n /\ e[k] = n + w + 1
      BY <1>6, <1>8, <2>1, <2>2
    <3> QED BY <1>1, <1>2, <3>1
  <2>3. CASE k \in h..s
    BY <1>7, <1>8, <1>12, <2>1, <2>3
  <2> QED BY <1>1, <2>2, <2>3
<1>13. ASSUME NEW i \in 1..Len(t)
       PROVE  LET k == t[i][1] IN
              /\ k \in h + 1..z /\ e[k - 1] < i /\ i <= e[k]
              /\ t[i] = <<k, IF i = e[k] THEN "n" ELSE Parts(l[k])[i - e[k - 1]]>>
  <2>1. CASE i \in 1..n
    <3> DEFINE k == text[i][1]
    <3>1. /\ k \in h + 1..s /\ ends[k - 1] < i /\ i <= ends[k]
          /\ text[i] = <<k, IF i = ends[k] THEN "n" ELSE Parts(shapes[k])[i - ends[k - 1]]>>
      BY <2>1 DEF Framed, n
    <3>2. t[i] = text[i]
      BY <1>4, <2>1
    <3> HIDE DEF k
    <3>3. k \in h + 1..z /\ k \in 1..s /\ k \in h..s /\ k - 1 \in h..s
      BY <1>1, <3>1
    <3>4. e[k] = ends[k] /\ e[k - 1] = ends[k - 1] /\ l[k] = shapes[k]
      BY <1>5, <1>8, <3>3
    <3>5. t[i][1] = k
      BY <3>2 DEF k
    <3> QED BY <3>1, <3>2, <3>3, <3>4, <3>5
  <2>2. CASE i \notin 1..n
    <3> DEFINE r == i - n
    <3>1. r \in 1..w + 1 /\ i = n + r
      BY <1>1, <1>2, <1>4, <2>2
    <3> HIDE DEF r
    <3>2. t[i] = <<z, IF r = w + 1 THEN "n" ELSE Parts(shape)[r]>>
      BY <1>3, <1>4, <3>1
    <3>3. t[i][1] = z
      BY <3>2
    <3>4. z - 1 = s /\ s \in h..s /\ z \in h + 1..z
      BY <1>1
    <3>5. e[z] = n + w + 1 /\ e[z - 1] = n /\ l[z] = shape
      BY <1>5, <1>7, <1>8, <3>4
    <3> HIDE DEF z, s
    <3>6. e[z - 1] < i /\ i <= e[z] /\ (i = e[z] <=> r = w + 1) /\ i - e[z - 1] = r
      BY <1>1, <1>2, <3>1, <3>5
    <3> QED BY <3>2, <3>3, <3>4, <3>5, <3>6
  <2> QED BY <2>1, <2>2
<1>14. Framed(t, e, h, l)
  BY <1>5, <1>9, <1>10, <1>11, <1>12, <1>13 DEF Framed
<1>15. e \in [h..Len(l) -> 0..Len(t)]
  BY <1>5, <1>9
<1>16. \E f \in [h..Len(l) -> 0..Len(t)] : Framed(t, f, h, l)
  BY <1>14, <1>15
<1> QED BY <1>3, <1>16 DEF t, l

-----------------------------------------------------------------------------
(* The steps.                                                              *)

\* The bytes kept and those not read yet: what is read of the one is cut off
\* the other.
LEMMA ReadMoves ==
  ASSUME NEW kept \in Seq(Bytes), NEW left \in Seq(Bytes), NEW n \in 1..Len(left)
  PROVE  /\ kept \o left \in Seq(Bytes) /\ Len(kept \o left) = Len(kept) + Len(left)
         /\ kept \o SubSeq(left, 1, n) = SubSeq(kept \o left, 1, Len(kept) + n)
         /\ SubSeq(left, n + 1, Len(left)) \in Seq(Bytes)
         /\ Len(SubSeq(left, n + 1, Len(left))) = Len(left) - n
         /\ \A i \in 1..Len(left) - n :
              SubSeq(left, n + 1, Len(left))[i] = (kept \o left)[Len(kept) + n + i]
<1> DEFINE a == Len(kept)
           b == Len(left)
           t == kept \o left
           d == SubSeq(left, 1, n)
           u == kept \o d
           v == SubSeq(t, 1, a + n)
           r == SubSeq(left, n + 1, b)
<1>1. a \in Nat /\ b \in Nat /\ n \in 1..b
  BY LenProperties
<1>2. \A i \in 1..b : left[i] \in Bytes
  BY ElementOfSeq
<1>3. /\ t \in Seq(Bytes) /\ Len(t) = a + b
      /\ \A i \in 1..a + b : t[i] = IF i <= a THEN kept[i] ELSE left[i - a]
  BY ConcatProperties
<1>4. \A i \in 1..a + b : t[i] \in Bytes
  BY <1>3, ElementOfSeq
<1> HIDE DEF a, b, t
<1>5. /\ d \in Seq(Bytes) /\ Len(d) = n
      /\ \A i \in 1..n : d[i] = left[i]
  <2>1. \A i \in 1..n : left[i] \in Bytes
    BY <1>1, <1>2
  <2>2. /\ d \in Seq(Bytes) /\ Len(d) = IF 1 <= n THEN n - 1 + 1 ELSE 0
        /\ \A i \in 1..n - 1 + 1 : d[i] = left[1 + i - 1]
    BY <1>1, <2>1, SubSeqProperties
  <2> HIDE DEF d
  <2> QED BY <1>1, <2>2
<1>6. /\ v \in Seq(Bytes) /\ Len(v) = a + n
      /\ \A i \in 1..a + n : v[i] = t[i]
  <2>1. \A i \in 1..a + n : t[i] \in Bytes
    BY <1>1, <1>4
  <2>2. /\ v \in Seq(Bytes) /\ Len(v) = IF 1 <= a + n THEN (a + n) - 1 + 1 ELSE 0
        /\ \A i \in 1..(a + n) - 1 + 1 : v[i] = t[1 + i - 1]
    BY <1>1, <2>1, SubSeqProperties
  <2> HIDE DEF v
  <2> QED BY <1>1, <2>2
<1>7. /\ r \in Seq(Bytes) /\ Len(r) = b - n
      /\ \A i \in 1..b - n : r[i] = left[n + i]
  <2>1. \A i \in n + 1..b : left[i] \in Bytes
    BY <1>1, <1>2
  <2>2. /\ r \in Seq(Bytes) /\ Len(r) = IF n + 1 <= b THEN b - (n + 1) + 1 ELSE 0
        /\ \A i \in 1..b - (n + 1) + 1 : r[i] = left[(n + 1) + i - 1]
    BY <1>1, <2>1, SubSeqProperties
  <2>3. \A i \in 1..b - n : (n + 1) + i - 1 = n + i
    BY <1>1
  <2> HIDE DEF r
  <2> QED BY <1>1, <2>2, <2>3
<1> HIDE DEF d
<1>8. /\ u \in Seq(Bytes) /\ Len(u) = a + n
      /\ \A i \in 1..a + n : u[i] = IF i <= a THEN kept[i] ELSE d[i - a]
  BY <1>5, ConcatProperties DEF a
<1> HIDE DEF u, v, r
<1>9. ASSUME NEW i \in 1..a + n PROVE u[i] = v[i]
  <2>1. i \in 1..a + b
    BY <1>1
  <2>2. CASE i <= a
    BY <1>3, <1>6, <1>8, <2>1, <2>2
  <2>3. CASE ~(i <= a)
    <3>1. i - a \in 1..n
      BY <1>1, <2>3
    <3> QED BY <1>3, <1>5, <1>6, <1>8, <2>1, <2>3, <3>1
  <2> QED BY <2>2, <2>3
<1>10. u = v
  BY <1>6, <1>8, <1>9, SeqEqual
<1>11. ASSUME NEW i \in 1..b - n PROVE r[i] = t[a + n + i]
  <2>1. /\ a + n + i \in 1..a + b /\ ~(a + n + i <= a)
        /\ (a + n + i) - a = n + i
    BY <1>1
  <2> QED BY <1>3, <1>7, <2>1
<1> QED BY <1>3, <1>7, <1>10, <1>11 DEF a, b, d, r, t, u, v

\* A read hands over whole lines, the next ones.
LEMMA ReadKeepsFrames ==
  ASSUME FrameInv, ReaderReads
  PROVE  FrameInv'
<1> DEFINE text == buffer \o wire
           h == Len(heard)
           s == Len(sent)
<1>1. PICK n \in 1..Len(wire) :
        /\ wire' = SubSeq(wire, n + 1, Len(wire))
        /\ heard' = heard \o Lines(buffer \o SubSeq(wire, 1, n))
        /\ buffer' = Rest(buffer \o SubSeq(wire, 1, n))
  BY DEF ReaderReads
<1>2. /\ buffer \in Seq(Bytes) /\ heard \in Seq(Seq(Bytes))
      /\ sent \in Seq(LineShapes) /\ wire \in Seq(Bytes)
  <2>1. {b \in Bytes : b[2] # "n"} \subseteq Bytes
    OBVIOUS
  <2>2. buffer \in Seq({b \in Bytes : b[2] # "n"})
    BY DEF FrameInv, TypeOK
  <2> HIDE DEF text
  <2>3. buffer \in Seq(Bytes)
    BY <2>1, <2>2, SeqMonotonic
  <2> QED BY <2>3 DEF FrameInv, TypeOK
<1>3. reader = "read" /\ reader' = LoopTest /\ UNCHANGED <<state, startPc, sent>>
  BY DEF ReaderReads, coVars
<1>4. PICK ends : Framed(text, ends, h, sent)
  BY <1>3 DEF FrameInv
<1>5. /\ h \in Nat /\ s \in Nat /\ h <= s /\ s <= MaxLines
      /\ \A k \in 1..h : heard[k] = Text(k, sent[k])
  BY <1>2, LenProperties DEF FrameInv, FramesAreLines
<1> DEFINE c == Len(buffer) + n
           p == SubSeq(text, 1, c)
<1>6. /\ text \in Seq(Bytes) /\ Len(text) = Len(buffer) + Len(wire)
      /\ buffer \o SubSeq(wire, 1, n) = p
      /\ wire' \in Seq(Bytes) /\ Len(wire') = Len(wire) - n
      /\ \A i \in 1..Len(wire) - n : wire'[i] = text[c + i]
  BY <1>1, <1>2, ReadMoves
<1>7. /\ Len(buffer) \in Nat /\ Len(wire) \in Nat /\ Len(text) \in Nat
      /\ c \in Nat /\ c <= Len(text) /\ Len(wire) - n = Len(text) - c
  <2>1. Len(buffer) \in Nat /\ Len(wire) \in Nat
    BY <1>2, LenProperties
  <2> HIDE DEF text
  <2> QED BY <1>6, <2>1
<1> HIDE DEF text, c, h, s
<1>8. PICK m \in h..s : CutAfter(m, text, c, ends, h, sent)
  <2>1. c \in 0..Len(text)
    BY <1>7
  <2>2. /\ text \in Seq(Bytes) /\ h \in Nat /\ sent \in Seq(LineShapes)
        /\ h <= Len(sent) /\ Len(sent) <= MaxLines /\ Framed(text, ends, h, sent)
    BY <1>2, <1>4, <1>5, <1>6 DEF s
  <2> QED BY <2>1, <2>2, ReadCuts DEF s
<1>8a. /\ ends[m] <= c /\ Lines(p) = LinesFrom(h, m, sent)
       /\ Rest(p) = SubSeq(p, ends[m] + 1, c)
       /\ \A i \in ends[m] + 1..c : p[i][2] # "n"
  BY <1>8 DEF CutAfter
<1>9. /\ m \in Nat /\ h <= m /\ m <= s /\ m - h \in Nat
      /\ ends[m] \in Nat /\ ends[m] <= c /\ ends[m] <= Len(text)
  <2>1. m \in Nat /\ h <= m /\ m <= s /\ m - h \in Nat
    BY <1>5, <1>8
  <2>2. ends[m] \in Nat /\ ends[m] <= Len(text)
    BY <1>4, <1>5, <1>7, <1>8, <1>8a, EndsType DEF s
  <2> QED BY <1>8a, <2>1, <2>2
<1>10. /\ Lines(p) \in Seq(Seq(Bytes)) /\ Len(Lines(p)) = m - h
       /\ \A k \in 1..m - h : Lines(p)[k] = Text(h + k, sent[h + k])
  <2>1. ASSUME NEW k \in 1..m - h PROVE Text(h + k, sent[h + k]) \in Seq(Bytes)
    <3>1. h + k \in 1..s /\ h + k \in 1..MaxLines
      BY <1>5, <1>9, LinesAssumption
    <3>2. sent[h + k] \in LineShapes
      BY <1>2, <3>1, ElementOfSeq DEF s
    <3> QED BY <3>1, <3>2, TextType
  <2>2. Lines(p) \in [1..m - h -> Seq(Bytes)]
    BY <1>8a, <2>1 DEF LinesFrom
  <2>3. Lines(p) \in Seq(Seq(Bytes)) /\ Len(Lines(p)) = m - h
    BY <1>9, <2>2
  <2> QED BY <1>8a, <2>3 DEF LinesFrom
<1>11. /\ heard' \in Seq(Seq(Bytes)) /\ Len(heard') = m
       /\ \A k \in 1..m : heard'[k] = Text(k, sent[k])
  <2>1. heard' = heard \o Lines(p)
    BY <1>1, <1>6
  <2> HIDE DEF p
  <2>2. /\ heard \o Lines(p) \in Seq(Seq(Bytes))
        /\ Len(heard \o Lines(p)) = h + (m - h)
        /\ \A k \in 1..h + (m - h) :
             (heard \o Lines(p))[k] = IF k <= h THEN heard[k] ELSE Lines(p)[k - h]
    BY <1>2, <1>10, ConcatProperties DEF h
  <2>3. h + (m - h) = m
    BY <1>5, <1>9
  <2>4. ASSUME NEW k \in 1..m PROVE heard'[k] = Text(k, sent[k])
    <3>1. CASE k <= h
      <4>1. k \in 1..h
        BY <3>1
      <4> QED BY <1>5, <2>1, <2>2, <2>3, <3>1, <4>1
    <3>2. CASE ~(k <= h)
      <4>1. k - h \in 1..m - h /\ h + (k - h) = k
        BY <1>5, <1>9, <3>2
      <4> QED BY <1>10, <2>1, <2>2, <2>3, <3>2, <4>1
    <3> QED BY <3>1, <3>2
  <2> QED BY <2>1, <2>2, <2>3, <2>4
<1>12. /\ p \in Seq(Bytes) /\ \A i \in 1..c : p[i] = text[i] /\ p[i] \in Bytes
  <2>1. \A i \in 1..c : text[i] \in Bytes
    <3>1. \A i \in 1..c : i \in 1..Len(text)
      BY <1>7
    <3> QED BY <1>6, <3>1, ElementOfSeq
  <2>2. /\ p \in Seq(Bytes)
        /\ \A i \in 1..c - 1 + 1 : p[i] = text[1 + i - 1]
    BY <1>7, <2>1, SubSeqProperties
  <2> HIDE DEF p
  <2> QED BY <1>7, <2>1, <2>2
<1> HIDE DEF p
<1>13. /\ buffer' \in Seq({b \in Bytes : b[2] # "n"})
       /\ Len(buffer') = c - ends[m]
       /\ \A i \in 1..c - ends[m] : buffer'[i] = text[ends[m] + i]
  <2> DEFINE N == {b \in Bytes : b[2] # "n"}
             a == ends[m]
  <2>1. buffer' = SubSeq(p, a + 1, c)
    BY <1>1, <1>6, <1>8a
  <2>2. \A i \in a + 1..c : p[i] \in N
    <3>1. \A i \in a + 1..c : i \in 1..c
      BY <1>7, <1>9
    <3> QED BY <1>8a, <1>12, <3>1
  <2> HIDE DEF N
  <2>3. a \in Nat /\ a <= c
    BY <1>9
  <2> HIDE DEF a
  <2>4. /\ SubSeq(p, a + 1, c) \in Seq(N)
        /\ Len(SubSeq(p, a + 1, c)) = IF a + 1 <= c THEN c - (a + 1) + 1 ELSE 0
        /\ \A i \in 1..c - (a + 1) + 1 : SubSeq(p, a + 1, c)[i] = p[(a + 1) + i - 1]
    BY <1>7, <2>2, <2>3, SubSeqProperties
  <2>5. \A i \in 1..c - a : /\ i \in 1..c - (a + 1) + 1 /\ (a + 1) + i - 1 = a + i
                            /\ a + i \in 1..c
    BY <1>7, <2>3
  <2>6. \A i \in 1..c - a : buffer'[i] = text[a + i]
    BY <1>12, <2>1, <2>4, <2>5
  <2>7. Len(buffer') = c - a
    BY <1>7, <2>1, <2>3, <2>4
  <2> QED BY <2>1, <2>4, <2>6, <2>7 DEF N, a
<1>14. buffer' \in Seq(Bytes)
  <2>1. {b \in Bytes : b[2] # "n"} \subseteq Bytes
    OBVIOUS
  <2> QED BY <1>13, <2>1, SeqMonotonic
<1> DEFINE rest == buffer' \o wire'
<1>15. /\ Len(rest) \in Nat /\ Len(rest) = Len(text) - ends[m]
       /\ \A i \in 1..Len(rest) : rest[i] = text[ends[m] + i]
  <2> DEFINE a == ends[m]
             l == Len(text)
  <2>1. /\ Len(rest) = (c - a) + (l - c)
        /\ \A i \in 1..(c - a) + (l - c) :
             rest[i] = IF i <= c - a THEN buffer'[i] ELSE wire'[i - (c - a)]
    <3>1. Len(buffer') = c - a /\ Len(wire') = l - c
      BY <1>6, <1>7, <1>13
    <3>2. /\ Len(rest) = Len(buffer') + Len(wire')
          /\ \A i \in 1..Len(buffer') + Len(wire') :
               rest[i] = IF i <= Len(buffer') THEN buffer'[i] ELSE wire'[i - Len(buffer')]
      <4>1. buffer' \in Seq(Bytes) /\ wire' \in Seq(Bytes)
        BY <1>6, <1>14
      <4> QED BY <4>1, ConcatProperties
    <3> HIDE DEF rest, a, l
    <3> QED BY <3>1, <3>2
  <2>2. a \in Nat /\ a <= c /\ l \in Nat /\ c \in Nat /\ c <= l
    BY <1>7, <1>9
  <2>3. \A i \in 1..c - a : buffer'[i] = text[a + i]
    BY <1>13
  <2>4. \A i \in 1..l - c : wire'[i] = text[c + i]
    BY <1>6, <1>7
  <2> HIDE DEF rest, a, l
  <2>5. Len(rest) = l - a /\ Len(rest) \in Nat
    BY <2>1, <2>2
  <2>6. ASSUME NEW i \in 1..Len(rest) PROVE rest[i] = text[a + i]
    <3>1. i \in 1..(c - a) + (l - c)
      BY <2>1
    <3>2. CASE i <= c - a
      <4>1. i \in 1..c - a
        BY <2>2, <3>2
      <4> QED BY <2>1, <2>3, <3>1, <3>2, <4>1
    <3>3. CASE ~(i <= c - a)
      <4>1. i - (c - a) \in 1..l - c /\ c + (i - (c - a)) = a + i
        BY <2>1, <2>2, <3>3
      <4> QED BY <2>1, <2>4, <3>1, <3>3, <4>1
    <3> QED BY <3>2, <3>3
  <2> QED BY <2>5, <2>6 DEF a, l
<1>16. \E f \in [m..s -> 0..Len(rest)] : Framed(rest, f, m, sent)
  <2> HIDE DEF rest
  <2>1. /\ h \in Nat /\ sent \in Seq(LineShapes) /\ Len(text) \in Nat
        /\ Framed(text, ends, h, sent) /\ m \in h..Len(sent)
    BY <1>2, <1>4, <1>5, <1>7, <1>8 DEF s
  <2> QED BY <1>15, <2>1, FramedRest DEF s
<1>17. \E f \in [Len(heard')..Len(sent') -> 0..Len(buffer' \o wire')] :
         Framed(buffer' \o wire', f, Len(heard'), sent')
  BY <1>3, <1>11, <1>16 DEF s
<1>18. FramesAreLines'
  BY <1>3, <1>5, <1>9, <1>11 DEF FramesAreLines, s
<1>19. TypeOK'
  <2>1. UNCHANGED <<known, conn, refused, stopPc, run, container, link>>
    BY DEF ReaderReads, coVars, engineVars
  <2>2. reader' \in {"none", "begin", "read", "over", "failed"}
    BY <1>3 DEF LoopTest
  <2> QED BY <1>3, <1>6, <1>11, <1>13, <2>1, <2>2 DEF FrameInv, TypeOK
<1>20. /\ Len(sent') <= MaxLines
       /\ state' = "CREATED" => startPc' = "none"
       /\ startPc' \in {"none", "creating", "connecting"} => reader' = "none"
  BY <1>3 DEF FrameInv
<1> QED BY <1>17, <1>18, <1>19, <1>20 DEF FrameInv

\* The bus writes a line at the end.
LEMMA WriteKeepsFrames ==
  ASSUME FrameInv, BusWrites
  PROVE  FrameInv'
<1> DEFINE s == Len(sent)
<1>1. PICK shape \in LineShapes :
        /\ sent' = Append(sent, shape)
        /\ wire' = wire \o Text(s + 1, shape) \o <<<<s + 1, "n">>>>
  BY DEF BusWrites
<1>2. UNCHANGED <<state, known, conn, startPc, stopPc, reader, buffer, heard, run, container, link, refused>>
  BY DEF BusWrites, coVars, readVars, engineVars
<1>3. /\ buffer \in Seq(Bytes) /\ heard \in Seq(Seq(Bytes))
      /\ sent \in Seq(LineShapes) /\ wire \in Seq(Bytes)
  <2>1. {b \in Bytes : b[2] # "n"} \subseteq Bytes
    OBVIOUS
  <2>2. buffer \in Seq({b \in Bytes : b[2] # "n"})
    BY DEF FrameInv, TypeOK
  <2>3. buffer \in Seq(Bytes)
    BY <2>1, <2>2, SeqMonotonic
  <2> QED BY <2>3 DEF FrameInv, TypeOK
<1>4. /\ Len(heard) \in Nat /\ s \in Nat /\ Len(heard) <= s /\ s < MaxLines
      /\ \A k \in 1..Len(heard) : heard[k] = Text(k, sent[k])
  BY <1>3, LenProperties DEF FrameInv, FramesAreLines, BusWrites
<1> DEFINE x == Text(s + 1, shape)
           f == <<<<s + 1, "n">>>>
           more == x \o f
<1>5. x \in Seq(Bytes) /\ f \in Seq(Bytes) /\ more \in Seq(Bytes)
  <2>1. s + 1 \in 1..MaxLines
    BY <1>4, LinesAssumption
  <2>2. x \in Seq(Bytes)
    BY <2>1, TextType
  <2>3. <<s + 1, "n">> \in Bytes
    BY <2>1 DEF Bytes
  <2>4. f \in Seq(Bytes)
    BY <2>3
  <2> HIDE DEF x, f
  <2> QED BY <2>2, <2>4, ConcatProperties
<1>6. wire' = wire \o more /\ wire' \in Seq(Bytes)
  <2> HIDE DEF x, f
  <2>1. wire' = (wire \o x) \o f
    BY <1>1 DEF x, f
  <2>2. wire \in Seq(Bytes) /\ x \in Seq(Bytes) /\ f \in Seq(Bytes) /\ x \o f \in Seq(Bytes)
    BY <1>3, <1>5
  <2>3. (wire \o x) \o f = wire \o (x \o f)
    BY <2>2, ConcatAssociative
  <2>4. wire \o (x \o f) \in Seq(Bytes)
    BY <2>2, ConcatProperties
  <2> QED BY <2>1, <2>3, <2>4
<1>7. buffer \o wire' = (buffer \o wire) \o more
  <2> HIDE DEF more
  <2>1. ASSUME NEW r \in Seq(Bytes), NEW t \in Seq(Bytes), NEW u \in Seq(Bytes)
        PROVE  r \o (t \o u) = (r \o t) \o u
    BY ConcatAssociative
  <2>2. buffer \o (wire \o more) = (buffer \o wire) \o more
    BY <1>3, <1>5, <2>1
  <2> QED BY <1>6, <2>2
<1>8. /\ sent' \in Seq(LineShapes) /\ Len(sent') = s + 1
      /\ \A k \in 1..s : sent'[k] = sent[k]
  BY <1>1, <1>3, AppendProperties
<1>9. ASSUME reader # "failed"
      PROVE  \E e \in [Len(heard)..Len(sent') -> 0..Len(buffer \o wire')] :
               Framed(buffer \o wire', e, Len(heard), sent')
  <2>1. PICK ends : Framed(buffer \o wire, ends, Len(heard), sent)
    BY <1>9 DEF FrameInv
  <2>2. buffer \o wire \in Seq(Bytes)
    BY <1>3, ConcatProperties
  <2>3. more = Text(Len(sent) + 1, shape) \o <<<<Len(sent) + 1, "n">>>>
    OBVIOUS
  <2> HIDE DEF more
  <2>4. \E e \in [Len(heard)..Len(Append(sent, shape)) -> 0..Len((buffer \o wire) \o more)] :
          Framed((buffer \o wire) \o more, e, Len(heard), Append(sent, shape))
    BY <1>3, <1>4, <2>1, <2>2, <2>3, FramedMore
  <2> QED BY <1>1, <1>7, <2>4
<1>10. FramesAreLines'
  <2>1. Len(heard) <= s + 1
    BY <1>4
  <2>2. \A k \in 1..Len(heard) : k \in 1..s
    BY <1>4
  <2> QED BY <1>2, <1>4, <1>8, <2>1, <2>2 DEF FramesAreLines
<1>11. TypeOK'
  BY <1>2, <1>6, <1>8 DEF FrameInv, TypeOK
<1>12. Len(sent') <= MaxLines
  BY <1>4, <1>8, LinesAssumption
<1>13. /\ state' = "CREATED" => startPc' = "none"
       /\ startPc' \in {"none", "creating", "connecting"} => reader' = "none"
  BY <1>2 DEF FrameInv
<1>14. reader' # "failed" =>
         \E e \in [Len(heard')..Len(sent') -> 0..Len(buffer' \o wire')] :
           Framed(buffer' \o wire', e, Len(heard'), sent')
  BY <1>2, <1>9
<1> QED BY <1>10, <1>11, <1>12, <1>13, <1>14 DEF FrameInv

\* The steps that leave the bytes alone.
LEMMA OthersKeepFrames ==
  ASSUME FrameInv, UNCHANGED <<buffer, heard, sent, wire>>, TypeOK',
         state' = "CREATED" => startPc' = "none",
         startPc' \in {"none", "creating", "connecting"} => reader' = "none",
         reader' # "failed" => reader # "failed"
  PROVE  FrameInv'
<1>1. FramesAreLines' /\ Len(sent') <= MaxLines
  BY DEF FrameInv, FramesAreLines
<1>2. reader' # "failed" =>
         \E e \in [Len(heard')..Len(sent') -> 0..Len(buffer' \o wire')] :
           Framed(buffer' \o wire', e, Len(heard'), sent')
  BY DEF FrameInv
<1> QED BY <1>1, <1>2 DEF FrameInv

LEMMA FrameStep == FrameInv /\ [Next]_vars => FrameInv'
<1> SUFFICES ASSUME FrameInv, [Next]_vars PROVE FrameInv'
  OBVIOUS
<1>0. /\ TypeOK
      /\ state = "CREATED" => startPc = "none"
      /\ startPc \in {"none", "creating", "connecting"} => reader = "none"
  BY DEF FrameInv
<1>1. CASE Start \/ CancelStart \/ StartCreated \/ StartConnected \/ StartGivesUp
  <2>1. /\ UNCHANGED <<buffer, heard, sent, wire>> /\ TypeOK'
        /\ state' = "CREATED" => startPc' = "none"
        /\ startPc' \in {"none", "creating", "connecting"} => reader' = "none"
        /\ reader' # "failed" => reader # "failed"
    BY <1>0, <1>1 DEF TypeOK, Start, CancelStart, StartCreated, StartConnected, StartGivesUp,
                      readVars, engineVars, busVars
  <2> QED BY <2>1, OthersKeepFrames
<1>2. CASE ReaderBegins \/ ReaderMeetsEnd \/ ReaderCancelled
  <2>1. /\ UNCHANGED <<buffer, heard, sent, wire>> /\ TypeOK'
        /\ state' = "CREATED" => startPc' = "none"
        /\ startPc' \in {"none", "creating", "connecting"} => reader' = "none"
        /\ reader' # "failed" => reader # "failed"
    BY <1>0, <1>2 DEF TypeOK, ReaderBegins, ReaderMeetsEnd, ReaderCancelled, LoopTest,
                      coVars, engineVars, busVars
  <2> QED BY <2>1, OthersKeepFrames
<1>3. CASE ReaderReads
  BY <1>3, ReadKeepsFrames
<1>4. CASE ReaderFails
  <2>1. /\ UNCHANGED <<state, known, conn, coVars, buffer, heard, engineVars, sent>>
        /\ reader = "read" /\ reader' = "failed"
    BY <1>4 DEF ReaderFails
  <2>2. PICK n \in 1..Len(wire) : wire' = SubSeq(wire, n + 1, Len(wire))
    BY <1>4 DEF ReaderFails
  <2>3. wire \in Seq(Bytes)
    BY <1>0 DEF TypeOK
  <2>4. wire' \in Seq(Bytes)
    <3>1. Len(wire) \in Nat /\ n + 1 \in Int
      BY <2>3, LenProperties
    <3>2. \A i \in n + 1..Len(wire) : wire[i] \in Bytes
      <4>1. \A i \in n + 1..Len(wire) : i \in 1..Len(wire)
        BY <3>1
      <4> QED BY <2>3, <4>1, ElementOfSeq
    <3> QED BY <2>2, <3>1, <3>2, SubSeqProperties
  <2>5. TypeOK'
    BY <1>0, <2>1, <2>4 DEF TypeOK, coVars, engineVars
  <2>6. FramesAreLines' /\ Len(sent') <= MaxLines
    BY <2>1 DEF FrameInv, FramesAreLines
  <2> QED BY <1>0, <2>1, <2>5, <2>6 DEF FrameInv, coVars
<1>5. CASE Stop \/ CancelStop
  <2>1. /\ UNCHANGED <<buffer, heard, sent, wire>> /\ TypeOK'
        /\ state' = "CREATED" => startPc' = "none"
        /\ startPc' \in {"none", "creating", "connecting"} => reader' = "none"
        /\ reader' # "failed" => reader # "failed"
    BY <1>0, <1>5 DEF TypeOK, Stop, CancelStop, coVars, readVars,
                      engineVars, busVars
  <2> QED BY <2>1, OthersKeepFrames
<1>9. CASE StopReads
  <2>1. /\ UNCHANGED <<buffer, heard, sent, wire>> /\ TypeOK'
        /\ state' = "CREATED" => startPc' = "none"
        /\ startPc' \in {"none", "creating", "connecting"} => reader' = "none"
        /\ reader' # "failed" => reader # "failed"
    BY <1>0, <1>9 DEF TypeOK, StopReads, ToConnection, ToContainer, coVars, readVars,
                      engineVars, busVars
  <2> QED BY <2>1, OthersKeepFrames
<1>11. CASE StopCloses
  <2>1. /\ UNCHANGED <<known, startPc, reader, buffer, heard, run, container, link, refused, sent, wire>>
        /\ conn' = FALSE
    BY <1>11 DEF StopCloses, readVars, engineVars, busVars
  <2>2. state' \in {state, "STOPPED"} /\ stopPc' \in {"stopping", "over"}
    BY <1>11 DEF StopCloses, ToContainer
  <2>3. TypeOK'
    <3>1. state' \in {"CREATED", "STARTING", "RUNNING", "STOPPING", "STOPPED"}
      BY <1>0, <2>2 DEF TypeOK
    <3>2. {known', conn', refused'} \subseteq BOOLEAN
      BY <1>0, <2>1 DEF TypeOK
    <3>3. stopPc' \in {"none", "reading", "closing", "stopping", "over", "cancelled"}
      BY <2>2
    <3> QED BY <1>0, <2>1, <3>1, <3>2, <3>3 DEF TypeOK
  <2> QED BY <1>0, <2>1, <2>2, <2>3, OthersKeepFrames
<1>10. CASE StopEnds \/ Destroy
  <2>1. /\ UNCHANGED <<buffer, heard, sent, wire>> /\ TypeOK'
        /\ state' = "CREATED" => startPc' = "none"
        /\ startPc' \in {"none", "creating", "connecting"} => reader' = "none"
        /\ reader' # "failed" => reader # "failed"
    BY <1>0, <1>10 DEF TypeOK, StopEnds, Destroy, EngineEnds, coVars, readVars,
                      engineVars, busVars
  <2> QED BY <2>1, OthersKeepFrames
<1>6. CASE EngineRuns \/ LinkMade \/ LinkLost \/ ContainerExits
  <2>1. /\ UNCHANGED <<buffer, heard, sent, wire>> /\ TypeOK'
        /\ state' = "CREATED" => startPc' = "none"
        /\ startPc' \in {"none", "creating", "connecting"} => reader' = "none"
        /\ reader' # "failed" => reader # "failed"
    BY <1>0, <1>6 DEF TypeOK, EngineRuns, LinkMade, LinkLost, ContainerExits, coVars, readVars, busVars
  <2> QED BY <2>1, OthersKeepFrames
<1>7. CASE BusWrites
  BY <1>7, WriteKeepsFrames
<1>8. CASE UNCHANGED vars
  <2>1. /\ UNCHANGED <<buffer, heard, sent, wire>> /\ TypeOK'
        /\ state' = "CREATED" => startPc' = "none"
        /\ startPc' \in {"none", "creating", "connecting"} => reader' = "none"
        /\ reader' # "failed" => reader # "failed"
    BY <1>0, <1>8 DEF TypeOK, vars, coVars, readVars, engineVars, busVars
  <2> QED BY <2>1, OthersKeepFrames
<1> QED BY <1>1, <1>2, <1>3, <1>4, <1>5, <1>6, <1>7, <1>8, <1>9, <1>10,
           <1>11 DEF Next

\* Nothing is kept, written or heard at first.
LEMMA FrameInit == Init => FrameInv
<1> SUFFICES ASSUME Init PROVE FrameInv
  OBVIOUS
<1>1. /\ buffer = <<>> /\ wire = <<>> /\ heard = <<>> /\ sent = <<>>
      /\ reader = "none" /\ startPc = "none"
  BY DEF Init
<1>2. TypeOK
  <2>1. /\ buffer \in Seq({b \in Bytes : b[2] # "n"}) /\ heard \in Seq(Seq(Bytes))
        /\ sent \in Seq(LineShapes) /\ wire \in Seq(Bytes)
    BY <1>1, EmptySeq
  <2> QED BY <2>1 DEF Init, TypeOK
<1>3. FramesAreLines /\ Len(sent) <= MaxLines
  BY <1>1, LinesAssumption DEF FramesAreLines
<1>4. \E e \in [0..0 -> 0..0] : Framed(<<>>, e, 0, <<>>)
  <2> DEFINE e == [k \in 0..0 |-> 0]
  <2>1. e \in [0..0 -> 0..0] /\ e[0] = 0
    OBVIOUS
  <2>2. \A k \in 0 + 1..0 : FALSE
    OBVIOUS
  <2>3. \A j, k \in 0..0 : ~(j < k)
    OBVIOUS
  <2> HIDE DEF e
  <2>4. Framed(<<>>, e, 0, <<>>)
    BY <2>1, <2>2, <2>3 DEF Framed
  <2> QED BY <2>1, <2>4
<1>5. \E e \in [Len(heard)..Len(sent) -> 0..Len(buffer \o wire)] :
        Framed(buffer \o wire, e, Len(heard), sent)
  <2>1. buffer \o wire = <<>> /\ Len(heard) = 0 /\ Len(sent) = 0 /\ Len(buffer \o wire) = 0
    BY <1>1
  <2> QED BY <1>1, <1>4, <2>1
<1> QED BY <1>1, <1>2, <1>3, <1>5 DEF FrameInv

LEMMA FrameAlways == Spec => []FrameInv
<1> QED BY FrameInit, FrameStep, PTL DEF Spec

\* Type correctness of the Docker backend for any number of lines of any
\* shapes: the buffer never holds a complete line.
THEOREM DockerTypeCorrect == Spec => []TypeOK
<1>1. FrameInv => TypeOK
  BY DEF FrameInv
<1> QED BY <1>1, FrameAlways, PTL

\* The lines handed over are those the bus wrote, whole, in order and once,
\* for any number of lines and wherever the reads cut them.
THEOREM FramesAreWhole == Spec => []FramesAreLines
<1>1. FrameInv => FramesAreLines
  BY DEF FrameInv
<1> QED BY <1>1, FrameAlways, PTL

=============================================================================
