----------------------------- MODULE Pipes_proofs -----------------------------
(* Theorems about module Pipes and their proofs. *)
EXTENDS Pipes, TLAPS

\* The assumptions on the constants, one by one.
LEMMA Params ==
  /\ CfgCap \in Nat /\ InCap \in Nat /\ OutCap \in Nat /\ ErrCap \in Nat
  /\ CfgCap > 0 /\ InCap > 0 /\ OutCap > 0 /\ ErrCap > 0
  /\ ConfigUnits \in Nat /\ RequestUnits \in Nat /\ ConfigUnits > 0 /\ RequestUnits > 0
  /\ ReplyLines \in Nat /\ LogLines \in Nat /\ StartLogs \in Nat /\ MaxSends \in Nat
  BY CapsAssumption, SizesAssumption

USE Params

Held(r) == IF r = "holding" THEN 1 ELSE 0

\* Nothing is read that was not sent: the units on their way belong to requests
\* the process has not read to the end, and the lines it owes, wrote or had read
\* to requests it has, or to its start.
Counts ==
  /\ inp + part + (IF write = "request" THEN left ELSE 0) <= RequestUnits * unread
  /\ owed + out + Held(reader) + heard + ReplyLines * unread <= ReplyLines * sends
  /\ owedLogs + err + Held(errReader) + logged + LogLines * unread <= StartLogs + LogLines * sends

\* Before start() there is nothing to count.
Fresh ==
  state = "CREATED" =>
    /\ proc = "none" /\ write = "none"
    /\ inp = 0 /\ part = 0 /\ out = 0 /\ err = 0 /\ owed = 0 /\ owedLogs = 0
    /\ unread = 0 /\ sends = 0 /\ heard = 0 /\ logged = 0
    /\ reader = "none" /\ errReader = "none"

PipesInv == TypeOK /\ Counts /\ Fresh

-----------------------------------------------------------------------------
(* Arithmetic: a request more or less.                                     *)

LEMMA OneMore == \A a, b \in Nat : a * (b + 1) = a * b + a
  OBVIOUS

LEMMA OneLess == \A a, b \in Nat : a * (b - 1) = a * b - a
  OBVIOUS

LEMMA NoProduct == \A a \in Nat : a * 0 = 0
  OBVIOUS

LEMMA Product == \A a, b \in Nat : a * b \in Nat
  OBVIOUS

-----------------------------------------------------------------------------
LEMMA LoopKeeps ==
  ASSUME PipesInv, Start \/ StartReturns \/ RequestReturns \/ Interrupt \/ Stop
  PROVE  PipesInv'
<1> USE DEF PipesInv, TypeOK, Counts, Fresh, Held, ReaderStates, LoopRuns, Begins, Returns,
            pyVars, writeVars, readVars, procVars, countVars
<1>1. CASE Start
  <2>1. TypeOK'
    BY <1>1 DEF Start
  <2>2. Counts'
    <3>1. unread' = 0 /\ sends' = 0
      BY <1>1 DEF Start
    <3>2. /\ inp' = 0 /\ part' = 0 /\ out' = 0 /\ err' = 0 /\ owed' = 0 /\ owedLogs' \in 0..StartLogs
          /\ heard' = 0 /\ logged' = 0
          /\ reader' = "none" /\ errReader' = "none" /\ write' = "config"
      BY <1>1 DEF Start
    <3>3. /\ RequestUnits * unread' = 0
          /\ ReplyLines * unread' = 0 /\ ReplyLines * sends' = 0
          /\ LogLines * unread' = 0 /\ LogLines * sends' = 0
      BY <3>1, NoProduct
    <3> QED BY <3>2, <3>3
  <2>3. Fresh'
    BY <1>1 DEF Start
  <2> QED BY <2>1, <2>2, <2>3
<1>2. CASE StartReturns
  <2>1. TypeOK'
    BY <1>2 DEF StartReturns
  <2>2. Counts' /\ Fresh'
    BY <1>2, Product DEF StartReturns
  <2> QED BY <2>1, <2>2
<1>3. CASE RequestReturns \/ Interrupt
  BY <1>3, Product DEF RequestReturns, Interrupt
<1>4. CASE Stop
  BY <1>4, Product DEF Stop
<1> QED BY <1>1, <1>2, <1>3, <1>4

LEMMA SendKeeps == PipesInv /\ Send => PipesInv'
<1> SUFFICES ASSUME PipesInv, Send PROVE PipesInv'
  OBVIOUS
<1> USE DEF PipesInv, Begins, pyVars, writeVars, readVars, procVars, countVars
<1>1. TypeOK'
  BY DEF TypeOK, Send, ReaderStates
<1>2. unread \in Nat /\ sends \in Nat
  BY DEF TypeOK
<1>3. /\ RequestUnits * (unread + 1) = RequestUnits * unread + RequestUnits
      /\ ReplyLines * (unread + 1) = ReplyLines * unread + ReplyLines
      /\ LogLines * (unread + 1) = LogLines * unread + LogLines
      /\ ReplyLines * (sends + 1) = ReplyLines * sends + ReplyLines
      /\ LogLines * (sends + 1) = LogLines * sends + LogLines
  BY <1>2, OneMore
<1>4. Counts'
  BY <1>3, Product DEF Send, Counts, TypeOK, Held
<1>5. Fresh'
  BY DEF Send, Fresh
<1> QED BY <1>1, <1>4, <1>5

LEMMA WriteKeeps == PipesInv /\ WriteGoesOn => PipesInv'
<1> SUFFICES ASSUME PipesInv, WriteGoesOn PROVE PipesInv'
  OBVIOUS
<1> USE DEF PipesInv, TypeOK, Counts, Fresh, Held, ReaderStates, WriteGoesOn,
            pyVars, writeVars, readVars, procVars, countVars
<1>1. CASE WritesMessage
  BY <1>1, Product DEF WritesMessage
<1>2. CASE WritesConfig
  <2>1. TypeOK'
    <3>1. CASE left = 1
      BY <1>2, <3>1 DEF WritesConfig
    <3>2. CASE left # 1
      BY <1>2, <3>2 DEF WritesConfig
    <3> QED BY <3>1, <3>2
  <2>2. Counts'
    BY <1>2, Product DEF WritesConfig
  <2>3. Fresh'
    BY <1>2 DEF WritesConfig
  <2> QED BY <2>1, <2>2, <2>3
<1>3. CASE WriteBreaks
  <2>1. TypeOK'
    <3>1. CASE write = "config"
      BY <1>3, <3>1 DEF WriteBreaks
    <3>2. CASE write = "request"
      BY <1>3, <3>2 DEF WriteBreaks
    <3> QED BY <1>3, <3>1, <3>2 DEF WriteBreaks
  <2>2. Counts'
    BY <1>3, Product DEF WriteBreaks
  <2>3. Fresh'
    BY <1>3 DEF WriteBreaks
  <2> QED BY <2>1, <2>2, <2>3
<1> QED BY <1>1, <1>2, <1>3

LEMMA StopKeeps == PipesInv /\ (StopResumes \/ DrainTimesOut \/ TermTimesOut) => PipesInv'
<1> SUFFICES ASSUME PipesInv, StopResumes \/ DrainTimesOut \/ TermTimesOut PROVE PipesInv'
  OBVIOUS
<1> USE DEF PipesInv, TypeOK, Counts, Fresh, Held, ReaderStates, LoopRuns, Returns, StopEnds,
            pyVars, writeVars, readVars, procVars, countVars
<1>1. CASE StopResumes
  BY <1>1, Product DEF StopResumes
<1>2. CASE DrainTimesOut
  BY <1>2, Product DEF DrainTimesOut
<1>3. CASE TermTimesOut
  BY <1>3, Product DEF TermTimesOut
<1> QED BY <1>1, <1>2, <1>3

LEMMA DestroyKeeps == PipesInv /\ (Destroy \/ DestroyReturns) => PipesInv'
<1> SUFFICES ASSUME PipesInv, Destroy \/ DestroyReturns PROVE PipesInv'
  OBVIOUS
<1> USE DEF PipesInv, TypeOK, Counts, Fresh, Held, ReaderStates,
            pyVars, writeVars, readVars, procVars, countVars
<1>1. CASE Destroy
  BY <1>1, Product DEF Destroy
<1>2. CASE DestroyReturns
  BY <1>2, Product DEF DestroyReturns
<1> QED BY <1>1, <1>2

LEMMA BeginKeeps == PipesInv /\ (ReaderBegins \/ ErrReaderBegins) => PipesInv'
<1> SUFFICES ASSUME PipesInv, ReaderBegins \/ ErrReaderBegins PROVE PipesInv'
  OBVIOUS
<1> USE DEF PipesInv, TypeOK, Counts, Fresh, Held, ReaderStates, LoopRuns, Returns,
            pyVars, writeVars, readVars, procVars, countVars
<1>1. CASE ReaderBegins
  BY <1>1, Product DEF ReaderBegins
<1>2. CASE ErrReaderBegins
  BY <1>2, Product DEF ErrReaderBegins, ErrReadsOn
<1> QED BY <1>1, <1>2

LEMMA ReadKeeps == PipesInv /\ (ThreadReads \/ ReaderResumes \/ ErrReaderResumes) => PipesInv'
<1> SUFFICES ASSUME PipesInv, ThreadReads \/ ReaderResumes \/ ErrReaderResumes PROVE PipesInv'
  OBVIOUS
<1> USE DEF PipesInv, TypeOK, Counts, Fresh, Held, ReaderStates, LoopRuns,
            pyVars, writeVars, readVars, procVars, countVars
<1>1. CASE ThreadReads
  BY <1>1, Product DEF ThreadReads
<1>2. CASE ReaderResumes
  <2>1. TypeOK'
    BY <1>2 DEF ReaderResumes
  <2>2. Counts'
    BY <1>2, Product DEF ReaderResumes
  <2>3. Fresh'
    BY <1>2 DEF ReaderResumes
  <2> QED BY <2>1, <2>2, <2>3
<1>3. CASE ErrReaderResumes
  <2>1. TypeOK'
    BY <1>3 DEF ErrReaderResumes, ErrReadsOn
  <2>2. Counts'
    BY <1>3, Product DEF ErrReaderResumes, ErrReadsOn
  <2>3. Fresh'
    BY <1>3 DEF ErrReaderResumes, ErrReadsOn
  <2> QED BY <2>1, <2>2, <2>3
<1> QED BY <1>1, <1>2, <1>3

\* A unit read is one of a request not read to the end, so that there is one.
LEMMA ProcessKeeps ==
  PipesInv /\ (ProcessLoads \/ ProcessReads \/ ProcessWrites \/ ProcessExits) => PipesInv'
<1> SUFFICES ASSUME PipesInv, ProcessLoads \/ ProcessReads \/ ProcessWrites \/ ProcessExits
             PROVE  PipesInv'
  OBVIOUS
<1> USE DEF PipesInv, ReaderStates, OwesNothing, pyVars, writeVars, readVars, procVars, countVars
<1>1. CASE ProcessLoads \/ ProcessExits
  BY <1>1, Product DEF ProcessLoads, ProcessExits, TypeOK, Counts, Fresh, Held
<1>2. CASE ProcessReads
  <2>1. unread > 0
    BY <1>2, NoProduct DEF ProcessReads, TypeOK, Counts
  <2>2. /\ RequestUnits * (unread - 1) = RequestUnits * unread - RequestUnits
        /\ ReplyLines * (unread - 1) = ReplyLines * unread - ReplyLines
        /\ LogLines * (unread - 1) = LogLines * unread - LogLines
    BY OneLess DEF TypeOK
  <2>3. TypeOK'
    BY <1>2, <2>1 DEF ProcessReads, TypeOK
  <2>4. Counts'
    BY <1>2, <2>1, <2>2, Product DEF ProcessReads, TypeOK, Counts, Held
  <2>5. Fresh'
    BY <1>2 DEF ProcessReads, Fresh
  <2> QED BY <2>3, <2>4, <2>5
<1>3. CASE ProcessWrites
  BY <1>3, Product DEF ProcessWrites, TypeOK, Counts, Fresh, Held
<1> QED BY <1>1, <1>2, <1>3

LEMMA PipesAlways == Spec => []PipesInv
<1>1. Init => PipesInv
  <2> SUFFICES ASSUME Init PROVE PipesInv
    OBVIOUS
  <2>1. TypeOK
    <3>1. /\ left \in Nat /\ owed \in Nat /\ owedLogs \in Nat /\ unread \in Nat
          /\ heard \in Nat /\ logged \in Nat
          /\ part \in 0..(RequestUnits - 1) /\ sends \in 0..MaxSends
          /\ cfg \in 0..CfgCap /\ inp \in 0..InCap /\ out \in 0..OutCap /\ err \in 0..ErrCap
      BY DEF Init
    <3> QED BY <3>1 DEF Init, TypeOK, ReaderStates
  <2>2. Counts
    BY NoProduct DEF Init, Counts, Held
  <2>3. Fresh
    BY DEF Init, Fresh
  <2> QED BY <2>1, <2>2, <2>3 DEF PipesInv
<1>2. PipesInv /\ [Next]_vars => PipesInv'
  <2>1. PipesInv /\ Next => PipesInv'
    BY LoopKeeps, SendKeeps, WriteKeeps, StopKeeps, DestroyKeeps, BeginKeeps, ReadKeeps,
       ProcessKeeps DEF Next
  <2>2. PipesInv /\ UNCHANGED vars => PipesInv'
    BY DEF vars, pyVars, writeVars, readVars, procVars, countVars,
           PipesInv, TypeOK, Counts, Fresh, Held
  <2> QED BY <2>1, <2>2
<1> QED BY <1>1, <1>2, PTL DEF Spec

-----------------------------------------------------------------------------
\* Type correctness, for all capacities and sizes: no pipe is overfilled, and a
\* request read to the end was sent.
THEOREM PipesTypeCorrect == Spec => []TypeOK
<1> QED BY PipesAlways, PTL DEF PipesInv

\* For all capacities and sizes, with asyncio.run and with StdioBus, loop and
\* process can wait for each other only if the lines that the messages sent
\* before the blocked one can cause, and that were not handed over yet, overflow
\* the pipe the process is stuck in: a first message, or one after messages
\* whose output fits, never locks both up.
THEOREM NoEmbraceWithinCapacity == Spec => []EmbraceNeedsOverflow
<1>1. PipesInv => EmbraceNeedsOverflow
  <2> SUFFICES ASSUME PipesInv, Embrace
               PROVE  IF owedLogs > 0 THEN StartLogs + LogLines * Earlier > logged + ErrCap
                                      ELSE ReplyLines * Earlier > heard + OutCap
    BY DEF EmbraceNeedsOverflow
  <2>1. /\ sends \in Nat /\ unread \in Nat /\ heard \in Nat /\ logged \in Nat
        /\ owed \in Nat /\ owedLogs \in Nat /\ Held(reader) \in Nat /\ Held(errReader) \in Nat
    BY DEF PipesInv, TypeOK, Held
  \* The message being written is not read to the end: the lines left are
  \* those of the messages before it.
  <2>2. /\ ReplyLines * sends - ReplyLines * unread <= ReplyLines * Earlier
        /\ LogLines * sends - LogLines * unread <= LogLines * Earlier
    <3>1. CASE write = "request"
      <4>1. unread > 0
        BY <3>1, NoProduct DEF PipesInv, TypeOK, Counts
      <4>2. /\ ReplyLines * (sends - 1) = ReplyLines * sends - ReplyLines
            /\ LogLines * (sends - 1) = LogLines * sends - LogLines
            /\ ReplyLines * (unread - 1) = ReplyLines * unread - ReplyLines
            /\ LogLines * (unread - 1) = LogLines * unread - LogLines
        BY <2>1, OneLess
      <4>3. ReplyLines * (unread - 1) \in Nat /\ LogLines * (unread - 1) \in Nat
        BY <2>1, <4>1, Product
      <4> QED BY <2>1, <3>1, <4>2, <4>3, Product DEF Earlier
    <3>2. CASE write # "request"
      BY <2>1, <3>2, Product DEF Earlier
    <3> QED BY <3>1, <3>2
  <2>3. ReplyLines * Earlier \in Int /\ LogLines * Earlier \in Int
    BY <2>1 DEF Earlier
  <2>4. CASE owedLogs > 0 /\ err = ErrCap
    <3>1. StartLogs + LogLines * sends - LogLines * unread >= owedLogs + ErrCap + logged
      BY <2>1, <2>4, Product DEF PipesInv, Counts
    <3> QED BY <2>1, <2>2, <2>3, <2>4, <3>1, Product
  <2>5. CASE owedLogs = 0 /\ owed > 0 /\ out = OutCap
    <3>1. ReplyLines * sends - ReplyLines * unread >= owed + OutCap + heard
      BY <2>1, <2>5, Product DEF PipesInv, Counts
    <3> QED BY <2>1, <2>2, <2>3, <2>5, <3>1, Product
  <2> QED BY <2>4, <2>5 DEF Embrace
<1> QED BY <1>1, PipesAlways, PTL

=============================================================================
