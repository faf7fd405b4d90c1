------------------------------ MODULE LogProofs ------------------------------
(***************************************************************************)
(* Theorems about the two halves of the Logs page: the journal tail of     *)
(* module JournalReader, for any number of starts, any journal, and reader *)
(* threads that outlive their stop; and the page itself (module LogView),  *)
(* for any entries, window size, widths, commands and number of clicks and *)
(* restarts.                                                               *)
(***************************************************************************)
EXTENDS LogView, JournalReader, FiniteSetTheorems, FunctionTheorems, SequenceTheorems, TLAPS

(***************************************************************************)
(* The journal tail                                                        *)
(***************************************************************************)


\* Nothing is ahead of the journal, and a batch is not empty.
BoundsInv ==
  /\ journal <= MaxJournal /\ cursor <= journal
  /\ \A t \in Threads : threads[t].pos <= journal
  /\ \A k \in 1..Len(idle) :
       idle[k].gen \in 1..starts /\ idle[k].first <= idle[k].last /\ idle[k].last <= journal

\* A thread's generation is its own number: one that is stopped has read the counter before.
ThreadInv ==
  /\ generation = starts
  /\ tailing => starts # 0
  /\ \A t \in Threads :
       /\ threads[t].pc = "unborn" <=> t > starts
       /\ threads[t].pc = "born" => t = starts /\ tailing
       /\ threads[t].pc \notin {"unborn", "born"} => threads[t].gen = t

\* Batches of the present run are queued one after the other, from what was shown last
\* to where its thread is.
OfRun(k) == idle[k].gen = generation
NoneIn(S) == \A i \in S \cap (1..Len(idle)) : ~OfRun(i)
LastShown == shown[Len(shown)]

Adjacent ==
  \A j, k \in 1..Len(idle) :
    j < k /\ OfRun(j) /\ OfRun(k) /\ NoneIn((j + 1)..(k - 1)) => idle[k].first = idle[j].last + 1

FirstFollows ==
  shown # <<>> => \A k \in 1..Len(idle) :
    OfRun(k) /\ NoneIn(1..(k - 1)) => idle[k].first = LastShown + 1

LastReaches ==
  \A k \in 1..Len(idle) :
    OfRun(k) /\ NoneIn((k + 1)..Len(idle)) => idle[k].last = threads[generation].pos

NoneLeft == shown # <<>> /\ NoneIn(1..Len(idle)) => LastShown = threads[generation].pos

Fresh ==
  threads[generation].pc \in {"born", "opening"} => shown = <<>> /\ NoneIn(1..Len(idle))

ChainInv == tailing => Adjacent /\ FirstFollows /\ LastReaches /\ NoneLeft /\ Fresh

TailInv == TailTypes /\ BoundsInv /\ ThreadInv /\ ChainInv /\ RunIsConsecutive

-----------------------------------------------------------------------------
(* Operators *)

\* The entries of a batch, as _emit_batch hands them on.
Lines(b) == [i \in 1..(b.last - b.first + 1) |-> b.first + i - 1]

LEMMA LinesProperties ==
  ASSUME NEW b \in Batch, NEW m \in Nat, b.first <= b.last, b.last <= m
  PROVE  /\ Lines(b) \in Seq(1..m)
         /\ Len(Lines(b)) = b.last - b.first + 1
         /\ \A i \in 1..Len(Lines(b)) : Lines(b)[i] = b.first + i - 1
<1> DEFINE n == b.last - b.first + 1
<1>1. n \in Nat
  BY DEF Batch
<1>2. Lines(b) \in [1..n -> 1..m]
  BY DEF Batch, Lines
<1>3. Lines(b) \in Seq(1..m)
  BY <1>1, <1>2, SeqDef
<1> QED BY <1>1, <1>2, <1>3, LenProperties DEF Lines

\* A step of thread t leaves the other threads where they are.
OnlyThread(t) ==
  /\ threads' \in [Threads -> Thread]
  /\ \A u \in Threads \ {t} : threads'[u] = threads[u]

\* Steps of a thread that change nothing but the thread.
Alone(t) ==
  ReadGeneration(t) \/ OpenFails(t) \/ SeekInitial(t) \/ CheckStop(t) \/ WakeIdle(t)

Moves(t) ==
  /\ OnlyThread(t) /\ change' \in [Threads -> Changes]
  /\ UNCHANGED <<tailing, generation, cursor, stopEvent, starts, idle, journal, shown>>
  /\ threads'[t].pc \notin {"unborn", "born"} /\ threads[t].pc # "unborn"
  /\ threads'[t].pc = "opening" <=> threads[t].pc = "born"
  /\ threads'[t].pos <= journal
  /\ threads[t].pc # "opening" => threads'[t].pos = threads[t].pos
  /\ threads'[t].gen = IF threads[t].pc = "born" THEN generation ELSE threads[t].gen

LEMMA AloneCases ==
  ASSUME TailTypes, BoundsInv, NEW t \in Threads, Alone(t)
  PROVE  Moves(t)
<1> USE DEF Moves, OnlyThread, TailTypes, BoundsInv
<1>0. threads[t] \in Thread
  OBVIOUS
<1>1. CASE ReadGeneration(t)
  BY <1>0, <1>1 DEF ReadGeneration, Thread, PCs
<1>2. CASE OpenFails(t)
  BY <1>0, <1>2 DEF OpenFails, MoveTo, Thread, PCs
<1>3. CASE SeekInitial(t)
  <2> DEFINE tail == journal - InitialEntries + 1
             oldest == IF tail >= 1 THEN tail ELSE IF journal = 0 THEN 0 ELSE 1
             p == IF cursor # NoCursor THEN cursor ELSE oldest
  <2>1. /\ p \in Nat /\ p <= journal
        /\ threads' = [threads EXCEPT ![t].pc = "draining", ![t].pos = p]
    BY <1>3, JournalAssumption DEF SeekInitial, NoCursor
  <2> HIDE DEF p
  <2>2. /\ threads' \in [Threads -> Thread]
        /\ \A u \in Threads \ {t} : threads'[u] = threads[u]
        /\ threads'[t] = [threads[t] EXCEPT !.pc = "draining", !.pos = p]
    BY <1>0, <2>1 DEF Thread, PCs
  <2>3. change' \in [Threads -> Changes]
    BY <1>3 DEF SeekInitial
  <2> QED BY <1>0, <1>3, <2>1, <2>2, <2>3 DEF SeekInitial, Thread
<1>4. CASE CheckStop(t)
  BY <1>0, <1>4 DEF CheckStop, MoveTo, Thread, PCs
<1>5. CASE WakeIdle(t)
  <2>1. change' \in [Threads -> Changes]
    BY <1>5 DEF WakeIdle, Waited, Changes
  <2> QED BY <1>0, <1>5, <2>1 DEF WakeIdle, Waited, MoveTo, Thread, PCs
<1> QED BY <1>1, <1>2, <1>3, <1>4, <1>5 DEF Alone

\* What a reading thread does: nothing new, or one batch up to the end of the journal.
ReadsOn(t) ==
  LET b == [gen |-> threads[t].gen, first |-> threads[t].pos + 1, last |-> journal]
  IN  /\ OnlyThread(t)
      /\ UNCHANGED <<tailing, generation, stopEvent, starts, journal, shown>>
      /\ threads'[t].pc = "checking" /\ threads'[t].gen = threads[t].gen
      /\ \/ /\ journal <= threads[t].pos /\ threads'[t].pos = threads[t].pos
            /\ UNCHANGED <<cursor, idle>>
         \/ /\ journal > threads[t].pos /\ threads'[t].pos = journal
            /\ cursor' = journal /\ idle' = Append(idle, b)

LEMMA ReadOnCases ==
  ASSUME TailTypes, NEW t \in Threads, ReadOn(t)
  PROVE  ReadsOn(t)
<1>1. threads[t] \in Thread
  BY DEF TailTypes
<1> DEFINE p == IF journal > threads[t].pos THEN journal ELSE threads[t].pos
<1>2. threads' = [threads EXCEPT ![t].pc = "checking", ![t].pos = p] /\ p \in Nat
  BY <1>1 DEF ReadOn, TailTypes, Thread
<1>3. /\ threads' \in [Threads -> Thread]
      /\ \A u \in Threads \ {t} : threads'[u] = threads[u]
      /\ threads'[t] = [threads[t] EXCEPT !.pc = "checking", !.pos = p]
  BY <1>1, <1>2 DEF Thread, PCs, TailTypes
<1>4. threads'[t].pc = "checking" /\ threads'[t].gen = threads[t].gen /\ threads'[t].pos = p
  BY <1>1, <1>3 DEF Thread
<1>5. journal \in Nat /\ threads[t].pos \in Nat
  BY <1>1 DEF TailTypes, Thread
<1> QED BY <1>3, <1>4, <1>5 DEF ReadOn, OnlyThread, ReadsOn

-----------------------------------------------------------------------------
(* Types and bounds *)

LEMMA TypesInit == TailInit => TailTypes /\ BoundsInv /\ ThreadInv /\ ChainInv /\ RunIsConsecutive
<1> SUFFICES ASSUME TailInit PROVE TailTypes /\ BoundsInv /\ ThreadInv /\ ChainInv /\ RunIsConsecutive
  OBVIOUS
<1>1. threads \in [Threads -> Thread]
  BY DEF TailInit, Thread, PCs
<1>2. idle \in Seq(Batch) /\ shown \in Seq(1..MaxJournal)
  BY EmptySeq DEF TailInit
<1>3. FlagTypes
  BY DEF TailInit, FlagTypes
<1>6. TailTypes
  BY <1>1, <1>2, <1>3, JournalAssumption DEF TailInit, TailTypes, NoCursor, Changes
<1>4. BoundsInv /\ ThreadInv
  BY JournalAssumption DEF TailInit, BoundsInv, ThreadInv, Threads, NoCursor
<1>5. ChainInv /\ RunIsConsecutive
  BY EmptySeq DEF TailInit, ChainInv, RunIsConsecutive
<1> QED BY <1>4, <1>5, <1>6

LEMMA StartTypes ==
  ASSUME TailTypes, BoundsInv, ThreadInv, Start
  PROVE  TailTypes' /\ BoundsInv' /\ ThreadInv'
<1> DEFINE new == [pc |-> "born", gen |-> 0, pos |-> 0]
<1>1. new \in Thread /\ starts + 1 \in Threads
  BY JournalAssumption DEF Start, TailTypes, Threads, Thread, PCs
<1>2. /\ threads' \in [Threads -> Thread]
      /\ \A t \in Threads : threads'[t] = IF t = starts + 1 THEN new ELSE threads[t]
  BY <1>1 DEF Start, TailTypes
<1>3. FlagTypes'
  BY DEF Start, FlagTypes
<1>6. TailTypes'
  BY <1>1, <1>2, <1>3, EmptySeq, JournalAssumption DEF Start, TailTypes, NoCursor, Threads
<1>4. BoundsInv'
  BY <1>2, JournalAssumption DEF Start, TailTypes, BoundsInv, NoCursor
<1>5. ThreadInv'
  BY <1>1, <1>2 DEF Start, TailTypes, ThreadInv, Threads
<1> QED BY <1>4, <1>5, <1>6

LEMMA EmitTypes ==
  ASSUME TailTypes, BoundsInv, ThreadInv, EmitBatch
  PROVE  TailTypes' /\ BoundsInv' /\ ThreadInv'
<1>1. idle \in Seq(Batch) /\ idle # <<>>
  BY DEF EmitBatch, TailTypes
<1>2. Head(idle) = idle[1] /\ idle[1] \in Batch /\ 1 \in 1..Len(idle)
  BY <1>1, EmptySeq, ElementOfSeq
<1>3. /\ idle' \in Seq(Batch) /\ Len(idle') = Len(idle) - 1
      /\ \A k \in 1..Len(idle') : idle'[k] = idle[k + 1]
  <2>1. idle' = Tail(idle)
    BY DEF EmitBatch
  <2> QED BY <1>1, <2>1, HeadTailProperties
<1>4. shown' = shown \/ shown' = shown \o Lines(idle[1])
  BY <1>2 DEF EmitBatch, Lines
<1>5. idle[1].first <= idle[1].last /\ idle[1].last <= MaxJournal
  BY <1>2, JournalAssumption DEF BoundsInv, TailTypes, Batch
<1>6. Lines(idle[1]) \in Seq(1..MaxJournal)
  BY <1>2, <1>5, LinesProperties, JournalAssumption
<1>7. shown' \in Seq(1..MaxJournal)
  BY <1>4, <1>6, ConcatProperties DEF TailTypes
<1>8. TailTypes'
  BY <1>3, <1>7 DEF EmitBatch, TailTypes, FlagTypes
<1>9. BoundsInv'
  BY <1>1, <1>3, LenProperties DEF EmitBatch, BoundsInv
<1> QED BY <1>8, <1>9 DEF EmitBatch, ThreadInv

LEMMA AloneTypes ==
  ASSUME TailTypes, BoundsInv, ThreadInv, NEW t \in Threads, Alone(t)
  PROVE  TailTypes' /\ BoundsInv' /\ ThreadInv'
<1>1. TailTypes'
  BY AloneCases DEF TailTypes, Moves, OnlyThread, FlagTypes
<1>2. BoundsInv'
  BY AloneCases DEF BoundsInv, Moves, OnlyThread
<1>3. ThreadInv'
  BY AloneCases DEF ThreadInv, Moves, OnlyThread, TailTypes, Threads
<1> QED BY <1>1, <1>2, <1>3

LEMMA ReadOnTypes ==
  ASSUME TailTypes, BoundsInv, ThreadInv, NEW t \in Threads, InitialDrain(t) \/ Wake(t)
  PROVE  TailTypes' /\ BoundsInv' /\ ThreadInv'
<1> DEFINE b == [gen |-> threads[t].gen, first |-> threads[t].pos + 1, last |-> journal]
<1>1. ReadsOn(t) /\ threads[t].pc \in {"draining", "waiting"}
  BY ReadOnCases DEF InitialDrain, Wake, Waited
<1>7. change' \in [Threads -> Changes]
  BY DEF InitialDrain, Wake, Waited, TailTypes, Changes
<1>2. /\ threads[t].gen = t /\ t \in 1..starts
      /\ threads[t].pos \in Nat /\ threads[t].pos <= journal /\ journal \in Nat
  BY <1>1, JournalAssumption DEF ThreadInv, BoundsInv, TailTypes, Thread, Threads
<1>3. FlagTypes'
  BY <1>1 DEF TailTypes, FlagTypes, ReadsOn
<1>4. ThreadInv'
  BY <1>1, <1>2 DEF ThreadInv, OnlyThread, ReadsOn
<1>5. CASE UNCHANGED <<cursor, idle>>
  <2>1. TailTypes'
    BY <1>1, <1>3, <1>5, <1>7 DEF TailTypes, OnlyThread, ReadsOn
  <2>2. threads'[t].pos <= journal
    BY <1>1, <1>2 DEF ReadsOn
  <2>3. BoundsInv'
    BY <1>1, <1>5, <2>2 DEF BoundsInv, OnlyThread, ReadsOn
  <2> QED BY <1>4, <2>1, <2>3
<1>6. CASE journal > threads[t].pos /\ cursor' = journal /\ idle' = Append(idle, b)
  <2>1. b \in Batch /\ idle \in Seq(Batch)
    BY <1>1, <1>2, <1>6 DEF TailTypes, Batch, Threads
  <2>2. /\ idle' \in Seq(Batch) /\ Len(idle') = Len(idle) + 1 /\ Len(idle) \in Nat
        /\ \A k \in 1..Len(idle) : idle'[k] = idle[k]
        /\ idle'[Len(idle) + 1] = b
    BY <1>6, <2>1, AppendProperties, LenProperties
  <2>3. TailTypes'
    BY <1>1, <1>2, <1>3, <1>6, <1>7, <2>2 DEF TailTypes, OnlyThread, ReadsOn
  <2>4. BoundsInv'
    BY <1>1, <1>2, <1>6, <2>2 DEF BoundsInv, OnlyThread, ReadsOn
  <2> QED BY <1>4, <2>3, <2>4
<1> QED BY <1>1, <1>5, <1>6 DEF ReadsOn

LEMMA TypesStep ==
  ASSUME TailTypes, BoundsInv, ThreadInv, PromptThreads, [TailNext]_tailVars
  PROVE  TailTypes' /\ BoundsInv' /\ ThreadInv'
<1>1. CASE Stop
  <2>1. TailTypes'
    BY <1>1 DEF Stop, TailTypes, FlagTypes
  <2> QED BY <1>1, <2>1 DEF Stop, BoundsInv, ThreadInv
<1>2. CASE JournalGrows
  <2>1. TailTypes'
    BY <1>2 DEF JournalGrows, TailTypes, FlagTypes, Changes
  <2>2. BoundsInv'
    <3>1. journal \in Nat /\ MaxJournal \in Nat /\ cursor \in Nat
          /\ \A t \in Threads : threads[t].pos \in Nat
      BY JournalAssumption DEF TailTypes, Thread
    <3>2. \A k \in 1..Len(idle) : idle[k] \in Batch
      BY ElementOfSeq DEF TailTypes
    <3> QED BY <1>2, <3>1, <3>2 DEF JournalGrows, BoundsInv, Batch
  <2> QED BY <1>2, <2>1, <2>2 DEF JournalGrows, ThreadInv
<1>3. CASE UNCHANGED tailVars
  BY <1>3 DEF tailVars, TailTypes, FlagTypes, BoundsInv, ThreadInv
<1>4. CASE JournalRotates
  <2>1. TailTypes'
    BY <1>4 DEF JournalRotates, TailTypes, FlagTypes, Changes
  <2> QED BY <1>4, <2>1 DEF JournalRotates, BoundsInv, ThreadInv
<1> QED BY <1>1, <1>2, <1>3, <1>4, StartTypes, EmitTypes, AloneTypes, ReadOnTypes
  DEF TailNext, ThreadStep, Alone

-----------------------------------------------------------------------------
(* The lines shown are consecutive *)

\* A step that leaves queue and lines as they are keeps the chain when the present thread keeps
\* its position, or has handed nothing on yet.
LEMMA ChainUnchanged ==
  ASSUME ChainInv, RunIsConsecutive, tailing' => tailing,
         UNCHANGED <<generation, idle, shown>>,
         tailing => /\ \/ threads'[generation].pos = threads[generation].pos
                       \/ shown = <<>> /\ NoneIn(1..Len(idle))
                    /\ threads'[generation].pc \in {"born", "opening"} =>
                         threads[generation].pc \in {"born", "opening"}
  PROVE  ChainInv' /\ RunIsConsecutive'
<1>0. RunIsConsecutive'
  BY DEF RunIsConsecutive
<1> SUFFICES ASSUME tailing'
             PROVE  Adjacent' /\ FirstFollows' /\ LastReaches' /\ NoneLeft' /\ Fresh'
  BY <1>0 DEF ChainInv
<1>1. Adjacent /\ FirstFollows /\ LastReaches /\ NoneLeft /\ Fresh
  BY DEF ChainInv
<1>2. Adjacent'
  BY <1>1 DEF Adjacent, OfRun, NoneIn
<1>3. FirstFollows'
  BY <1>1 DEF FirstFollows, OfRun, NoneIn, LastShown
<1>4. LastReaches'
  BY <1>1 DEF LastReaches, OfRun, NoneIn
<1>5. NoneLeft'
  BY <1>1 DEF NoneLeft, OfRun, NoneIn, LastShown
<1>6. Fresh'
  BY <1>1 DEF Fresh, OfRun, NoneIn
<1> QED BY <1>2, <1>3, <1>4, <1>5, <1>6

\* A start begins a chain of its own: no batch of its generation was made before.
LEMMA StartChain ==
  ASSUME TailTypes, BoundsInv, ThreadInv, Start
  PROVE  ChainInv' /\ RunIsConsecutive'
<1>1. NoneIn(1..Len(idle))' /\ shown' = <<>>
  BY DEF Start, NoneIn, OfRun, BoundsInv, ThreadInv, TailTypes
<1> QED BY <1>1 DEF ChainInv, Adjacent, FirstFollows, LastReaches, NoneLeft, Fresh, NoneIn,
      RunIsConsecutive

LEMMA AloneChain ==
  ASSUME TailTypes, BoundsInv, ThreadInv, ChainInv, RunIsConsecutive, NEW t \in Threads, Alone(t)
  PROVE  ChainInv' /\ RunIsConsecutive'
<1>1. Moves(t)
  BY AloneCases
<1>2. tailing => generation \in Threads
  BY DEF ThreadInv, TailTypes, Threads
<1>3. CASE t # generation
  BY <1>1, <1>2, <1>3, ChainUnchanged DEF Moves, OnlyThread
<1>4. CASE t = generation /\ threads[t].pc # "opening"
  BY <1>1, <1>2, <1>4, ChainUnchanged DEF Moves, OnlyThread
<1>5. CASE t = generation /\ threads[t].pc = "opening"
  BY <1>1, <1>2, <1>5, ChainUnchanged DEF Moves, OnlyThread, ChainInv, Fresh
<1> QED BY <1>3, <1>4, <1>5

LEMMA ReadOnChain ==
  ASSUME TailTypes, BoundsInv, ThreadInv, ChainInv, RunIsConsecutive,
         NEW t \in Threads, InitialDrain(t) \/ Wake(t)
  PROVE  ChainInv' /\ RunIsConsecutive'
<1> DEFINE b == [gen |-> threads[t].gen, first |-> threads[t].pos + 1, last |-> journal]
<1>1. ReadsOn(t) /\ threads[t].pc \in {"draining", "waiting"}
  BY ReadOnCases DEF InitialDrain, Wake, Waited
<1>2. /\ tailing => generation \in Threads
      /\ threads[t].gen = t /\ threads[t].pos \in Nat /\ journal \in Nat
  BY <1>1 DEF ThreadInv, TailTypes, Threads, Thread
<1>3. CASE threads'[t].pos = threads[t].pos /\ UNCHANGED <<cursor, idle>>
  BY <1>1, <1>2, <1>3, ChainUnchanged DEF ReadsOn, OnlyThread
<1>4. CASE journal > threads[t].pos /\ threads'[t].pos = journal /\ idle' = Append(idle, b)
  <2>0. RunIsConsecutive'
    BY <1>1 DEF ReadsOn, RunIsConsecutive
  <2> SUFFICES ASSUME tailing'
               PROVE  Adjacent' /\ FirstFollows' /\ LastReaches' /\ NoneLeft' /\ Fresh'
    BY <2>0 DEF ChainInv
  <2>1. /\ tailing /\ generation' = generation /\ shown' = shown
        /\ Adjacent /\ FirstFollows /\ LastReaches /\ NoneLeft /\ Fresh
    BY <1>1 DEF ReadsOn, ChainInv
  <2>2. PICK n \in Nat : n = Len(idle)
    BY LenProperties DEF TailTypes
  <2>3. /\ Len(idle') = n + 1
        /\ \A k \in 1..n : idle'[k] = idle[k]
        /\ idle'[n + 1] = b
    <3>1. b \in Batch /\ idle \in Seq(Batch)
      BY <1>2, <1>4 DEF TailTypes, Batch, Threads
    <3> QED BY <1>4, <2>2, <3>1, AppendProperties, LenProperties
  <2>4. /\ \A k \in 1..n : OfRun(k)' <=> OfRun(k)
        /\ OfRun(n + 1)' <=> t = generation
    BY <1>2, <2>1, <2>3 DEF OfRun
  <2>5. \A j, k \in 1..(n + 1) : NoneIn((j + 1)..(k - 1))' <=> NoneIn((j + 1)..(k - 1))
    BY <2>2, <2>3, <2>4 DEF NoneIn
  <2>6. \A k \in 1..(n + 1) : NoneIn(1..(k - 1))' <=> NoneIn(1..(k - 1))
    BY <2>2, <2>3, <2>4 DEF NoneIn
  <2>7. \A j \in 0..n : NoneIn((j + 1)..(n + 1))' <=> NoneIn((j + 1)..n) /\ t # generation
    BY <2>2, <2>3, <2>4 DEF NoneIn
  <2>8. t # generation => threads'[generation] = threads[generation]
    BY <1>1, <1>2, <2>1 DEF ReadsOn, OnlyThread
  <2>9. Adjacent'
    <3> SUFFICES ASSUME NEW j \in 1..(n + 1), NEW k \in 1..(n + 1), j < k,
                        OfRun(j)', OfRun(k)', NoneIn((j + 1)..(k - 1))'
                 PROVE  idle'[k].first = idle'[j].last + 1
      BY <2>3 DEF Adjacent
    <3>1. j \in 1..n /\ OfRun(j) /\ NoneIn((j + 1)..(k - 1)) /\ idle'[j] = idle[j]
      BY <2>3, <2>4, <2>5
    <3>2. CASE k # n + 1
      <4>1. k \in 1..n /\ OfRun(k) /\ idle'[k] = idle[k]
        BY <2>3, <2>4, <3>2
      <4> QED BY <2>1, <2>2, <3>1, <4>1 DEF Adjacent
    <3>3. CASE k = n + 1
      <4>1. t = generation /\ NoneIn((j + 1)..n)
        BY <2>4, <3>1, <3>3
      <4>2. idle[j].last = threads[generation].pos
        BY <2>1, <2>2, <3>1, <4>1 DEF LastReaches
      <4> QED BY <2>3, <3>1, <3>3, <4>1, <4>2
    <3> QED BY <3>2, <3>3
  <2>10. FirstFollows'
    <3> SUFFICES ASSUME shown # <<>>, NEW k \in 1..(n + 1), OfRun(k)', NoneIn(1..(k - 1))'
                 PROVE  idle'[k].first = LastShown + 1
      BY <2>1, <2>3 DEF FirstFollows, LastShown
    <3>1. NoneIn(1..(k - 1))
      BY <2>6
    <3>2. CASE k # n + 1
      BY <2>1, <2>2, <2>3, <2>4, <3>1, <3>2 DEF FirstFollows
    <3>3. CASE k = n + 1
      BY <2>1, <2>2, <2>3, <2>4, <3>1, <3>3 DEF NoneLeft
    <3> QED BY <3>2, <3>3
  <2>11. LastReaches'
    <3> SUFFICES ASSUME NEW k \in 1..(n + 1), OfRun(k)', NoneIn((k + 1)..(n + 1))'
                 PROVE  idle'[k].last = threads'[generation].pos
      BY <2>1, <2>3 DEF LastReaches
    <3>1. CASE k # n + 1
      BY <2>1, <2>2, <2>3, <2>4, <2>7, <2>8, <3>1 DEF LastReaches
    <3>2. CASE k = n + 1
      BY <1>4, <2>3, <2>4, <3>2
    <3> QED BY <3>1, <3>2
  <2>12. NoneLeft'
    <3>1. NoneIn(1..(n + 1))' <=> NoneIn(1..n) /\ t # generation
      BY <2>7
    <3> QED BY <2>1, <2>2, <2>3, <2>8, <3>1 DEF NoneLeft, LastShown
  <2>13. Fresh'
    <3>1. NoneIn(1..(n + 1))' <=> NoneIn(1..n) /\ t # generation
      BY <2>7
    <3> QED BY <1>1, <2>1, <2>2, <2>3, <2>8, <3>1 DEF Fresh, ReadsOn
  <2> QED BY <2>9, <2>10, <2>11, <2>12, <2>13
<1> QED BY <1>1, <1>3, <1>4 DEF ReadsOn

LEMMA EmitChain ==
  ASSUME TailTypes, BoundsInv, ThreadInv, ChainInv, RunIsConsecutive, EmitBatch
  PROVE  ChainInv' /\ RunIsConsecutive'
<1>1. idle \in Seq(Batch) /\ idle # <<>>
  BY DEF EmitBatch, TailTypes
<1>2. PICK n \in Nat : Len(idle) = n + 1
  BY <1>1, EmptySeq, LenProperties
<1>3. Head(idle) = idle[1] /\ idle[1] \in Batch
  BY <1>1, <1>2, ElementOfSeq
<1>4. Len(idle') = n /\ \A k \in 1..n : idle'[k] = idle[k + 1]
  <2>1. idle' = Tail(idle)
    BY DEF EmitBatch
  <2> QED BY <1>1, <1>2, <2>1, HeadTailProperties
<1>5. UNCHANGED <<tailing, generation, threads>>
  BY DEF EmitBatch
<1>6. \A k \in 1..n : OfRun(k)' <=> OfRun(k + 1)
  BY <1>4, <1>5 DEF OfRun
<1>7. \A j \in 1..(n + 1), k \in 0..n : NoneIn(j..k)' <=> NoneIn((j + 1)..(k + 1))
  BY <1>2, <1>4, <1>6 DEF NoneIn
<1>8. \A k \in 0..n : NoneIn(1..(k + 1)) <=> ~OfRun(1) /\ NoneIn(2..(k + 1))
  BY <1>2 DEF NoneIn
<1>9. CASE tailing /\ OfRun(1)
  <2> DEFINE lines == Lines(idle[1])
  <2>1. /\ Adjacent /\ FirstFollows /\ LastReaches /\ Fresh
        /\ generation' = generation /\ threads' = threads
    BY <1>5, <1>9 DEF ChainInv
  <2>2. shown' = shown \o lines
    BY <1>3, <1>9 DEF EmitBatch, Lines, OfRun
  <2>3. /\ idle[1].first \in Nat /\ idle[1].last \in Nat
        /\ idle[1].first <= idle[1].last /\ idle[1].last <= MaxJournal
    BY <1>2, <1>3, JournalAssumption DEF BoundsInv, TailTypes, Batch
  <2>4. /\ lines \in Seq(1..MaxJournal) /\ Len(lines) = idle[1].last - idle[1].first + 1
        /\ \A i \in 1..Len(lines) : lines[i] = idle[1].first + i - 1
    BY <1>3, <2>3, LinesProperties, JournalAssumption
  <2> HIDE DEF lines
  <2>5. PICK m \in Nat : m = Len(shown)
    BY LenProperties DEF TailTypes
  <2>6. /\ Len(shown') = m + Len(lines)
        /\ \A i \in 1..m : shown'[i] = shown[i]
        /\ \A i \in 1..Len(lines) : shown'[m + i] = lines[i]
    <3>1. shown \in Seq(1..MaxJournal)
      BY DEF TailTypes
    <3>2. \A i \in 1..Len(shown') : shown'[i] = IF i <= m THEN shown[i] ELSE lines[i - m]
      BY <2>2, <2>4, <2>5, <3>1, ConcatProperties
    <3>3. Len(shown') = m + Len(lines)
      BY <2>2, <2>4, <2>5, <3>1, ConcatProperties
    <3>4. Len(lines) \in Nat
      BY <2>3, <2>4
    <3>5. ASSUME NEW i \in 1..Len(lines) PROVE shown'[m + i] = lines[i]
      <4>1. m + i \in 1..Len(shown') /\ ~(m + i <= m) /\ (m + i) - m = i
        BY <3>3, <3>4
      <4> QED BY <3>2, <4>1
    <3>6. \A i \in 1..m : i \in 1..Len(shown')
      BY <3>3, <3>4
    <3> QED BY <3>2, <3>3, <3>5, <3>6
  <2>7. LastShown' = idle[1].last
    <3>1. PICK x \in Nat, y \in Nat : x = idle[1].first /\ y = idle[1].last /\ x <= y
      BY <2>3
    <3>2. PICK l \in Nat \ {0} : l = Len(lines) /\ l = y - x + 1
      BY <2>4, <3>1
    <3>3. l \in 1..Len(lines) /\ Len(shown') = m + l
      BY <2>6, <3>2
    <3>4. shown'[m + l] = lines[l]
      BY <2>6, <3>3
    <3>5. lines[l] = x + l - 1
      BY <2>4, <3>1, <3>3
    <3>6. x + l - 1 = y
      BY <3>1, <3>2
    <3> QED BY <3>1, <3>3, <3>4, <3>5, <3>6 DEF LastShown
  <2>8. Adjacent'
    BY <1>2, <1>4, <1>6, <1>7, <2>1 DEF Adjacent
  <2>9. FirstFollows'
    BY <1>2, <1>4, <1>6, <1>7, <1>9, <2>1, <2>7 DEF FirstFollows, Adjacent
  <2>10. LastReaches'
    BY <1>2, <1>4, <1>6, <1>7, <2>1 DEF LastReaches
  <2>11. NoneLeft'
    BY <1>2, <1>4, <1>7, <1>9, <2>1, <2>7 DEF NoneLeft, LastReaches
  <2>12. Fresh'
    BY <1>2, <1>8, <1>9, <2>1 DEF Fresh
  <2>13. RunIsConsecutive'
    <3>1. m # 0 => idle[1].first = shown[m] + 1
      BY <1>2, <1>9, <2>1, <2>5, EmptySeq DEF FirstFollows, LastShown, NoneIn
    <3>0. /\ Len(lines) \in Nat \ {0}
          /\ \A i \in 1..Len(lines) : lines[i] = idle[1].first + i - 1
      BY <2>3, <2>4
    <3> SUFFICES ASSUME NEW i \in 1..(m + Len(lines) - 1)
                 PROVE  shown'[i + 1] = shown'[i] + 1
      BY <2>6 DEF RunIsConsecutive
    <3>2. CASE i < m
      BY <2>5, <2>6, <3>2 DEF RunIsConsecutive
    <3>3. CASE i = m
      <4>1. shown'[m] = shown[m] /\ shown'[m + 1] = lines[1] /\ m # 0
        BY <2>6, <3>0, <3>3
      <4>2. lines[1] = idle[1].first
        <5>1. 1 \in 1..Len(lines)
          BY <3>0
        <5>2. lines[1] = idle[1].first + 1 - 1
          BY <3>0, <5>1
        <5> QED BY <2>3, <5>2
      <4> QED BY <3>1, <3>3, <4>1, <4>2
    <3>4. CASE i > m
      <4>1. PICK k \in Nat : i = m + k
        BY <3>4
      <4>2. k \in 1..Len(lines) /\ k + 1 \in 1..Len(lines) /\ i + 1 = m + (k + 1)
        BY <3>0, <3>4, <4>1
      <4>3. shown'[i] = lines[k] /\ shown'[i + 1] = lines[k + 1]
        BY <2>6, <4>1, <4>2
      <4>4. lines[k + 1] = lines[k] + 1
        <5>1. PICK x \in Nat : x = idle[1].first
          BY <2>3
        <5>2. lines[k] = x + k - 1 /\ lines[k + 1] = x + (k + 1) - 1
          BY <3>0, <4>2, <5>1
        <5>3. x + (k + 1) - 1 = (x + k - 1) + 1
          BY <4>1
        <5> QED BY <5>2, <5>3
      <4> QED BY <4>3, <4>4
    <3> QED BY <3>2, <3>3, <3>4
  <2> QED BY <2>8, <2>9, <2>10, <2>11, <2>12, <2>13 DEF ChainInv
<1>10. CASE ~(tailing /\ OfRun(1))
  <2>1. shown' = shown
    BY <1>3, <1>10 DEF EmitBatch, OfRun
  <2>2. RunIsConsecutive'
    BY <2>1 DEF RunIsConsecutive
  <2> SUFFICES ASSUME tailing
               PROVE  Adjacent' /\ FirstFollows' /\ LastReaches' /\ NoneLeft' /\ Fresh'
    BY <1>5, <2>2 DEF ChainInv
  <2>3. /\ Adjacent /\ FirstFollows /\ LastReaches /\ NoneLeft /\ Fresh
        /\ generation' = generation /\ threads' = threads /\ ~OfRun(1)
    BY <1>5, <1>10 DEF ChainInv
  <2>4. Adjacent'
    BY <1>2, <1>4, <1>6, <1>7, <2>3 DEF Adjacent
  <2>5. FirstFollows'
    <3> SUFFICES ASSUME shown # <<>>, NEW k \in 1..n, OfRun(k)', NoneIn(1..(k - 1))'
                 PROVE  idle'[k].first = LastShown + 1
      BY <1>4, <2>1 DEF FirstFollows, LastShown
    <3>1. OfRun(k + 1) /\ NoneIn(1..k)
      BY <1>6, <1>7, <1>8, <2>3
    <3> QED BY <1>2, <1>4, <2>3, <3>1 DEF FirstFollows
  <2>6. LastReaches'
    BY <1>2, <1>4, <1>6, <1>7, <2>3 DEF LastReaches
  <2>7. NoneIn(1..n)' => NoneIn(1..(n + 1))
    BY <1>7, <1>8, <2>3
  <2>8. NoneLeft'
    BY <1>2, <1>4, <2>1, <2>3, <2>7 DEF NoneLeft, LastShown
  <2>9. Fresh'
    <3>1. NoneIn(1..(n + 1)) => NoneIn(1..n)'
      BY <1>7, <1>8
    <3> QED BY <1>2, <1>4, <2>1, <2>3, <3>1 DEF Fresh
  <2> QED BY <2>4, <2>5, <2>6, <2>8, <2>9
<1> QED BY <1>9, <1>10

LEMMA ChainStep ==
  ASSUME TailInv, [TailNext]_tailVars
  PROVE  ChainInv' /\ RunIsConsecutive'
<1> USE DEF TailInv
<1>1. CASE Stop
  BY <1>1, ChainUnchanged DEF Stop
<1>2. CASE JournalGrows
  BY <1>2, ChainUnchanged DEF JournalGrows
<1>3. CASE UNCHANGED tailVars
  BY <1>3, ChainUnchanged DEF tailVars
<1>4. CASE JournalRotates
  BY <1>4, ChainUnchanged DEF JournalRotates
<1> QED BY <1>1, <1>2, <1>3, <1>4, StartChain, EmitChain, AloneChain, ReadOnChain
  DEF TailNext, ThreadStep, Alone

-----------------------------------------------------------------------------

\* JournalReader keeps its variables in range through any interleaving of start, stop, idle
\* callbacks and reader threads: no batch is empty of entries or hands on a line that the
\* journal has not got.
THEOREM TailIsTyped ==
  ASSUME PromptThreads
  PROVE  TailSpec => [](TailTypes /\ BoundsInv /\ ThreadInv)
<1>1. TailInit => TailTypes /\ BoundsInv /\ ThreadInv
  BY TypesInit
<1>2. TailTypes /\ BoundsInv /\ ThreadInv /\ [TailNext]_tailVars => (TailTypes /\ BoundsInv /\ ThreadInv)'
  BY TypesStep
<1> QED BY <1>1, <1>2, PTL DEF TailSpec

\* The log-entry signals of one run of the tail carry consecutive journal entries (_emit_batch,
\* _read_available, _seek_initial), whatever reader threads of earlier runs still do.
THEOREM AlwaysConsecutive ==
  ASSUME PromptThreads
  PROVE  TailSpec => []RunIsConsecutive
<1>1. TailInit => TailInv
  BY TypesInit DEF TailInv
<1>2. TailInv /\ [TailNext]_tailVars => TailInv'
  BY TypesStep, ChainStep DEF TailInv
<1>3. TailInv => RunIsConsecutive
  BY DEF TailInv
<1> QED BY <1>1, <1>2, <1>3, PTL DEF TailSpec

(***************************************************************************)
(* The Logs page                                                           *)
(***************************************************************************)
-----------------------------------------------------------------------------
(* Counting the entries of a window *)

\* How many entries of q are in the set S.
Places(q, S) == {i \in 1..Len(q) : q[i] \in S}
Count(q, S) == Cardinality(Places(q, S))

LEMMA CountType ==
  ASSUME NEW q \in Seq(Entries), NEW S
  PROVE  IsFiniteSet(Places(q, S)) /\ Count(q, S) \in Nat
<1>1. Len(q) \in Nat
  BY LenProperties
<1>2. IsFiniteSet(1..Len(q)) /\ Places(q, S) \in SUBSET (1..Len(q))
  BY <1>1, FS_Interval DEF Places
<1> QED BY <1>2, FS_Subset, FS_CardinalityType DEF Count

LEMMA CountEmpty == \A S : Count(<<>>, S) = 0
<1> SUFFICES ASSUME NEW S PROVE Count(<<>>, S) = 0
  OBVIOUS
<1>1. Places(<<>>, S) = {}
  BY EmptySeq DEF Places
<1> QED BY <1>1, FS_EmptySet DEF Count

LEMMA CountAppend ==
  ASSUME NEW q \in Seq(Entries), NEW e \in Entries, NEW S
  PROVE  Count(Append(q, e), S) = IF e \in S THEN Count(q, S) + 1 ELSE Count(q, S)
<1>1. PICK n \in Nat : n = Len(q)
  BY LenProperties
<1>2. PICK p : p = Append(q, e)
  OBVIOUS
<1>3. Len(p) = n + 1 /\ p[n + 1] = e /\ \A i \in 1..n : p[i] = q[i]
  BY <1>1, <1>2, AppendProperties
<1>4. IsFiniteSet(Places(q, S)) /\ n + 1 \notin Places(q, S)
  <2>1. n + 1 \notin Places(q, S)
    BY <1>1 DEF Places
  <2> QED BY <2>1, CountType
<1>5. CASE e \in S
  <2>1. Places(p, S) = Places(q, S) \cup {n + 1}
    BY <1>1, <1>3, <1>5 DEF Places
  <2> QED BY <1>2, <1>4, <1>5, <2>1, FS_AddElement DEF Count
<1>6. CASE e \notin S
  <2>1. Places(p, S) = Places(q, S)
    BY <1>1, <1>3, <1>6 DEF Places
  <2> QED BY <1>2, <1>6, <2>1 DEF Count
<1> QED BY <1>5, <1>6

LEMMA CountTail ==
  ASSUME NEW q \in Seq(Entries), q # <<>>, NEW S
  PROVE  Count(Tail(q), S) = IF q[1] \in S THEN Count(q, S) - 1 ELSE Count(q, S)
<1>1. PICK n \in Nat : n = Len(q) /\ n > 0
  BY LenProperties, EmptySeq
<1>2. PICK p : p = Tail(q)
  OBVIOUS
<1>3. Len(p) = n - 1 /\ \A i \in 1..(n - 1) : p[i] = q[i + 1]
  BY <1>1, <1>2, HeadTailProperties
<1> DEFINE rest == Places(q, S) \ {1}
           f == [i \in Places(p, S) |-> i + 1]
<1>4. f \in [Places(p, S) -> rest]
  BY <1>1, <1>3 DEF Places
<1>5. \A i, j \in Places(p, S) : f[i] = f[j] => i = j
  BY DEF Places
<1>6. \A k \in rest : \E i \in Places(p, S) : f[i] = k
  <2> SUFFICES ASSUME NEW k \in rest PROVE \E i \in Places(p, S) : f[i] = k
    OBVIOUS
  <2>1. k \in 2..n /\ q[k] \in S
    BY <1>1 DEF Places
  <2>2. k - 1 \in 1..(n - 1) /\ (k - 1) + 1 = k
    BY <1>1, <2>1
  <2>3. k - 1 \in Places(p, S)
    BY <1>3, <2>1, <2>2 DEF Places
  <2> QED BY <2>2, <2>3
<1>7. f \in Bijection(Places(p, S), rest)
  BY <1>4, <1>5, <1>6, Fun_IsBij
<1>8. p \in Seq(Entries)
  BY <1>2, HeadTailProperties
<1>9. Cardinality(rest) = Count(p, S)
  <2>1. ExistsBijection(Places(p, S), rest)
    BY <1>7 DEF ExistsBijection
  <2> QED BY <1>8, <2>1, CountType, FS_Bijection DEF Count
<1>10. 1 \in Places(q, S) <=> q[1] \in S
  BY <1>1 DEF Places
<1>11. Cardinality(rest) = IF 1 \in Places(q, S) THEN Count(q, S) - 1 ELSE Count(q, S)
  BY CountType, FS_RemoveElement DEF Count
<1> QED BY <1>2, <1>9, <1>10, <1>11

LEMMA CountZero ==
  ASSUME NEW q \in Seq(Entries), NEW S, NEW i \in 1..Len(q), q[i] \in S
  PROVE  Count(q, S) > 0
<1>1. i \in Places(q, S)
  BY DEF Places
<1>2. IsFiniteSet(Places(q, S)) /\ Count(q, S) \in Nat
  BY CountType
<1> QED BY <1>1, <1>2, FS_EmptySet DEF Count

-----------------------------------------------------------------------------
(* The steps *)

LEMMA NextCases ==
  ASSUME [Next]_vars
  PROVE  \/ \E active : SetTagFilter(active)
         \/ OpenPopover \/ ChipsRebuildIdle
         \/ \E t : SelectExtension(t)
         \/ \E w \in Widths : Resize(w)
         \/ \E e \in Entries : OnLogEntry(e)
         \/ \E b : ToggleStatDot(b)
         \/ OnSearchChanged \/ OnClear \/ CaptureStep \/ DoStart \/ DoStop \/ Restart
         \/ UNCHANGED vars
BY DEF Next, TagBarStep, EntryStep, ToggleInlineChip, TogglePopoverRow, TogglePinChip, ClearTags

\* The capture panel is all a capture step changes.
LEMMA CaptureStepKeeps ==
  ASSUME CaptureStep
  PROVE  UNCHANGED <<windowVars, filterVars, rows, chipVars, running, reading, arrived, restarts>> /\ ~running
BY DEF CaptureStep, ChangeControls, ToggleRaw, OnRawEntryChanged, Change

-----------------------------------------------------------------------------
(* The window and its counts *)

ByBucket(b) == {e \in Entries : e.bucket = b}
ByTag(t) == {e \in Entries : e.tag = t}

WindowTypes ==
  /\ entries \in Seq(Entries) /\ Len(entries) <= MaxEntries
  /\ bucketCounts \in [Buckets -> Nat] /\ tagCounts \in [Tags -> Nat]

CountInv ==
  /\ \A b \in Buckets : bucketCounts[b] = Count(entries, ByBucket(b))
  /\ \A t \in Tags : tagCounts[t] = Count(entries, ByTag(t))

WindowInv == WindowTypes /\ CountInv

LEMMA EmptyWindow ==
  ASSUME NEW q, q = <<>>, NEW bc, bc = [b \in Buckets |-> 0], NEW tc, tc = [t \in Tags |-> 0]
  PROVE  /\ q \in Seq(Entries) /\ Len(q) <= MaxEntries
         /\ bc \in [Buckets -> Nat] /\ tc \in [Tags -> Nat]
         /\ \A b \in Buckets : bc[b] = Count(q, ByBucket(b))
         /\ \A t \in Tags : tc[t] = Count(q, ByTag(t))
BY CountEmpty, EmptySeq, LogViewAssumption

LEMMA EntryTypes == \A e \in Entries : e.bucket \in Buckets /\ e.tag \in Tags
BY LogViewAssumption

\* The counts of a window without its oldest entry, once that is evicted.
LEMMA Evicted ==
  ASSUME WindowInv, Evicts
  PROVE  /\ entries # <<>> /\ entries[1] \in Entries /\ Tail(entries) \in Seq(Entries)
         /\ Len(Tail(entries)) = Len(entries) - 1 /\ 1 \in 1..Len(entries)
         /\ Without(bucketCounts, entries[1].bucket) \in [Buckets -> Nat]
         /\ Without(tagCounts, entries[1].tag) \in [Tags -> Nat]
         /\ \A b \in Buckets :
              Without(bucketCounts, entries[1].bucket)[b] = Count(Tail(entries), ByBucket(b))
         /\ \A t \in Tags : Without(tagCounts, entries[1].tag)[t] = Count(Tail(entries), ByTag(t))
<1>1. Len(entries) \in Nat \ {0} /\ entries \in Seq(Entries)
  BY LogViewAssumption DEF Evicts, WindowInv, WindowTypes
<1>2. entries # <<>> /\ 1 \in 1..Len(entries)
  BY <1>1, EmptySeq
<1>3. Tail(entries) \in Seq(Entries) /\ Len(Tail(entries)) = Len(entries) - 1
  BY <1>1, <1>2, HeadTailProperties
<1>4. PICK e \in Entries : e = entries[1]
  BY <1>1, <1>2, ElementOfSeq
<1>5. e.bucket \in Buckets /\ e.tag \in Tags
  BY EntryTypes
<1>6. Count(entries, ByBucket(e.bucket)) > 0 /\ Count(entries, ByTag(e.tag)) > 0
  BY <1>1, <1>2, <1>4, CountZero DEF ByBucket, ByTag
<1>7. /\ bucketCounts[e.bucket] - 1 \in Nat /\ tagCounts[e.tag] - 1 \in Nat
      /\ bucketCounts \in [Buckets -> Nat] /\ tagCounts \in [Tags -> Nat]
  BY <1>5, <1>6 DEF WindowInv, WindowTypes, CountInv
<1>8. /\ Without(bucketCounts, e.bucket) \in [Buckets -> Nat]
      /\ Without(tagCounts, e.tag) \in [Tags -> Nat]
  BY <1>5, <1>7 DEF Without
<1>9. \A b \in Buckets : Without(bucketCounts, e.bucket)[b] = Count(Tail(entries), ByBucket(b))
  <2> SUFFICES ASSUME NEW b \in Buckets
               PROVE  Without(bucketCounts, e.bucket)[b] = Count(Tail(entries), ByBucket(b))
    OBVIOUS
  <2>1. e \in ByBucket(b) <=> b = e.bucket
    BY DEF ByBucket
  <2>2. Count(Tail(entries), ByBucket(b)) =
          IF e \in ByBucket(b) THEN Count(entries, ByBucket(b)) - 1 ELSE Count(entries, ByBucket(b))
    BY <1>1, <1>2, <1>4, CountTail
  <2> QED BY <1>7, <2>1, <2>2 DEF Without, WindowInv, CountInv
<1>10. \A t \in Tags : Without(tagCounts, e.tag)[t] = Count(Tail(entries), ByTag(t))
  <2> SUFFICES ASSUME NEW t \in Tags
               PROVE  Without(tagCounts, e.tag)[t] = Count(Tail(entries), ByTag(t))
    OBVIOUS
  <2>1. e \in ByTag(t) <=> t = e.tag
    BY DEF ByTag
  <2>2. Count(Tail(entries), ByTag(t)) =
          IF e \in ByTag(t) THEN Count(entries, ByTag(t)) - 1 ELSE Count(entries, ByTag(t))
    BY <1>1, <1>2, <1>4, CountTail
  <2> QED BY <1>7, <2>1, <2>2 DEF Without, WindowInv, CountInv
<1> QED BY <1>2, <1>3, <1>4, <1>8, <1>9, <1>10

\* An entry is added to a window q that has room for it.
LEMMA Added ==
  ASSUME NEW q \in Seq(Entries), NEW e \in Entries, Len(q) < MaxEntries,
         NEW bc \in [Buckets -> Nat], NEW tc \in [Tags -> Nat],
         \A b \in Buckets : bc[b] = Count(q, ByBucket(b)),
         \A t \in Tags : tc[t] = Count(q, ByTag(t))
  PROVE  /\ Append(q, e) \in Seq(Entries) /\ Len(Append(q, e)) <= MaxEntries
         /\ With(bc, e.bucket) \in [Buckets -> Nat] /\ With(tc, e.tag) \in [Tags -> Nat]
         /\ \A b \in Buckets : With(bc, e.bucket)[b] = Count(Append(q, e), ByBucket(b))
         /\ \A t \in Tags : With(tc, e.tag)[t] = Count(Append(q, e), ByTag(t))
<1>1. Append(q, e) \in Seq(Entries) /\ Len(Append(q, e)) = Len(q) + 1 /\ Len(q) \in Nat
  BY AppendProperties, LenProperties
<1>2. MaxEntries \in Nat
  BY LogViewAssumption
<1>3. e.bucket \in Buckets /\ e.tag \in Tags
  BY EntryTypes
<1>4. With(bc, e.bucket) \in [Buckets -> Nat] /\ With(tc, e.tag) \in [Tags -> Nat]
  BY <1>3 DEF With
<1>5. \A b \in Buckets : With(bc, e.bucket)[b] = Count(Append(q, e), ByBucket(b))
  <2> SUFFICES ASSUME NEW b \in Buckets
               PROVE  With(bc, e.bucket)[b] = Count(Append(q, e), ByBucket(b))
    OBVIOUS
  <2>1. e \in ByBucket(b) <=> b = e.bucket
    BY DEF ByBucket
  <2> QED BY <1>3, <2>1, CountAppend DEF With
<1>6. \A t \in Tags : With(tc, e.tag)[t] = Count(Append(q, e), ByTag(t))
  <2> SUFFICES ASSUME NEW t \in Tags
               PROVE  With(tc, e.tag)[t] = Count(Append(q, e), ByTag(t))
    OBVIOUS
  <2>1. e \in ByTag(t) <=> t = e.tag
    BY DEF ByTag
  <2> QED BY <1>3, <2>1, CountAppend DEF With
<1> QED BY <1>1, <1>2, <1>4, <1>5, <1>6

LEMMA WindowInit == Init => WindowInv
BY EmptyWindow DEF Init, WindowInv, WindowTypes, CountInv

LEMMA EntryWindow ==
  ASSUME WindowInv, NEW e \in Entries, OnLogEntry(e)
  PROVE  WindowInv'
<1>1. CASE Evicts
  <2>1. PICK q \in Seq(Entries) : q = Tail(entries) /\ Len(q) = Len(entries) - 1
    BY <1>1, Evicted
  <2>2. PICK bc \in [Buckets -> Nat] : bc = Without(bucketCounts, entries[1].bucket)
                                       /\ \A b \in Buckets : bc[b] = Count(q, ByBucket(b))
    BY <1>1, <2>1, Evicted
  <2>3. PICK tc \in [Tags -> Nat] : tc = Without(tagCounts, entries[1].tag)
                                    /\ \A t \in Tags : tc[t] = Count(q, ByTag(t))
    BY <1>1, <2>1, Evicted
  <2>4. entries' = Append(q, e) /\ bucketCounts' = With(bc, e.bucket) /\ tagCounts' = With(tc, e.tag)
    BY <1>1, <2>1, <2>2, <2>3 DEF OnLogEntry
  <2>5. Len(q) < MaxEntries
    BY <1>1, <2>1, LogViewAssumption DEF Evicts
  <2>6. /\ Append(q, e) \in Seq(Entries) /\ Len(Append(q, e)) <= MaxEntries
        /\ With(bc, e.bucket) \in [Buckets -> Nat] /\ With(tc, e.tag) \in [Tags -> Nat]
        /\ \A b \in Buckets : With(bc, e.bucket)[b] = Count(Append(q, e), ByBucket(b))
        /\ \A t \in Tags : With(tc, e.tag)[t] = Count(Append(q, e), ByTag(t))
    BY <2>2, <2>3, <2>5, Added
  <2> QED BY <2>4, <2>6 DEF WindowInv, WindowTypes, CountInv
<1>2. CASE ~Evicts
  <2>1. entries' = Append(entries, e) /\ bucketCounts' = With(bucketCounts, e.bucket)
        /\ tagCounts' = With(tagCounts, e.tag)
    BY <1>2 DEF OnLogEntry
  <2>2. Len(entries) < MaxEntries
    BY <1>2, LogViewAssumption, LenProperties DEF Evicts, WindowInv, WindowTypes
  <2> QED BY <2>1, <2>2, Added DEF WindowInv, WindowTypes, CountInv
<1> QED BY <1>1, <1>2

LEMMA WindowStep ==
  ASSUME WindowInv, [Next]_vars
  PROVE  WindowInv'
<1>1. ASSUME UNCHANGED windowVars
      PROVE  WindowInv'
  BY <1>1 DEF windowVars, WindowInv, WindowTypes, CountInv
<1>2. CASE OnClear \/ Restart
  <2>1. PICK q, bc, tc : q = entries' /\ bc = bucketCounts' /\ tc = tagCounts'
    OBVIOUS
  <2>2. q = <<>> /\ bc = [b \in Buckets |-> 0] /\ tc = [t \in Tags |-> 0]
    BY <1>2, <2>1 DEF OnClear, Restart
  <2>3. /\ q \in Seq(Entries) /\ Len(q) <= MaxEntries
        /\ bc \in [Buckets -> Nat] /\ tc \in [Tags -> Nat]
        /\ \A b \in Buckets : bc[b] = Count(q, ByBucket(b))
        /\ \A t \in Tags : tc[t] = Count(q, ByTag(t))
    BY <2>2, EmptyWindow
  <2> QED BY <2>1, <2>3 DEF WindowInv, WindowTypes, CountInv
<1> QED BY <1>1, <1>2, NextCases, EntryWindow, CaptureStepKeeps DEF SetTagFilter, OpenPopover,
      ChipsRebuildIdle, SelectExtension, Resize, ToggleStatDot, OnSearchChanged, DoStart, DoStop, vars

-----------------------------------------------------------------------------
(* The tag bar *)

\* Tags of the window.
Seen(counts) == {t \in Tags : counts[t] > 0}

LEMMA SeenFinite ==
  ASSUME NEW q \in Seq(Entries), NEW counts, \A t \in Tags : counts[t] = Count(q, ByTag(t))
  PROVE  IsFiniteSet(Seen(counts))
<1> DEFINE n == Len(q)
           T == {q[i].tag : i \in 1..n}
           f == [i \in 1..n |-> q[i].tag]
<1>1. IsFiniteSet(1..n)
  BY LenProperties, FS_Interval
<1>2. f \in Surjection(1..n, T)
  <2>1. f \in [1..n -> T] /\ \A t \in T : \E i \in 1..n : f[i] = t
    OBVIOUS
  <2> QED BY <2>1, Fun_IsSurj
<1>3. IsFiniteSet(T)
  BY <1>1, <1>2, FS_Surjection
<1>4. ASSUME NEW t \in Seen(counts)
      PROVE  t \in T
  <2>1. Count(q, ByTag(t)) > 0
    BY <1>4 DEF Seen
  <2>2. IsFiniteSet(Places(q, ByTag(t)))
    BY CountType
  <2>3. Places(q, ByTag(t)) # {}
    BY <2>1, <2>2, FS_EmptySet DEF Count
  <2> QED BY <2>3 DEF Places, ByTag
<1> QED BY <1>3, <1>4, FS_Subset

\* The chips are those of some of the tags, the others are counted in "+N more".
Placed(counts, pin, active) ==
  LET tags == Seen(counts) \ {pin}
  IN  \E T \in SUBSET tags :
        /\ chips' = [t \in T |-> counts[t]]
        /\ chipsOn' = T \cap active
        /\ more' = Cardinality(tags \ T)
        /\ pinMoved' = FALSE

LEMMA RebuiltChips ==
  ASSUME NEW counts, IsFiniteSet(Seen(counts)), RebuildChips(counts, pinTag, activeTags, clearShown)
  PROVE  Placed(counts, pinTag, activeTags)
<1> DEFINE tags == Seen(counts) \ {pinTag}
<1>1. IsFiniteSet(tags)
  BY FS_Difference
<1>2. PICK T \in SUBSET tags :
        /\ chips' = [t \in T |-> counts[t]] /\ chipsOn' = T \cap activeTags
        /\ more' = Cardinality(tags) - Cardinality(T)
        /\ pinMoved' = FALSE
  BY DEF RebuildChips, Seen
<1>3. tags \cap T = T
  OBVIOUS
<1>4. Cardinality(tags \ T) = Cardinality(tags) - Cardinality(T)
  BY <1>1, <1>3, FS_Difference
<1> QED BY <1>2, <1>4 DEF Placed

TagInv ==
  /\ clearShown <=> activeTags # {}
  /\ chipsOn = DOMAIN chips \cap activeTags
  /\ popoverOn = popover \cap activeTags
  /\ pinTag # NoTag => (pinOn <=> pinTag \in activeTags)
  /\ DOMAIN chips \subseteq Tags /\ \A t \in DOMAIN chips : chips[t] = tagCounts[t]
  /\ ~rebuildPending /\ ~pinMoved =>
       LET others == Seen(tagCounts) \ {pinTag}
       IN  DOMAIN chips \subseteq others /\ more = Cardinality(others \ DOMAIN chips)

TagFlags == clearShown \in BOOLEAN /\ pinOn \in BOOLEAN

LEMMA NoChips == DOMAIN <<>> = {}
BY EmptySeq, LenProperties

\* After _rebuild_chips.
LEMMA PlacedInv ==
  ASSUME TagInv, Placed(tagCounts', pinTag, activeTags),
         UNCHANGED <<pinTag, pinOn, popover, popoverOn, clearShown, activeTags>>
  PROVE  TagInv'
<1>1. PICK T \in SUBSET (Seen(tagCounts') \ {pinTag}) :
        /\ chips' = [t \in T |-> tagCounts'[t]] /\ chipsOn' = T \cap activeTags
        /\ more' = Cardinality((Seen(tagCounts') \ {pinTag}) \ T)
  BY DEF Placed
<1>2. DOMAIN chips' = T /\ \A t \in T : chips'[t] = tagCounts'[t]
  BY <1>1
<1>3. T \subseteq Tags
  BY DEF Seen
<1> QED BY <1>1, <1>2, <1>3 DEF TagInv

LEMMA TagInit == Init => TagInv /\ TagFlags
<1> SUFFICES ASSUME Init PROVE TagInv /\ TagFlags
  OBVIOUS
<1>1. Seen(tagCounts) = {}
  BY DEF Init, Seen
<1>2. TagInv
  BY <1>1, NoChips, FS_EmptySet DEF Init, TagInv
<1> QED BY <1>2 DEF Init, TagFlags

\* A flag that is set to whether a tag is filtered by, or is left alone, stays a truth value.
LEMMA FlagKept ==
  ASSUME NEW on, NEW was \in BOOLEAN, NEW x, NEW S, on = (x \in S) \/ on = was
  PROVE  on \in BOOLEAN
<1>1. CASE on = was
  BY <1>1
<1>2. CASE on = (x \in S)
  BY <1>2
<1> QED BY <1>1, <1>2

LEMMA TagFlagsStep ==
  ASSUME TagFlags, [Next]_vars
  PROVE  TagFlags'
<1>1. ASSUME UNCHANGED <<clearShown, pinOn>>
      PROVE  TagFlags'
  BY <1>1 DEF TagFlags
<1>2. ASSUME NEW active, SetTagFilter(active)
      PROVE  TagFlags'
  <2>1. clearShown' = (active # {})
    BY <1>2 DEF SetTagFilter, SyncTagFilter
  <2>2. clearShown' \in BOOLEAN
    BY <2>1
  <2>3. pinOn' = (pinTag \in active) \/ pinOn' = pinOn
    BY <1>2 DEF SetTagFilter, SyncTagFilter
  <2>4. PICK on : on = pinOn'
    OBVIOUS
  <2>5. on \in BOOLEAN
    <3>1. on = (pinTag \in active) \/ on = pinOn
      BY <2>3, <2>4
    <3> QED BY <3>1, FlagKept DEF TagFlags
  <2> QED BY <2>2, <2>4, <2>5 DEF TagFlags
<1>3. ASSUME NEW t, SelectExtension(t)
      PROVE  TagFlags'
  <2>1. pinOn' = (t \in activeTags) \/ pinOn' = pinOn
    BY <1>3 DEF SelectExtension
  <2>2. PICK on : on = pinOn'
    OBVIOUS
  <2>3. on \in BOOLEAN
    <3>1. on = (t \in activeTags) \/ on = pinOn
      BY <2>1, <2>2
    <3> QED BY <3>1, FlagKept DEF TagFlags
  <2>4. clearShown' = clearShown
    BY <1>3 DEF SelectExtension
  <2> QED BY <2>2, <2>3, <2>4 DEF TagFlags
<1>4. CASE OnClear
  <2>1. clearShown' = ({} # {}) /\ (pinOn' = (pinTag \in {}) \/ pinOn' = pinOn)
    BY <1>4 DEF OnClear, SyncTagFilter
  <2>2. PICK on : on = pinOn'
    OBVIOUS
  <2>3. on \in BOOLEAN
    <3>1. on = (pinTag \in {}) \/ on = pinOn
      BY <2>1, <2>2
    <3> QED BY <3>1, FlagKept DEF TagFlags
  <2>4. clearShown' \in BOOLEAN
    BY <2>1
  <2> QED BY <2>2, <2>3, <2>4 DEF TagFlags
<1>5. CASE Restart
  BY <1>5 DEF Restart, TagFlags
<1>6. CASE CaptureStep \/ DoStart \/ DoStop \/ UNCHANGED vars
  BY <1>1, <1>6, CaptureStepKeeps DEF DoStart, DoStop, vars, chipVars
<1> QED BY <1>1, <1>2, <1>3, <1>4, <1>5, <1>6, NextCases DEF OpenPopover, ChipsRebuildIdle, Resize,
      OnLogEntry, ToggleStatDot, OnSearchChanged, chipVars

LEMMA TagStep ==
  ASSUME WindowInv, WindowInv', TagInv, [Next]_vars
  PROVE  TagInv'
<1>1. ASSUME UNCHANGED <<tagCounts, activeTags, chipVars>>
      PROVE  TagInv'
  BY <1>1 DEF TagInv, chipVars
<1>2. IsFiniteSet(Seen(tagCounts')) /\ IsFiniteSet(Seen(tagCounts))
  <2>1. IsFiniteSet(Seen(tagCounts'))
    BY SeenFinite DEF WindowInv, WindowTypes, CountInv
  <2>2. IsFiniteSet(Seen(tagCounts))
    BY SeenFinite DEF WindowInv, WindowTypes, CountInv
  <2> QED BY <2>1, <2>2
<1>3. ASSUME NEW active, SetTagFilter(active)
      PROVE  TagInv'
  <2>1. /\ activeTags' = active /\ chipsOn' = DOMAIN chips \cap active
        /\ pinTag # NoTag => pinOn' = (pinTag \in active)
        /\ popoverOn' = popover \cap active
        /\ UNCHANGED <<tagCounts, pinTag, chips, more, popover, rebuildPending, pinMoved>>
    BY <1>3 DEF SetTagFilter, SyncTagFilter, windowVars
  <2>2. clearShown' <=> active # {}
    BY <1>3 DEF SetTagFilter, SyncTagFilter
  <2>3. pinTag # NoTag => (pinOn' <=> pinTag \in active)
    BY <2>1
  <2> QED BY <2>1, <2>2, <2>3 DEF TagInv
<1>4. CASE OpenPopover
  <2>1. /\ popoverOn' = popover' \cap activeTags
        /\ UNCHANGED <<tagCounts, activeTags, pinTag, pinOn, chips, chipsOn, more, clearShown,
                       rebuildPending, pinMoved>>
    BY <1>4 DEF OpenPopover, windowVars, filterVars
  <2> QED BY <2>1 DEF TagInv
<1>5. CASE ChipsRebuildIdle
  <2>1. /\ RebuildChips(tagCounts, pinTag, activeTags, clearShown)
        /\ UNCHANGED <<tagCounts, pinTag, pinOn, popover, popoverOn, clearShown, activeTags>>
    BY <1>5 DEF ChipsRebuildIdle, windowVars, filterVars
  <2>2. Placed(tagCounts, pinTag, activeTags)
    BY <1>2, <2>1, RebuiltChips
  <2>3. Placed(tagCounts', pinTag, activeTags)
    BY <2>1, <2>2 DEF Placed
  <2> QED BY <2>1, <2>3, PlacedInv
<1>6. ASSUME NEW t, SelectExtension(t)
      PROVE  TagInv'
  <2>1. /\ pinTag' = t /\ pinMoved' = (t # pinTag \/ pinMoved)
        /\ UNCHANGED <<tagCounts, activeTags, chips, chipsOn, more, popover, popoverOn, clearShown,
                       rebuildPending>>
    BY <1>6 DEF SelectExtension, windowVars, filterVars
  <2>2. t # NoTag => (pinOn' <=> t \in activeTags)
    BY <1>6 DEF SelectExtension
  <2>3. ~pinMoved' => pinTag' = pinTag /\ ~pinMoved
    BY <2>1
  <2> QED BY <2>1, <2>2, <2>3 DEF TagInv
<1>7. ASSUME NEW w \in Widths, Resize(w)
      PROVE  TagInv'
  BY <1>7 DEF Resize, TagInv, windowVars, filterVars
<1>8. ASSUME NEW e \in Entries, OnLogEntry(e)
      PROVE  TagInv'
  <2>1. UNCHANGED <<activeTags, pinTag, pinOn, popover, popoverOn, clearShown>>
    BY <1>8 DEF OnLogEntry, filterVars
  <2>2. \/ RebuildChips(tagCounts', pinTag, activeTags, clearShown)
        \/ RefreshChipCounts(tagCounts')
    BY <1>8 DEF OnLogEntry
  <2>3. PICK counts : counts = tagCounts'
    OBVIOUS
  <2>4. CASE RebuildChips(tagCounts', pinTag, activeTags, clearShown)
    <3>1. RebuildChips(counts, pinTag, activeTags, clearShown)
      BY <2>3, <2>4 DEF RebuildChips
    <3>2. IsFiniteSet(Seen(counts))
      BY <1>2, <2>3
    <3>3. Placed(counts, pinTag, activeTags)
      BY <3>1, <3>2, RebuiltChips
    <3>4. Placed(tagCounts', pinTag, activeTags)
      BY <2>3, <3>3 DEF Placed
    <3> QED BY <2>1, <3>4, PlacedInv
  <2>5. CASE RefreshChipCounts(tagCounts')
    <3>1. /\ chips' = [t \in DOMAIN chips |-> tagCounts'[t]] /\ rebuildPending' = TRUE
          /\ UNCHANGED <<chipsOn, more, pinMoved>>
      BY <2>5 DEF RefreshChipCounts
    <3>2. DOMAIN chips' = DOMAIN chips /\ \A t \in DOMAIN chips : chips'[t] = tagCounts'[t]
      BY <3>1
    <3> QED BY <2>1, <3>1, <3>2 DEF TagInv
  <2> QED BY <2>2, <2>4, <2>5
<1>9. CASE OnClear
  <2>1. /\ tagCounts' = [t \in Tags |-> 0] /\ activeTags' = {} /\ chips' = <<>> /\ more' = 0
        /\ chipsOn' = {} \cap {} /\ popoverOn' = popover \cap {} /\ UNCHANGED <<pinTag, popover>>
        /\ pinTag # NoTag => pinOn' = (pinTag \in {})
    BY <1>9 DEF OnClear, SyncTagFilter
  <2>2. ~clearShown'
    BY <1>9 DEF OnClear, SyncTagFilter
  <2>3. Seen(tagCounts') = {}
    BY <2>1 DEF Seen
  <2> QED BY <2>1, <2>2, <2>3, NoChips, FS_EmptySet DEF TagInv
<1>10. CASE Restart
  <2>1. /\ tagCounts' = [t \in Tags |-> 0] /\ activeTags' = {} /\ chips' = <<>> /\ more' = 0
        /\ chipsOn' = {} /\ popoverOn' = {} /\ popover' = {} /\ pinTag' = NoTag /\ ~clearShown'
    BY <1>10 DEF Restart
  <2>2. Seen(tagCounts') = {}
    BY <2>1 DEF Seen
  <2> QED BY <2>1, <2>2, NoChips, FS_EmptySet DEF TagInv
<1> QED BY <1>1, <1>3, <1>4, <1>5, <1>6, <1>7, <1>8, <1>9, <1>10, NextCases, CaptureStepKeeps
      DEF ToggleStatDot, OnSearchChanged, DoStart, DoStop, vars, windowVars, filterVars

\* The numbers on the dots and chips are those of the window: _on_log_entry counts the new entry,
\* uncounts the one it evicts, and _refresh_chip_counts and _rebuild_chips put the counts on the
\* chips at once, for any window size and entries.
THEOREM CountsAlwaysOfWindow == Spec => []CountsAreOfWindow
<1>1. WindowInv /\ TagInv /\ [Next]_vars => (WindowInv /\ TagInv)'
  BY WindowStep, TagStep
<1>2. WindowInv /\ TagInv => CountsAreOfWindow
  <2> SUFFICES ASSUME WindowInv, TagInv PROVE CountsAreOfWindow
    OBVIOUS
  <2>1. entries \in Seq(Entries)
    BY DEF WindowInv, WindowTypes
  <2>2. DOMAIN entries = 1..Len(entries) /\ \A i \in 1..Len(entries) : entries[i] \in Entries
    BY <2>1, LenProperties, ElementOfSeq
  <2>3. ASSUME NEW b \in Buckets
        PROVE  bucketCounts[b] = Occurrences(LAMBDA e : e.bucket = b)
    <3>1. {i \in DOMAIN entries : entries[i].bucket = b} = Places(entries, ByBucket(b))
      BY <2>2 DEF Places, ByBucket
    <3> QED BY <3>1 DEF Occurrences, WindowInv, CountInv, Count
  <2>4. ASSUME NEW t \in Tags
        PROVE  tagCounts[t] = Occurrences(LAMBDA e : e.tag = t)
    <3>1. {i \in DOMAIN entries : entries[i].tag = t} = Places(entries, ByTag(t))
      BY <2>2 DEF Places, ByTag
    <3> QED BY <3>1 DEF Occurrences, WindowInv, CountInv, Count
  <2> QED BY <2>3, <2>4 DEF CountsAreOfWindow, TagInv
<1> QED BY <1>1, <1>2, WindowInit, TagInit, PTL DEF Spec

\* The tag bar tells the truth: each chip, popover row, the pinned chip and the Clear button show
\* whether their tag is filtered by, and each tag of the window is pinned, has a chip or is counted
\* in "+N more", however wide the bar is and whatever arrives while a rebuild waits for the idle.
THEOREM TagBarAlwaysTells == Spec => []TagBarTells
<1>1. WindowInv /\ TagInv /\ TagFlags /\ [Next]_vars => (WindowInv /\ TagInv /\ TagFlags)'
  BY WindowStep, TagStep, TagFlagsStep
<1>2. TagInv /\ TagFlags => TagBarTells
  <2> SUFFICES ASSUME TagInv, TagFlags PROVE TagBarTells
    OBVIOUS
  <2>1. clearShown = (activeTags # {})
    BY DEF TagInv, TagFlags
  <2>2. pinTag # NoTag => pinOn = (pinTag \in activeTags)
    BY DEF TagInv, TagFlags
  <2> QED BY <2>1, <2>2 DEF TagInv, TagBarTells, Seen
<1> QED BY <1>1, <1>2, WindowInit, TagInit, PTL DEF Spec

-----------------------------------------------------------------------------
(* The capture settings *)

Files == [capture : {<<>>} \cup {<<c>> : c \in Captures}, legacy : {NoText} \cup Typed]

CaptureInv ==
  /\ capture \in Captures /\ saved \in Files /\ restarts \in Nat
  /\ ~unsaved => FromSettings(saved) = capture
  /\ running => reading = Command(capture)

LEMMA FromSettingsProperties ==
  /\ \A file \in Files : FromSettings(file) \in Captures
  /\ \A spec \in Captures : /\ [capture |-> <<spec>>, legacy |-> NoText] \in Files
                            /\ FromSettings([capture |-> <<spec>>, legacy |-> NoText]) = spec
<1>1. DefaultCapture \in Captures
  BY LogViewAssumption DEF DefaultCapture, Captures
<1>2. \A spec : Head(<<spec>>) = spec /\ <<spec>> # <<>>
  OBVIOUS
<1>3. ASSUME NEW file \in Files
      PROVE  FromSettings(file) \in Captures
  <2>1. CASE file.capture # <<>>
    <3>1. PICK c \in Captures : file.capture = <<c>>
      BY <2>1 DEF Files
    <3> QED BY <1>2, <2>1, <3>1 DEF FromSettings
  <2>2. CASE file.capture = <<>> /\ file.legacy # NoText
    <3>1. file.legacy \in Typed
      BY <2>2 DEF Files
    <3>2. [DefaultCapture EXCEPT !.raw = TRUE, !.text = file.legacy] \in Captures
      BY <1>1, <3>1 DEF Captures
    <3> QED BY <2>2, <3>2 DEF FromSettings
  <2>3. CASE file.capture = <<>> /\ file.legacy = NoText
    BY <1>1, <2>3 DEF FromSettings
  <2> QED BY <2>1, <2>2, <2>3
<1>4. ASSUME NEW spec \in Captures
      PROVE  /\ [capture |-> <<spec>>, legacy |-> NoText] \in Files
             /\ FromSettings([capture |-> <<spec>>, legacy |-> NoText]) = spec
  BY <1>2 DEF Files, FromSettings
<1> QED BY <1>3, <1>4

\* What a change of the panel may do: the reader is off, and a raw command that was given is
\* replaced only by another one that is typed.
LEMMA CaptureStepProperties ==
  ASSUME CaptureInv, CaptureStep
  PROVE  /\ ~running /\ UNCHANGED <<running, reading, restarts>>
         /\ capture' \in Captures
         /\ \/ saved' = [capture |-> <<capture'>>, legacy |-> NoText] /\ unsaved' = FALSE
            \/ UNCHANGED saved /\ unsaved' = TRUE
         /\ capture.text # NoText /\ capture'.text # capture.text => capture.raw /\ capture'.raw
<1>1. capture \in Captures
  BY DEF CaptureInv
<1>2. ASSUME NEW c \in Commands, ChangeControls(c)
      PROVE  capture' \in Captures /\ capture'.text = capture.text
  <2>1. capture' = [capture EXCEPT !.controls = c]
    BY <1>2 DEF ChangeControls, Change
  <2> QED BY <1>1, <2>1 DEF Captures
<1>3. ASSUME ToggleRaw
      PROVE  /\ capture' \in Captures
             /\ capture.text # NoText => capture'.text = capture.text
  <2>1. \/ capture' = [capture EXCEPT !.raw = FALSE]
        \/ capture.text = NoText /\ capture' = [capture EXCEPT !.raw = TRUE, !.text = capture.controls]
        \/ capture' = [capture EXCEPT !.raw = TRUE]
    BY <1>3 DEF ToggleRaw, Change
  <2>2. capture' \in Captures
    BY <1>1, <2>1 DEF Captures
  <2>3. capture.text # NoText => capture'.text = capture.text
    BY <1>1, <2>1 DEF Captures
  <2> QED BY <2>2, <2>3
<1>4. ASSUME NEW text \in Typed \cup {NoText}, OnRawEntryChanged(text)
      PROVE  capture' \in Captures /\ capture.raw /\ capture'.raw
  <2>1. capture.raw /\ capture' = [capture EXCEPT !.text = text]
    BY <1>4 DEF OnRawEntryChanged, Change
  <2> QED BY <1>1, <2>1 DEF Captures
<1>5. /\ ~running /\ UNCHANGED <<running, reading, restarts>>
      /\ \/ saved' = [capture |-> <<capture'>>, legacy |-> NoText] /\ unsaved' = FALSE
         \/ UNCHANGED saved /\ unsaved' = TRUE
  BY DEF CaptureStep, ChangeControls, ToggleRaw, OnRawEntryChanged, Change
<1> QED BY <1>2, <1>3, <1>4, <1>5 DEF CaptureStep

LEMMA CaptureInit == Init => CaptureInv
<1> SUFFICES ASSUME Init PROVE CaptureInv
  OBVIOUS
<1>1. saved \in Files
  BY DEF Init, Files
<1> QED BY <1>1, FromSettingsProperties DEF Init, CaptureInv

LEMMA CaptureKeeps ==
  ASSUME CaptureInv, [Next]_vars
  PROVE  /\ CaptureInv'
         /\ (restarts' # restarts /\ ~unsaved) => capture' = capture
         /\ (capture.text # NoText /\ capture'.text # capture.text) =>
              (capture.raw /\ capture'.raw) \/ (restarts' # restarts /\ unsaved)
         /\ running' => reading' = Command(capture')
<1>1. ASSUME UNCHANGED <<running, reading, captureVars, restarts>>
      PROVE  CaptureInv' /\ restarts' = restarts /\ capture' = capture
             /\ (running' => reading' = Command(capture'))
  BY <1>1 DEF CaptureInv, captureVars
<1>2. CASE CaptureStep
  <2>0. ~running /\ UNCHANGED <<running, restarts>> /\ capture' \in Captures
    BY <1>2, CaptureStepProperties
  <2>1. \/ saved' = [capture |-> <<capture'>>, legacy |-> NoText] /\ unsaved' = FALSE
        \/ UNCHANGED saved /\ unsaved' = TRUE
    BY <1>2, CaptureStepProperties
  <2>2. PICK spec \in Captures : spec = capture'
    BY <2>0
  <2>3. saved' \in Files /\ (~unsaved' => FromSettings(saved') = spec)
    BY <2>1, <2>2, FromSettingsProperties DEF CaptureInv
  <2>4. CaptureInv'
    BY <2>0, <2>2, <2>3 DEF CaptureInv
  <2> QED BY <1>2, <2>4, CaptureStepProperties
<1>3. CASE DoStart \/ DoStop
  BY <1>3 DEF DoStart, DoStop, CaptureInv, captureVars
<1>4. CASE Restart
  <2>1. capture' = FromSettings(saved) /\ saved' = saved /\ running' = FALSE
    BY <1>4 DEF Restart
  <2>2. CaptureInv'
    BY <1>4, <2>1, FromSettingsProperties DEF CaptureInv, Restart
  <2>3. ~unsaved => capture' = capture
    BY <2>1 DEF CaptureInv
  <2>4. restarts' # restarts
    BY <1>4 DEF Restart, CaptureInv
  <2> QED BY <2>1, <2>2, <2>3, <2>4
<1> QED BY <1>1, <1>2, <1>3, <1>4, NextCases DEF SetTagFilter, OpenPopover, ChipsRebuildIdle,
      SelectExtension, Resize, OnLogEntry, ToggleStatDot, OnSearchChanged, OnClear, vars

\* The capture settings outlive the app when they could be written, also those an older version
\* left; a raw command is lost only to one that is typed, or to a restart after a write that
\* failed; and a running tail reads what the panel says.
THEOREM CaptureIsKept == Spec => CaptureKept
<1>1. CaptureInv /\ [Next]_vars =>
        /\ CaptureInv'
        /\ [/\ (restarts' # restarts /\ ~unsaved) => capture' = capture
            /\ (capture.text # NoText /\ capture'.text # capture.text) =>
                 (capture.raw /\ capture'.raw) \/ (restarts' # restarts /\ unsaved)
            /\ running' => reading' = Command(capture')]_vars
  BY CaptureKeeps
<1> QED BY <1>1, CaptureInit, PTL DEF Spec, CaptureKept

-----------------------------------------------------------------------------
(* The entries that pass.  The library's theorems on induction take an operator, so induction over *)
(* the natural numbers is taken from the well-foundedness of the subset order on finite sets:      *)
(* a set of numbers that is not empty has a least one.                                             *)

LEMMA LeastNumber ==
  ASSUME NEW T \in SUBSET Nat, T # {}
  PROVE  \E n \in T : \A m \in T : n <= m
<1> DEFINE Starts == {0..n : n \in T}
<1>1. \A n \in T : 0..n \in FiniteSubsetsOf(Nat)
  BY FS_Interval DEF FiniteSubsetsOf
<1>2. Starts \subseteq FiniteSubsetsOf(Nat) /\ Starts # {}
  BY <1>1
<1>3. PICK x \in Starts : \A y \in Starts : ~(<<y, x>> \in StrictSubsetOrdering(Nat))
  BY <1>2, FS_StrictSubsetOrderingWellFounded, WFMin
<1>4. PICK n \in T : x = 0..n
  OBVIOUS
<1>5. ASSUME NEW m \in T, ~(n <= m)
      PROVE  FALSE
  <2>1. 0..m \in Starts /\ 0..m \subseteq 0..n /\ n \in 0..n /\ n \notin 0..m
    BY <1>5
  <2>2. <<0..m, 0..n>> \in StrictSubsetOrdering(Nat)
    BY <2>1 DEF StrictSubsetOrdering
  <2> QED BY <1>3, <1>4, <2>1, <2>2
<1> QED BY <1>5

LEMMA Induction ==
  ASSUME NEW T, 0 \in T, \A n \in Nat : n \in T => n + 1 \in T
  PROVE  \A n \in Nat : n \in T
<1> SUFFICES ASSUME Nat \ T # {} PROVE FALSE
  OBVIOUS
<1>1. PICK n \in Nat \ T : \A m \in Nat \ T : n <= m
  BY LeastNumber
<1>2. n # 0 /\ n - 1 \in Nat /\ (n - 1) + 1 = n /\ ~(n <= n - 1)
  BY <1>1
<1>3. n - 1 \in T
  BY <1>1, <1>2
<1> QED BY <1>1, <1>2, <1>3

\* f follows q and keeps what is in S.
Follows(f, q, S, n) ==
  f = [k \in 0..n |-> IF k = 0 THEN <<>>
                      ELSE IF q[k] \in S THEN Append(f[k - 1], q[k]) ELSE f[k - 1]]

LEMMA FollowsProperties ==
  ASSUME NEW f, NEW q, NEW S, NEW n \in Nat, Follows(f, q, S, n)
  PROVE  /\ f[0] = <<>>
         /\ \A k \in 1..n : f[k] = IF q[k] \in S THEN Append(f[k - 1], q[k]) ELSE f[k - 1]
<1>1. PICK g : g = f
  OBVIOUS
<1>2. f = [k \in 0..n |-> IF k = 0 THEN <<>>
                          ELSE IF q[k] \in S THEN Append(g[k - 1], q[k]) ELSE g[k - 1]]
  BY <1>1 DEF Follows
<1>3. 0 \in 0..n
  OBVIOUS
<1>4. f[0] = <<>>
  BY <1>2, <1>3
<1>5. ASSUME NEW k \in 1..n
      PROVE  f[k] = IF q[k] \in S THEN Append(f[k - 1], q[k]) ELSE f[k - 1]
  <2>1. k \in 0..n /\ k # 0
    BY <1>5
  <2>2. f[k] = IF q[k] \in S THEN Append(g[k - 1], q[k]) ELSE g[k - 1]
    BY <1>2, <2>1
  <2> QED BY <1>1, <2>2
<1> QED BY <1>4, <1>5

LEMMA FollowsExists ==
  ASSUME NEW q, NEW S
  PROVE  \A n \in Nat : \E f : Follows(f, q, S, n)
<1> DEFINE T == {n \in Nat : \E f : Follows(f, q, S, n)}
<1>1. 0 \in T
  <2>1. PICK f : f = [k \in 0..0 |-> <<>>]
    OBVIOUS
  <2>2. Follows(f, q, S, 0)
    BY <2>1 DEF Follows
  <2> QED BY <2>2
<1>2. ASSUME NEW n \in Nat, n \in T
      PROVE  n + 1 \in T
  <2>1. PICK f : Follows(f, q, S, n)
    BY <1>2
  <2>2. PICK next : next = IF q[n + 1] \in S THEN Append(f[n], q[n + 1]) ELSE f[n]
    OBVIOUS
  <2>3. PICK g : g = [k \in 0..(n + 1) |-> IF k = n + 1 THEN next ELSE f[k]]
    OBVIOUS
  <2>4. g[n + 1] = next /\ \A k \in 0..n : g[k] = f[k]
    BY <2>3
  <2>5. \A k \in 0..(n + 1) : g[k] = IF k = 0 THEN <<>>
                                     ELSE IF q[k] \in S THEN Append(g[k - 1], q[k]) ELSE g[k - 1]
    <3> SUFFICES ASSUME NEW k \in 0..(n + 1)
                 PROVE  g[k] = IF k = 0 THEN <<>>
                               ELSE IF q[k] \in S THEN Append(g[k - 1], q[k]) ELSE g[k - 1]
      OBVIOUS
    <3>1. CASE k = 0
      BY <2>1, <2>4, <3>1, FollowsProperties
    <3>2. CASE k \in 1..n
      <4>1. k - 1 \in 0..n /\ k \in 0..n /\ k # 0
        BY <3>2
      <4> QED BY <2>1, <2>4, <3>2, <4>1, FollowsProperties
    <3>3. CASE k = n + 1
      <4>1. k - 1 = n /\ n \in 0..n /\ k # 0
        BY <3>3
      <4> QED BY <2>2, <2>4, <3>3, <4>1
    <3> QED BY <3>1, <3>2, <3>3
  <2>6. g = [k \in 0..(n + 1) |-> g[k]]
    BY <2>3
  <2>7. Follows(g, q, S, n + 1)
    BY <2>5, <2>6 DEF Follows
  <2> QED BY <2>7
<1>3. PICK K : K = T
  OBVIOUS
<1>4. \A n \in Nat : n \in K
  <2>1. 0 \in K /\ \A n \in Nat : n \in K => n + 1 \in K
    BY <1>1, <1>2, <1>3
  <2> QED BY <2>1, Induction
<1> QED BY <1>3, <1>4

LEMMA PassingFollows ==
  ASSUME NEW q \in Seq(Entries), NEW S
  PROVE  \E f : Follows(f, q, S, Len(q)) /\ Passing(q, S) = f[Len(q)]
<1>1. \E f : Follows(f, q, S, Len(q))
  BY FollowsExists, LenProperties
<1> DEFINE f == CHOOSE g : g = [k \in 0..Len(q) |-> IF k = 0 THEN <<>>
                      ELSE IF q[k] \in S THEN Append(g[k - 1], q[k]) ELSE g[k - 1]]
<1>2. Follows(f, q, S, Len(q))
  BY <1>1 DEF Follows
<1>3. Passing(q, S) = f[Len(q)]
  BY DEF Passing
<1> QED BY <1>2, <1>3

\* The entries that pass are entries of the set.
LEMMA FollowsType ==
  ASSUME NEW q \in Seq(Entries), NEW S, NEW f, Follows(f, q, S, Len(q))
  PROVE  \A k \in 0..Len(q) : f[k] \in Seq(Entries \cap S)
<1>1. PICK n \in Nat : n = Len(q)
  BY LenProperties
<1>2. PICK K : K = {k \in Nat : k <= n => f[k] \in Seq(Entries \cap S)}
  OBVIOUS
<1>3. 0 \in K
  <2>1. f[0] = <<>>
    BY <1>1, FollowsProperties
  <2>2. <<>> \in Seq(Entries \cap S)
    BY EmptySeq
  <2> QED BY <1>1, <1>2, <2>1, <2>2
<1>4. ASSUME NEW k \in Nat, k \in K
      PROVE  k + 1 \in K
  <2> SUFFICES ASSUME k + 1 <= n PROVE f[k + 1] \in Seq(Entries \cap S)
    BY <1>2
  <2>1. k + 1 \in 1..n /\ (k + 1) - 1 = k
    OBVIOUS
  <2>2. f[k + 1] = IF q[k + 1] \in S THEN Append(f[k], q[k + 1]) ELSE f[k]
    BY <1>1, <2>1, FollowsProperties
  <2>3. f[k] \in Seq(Entries \cap S)
    BY <1>2, <1>4
  <2>4. q[k + 1] \in Entries
    BY <1>1, <2>1, ElementOfSeq
  <2> QED BY <2>2, <2>3, <2>4, AppendProperties
<1>5. \A k \in Nat : k \in K
  BY <1>3, <1>4, Induction
<1> QED BY <1>1, <1>2, <1>5

\* Two sequences that begin alike have the same entries that pass so far.
LEMMA FollowsAlike ==
  ASSUME NEW q \in Seq(Entries), NEW p \in Seq(Entries), NEW S, NEW f, NEW g,
         Follows(f, q, S, Len(q)), Follows(g, p, S, Len(p)), NEW n \in Nat,
         n <= Len(q), n <= Len(p), \A i \in 1..n : q[i] = p[i]
  PROVE  f[n] = g[n]
<1>1. PICK K : K = {k \in Nat : k <= n => f[k] = g[k]}
  OBVIOUS
<1>2. Len(q) \in Nat /\ Len(p) \in Nat
  BY LenProperties
<1>3. 0 \in K
  BY <1>1, <1>2, FollowsProperties
<1>4. ASSUME NEW k \in Nat, k \in K
      PROVE  k + 1 \in K
  <2> SUFFICES ASSUME k + 1 <= n PROVE f[k + 1] = g[k + 1]
    BY <1>1
  <2>1. k + 1 \in 1..n /\ k + 1 \in 1..Len(q) /\ k + 1 \in 1..Len(p) /\ (k + 1) - 1 = k
    BY <1>2
  <2>2. f[k + 1] = IF q[k + 1] \in S THEN Append(f[k], q[k + 1]) ELSE f[k]
    BY <1>2, <2>1, FollowsProperties
  <2>3. g[k + 1] = IF p[k + 1] \in S THEN Append(g[k], p[k + 1]) ELSE g[k]
    BY <1>2, <2>1, FollowsProperties
  <2>4. f[k] = g[k]
    BY <1>1, <1>4
  <2> QED BY <2>1, <2>2, <2>3, <2>4
<1>5. \A k \in Nat : k \in K
  BY <1>3, <1>4, Induction
<1> QED BY <1>1, <1>5

LEMMA PassingType ==
  ASSUME NEW q \in Seq(Entries), NEW S
  PROVE  Passing(q, S) \in Seq(Entries \cap S)
<1>1. PICK f : Follows(f, q, S, Len(q)) /\ Passing(q, S) = f[Len(q)]
  BY PassingFollows
<1>2. Len(q) \in 0..Len(q)
  BY LenProperties
<1> QED BY <1>1, <1>2, FollowsType

LEMMA PassingEmpty == \A S : Passing(<<>>, S) = <<>>
<1> SUFFICES ASSUME NEW S PROVE Passing(<<>>, S) = <<>>
  OBVIOUS
<1>1. PICK f : Follows(f, <<>>, S, Len(<<>>)) /\ Passing(<<>>, S) = f[Len(<<>>)]
  BY PassingFollows, EmptySeq
<1>2. Len(<<>>) = 0
  BY EmptySeq
<1> QED BY <1>1, <1>2, FollowsProperties

LEMMA PassingAppend ==
  ASSUME NEW q \in Seq(Entries), NEW e \in Entries, NEW S
  PROVE  Passing(Append(q, e), S) = IF e \in S THEN Append(Passing(q, S), e) ELSE Passing(q, S)
<1>1. PICK n \in Nat : n = Len(q)
  BY LenProperties
<1>0. PICK p : p = Append(q, e)
  OBVIOUS
<1>2. p \in Seq(Entries) /\ Len(p) = n + 1 /\ p[n + 1] = e /\ \A i \in 1..n : p[i] = q[i]
  BY <1>0, <1>1, AppendProperties
<1>3. PICK f : Follows(f, q, S, Len(q)) /\ Passing(q, S) = f[n]
  BY <1>1, PassingFollows
<1>4. PICK g : Follows(g, p, S, Len(p)) /\ Passing(p, S) = g[n + 1]
  BY <1>2, PassingFollows
<1>5. f[n] = g[n]
  <2>1. n <= Len(q) /\ n <= Len(p) /\ \A i \in 1..n : q[i] = p[i]
    BY <1>1, <1>2
  <2> QED BY <1>2, <1>3, <1>4, <2>1, FollowsAlike
<1>6. g[n + 1] = IF e \in S THEN Append(g[n], e) ELSE g[n]
  <2>1. n + 1 \in 1..(n + 1) /\ (n + 1) - 1 = n /\ n + 1 \in Nat /\ Follows(g, p, S, n + 1)
    BY <1>2, <1>4
  <2>2. g[n + 1] = IF p[n + 1] \in S THEN Append(g[(n + 1) - 1], p[n + 1]) ELSE g[(n + 1) - 1]
    BY <2>1, FollowsProperties
  <2> QED BY <1>2, <2>1, <2>2
<1> QED BY <1>0, <1>3, <1>4, <1>5, <1>6

\* The first entry is in front of what passes of the others, if it passes.
First(q, S) == IF q[1] \in S THEN <<q[1]>> ELSE <<>>

LEMMA PassingTail ==
  ASSUME NEW q \in Seq(Entries), q # <<>>, NEW S
  PROVE  First(q, S) \in Seq(Entries \cap S) /\ Passing(q, S) = First(q, S) \o Passing(Tail(q), S)
<1>1. PICK n \in Nat \ {0} : n = Len(q)
  BY EmptySeq
<1>2. PICK p : p = Tail(q)
  OBVIOUS
<1>3. p \in Seq(Entries) /\ Len(p) = n - 1 /\ \A i \in 1..(n - 1) : p[i] = q[i + 1]
  BY <1>1, <1>2, HeadTailProperties
<1>4. PICK f : Follows(f, q, S, n) /\ Passing(q, S) = f[n]
  BY <1>1, PassingFollows
<1>5. PICK g : Follows(g, p, S, n - 1) /\ Passing(p, S) = g[n - 1]
  BY <1>3, PassingFollows
<1>6. PICK T : T = Entries \cap S
  OBVIOUS
<1>7. PICK first : first = First(q, S)
  OBVIOUS
<1>8. first \in Seq(T)
  <2>1. q[1] \in Entries
    BY <1>1, ElementOfSeq
  <2>2. q[1] \in S => <<q[1]>> \in Seq(T)
    <3>1. q[1] \in S => Append(<<>>, q[1]) \in Seq(T)
      BY <1>6, <2>1, EmptySeq, AppendProperties
    <3> QED BY <3>1
  <2>3. <<>> \in Seq(T)
    BY EmptySeq
  <2> QED BY <1>7, <2>2, <2>3 DEF First
<1>9. \A k \in 0..(n - 1) : g[k] \in Seq(T)
  BY <1>3, <1>5, <1>6, FollowsType
<1>10. PICK K : K = {k \in Nat : k <= n - 1 => f[k + 1] = first \o g[k]}
  OBVIOUS
<1>11. 0 \in K
  <2>1. f[0] = <<>> /\ g[0] = <<>>
    BY <1>4, <1>5, FollowsProperties
  <2>2. 1 \in 1..n /\ 1 - 1 = 0
    BY <1>1
  <2>3. f[1] = IF q[1] \in S THEN Append(f[0], q[1]) ELSE f[0]
    <3>1. f[1] = IF q[1] \in S THEN Append(f[1 - 1], q[1]) ELSE f[1 - 1]
      BY <1>4, <2>2, FollowsProperties
    <3> QED BY <3>1, <2>2
  <2>4. f[1] = first
    BY <1>7, <2>1, <2>3 DEF First
  <2>5. first \o <<>> = first
    BY <1>8, ConcatEmptySeq
  <2>6. f[0 + 1] = first \o g[0]
    BY <2>1, <2>4, <2>5
  <2> QED BY <1>10, <2>6
<1>12. ASSUME NEW k \in Nat, k \in K
       PROVE  k + 1 \in K
  <2> SUFFICES ASSUME k + 1 <= n - 1 PROVE f[(k + 1) + 1] = first \o g[k + 1]
    BY <1>10
  <2>1. k + 1 \in 1..(n - 1) /\ (k + 1) - 1 = k /\ k \in 0..(n - 1)
    OBVIOUS
  <2>2. (k + 1) + 1 \in 1..n /\ ((k + 1) + 1) - 1 = k + 1
    OBVIOUS
  <2>3. PICK e : e = p[k + 1]
    OBVIOUS
  <2>4. e = q[(k + 1) + 1] /\ e \in Entries
    BY <1>3, <2>1, <2>3, ElementOfSeq
  <2>5. g[k + 1] = IF e \in S THEN Append(g[k], e) ELSE g[k]
    BY <1>5, <2>1, <2>3, FollowsProperties
  <2>6. f[(k + 1) + 1] = IF e \in S THEN Append(f[k + 1], e) ELSE f[k + 1]
    BY <1>4, <2>2, <2>4, FollowsProperties
  <2>7. f[k + 1] = first \o g[k]
    BY <1>10, <1>12
  <2>8. ASSUME e \in S
        PROVE  Append(first \o g[k], e) = first \o Append(g[k], e)
    <3>1. PICK h \in Seq(T) : h = g[k]
      BY <1>9, <2>1
    <3>2. e \in T /\ <<e>> \in Seq(T)
      BY <1>6, <2>4, <2>8
    <3>3. first \o h \in Seq(T)
      BY <1>8, ConcatProperties
    <3>4. Append(first \o h, e) = (first \o h) \o <<e>>
      BY <3>2, <3>3, AppendIsConcat
    <3>5. (first \o h) \o <<e>> = first \o (h \o <<e>>)
      BY <1>8, <3>2, ConcatAssociative
    <3>6. Append(h, e) = h \o <<e>>
      BY <3>2, AppendIsConcat
    <3> QED BY <3>1, <3>4, <3>5, <3>6
  <2> QED BY <2>5, <2>6, <2>7, <2>8
<1>13. \A k \in Nat : k \in K
  BY <1>11, <1>12, Induction
<1>14. n - 1 \in Nat /\ (n - 1) + 1 = n
  OBVIOUS
<1>15. f[n] = first \o g[n - 1]
  BY <1>10, <1>13, <1>14
<1> QED BY <1>2, <1>4, <1>5, <1>6, <1>7, <1>8, <1>15

\* What is behind the first entries of a sequence is a suffix of it.
LEMMA SuffixOf ==
  ASSUME NEW T, NEW u \in Seq(T), NEW s \in Seq(T)
  PROVE  IsSuffix(s, u \o s)
<1>1. PICK t : t = u \o s
  OBVIOUS
<1>2. PICK n \in Nat : n = Len(s)
  BY LenProperties
<1>3. PICK m \in Nat : m = Len(u)
  BY LenProperties
<1>4. t \in Seq(T) /\ Len(t) = m + n /\ \A i \in 1..(m + n) : t[i] = IF i <= m THEN u[i] ELSE s[i - m]
  BY <1>1, <1>2, <1>3, ConcatProperties
<1>5. PICK r : r = [i \in 1..n |-> s[(n - i) + 1]]
  OBVIOUS
<1>6. PICK z : z = [i \in 1..(m + n) |-> t[(m + n - i) + 1]]
  OBVIOUS
<1>7. Reverse(s) = r /\ Reverse(t) = z
  BY <1>2, <1>4, <1>5, <1>6 DEF Reverse
<1>8. \A i \in 1..n : s[i] \in T
  BY <1>2, ElementOfSeq
<1>9. \A i \in 1..(m + n) : t[i] \in T
  BY <1>4, ElementOfSeq
<1>10. r \in Seq(T) /\ Len(r) = n
  <2>1. r \in [1..n -> T]
    BY <1>5, <1>8
  <2> QED BY <2>1
<1>11. z \in Seq(T) /\ Len(z) = m + n
  <2>1. z \in [1..(m + n) -> T]
    BY <1>6, <1>9
  <2> QED BY <2>1
<1>12. ASSUME NEW i \in 1..n
       PROVE  r[i] = z[i]
  <2>1. i \in 1..(m + n) /\ (m + n - i) + 1 \in 1..(m + n) /\ ~((m + n - i) + 1 <= m)
    OBVIOUS
  <2>2. ((m + n - i) + 1) - m = (n - i) + 1
    OBVIOUS
  <2>3. z[i] = t[(m + n - i) + 1] /\ r[i] = s[(n - i) + 1]
    BY <1>5, <1>6, <2>1
  <2> QED BY <1>4, <2>1, <2>2, <2>3
<1>13. SubSeq(r, 1, n) = SubSeq(z, 1, n)
  <2>1. \A i \in 1..n : r[i] \in T /\ z[i] \in T
    BY <1>10, <1>12, ElementOfSeq
  <2>2. /\ SubSeq(r, 1, n) \in Seq(T) /\ SubSeq(z, 1, n) \in Seq(T)
        /\ Len(SubSeq(r, 1, n)) = (IF 1 <= n THEN n - 1 + 1 ELSE 0)
        /\ Len(SubSeq(z, 1, n)) = (IF 1 <= n THEN n - 1 + 1 ELSE 0)
        /\ \A i \in 1..(n - 1 + 1) : SubSeq(r, 1, n)[i] = r[1 + i - 1]
        /\ \A i \in 1..(n - 1 + 1) : SubSeq(z, 1, n)[i] = z[1 + i - 1]
    BY <2>1, SubSeqProperties
  <2>3. PICK x \in Seq(T) : x = SubSeq(r, 1, n)
    BY <2>2
  <2>4. PICK y \in Seq(T) : y = SubSeq(z, 1, n)
    BY <2>2
  <2>5. Len(x) = n /\ Len(y) = n
    BY <2>2, <2>3, <2>4
  <2>6. ASSUME NEW i \in 1..Len(x)
        PROVE  x[i] = y[i]
    <3>1. i \in 1..n /\ i \in 1..(n - 1 + 1) /\ 1 + i - 1 = i
      BY <2>5
    <3>2. x[i] = r[i] /\ y[i] = z[i]
      BY <2>2, <2>3, <2>4, <3>1
    <3> QED BY <1>12, <3>1, <3>2
  <2>7. x = y
    BY <2>5, <2>6, SeqEqual
  <2> QED BY <2>3, <2>4, <2>7
<1>14. IsPrefix(r, z)
  BY <1>10, <1>11, <1>13 DEF IsPrefix
<1> QED BY <1>1, <1>7, <1>14 DEF IsSuffix

-----------------------------------------------------------------------------
(* The rows *)

Wanted(buckets, tags, text) == {e \in Entries : Matches(e, buckets, tags, text)}

\* The rows are those of the window that pass, behind some that are not in the window any more;
\* all of them pass.
RowsOf(list, window, S) ==
  \E u \in Seq(Entries \cap S) : list = u \o Passing(window, S)

RowInv == RowsOf(rows, entries, Wanted(activeBuckets, activeTags, search))

LEMMA RowsRebuilt ==
  ASSUME NEW q \in Seq(Entries), NEW S
  PROVE  RowsOf(Passing(q, S), q, S)
<1>1. <<>> \in Seq(Entries \cap S) /\ Passing(q, S) \in Seq(Entries \cap S)
  BY EmptySeq, PassingType
<1>2. <<>> \o Passing(q, S) = Passing(q, S)
  BY <1>1, ConcatEmptySeq
<1> QED BY <1>1, <1>2 DEF RowsOf

\* The oldest entry leaves the window, its row stays.
LEMMA RowsEvicted ==
  ASSUME NEW q \in Seq(Entries), q # <<>>, NEW S, NEW list, RowsOf(list, q, S)
  PROVE  RowsOf(list, Tail(q), S)
<1>1. PICK T : T = Entries \cap S
  OBVIOUS
<1>2. PICK u \in Seq(T) : list = u \o Passing(q, S)
  BY <1>1 DEF RowsOf
<1>3. PICK first \in Seq(T) : Passing(q, S) = first \o Passing(Tail(q), S)
  BY <1>1, PassingTail
<1>4. PICK rest \in Seq(T) : rest = Passing(Tail(q), S)
  BY <1>1, HeadTailProperties, PassingType
<1>5. u \o first \in Seq(T)
  BY ConcatProperties
<1>6. (u \o first) \o rest = u \o (first \o rest)
  BY ConcatAssociative
<1>7. list = (u \o first) \o Passing(Tail(q), S)
  BY <1>2, <1>3, <1>4, <1>6
<1> QED BY <1>1, <1>5, <1>7 DEF RowsOf

LEMMA RowsAdded ==
  ASSUME NEW q \in Seq(Entries), NEW S, NEW list, RowsOf(list, q, S), NEW e \in Entries
  PROVE  RowsOf(IF e \in S THEN Append(list, e) ELSE list, Append(q, e), S)
<1>1. PICK T : T = Entries \cap S
  OBVIOUS
<1>2. PICK u \in Seq(T) : list = u \o Passing(q, S)
  BY <1>1 DEF RowsOf
<1>3. PICK r \in Seq(T) : r = Passing(q, S)
  BY <1>1, PassingType
<1>4. CASE e \in S
  <2>1. e \in T /\ <<e>> \in Seq(T)
    BY <1>1, <1>4
  <2>2. u \o r \in Seq(T)
    BY ConcatProperties
  <2>3. Append(u \o r, e) = (u \o r) \o <<e>>
    BY <2>1, <2>2, AppendIsConcat
  <2>4. (u \o r) \o <<e>> = u \o (r \o <<e>>)
    BY <2>1, ConcatAssociative
  <2>5. Append(r, e) = r \o <<e>>
    BY <2>1, AppendIsConcat
  <2>6. Passing(Append(q, e), S) = Append(r, e)
    BY <1>3, <1>4, PassingAppend
  <2>7. Append(list, e) = u \o Passing(Append(q, e), S)
    BY <1>2, <1>3, <2>3, <2>4, <2>5, <2>6
  <2> QED BY <1>1, <1>4, <2>7 DEF RowsOf
<1>5. CASE e \notin S
  <2>1. Passing(Append(q, e), S) = Passing(q, S)
    BY <1>5, PassingAppend
  <2> QED BY <1>1, <1>2, <1>5, <2>1 DEF RowsOf
<1> QED BY <1>4, <1>5

LEMMA RowInit == Init => RowInv
<1> SUFFICES ASSUME Init PROVE RowInv
  OBVIOUS
<1>1. PICK S : S = Wanted(activeBuckets, activeTags, search)
  OBVIOUS
<1>2. RowsOf(Passing(<<>>, S), <<>>, S)
  BY RowsRebuilt, EmptySeq
<1> QED BY <1>1, <1>2, PassingEmpty DEF Init, RowInv

\* A new entry, behind the window as it is once the oldest one is evicted.
LEMMA EntryRows ==
  ASSUME WindowInv, RowInv, NEW e \in Entries, OnLogEntry(e)
  PROVE  RowInv'
<1>1. PICK S : S = Wanted(activeBuckets, activeTags, search)
  OBVIOUS
<1>2. S = Wanted(activeBuckets', activeTags', search')
  BY <1>1 DEF OnLogEntry, filterVars
<1>3. PICK q \in Seq(Entries) : q = IF Evicts THEN Tail(entries) ELSE entries
  BY Evicted DEF WindowInv, WindowTypes
<1>4. RowsOf(rows, q, S)
  <2>1. entries \in Seq(Entries) /\ RowsOf(rows, entries, S)
    BY <1>1 DEF WindowInv, WindowTypes, RowInv
  <2>2. CASE Evicts
    <3>1. entries # <<>>
      BY <2>2, Evicted
    <3>2. RowsOf(rows, Tail(entries), S)
      BY <2>1, <3>1, RowsEvicted
    <3> QED BY <1>3, <2>2, <3>2
  <2>3. CASE ~Evicts
    BY <1>3, <2>1, <2>3
  <2> QED BY <2>2, <2>3
<1>5. PICK list : list = IF e \in S THEN Append(rows, e) ELSE rows
  OBVIOUS
<1>6. RowsOf(list, Append(q, e), S)
  BY <1>4, <1>5, RowsAdded
<1>7. entries' = Append(q, e)
  BY <1>3 DEF OnLogEntry
<1>8. rows' = list
  <2>1. e \in S <=> Matches(e, activeBuckets, activeTags, search)
    BY <1>1 DEF Wanted
  <2> QED BY <1>5, <2>1 DEF OnLogEntry
<1> QED BY <1>2, <1>6, <1>7, <1>8 DEF RowInv

LEMMA RowStep ==
  ASSUME WindowInv, RowInv, [Next]_vars
  PROVE  RowInv'
<1>1. ASSUME UNCHANGED <<entries, filterVars, rows>>
      PROVE  RowInv'
  BY <1>1 DEF filterVars, RowInv
<1>2. ASSUME NEW buckets, NEW tags, NEW text, UNCHANGED entries,
             activeBuckets' = buckets, activeTags' = tags, search' = text,
             rows' = Shown(buckets, tags, text)
      PROVE  RowInv'
  <2>1. PICK S : S = Wanted(buckets, tags, text)
    OBVIOUS
  <2>2. RowsOf(Passing(entries, S), entries, S)
    BY RowsRebuilt DEF WindowInv, WindowTypes
  <2>3. rows' = Passing(entries, S)
    BY <1>2, <2>1 DEF Shown, Wanted
  <2> QED BY <1>2, <2>1, <2>2, <2>3 DEF RowInv
<1>3. CASE OnClear \/ Restart
  <2>1. entries' = <<>> /\ rows' = <<>>
    BY <1>3 DEF OnClear, Restart
  <2>2. PICK S : S = Wanted(activeBuckets', activeTags', search')
    OBVIOUS
  <2>3. RowsOf(Passing(<<>>, S), <<>>, S)
    BY RowsRebuilt, EmptySeq
  <2> QED BY <2>1, <2>2, <2>3, PassingEmpty DEF RowInv
<1>4. ASSUME NEW active, SetTagFilter(active)
      PROVE  RowInv'
  BY <1>2, <1>4 DEF SetTagFilter, windowVars
<1>5. ASSUME NEW b, ToggleStatDot(b)
      PROVE  RowInv'
  <2>1. PICK buckets : buckets = activeBuckets'
    OBVIOUS
  <2>2. rows' = Shown(buckets, activeTags, search) /\ UNCHANGED <<entries, activeTags, search>>
    BY <1>5, <2>1 DEF ToggleStatDot, windowVars
  <2> QED BY <1>2, <2>1, <2>2
<1>6. CASE OnSearchChanged
  <2>1. PICK text : text = search'
    OBVIOUS
  <2>2. rows' = Shown(activeBuckets, activeTags, text)
        /\ UNCHANGED <<entries, activeBuckets, activeTags>>
    BY <1>6, <2>1 DEF OnSearchChanged, windowVars
  <2> QED BY <1>2, <2>1, <2>2
<1>7. ASSUME NEW e \in Entries, OnLogEntry(e)
      PROVE  RowInv'
  BY <1>7, EntryRows
<1> QED BY <1>1, <1>3, <1>4, <1>5, <1>6, <1>7, NextCases, CaptureStepKeeps DEF OpenPopover,
      ChipsRebuildIdle, SelectExtension, Resize, DoStart, DoStop, vars, windowVars, filterVars

\* Whatever filters were set, changed or cleared while entries came and went, the rows end with
\* exactly the entries of the window that pass the filters, in order, and every row passes them:
\* appending one row at a time and _rebuild_view, which builds them all, agree.
THEOREM RowsAlwaysPass == Spec => []RowsArePassing
<1>1. WindowInv /\ RowInv /\ [Next]_vars => (WindowInv /\ RowInv)'
  BY WindowStep, RowStep
<1>2. WindowInv /\ RowInv => RowsArePassing
  <2> SUFFICES ASSUME WindowInv, RowInv PROVE RowsArePassing
    OBVIOUS
  <2>1. PICK S : S = Wanted(activeBuckets, activeTags, search)
    OBVIOUS
  <2>2. PICK T : T = Entries \cap S
    OBVIOUS
  <2>3. PICK passing \in Seq(T) : passing = Passing(entries, S)
    BY <2>2, PassingType DEF WindowInv, WindowTypes
  <2>4. PICK u \in Seq(T) : rows = u \o passing
    BY <2>1, <2>2, <2>3 DEF RowInv, RowsOf
  <2>5. IsSuffix(passing, rows)
    BY <2>4, SuffixOf
  <2>6. rows \in Seq(T)
    BY <2>4, ConcatProperties
  <2>7. ASSUME NEW i \in DOMAIN rows
        PROVE  Matches(rows[i], activeBuckets, activeTags, search)
    <3>1. rows[i] \in T
      BY <2>6, LenProperties, ElementOfSeq
    <3> QED BY <2>1, <2>2, <3>1 DEF Wanted
  <2>8. passing = Shown(activeBuckets, activeTags, search)
    BY <2>1, <2>3 DEF Shown, Wanted
  <2> QED BY <2>5, <2>7, <2>8 DEF RowsArePassing
<1> QED BY <1>1, <1>2, WindowInit, RowInit, PTL DEF Spec

=============================================================================
