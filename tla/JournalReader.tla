--------------------------- MODULE JournalReader ---------------------------
(***************************************************************************)
(* The journal tail behind the Logs page (app/core/journal_reader.py,      *)
(* class JournalReader).  start() and stop() run on the main loop; every   *)
(* start makes a reader thread, which shares the cursor, the stop event    *)
(* and the generation counter with the main loop and with reader threads   *)
(* of earlier starts that have not noticed yet that they were stopped.     *)
(* Batches reach the main loop through idle callbacks.                     *)
(*                                                                         *)
(* Journal entries are numbered; the journal itself is systemd's, and so   *)
(* is reader.wait: it tells of an append, of journal files that came or    *)
(* went, which hides an append, or of nothing.  The thread reads when it   *)
(* tells of an append, and leaves what a rotation brings until the next.   *)
(***************************************************************************)
EXTENDS Integers, Sequences

CONSTANTS InitialEntries,  \* _INITIAL_ENTRIES
          MaxStarts,       \* bound: starts, each with a thread of its own
          MaxJournal,      \* bound: entries written to the journal
          PromptThreads    \* a new thread reads the generation before the user can stop the tail

ASSUME JournalAssumption ==
  /\ InitialEntries \in Nat \ {0} /\ MaxStarts \in Nat /\ MaxJournal \in Nat
  /\ PromptThreads \in BOOLEAN

VARIABLES
  tailing, generation, cursor, stopEvent,
  starts,    \* reader threads made so far
  threads,   \* each thread: where it is, its generation, the last entry it read
  idle,      \* idle callbacks: a generation and the entries from first to last
  journal,   \* number of the newest entry
  change,    \* of each thread: what reader.wait will tell it (systemd's)
  shown      \* history: entries handed to log-entry since the last start

tailVars == <<tailing, generation, cursor, stopEvent, starts, threads, idle, journal, change, shown>>

Threads == 1..MaxStarts
Changes == {"nop", "append", "invalidate"}
NoCursor == 0

Alive(t) == threads[t].pc \notin {"unborn", "done"}
MoveTo(t, pc) == threads' = [threads EXCEPT ![t].pc = pc]

-----------------------------------------------------------------------------
(* The main loop *)

\* start(): forgets the cursor, clears the stop event and makes a thread.
Start ==
  /\ ~tailing
  /\ starts < MaxStarts
  /\ tailing' = TRUE
  /\ generation' = generation + 1
  /\ cursor' = NoCursor
  /\ stopEvent' = FALSE
  /\ starts' = starts + 1
  /\ threads' = [threads EXCEPT ![starts + 1] =
                   [pc |-> "born", gen |-> 0, pos |-> 0]]
  /\ shown' = <<>>
  /\ UNCHANGED <<idle, journal, change>>

\* stop() does not wait for the thread.
Stop ==
  /\ tailing
  /\ PromptThreads => \A t \in Threads : threads[t].pc # "born"
  /\ tailing' = FALSE
  /\ stopEvent' = TRUE
  /\ UNCHANGED <<generation, cursor, starts, threads, idle, journal, change, shown>>

\* Variant: a batch counts whichever run it is from.
EmitAnyBatch ==
  /\ idle # <<>>
  /\ idle' = Tail(idle)
  /\ LET b == Head(idle)
     IN  shown' = IF tailing
                  THEN shown \o [i \in 1..(b.last - b.first + 1) |-> b.first + i - 1]
                  ELSE shown
  /\ UNCHANGED <<tailing, generation, cursor, stopEvent, starts, threads, journal, change>>

\* _emit_batch: a batch of another generation, or one that comes after stop, is dropped.
EmitBatch ==
  /\ idle # <<>>
  /\ idle' = Tail(idle)
  /\ LET b == Head(idle)
     IN  shown' = IF tailing /\ b.gen = generation
                  THEN shown \o [i \in 1..(b.last - b.first + 1) |-> b.first + i - 1]
                  ELSE shown
  /\ UNCHANGED <<tailing, generation, cursor, stopEvent, starts, threads, journal, change>>

-----------------------------------------------------------------------------
(* A reader thread: _poll_loop *)

ReadGeneration(t) ==
  /\ threads[t].pc = "born"
  /\ threads' = [threads EXCEPT ![t].pc = "opening", ![t].gen = generation]
  /\ UNCHANGED <<tailing, generation, cursor, stopEvent, starts, idle, journal, change, shown>>

OpenFails(t) ==
  /\ threads[t].pc = "opening"
  /\ MoveTo(t, "done")
  /\ UNCHANGED <<tailing, generation, cursor, stopEvent, starts, idle, journal, change, shown>>

\* _seek_initial positions the reader on an entry, and reading goes on after that one.
\* Without a cursor it is the oldest of the last InitialEntries.  The first wait does not wait,
\* and may tell of files that came or went: those the reader opened.
SeekInitial(t) ==
  LET tail == journal - InitialEntries + 1
      oldest == IF tail >= 1 THEN tail ELSE IF journal = 0 THEN 0 ELSE 1
  IN  /\ threads[t].pc = "opening"
      /\ threads' = [threads EXCEPT ![t].pc = "draining",
                                    ![t].pos = IF cursor # NoCursor THEN cursor ELSE oldest]
      /\ \E c \in Changes \ {"nop"} : change' = [change EXCEPT ![t] = c]
      /\ UNCHANGED <<tailing, generation, cursor, stopEvent, starts, idle, journal, shown>>

\* Reads to the end of the journal and hands the entries over as one batch.
ReadOn(t) ==
  /\ threads' = [threads EXCEPT ![t].pc = "checking", ![t].pos = IF journal > @ THEN journal ELSE @]
  /\ IF journal > threads[t].pos
     THEN /\ cursor' = journal
          /\ idle' = Append(idle, [gen |-> threads[t].gen, first |-> threads[t].pos + 1, last |-> journal])
     ELSE UNCHANGED <<cursor, idle>>
  /\ UNCHANGED <<tailing, generation, stopEvent, starts, journal, shown>>

InitialDrain(t) == threads[t].pc = "draining" /\ ReadOn(t) /\ UNCHANGED change

CheckStop(t) ==
  /\ threads[t].pc = "checking"
  /\ MoveTo(t, IF stopEvent THEN "done" ELSE "waiting")
  /\ UNCHANGED <<tailing, generation, cursor, stopEvent, starts, idle, journal, change, shown>>

\* What it tells of is told once.
Waited(t) == threads[t].pc = "waiting" /\ change' = [change EXCEPT ![t] = "nop"]

\* reader.wait returns: there is something to tell, or the second is over.
WakeIdle(t) ==
  /\ Waited(t) /\ change[t] # "append"
  /\ MoveTo(t, "checking")
  /\ UNCHANGED <<tailing, generation, cursor, stopEvent, starts, idle, journal, shown>>

\* Variant: goes round the loop without reading.
WakeAndLeave(t) ==
  /\ Waited(t) /\ change[t] = "append"
  /\ MoveTo(t, "checking")
  /\ UNCHANGED <<tailing, generation, cursor, stopEvent, starts, idle, journal, shown>>

Wake(t) == Waited(t) /\ change[t] = "append" /\ ReadOn(t)

-----------------------------------------------------------------------------
\* Something on the system logs a line.
JournalGrows ==
  /\ journal < MaxJournal
  /\ journal' = journal + 1
  /\ change' = [t \in Threads |-> IF Alive(t) /\ change[t] = "nop" THEN "append" ELSE change[t]]
  /\ UNCHANGED <<tailing, generation, cursor, stopEvent, starts, threads, idle, shown>>

\* Journal files come or go.
JournalRotates ==
  /\ change' = [t \in Threads |-> IF Alive(t) THEN "invalidate" ELSE change[t]]
  /\ UNCHANGED <<tailing, generation, cursor, stopEvent, starts, threads, idle, journal, shown>>

TailInit ==
  /\ tailing = FALSE
  /\ generation = 0
  /\ cursor = NoCursor
  /\ stopEvent = FALSE
  /\ starts = 0
  /\ threads = [t \in Threads |-> [pc |-> "unborn", gen |-> 0, pos |-> 0]]
  /\ idle = <<>>
  /\ journal \in 0..MaxJournal
  /\ change = [t \in Threads |-> "nop"]
  /\ shown = <<>>

ThreadStep(t) ==
  \/ ReadGeneration(t) \/ OpenFails(t) \/ SeekInitial(t)
  \/ InitialDrain(t) \/ CheckStop(t) \/ WakeIdle(t) \/ Wake(t)

TailNext ==
  \/ Start \/ Stop \/ EmitBatch \/ JournalGrows \/ JournalRotates
  \/ \E t \in Threads : ThreadStep(t)

\* Threads get to run, reader.wait returns within a second, idle callbacks are called.
Fairness == WF_tailVars(EmitBatch) /\ \A t \in Threads : WF_tailVars(ThreadStep(t))

TailSpec == TailInit /\ [][TailNext]_tailVars
FairTail == TailSpec /\ Fairness

-----------------------------------------------------------------------------
(* Properties *)

PCs == {"unborn", "born", "opening", "draining", "checking", "waiting", "done"}
Thread == [pc : PCs, gen : Nat, pos : Nat]
Batch == [gen : Nat, first : Nat \ {0}, last : Nat \ {0}]

FlagTypes == tailing \in BOOLEAN /\ stopEvent \in BOOLEAN

\* The ranges of the variables.
TailTypes ==
  /\ FlagTypes
  /\ generation \in Nat /\ cursor \in Nat /\ journal \in Nat
  /\ starts \in 0..MaxStarts
  /\ threads \in [Threads -> Thread]
  /\ change \in [Threads -> Changes]
  /\ idle \in Seq(Batch)
  /\ shown \in Seq(1..MaxJournal)

\* Within one run the lines shown are consecutive journal entries, although threads of
\* earlier runs may still be reading: none is skipped, repeated or out of order.
RunIsConsecutive ==
  \A i \in 1..(Len(shown) - 1) : shown[i + 1] = shown[i] + 1

\* The reader has still to read its first entries, or is to be told of an append.
IsToRead(t) ==
  \/ threads[t].pc = "draining"
  \/ threads[t].pc \in {"checking", "waiting"} /\ change[t] = "append"

\* A line that the current reader has not read yet is shown in the end once the reader is to be
\* told of an append, of that line or of a later one, unless the user stops the tail or files come
\* or go before that.  What comes with such a change waits for the next append, for ever if need be.
EntriesArrive ==
  \A n \in 1..MaxJournal, t \in Threads :
    (/\ tailing /\ threads[t].gen = generation
     /\ IsToRead(t) /\ threads[t].pos < n /\ n <= journal)
      ~> (~tailing \/ change[t] = "invalidate" \/ \E i \in DOMAIN shown : shown[i] = n)

=============================================================================
