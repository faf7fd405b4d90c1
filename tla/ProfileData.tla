----------------------------- MODULE ProfileData -----------------------------
(***************************************************************************)
(* What the profiler page does with the calls it receives                  *)
(* (app/ui/profiler_view.py): statistics per function, the window of raw   *)
(* events, self times, the table, the timeline (app/ui/profiler) and the   *)
(* export for speedscope (app/core/exporters.py).                          *)
(*                                                                         *)
(* The target extension calls its functions, one inside the other; a call  *)
(* is recorded when it returns, with the time in whole microseconds, so    *)
(* calls may begin and end at the same time.  Which recording a batch      *)
(* belongs to is the subject of ProfilingSession.                          *)
(***************************************************************************)
EXTENDS Integers, Sequences, FiniteSets, SequencesExt, FiniteSetsExt

CONSTANTS
  Functions,      \* of the target extension
  OtherFunctions, \* of a profile of another machine
  Foreign,        \* its events, whose clock tells nothing here
  MaxRawEvents,   \* _MAX_RAW_EVENTS
  GapThreshold,   \* GAP_THRESHOLD_S
  MaxCalls,       \* bound: calls the extension makes
  MaxDepth,       \* bound: nesting of its calls
  MaxTime,        \* bound: the clock
  MaxClicks       \* bound: what the user does

Event == [id : Nat, function : Functions \cup OtherFunctions, start : Int, end : Int, within : Seq(Nat)]

ASSUME ProfileDataAssumption ==
  /\ Foreign \in Seq(Event)
  /\ MaxRawEvents \in Nat \ {0} /\ GapThreshold \in Nat
  /\ MaxCalls \in Nat /\ MaxDepth \in Nat /\ MaxTime \in Nat /\ MaxClicks \in Nat

VARIABLES
  clock, made,     \* time; calls begun
  calls,           \* calls in progress, innermost last
  queued,          \* events on their way to the page
  rawEvents,       \* _raw_events
  stats,           \* _stats, of the functions observed
  refreshPending,
  timers,          \* timeouts that will call _flush_refresh
  hidden,          \* functions the filter hides
  rows,            \* the table
  chart,           \* the events the timeline draws
  wall,            \* the card with the sum of self times
  file,            \* the profile last saved
  foreign,         \* history: the window or the timeline holds events of Foreign
  stale,           \* history: a load failed, and the views were not refreshed since
  clicks

callVars == <<clock, made, calls>>
viewVars == <<rows, chart, wall, stale>>
dataVars == <<callVars, queued, rawEvents, stats, refreshPending, timers, hidden, viewVars, file,
          foreign, clicks>>

Duration(e) == e.end - e.start

\* How long the events of S took, a set of their places.
TimeOf(events, S) == SumFunctionOnSet([i \in DOMAIN events |-> Duration(events[i])], S)

-----------------------------------------------------------------------------
(* Self times *)

\* The orders the events are sorted by, which keep events that are equal as they were: by start ...
ByStart(events) ==
  {p \in (DOMAIN events) \X (DOMAIN events) :
     LET a == events[p[1]]
         b == events[p[2]]
     IN  a.start < b.start \/ (a.start = b.start /\ p[1] <= p[2])}

\* ... and by (start, -end).
BySpan(events) ==
  {p \in (DOMAIN events) \X (DOMAIN events) :
     LET a == events[p[1]]
         b == events[p[2]]
     IN  \/ a.start < b.start
         \/ a.start = b.start /\ (a.end > b.end \/ (a.end = b.end /\ p[1] <= p[2]))}

\* sorted: the i-th is the one that i of them are not after.
SortedBy(events, Order) ==
  LET Rank(k) == Cardinality({j \in DOMAIN events : <<j, k>> \in Order})
  IN  [i \in DOMAIN events |-> events[CHOOSE k \in DOMAIN events : Rank(k) = i]]

OrderedByStart(events) == SortedBy(events, ByStart(events))

Ordered(events) == SortedBy(events, BySpan(events))

\* What is left of a stack once the spans that ended by time t are popped.
StillOpen(stack, t) ==
  SubSeq(stack, 1, Max({0} \cup {i \in DOMAIN stack : stack[i].end > t}))

\* The place of the event each one is nested in, or 0: the one below it when it is pushed.
Parents(ordered) ==
  LET stack[i \in 0..Len(ordered)] ==
        IF i = 0 THEN <<>>
        ELSE Append(StillOpen(stack[i - 1], ordered[i].start), [at |-> i, end |-> ordered[i].end])
  IN  [i \in DOMAIN ordered |-> IF Len(stack[i]) = 1 THEN 0 ELSE stack[i][Len(stack[i]) - 1].at]

\* event_self: each event's duration is taken off the one it is nested in.
EventSelf(ordered) ==
  LET parent == Parents(ordered)
  IN  [i \in DOMAIN ordered |->
         Duration(ordered[i]) - TimeOf(ordered, {j \in DOMAIN ordered : parent[j] = i})]

\* The events of a function.
Of(events, f) == {i \in DOMAIN events : events[i].function = f}

\* _recompute_self_times
SelfTime(events, f) ==
  LET ordered == Ordered(events) IN SumFunctionOnSet(EventSelf(ordered), Of(ordered, f))

-----------------------------------------------------------------------------
(* The timeline *)

\* A further event: a segment of its own, or the last one grows.
GrownByNeighbour(segments, e) ==
  IF segments = <<>> \/ e.start - Last(segments).e > GapThreshold
  THEN Append(segments, [s |-> e.start, e |-> e.end])
  ELSE [segments EXCEPT ![Len(segments)].e = e.end]

\* A further event: a segment of its own, or it is within the last one, which may grow.
Grown(segments, e) ==
  IF segments = <<>> \/ e.start - Last(segments).e > GapThreshold
  THEN Append(segments, [s |-> e.start, e |-> e.end])
  ELSE [segments EXCEPT ![Len(segments)].e = Max({@, e.end})]

\* visible_segments: the gap between two segments is the one of compute_timeline_layout.
VisibleSegments(events) ==
  LET ordered == OrderedByStart(events)
      found[i \in 0..Len(ordered)] == IF i = 0 THEN <<>> ELSE Grown(found[i - 1], ordered[i])
  IN  found[Len(ordered)]

\* The pieces of an event the flame graph and the swim lanes draw.
Pieces(e, segments) ==
  {[s |-> Max({e.start, seg.s}), e |-> Min({e.end, seg.e})] :
     seg \in {seg \in ToSet(segments) :
                ~(e.end <= seg.s \/ e.start >= seg.e) /\ seg.e > seg.s}}

-----------------------------------------------------------------------------
(* Exporters *)

ValidEvents(events) ==
  LET kept[i \in 0..Len(events)] ==
        IF i = 0 THEN <<>>
        ELSE IF events[i].end < events[i].start THEN kept[i - 1]
        ELSE Append(kept[i - 1], events[i])
  IN  kept[Len(events)]

\* The transitions so far and the spans that are open, after the innermost of these is closed ...
Closed(export) ==
  LET span == Last(export.stack)
  IN  [out |-> Append(export.out, [type |-> "C", function |-> span.function, at |-> span.end]),
       stack |-> Front(export.stack)]

\* ... and after the n innermost.
AfterClosing(export, n) ==
  LET closed[i \in 0..n] == IF i = 0 THEN export ELSE Closed(closed[i - 1])
  IN  closed[n]

\* Opens a span whose end is left as recorded.
OpenedUnclamped(export, e) ==
  [out |-> Append(export.out, [type |-> "O", function |-> e.function, at |-> e.start]),
   stack |-> Append(export.stack, [function |-> e.function, end |-> e.end])]

\* Opens a span, which ends no later than the one it is in.
Opened(export, e) ==
  [out |-> Append(export.out, [type |-> "O", function |-> e.function, at |-> e.start]),
   stack |-> Append(export.stack,
               [function |-> e.function,
                end |-> IF export.stack = <<>> THEN e.end ELSE Min({e.end, Last(export.stack).end})])]

\* One turn of to_speedscope's loop.
Exported(export, e) ==
  Opened(AfterClosing(export, Len(export.stack) - Len(StillOpen(export.stack, e.start))), e)

\* to_speedscope: spans become transitions.
Speedscope(events) ==
  LET ordered == Ordered(ValidEvents(events))
      done[i \in 0..Len(ordered)] ==
        IF i = 0 THEN [out |-> <<>>, stack |-> <<>>] ELSE Exported(done[i - 1], ordered[i])
  IN  AfterClosing(done[Len(ordered)], Len(done[Len(ordered)].stack)).out

-----------------------------------------------------------------------------
(* The target extension; the wrapper's finally records the call *)

Tick ==
  /\ clock < MaxTime /\ clock' = clock + 1
  /\ UNCHANGED <<made, calls, queued, rawEvents, stats, refreshPending, timers, hidden, viewVars,
                 file, foreign, clicks>>

Call(f) ==
  /\ made < MaxCalls /\ Len(calls) < MaxDepth
  /\ made' = made + 1
  /\ calls' = Append(calls, [id |-> made', function |-> f, start |-> clock])
  /\ UNCHANGED <<clock, queued, rawEvents, stats, refreshPending, timers, hidden, viewVars, file,
                 foreign, clicks>>

\* id and the ids of the calls it was made in are for the properties only.
Return ==
  /\ calls # <<>>
  /\ LET c == Last(calls)
     IN  queued' = Append(queued, [id |-> c.id, function |-> c.function, start |-> c.start,
                                   end |-> clock,
                                   within |-> [i \in 1..Len(calls) - 1 |-> calls[i].id]])
  /\ calls' = Front(calls)
  /\ UNCHANGED <<clock, made, rawEvents, stats, refreshPending, timers, hidden, viewVars, file,
                 foreign, clicks>>

-----------------------------------------------------------------------------
(* The page *)

\* FunctionStat.record
RecordedOf(st, events, f) ==
  LET mine == Of(events, f)
      old == IF f \in DOMAIN st THEN st[f] ELSE [count |-> 0, total |-> 0, max |-> 0, self |-> 0]
  IN  [old EXCEPT !.count = @ + Cardinality(mine),
                  !.total = @ + TimeOf(events, mine),
                  !.max = Max({@} \cup {Duration(events[i]) : i \in mine})]

FunctionsIn(events) == {events[i].function : i \in DOMAIN events}

Recorded(st, events) == [f \in DOMAIN st \cup FunctionsIn(events) |-> RecordedOf(st, events, f)]

TotalSelf(st) == SumFunction([f \in DOMAIN st |-> st[f].self])

Window(events) == SubSeq(events, Max({1, Len(events) - MaxRawEvents + 1}), Len(events))

\* _refresh_table_only, after the filter and the statistics
RefreshTableOnly ==
  rows' = [f \in DOMAIN stats' \ hidden' |-> stats'[f]]

\* _flush_refresh, with the statistics and events there are then
FlushRefresh(st) ==
  /\ stats' = [f \in DOMAIN st |-> [st[f] EXCEPT !.self = SelfTime(rawEvents', f)]]
  /\ refreshPending' = FALSE
  /\ UNCHANGED hidden
  /\ RefreshTableOnly
  /\ chart' = rawEvents'
  /\ wall' = TotalSelf(stats')
  /\ stale' = FALSE

\* _on_profile_batch, _ingest_event, _schedule_refresh: at most one timer is asked for at a time.
ReceiveBatch ==
  /\ queued # <<>> /\ queued' = <<>>
  /\ stats' = Recorded(stats, queued)
  /\ rawEvents' = Window(rawEvents \o queued)
  /\ refreshPending' = TRUE
  /\ timers' = IF refreshPending THEN timers ELSE timers + 1
  /\ UNCHANGED <<callVars, hidden, viewVars, file, foreign, clicks>>

\* _flush_refresh_cb
RefreshTimer ==
  /\ timers > 0 /\ timers' = timers - 1
  /\ UNCHANGED rawEvents
  /\ FlushRefresh(stats)
  /\ UNCHANGED <<callVars, queued, file, foreign, clicks>>

Click == clicks < MaxClicks /\ clicks' = clicks + 1

\* _on_filter_changed: the other views only dim what is hidden.
ChangeFilter ==
  /\ Click
  /\ hidden' \in SUBSET Functions \ {hidden}
  /\ UNCHANGED stats
  /\ RefreshTableOnly
  /\ UNCHANGED <<callVars, queued, rawEvents, refreshPending, timers, chart, wall, stale, file,
                 foreign>>

\* _on_clear: a timer that is armed stays.
Clear ==
  /\ Click
  /\ rawEvents' = <<>> /\ foreign' = FALSE
  /\ FlushRefresh(<<>>)
  /\ UNCHANGED <<callVars, queued, timers, file>>

\* _on_save_response; the button is there once something was shown.
Save ==
  /\ Click
  /\ chart # <<>>
  /\ file' = rawEvents
  /\ UNCHANGED <<callVars, queued, rawEvents, stats, refreshPending, timers, hidden, viewVars, foreign>>

\* _on_load_response: the file's events take the place of those there are; calls of a running
\* recording are added to them later.
Load(events) ==
  /\ Click
  /\ rawEvents' = Window(events)
  /\ foreign' = (ToSet(events) \cap ToSet(Foreign) # {})
  /\ FlushRefresh(Recorded(<<>>, events))
  /\ UNCHANGED <<callVars, queued, timers, file>>

\* _on_load_response of a file that is no profile, or none after these events: it raises when the
\* old events are gone already (_clear_data), and nothing is refreshed.
LoadFails(events) ==
  /\ Click
  /\ rawEvents' = Window(events)
  /\ stats' = Recorded(<<>>, events)
  /\ foreign' = (foreign \/ ToSet(events) \cap ToSet(Foreign) # {})
  /\ stale' = TRUE
  /\ UNCHANGED <<callVars, queued, refreshPending, timers, hidden, rows, chart, wall, file>>

-----------------------------------------------------------------------------
DataInit ==
  /\ clock = 0 /\ made = 0 /\ calls = <<>>
  /\ queued = <<>> /\ rawEvents = <<>> /\ stats = <<>>
  /\ refreshPending = FALSE /\ timers = 0 /\ hidden = {}
  /\ rows = <<>> /\ chart = <<>> /\ wall = 0 /\ stale = FALSE
  /\ file = <<>> /\ foreign = FALSE /\ clicks = 0

DataNext ==
  \/ Tick \/ Return \/ \E f \in Functions : Call(f)
  \/ ReceiveBatch \/ RefreshTimer
  \/ ChangeFilter \/ Clear \/ Save
  \/ \E events \in {file, Foreign} : Load(events)
  \/ \E events \in {<<>>, Foreign} : LoadFails(events)

DataSpec == DataInit /\ [][DataNext]_dataVars
-----------------------------------------------------------------------------
(* Properties *)

\* The moments in which at least one call of the sequence was running, as unit intervals.
Covered(events) ==
  UNION {events[i].start .. events[i].end - 1 : i \in DOMAIN events}

\* The calls made in call i, or in calls made in it that are not in the window.
CalledIn(events, i) ==
  LET present == {events[j].id : j \in DOMAIN events}
      There(j) == {k \in DOMAIN events[j].within : events[j].within[k] \in present}
  IN  {j \in DOMAIN events : There(j) # {} /\ events[j].within[Max(There(j))] = events[i].id}

\* The time of a call not spent in calls made in it that are in the window too.
OwnTime(events, i) == Duration(events[i]) - TimeOf(events, CalledIn(events, i))

SpansDiffer(events) ==
  \A i, j \in DOMAIN events : i # j => <<events[i].start, events[i].end>> # <<events[j].start, events[j].end>>

\* A function has neither negative self time nor more than its total.
SelfWithinTotal == \A f \in DOMAIN stats : stats[f].self \in 0..stats[f].total

\* A function has exactly the time its calls did not spend in others.
SelfIsOwn ==
  \A f \in DOMAIN stats :
    stats[f].self = SumFunctionOnSet([i \in DOMAIN rawEvents |-> OwnTime(rawEvents, i)], Of(rawEvents, f))

\* Self times of the calls on display, whichever of their calls have left the window: each is
\* within its total; together they are the time in which any call ran, counted once, which is
\* what the card shows; and they are exact as long as no two calls share their span.  (Not until
\* the next refresh, when the load of a file has failed.)
TimesAddUp ==
  ~foreign /\ ~refreshPending /\ ~stale =>
    /\ SelfWithinTotal
    /\ wall = Cardinality(Covered(rawEvents))
    /\ SpansDiffer(rawEvents) => SelfIsOwn

\* Table and timeline show the present statistics and events unless a refresh is to come, which
\* a timer is armed for; also after a clear or a load while that timer runs.  The exception is a
\* load that failed half way, after which the views show what is gone until the next refresh.
ViewsAreFresh ==
  IF refreshPending THEN timers > 0
  ELSE /\ ~stale => chart = rawEvents /\ rows = [f \in DOMAIN stats \ hidden |-> stats[f]]
       /\ FunctionsIn(rawEvents) \subseteq DOMAIN stats

\* Between two segments no call ran, for longer than the threshold.
GapsAreIdle(segments, events) ==
  \A i \in 1..Len(segments) - 1 :
    /\ segments[i + 1].s - segments[i].e > GapThreshold
    /\ (segments[i].e .. segments[i + 1].s - 1) \cap Covered(events) = {}

\* Every such time, of those between calls, is between two segments.
IdleIsCollapsed(segments, events) ==
  \A a, b \in 0..MaxTime :
    /\ b - a > GapThreshold
    /\ \A i \in DOMAIN events : events[i].end <= a \/ events[i].start >= b
    /\ \E i \in DOMAIN events : events[i].end <= a
    /\ \E i \in DOMAIN events : events[i].start >= b
    => \E i \in 1..Len(segments) - 1 : segments[i].e <= a /\ b <= segments[i + 1].s

DrawnInFull(segments, events) ==
  \A i \in DOMAIN events :
    Duration(events[i]) > 0 =>
      Pieces(events[i], segments) = {[s |-> events[i].start, e |-> events[i].end]}

\* The timeline, as flame graph and as swim lanes (both use compute_timeline_layout; flamegraph.py:3-6
\* says that the flame graph collapses nothing), collapses exactly the times longer than the threshold
\* in which no call ran, and draws every call that took time, once and in full.
ChartCovers ==
  ~foreign =>
    /\ GapsAreIdle(VisibleSegments(chart), chart)
    /\ IdleIsCollapsed(VisibleSegments(chart), chart)
    /\ DrawnInFull(VisibleSegments(chart), chart)

\* What is on display is what was called: both of the above.
ViewsShowCalls == ViewsAreFresh /\ ChartCovers

\* How many spans are open after the first i transitions.
Depth(out, i) ==
  Cardinality({j \in 1..i : out[j].type = "O"}) - Cardinality({j \in 1..i : out[j].type = "C"})

\* Transition o opens the span that c closes.
ClosedBy(out, o, c) ==
  /\ out[o].type = "O" /\ out[o].function = out[c].function
  /\ Depth(out, o) = Depth(out, c) + 1
  /\ \A i \in o..c - 1 : Depth(out, i) >= Depth(out, o)

\* Whatever events there are, those of an odd file included, the export is one a viewer accepts:
\* times never go back, every span that opens closes, and the innermost open one first.
ExportNests ==
  LET out == Speedscope(rawEvents)
  IN  /\ \A i \in 1..Len(out) - 1 : out[i].at <= out[i + 1].at
      /\ Len(out) = 2 * Len(ValidEvents(rawEvents))
      /\ \A c \in {i \in DOMAIN out : out[i].type = "C"} : \E o \in 1..c - 1 : ClosedBy(out, o, c)

=============================================================================
