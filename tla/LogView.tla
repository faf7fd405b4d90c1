------------------------------ MODULE LogView ------------------------------
(***************************************************************************)
(* The Logs page: app/ui/log_viewer/ (view.py, tag_bar.py,                 *)
(* capture_panel.py), with the capture settings of                         *)
(* app/core/journal_reader.py kept by app/core/settings.py.                *)
(*                                                                         *)
(* The page keeps a window of journal entries, counts them by severity and *)
(* tag, shows the rows that pass three stacked filters, and trims a row of *)
(* tag chips to the width it has.  The capture panel says which journalctl *)
(* command the reader is started with.                                     *)
(*                                                                         *)
(* An entry is what the filters tell apart: severity bucket, tag, and      *)
(* whether it contains the text searched for.  A chip, the "+N more"       *)
(* button and the Clear button are each one unit wide.                     *)
(***************************************************************************)
EXTENDS Integers, Sequences, FiniteSets, SequencesExt

CONSTANTS
  Entries,      \* journal entries: records of bucket, tag and hit
  Buckets, Tags, NoTag,
  MaxEntries,   \* MAX_ENTRIES
  Commands,     \* what the structured capture controls can be set to
  Typed,        \* what the user types into the raw entry
  NoText,
  Widths,       \* widths the window gives the tag bar, 0 before it is laid out
  MaxArrivals,  \* bound: entries read
  MaxClicks,    \* bound: what the user does, besides starting and stopping
  MaxRestarts   \* bound: starts of the app

ASSUME LogViewAssumption ==
  /\ Entries \subseteq [bucket : Buckets, tag : Tags, hit : BOOLEAN]
  /\ NoTag \notin Tags /\ Commands # {} /\ NoText \notin Commands \cup Typed
  /\ MaxEntries \in Nat \ {0} /\ Widths \subseteq Nat
  /\ MaxArrivals \in Nat /\ MaxClicks \in Nat /\ MaxRestarts \in Nat

VARIABLES
  entries,                    \* _entries, oldest first
  bucketCounts, tagCounts,    \* 0 stands for a tag that is not in the dictionary
  activeBuckets, activeTags,
  search,                     \* there is a search text
  rows,                       \* _store
  pinTag, pinOn,              \* the chip of the selected extension
  chips,                      \* inline chips: the count on each label
  chipsOn,                    \* inline chips that are pressed
  more,                       \* N of "+N more", 0 when the button is hidden
  popover, popoverOn,         \* tags listed in the popover when last opened, and those ticked
  clearShown,                 \* the Clear button
  rebuildPending,             \* _chips_rebuild_pending
  width,
  pinMoved,                   \* history: the pin moved since the chips were built
  running, reading,           \* the reader and the command it was started with
  capture,                    \* _capture: structured controls, raw switch, raw text
  saved,                      \* log-viewer.json
  preview,                    \* the text in the raw entry
  unsaved,                    \* history: the last write of the file failed
  arrived, clicks, restarts

windowVars == <<entries, bucketCounts, tagCounts>>
filterVars == <<activeBuckets, activeTags, search>>
chipVars == <<pinTag, pinOn, chips, chipsOn, more, popover, popoverOn, clearShown,
              rebuildPending, width, pinMoved>>
captureVars == <<capture, saved, preview, unsaved>>
vars == <<windowVars, filterVars, rows, chipVars, running, reading, captureVars, arrived, clicks,
          restarts>>

Click == clicks < MaxClicks /\ clicks' = clicks + 1

Matches(e, buckets, tags, text) ==
  /\ buckets # {} => e.bucket \in buckets
  /\ tags # {} => e.tag \in tags
  /\ text => e.hit

\* The entries of q that are in a set, in order.
Passing(q, S) ==
  LET passing[n \in 0..Len(q)] ==
        IF n = 0 THEN <<>>
        ELSE IF q[n] \in S THEN Append(passing[n - 1], q[n]) ELSE passing[n - 1]
  IN  passing[Len(q)]

Shown(buckets, tags, text) == Passing(entries, {e \in Entries : Matches(e, buckets, tags, text)})

-----------------------------------------------------------------------------
(* The tag bar *)

\* _rebuild_chips: the tags with the most entries first, as many as fit, with room kept for
\* "+N more" while some are left over.  A bar without room shows them all.
RebuildChips(counts, pin, active, clear) ==
  LET tags == {t \in Tags : counts[t] > 0} \ {pin}
      taken == (IF pin # NoTag THEN 1 ELSE 0) + (IF clear THEN 1 ELSE 0)
      available == IF width <= taken THEN 0 ELSE width - taken
      fitting == IF available = 0 \/ Cardinality(tags) <= available
                 THEN Cardinality(tags) ELSE available - 1
  IN  /\ \E T \in {S \in SUBSET tags : Cardinality(S) = fitting} :
           /\ \A t \in T, u \in tags \ T : counts[t] >= counts[u]
           /\ chips' = [t \in T |-> counts[t]]
           /\ chipsOn' = T \cap active
      /\ more' = Cardinality(tags) - fitting
      /\ pinMoved' = FALSE

\* _refresh_chip_counts: new labels now, a rebuild on the next idle.
RefreshChipCounts(counts) ==
  /\ chips' = [t \in DOMAIN chips |-> counts[t]]
  /\ rebuildPending' = TRUE
  /\ UNCHANGED <<chipsOn, more, pinMoved>>

\* _sync_tag_filter_state
SyncTagFilter(shownChips, active) ==
  /\ chipsOn' = shownChips \cap active
  /\ pinOn' = IF pinTag # NoTag THEN pinTag \in active ELSE pinOn
  /\ popoverOn' = popover \cap active
  /\ clearShown' = (active # {})

\* _update_list_stack: the filter controls are hidden while there is no entry.
TagBarShown == entries # <<>>

\* A chip of any of the three kinds is toggled: the handlers do the same.
SetTagFilter(active) ==
  /\ Click /\ TagBarShown
  /\ activeTags' = active
  /\ SyncTagFilter(DOMAIN chips, active)
  /\ rows' = Shown(activeBuckets, active, search)
  /\ UNCHANGED <<windowVars, activeBuckets, search, pinTag, chips, more, popover, rebuildPending,
                 width, pinMoved, running, reading, captureVars, arrived, restarts>>

Toggle(set, x) == IF x \in set THEN set \ {x} ELSE set \cup {x}

ToggleInlineChip == \E t \in DOMAIN chips : SetTagFilter(Toggle(activeTags, t))
TogglePopoverRow == more > 0 /\ \E t \in popover : SetTagFilter(Toggle(activeTags, t))
TogglePinChip == pinTag # NoTag /\ SetTagFilter(Toggle(activeTags, pinTag))
ClearTags == clearShown /\ SetTagFilter({})

OpenPopover ==
  /\ TagBarShown /\ more > 0
  /\ popover' = {t \in Tags : tagCounts[t] > 0}
  /\ popoverOn' = popover' \cap activeTags
  /\ UNCHANGED <<windowVars, filterVars, rows, pinTag, pinOn, chips, chipsOn, more, clearShown,
                 rebuildPending, width, pinMoved, running, reading, captureVars, arrived, clicks,
                 restarts>>

\* Variant: the pin chip keeps the state it had.
SelectExtensionKeepingPin(t) ==
  /\ Click
  /\ pinTag' = t
  /\ pinMoved' = (t # pinTag \/ pinMoved)
  /\ UNCHANGED <<windowVars, filterVars, rows, pinOn, chips, chipsOn, more, popover, popoverOn,
                 clearShown, rebuildPending, width, running, reading, captureVars, arrived, restarts>>

\* set_selected_extension.  The inline chips stay as they are.
SelectExtension(t) ==
  /\ Click
  /\ pinTag' = t
  /\ pinOn' = IF t # NoTag THEN t \in activeTags ELSE pinOn
  /\ pinMoved' = (t # pinTag \/ pinMoved)
  /\ UNCHANGED <<windowVars, filterVars, rows, chips, chipsOn, more, popover, popoverOn,
                 clearShown, rebuildPending, width, running, reading, captureVars, arrived, restarts>>

Resize(w) ==
  /\ Click /\ TagBarShown
  /\ w # width
  /\ width' = w
  /\ rebuildPending' = TRUE
  /\ UNCHANGED <<windowVars, filterVars, rows, pinTag, pinOn, chips, chipsOn, more, popover,
                 popoverOn, clearShown, pinMoved, running, reading, captureVars, arrived, restarts>>

ChipsRebuildIdle ==
  /\ rebuildPending
  /\ rebuildPending' = FALSE
  /\ RebuildChips(tagCounts, pinTag, activeTags, clearShown)
  /\ UNCHANGED <<windowVars, filterVars, rows, pinTag, pinOn, popover, popoverOn, clearShown, width,
                 running, reading, captureVars, arrived, clicks, restarts>>

-----------------------------------------------------------------------------
(* Entries and the filters over them *)

Evicts == Len(entries) = MaxEntries
Without(counts, x) == [counts EXCEPT ![x] = @ - 1]
With(counts, x) == [counts EXCEPT ![x] = @ + 1]

\* Variant: the evicted entry keeps its counts.
OnLogEntryKeepingCounts(e) ==
  /\ running /\ arrived < MaxArrivals /\ arrived' = arrived + 1
  /\ entries' = Append(IF Evicts THEN Tail(entries) ELSE entries, e)
  /\ bucketCounts' = With(bucketCounts, e.bucket)
  /\ tagCounts' = With(tagCounts, e.tag)
  /\ IF tagCounts[e.tag] = 0
     THEN RebuildChips(tagCounts', pinTag, activeTags, clearShown) /\ UNCHANGED rebuildPending
     ELSE RefreshChipCounts(tagCounts')
  /\ rows' = IF Matches(e, activeBuckets, activeTags, search) THEN Append(rows, e) ELSE rows
  /\ UNCHANGED <<filterVars, pinTag, pinOn, popover, popoverOn, clearShown, width, running, reading,
                 captureVars, clicks, restarts>>

\* _on_log_entry, for an entry of the reader's present run.
OnLogEntry(e) ==
  LET kept == IF Evicts THEN Without(tagCounts, entries[1].tag) ELSE tagCounts
  IN  /\ running /\ arrived < MaxArrivals /\ arrived' = arrived + 1
      /\ entries' = Append(IF Evicts THEN Tail(entries) ELSE entries, e)
      /\ bucketCounts' =
           With(IF Evicts THEN Without(bucketCounts, entries[1].bucket) ELSE bucketCounts, e.bucket)
      /\ tagCounts' = With(kept, e.tag)
      /\ IF kept[e.tag] = 0
         THEN RebuildChips(tagCounts', pinTag, activeTags, clearShown) /\ UNCHANGED rebuildPending
         ELSE RefreshChipCounts(tagCounts')
      /\ rows' = IF Matches(e, activeBuckets, activeTags, search) THEN Append(rows, e) ELSE rows
      /\ UNCHANGED <<filterVars, pinTag, pinOn, popover, popoverOn, clearShown, width, running,
                     reading, captureVars, clicks, restarts>>

\* Variant: the dot is pressed, the rows stay.
ToggleStatDotOnly(b) ==
  /\ Click
  /\ activeBuckets' = Toggle(activeBuckets, b)
  /\ UNCHANGED <<windowVars, activeTags, search, rows, chipVars, running, reading, captureVars,
                 arrived, restarts>>

ToggleStatDot(b) ==
  /\ Click /\ TagBarShown
  /\ activeBuckets' = Toggle(activeBuckets, b)
  /\ rows' = Shown(activeBuckets', activeTags, search)
  /\ UNCHANGED <<windowVars, activeTags, search, chipVars, running, reading, captureVars, arrived,
                 restarts>>

OnSearchChanged ==
  /\ Click
  /\ search' = ~search
  /\ rows' = Shown(activeBuckets, activeTags, search')
  /\ UNCHANGED <<windowVars, activeBuckets, activeTags, chipVars, running, reading, captureVars,
                 arrived, restarts>>

\* _on_clear: the text and severity filters stay.
OnClear ==
  /\ Click
  /\ entries' = <<>> /\ rows' = <<>>
  /\ bucketCounts' = [b \in Buckets |-> 0]
  /\ tagCounts' = [t \in Tags |-> 0]
  /\ activeTags' = {}
  /\ chips' = <<>> /\ more' = 0 /\ pinMoved' = FALSE
  /\ SyncTagFilter({}, {})
  /\ UNCHANGED <<activeBuckets, search, pinTag, popover, rebuildPending, width, running, reading,
                 captureVars, arrived, restarts>>

-----------------------------------------------------------------------------
(* The capture panel, which is insensitive while the reader runs *)

\* build_journal_cmd
Command(spec) == IF spec.raw THEN spec.text ELSE spec.controls

DefaultCapture == [controls |-> CHOOSE c \in Commands : TRUE, raw |-> FALSE, text |-> NoText]

\* capture_from_settings: a command of an older version becomes a raw override.
FromSettings(file) ==
  IF file.capture # <<>> THEN Head(file.capture)
  ELSE IF file.legacy # NoText THEN [DefaultCapture EXCEPT !.raw = TRUE, !.text = file.legacy]
  ELSE DefaultCapture

\* _apply_capture_change: without the override the raw entry shows the generated command.  The
\* file is written over; an error is logged.
Change(spec, text) ==
  /\ Click /\ ~running
  /\ capture' = spec
  /\ preview' = text
  /\ \/ saved' = [capture |-> <<spec>>, legacy |-> NoText] /\ unsaved' = FALSE
     \/ UNCHANGED saved /\ unsaved' = TRUE
  /\ UNCHANGED <<windowVars, filterVars, rows, chipVars, running, reading, arrived, restarts>>

ChangeControls(c) ==
  /\ ~capture.raw
  /\ Change([capture EXCEPT !.controls = c], c)

\* Variant: the raw command is seeded from the controls whenever the switch goes on.
ToggleRawSeeding ==
  Change([capture EXCEPT !.raw = ~@, !.text = IF capture.raw THEN @ ELSE capture.controls],
         capture.controls)

\* _on_raw_switch_toggled: a blank raw command is seeded.  One that was given earlier is used
\* again, and the entry still shows the generated one.
ToggleRaw ==
  \/ /\ capture.raw
     /\ Change([capture EXCEPT !.raw = FALSE], capture.controls)
  \/ /\ ~capture.raw /\ capture.text = NoText
     /\ Change([capture EXCEPT !.raw = TRUE, !.text = capture.controls], capture.controls)
  \/ /\ ~capture.raw /\ capture.text # NoText
     /\ Change([capture EXCEPT !.raw = TRUE], preview)

OnRawEntryChanged(text) ==
  /\ capture.raw
  /\ Change([capture EXCEPT !.text = text], text)

-----------------------------------------------------------------------------
(* The reader and the app *)

DoStart ==
  /\ ~running
  /\ running' = TRUE
  /\ reading' = Command(capture)
  /\ UNCHANGED <<windowVars, filterVars, rows, chipVars, captureVars, arrived, clicks, restarts>>

DoStop ==
  /\ running
  /\ running' = FALSE
  /\ UNCHANGED <<windowVars, filterVars, rows, chipVars, reading, captureVars, arrived, clicks,
                 restarts>>

\* The app ends and is started again; what was typed and not written is gone.
Restart ==
  /\ restarts < MaxRestarts
  /\ restarts' = restarts + 1
  /\ entries' = <<>> /\ rows' = <<>>
  /\ bucketCounts' = [b \in Buckets |-> 0] /\ tagCounts' = [t \in Tags |-> 0]
  /\ activeBuckets' = {} /\ activeTags' = {} /\ search' = FALSE
  /\ pinTag' = NoTag /\ pinOn' = FALSE /\ chips' = <<>> /\ chipsOn' = {} /\ more' = 0
  /\ popover' = {} /\ popoverOn' = {} /\ clearShown' = FALSE
  /\ rebuildPending' = FALSE /\ width' = 0 /\ pinMoved' = FALSE
  /\ running' = FALSE /\ reading' = NoText
  /\ capture' = FromSettings(saved) /\ preview' = Command(capture')
  /\ unsaved' = FALSE
  /\ UNCHANGED <<saved, arrived, clicks>>

Init ==
  /\ saved \in [capture : {<<>>}, legacy : {NoText} \cup Typed]
  /\ entries = <<>> /\ rows = <<>>
  /\ bucketCounts = [b \in Buckets |-> 0] /\ tagCounts = [t \in Tags |-> 0]
  /\ activeBuckets = {} /\ activeTags = {} /\ search = FALSE
  /\ pinTag = NoTag /\ pinOn = FALSE /\ chips = <<>> /\ chipsOn = {} /\ more = 0
  /\ popover = {} /\ popoverOn = {} /\ clearShown = FALSE
  /\ rebuildPending = FALSE /\ width = 0 /\ pinMoved = FALSE
  /\ running = FALSE /\ reading = NoText
  /\ capture = FromSettings(saved) /\ preview = Command(capture)
  /\ unsaved = FALSE
  /\ arrived = 0 /\ clicks = 0 /\ restarts = 0

TagBarStep ==
  \/ ToggleInlineChip \/ TogglePopoverRow \/ TogglePinChip \/ ClearTags \/ OpenPopover
  \/ ChipsRebuildIdle
  \/ \E t \in Tags \cup {NoTag} : SelectExtension(t)
  \/ \E w \in Widths : Resize(w)

EntryStep ==
  \/ \E e \in Entries : OnLogEntry(e)
  \/ \E b \in Buckets : ToggleStatDot(b)
  \/ OnSearchChanged \/ OnClear

CaptureStep ==
  \/ \E c \in Commands : ChangeControls(c)
  \/ ToggleRaw
  \/ \E text \in Typed \cup {NoText} : OnRawEntryChanged(text)

Next == TagBarStep \/ EntryStep \/ CaptureStep \/ DoStart \/ DoStop \/ Restart

Spec == Init /\ [][Next]_vars

-----------------------------------------------------------------------------
(* Properties *)

\* The ranges of the variables.
Captures == [controls : Commands, raw : BOOLEAN, text : Commands \cup Typed \cup {NoText}]

TypeOK ==
  /\ entries \in Seq(Entries) /\ Len(entries) <= MaxEntries
  /\ rows \in Seq(Entries)
  /\ bucketCounts \in [Buckets -> 0..MaxEntries] /\ tagCounts \in [Tags -> 0..MaxEntries]
  /\ activeBuckets \subseteq Buckets /\ activeTags \subseteq Tags /\ search \in BOOLEAN
  /\ pinTag \in Tags \cup {NoTag} /\ pinOn \in BOOLEAN
  /\ DOMAIN chips \subseteq Tags /\ \A t \in DOMAIN chips : chips[t] \in 0..MaxEntries
  /\ chipsOn \subseteq DOMAIN chips /\ more \in 0..Cardinality(Tags)
  /\ popover \subseteq Tags /\ popoverOn \subseteq popover
  /\ clearShown \in BOOLEAN /\ rebuildPending \in BOOLEAN /\ width \in Widths \cup {0}
  /\ pinMoved \in BOOLEAN /\ running \in BOOLEAN /\ unsaved \in BOOLEAN
  /\ capture \in Captures /\ preview \in Commands \cup Typed \cup {NoText}
  /\ saved.capture \in {<<>>} \cup {<<c>> : c \in Captures}
  /\ arrived \in 0..MaxArrivals /\ clicks \in 0..MaxClicks /\ restarts \in 0..MaxRestarts

Occurrences(P(_)) == Cardinality({i \in DOMAIN entries : P(entries[i])})

\* The numbers on the severity dots and the chips are those of the entries in the window,
\* also after entries were evicted, cleared or arrived while a rebuild was pending.
CountsAreOfWindow ==
  /\ \A b \in Buckets : bucketCounts[b] = Occurrences(LAMBDA e : e.bucket = b)
  /\ \A t \in Tags : tagCounts[t] = Occurrences(LAMBDA e : e.tag = t)
  /\ \A t \in DOMAIN chips : chips[t] = tagCounts[t]

\* Whatever filters were changed since, the visible rows end with exactly the entries of the
\* window that pass the present filters, in order; before them only rows of evicted entries
\* that pass them too.
RowsArePassing ==
  /\ IsSuffix(Shown(activeBuckets, activeTags, search), rows)
  /\ \A i \in DOMAIN rows : Matches(rows[i], activeBuckets, activeTags, search)

\* The tag bar tells the truth.  A tag filter is never active without being visible and
\* removable: every control that stands for a tag shows its state, and the Clear button is there.
\* And every tag of the window can be reached: it is the pinned one, has a chip, or is counted in
\* "+N more"; unless chips are about to be rebuilt or the pin moved since they were built.
TagBarTells ==
  /\ clearShown = (activeTags # {})
  /\ chipsOn = DOMAIN chips \cap activeTags
  /\ popoverOn = popover \cap activeTags
  /\ pinTag # NoTag => pinOn = (pinTag \in activeTags)
  /\ ~rebuildPending /\ ~pinMoved =>
       LET others == {t \in Tags : tagCounts[t] > 0} \ {pinTag}
       IN  DOMAIN chips \subseteq others /\ more = Cardinality(others \ DOMAIN chips)

\* The capture settings survive a restart of the app, those of an older version included,
\* unless the file could not be written; and a raw command that the user gave is replaced
\* only by another one that is typed, not by switching the override off and on.  A running tail
\* reads what the panel is set to, whatever was changed before it was started.
CaptureKept ==
  [][/\ (restarts' # restarts /\ ~unsaved) => capture' = capture
     /\ (capture.text # NoText /\ capture'.text # capture.text) =>
          (capture.raw /\ capture'.raw) \/ (restarts' # restarts /\ unsaved)
     /\ running' => reading' = Command(capture')]_vars

=============================================================================
