# A TLA+ model of GSE Profiler

GSE Profiler is a GTK application (`src/app/`) and a companion GNOME Shell
extension, the *bridge* (`src/bridge-extension/`).  The bridge runs inside
gnome-shell and times the methods of another extension; the application starts
and stops recordings, shows them, tails the journal, inspects object trees, and
installs, updates and removes extensions.  The two talk newline-separated JSON
over a Unix socket.  This directory holds specifications of that system, TLC
configurations that check them on small instances, and TLAPS proofs.

## The system

| Part | Code | State | Operations | Talks to |
| --- | --- | --- | --- | --- |
| Bridge profiler | `bridge-extension/profiler.js` | running, target, scan number, app generation, patches, call depth, event queue, batch timer | start, stop, flush timer, the wrappers | patches the target extension; batches to the dispatcher |
| Bridge dispatcher | `bridge-extension/extension.js` | one profiler, inspector and socket client per `enable()` | enable, disable, messages, shortcuts | profiler, inspector, socket client |
| Socket client | `bridge-extension/socket_client.js` | connection, stopping flag, reconnect timer | connect, disconnect, send, callbacks | socket server |
| Socket server | `app/core/socket_server.py` | connection, cancellable, send queue, write flag | start, stop, send, disconnect_client, callbacks | socket client; signals to the views |
| Message router | `app/core/message_router.py` | handlers by type | on, off, dispatch | views |
| Profiler page | `app/ui/profiler_view.py` | target, profiling, generations, pending acknowledgements, raw events, statistics | buttons, shortcuts, message and connection handlers | socket server, D-Bus client |
| Profile data and charts | `app/ui/profiler_view.py`, `app/ui/profiler/`, `app/core/exporters.py` | statistics, window of events, refresh timer, filter | ingest, refresh, filter, clear, save, load, export | profiler page |
| Journal reader | `app/core/journal_reader.py` | cursor, stop event, generation, threads | start, stop, poll loop, idle callbacks | log view |
| Log view | `app/ui/log_viewer/` | window of entries, counts, filters, rows, tag chips, capture settings | entry, clear, filters, chips, capture | journal reader, settings |
| Inspector and its page | `bridge-extension/inspector.js`, `app/ui/inspector_view.py` | path, rows, status | inspect, drill in, go up, expand, refresh | socket, D-Bus client |
| D-Bus client | `app/core/dbus_client.py` | extension states | list, enable, disable, signals | gnome-shell; all views |
| Extension list, details, main window | `app/ui/extension_list.py`, `details_view.py`, `app/main.py` | rows, highlight, selection, switch, star | click, toggle, uninstall, rebuild | D-Bus client, installers |
| Installers | `app/core/github_installer.py`, `ego_installer.py`, `ego_client.py`, `extension_install.py`, `extension_remover.py` | known updates, worker threads, the extensions directory | install, update, check, remove | HTTP, file system, registry |
| Source registry | `app/core/source_registry.py` | sources by UUID, `sources.json` | get, set, remove, reconcile | installers, list |
| Bridge manager | `app/core/bridge_manager.py`, `shell_restart.py` | the installed bridge | bootstrap, install, reinstall, uninstall | D-Bus client, file system |
| Keybindings and their editor | `app/core/keybindings.py`, `app/ui/shortcuts_dialog.py` | overrides, cache of the bridge's shortcuts, rows, capture | set, reset, capture, snapshots | bridge by the socket |
| Settings | `app/core/settings.py` | one JSON file per view | read, write | views |

What is hard in it: the target extension changes its methods while they are
wrapped; every conversation between page and bridge can be overtaken by the
user's next click; either process can go away at any moment, and the other end
learns of it late; callbacks of abandoned connections and threads still arrive;
worker threads, journal threads and idle callbacks interleave with the main
loop; files are replaced in several steps.  `PROJECT.json` lists these hazards at
their lines, each with the properties that would catch it going wrong.

What makes each part correct:

* profiler — it never changes what the extension does; everything is put back;
  what it delivers is what was called, once, in order;
* page and bridge — they agree once the line is quiet; nothing recorded is lost
  or shown twice; what was cleared stays cleared;
* connection — its signals alternate, its queue is served, it heals;
* journal tail — no entry is skipped, repeated or reordered within a run;
* installers and registry — the directory and the registry agree once nothing is
  under way, an update is never hidden, and every install ends in an answer;
* D-Bus client, list, details page — late answers do not undo newer states, and
  the widgets speak of the same extension and state;
* keybindings — editor, keys, cache, file and bridge agree; no two shortcuts the
  user chose clash;
* inspector — the rows are those of the path on display, the last answer is
  shown, and each row leads to what it describes;
* log view — counts, rows and chips are those of the window;
* profile data — times add up, views are fresh, exports nest;
* discovery — a scan wraps all it reaches and only that, or says it was cut short.

## Modules

| Module | Models | Extends or uses |
| --- | --- | --- |
| `Recorder` | what the profiler promises (abstract) | |
| `Profiler` | `profiler.js`, recording life cycle | `INSTANCE Recorder` |
| `MCProfiler` | the TLC instance of `Profiler` | `Profiler` |
| `ProfilerProofs`, `SessionProofs`, `LinkAndDataProofs`, `LogProofs`, `InspectorProofs`, `InstallerProofs`, `ShortcutsProofs`, `ShellProofs` | theorems about `Profiler` and `Discovery`, `ProfilingSession`, `BridgeLink` and `ProfileData`, `JournalReader` and `LogView`, `Inspector`, `Installer`, `Shortcuts`, `ShellExtensions` | the modules they are about |
| `ProfilingSession` | profiler page and dispatcher over a breaking connection | |
| `SocketServer`, `SocketClient` | the two ends of the socket | |
| `BridgeLink` | the two ends together over the kernel's sockets | `SocketServer`, `INSTANCE SocketClient` |
| `JournalReader` | the journal tail and its threads | |
| `Installer` | both installers, removal, the registry and the views that check for updates | |
| `Discovery`, `MCDiscovery` | the scan that chooses what the profiler wraps; its family of object graphs | |
| `ProfileData`, `MCProfileData` | statistics, window, self times, timeline, speedscope export | |
| `LogView`, `MCLogView` | the logs page: window, filters, tag chips, capture panel | |
| `Inspector`, `MCInspector` | object inspector, its page and the conversation of the two | |
| `Shortcuts`, `MCShortcuts` | keybinding manager, editor, the bridge's shortcuts | |
| `ShellExtensions` | D-Bus client, list, details page, selection, bridge manager; the shell as far as they rely on it | |

`ProfilingSession`, `Inspector` and `Shortcuts` take the connection at what `BridgeLink`
shows of it.  Lines arrive in order until it breaks, and what was on its way is lost.  When a new
connection replaces one whose end was not read (`Connect`, `Replaced`), what waits in the send
queue behind the old connection's write is not lost but goes to the new one; and the write of an
earlier connection can return later (`LateWriteReturns`), and when it has failed it clears the
lines that are still queued for the present one.  A line is either queued or written, and the
model may clear any number of the last ones.  `ProfilingSession` has at most one such write
under way at a time, `Inspector` and `Shortcuts` any number (`lateWrites`).
`ProfilingSession` also keeps each end's own view of the connection.  What the
code does not recover from is named by a history variable (`lostAt`, `lost`) and is an
exception of the properties; see *Other disagreements*.

Each definition that `PROJECT.json` names as a mutant's "as" is a plausible mistake and is
used by nothing: it stands for a version of the definition below it that the
property named with it rejects.

### Profiler

A *slot* is a property of a holder object.  `own` is what the holder itself has
there (a function, a wrapper or nothing), `proto` what it inherits.  A wrapper
carries what its closure captures: its scan, the app's generation, the function
it runs.  Wrappers around wrappers are flattened, since the inner one belongs
to an ended scan and only passes the call on.  `StartProfiling` is the whole of
`startProfiling`: it discards the old queue, restores the old patches and
patches an arbitrary set `P` of slots; `StartFindsNothing` and `StartRollsBack`
are its failures.  The extension may seal, freeze or proxy what holds a slot (`ExtensionLocks`): from
then on `Reflect.defineProperty` or `deleteProperty` may refuse or throw when that slot is to be put
back.  The code logs it, leaves the wrapper and forgets the patch, and so does `Restored(R)`.  A call of a live wrapper is two steps, `Call` and one of
three returns, because anything can happen in between.  The three returns are
the three ends of `#queueEvent`: the batch is full, the timer is armed, the
timer cannot be armed.  The target extension replaces, deletes and re-installs
methods, also wrappers it kept from an earlier scan, and its prototypes change.

History variables: `bare` is what the holders would have had nobody profiled,
`reinstalled`, `locked` and `protoChanged` the slots the three stated exceptions are about,
`made` the wrappers that exist, `sent` what was delivered.

`Reentrant` says whether a message or timer handler may run while a wrapped
call is on the stack.  JavaScript runs to completion, so it normally cannot; it
can when a profiled method iterates the main loop.  `BatchOfOneRecording`,
`DepthIsNesting` and the refinement need `Reentrant = FALSE`.

### ProfilingSession

The page's variables are the fields of `ProfilerView` that the protocol uses.
Each button, shortcut, message and signal handler is one action including what
it sends: `SocketServer.send` appends a line if connected.  The bridge's profiler
is taken at its abstract behaviour (`recorded`, `eventQueue`), which is what the
refinement from `Profiler` to `Recorder` justifies.  The connection is two
queues and each end's view of it, so a side can send into a connection whose
other end is gone.  The app can die and come back (its generations then start
at a random 48-bit base, modelled as one not used before), and so can the shell.
Event payloads are a generation and a number.  An older bridge that sends no
`sessionId` is not modelled.

### SocketServer, SocketClient, BridgeLink

One action per method and callback.  A write is in flight until the kernel
takes or fails it, and then until `_on_write_done` runs; a second write on a
stream that is still busy fails as pending.  A read of a connection that was
replaced still completes and is discarded.  Replacing a connection drops the
last reference to it and so closes it.  The bridge makes a new client object on
every `enable()`; callbacks of the dropped one still run.

### JournalReader

Every `start()` makes a thread with its own position in the journal.  The cursor,
the stop event and the generation counter are shared with all threads, as in
the code.  `SeekInitial` leaves the reader *on* the oldest of the last
`InitialEntries` entries and reading continues after it, which is what
`seek_tail` followed by `get_previous` does.  A batch travels through an idle
callback and is dropped there if its generation is not the current one.

`reader.wait` reports an append, that journal files came or went (`JournalRotates`), or
nothing; the second hides an append that is reported with it (`sd_journal_process`), and the
loop reads on an append only, so that entry is shown with the next one.  `change` is what each
reader is still to be told.  `PromptThreads = TRUE`
assumes that a new thread reads the generation counter before the user can stop
the tail again; without it two threads can share a generation.

### Installer

A job is one call of `install` or `update` and carries what the code hands from
callback to callback: the extension, the version pinned by the lookup, and
the step it has reached (`pc`).  The steps are the HTTP replies on the main loop
(`OnRepoInfo`, `OnLookup`, `OnArchive`, `RequestFails`), those of the worker thread
(`Stage`, `ClearTarget`, `MoveIn`, `Report`, each of which may fail and leave what
it had done), and the idle callback that records the source (`FinishInstall`)
or shows the error (`Fail`).  A version is a commit on GitHub or a version number
on extensions.gnome.org; `IsNewer` compares them as each installer does.

`sources` is the registry in memory, `saved` its file: a failed write leaves the
two different, and a crash goes back to the file.  `activeSource` is the source
that the details page read when the extension was selected, and `offered`, the
visible Update rows, belongs to the page and not to the extension, as in the code.
`listing` is a `ListExtensions` call whose reply will reconcile the registry; a
signal reconciles it at any time.  Removal is one step, since the code does it in one
on the main loop.  The reply to a check or a lookup holds the version that is newest when
it is handled; a reply that was delayed is a `Publish` after it.

`OneAtATime = TRUE` assumes the user waits for an install before starting a
second one of the same extension.  Nothing in the code enforces it for two installs
from the dialogs.  Without it `InStep` fails: of two workers that have both cleared
the directory, the later move lands inside the tree of the earlier one.

### Discovery

An object is its own properties in order, the entries of its collection, its
prototype, and whether it is sealed.  `Visit` is one turn of the loop of
`#patchGraph`: it patches the object along its prototype chain (`PatchChain`,
`PatchOne`), then reads its children, wrappers included, and queues those that
are new.  `graph` is the heap as the scan changes it, `before` the heap it
found; both limits that end the scan and those that only cut an object short are
modelled.  The names of an object (`listed`), a property (`"unreadable"`) or a prototype may throw
when read, as those of a proxy do; the scan then goes on without them and says nothing of it, and
`ScanIsComplete` promises only what can be read.  `DiscoveryAssumption` asks that no prototype is above itself, which the engine
refuses, and that an object has one property of a name.  Three things the model makes visible and no property forbids: an object
that is the prototype of another gets its wrapper wrapped again, so that such a
call is recorded twice; a method that cannot be wrapped is counted as skipped
once per holder; and a wrapper that hides an inherited method is a further
property of its object, so it can make `maxPropertiesPerObject` report a
truncation.

### ProfileData

The target extension calls its functions on a clock of whole microseconds.
An event is what the wrapper records, with the calls it was made in as history for the
properties.  `_recompute_self_times` and `to_speedscope` rebuild nesting from
spans alone; `SelfTime` and `Speedscope` are the two, and `OwnTime` is what they
should find.  `Load` also loads a profile of another machine, whose events need not nest and may
be of functions that are not the extension's (`OtherFunctions`): while the window may hold some
(`foreign`; they may come back from a file that was saved with them) only freshness and the export
are asked, since their mixture with live events can give negative self times.  `LoadFails` is a file
that is JSON but no profile, or whose list of events breaks off: `_on_load_response` raises when
the old data is gone, and the views keep showing it until the next refresh (`stale`).  Sorting is by rank in
an order (`ByStart`, `BySpan`), and the loops of `visible_segments`, `_valid_events` and
`to_speedscope` are recursive functions whose turns are operators (`Grown`, `Exported`), for the
proofs.  Two nested calls with the same span cannot be told
apart, so the exact self time per function is asked only when all spans differ.
Calls that took no time are not drawn when nothing else ran at that moment.

### LogView

An entry is its severity, its tag and whether the text searched for is in it.
Chips are rebuilt on a later idle (`ChipsRebuildIdle`), while labels and pressed
states change at once.  The rows are a history of the filters: `rows` may still hold
entries that the window has lost, as in the code, and is recomputed from the window
by the next filter.  While the bar waits for a rebuild the old pin's tag has no
chip and the Clear button no room.  Of the capture panel, `capture` is the setting,
`saved` the file, `preview` the text in the entry, which need not be the command that
would be run: with a raw command given earlier and the switch on again, the entry still
shows the generated one.

### Inspector

A heap of linked objects, arrays and Maps that changes while the page looks at
it.  A row is a name, the label of its value, the segment that leads to it and
the children it shows when expanded.  Requests are answered in order; results
say which extension and path they are of.  `known` is what the D-Bus client has
told the page, behind `running` by the signals on their way.  Prototype methods,
which `inspector.js` merges into an object, are part of its entries.  While the page
says "Loading..." the old rows can still be clicked; the path is then made of the
new path and an old row's segment, and may lead nowhere.  `DrillReaches` therefore
speaks of rows that were just made.

### Shortcuts

A shortcut has a set of accelerators.  `overrides` and `file` are those of the app and its
tabs, `cache` and `settings` the app's and the bridge's copy of the global ones.
`EmitChanged` is every listener: what the app reacts to (`live`) and the editor's
rows.  A reset is not compared with the other shortcuts, and the cache can be older than
the bridge's settings, so two global shortcuts, or one reset to its default, can clash;
`OverridesApart` speaks of keys the user chose for the app and its tabs.  Edits made while
the bridge is away change the cache, and the next snapshot takes them back.

### ShellExtensions

GNOME Shell is external: the model has it take a call, follow it later with a
state change and a signal, and after a disable signal the extension
as enabled once more.  Both directions of the bus are first in, first out.  `Followed` says that
the shell has done what it was asked.  Other programs switch, remove and add
extensions (`ChangeOutside`).  A dialog keeps the window from being
used, so `prompts` is a stack.  `disableLost` marks the cases in which
`_pending_disable` stays set since no signal of the disable comes: it failed, was taken back half
way, or had nothing to do because the enable before it had failed; the switch then shows off
until the next click.  `TakeCall` may fail any call, a list too; `listed` says that a list has come in since the app started,
`listLost` that one failed and the page was not refreshed since, `returned` that a removed selection came back.
`Uninstall` of the bridge removes
the directory when the disable returns, also when a Reinstall came in between.

## Runs

| Run | Instance | Distinct states | Question |
| --- | --- | --- | --- |
| `profiler` | 2 slots (one own and inherited, one only inherited), 2 functions, 2 scans, 2 writes or locks, 2 events, depth 2, batches of 2 | 478 000 | is profiling transparent, undone, and a faithful recorder? |
| `discovery` | 45 360 graphs of 3 objects and 2 prototypes, some unreadable, 4 sets of limits | 688 000 | does the scan wrap all and only what it should, shallow objects first? |
| `session` | 1 extension, 2 generations, 3 events per recording, batches of 2, window of 2, 2 lines each way, a late write | 276 000 | do page and bridge stay in step, lose nothing, settle? |
| `link` | 3 connections, 2 enablings, 2 app runs, 2 lines sent; 2 in all of lines from the bridge, `disconnect_client` and app restarts | 871 000 | do signals, queue and order survive late callbacks, and does the link heal, also across a restart of the app? |
| `profile_data` | 2 functions, 3 calls to depth 3, time up to 3, window of 2, gap 1, 2 clicks, a foreign profile, loads that fail | 2 202 000 | do times add up, are the views fresh and complete, does the export nest? |
| `journal` | 2 starts, 4 entries, initial 2, any rotations | 306 000 | is a run consecutive and complete? |
| `log_view` | 3 tags, 2 severities, window of 2, 4 arrivals, 3 clicks, widths 2 and 3, 1 restart | 2 856 000 | are counts, rows and chips true, is a raw command kept? |
| `inspector` | 2 extensions, an object, a Map and an array in a cycle, 3 children per row, 4 clicks, 1 each of changes, switches and lost or replaced connections | 2 916 000 | are the rows those of the path, is the last answer shown, do rows lead to what they describe? |
| `shortcuts` | 2 global shortcuts, 1 of the app, 2 of tabs, 3 keys, 6 clicks, 2 lost or replaced connections, 1 restart, 1 failing write | 4 225 000 | do editor, keys, file, cache and bridge agree? |
| `extensions` | the bridge and 1 extension, 3 clicks, 2 troubles (failing calls and lists, other programs), 1 new login | 17 010 000 | do cache, switch, list and selection agree with the shell? |
| `install` | 1 extension, GitHub, 2 installs, 2 versions, 1 check, 1 fault | 671 000 | do directory and registry agree, and does every install end? |
| `stale_mark` | 1 extension, EGO, 2 installs, no fault | — | refuted: a mark means that an update is available (extension_list.py:143) |

What each shows.  `profiler`: `Transparent` (a call runs the function it would run
without the profiler), `ExactlyRestored`, `BatchOfOneRecording`, `FlushArmed`, `DepthIsNesting`,
and the refinement to `Recorder`.  `session`: `ClearedStaysCleared`, `AcksMatchStarts`,
`InStep`, `NothingLost`, and in the end `EventsAreShown` and `StartsSettle`.  `link`: `SignalsAlternate`,
`QueueIsServed`, `SentInOrder`, `Heals`.  `journal`: `RunIsConsecutive`, `EntriesArrive`.
`install`: `InStep`, `NeverAhead`, `InstallsSettle`.  `log_view`: `CountsAreOfWindow`,
`RowsArePassing`, `TagBarTells`, `CaptureKept`.  `inspector`: `RowsMatchPath`, `ShowsLastAnswer`,
`DrillReaches`.  `shortcuts`: `RowsShowAccels`, `CachesAgree`, `OverridesApart`.  `extensions`:
`CacheAgrees`, `SwitchSettles`, `WindowAgrees`.  `profile_data`: `TimesAddUp`,
`ViewsShowCalls`, `ExportNests`.  `discovery`: `ScanIsComplete`, `WrapsWhatWasSeen`, `ShallowFirst`.  The comment before each
says what it is about.  The type invariants are stated for the
proofs and are not among the runs.

Why the bounds are enough.  Two scans show an old wrapper inside a newer one
and a restart over patches; two writes let the extension change a slot and
change it back, or re-install a wrapper; batches of two have a partly filled
and a full queue.  Two generations suffice for every confusion of an older with
a newer recording, and two lines in flight let an answer overtake a request.
Three connections hold a current one, a replaced one whose callbacks are under
way and a new one in the backlog; two client objects are a dropped one and its
successor.  Two starts of the tail are an old thread and a new one, and four
entries are more than the initial two.  Two installs of one extension show an
install over an install and an update during a check, two versions an old and a new one,
and one fault each kind of failure in each place; extensions share nothing but
the page.  A log window of two evicts on the third entry, and three tags in a bar of two
units leave one for the popover.  Three calls are a caller with two callees
or a chain of three, and a window of two loses the caller or the callee.
One extension is enough for the session, where another differs in its name only and the proofs hold
for any number; in the inspector two are the one selected and another.  Of the extensions on the
bus, the bridge and one other are one that the app installs and removes and one that it does not; two
troubles remove an extension and bring it back, or fail a call and the list after it.  Four clicks in the inspector go
into an object, on, back and elsewhere.  Six clicks edit, capture, call off
and reset two shortcuts.  The graphs contain each relation the scan can meet: a cycle,
a shared object, a collection, a hidden and an inherited method, a prototype that is visited
as an object, a locked property, a sealed object, a property and an object that throw.  In `Profiler`, `Spec` has no bound on its
behaviour other than those named in `CONSTANTS`, and the proofs hold for all
their values.

`profiler`, `session` and `install` are checked for deadlock.  The others switch the check
off: once the app has exited for good, the scan is done, or the bounds are used up, nothing is
left to do.

Fairness.  `Profiler`: a method that was called returns, and the batch timer is
dispatched although calls keep coming (strong fairness, since calls disable
handlers meanwhile).  `ProfilingSession`: both main loops handle lines that
have arrived, ends of streams and the timer.  `BridgeLink`: the app's main loop
accepts, reads and calls back, the kernel completes writes, and each client
object's connection attempt, reconnect timer and reads go on.  `JournalReader`:
threads run, `reader.wait` returns within its second and in the end tells of an append, idle callbacks are
called.  `Installer`: requests are answered or fail, worker threads run, and
idle callbacks are called; the code itself sets no timeout, so the first of these is
what libsoup and the network stack give.  No user action, crash or shutdown is ever assumed to happen.
The other modules assume no fairness: their properties are safety properties, those about the
end of an exchange stated of the states in which nothing is on its way.

### What the refuted property shows

`stale_mark`: the list drops a mark only with the extension's source, so the dot
stays blue after the update was installed, until the app is restarted.

### Other disagreements between documentation and code

The models contain them; no run of its own is spent on them.

* `profiler_view.py:1051`: Start accepts only its own generation at once, so the batch that
  the previous Stop flushed, if still on its way, is dropped, though `README.md:124` says that
  stop and start keep the recording.
* `README.md:129` says that installed wrappers are fully reversed when profiling stops (and `README.md:176`
  that stop restores all that are still installed).  `profiler.js:367`: where
  `Reflect.defineProperty` or `deleteProperty` refuses or throws, as on an object that was frozen
  meanwhile, the failure is logged, the wrapper stays for good and the patch is forgotten.  `ExactlyRestored` excepts
  such properties (`locked`), and says that the others do not suffer.
* `socket_server.py:165`: `_on_incoming` replaces a live connection without dropping the queue and
  the write flag, which `socket_server.py:91` calls per-connection state: lines queued for the
  old connection go to the new one.  And `_on_write_done` (`socket_server.py:144`) does not look whose
  write it is: one of an earlier connection that fails late clears what is queued for the new one.  A start
  lost so is never answered while the connection lasts, a stop leaves the bridge recording, an `inspect` leaves the page
  at "Loading...", a `get_keybindings` leaves the global shortcuts unavailable, until the user acts
  or the connection ends.  The properties of the three modules name these cases (`lostAt`, `lost`) and
  hold otherwise.
* `flamegraph.py:3` says that the flame graph, unlike the swim lanes, collapses no idle gaps.  Both take
  their segments from `compute_timeline_layout` and both collapse them; `ChartCovers` is about both.
* `profiler_view.py:1309`: a file that is JSON but no profile raises after `_clear_data`: the data is gone and the views
  show it until the next refresh.
* `dbus_client.py:260`: a list that fails is only logged.  When it is the first, the client knows just
  the extensions that signals tell it of; when it is the one after a failed toggle, the switch stays wrong until the
  next signal.  `dbus_client.py:246` says that a list made before a signal would leave a state wrong for good;
  with messages delivered in order the signal comes after it and corrects it (`CacheAgrees`).
* `main.py:403` lets go of a selected extension that was removed; the sidebar does not (`set_active_uuid`,
  `extension_list.py:287`, is called by nothing), and `_restore_selection` highlights it again when it comes back, next to a
  page that says that nothing is selected.  `WindowAgrees` excepts this (`returned`).
* `profiler.js:498` and the other catches of the scan (455, 469, 597, 615, 647, 658) skip what throws without setting
  `truncated` or `skippedFunctions`, so a scan that reports nothing can have missed it.
* `journal_reader.py:295`: an entry that `wait` reports together with a rotation is shown with the next one.
* `socket_client.js:121`: a connection attempt that `disconnect()` finds under way succeeds later,
  although `socket_client.js:42` says that it stops connecting.  `Heals` still holds.
* `journal_reader.py:251`: a stop and a start within the second clear the stop event before the
  old thread looks at it; it reads on for ever (`journal_reader.py:262` relies on its end).
  The generation keeps its batches from being shown.
* `ego_installer.py:137` says that an update keeps the install time; a source that was pruned
  while the directory was absent for a moment takes the time of the update.
* `profiler_view.py:1701`: of nested calls with equal spans, the order of arrival decides which
  is the parent, and self time can go to the wrong one of two functions.
* `profiler.js:641` says that an own non-function takes precedence over an inherited method.  On the
  prototypes the scan does not look for that: an accessor of a nearer prototype is no function, so the method of the
  same name of a farther one is wrapped and put on the object, over the accessor.  A nearer method does the same when it
  is beyond `maxPropertiesPerObject`: calls then run the method it overrides.  `WrapsWhatWasSeen` leaves out both.
* `keybindings.py` sets the availability of the global shortcuts from a snapshot that changes
  nothing without telling its listeners, so an open editor keeps them greyed out.
* A DisableExtension that fails, or that finds the extension disabled, leaves the details page's switch off until
  the next click, also when the extension is enabled by another program.

## Proofs

Each proof module holds the theorems about one component, for every value of its constants that
its named assumption admits (sets disjoint from the values that stand for "none", bounds that are
numbers).  In every one an invariant is shown to hold at the start and to be kept by each action,
with one step of the proof per action, and the property follows from it.  All 33 invariants that
the runs check are proved, and so are the action property `CaptureKept`, the refinement's steps, and
the type correctness of each of these components.

| Module | Theorem | Property | Beyond the component's assumption |
| --- | --- | --- | --- |
| `ProfilerProofs` | `TypeCorrect`, `AlwaysTransparent`, `AlwaysRestored`, `AlwaysFlushArmed` | `Transparent`, `ExactlyRestored`, `FlushArmed` | |
| | `AlwaysOneRecording`, `AlwaysNested`, `ImplementsRecorder` | `BatchOfOneRecording`, `DepthIsNesting`, steps of `Recorder` | `Reentrant = FALSE` |
| | `CompleteScan`, `WrapsSeen`, `ShallowObjectsFirst` | `ScanIsComplete`, `WrapsWhatWasSeen`, `ShallowFirst` | |
| `SessionProofs` | `AlwaysCleared`, `AlwaysMatched`, `AlwaysInStep`, `AlwaysNothingLost` | `ClearedStaysCleared`, `AcksMatchStarts`, `InStep`, `NothingLost` | |
| `LinkAndDataProofs` | `AlwaysAlternate`, `AlwaysServed`, `AlwaysInOrder` | `SignalsAlternate`, `QueueIsServed`, `SentInOrder` | |
| | `AlwaysShown`, `AlwaysNests`, `AlwaysAddUp` | `ViewsShowCalls`, `ExportNests`, `TimesAddUp` | |
| `LogProofs` | `AlwaysConsecutive` | `RunIsConsecutive` | `PromptThreads = TRUE` |
| | `CountsAlwaysOfWindow`, `RowsAlwaysPass`, `TagBarAlwaysTells`, `CaptureIsKept` | `CountsAreOfWindow`, `RowsArePassing`, `TagBarTells`, `CaptureKept` | |
| `InspectorProofs` | `ResultsAreMatched`, `LastAnswerIsShown`, `DrillingReaches` | `RowsMatchPath`, `ShowsLastAnswer`, `DrillReaches` | |
| `InstallerProofs` | `AlwaysNeverAhead`, `AlwaysInStep` | `NeverAhead`, `InStep` | `OneAtATime = TRUE` |
| `ShortcutsProofs` | `RowsAlwaysShowAccels`, `CachesAlwaysAgree`, `OverridesAlwaysApart` | `RowsShowAccels`, `CachesAgree`, `OverridesApart` | |
| `ShellProofs` | `CacheAlwaysAgrees`, `SwitchAlwaysSettles`, `AlwaysAgreeOnWindow` | `CacheAgrees`, `SwitchSettles`, `WindowAgrees` | |

The three assumptions in the last column are those the runs make too; *Modules* says what each one
means and what happens without it.

The invariants, and why the properties need them:

* `Profiler`.  `Transparent` and `ExactlyRestored` say nothing of the wrappers in the slots, so neither is
  inductive.  `RestoreInv` adds that a patch remembers the own value that would be there without
  the profiler, that the wrapper in a patched slot runs what the slot would run, and that a slot
  without a patch holds what it would hold, unless the extension wrote a wrapper.
  `AlwaysOneRecording` and `AlwaysNested` rest on three parts: calls in progress are calls of the
  running scan, counted from the outside in; wrappers of the running scan carry its app generation;
  what waits is of one recording.  The second is what makes a call that enters a wrapper keep the
  first, and the first what makes a call that leaves one keep the third.  `ImplementsRecorder`:
  every step maps to a step of `Recorder` or to none.
* `Discovery`.  `ScanInv`, of any finite graph: each object before the head has had every method of its chain
  wrapped, refused or left to a limit that was reported (`Served`), what it holds is queued no deeper than one step further
  (`Explored`), and the queue has each object once, in the order of the depths, no object deeper than it is far
  from the root (`InLine`).  What an object has become is what it was, its
  properties in their places, and after them methods of its prototypes (`Sound`); so wrappers
  change neither the chains nor the children (`ChainAlike`, `KidsGrown`).  The slots that `defineProperty` refused are
  a set the invariant guesses, no larger than the count of skipped functions.  The loops of the scan
  are recursive functions, and what they keep true (`PatchChainKeeps`, `EnqueueAllOffers`) is proved by induction over their
  turns.
* `ProfilingSession`.  `ClearInv`: batches are uniform, and the accepted generation is not older than what was
  cleared.  `MatchInv`: the generations of starts rise along the line from acknowledgements to
  requests, which makes the match unique; the order-preserving function that the property speaks
  of is built from it.  `StepInv` says what the property says while lines are still on their way:
  the last thing the bridge will hear is what the page shows, and a refusal under way is of a
  recording the bridge does not make.  `KeptInv`: the numbers of the accepted events run without
  a gap through window, lines and queue (`Chained`), for which a new generation must be newer than
  everything shown, under way or recorded (`FreshInv`).  A line that is cleared or goes to the next connection leaves the rest in their order; after a
  loss (`lostAt`) `MatchInv` and `StepInv` speak of the requests made since.
* `BridgeLink`.  `LinkInv`: the queue waits only behind a write, and the lines of the queue, of the writes and
  of the kernel's buffers are sorted, one write of each connection at a time being carried out.
* `ProfileData`.  `DataInv` keeps what the algorithms are given: an event of the extension does not end before it
  starts, and a window that has had no foreign one holds only such.  The rest are facts about sequences of any length,
  by induction over the turns of each loop.  `SegmentsOf`: segments are further apart than the threshold, each event so far
  is in one of them, and none reaches into a time in which none of these ran.  `Nests`: transitions go forward,
  every span that is open was opened by one that nothing has closed since, spans end no later than the one they are in,
  and none ends before the last transition; clamping the end (`Opened`) is what keeps the last two.  Any order that is total
  sorts (`SortedHas`), as the ranks of n events are the numbers up to n.
  `TimesAddUp` is not inductive: it needs that the calls behind the events nest, wherever the events are.
  `NestInv`: of two events of this machine's calls, on their way, in the window or in the file, one call was over before the
  other began, or was made in it, and the ids in `within` say so; the calls in progress enclose what
  returned since they began and nothing else.  `StatsInv`: totals count every call of the window and those that have left it.
  Times are counted: a duration is the number of moments at which a call ran, and an event's self time the number
  of those at which none it encloses ran (`Lone`).  These sets are apart and leave out no moment of any call (`LoneApart`,
  `LoneCovers`), because the stack of `_recompute_self_times` has the innermost open event on top (`ParentsAre`); so self
  times are not negative, stay within totals and add up to the time covered.  Without equal spans the order of the events
  tells which call was made in which, and `Lone` is what a call has for itself (`LoneIsOwn`).  That a fold over a set does not
  depend on the order it takes the elements in, and counts the union of sets that are apart, is proved over the subsets
  (`AddingStep`, `SumCounts`).
* `JournalReader`.  `TailInv`: the batches of the present run that wait as idle callbacks are adjacent, begin
  after what is shown, and reach to where the run's thread is; each thread has the generation of its
  start.
* `Installer`.  Neither the registry nor its file claims a later version than what is published, what any install
  under way has pinned, or what stands in the directory (`AheadInv`); between clearing and moving
  nothing stands in the directory, and after it what the install put there (`PlaceInv`).  `CoreInv`: directory and
  registry agree unless an install is replacing the directory.
* `LogView`.  Counts are cardinalities of sets of places in the window (`CountInv`).  `RowInv`: the rows are
  some that passed, followed by those of the window that pass.  That appending one row at a time comes to the same as building
  them all, also when the oldest entry goes, is a fact about `Passing`, which is recursive.  It is proved by induction over
  the natural numbers, which is derived (`Induction`) from the well-foundedness of the subset order on finite sets.
* `Inspector`.  `TableInv`: the table is a sequence of rows of one result with the children of those that are
  expanded between them, and `_item_positions` has each row's place; opening and closing a row moves the
  places behind it (`InsertedTable`, `RemovedTable`).  `AskInv`: while the page shows properties, the last
  request on its way, or the last result, or the table is of what is selected; so `ShowsLastAnswer` holds when nothing is
  on its way.  `DrillReaches` needs no invariant beyond the types: that a segment found on an object leads to the
  value serialized under it is a fact about `Serialize` and `Resolve` on any graph.
* `Shortcuts`.  What the next start will read is apart too (`ApartInv`), and the last report under way is of the
  settings as they are unless a request under way will be answered with another (`AgreeInv`).
* `ShellExtensions`.  `CacheInv`: of each extension, the last message on its way that concerns it tells its state; when
  there is none, the client has it, or no list has come in yet (`listed`).  `SwitchInv` adds the
  disable that the page waits for: it is on its way to the shell, or in the shell, or its signal is under
  way, and it is the last call on its way about the extension; and while an enable has failed, the list that takes it back is asked for or on
  its way, unless it failed too (`listLost`).  `WindowInv`: with nothing selected, the sidebar's own selection has no
  row unless it came back (`returned`).

Attempts to prove changed the model in six places.  `SwitchSettles` was false: with two troubles, an enable that fails, then a
disable that therefore has nothing to do and so sends no signal, then another program's enable leave the
switch off for good; this case is now among those that `disableLost` marks, and a run with one
trouble does not reach it.  `InStep` of `Installer` excepted extensions about to be removed, which turned out not to be needed.
`Shown` of `LogView` is stated by a recursive function in the way the loop of `_rebuild_view` builds the list,
since the provers cannot expand `SelectSeq`.  `Inspector` says of its objects that the keys of one
object differ (`Nodes`): `_serializeObject` collects properties by name, and without it a segment could lead to
another value than the row shows.  `ScanIsComplete` once said also that what is wrapped was seen; that holds of
all scans and not just of complete ones, and became `WrapsWhatWasSeen`, which is false of objects with a prototype
that has too many properties: no graph of the run's family had one, and now one has.
A window saved while it held foreign events and loaded again was taken for the extension's own in `ProfileData`, and
`foreign` now tells by the events.

Model-checked only:

* liveness (`EventsAreShown`, `StartsSettle`, `Heals`, `EntriesArrive`, `InstallsSettle`) and that `Recorder`'s log is
  caught up with in the end, since fairness and `ENABLED` are beyond the provers.

## Not modelled

* Calibration (an estimate in the header of a batch), the stopwatch, sorting, the histogram,
  colours, hit tests and layout; the Trace Event export, which maps events one to one.
* Events of a loaded file that lack a number where one is expected, on which a later refresh raises.
* JSON: a line parses and is an object.  A partly written line (the count that
  `write_bytes_async` returns is ignored, `socket_server.py:142`) and a line that is no object
  (`_dispatch` raises and the connection is never read again, `socket_server.py:227`) are left
  out; the bridge sends short lines and objects only.
* Messages of older bridges without `sessionId`; registration of message handlers.
* Of the installers: what an archive holds (its filter, path checks, schema
  compilation, an archive whose UUID is not the one asked for), the search on
  extensions.gnome.org, URL parsing, and the install of the bridge file by file.
* Of the journal and log view: parsing of entries, auto-scroll, copying, the search in the popover.
* Of the inspector: the text of primitive values, and that values are described to their full
  depth, which costs time and changes no result.
* The session bus being unreachable, menus, and whether the call `do_shutdown` makes is still sent
  (`main.py:552`; `NewSession` takes either).
* `app/ui/extension_manager.py`, which nothing uses; the bridge's logger; build scripts.

## Plan

Modelled and checked: all modules above; proved: all the invariants their runs check.
