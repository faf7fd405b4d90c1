-------------------------- MODULE ProfilingSession --------------------------
(***************************************************************************)
(* The recording protocol between the app's profiler page                  *)
(* (app/ui/profiler_view.py, class ProfilerView) and the bridge extension  *)
(* (bridge-extension/extension.js, _onMessage), over a connection that     *)
(* can break at any time.  The page starts and stops recordings under      *)
(* generation numbers, matches the bridge's acknowledgements to its        *)
(* requests, and takes in only the batches of the generation it accepts.   *)
(*                                                                         *)
(* The bridge's profiler appears as module Recorder promises it: events of *)
(* one recording, logged once and delivered in order.  The connection      *)
(* appears as two queues of lines; module SocketServer models how it is    *)
(* kept.  What matters of it here is what it does to the app's lines when  *)
(* a connection takes the place of another: lines still queued for the old *)
(* one go out on the new one, and a write made on an old one that fails    *)
(* late clears what is queued for the new one.                             *)
(***************************************************************************)
EXTENDS Integers, Sequences, SequencesExt, FiniteSets

CONSTANTS Uuids,        \* extensions the user can select
          NoUuid,
          MaxBatch,     \* events per full batch
          MaxRawEvents, \* _MAX_RAW_EVENTS, the page's window of events
          MaxStarts,    \* bound: generations used
          MaxEvents,    \* bound: events recorded in one recording
          MaxInFlight   \* bound: lines in flight in one direction

ASSUME SessionAssumption ==
  /\ NoUuid \notin Uuids
  /\ MaxBatch \in Nat \ {0} /\ MaxRawEvents \in Nat /\ MaxRawEvents >= MaxBatch
  /\ MaxStarts \in Nat /\ MaxEvents \in Nat /\ MaxInFlight \in Nat

VARIABLES
  \* the page
  targetUuid, profiling, startGeneration, activeStartGeneration,
  acceptedEventGeneration, pendingStartAcks, rawEvents,
  enabled,      \* extensions DBusClient last reported as enabled
  \* the connection: each end's view of it, and the lines under way
  appUp, bridgeUp, toBridge, toApp,
  lateWrite,    \* a write made on an earlier connection has not called back
  \* the bridge
  running, bridgeUuid, clientSession, eventQueue,
  \* history
  recorded,     \* events of the bridge's current recording so far
  clearedBelow, \* generations older than this were superseded or cleared by the user
  connectedAt,  \* startGeneration when the app accepted its present connection
  lostAt        \* startGeneration when lines of this connection were last cleared

pageVars == <<targetUuid, profiling, startGeneration, activeStartGeneration,
              acceptedEventGeneration, pendingStartAcks, rawEvents, enabled, clearedBelow>>
linkVars == <<appUp, bridgeUp, lateWrite, connectedAt, lostAt>>
bridgeVars == <<running, bridgeUuid, clientSession, eventQueue, recorded>>
vars == <<pageVars, linkVars, toBridge, toApp, bridgeVars>>

\* Generation 0 accepts nothing, and marks what was loaded from a file.
NoGeneration == 0
FileEvents == <<[gen |-> NoGeneration, n |-> 0]>>

Shortcuts == {"toggle_profiling", "restart_profiling"}

ShortcutsInFlight == Cardinality({i \in DOMAIN toApp : toApp[i].type \in Shortcuts})

\* Bound on the generations used, counting those a shortcut under way may use.
Budget == startGeneration + ShortcutsInFlight < MaxStarts

-----------------------------------------------------------------------------
(* The page: starting, stopping, clearing *)

\* _can_start_profiling, which is also when the Start/Stop button is sensitive.
CanStart == targetUuid \in enabled /\ appUp

\* SocketServer.send: dropped when no client is connected.
Send(m) == toBridge' = IF appUp THEN Append(toBridge, m) ELSE toBridge

SetStopped == profiling' = FALSE /\ activeStartGeneration' = NoGeneration

\* The stop request and the local transition to stopped, which waits for no answer.
SendStop == Send([type |-> "stop_profiling"]) /\ SetStopped

\* _start_profiling, reached only when CanStart.
Start ==
  LET g == startGeneration + 1
  IN  /\ startGeneration' = g
      /\ activeStartGeneration' = g
      /\ acceptedEventGeneration' = g
      /\ pendingStartAcks' = Append(pendingStartAcks, [gen |-> g, uuid |-> targetUuid])
      /\ Send([type |-> "start_profiling", uuid |-> targetUuid, gen |-> g])
      /\ profiling' = TRUE

PressStart ==
  /\ CanStart /\ ~profiling
  /\ Budget /\ Len(toBridge) < MaxInFlight
  /\ Start
  /\ UNCHANGED <<targetUuid, rawEvents, enabled, clearedBelow, linkVars, toApp, bridgeVars>>

PressStop ==
  /\ CanStart /\ profiling
  /\ Len(toBridge) < MaxInFlight
  /\ SendStop
  /\ UNCHANGED <<targetUuid, startGeneration, acceptedEventGeneration, pendingStartAcks, rawEvents,
                 enabled, clearedBelow, linkVars, toApp, bridgeVars>>

\* Variant: clears the page but lets the finished generation go on adding to it.
ClearData ==
  /\ rawEvents # <<>>
  /\ rawEvents' = <<>>
  /\ clearedBelow' = IF profiling THEN startGeneration ELSE startGeneration + 1
  /\ UNCHANGED <<targetUuid, profiling, startGeneration, activeStartGeneration,
                 acceptedEventGeneration, pendingStartAcks, enabled, linkVars,
                 toBridge, toApp, bridgeVars>>

\* _on_clear: cleared while stopped, the finished generation is no longer accepted.
Clear ==
  /\ rawEvents # <<>>
  /\ rawEvents' = <<>>
  /\ acceptedEventGeneration' = IF profiling THEN acceptedEventGeneration ELSE NoGeneration
  /\ clearedBelow' = IF profiling THEN startGeneration ELSE startGeneration + 1
  /\ UNCHANGED <<targetUuid, profiling, startGeneration, activeStartGeneration,
                 pendingStartAcks, enabled, linkVars, toBridge, toApp, bridgeVars>>

\* _on_load_response replaces what is shown and leaves the generations alone.
Load ==
  /\ rawEvents' = FileEvents
  /\ UNCHANGED <<targetUuid, profiling, startGeneration, activeStartGeneration,
                 acceptedEventGeneration, pendingStartAcks, enabled, clearedBelow,
                 linkVars, toBridge, toApp, bridgeVars>>

\* Stops when the condition c holds and a recording runs.
StopIf(c) ==
  \/ profiling /\ c /\ SendStop
  \/ ~(profiling /\ c) /\ UNCHANGED <<profiling, activeStartGeneration, toBridge>>

\* set_target_extension, with the checks of _update_visible_child.
SelectTarget(u) ==
  /\ u # targetUuid
  /\ Len(toBridge) < MaxInFlight
  /\ targetUuid' = u
  /\ StopIf(TRUE)
  /\ UNCHANGED <<startGeneration, acceptedEventGeneration, pendingStartAcks, rawEvents, enabled,
                 clearedBelow, linkVars, toApp, bridgeVars>>

\* _on_extensions_changed: a target that is no longer enabled is stopped; one that was
\* uninstalled is also deselected by the main window.
ExtensionsChanged(E) ==
  /\ E # enabled
  /\ Len(toBridge) < MaxInFlight
  /\ enabled' = E
  /\ targetUuid' \in {targetUuid} \cup (IF targetUuid \in E THEN {} ELSE {NoUuid})
  /\ StopIf(targetUuid \notin E)
  /\ UNCHANGED <<startGeneration, acceptedEventGeneration, pendingStartAcks, rawEvents,
                 clearedBelow, linkVars, toApp, bridgeVars>>

-----------------------------------------------------------------------------
(* The page: messages from the bridge *)

\* The next line of the connection is read and handled in one main-loop callback.
Receive(type) == appUp /\ toApp # <<>> /\ Head(toApp).type = type /\ toApp' = Tail(toApp)

\* _handle_global_toggle
ReceiveToggle ==
  /\ Receive("toggle_profiling")
  /\ \/ profiling /\ SendStop /\ UNCHANGED <<startGeneration, acceptedEventGeneration, pendingStartAcks>>
     \/ ~profiling /\ CanStart /\ Start
     \/ /\ ~profiling /\ ~CanStart
        /\ UNCHANGED <<profiling, activeStartGeneration, startGeneration,
                       acceptedEventGeneration, pendingStartAcks, toBridge>>
  /\ UNCHANGED <<targetUuid, rawEvents, enabled, clearedBelow, linkVars, bridgeVars>>

\* _handle_global_restart: clears only when a recording can be started, and sends no
\* stop before the start.
ReceiveRestart ==
  /\ Receive("restart_profiling")
  /\ \/ CanStart /\ Start /\ rawEvents' = <<>> /\ clearedBelow' = startGeneration + 1
     \/ /\ ~CanStart
        /\ StopIf(TRUE)
        /\ UNCHANGED <<startGeneration, acceptedEventGeneration, pendingStartAcks, rawEvents, clearedBelow>>
  /\ UNCHANGED <<targetUuid, enabled, linkVars, bridgeVars>>

\* _accepts_profile_message; a batch's events all carry the generation of its header.
Accepts(m) == m.gen = acceptedEventGeneration

LastEvents(s) ==
  IF Len(s) <= MaxRawEvents THEN s ELSE SubSeq(s, Len(s) - MaxRawEvents + 1, Len(s))

ReceiveBatch ==
  /\ Receive("profile_batch")
  /\ rawEvents' = IF Accepts(Head(toApp)) THEN LastEvents(rawEvents \o Head(toApp).events)
                  ELSE rawEvents
  /\ UNCHANGED <<targetUuid, profiling, startGeneration, activeStartGeneration,
                 acceptedEventGeneration, pendingStartAcks, enabled, clearedBelow,
                 linkVars, toBridge, bridgeVars>>

\* A refusal ends the recording only when it answers the current request.
RefusesCurrent(m, p) ==
  /\ profiling /\ ~m.ok
  /\ p.uuid = m.uuid /\ p.uuid = targetUuid
  /\ p.gen = activeStartGeneration

\* The place of the request that acknowledgement m answers: the first one of its generation,
\* 0 when there is none.
Answers(m, i) ==
  /\ i # 0 => pendingStartAcks[i].gen = m.gen
  /\ \A h \in DOMAIN pendingStartAcks : i = 0 \/ h < i => pendingStartAcks[h].gen # m.gen

\* _on_profiling_started: the acknowledgement is matched by generation, and forgotten.
ReceiveStarted ==
  LET m == Head(toApp)
  IN  /\ Receive("profiling_started")
      /\ \E i \in 0..Len(pendingStartAcks) :
           /\ Answers(m, i)
           /\ pendingStartAcks' = IF i = 0 THEN pendingStartAcks ELSE RemoveAt(pendingStartAcks, i)
           /\ IF i # 0 /\ RefusesCurrent(m, pendingStartAcks[i])
              THEN SetStopped ELSE UNCHANGED <<profiling, activeStartGeneration>>
      /\ UNCHANGED <<targetUuid, startGeneration, acceptedEventGeneration, rawEvents, enabled,
                     clearedBelow, linkVars, toBridge, bridgeVars>>

\* Variant: a late confirmation stops the newer recording.
ReceiveStoppedAlways ==
  /\ Receive("profiling_stopped")
  /\ SetStopped
  /\ UNCHANGED <<targetUuid, startGeneration, acceptedEventGeneration, pendingStartAcks, rawEvents,
                 enabled, clearedBelow, linkVars, toBridge, bridgeVars>>

\* _on_profiling_stopped only confirms; a newer recording is left alone.
ReceiveStopped ==
  /\ Receive("profiling_stopped")
  /\ IF profiling THEN UNCHANGED <<profiling, activeStartGeneration>> ELSE SetStopped
  /\ UNCHANGED <<targetUuid, startGeneration, acceptedEventGeneration, pendingStartAcks, rawEvents,
                 enabled, clearedBelow, linkVars, toBridge, bridgeVars>>

-----------------------------------------------------------------------------
(* The bridge *)

\* SocketClient.send on a connection whose other end may be gone.
Emit(ms) == toApp' = IF bridgeUp /\ appUp THEN toApp \o ms ELSE toApp

Batch == IF eventQueue = <<>> THEN <<>>
         ELSE <<[type |-> "profile_batch", gen |-> clientSession, events |-> eventQueue]>>

BridgeReceive(type) ==
  /\ bridgeUp /\ toBridge # <<>> /\ Head(toBridge).type = type
  /\ toBridge' = Tail(toBridge)

\* Variant: a refused start is not answered.
BridgeStartsQuietly(ok) ==
  LET m == Head(toBridge)
  IN  /\ BridgeReceive("start_profiling")
      /\ running' = ok
      /\ bridgeUuid' = IF ok THEN m.uuid ELSE NoUuid
      /\ clientSession' = IF ok THEN m.gen ELSE NoGeneration
      /\ eventQueue' = <<>>
      /\ recorded' = 0
      /\ Emit(IF ok THEN <<[type |-> "profiling_started", uuid |-> m.uuid, ok |-> ok, gen |-> m.gen]>>
              ELSE <<>>)
      /\ UNCHANGED <<pageVars, linkVars>>

\* startProfiling discards whatever recording there was, then succeeds or not.
BridgeStarts(ok) ==
  LET m == Head(toBridge)
  IN  /\ BridgeReceive("start_profiling")
      /\ running' = ok
      /\ bridgeUuid' = IF ok THEN m.uuid ELSE NoUuid
      /\ clientSession' = IF ok THEN m.gen ELSE NoGeneration
      /\ eventQueue' = <<>>
      /\ recorded' = 0
      /\ Emit(<<[type |-> "profiling_started", uuid |-> m.uuid, ok |-> ok, gen |-> m.gen]>>)
      /\ UNCHANGED <<pageVars, linkVars>>

\* What stopProfiling leaves behind.
BridgeIdle ==
  /\ running' = FALSE
  /\ bridgeUuid' = NoUuid
  /\ clientSession' = NoGeneration
  /\ eventQueue' = <<>>
  /\ recorded' = 0

\* stopProfiling flushes before the confirmation is sent.
BridgeStops ==
  /\ BridgeReceive("stop_profiling")
  /\ Emit(Append(Batch, [type |-> "profiling_stopped"]))
  /\ BridgeIdle
  /\ UNCHANGED <<pageVars, linkVars>>

\* A wrapped call completes.
Record ==
  LET q == Append(eventQueue, [gen |-> clientSession, n |-> recorded + 1])
  IN  /\ running
      /\ recorded < MaxEvents
      /\ Len(toApp) < MaxInFlight
      /\ recorded' = recorded + 1
      /\ IF Len(q) >= MaxBatch
         THEN /\ eventQueue' = <<>>
              /\ Emit(<<[type |-> "profile_batch", gen |-> clientSession, events |-> q]>>)
         ELSE eventQueue' = q /\ UNCHANGED toApp
      /\ UNCHANGED <<running, bridgeUuid, clientSession, pageVars, linkVars, toBridge>>

\* Variant: the batch is sent and kept.
FlushKeeps ==
  /\ eventQueue # <<>>
  /\ Emit(Batch)
  /\ UNCHANGED <<eventQueue, running, bridgeUuid, clientSession, recorded, pageVars, linkVars, toBridge>>

\* Variant: only a full batch is sent.
FlushFull ==
  /\ Len(eventQueue) >= MaxBatch
  /\ Emit(Batch)
  /\ eventQueue' = <<>>
  /\ UNCHANGED <<running, bridgeUuid, clientSession, recorded, pageVars, linkVars, toBridge>>

\* The 50 ms batch timer.
Flush ==
  /\ eventQueue # <<>>
  /\ Emit(Batch)
  /\ eventQueue' = <<>>
  /\ UNCHANGED <<running, bridgeUuid, clientSession, recorded, pageVars, linkVars, toBridge>>

\* A global shortcut; the bridge forwards it.
PressShortcut(k) ==
  /\ bridgeUp /\ appUp
  /\ Budget /\ Len(toApp) < MaxInFlight /\ Len(toBridge) < MaxInFlight
  /\ Emit(<<[type |-> k]>>)
  /\ UNCHANGED <<pageVars, linkVars, toBridge, bridgeVars>>

-----------------------------------------------------------------------------
(* The connection *)

\* Variant: the requests of the lost connection are still waited for.
PageKeepsRequests ==
  /\ acceptedEventGeneration' = NoGeneration
  /\ IF profiling THEN SetStopped ELSE UNCHANGED <<profiling, activeStartGeneration>>
  /\ UNCHANGED <<pendingStartAcks, targetUuid, startGeneration, rawEvents, enabled, clearedBelow>>

\* _on_client_disconnected: nothing is asked of the bridge, which may still record.
PageDisconnected ==
  /\ pendingStartAcks' = <<>>
  /\ acceptedEventGeneration' = NoGeneration
  /\ IF profiling THEN SetStopped ELSE UNCHANGED <<profiling, activeStartGeneration>>
  /\ UNCHANGED <<targetUuid, startGeneration, rawEvents, enabled, clearedBelow>>

\* A connection ends with its own write still under way, or not: every connection has had
\* one, since the application asks for the keybindings on each.
WriteMayBeLate == lateWrite' \in {lateWrite, TRUE}

\* The bridge connects, and the app accepts (_on_incoming).  A previous connection whose
\* end the app has not read yet is replaced: its remaining lines from the bridge are never
\* handled, what was written on it is gone, and what waits in _send_queue behind its write
\* goes to the new connection when that write returns.
Connect ==
  /\ ~bridgeUp
  /\ bridgeUp' = TRUE /\ appUp' = TRUE
  /\ toApp' = <<>>
  /\ connectedAt' = startGeneration
  /\ lostAt' = NoGeneration
  /\ IF appUp THEN PageDisconnected ELSE UNCHANGED pageVars
  /\ \/ toBridge' = <<>> /\ UNCHANGED lateWrite
     \/ /\ appUp
        /\ lateWrite' = TRUE
        /\ \E k \in 1..(Len(toBridge) + 1) : toBridge' = SubSeq(toBridge, k, Len(toBridge))
  /\ UNCHANGED bridgeVars

\* _on_write_done of a write made on an earlier connection: a failed one clears the lines
\* of the present connection that are still queued, which may be any number of the last.
LateWriteReturns ==
  /\ lateWrite
  /\ lateWrite' = FALSE
  /\ \/ UNCHANGED <<toBridge, lostAt>>
     \/ /\ appUp
        /\ lostAt' = startGeneration
        /\ \E k \in 0..(Len(toBridge) - 1) : toBridge' = SubSeq(toBridge, 1, k)
  /\ UNCHANGED <<appUp, bridgeUp, connectedAt, toApp, pageVars, bridgeVars>>

\* The app has read everything and then the end of the stream.
AppSeesEnd ==
  /\ appUp /\ ~bridgeUp /\ toApp = <<>>
  /\ appUp' = FALSE
  /\ toBridge' = <<>>
  /\ WriteMayBeLate
  /\ lostAt' = NoGeneration
  /\ PageDisconnected
  /\ UNCHANGED <<bridgeUp, connectedAt, toApp, bridgeVars>>

\* What the app wrote before it closed may still reach the bridge.
AppCloses ==
  /\ appUp' = FALSE
  /\ \E k \in 0..Len(toBridge) : toBridge' = IF bridgeUp THEN SubSeq(toBridge, 1, k) ELSE <<>>
  /\ toApp' = <<>>
  /\ lostAt' = NoGeneration

\* disconnect_client, when D-Bus reports the bridge disabled.
AppDrops ==
  /\ appUp
  /\ AppCloses
  /\ WriteMayBeLate
  /\ PageDisconnected
  /\ UNCHANGED <<bridgeUp, connectedAt, bridgeVars>>

BridgeSeesEnd ==
  /\ bridgeUp /\ ~appUp /\ toBridge = <<>>
  /\ bridgeUp' = FALSE
  /\ UNCHANGED <<appUp, lateWrite, connectedAt, lostAt, toBridge, toApp, pageVars, bridgeVars>>

\* The bridge's end is closed.  The app still has its lines until it learns of it.
BridgeCloses ==
  /\ bridgeUp
  /\ BridgeIdle
  /\ bridgeUp' = FALSE
  /\ toBridge' = IF appUp THEN toBridge ELSE <<>>
  /\ UNCHANGED <<pageVars, appUp, lateWrite, connectedAt, lostAt>>

\* The bridge extension is disabled: it flushes, restores and closes the connection.
BridgeDisabled == BridgeCloses /\ Emit(Batch)

\* The shell dies and comes back.
BridgeDies == BridgeCloses /\ UNCHANGED toApp

\* The app dies and comes back.  Its generations start at another random base, taken
\* here to be one not used before.
AppRestarts ==
  /\ Budget
  /\ targetUuid' = NoUuid
  /\ profiling' = FALSE
  /\ startGeneration' = startGeneration + 1
  /\ activeStartGeneration' = NoGeneration
  /\ acceptedEventGeneration' = NoGeneration
  /\ pendingStartAcks' = <<>>
  /\ rawEvents' = <<>>
  /\ clearedBelow' = startGeneration + 1
  /\ AppCloses
  /\ lateWrite' = FALSE
  /\ UNCHANGED <<enabled, bridgeUp, connectedAt, bridgeVars>>

-----------------------------------------------------------------------------
Init ==
  /\ targetUuid = NoUuid
  /\ profiling = FALSE
  /\ startGeneration = 0
  /\ activeStartGeneration = NoGeneration
  /\ acceptedEventGeneration = NoGeneration
  /\ pendingStartAcks = <<>>
  /\ rawEvents = <<>>
  /\ enabled = Uuids
  /\ appUp = FALSE /\ bridgeUp = FALSE
  /\ toBridge = <<>> /\ toApp = <<>>
  /\ lateWrite = FALSE
  /\ running = FALSE
  /\ bridgeUuid = NoUuid
  /\ clientSession = NoGeneration
  /\ eventQueue = <<>>
  /\ recorded = 0
  /\ clearedBelow = 0
  /\ connectedAt = 0 /\ lostAt = NoGeneration

User ==
  \/ PressStart \/ PressStop \/ Clear \/ Load
  \/ \E u \in Uuids \cup {NoUuid} : SelectTarget(u)
  \/ \E E \in SUBSET Uuids : ExtensionsChanged(E)
  \/ \E k \in Shortcuts : PressShortcut(k)

AppReceives == ReceiveToggle \/ ReceiveRestart \/ ReceiveBatch \/ ReceiveStarted \/ ReceiveStopped

BridgeReceives == BridgeStops \/ \E ok \in BOOLEAN : BridgeStarts(ok)

Link ==
  \/ Connect \/ LateWriteReturns \/ AppSeesEnd \/ AppDrops
  \/ BridgeSeesEnd \/ BridgeDisabled \/ BridgeDies \/ AppRestarts

Next == User \/ AppReceives \/ BridgeReceives \/ Record \/ Flush \/ Link

\* Both main loops keep dispatching what is ready: lines, ends of streams, the timer.
Fairness ==
  /\ WF_vars(AppReceives) /\ WF_vars(AppSeesEnd)
  /\ WF_vars(BridgeReceives) /\ WF_vars(BridgeSeesEnd)
  /\ WF_vars(Flush)

Spec == Init /\ [][Next]_vars
FairSpec == Spec /\ Fairness

-----------------------------------------------------------------------------
(* Properties *)

Generation == Nat
Event == [gen : Generation, n : Nat]
Request == [gen : Generation, uuid : Uuids]

\* The lines in either direction.
BridgeLine ==
  [type : {"start_profiling"}, uuid : Uuids, gen : Generation] \cup [type : {"stop_profiling"}]

AppLine ==
  [type : {"profiling_started"}, uuid : Uuids, ok : BOOLEAN, gen : Generation]
    \cup [type : {"profile_batch"}, gen : Generation, events : Seq(Event)]
    \cup [type : {"profiling_stopped"} \cup Shortcuts]

FlagTypes ==
  /\ profiling \in BOOLEAN /\ running \in BOOLEAN
  /\ appUp \in BOOLEAN /\ bridgeUp \in BOOLEAN /\ lateWrite \in BOOLEAN

PageTypes ==
  /\ targetUuid \in Uuids \cup {NoUuid} /\ enabled \subseteq Uuids
  /\ startGeneration \in Generation /\ activeStartGeneration \in Generation
  /\ acceptedEventGeneration \in Generation /\ clearedBelow \in Generation
  /\ pendingStartAcks \in Seq(Request) /\ rawEvents \in Seq(Event)

LinkTypes ==
  /\ connectedAt \in Generation /\ lostAt \in Generation
  /\ toBridge \in Seq(BridgeLine) /\ toApp \in Seq(AppLine)

BridgeTypes ==
  /\ bridgeUuid \in Uuids \cup {NoUuid} /\ clientSession \in Generation
  /\ eventQueue \in Seq(Event) /\ recorded \in Nat

\* The ranges of the variables.
TypeOK == FlagTypes /\ PageTypes /\ LinkTypes /\ BridgeTypes

\* What the user cleared stays cleared: no event of a recording that a Clear or a
\* Restart superseded is ever shown again, however late its batch arrives.
ClearedStaysCleared ==
  \A i \in DOMAIN rawEvents : rawEvents[i].gen \in {NoGeneration} \cup {g \in Generation : g >= clearedBelow}

\* Acknowledgements on their way back and requests on their way there, in the order sent:
\* those of this connection, past requests of a replaced one that may go before them.
Lines == toApp \o toBridge
StartLines ==
  {i \in DOMAIN Lines : /\ Lines[i].type \in {"profiling_started", "start_profiling"}
                        /\ Lines[i].gen > connectedAt}

\* The acknowledgements on their way back and the requests on their way there belong, in
\* that order, each to a request of its own that the page still waits for: none is
\* answered twice or forgotten while the connection lasts.  They are all the requests the
\* page waits for, but for those made before lines of this connection were cleared by the
\* late failure of a write on an earlier one.
AcksMatchStarts ==
  appUp /\ bridgeUp =>
    \E f \in [StartLines -> DOMAIN pendingStartAcks] :
      /\ \A l, m \in StartLines : l < m => f[l] < f[m]
      /\ \A l \in StartLines : /\ Lines[l].gen = pendingStartAcks[f[l]].gen
                               /\ Lines[l].uuid = pendingStartAcks[f[l]].uuid
      /\ \A i \in DOMAIN pendingStartAcks :
           pendingStartAcks[i].gen > lostAt => \E l \in StartLines : f[l] = i

\* When nothing is in flight the page and the bridge agree: the page shows a recording
\* exactly when the bridge makes it, of the same extension and generation.  A recording
\* left over from an earlier connection is excepted, since nobody ended it.  When a late
\* failing write has cleared lines of this connection they may disagree, until the page
\* starts its next recording.
InStep ==
  appUp /\ bridgeUp /\ toBridge = <<>> /\ toApp = <<>> /\ startGeneration > lostAt =>
    /\ profiling => /\ running
                    /\ clientSession = activeStartGeneration
                    /\ bridgeUuid = targetUuid
    /\ running /\ clientSession > connectedAt => profiling

Consecutive(events, k) == \A j \in DOMAIN events : events[j].n = k + j

\* Of the recording the page accepts, what is shown, what is in flight and what the
\* bridge has queued are consecutive events up to the last one recorded: nothing is
\* lost, doubled or out of order.  The numbers "before" are those of the event before
\* each line in flight, and before the queue.
NothingLost ==
  running /\ clientSession = acceptedEventGeneration /\ appUp /\ bridgeUp =>
    \E before \in [1..(Len(toApp) + 1) -> 0..recorded] :
      /\ \E older \in 0..Len(rawEvents) : \A i \in DOMAIN rawEvents :
           IF i <= older THEN rawEvents[i].gen # acceptedEventGeneration
           ELSE /\ rawEvents[i].gen = acceptedEventGeneration
                /\ rawEvents[i].n = before[1] - Len(rawEvents) + i
      /\ \A i \in DOMAIN toApp :
           IF toApp[i].type = "profile_batch" /\ Accepts(toApp[i])
           THEN /\ Consecutive(toApp[i].events, before[i])
                /\ before[i + 1] = before[i] + Len(toApp[i].events)
           ELSE before[i + 1] = before[i]
      /\ Consecutive(eventQueue, before[Len(toApp) + 1])
      /\ recorded = before[Len(toApp) + 1] + Len(eventQueue)

\* The events on their way to the page.
InFlight ==
  LET batches == SelectSeq(toApp, LAMBDA m : m.type = "profile_batch")
  IN  FlattenSeq([i \in DOMAIN batches |-> batches[i].events])

\* An event of the accepted recording that waits in the bridge's queue or on the
\* connection is shown in the end, unless that recording stops being accepted.
EventsAreShown ==
  \A g \in 1..MaxStarts, k \in 1..MaxEvents :
    LET e == [gen |-> g, n |-> k]
    IN  (acceptedEventGeneration = g /\ e \in ToSet(InFlight \o eventQueue))
          ~> (acceptedEventGeneration # g \/ e \in ToSet(rawEvents))

\* No start request stays unanswered, unless the late failure of a write on an earlier
\* connection cleared lines of the present one: the page then waits for the answer until
\* the connection ends.
StartsSettle ==
  \A g \in 1..MaxStarts :
    (\E i \in DOMAIN pendingStartAcks : pendingStartAcks[i].gen = g)
      ~> (lostAt >= g \/ \A i \in DOMAIN pendingStartAcks : pendingStartAcks[i].gen # g)

=============================================================================
