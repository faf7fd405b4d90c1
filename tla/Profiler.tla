------------------------------ MODULE Profiler ------------------------------
(***************************************************************************)
(* The recording life cycle of the bridge's function profiler              *)
(* (bridge-extension/profiler.js, class Profiler): a recording patches     *)
(* methods of the target extension with timing wrappers, each completed    *)
(* call of a live wrapper queues one event, events leave in batches, and   *)
(* the end of the recording puts the methods back.  The target extension   *)
(* keeps running meanwhile: it calls, replaces, deletes and re-installs    *)
(* its own methods.                                                        *)
(*                                                                         *)
(* A slot is one property of one holder object the discovery reaches.  Its *)
(* own value is a function, a wrapper, or absent, in which case the        *)
(* prototype's value shows through.  Which slots a scan wraps (limits,     *)
(* locked properties, depth) is left open here.                            *)
(***************************************************************************)
EXTENDS Integers, Sequences

CONSTANTS Uuids,        \* extensions that can be profiled
          Clients,      \* recording generations the app can send
          Slots,        \* (holder, name) pairs the discovery can reach
          Funcs,        \* functions of the target extension
          NoValue,      \* null, or an absent own property
          MaxBatch,     \* limits.maxBatchEvents
          Reentrant,    \* a handler may run while a wrapped call is on the stack
          MaxSessions,  \* bound: scans begun
          MaxWrites,    \* bound: changes the extension makes to its methods
          MaxEvents,    \* bound: calls entered in one recording
          MaxDepth      \* bound: nesting of wrapped calls

\* A timing wrapper: the slot it was made for, the scan and the app generation
\* captured by its closure, and the function that finally runs.  A wrapper made
\* around an older wrapper is flattened: the older one belongs to an ended scan
\* and only passes the call through.
Wrapper == [slot : Slots, sess : Nat, client : Clients \cup {NoValue}, fn : Funcs]

Value == Funcs \cup Wrapper \cup {NoValue}

\* What the scan did to one slot: the own value it found (NoValue is hadOwn = false)
\* and the wrapper it put there.
Patch == [original : Value, wrapper : Wrapper]

ASSUME ConstantsAssumption ==
  /\ NoValue \notin Funcs \cup Wrapper \cup Patch \cup Uuids \cup Clients
  /\ Funcs \cap Wrapper = {}
  /\ MaxBatch \in Nat \ {0}
  /\ Reentrant \in BOOLEAN
  /\ MaxSessions \in Nat /\ MaxWrites \in Nat /\ MaxEvents \in Nat /\ MaxDepth \in Nat

VARIABLES running, targetUuid, clientSession, sessionId,
          patches,      \* slot -> what the live scan did to it, or NoValue
          callDepth,
          eventQueue,
          flushSource,  \* the batch timer is armed
          own, proto,   \* the extension's own properties and their prototypes'
          stack,        \* wrapped calls in progress, innermost last
          made,         \* history: every wrapper created, any of which the extension may hold
          sent,         \* history: events handed to onEvent since the recording began
          bare,         \* history: the own properties had nobody profiled
          reinstalled,  \* history: slots whose value is a wrapper the extension wrote there
          protoChanged, \* history: slots whose inherited method was replaced
          locked,       \* history: slots whose property may refuse to be put back
          writes        \* history: how many changes the extension has made

profilerVars == <<running, targetUuid, clientSession, sessionId, patches, callDepth>>
queueVars == <<eventQueue, flushSource, sent>>
extensionVars == <<own, proto, bare, reinstalled, protoChanged, locked, writes>>
vars == <<profilerVars, queueVars, extensionVars, stack, made>>

NoPatches == [m \in Slots |-> NoValue]

-----------------------------------------------------------------------------
(* Property lookup and wrappers *)

\* The function that runs when the value v is called.
Code(v) == IF v \in Funcs THEN v ELSE v.fn

\* The function that runs when slot m is called on objects with own properties o.
Runs(o, m) == IF o[m] = NoValue THEN proto[m] ELSE Code(o[m])

\* A wrapper records only for the scan that made it, and only while it runs.
Live(w) == running /\ w.sess = sessionId

\* The main loop dispatches a socket message or a timer only between calls,
\* unless a method iterates it or is itself part of the bridge.
HandlersMayRun == Reentrant \/ stack = <<>>

-----------------------------------------------------------------------------
(* Ending a recording *)

\* The first test of startProfiling.
HasOldRecording == running \/ patches # NoPatches \/ eventQueue # <<>>

\* Variant: undoes the slot whatever it holds by now.
RestoredBlindly(R) ==
  [m \in Slots |-> IF patches[m] # NoValue /\ m \notin R THEN patches[m].original ELSE own[m]]

\* Variant: forgets to delete the shadow of an inherited method.
RestoredKeepingShadows(R) ==
  [m \in Slots |-> IF patches[m] # NoValue /\ own[m] = patches[m].wrapper
                      /\ m \notin R /\ patches[m].original # NoValue
                   THEN patches[m].original ELSE own[m]]

\* Only a wrapper that is still installed is undone; the extension's own
\* replacement or deletion is kept.  Where defineProperty or deleteProperty refuses
\* or throws (the slots R) the failure is logged and the wrapper stays; every caller
\* forgets its patch all the same.
Restored(R) ==
  [m \in Slots |-> IF patches[m] # NoValue /\ own[m] = patches[m].wrapper /\ m \notin R
                   THEN patches[m].original ELSE own[m]]

\* Variant: stop throws the queue away as a restart does.
StopDiscards(R) ==
  /\ HandlersMayRun
  /\ HasOldRecording \/ flushSource
  /\ running' = FALSE
  /\ sent' = sent
  /\ eventQueue' = <<>>
  /\ flushSource' = FALSE
  /\ own' = Restored(R)
  /\ patches' = NoPatches
  /\ targetUuid' = NoValue
  /\ clientSession' = NoValue
  /\ callDepth' = 0
  /\ UNCHANGED <<sessionId, proto, bare, reinstalled, protoChanged, locked, writes, stack, made>>

\* stopProfiling: emit what is queued, put the methods back, forget the target.
StopProfiling(R) ==
  /\ HandlersMayRun
  /\ HasOldRecording \/ flushSource
  /\ running' = FALSE
  /\ sent' = sent \o eventQueue
  /\ eventQueue' = <<>>
  /\ flushSource' = FALSE
  /\ own' = Restored(R)
  /\ patches' = NoPatches
  /\ targetUuid' = NoValue
  /\ clientSession' = NoValue
  /\ callDepth' = 0
  /\ UNCHANGED <<sessionId, proto, bare, reinstalled, protoChanged, locked, writes, stack, made>>

-----------------------------------------------------------------------------
(* Starting a recording *)

\* What the wrapper made for each slot would be, over the own properties before.
Wrap(before, c) ==
  [m \in Slots |-> [slot |-> m, sess |-> sessionId + 1, client |-> c,
                    fn |-> Runs(before, m)]]

\* Variant: a restart keeps the pending events.
DiscardNothing ==
  /\ HandlersMayRun
  /\ UNCHANGED <<eventQueue, flushSource>>
  /\ sent' = <<>>

\* Every start first discards the queue of the recording it replaces and
\* restores what that recording had patched.
DiscardOld ==
  /\ HandlersMayRun
  /\ eventQueue' = <<>>
  /\ flushSource' = IF HasOldRecording THEN FALSE ELSE flushSource
  /\ sent' = <<>>

\* startProfiling(u, c) wraps the slots P of the object graph as it then is.
StartProfiling(u, c, P, R) ==
  LET before == Restored(R)
      wrap == Wrap(before, c)
  IN  /\ DiscardOld
      /\ sessionId < MaxSessions
      /\ P \subseteq {m \in Slots : before[m] # NoValue \/ proto[m] # NoValue}
      /\ running' = TRUE
      /\ targetUuid' = u
      /\ clientSession' = c
      /\ sessionId' = sessionId + 1
      /\ callDepth' = 0
      /\ own' = [m \in Slots |-> IF m \in P THEN wrap[m] ELSE before[m]]
      /\ patches' = [m \in Slots |-> IF m \in P
                                     THEN [original |-> before[m], wrapper |-> wrap[m]]
                                     ELSE NoValue]
      /\ made' = made \cup {wrap[m] : m \in P}
      /\ UNCHANGED <<proto, bare, reinstalled, protoChanged, locked, writes, stack>>

\* lookupExtension throws, or finds no state object.
StartFindsNothing(R) ==
  /\ DiscardOld
  /\ running' = FALSE
  /\ own' = Restored(R)
  /\ patches' = NoPatches
  /\ targetUuid' = IF HasOldRecording THEN NoValue ELSE targetUuid
  /\ clientSession' = NoValue
  /\ callDepth' = IF HasOldRecording THEN 0 ELSE callDepth
  /\ UNCHANGED <<sessionId, proto, bare, reinstalled, protoChanged, locked, writes, stack, made>>

\* The scan throws part way, with the slots P patched, and is rolled back; a locked
\* one (in S) may refuse that and keep its wrapper.  When the scan had patched
\* nothing yet, finishProfiling returns early and leaves the target set.
StartRollsBack(u, c, P, R, S) ==
  LET before == Restored(R)
      wrap == Wrap(before, c)
  IN  /\ DiscardOld
      /\ sessionId < MaxSessions
      /\ P \subseteq {m \in Slots : before[m] # NoValue \/ proto[m] # NoValue}
      /\ S \subseteq P
      /\ running' = FALSE
      /\ own' = [m \in Slots |-> IF m \in S THEN wrap[m] ELSE before[m]]
      /\ patches' = NoPatches
      /\ made' = made \cup {wrap[m] : m \in S}
      /\ sessionId' = sessionId + 1
      /\ targetUuid' = IF P = {} THEN u ELSE NoValue
      /\ clientSession' = IF P = {} THEN c ELSE NoValue
      /\ callDepth' = 0
      /\ UNCHANGED <<proto, bare, reinstalled, protoChanged, locked, writes, stack>>

-----------------------------------------------------------------------------
(* Wrapped calls and the event queue *)

\* The extension calls a wrapper, from its slot or through a copy it kept.
\* A call of a wrapper that is not live leaves no trace here.
Call(w) ==
  /\ w \in made /\ Live(w)
  /\ Len(stack) < MaxDepth
  /\ Len(sent) + Len(eventQueue) + Len(stack) < MaxEvents
  /\ stack' = Append(stack, [slot |-> w.slot, sess |-> w.sess, client |-> w.client,
                             depth |-> callDepth])
  /\ callDepth' = callDepth + 1
  /\ UNCHANGED <<running, targetUuid, clientSession, sessionId, patches,
                 queueVars, extensionVars, made>>

\* The event of the innermost call: the target is read when the call returns,
\* the app generation was captured when the wrapper was made.
ReturnedEvent ==
  LET f == stack[Len(stack)]
  IN  [slot |-> f.slot, uuid |-> targetUuid, client |-> f.client, depth |-> f.depth,
       sess |-> f.sess]

\* Variant: the depth is counted down only when the method does not throw.
LeaveCallByReturn ==
  /\ stack # <<>>
  /\ stack' = SubSeq(stack, 1, Len(stack) - 1)
  /\ callDepth' \in {callDepth, callDepth - 1}
  /\ UNCHANGED <<running, targetUuid, clientSession, sessionId, patches,
                 extensionVars, made>>

\* The wrapper's finally block, common to the three ways queueEvent can end.
LeaveCall ==
  /\ stack # <<>>
  /\ stack' = SubSeq(stack, 1, Len(stack) - 1)
  /\ callDepth' = callDepth - 1
  /\ UNCHANGED <<running, targetUuid, clientSession, sessionId, patches,
                 extensionVars, made>>

\* Variant: leaves the timer marked as armed.
EmitBatchOnly(q) ==
  /\ sent' = sent \o q
  /\ eventQueue' = <<>>
  /\ UNCHANGED flushSource

EmitBatch(q) ==
  /\ sent' = sent \o q
  /\ eventQueue' = <<>>
  /\ flushSource' = FALSE

\* The queue reaches the batch size: flush at once and disarm the timer.
ReturnFillsBatch ==
  /\ LeaveCall
  /\ Len(eventQueue) + 1 >= MaxBatch
  /\ EmitBatch(Append(eventQueue, ReturnedEvent))

\* The event waits for the timer, armed now if it was not.
ReturnQueues ==
  /\ LeaveCall
  /\ Len(eventQueue) + 1 < MaxBatch
  /\ eventQueue' = Append(eventQueue, ReturnedEvent)
  /\ flushSource' = TRUE
  /\ UNCHANGED sent

\* GLib.timeout_add throws: emit without waiting.
ReturnCannotArm ==
  /\ LeaveCall
  /\ Len(eventQueue) + 1 < MaxBatch
  /\ ~flushSource
  /\ EmitBatch(Append(eventQueue, ReturnedEvent))

FlushTimer ==
  /\ HandlersMayRun
  /\ flushSource
  /\ EmitBatch(eventQueue)
  /\ UNCHANGED <<profilerVars, extensionVars, stack, made>>

-----------------------------------------------------------------------------
(* The target extension changes its own methods at any time *)

Write == writes < MaxWrites /\ writes' = writes + 1

ExtensionReplaces(m, f) ==
  /\ Write
  /\ own' = [own EXCEPT ![m] = f]
  /\ bare' = [bare EXCEPT ![m] = f]
  /\ reinstalled' = reinstalled \ {m}
  /\ UNCHANGED <<profilerVars, queueVars, proto, protoChanged, locked, stack, made>>

ExtensionDeletes(m) ==
  /\ Write
  /\ own' = [own EXCEPT ![m] = NoValue]
  /\ bare' = [bare EXCEPT ![m] = NoValue]
  /\ reinstalled' = reinstalled \ {m}
  /\ UNCHANGED <<profilerVars, queueVars, proto, protoChanged, locked, stack, made>>

\* It read a method while it was wrapped and writes the value back, possibly to
\* another slot and possibly after the recording.
ExtensionReinstalls(m, w) ==
  /\ Write
  /\ own' = [own EXCEPT ![m] = w]
  /\ bare' = [bare EXCEPT ![m] = w.fn]
  /\ reinstalled' = reinstalled \cup {m}
  /\ UNCHANGED <<profilerVars, queueVars, proto, protoChanged, locked, stack, made>>

PrototypeChanges(m, f) ==
  /\ Write
  /\ proto' = [proto EXCEPT ![m] = f]
  /\ protoChanged' = protoChanged \cup {m}
  /\ UNCHANGED <<profilerVars, queueVars, own, bare, reinstalled, locked, stack, made>>

\* It seals or freezes the property, or the holder is a proxy: from now on the
\* property may refuse to be put back.
ExtensionLocks(m) ==
  /\ Write
  /\ locked' = locked \cup {m}
  /\ UNCHANGED <<profilerVars, queueVars, own, proto, bare, reinstalled, protoChanged, stack, made>>

-----------------------------------------------------------------------------
Init ==
  /\ running = FALSE
  /\ targetUuid = NoValue
  /\ clientSession = NoValue
  /\ sessionId = 0
  /\ patches = NoPatches
  /\ callDepth = 0
  /\ eventQueue = <<>>
  /\ flushSource = FALSE
  /\ own \in [Slots -> Funcs \cup {NoValue}]
  /\ proto \in [Slots -> Funcs \cup {NoValue}]
  /\ stack = <<>>
  /\ made = {}
  /\ sent = <<>>
  /\ bare = own
  /\ reinstalled = {}
  /\ protoChanged = {}
  /\ locked \in SUBSET Slots
  /\ writes = 0

ProfilerStep ==
  \/ \E R \in SUBSET locked :
       \/ \E u \in Uuids, c \in Clients \cup {NoValue}, P \in SUBSET Slots :
            \/ StartProfiling(u, c, P, R)
            \/ \E S \in SUBSET locked : StartRollsBack(u, c, P, R, S)
       \/ StartFindsNothing(R)
       \/ StopProfiling(R)
  \/ FlushTimer

CallStep ==
  \/ \E w \in made : Call(w)
  \/ ReturnFillsBatch
  \/ ReturnQueues
  \/ ReturnCannotArm

ExtensionStep ==
  \E m \in Slots :
    \/ \E f \in Funcs : ExtensionReplaces(m, f) \/ PrototypeChanges(m, f)
    \/ ExtensionDeletes(m)
    \/ ExtensionLocks(m)
    \/ \E w \in made : ExtensionReinstalls(m, w)

Next == ProfilerStep \/ CallStep \/ ExtensionStep

Return == ReturnFillsBatch \/ ReturnQueues \/ ReturnCannotArm

\* A wrapped call returns, and the main loop dispatches a due timer even though
\* calls keep interrupting it.
Fairness == WF_vars(Return) /\ SF_vars(FlushTimer)

Spec == Init /\ [][Next]_vars
FairSpec == Spec /\ Fairness

-----------------------------------------------------------------------------
(* Properties *)

Frame == [slot : Slots, sess : Nat, client : Clients \cup {NoValue}, depth : Int]

Event == [slot : Slots, uuid : Uuids \cup {NoValue}, client : Clients \cup {NoValue},
          depth : Int, sess : Nat]

FlagTypes == running \in BOOLEAN /\ flushSource \in BOOLEAN

ProfilerTypes ==
  /\ targetUuid \in Uuids \cup {NoValue}
  /\ clientSession \in Clients \cup {NoValue}
  /\ sessionId \in Nat
  /\ patches \in [Slots -> Patch \cup {NoValue}]
  /\ callDepth \in Int

QueueTypes ==
  /\ eventQueue \in Seq(Event)
  /\ sent \in Seq(Event)

ExtensionTypes ==
  /\ own \in [Slots -> Value]
  /\ proto \in [Slots -> Funcs \cup {NoValue}]
  /\ bare \in [Slots -> Funcs \cup {NoValue}]
  /\ reinstalled \subseteq Slots
  /\ protoChanged \subseteq Slots
  /\ locked \subseteq Slots
  /\ writes \in Nat

CallTypes ==
  /\ stack \in Seq(Frame)
  /\ made \subseteq Wrapper

\* The types of the profiler's fields, its queue, the extension's properties and the
\* calls in progress.
TypeOK == FlagTypes /\ ProfilerTypes /\ QueueTypes /\ ExtensionTypes /\ CallTypes

\* Whatever the extension does to its own methods meanwhile, calling one runs the
\* function it would have run had nobody profiled: during a recording, after it, and
\* with a stale wrapper left anywhere.  Methods inherited from a prototype that was
\* changed are left out: the wrapper installed over one hides the change.
Transparent ==
  \A m \in Slots \ protoChanged : Runs(own, m) = Runs(bare, m)

\* Between recordings every property the extension neither set to a wrapper nor made
\* one that can refuse is back exactly: the same own function, or again no own property
\* at all.  A refusal is local: it costs no other property its restoration.  (A property
\* that refuses keeps its wrapper, and the patch is forgotten: README.md:129 of the
\* repository promises more.)
ExactlyRestored ==
  ~running => \A m \in Slots \ (reinstalled \cup locked) : own[m] = bare[m]

\* All queued events belong to the scan now running and are labelled with its target
\* and its app generation, so the header copied from the first event of a batch
\* speaks for the whole batch and no batch outlives its recording.
BatchOfOneRecording ==
  \A i \in 1..Len(eventQueue) :
    /\ running
    /\ eventQueue[i].sess = sessionId
    /\ eventQueue[i].uuid = targetUuid /\ targetUuid # NoValue
    /\ eventQueue[i].client = clientSession

\* The batch timer is armed exactly while events wait, and a full batch never waits.
FlushArmed ==
  /\ flushSource <=> eventQueue # <<>>
  /\ Len(eventQueue) < MaxBatch

\* The depth recorded for a call is the number of wrapped calls around it, also when
\* the recording was restarted any number of times before.
DepthIsNesting ==
  /\ \A i \in 1..Len(stack) : stack[i].depth = i - 1
  /\ running => callDepth = Len(stack)

\* The recorder the rest of the system relies on: what the app gets is, in order and
\* exactly once, every wrapped call completed in the current recording.
Recording == INSTANCE Recorder WITH
  recording <- running,
  log <- sent \o eventQueue,
  delivered <- sent

RecorderSpec == Recording!Spec
=============================================================================
