--------------------------- MODULE ProfilerProofs ---------------------------
(***************************************************************************)
(* Theorems about the bridge's profiler: the recording life cycle of       *)
(* module Profiler, for every number of targets, slots and functions, and  *)
(* every batch size; then the scan of module Discovery, for every finite   *)
(* graph of objects without a cycle of prototypes, and all limits.         *)
(***************************************************************************)
EXTENDS Profiler, Discovery, FiniteSetTheorems, SequenceTheorems, WellFoundedInduction, TLAPS

-----------------------------------------------------------------------------
(* Lookup, restoration, events *)

\* Calling anything a property can hold runs a function of the extension.
LEMMA CodeType ==
  ASSUME NEW v \in Value, v # NoValue
  PROVE  Code(v) \in Funcs
BY DEF Value, Wrapper, Code

\* Calling a slot runs a function of the extension, or finds none.
LEMMA RunsType ==
  ASSUME ExtensionTypes, NEW o \in [Slots -> Value], NEW m \in Slots
  PROVE  /\ Runs(o, m) \in Funcs \cup {NoValue}
         /\ o[m] # NoValue \/ proto[m] # NoValue => Runs(o, m) \in Funcs
BY CodeType, ConstantsAssumption DEF ExtensionTypes, Runs

\* Restoring gives properties again, whichever of them refuse.
LEMMA RestoredType ==
  ASSUME TypeOK, NEW R
  PROVE  Restored(R) \in [Slots -> Value]
<1> SUFFICES ASSUME NEW m \in Slots, patches[m] # NoValue
             PROVE  patches[m].original \in Value
  BY DEF TypeOK, ExtensionTypes, Restored
<1> QED BY DEF TypeOK, ProfilerTypes, Patch

\* A wrapper is made for a slot that has something to run.
LEMMA WrapType ==
  ASSUME TypeOK, NEW held \in [Slots -> Value], NEW c \in Clients \cup {NoValue}, NEW m \in Slots
  PROVE  /\ Wrap(held, c)[m].sess = sessionId + 1 /\ Wrap(held, c)[m].client = c
         /\ Wrap(held, c)[m].fn = Runs(held, m)
         /\ held[m] # NoValue \/ proto[m] # NoValue => Wrap(held, c)[m] \in Wrapper
<1>1. held[m] # NoValue \/ proto[m] # NoValue => Runs(held, m) \in Funcs
  BY RunsType DEF TypeOK
<1>2. Wrap(held, c)[m] = [slot |-> m, sess |-> sessionId + 1, client |-> c, fn |-> Runs(held, m)]
  BY DEF Wrap
<1> QED BY <1>1, <1>2 DEF Wrapper, TypeOK, ProfilerTypes

LEMMA NoPatchesType == NoPatches \in [Slots -> Patch \cup {NoValue}]
BY DEF NoPatches

\* The event queued when a call returns is well formed.
LEMMA ReturnedEventType ==
  ASSUME TypeOK, stack # <<>>
  PROVE  ReturnedEvent \in Event
<1>1. stack[Len(stack)] \in Frame
  BY EmptySeq, LenProperties DEF TypeOK, CallTypes
<1> QED BY <1>1 DEF TypeOK, ProfilerTypes, ReturnedEvent, Event, Frame

-----------------------------------------------------------------------------
(* Type correctness *)

LEMMA TypeInit == Init => TypeOK
<1> SUFFICES ASSUME Init PROVE TypeOK
  OBVIOUS
<1>0. FlagTypes
  BY DEF Init, FlagTypes
<1>1. ProfilerTypes
  BY NoPatchesType DEF Init, ProfilerTypes
<1>2. QueueTypes
  BY DEF Init, QueueTypes
<1>3. ExtensionTypes
  BY DEF Init, ExtensionTypes, Value
<1>4. CallTypes
  BY DEF Init, CallTypes
<1> QED BY <1>0, <1>1, <1>2, <1>3, <1>4 DEF TypeOK

LEMMA StartTypes ==
  ASSUME TypeOK, NEW u \in Uuids, NEW c \in Clients \cup {NoValue},
         NEW P \in SUBSET Slots, NEW R, StartProfiling(u, c, P, R)
  PROVE  TypeOK'
<1> DEFINE wrap == Wrap(Restored(R), c)
<1>1. \A m \in P : wrap[m] \in Wrapper
  BY RestoredType, WrapType DEF StartProfiling
<1> HIDE DEF wrap
<1>2. own' = [m \in Slots |-> IF m \in P THEN wrap[m] ELSE Restored(R)[m]]
  BY DEF StartProfiling, wrap
<1>3. patches' = [m \in Slots |-> IF m \in P
                                  THEN [original |-> Restored(R)[m], wrapper |-> wrap[m]]
                                  ELSE NoValue]
  BY DEF StartProfiling, wrap
<1>4. made' = made \cup {wrap[m] : m \in P}
  BY DEF StartProfiling, wrap
<1>5. own' \in [Slots -> Value]
  BY <1>1, <1>2, RestoredType DEF Value
<1>6. patches' \in [Slots -> Patch \cup {NoValue}]
  BY <1>1, <1>3, RestoredType DEF Patch
<1>7. ProfilerTypes'
  BY <1>6 DEF StartProfiling, TypeOK, ProfilerTypes
<1>8. QueueTypes'
  BY DEF StartProfiling, DiscardOld, TypeOK, QueueTypes
<1>9. ExtensionTypes'
  BY <1>5 DEF StartProfiling, TypeOK, ExtensionTypes
<1>10. CallTypes'
  BY <1>1, <1>4 DEF StartProfiling, TypeOK, CallTypes
<1>11. FlagTypes'
  BY DEF StartProfiling, DiscardOld, TypeOK, FlagTypes
<1> QED BY <1>7, <1>8, <1>9, <1>10, <1>11 DEF TypeOK

\* A scan that is rolled back, wrappers that refuse included.
LEMMA RollBackTypes ==
  ASSUME TypeOK, NEW u \in Uuids, NEW c \in Clients \cup {NoValue},
         NEW P \in SUBSET Slots, NEW R, NEW S, StartRollsBack(u, c, P, R, S)
  PROVE  TypeOK'
<1> DEFINE wrap == Wrap(Restored(R), c)
<1>1. \A m \in S : wrap[m] \in Wrapper
  BY RestoredType, WrapType DEF StartRollsBack
<1> HIDE DEF wrap
<1>2. own' = [m \in Slots |-> IF m \in S THEN wrap[m] ELSE Restored(R)[m]]
  BY DEF StartRollsBack, wrap
<1>3. made' = made \cup {wrap[m] : m \in S}
  BY DEF StartRollsBack, wrap
<1>4. own' \in [Slots -> Value]
  BY <1>1, <1>2, RestoredType DEF Value
<1>5. ProfilerTypes'
  BY NoPatchesType DEF StartRollsBack, TypeOK, ProfilerTypes
<1>6. QueueTypes'
  BY DEF StartRollsBack, DiscardOld, TypeOK, QueueTypes
<1>7. ExtensionTypes'
  BY <1>4 DEF StartRollsBack, TypeOK, ExtensionTypes
<1>8. CallTypes'
  BY <1>1, <1>3 DEF StartRollsBack, TypeOK, CallTypes
<1>9. FlagTypes'
  BY DEF StartRollsBack, DiscardOld, TypeOK, FlagTypes
<1> QED BY <1>5, <1>6, <1>7, <1>8, <1>9 DEF TypeOK

\* What ends a recording leaves the patches and properties well typed.
LEMMA EndTypes ==
  ASSUME TypeOK, NEW R, own' = Restored(R), patches' = NoPatches,
         UNCHANGED <<proto, bare, reinstalled, protoChanged, locked, writes, stack, made>>
  PROVE  /\ patches' \in [Slots -> Patch \cup {NoValue}]
         /\ ExtensionTypes' /\ CallTypes'
BY RestoredType, NoPatchesType DEF TypeOK, ExtensionTypes, CallTypes

LEMMA TypeStep == TypeOK /\ [Next]_vars => TypeOK'
<1> SUFFICES ASSUME TypeOK, [Next]_vars PROVE TypeOK'
  OBVIOUS
<1>1. ASSUME NEW u \in Uuids, NEW c \in Clients \cup {NoValue}, NEW P \in SUBSET Slots,
             NEW R, StartProfiling(u, c, P, R)
      PROVE  TypeOK'
  BY <1>1, StartTypes
<1>2. ASSUME NEW u \in Uuids, NEW c \in Clients \cup {NoValue}, NEW P \in SUBSET Slots,
             NEW R, NEW S, StartRollsBack(u, c, P, R, S)
      PROVE  TypeOK'
  BY <1>2, RollBackTypes
<1>3. ASSUME NEW R, StartFindsNothing(R) PROVE TypeOK'
  <2>1. patches' \in [Slots -> Patch \cup {NoValue}] /\ ExtensionTypes' /\ CallTypes'
    BY <1>3, EndTypes DEF StartFindsNothing
  <2>2. ProfilerTypes'
    BY <1>3, <2>1 DEF StartFindsNothing, TypeOK, ProfilerTypes
  <2>3. QueueTypes'
    BY <1>3 DEF StartFindsNothing, DiscardOld, TypeOK, QueueTypes
  <2>4. FlagTypes'
    BY <1>3 DEF StartFindsNothing, DiscardOld, TypeOK, FlagTypes
  <2> QED BY <2>1, <2>2, <2>3, <2>4 DEF TypeOK
<1>4. ASSUME NEW R, StopProfiling(R) PROVE TypeOK'
  <2>1. patches' \in [Slots -> Patch \cup {NoValue}] /\ ExtensionTypes' /\ CallTypes'
    BY <1>4, EndTypes DEF StopProfiling
  <2>2. ProfilerTypes'
    BY <1>4, <2>1 DEF StopProfiling, TypeOK, ProfilerTypes
  <2>3. QueueTypes'
    BY <1>4 DEF StopProfiling, TypeOK, QueueTypes
  <2>4. FlagTypes'
    BY <1>4 DEF StopProfiling, TypeOK, FlagTypes
  <2> QED BY <2>1, <2>2, <2>3, <2>4 DEF TypeOK
<1>5. ASSUME FlushTimer PROVE TypeOK'
  <2>1. QueueTypes'
    BY <1>5 DEF FlushTimer, EmitBatch, TypeOK, QueueTypes
  <2>2. FlagTypes'
    BY <1>5 DEF FlushTimer, EmitBatch, profilerVars, TypeOK, FlagTypes
  <2> QED BY <1>5, <2>1, <2>2
    DEF FlushTimer, profilerVars, extensionVars, TypeOK, ProfilerTypes, ExtensionTypes, CallTypes
<1>6. ASSUME NEW w \in made, Call(w) PROVE TypeOK'
  <2>1. CallTypes'
    BY <1>6 DEF Call, TypeOK, CallTypes, ProfilerTypes, Wrapper, Frame
  <2>2. ProfilerTypes'
    BY <1>6 DEF Call, TypeOK, ProfilerTypes
  <2> QED BY <1>6, <2>1, <2>2
    DEF Call, queueVars, extensionVars, TypeOK, FlagTypes, QueueTypes, ExtensionTypes
<1>7. ASSUME Return PROVE TypeOK'
  <2>1. LeaveCall /\ ReturnedEvent \in Event
    BY <1>7, ReturnedEventType DEF Return, ReturnFillsBatch, ReturnQueues, ReturnCannotArm, LeaveCall
  <2>2. QueueTypes'
    <3> DEFINE q == Append(eventQueue, ReturnedEvent)
    <3>1. \/ eventQueue' = <<>> /\ sent' = sent \o q
          \/ eventQueue' = q /\ sent' = sent
      BY <1>7 DEF Return, ReturnFillsBatch, ReturnQueues, ReturnCannotArm, EmitBatch
    <3>2. q \in Seq(Event)
      BY <2>1 DEF TypeOK, QueueTypes
    <3> HIDE DEF q
    <3>3. sent \in Seq(Event) /\ sent \o q \in Seq(Event) /\ <<>> \in Seq(Event)
      BY <3>2 DEF TypeOK, QueueTypes
    <3> QED BY <3>1, <3>2, <3>3 DEF QueueTypes
  <2>3. CallTypes'
    BY <2>1 DEF LeaveCall, TypeOK, CallTypes
  <2>4. ProfilerTypes' /\ ExtensionTypes'
    BY <2>1 DEF LeaveCall, extensionVars, TypeOK, ProfilerTypes, ExtensionTypes
  <2>5. FlagTypes'
    BY <1>7, <2>1 DEF LeaveCall, Return, ReturnFillsBatch, ReturnQueues, ReturnCannotArm,
      EmitBatch, TypeOK, FlagTypes
  <2> QED BY <2>2, <2>3, <2>4, <2>5 DEF TypeOK
<1>8. ASSUME UNCHANGED <<profilerVars, queueVars, stack, made>>, ExtensionTypes' PROVE TypeOK'
  BY <1>8 DEF profilerVars, queueVars, TypeOK, FlagTypes, ProfilerTypes, QueueTypes, CallTypes
<1>9. ASSUME NEW m \in Slots, NEW f \in Funcs, ExtensionReplaces(m, f) PROVE TypeOK'
  BY <1>8, <1>9 DEF ExtensionReplaces, Write, TypeOK, ExtensionTypes, Value
<1>10. ASSUME NEW m \in Slots, NEW f \in Funcs, PrototypeChanges(m, f) PROVE TypeOK'
  BY <1>8, <1>10 DEF PrototypeChanges, Write, TypeOK, ExtensionTypes
<1>11. ASSUME NEW m \in Slots, ExtensionDeletes(m) PROVE TypeOK'
  BY <1>8, <1>11 DEF ExtensionDeletes, Write, TypeOK, ExtensionTypes, Value
<1>12. ASSUME NEW m \in Slots, NEW w \in made, ExtensionReinstalls(m, w) PROVE TypeOK'
  <2>1. w \in Value /\ w.fn \in Funcs
    BY DEF TypeOK, CallTypes, Value, Wrapper
  <2> QED BY <1>8, <1>12, <2>1 DEF ExtensionReinstalls, Write, TypeOK, ExtensionTypes
<1>13. ASSUME NEW m \in Slots, ExtensionLocks(m) PROVE TypeOK'
  BY <1>8, <1>13 DEF ExtensionLocks, Write, TypeOK, ExtensionTypes
<1>14. ASSUME UNCHANGED vars PROVE TypeOK'
  BY <1>8, <1>14 DEF vars, extensionVars, TypeOK, ExtensionTypes
<1> QED
  BY <1>1, <1>2, <1>3, <1>4, <1>5, <1>6, <1>7, <1>9, <1>10, <1>11, <1>12, <1>13, <1>14
  DEF Next, ProfilerStep, CallStep, ExtensionStep, Return

\* The profiler's fields and the extension's properties keep their types in every
\* reachable state.
THEOREM TypeCorrect == Spec => []TypeOK
BY TypeInit, TypeStep, PTL DEF Spec

-----------------------------------------------------------------------------
(* Restoration *)

\* What relates a slot, its patch and the value it would have had nobody profiled.
\* Transparent and ExactlyRestored are not inductive without it: when a recording
\* ends, they hold only if the patch remembers the right original.  A slot that was
\* locked may hold the wrapper of an ended recording, patched again or not; what it
\* runs is then all that is known of it.
SlotInv(m) ==
  /\ patches[m] # NoValue /\ m \notin protoChanged =>
       patches[m].wrapper.fn = IF patches[m].original = NoValue THEN proto[m]
                               ELSE Code(patches[m].original)
  /\ m \notin reinstalled \cup locked /\ patches[m] # NoValue /\ own[m] = patches[m].wrapper =>
       patches[m].original = bare[m]
  /\ m \notin reinstalled \cup locked /\ own[m] \in Wrapper =>
       patches[m] # NoValue /\ own[m] = patches[m].wrapper
  /\ m \notin reinstalled \cup locked /\ own[m] \notin Wrapper => own[m] = bare[m]
  /\ m \notin protoChanged => Runs(own, m) = Runs(bare, m)

IdleInv == ~running => patches = NoPatches

RestoreInv == IdleInv /\ \A m \in Slots : SlotInv(m)

\* Functions, wrappers and the absent value are told apart.
LEMMA Distinct ==
  /\ \A v \in Funcs \cup {NoValue} : v \notin Wrapper
  /\ NoValue \notin Wrapper /\ NoValue \notin Funcs
BY ConstantsAssumption

\* A wrapper runs the function it was made for.
LEMMA CodeOfWrapper == \A w \in Wrapper : Code(w) = w.fn
BY Distinct DEF Code

\* A patched slot's wrapper is a wrapper.
LEMMA PatchWrapper ==
  ASSUME TypeOK, NEW m \in Slots, patches[m] # NoValue
  PROVE  patches[m].wrapper \in Wrapper /\ patches[m].original \in Value
BY DEF TypeOK, ProfilerTypes, Patch

\* Ending a recording puts back what the extension would have, slot by slot; a slot that
\* refuses still runs it.
LEMMA RestoredSlot ==
  ASSUME TypeOK, NEW R \in SUBSET locked, NEW m \in Slots, SlotInv(m)
  PROVE  /\ m \notin reinstalled \cup locked => Restored(R)[m] = bare[m]
         /\ m \notin protoChanged => Runs(Restored(R), m) = Runs(bare, m)
<1>1. CASE patches[m] # NoValue /\ own[m] = patches[m].wrapper /\ m \notin R
  <2>1. Restored(R)[m] = patches[m].original
    BY <1>1 DEF Restored
  <2>2. own[m] \in Wrapper /\ own[m] # NoValue /\ Code(own[m]) = patches[m].wrapper.fn
    BY <1>1, PatchWrapper, CodeOfWrapper, Distinct
  <2> QED BY <1>1, <2>1, <2>2 DEF SlotInv, Runs
<1>2. CASE ~(patches[m] # NoValue /\ own[m] = patches[m].wrapper /\ m \notin R)
  <2>1. Restored(R)[m] = own[m]
    BY <1>2 DEF Restored
  <2> QED BY <1>2, <2>1 DEF SlotInv, Runs
<1> QED BY <1>1, <1>2

\* The invariant holds after any step that ends a recording.
LEMMA EndRestores ==
  ASSUME TypeOK, RestoreInv, NEW R \in SUBSET locked, own' = Restored(R), patches' = NoPatches,
         UNCHANGED <<proto, bare, reinstalled, protoChanged, locked>>
  PROVE  RestoreInv'
<1>1. IdleInv'
  BY DEF IdleInv
<1>2. ASSUME NEW m \in Slots PROVE SlotInv(m)'
  <2>1. patches'[m] = NoValue /\ own'[m] = Restored(R)[m]
    BY DEF NoPatches
  <2>2. bare[m] \notin Wrapper
    BY Distinct DEF TypeOK, ExtensionTypes
  <2>3. m \notin reinstalled \cup locked => own'[m] = bare[m]
    BY <2>1, RestoredSlot DEF RestoreInv
  <2>4. m \notin protoChanged => Runs(own, m)' = Runs(bare, m)'
    BY <2>1, RestoredSlot DEF RestoreInv, Runs
  <2> QED BY <2>1, <2>2, <2>3, <2>4 DEF SlotInv
<1> QED BY <1>1, <1>2 DEF RestoreInv

\* A wrapper put over the slot of ended recordings runs what the slot ran.
LEMMA WrappedSlot ==
  ASSUME TypeOK, RestoreInv, NEW R \in SUBSET locked, NEW c \in Clients \cup {NoValue},
         NEW m \in Slots, Restored(R)[m] # NoValue \/ proto[m] # NoValue,
         own'[m] = Wrap(Restored(R), c)[m], UNCHANGED proto
  PROVE  own'[m] \in Wrapper /\ Runs(own, m)' = Runs(Restored(R), m)
<1> DEFINE w == Wrap(Restored(R), c)[m]
<1>1. w \in Wrapper /\ w.fn = Runs(Restored(R), m)
  BY RestoredType, WrapType
<1> HIDE DEF w
<1>2. own'[m] = w
  BY DEF w
<1> QED BY <1>1, <1>2, CodeOfWrapper, Distinct DEF Runs

\* The invariant holds after a scan.
LEMMA StartRestores ==
  ASSUME TypeOK, RestoreInv, NEW u \in Uuids, NEW c \in Clients \cup {NoValue},
         NEW P \in SUBSET Slots, NEW R \in SUBSET locked, StartProfiling(u, c, P, R)
  PROVE  RestoreInv'
<1>1. IdleInv'
  BY DEF StartProfiling, IdleInv
<1>2. ASSUME NEW m \in Slots PROVE SlotInv(m)'
  <2> DEFINE w == Wrap(Restored(R), c)[m]
  <2>1. UNCHANGED <<proto, bare, reinstalled, protoChanged, locked>>
    BY DEF StartProfiling
  <2>2. /\ m \notin reinstalled \cup locked => Restored(R)[m] = bare[m]
        /\ m \notin protoChanged => Runs(Restored(R), m) = Runs(bare, m)
    BY RestoredSlot DEF RestoreInv
  <2>3. Runs(bare, m)' = Runs(bare, m) /\ bare[m] \notin Wrapper
    BY <2>1, Distinct DEF Runs, TypeOK, ExtensionTypes
  <2>4. CASE m \in P
    <3>1. own'[m] = w /\ patches'[m] = [original |-> Restored(R)[m], wrapper |-> w]
      BY <2>4 DEF StartProfiling
    <3>2. Restored(R)[m] # NoValue \/ proto[m] # NoValue
      BY <2>4 DEF StartProfiling
    <3>3. w \in Wrapper /\ w.fn = Runs(Restored(R), m)
      BY <3>2, RestoredType, WrapType
    <3>4. Runs(own, m)' = Runs(Restored(R), m)
      BY <2>1, <3>1, <3>2, WrappedSlot
    <3> HIDE DEF w
    <3>5. patches'[m].wrapper = w /\ patches'[m].original = Restored(R)[m]
      BY <3>1
    <3>6. w.fn = IF Restored(R)[m] = NoValue THEN proto'[m] ELSE Code(Restored(R)[m])
      BY <2>1, <3>3 DEF Runs
    <3>7. patches'[m] # NoValue
      <4>1. patches'[m] \in Patch
        BY <3>1, <3>3, RestoredType DEF Patch
      <4> QED BY <4>1, ConstantsAssumption
    <3> QED BY <2>1, <2>2, <2>3, <3>1, <3>3, <3>4, <3>5, <3>6, <3>7 DEF SlotInv
  <2>5. CASE m \notin P
    <3>1. own'[m] = Restored(R)[m] /\ patches'[m] = NoValue
      BY <2>5 DEF StartProfiling
    <3>2. Runs(own, m)' = Runs(Restored(R), m)
      BY <2>1, <3>1 DEF Runs
    <3> QED BY <2>1, <2>2, <2>3, <3>1, <3>2 DEF SlotInv
  <2> QED BY <2>4, <2>5
<1> QED BY <1>1, <1>2 DEF RestoreInv

\* The invariant holds after a scan that is rolled back, and refused in part.
LEMMA RollBackRestores ==
  ASSUME TypeOK, RestoreInv, NEW u \in Uuids, NEW c \in Clients \cup {NoValue},
         NEW P \in SUBSET Slots, NEW R \in SUBSET locked, NEW S \in SUBSET locked,
         StartRollsBack(u, c, P, R, S)
  PROVE  RestoreInv'
<1>1. IdleInv'
  BY DEF StartRollsBack, IdleInv
<1>2. ASSUME NEW m \in Slots PROVE SlotInv(m)'
  <2>1. UNCHANGED <<proto, bare, reinstalled, protoChanged, locked>> /\ patches'[m] = NoValue
    BY DEF StartRollsBack, NoPatches
  <2>2. /\ m \notin reinstalled \cup locked => Restored(R)[m] = bare[m]
        /\ m \notin protoChanged => Runs(Restored(R), m) = Runs(bare, m)
    BY RestoredSlot DEF RestoreInv
  <2>3. Runs(bare, m)' = Runs(bare, m) /\ bare[m] \notin Wrapper
    BY <2>1, Distinct DEF Runs, TypeOK, ExtensionTypes
  <2>4. CASE m \in S
    <3>1. own'[m] = Wrap(Restored(R), c)[m]
      BY <2>4 DEF StartRollsBack
    <3>2. Restored(R)[m] # NoValue \/ proto[m] # NoValue
      BY <2>4 DEF StartRollsBack
    <3>3. Runs(own, m)' = Runs(Restored(R), m)
      BY <2>1, <3>1, <3>2, WrappedSlot
    <3> QED BY <2>1, <2>2, <2>3, <2>4, <3>3 DEF SlotInv
  <2>5. CASE m \notin S
    <3>1. own'[m] = Restored(R)[m]
      BY <2>5 DEF StartRollsBack
    <3>2. Runs(own, m)' = Runs(Restored(R), m)
      BY <2>1, <3>1 DEF Runs
    <3> QED BY <2>1, <2>2, <2>3, <3>1, <3>2 DEF SlotInv
  <2> QED BY <2>4, <2>5
<1> QED BY <1>1, <1>2 DEF RestoreInv

\* A step of the extension on slot m leaves the other slots' invariant alone.
LEMMA OtherSlots ==
  ASSUME NEW m \in Slots, RestoreInv, UNCHANGED <<patches, running>>,
         SlotInv(m)',
         \A n \in Slots \ {m} : /\ own'[n] = own[n] /\ bare'[n] = bare[n] /\ proto'[n] = proto[n]
                                /\ n \in reinstalled' <=> n \in reinstalled
                                /\ n \in protoChanged' <=> n \in protoChanged
                                /\ n \in locked' <=> n \in locked
  PROVE  RestoreInv'
<1>1. ASSUME NEW n \in Slots \ {m} PROVE SlotInv(n)'
  BY <1>1 DEF RestoreInv, SlotInv, Runs
<1> QED BY <1>1 DEF RestoreInv, IdleInv, NoPatches

LEMMA RestoreStep == TypeOK /\ RestoreInv /\ [Next]_vars => RestoreInv'
<1> SUFFICES ASSUME TypeOK, RestoreInv, [Next]_vars PROVE RestoreInv'
  OBVIOUS
<1>1. ASSUME NEW R \in SUBSET locked, NEW u \in Uuids, NEW c \in Clients \cup {NoValue},
             NEW P \in SUBSET Slots, StartProfiling(u, c, P, R)
      PROVE  RestoreInv'
  BY <1>1, StartRestores
<1>2. ASSUME NEW R \in SUBSET locked, NEW S \in SUBSET locked, NEW u \in Uuids,
             NEW c \in Clients \cup {NoValue}, NEW P \in SUBSET Slots, StartRollsBack(u, c, P, R, S)
      PROVE  RestoreInv'
  BY <1>2, RollBackRestores
<1>20. ASSUME NEW R \in SUBSET locked, StartFindsNothing(R) \/ StopProfiling(R) PROVE RestoreInv'
  BY <1>20, EndRestores DEF StartFindsNothing, StopProfiling
<1>3. ASSUME UNCHANGED <<running, patches, own, proto, bare, reinstalled, protoChanged, locked>>
      PROVE  RestoreInv'
  BY <1>3 DEF RestoreInv, IdleInv, NoPatches, SlotInv, Runs
<1>4. ASSUME NEW w \in made, FlushTimer \/ Call(w) \/ Return \/ UNCHANGED vars PROVE RestoreInv'
  BY <1>3, <1>4 DEF FlushTimer, Call, Return, ReturnFillsBatch, ReturnQueues, ReturnCannotArm,
    LeaveCall, vars, profilerVars, extensionVars
<1>5. ASSUME FlushTimer \/ Return \/ UNCHANGED vars PROVE RestoreInv'
  BY <1>3, <1>5 DEF FlushTimer, Return, ReturnFillsBatch, ReturnQueues, ReturnCannotArm,
    LeaveCall, vars, profilerVars, extensionVars
<1>6. ASSUME NEW m \in Slots, NEW f \in Funcs, ExtensionReplaces(m, f) PROVE RestoreInv'
  <2>1. own'[m] = f /\ bare'[m] = f /\ f \notin Wrapper
    BY <1>6, Distinct DEF ExtensionReplaces, TypeOK, ExtensionTypes
  <2>2. UNCHANGED <<patches, running, proto, protoChanged, locked>>
    BY <1>6 DEF ExtensionReplaces, profilerVars
  <2>3. SlotInv(m)'
    BY <2>1, <2>2, PatchWrapper DEF RestoreInv, SlotInv, Runs
  <2> QED BY <1>6, <2>2, <2>3, OtherSlots DEF ExtensionReplaces, TypeOK, ExtensionTypes
<1>7. ASSUME NEW m \in Slots, ExtensionDeletes(m) PROVE RestoreInv'
  <2>1. own'[m] = NoValue /\ bare'[m] = NoValue
    BY <1>7 DEF ExtensionDeletes, TypeOK, ExtensionTypes
  <2>2. UNCHANGED <<patches, running, proto, protoChanged, locked>>
    BY <1>7 DEF ExtensionDeletes, profilerVars
  <2>3. SlotInv(m)'
    BY <2>1, <2>2, PatchWrapper, Distinct DEF RestoreInv, SlotInv, Runs
  <2> QED BY <1>7, <2>2, <2>3, OtherSlots DEF ExtensionDeletes, TypeOK, ExtensionTypes
<1>8. ASSUME NEW m \in Slots, NEW w \in made, ExtensionReinstalls(m, w) PROVE RestoreInv'
  <2>1. own'[m] = w /\ bare'[m] = w.fn /\ w \in Wrapper /\ m \in reinstalled'
    BY <1>8 DEF ExtensionReinstalls, TypeOK, ExtensionTypes, CallTypes
  <2>2. UNCHANGED <<patches, running, proto, protoChanged, locked>>
    BY <1>8 DEF ExtensionReinstalls, profilerVars
  <2>3. w.fn \in Funcs /\ Code(w) = w.fn
    BY <2>1, CodeOfWrapper DEF Wrapper
  <2>4. Runs(own, m)' = Runs(bare, m)'
    BY <2>1, <2>3, Distinct DEF Runs, Code
  <2>5. SlotInv(m)'
    BY <2>1, <2>2, <2>4 DEF RestoreInv, SlotInv
  <2> QED BY <1>8, <2>2, <2>5, OtherSlots DEF ExtensionReinstalls, TypeOK, ExtensionTypes
<1>9. ASSUME NEW m \in Slots, NEW f \in Funcs, PrototypeChanges(m, f) PROVE RestoreInv'
  <2>1. UNCHANGED <<patches, running, own, bare, reinstalled, locked>> /\ m \in protoChanged'
    BY <1>9 DEF PrototypeChanges, profilerVars
  <2>2. SlotInv(m)'
    BY <2>1 DEF RestoreInv, SlotInv
  <2> QED BY <1>9, <2>1, <2>2, OtherSlots DEF PrototypeChanges, TypeOK, ExtensionTypes
<1>10. ASSUME NEW m \in Slots, ExtensionLocks(m) PROVE RestoreInv'
  <2>1. UNCHANGED <<patches, running, own, proto, bare, reinstalled, protoChanged>> /\ m \in locked'
    BY <1>10 DEF ExtensionLocks, profilerVars, TypeOK, ExtensionTypes
  <2>2. SlotInv(m)'
    BY <2>1 DEF RestoreInv, SlotInv, Runs
  <2> QED BY <1>10, <2>1, <2>2, OtherSlots DEF ExtensionLocks, TypeOK, ExtensionTypes
<1> QED
  BY <1>1, <1>2, <1>20, <1>4, <1>5, <1>6, <1>7, <1>8, <1>9, <1>10
  DEF Next, ProfilerStep, CallStep, ExtensionStep, Return

LEMMA RestoreInit == Init => RestoreInv
<1> SUFFICES ASSUME Init PROVE RestoreInv
  OBVIOUS
<1>1. IdleInv
  BY DEF Init, IdleInv
<1>2. ASSUME NEW m \in Slots PROVE SlotInv(m)
  <2>1. patches[m] = NoValue
    BY DEF Init, NoPatches
  <2>2. own[m] \notin Wrapper /\ bare = own
    BY Distinct DEF Init
  <2> QED BY <2>1, <2>2 DEF SlotInv
<1> QED BY <1>1, <1>2 DEF RestoreInv

\* The invariant that carries the two theorems below.
THEOREM RestoreInvariant == Spec => []RestoreInv
BY RestoreInit, TypeInit, TypeStep, RestoreStep, PTL DEF Spec

\* Profiling is invisible to the extension: at every moment of every history of
\* recordings and of changes the extension makes to its own methods, calling a method
\* runs what it would have run.
THEOREM AlwaysTransparent == Spec => []Transparent
<1>1. RestoreInv => Transparent
  BY DEF RestoreInv, SlotInv, Transparent
<1> QED BY <1>1, RestoreInvariant, PTL

\* After a recording, however it ended and whichever locked properties refused, every
\* property that was neither locked nor set to a wrapper by the extension is back exactly.
THEOREM AlwaysRestored == Spec => []ExactlyRestored
<1>1. RestoreInv => ExactlyRestored
  <2> SUFFICES ASSUME RestoreInv, ~running, NEW m \in Slots, m \notin reinstalled \cup locked
               PROVE  own[m] = bare[m]
    BY DEF ExactlyRestored
  <2>1. patches[m] = NoValue
    BY DEF RestoreInv, IdleInv, NoPatches
  <2> QED BY <2>1 DEF RestoreInv, SlotInv
<1> QED BY <1>1, RestoreInvariant, PTL

-----------------------------------------------------------------------------
(* The queue and its timer *)

\* What a step of the profiler does with the queue: every start, even one that fails,
\* discards it.
LEMMA ProfilerCases ==
  ASSUME ProfilerStep
  PROVE  \/ DiscardOld /\ running' \in BOOLEAN
         \/ \E R \in SUBSET locked : StopProfiling(R)
         \/ FlushTimer
<1>1. ASSUME NEW u, NEW c, NEW P, NEW R, StartProfiling(u, c, P, R)
      PROVE  DiscardOld /\ running' \in BOOLEAN
  BY <1>1 DEF StartProfiling
<1>2. ASSUME NEW u, NEW c, NEW P, NEW R, NEW S, StartRollsBack(u, c, P, R, S)
      PROVE  DiscardOld /\ running' \in BOOLEAN
  BY <1>2 DEF StartRollsBack
<1>3. ASSUME NEW R, StartFindsNothing(R) PROVE DiscardOld /\ running' \in BOOLEAN
  BY <1>3 DEF StartFindsNothing
<1> QED BY <1>1, <1>2, <1>3 DEF ProfilerStep

LEMMA FlushStep == TypeOK /\ FlushArmed /\ [Next]_vars => FlushArmed'
<1> SUFFICES ASSUME TypeOK, FlushArmed, [Next]_vars PROVE FlushArmed'
  OBVIOUS
<1>0. 0 < MaxBatch /\ Len(<<>>) = 0
  BY ConstantsAssumption
<1>1. ASSUME DiscardOld PROVE FlushArmed'
  <2>1. eventQueue' = <<>> /\ flushSource' = FALSE
    BY <1>1, Zenon DEF DiscardOld, HasOldRecording, FlushArmed, TypeOK, FlagTypes
  <2> QED BY <1>0, <2>1 DEF FlushArmed
<1>2. ASSUME eventQueue' = <<>> /\ flushSource' = FALSE PROVE FlushArmed'
  BY <1>0, <1>2 DEF FlushArmed
<1>3. ASSUME ReturnQueues PROVE FlushArmed'
  <2>1. /\ eventQueue' = Append(eventQueue, ReturnedEvent)
        /\ Len(eventQueue) + 1 < MaxBatch /\ stack # <<>>
    BY <1>3 DEF ReturnQueues, LeaveCall
  <2>2. eventQueue' # <<>> /\ Len(eventQueue') < MaxBatch
    BY <2>1, ReturnedEventType, AppendProperties DEF TypeOK, QueueTypes
  <2> QED BY <1>3, <2>2 DEF ReturnQueues, FlushArmed
<1>4. ASSUME UNCHANGED <<eventQueue, flushSource>> PROVE FlushArmed'
  BY <1>4 DEF FlushArmed
<1>5. CASE ProfilerStep
  BY <1>1, <1>2, <1>5, ProfilerCases DEF StopProfiling, FlushTimer, EmitBatch
<1>6. CASE CallStep
  BY <1>2, <1>3, <1>4, <1>6
  DEF CallStep, Call, queueVars, ReturnFillsBatch, ReturnCannotArm, EmitBatch
<1>7. CASE ExtensionStep
  BY <1>4, <1>7 DEF ExtensionStep, ExtensionReplaces, ExtensionDeletes, ExtensionReinstalls,
    PrototypeChanges, ExtensionLocks, queueVars
<1>8. CASE UNCHANGED vars
  BY <1>4, <1>8 DEF vars, queueVars
<1> QED BY <1>5, <1>6, <1>7, <1>8 DEF Next

\* Events wait exactly while the timer is armed, and never as many as fill a batch,
\* even when handlers run inside wrapped calls.
THEOREM AlwaysFlushArmed == Spec => []FlushArmed
<1>1. Init => FlushArmed
  BY ConstantsAssumption DEF Init, FlushArmed
<1> QED BY <1>1, TypeInit, TypeStep, FlushStep, PTL DEF Spec

-----------------------------------------------------------------------------
(* One recording at a time *)

\* Calls in progress are calls of the running scan, counted from the outside in.
CallInv ==
  /\ stack # <<>> => running
  /\ \A i \in 1..Len(stack) :
       /\ stack[i].sess = sessionId /\ stack[i].client = clientSession
       /\ stack[i].depth = i - 1
  /\ running => callDepth = Len(stack)

\* The wrappers of the running scan carry the running scan's app generation.
WrapperInv ==
  /\ running => targetUuid # NoValue
  /\ \A w \in made : w.sess <= sessionId
  /\ running => \A w \in made : w.sess = sessionId => w.client = clientSession

RecordingInv == CallInv /\ WrapperInv /\ BatchOfOneRecording

LEMMA RecordingInit == Init => RecordingInv
BY DEF Init, RecordingInv, CallInv, WrapperInv, BatchOfOneRecording

\* With no call in progress, a step that empties the queue keeps the invariant.
LEMMA BetweenCalls ==
  ASSUME stack = <<>>, UNCHANGED stack, eventQueue' = <<>>, running' => callDepth' = 0,
         WrapperInv'
  PROVE  RecordingInv'
<1>1. CallInv'
  BY DEF CallInv
<1>2. BatchOfOneRecording'
  BY DEF BatchOfOneRecording
<1> QED BY <1>1, <1>2 DEF RecordingInv

\* Entering a call.
LEMMA CallKeepsRecording ==
  ASSUME TypeOK, RecordingInv, NEW w \in made, Call(w)
  PROVE  RecordingInv'
<1> DEFINE fr == [slot |-> w.slot, sess |-> w.sess, client |-> w.client, depth |-> callDepth]
<1>1. running /\ w.sess = sessionId /\ w.client = clientSession
  BY DEF Call, Live, RecordingInv, WrapperInv
<1>2. stack' = Append(stack, fr) /\ callDepth' = callDepth + 1
  BY DEF Call
<1>3. UNCHANGED <<running, targetUuid, clientSession, sessionId, eventQueue, made>>
  BY DEF Call, queueVars
<1>4. stack \in Seq(Frame) /\ fr \in Frame
  BY DEF TypeOK, CallTypes, ProfilerTypes, Wrapper, Frame
<1>5. /\ fr.sess = sessionId /\ fr.client = clientSession /\ fr.depth = callDepth
      /\ callDepth = Len(stack)
  BY <1>1 DEF RecordingInv, CallInv
<1> HIDE DEF fr
<1>6. /\ Len(stack') = Len(stack) + 1 /\ Len(stack) \in Nat
      /\ \A i \in 1..Len(stack) : stack'[i] = stack[i]
      /\ stack'[Len(stack) + 1] = fr
  BY <1>2, <1>4, AppendProperties, LenProperties
<1>7. ASSUME NEW i \in 1..Len(stack')
      PROVE  /\ stack'[i].sess = sessionId /\ stack'[i].client = clientSession
             /\ stack'[i].depth = i - 1
  <2>1. CASE i \in 1..Len(stack)
    BY <1>6, <2>1 DEF RecordingInv, CallInv
  <2>2. CASE i = Len(stack) + 1
    BY <1>5, <1>6, <2>2
  <2> QED BY <1>6, <2>1, <2>2
<1>8. CallInv'
  BY <1>1, <1>2, <1>3, <1>5, <1>6, <1>7 DEF CallInv
<1>9. WrapperInv' /\ BatchOfOneRecording'
  BY <1>3 DEF RecordingInv, WrapperInv, BatchOfOneRecording
<1> QED BY <1>8, <1>9 DEF RecordingInv

\* A sequence without its last element.
LEMMA DropLast ==
  ASSUME NEW S, NEW s \in Seq(S), Len(s) \in Nat \ {0}
  PROVE  /\ Len(SubSeq(s, 1, Len(s) - 1)) = Len(s) - 1
         /\ \A i \in 1..(Len(s) - 1) : SubSeq(s, 1, Len(s) - 1)[i] = s[i]
<1> DEFINE n == Len(s) - 1
<1>1. n \in Nat /\ \A i \in 1..n : s[i] \in S
  BY ElementOfSeq
<1> HIDE DEF n
<1>2. /\ Len(SubSeq(s, 1, n)) = n
      /\ \A i \in 1..n : SubSeq(s, 1, n)[i] = s[i]
  BY <1>1, SubSeqProperties
<1> QED BY <1>2 DEF n

\* Leaving a call, whichever way its event is queued.
LEMMA ReturnKeepsRecording ==
  ASSUME TypeOK, RecordingInv, Return
  PROVE  RecordingInv'
<1>1. /\ stack # <<>> /\ stack' = SubSeq(stack, 1, Len(stack) - 1)
      /\ callDepth' = callDepth - 1
      /\ UNCHANGED <<running, targetUuid, clientSession, sessionId, made>>
  BY DEF Return, ReturnFillsBatch, ReturnQueues, ReturnCannotArm, LeaveCall
<1>2. running /\ Len(stack) \in Nat \ {0} /\ stack \in Seq(Frame)
  BY <1>1, EmptySeq DEF RecordingInv, CallInv, TypeOK, CallTypes
<1>3. /\ Len(stack') = Len(stack) - 1
      /\ \A i \in 1..(Len(stack) - 1) : stack'[i] = stack[i]
  <2>1. stack \in Seq(Frame) /\ Len(stack) \in Nat \ {0}
    BY <1>2
  <2> QED BY <1>1, <2>1, DropLast
<1>4. callDepth' = Len(stack')
  BY <1>1, <1>2, <1>3 DEF RecordingInv, CallInv
<1>5. CallInv'
  BY <1>1, <1>2, <1>3, <1>4 DEF RecordingInv, CallInv
<1>6. WrapperInv'
  BY <1>1 DEF RecordingInv, WrapperInv
<1> DEFINE e == ReturnedEvent
<1>7. /\ e.sess = sessionId /\ e.client = clientSession /\ e.uuid = targetUuid
      /\ targetUuid # NoValue
  <2>1. stack[Len(stack)].sess = sessionId /\ stack[Len(stack)].client = clientSession
    BY <1>2 DEF RecordingInv, CallInv
  <2> QED BY <1>2, <2>1 DEF ReturnedEvent, RecordingInv, WrapperInv
<1>8. e \in Event /\ eventQueue \in Seq(Event)
  BY <1>1, ReturnedEventType DEF TypeOK, QueueTypes
<1>9. eventQueue' = <<>> \/ eventQueue' = Append(eventQueue, e)
  BY DEF Return, ReturnFillsBatch, ReturnQueues, ReturnCannotArm, EmitBatch
<1> HIDE DEF e
<1>10. CASE eventQueue' = <<>>
  BY <1>5, <1>6, <1>10 DEF RecordingInv, BatchOfOneRecording
<1>11. CASE eventQueue' = Append(eventQueue, e)
  <2>1. /\ Len(eventQueue') = Len(eventQueue) + 1 /\ Len(eventQueue) \in Nat
        /\ \A i \in 1..Len(eventQueue) : eventQueue'[i] = eventQueue[i]
        /\ eventQueue'[Len(eventQueue) + 1] = e
    BY <1>8, <1>11, AppendProperties, LenProperties
  <2>2. ASSUME NEW i \in 1..Len(eventQueue')
        PROVE  /\ eventQueue'[i].sess = sessionId /\ eventQueue'[i].uuid = targetUuid
               /\ eventQueue'[i].client = clientSession
    <3>1. CASE i \in 1..Len(eventQueue)
      BY <2>1, <3>1 DEF RecordingInv, BatchOfOneRecording
    <3>2. CASE i = Len(eventQueue) + 1
      BY <1>7, <2>1, <3>2
    <3> QED BY <2>1, <3>1, <3>2
  <2>3. BatchOfOneRecording'
    BY <1>1, <1>2, <1>7, <2>2 DEF BatchOfOneRecording
  <2> QED BY <1>5, <1>6, <2>3 DEF RecordingInv
<1> QED BY <1>9, <1>10, <1>11

LEMMA RecordingStep ==
  ASSUME Reentrant = FALSE, TypeOK, RecordingInv, [Next]_vars
  PROVE  RecordingInv'
<1>1. ASSUME NEW u \in Uuids, NEW c \in Clients \cup {NoValue}, NEW P \in SUBSET Slots,
             NEW R, StartProfiling(u, c, P, R)
      PROVE  RecordingInv'
  <2>1. stack = <<>> /\ UNCHANGED stack /\ eventQueue' = <<>> /\ callDepth' = 0
    BY <1>1 DEF StartProfiling, DiscardOld, HandlersMayRun
  <2>2. sessionId' = sessionId + 1 /\ clientSession' = c /\ targetUuid' = u
    BY <1>1 DEF StartProfiling
  <2>3. made' = made \cup {Wrap(Restored(R), c)[m] : m \in P}
    BY <1>1 DEF StartProfiling
  <2>4. u # NoValue /\ sessionId \in Nat /\ \A w \in made : w.sess \in Nat
    BY ConstantsAssumption DEF TypeOK, ProfilerTypes, CallTypes, Wrapper
  <2>5. ASSUME NEW w \in made', w \notin made PROVE w.sess = sessionId + 1 /\ w.client = c
    <3>1. PICK m \in P : w = Wrap(Restored(R), c)[m]
      BY <2>3, <2>5
    <3> QED BY <3>1, RestoredType, WrapType
  <2>6. WrapperInv'
    BY <2>2, <2>4, <2>5 DEF RecordingInv, WrapperInv
  <2> QED BY <2>1, <2>6, BetweenCalls
<1>2. ASSUME NEW u \in Uuids, NEW c \in Clients \cup {NoValue}, NEW P \in SUBSET Slots,
             NEW R, NEW S, StartRollsBack(u, c, P, R, S)
      PROVE  RecordingInv'
  <2>1. /\ stack = <<>> /\ UNCHANGED stack /\ eventQueue' = <<>> /\ running' = FALSE
        /\ sessionId' = sessionId + 1 /\ S \in SUBSET Slots
    BY <1>2 DEF StartRollsBack, DiscardOld, HandlersMayRun
  <2>2. sessionId \in Nat /\ \A w \in made : w.sess \in Nat
    BY DEF TypeOK, ProfilerTypes, CallTypes, Wrapper
  <2>3. made' = made \cup {Wrap(Restored(R), c)[m] : m \in S}
    BY <1>2 DEF StartRollsBack
  <2>4. ASSUME NEW w \in made', w \notin made PROVE w.sess = sessionId + 1 /\ w.client = c
    <3>1. PICK m \in S : w = Wrap(Restored(R), c)[m]
      BY <2>3, <2>4
    <3> QED BY <2>1, <3>1, RestoredType, WrapType
  <2>5. WrapperInv'
    BY <2>1, <2>2, <2>4 DEF RecordingInv, WrapperInv
  <2> QED BY <2>1, <2>5, BetweenCalls
<1>3. ASSUME NEW R, StartFindsNothing(R) \/ StopProfiling(R) PROVE RecordingInv'
  <2>1. /\ stack = <<>> /\ UNCHANGED stack /\ eventQueue' = <<>> /\ running' = FALSE
        /\ UNCHANGED made /\ UNCHANGED sessionId
    BY <1>3 DEF StartFindsNothing, StopProfiling, DiscardOld, HandlersMayRun
  <2>2. WrapperInv'
    BY <2>1 DEF RecordingInv, WrapperInv
  <2> QED BY <2>1, <2>2, BetweenCalls
<1>4. ASSUME FlushTimer PROVE RecordingInv'
  <2>1. /\ stack = <<>> /\ UNCHANGED stack /\ eventQueue' = <<>>
        /\ UNCHANGED profilerVars /\ UNCHANGED made
    BY <1>4 DEF FlushTimer, EmitBatch, HandlersMayRun
  <2>2. WrapperInv' /\ (running' => callDepth' = 0)
    BY <2>1 DEF RecordingInv, CallInv, WrapperInv, profilerVars
  <2> QED BY <2>1, <2>2, BetweenCalls
<1>5. ASSUME UNCHANGED <<profilerVars, queueVars, stack, made>> PROVE RecordingInv'
  BY <1>5 DEF profilerVars, queueVars, RecordingInv, CallInv, WrapperInv, BatchOfOneRecording
<1>6. CASE ExtensionStep
  BY <1>5, <1>6 DEF ExtensionStep, ExtensionReplaces, ExtensionDeletes, ExtensionReinstalls,
    PrototypeChanges, ExtensionLocks
<1>7. CASE UNCHANGED vars
  BY <1>5, <1>7 DEF vars
<1> QED
  BY <1>1, <1>2, <1>3, <1>4, <1>6, <1>7, CallKeepsRecording, ReturnKeepsRecording
  DEF Next, ProfilerStep, CallStep, Return

LEMMA RecordingInvariant ==
  ASSUME Reentrant = FALSE
  PROVE  Spec => []RecordingInv
<1>1. TypeOK /\ RecordingInv /\ [Next]_vars => RecordingInv'
  BY RecordingStep
<1> QED BY <1>1, RecordingInit, TypeInit, TypeStep, PTL DEF Spec

\* As long as handlers run between calls, no batch ever mixes two recordings, and
\* none survives the recording it was filled in.
THEOREM AlwaysOneRecording ==
  ASSUME Reentrant = FALSE
  PROVE  Spec => []BatchOfOneRecording
<1>1. RecordingInv => BatchOfOneRecording
  BY DEF RecordingInv
<1> QED BY <1>1, RecordingInvariant, PTL

\* As long as handlers run between calls, the recorded depth is the true nesting.
THEOREM AlwaysNested ==
  ASSUME Reentrant = FALSE
  PROVE  Spec => []DepthIsNesting
<1>1. RecordingInv => DepthIsNesting
  BY DEF RecordingInv, CallInv, DepthIsNesting
<1> QED BY <1>1, RecordingInvariant, PTL

-----------------------------------------------------------------------------
(* The profiler implements the recorder *)

\* Adding an event at the end of the queue adds it at the end of the log.
LEMMA LogAppend ==
  ASSUME NEW S, NEW s \in Seq(S), NEW q \in Seq(S), NEW e \in S
  PROVE  /\ Len(s \o Append(q, e)) = Len(s \o q) + 1
         /\ SubSeq(s \o Append(q, e), 1, Len(s \o q)) = s \o q
<1> DEFINE l == s \o q
           k == s \o Append(q, e)
<1>1. Append(q, e) \in Seq(S)
  BY AppendProperties
<1>2. /\ l \in Seq(S) /\ k \in Seq(S)
      /\ Len(s) \in Nat /\ Len(q) \in Nat
      /\ Len(l) = Len(s) + Len(q) /\ Len(k) = Len(s) + Len(q) + 1
  BY <1>1, ConcatProperties, AppendProperties, LenProperties
<1>3. \A i \in 1..Len(l) : k[i] = l[i]
  <2> SUFFICES ASSUME NEW i \in 1..Len(l) PROVE k[i] = l[i]
    OBVIOUS
  <2>1. l[i] = IF i <= Len(s) THEN s[i] ELSE q[i - Len(s)]
    BY <1>2, ConcatProperties
  <2>2. Len(Append(q, e)) = Len(q) + 1 /\ \A j \in 1..Len(q) : Append(q, e)[j] = q[j]
    BY AppendProperties
  <2>3. k[i] = IF i <= Len(s) THEN s[i] ELSE Append(q, e)[i - Len(s)]
    BY <1>1, <1>2, <2>2, ConcatProperties
  <2> QED BY <1>2, <2>1, <2>2, <2>3
<1> HIDE DEF l, k
<1>4. /\ SubSeq(k, 1, Len(l)) \in Seq(S)
      /\ Len(SubSeq(k, 1, Len(l))) = Len(l)
      /\ \A i \in 1..Len(l) : SubSeq(k, 1, Len(l))[i] = k[i]
  <2>1. Len(l) \in Nat /\ \A i \in 1..Len(l) : k[i] \in S
    BY <1>2, ElementOfSeq
  <2> QED BY <2>1, SubSeqProperties
<1>5. SubSeq(k, 1, Len(l)) = l
  BY <1>2, <1>3, <1>4, SeqEqual
<1> QED BY <1>2, <1>5 DEF l, k

\* Every step of the profiler is a step of the recorder, or changes nothing it shows.
LEMMA RecorderStep ==
  ASSUME Reentrant = FALSE, TypeOK, FlushArmed, IdleInv, RecordingInv, [Next]_vars
  PROVE  [Recording!Next]_(Recording!vars)
<1> DEFINE log == sent \o eventQueue
<1>0. \A s \in Seq(Event) : s \o <<>> = s
  BY ConcatEmptySeq
<1>1. /\ sent \in Seq(Event) /\ eventQueue \in Seq(Event) /\ log \in Seq(Event)
      /\ <<>> \o <<>> = <<>>
  BY <1>0, ConcatProperties DEF TypeOK, QueueTypes
<1>2. ASSUME DiscardOld, running' \in BOOLEAN PROVE Recording!Next
  BY <1>1, <1>2 DEF DiscardOld, Recording!Next, Recording!Abandon
<1>3. ASSUME NEW R, StopProfiling(R) PROVE Recording!Next
  <2>1. running
    BY <1>3 DEF StopProfiling, HasOldRecording, FlushArmed, IdleInv, RecordingInv, BatchOfOneRecording,
      TypeOK, FlagTypes
  <2>2. sent' = log /\ log' = log /\ running' = FALSE
    BY <1>0, <1>1, <1>3 DEF StopProfiling
  <2> QED BY <2>1, <2>2 DEF Recording!Next, Recording!Stop
<1>4. ASSUME FlushTimer PROVE Recording!Next
  <2>1. eventQueue # <<>> /\ Len(eventQueue) \in Nat \ {0}
    BY <1>1, <1>4, EmptySeq DEF FlushTimer, FlushArmed
  <2>2. running
    BY <2>1 DEF RecordingInv, BatchOfOneRecording
  <2>3. sent' = log /\ log' = log /\ UNCHANGED running
    BY <1>0, <1>1, <1>4 DEF FlushTimer, EmitBatch, profilerVars
  <2> QED BY <2>2, <2>3 DEF Recording!Next, Recording!Deliver
<1>5. ASSUME Return PROVE Recording!Next
  <2> DEFINE e == ReturnedEvent
  <2>1. running /\ UNCHANGED running /\ e \in Event
    BY <1>5, ReturnedEventType DEF Return, ReturnFillsBatch, ReturnQueues, ReturnCannotArm, LeaveCall,
      RecordingInv, CallInv
  <2>2. \/ sent' = sent \o Append(eventQueue, e) /\ eventQueue' = <<>>
        \/ sent' = sent /\ eventQueue' = Append(eventQueue, e)
    BY <1>5 DEF Return, ReturnFillsBatch, ReturnQueues, ReturnCannotArm, EmitBatch
  <2> HIDE DEF e
  <2>3. sent \o Append(eventQueue, e) \in Seq(Event)
    BY <1>1, <2>1, AppendProperties, ConcatProperties
  <2>4. log' = sent \o Append(eventQueue, e) /\ sent' \in {sent, log'}
    BY <1>0, <2>2, <2>3
  <2>5. Len(log') = Len(log) + 1 /\ SubSeq(log', 1, Len(log)) = log
    BY <1>1, <2>1, <2>4, LogAppend
  <2> QED BY <2>1, <2>4, <2>5 DEF Recording!Next, Recording!Complete
<1>6. ASSUME UNCHANGED <<running, sent, eventQueue>> PROVE UNCHANGED Recording!vars
  BY <1>6 DEF Recording!vars
<1>7. CASE ProfilerStep
  BY <1>2, <1>3, <1>4, <1>7, ProfilerCases
<1>8. CASE CallStep
  BY <1>5, <1>6, <1>8 DEF CallStep, Call, Return, queueVars
<1>9. CASE ExtensionStep
  BY <1>6, <1>9 DEF ExtensionStep, ExtensionReplaces, ExtensionDeletes, ExtensionReinstalls,
    PrototypeChanges, ExtensionLocks, profilerVars, queueVars
<1>10. CASE UNCHANGED vars
  BY <1>6, <1>10 DEF vars, profilerVars, queueVars
<1> QED BY <1>7, <1>8, <1>9, <1>10 DEF Next

\* As long as handlers run between calls, what the app is sent is, in order, once each
\* and without gaps, the calls completed in the current recording, and all of them
\* when it stops: the safety part of the recorder.
THEOREM ImplementsRecorder ==
  ASSUME Reentrant = FALSE
  PROVE  Spec => Recording!Init /\ [][Recording!Next]_(Recording!vars)
<1>1. Init => Recording!Init
  BY ConcatEmptySeq DEF Init, Recording!Init
<1>2. Init => FlushArmed /\ IdleInv
  BY ConstantsAssumption DEF Init, FlushArmed, IdleInv
<1>3. TypeOK /\ FlushArmed /\ RestoreInv /\ RecordingInv /\ [Next]_vars
      => [Recording!Next]_(Recording!vars)
  BY RecorderStep DEF RestoreInv
<1>4. TypeOK /\ RecordingInv /\ [Next]_vars => RecordingInv'
  BY RecordingStep
<1> QED BY <1>1, <1>2, <1>3, <1>4, RestoreInit, RestoreStep, FlushStep, RecordingInit, TypeInit,
  TypeStep, PTL DEF Spec
-----------------------------------------------------------------------------
(* The scan.  Its loops are recursive functions.  The library's theorems on induction take an      *)
(* operator, so induction over the natural numbers is taken from the well-foundedness of the       *)
(* subset order on finite sets.                                                                    *)

LEMMA LeastNumber ==
  ASSUME NEW T \in SUBSET Nat, T # {}
  PROVE  \E n \in T : \A m \in T : n <= m
<1> DEFINE Starts == {0..n : n \in T}
<1>1. \A n \in T : 0..n \in FiniteSubsetsOf(Nat)
  BY FS_Interval DEF FiniteSubsetsOf
<1>2. Starts \subseteq FiniteSubsetsOf(Nat) /\ Starts # {}
  BY <1>1
<1>3. PICK x \in Starts : \A y \in Starts : ~(<<y, x>> \in StrictSubsetOrdering(Nat))
  BY <1>2, FS_StrictSubsetOrderingWellFounded, WFMin
<1>4. PICK n \in T : x = 0..n
  OBVIOUS
<1>5. ASSUME NEW m \in T, ~(n <= m)
      PROVE  FALSE
  <2>1. 0..m \in Starts /\ 0..m \subseteq 0..n /\ n \in 0..n /\ n \notin 0..m
    BY <1>5
  <2>2. <<0..m, 0..n>> \in StrictSubsetOrdering(Nat)
    BY <2>1 DEF StrictSubsetOrdering
  <2> QED BY <1>3, <1>4, <2>1, <2>2
<1> QED BY <1>5

LEMMA Induction ==
  ASSUME NEW T, 0 \in T, \A n \in Nat : n \in T => n + 1 \in T
  PROVE  \A n \in Nat : n \in T
<1> SUFFICES ASSUME Nat \ T # {} PROVE FALSE
  OBVIOUS
<1>1. PICK n \in Nat \ T : \A m \in Nat \ T : n <= m
  BY LeastNumber
<1>2. n # 0 /\ n - 1 \in Nat /\ (n - 1) + 1 = n /\ ~(n <= n - 1)
  BY <1>1
<1>3. n - 1 \in T
  BY <1>1, <1>2
<1> QED BY <1>1, <1>2, <1>3

LEMMA UpTo ==
  ASSUME NEW n \in Nat, NEW T, 0 \in T, \A i \in 1..n : i - 1 \in T => i \in T
  PROVE  \A i \in 0..n : i \in T
<1>1. PICK U : U = {i \in Nat : i <= n => i \in T}
  OBVIOUS
<1>2. 0 \in U
  BY <1>1
<1>3. ASSUME NEW i \in Nat, i \in U PROVE i + 1 \in U
  <2>1. i + 1 <= n => i + 1 \in 1..n /\ i \in T /\ (i + 1) - 1 = i
    BY <1>1, <1>3
  <2>2. i + 1 <= n => i + 1 \in T
    BY <2>1
  <2> QED BY <1>1, <2>2
<1>4. \A i \in Nat : i \in U
  BY <1>2, <1>3, Induction
<1> QED BY <1>1, <1>4

\* A loop of n turns from first.
Loop(f, first, n, Step) ==
  f = [i \in 0..n |-> IF i = 0 THEN first ELSE Step[i][f[i - 1]]]

Follows(f, first, n, Step) == f[0] = first /\ \A i \in 1..n : f[i] = Step[i][f[i - 1]]

LEMMA LoopTurns ==
  ASSUME NEW f, NEW first, NEW n \in Nat, NEW Step, Loop(f, first, n, Step)
  PROVE  Follows(f, first, n, Step)
<1>1. PICK g : g = f
  OBVIOUS
<1>2. f = [i \in 0..n |-> IF i = 0 THEN first ELSE Step[i][g[i - 1]]]
  BY <1>1 DEF Loop
<1>3. 0 \in 0..n
  OBVIOUS
<1>4. f[0] = first
  BY <1>2, <1>3
<1>5. ASSUME NEW i \in 1..n PROVE f[i] = Step[i][f[i - 1]]
  <2>1. i \in 0..n /\ i # 0
    OBVIOUS
  <2>2. f[i] = Step[i][g[i - 1]]
    BY <1>2, <2>1
  <2> QED BY <1>1, <2>2
<1> QED BY <1>4, <1>5 DEF Follows

LEMMA LoopExists ==
  ASSUME NEW first, NEW Step
  PROVE  \A n \in Nat : \E f : Loop(f, first, n, Step)
<1> DEFINE T == {n \in Nat : \E f : Loop(f, first, n, Step)}
<1>1. 0 \in T
  <2>1. PICK f : f = [i \in 0..0 |-> first]
    OBVIOUS
  <2>2. Loop(f, first, 0, Step)
    BY <2>1 DEF Loop
  <2> QED BY <2>2
<1>2. ASSUME NEW n \in Nat, n \in T
      PROVE  n + 1 \in T
  <2>1. PICK f : Loop(f, first, n, Step)
    BY <1>2
  <2>8. f[0] = first /\ \A i \in 1..n : f[i] = Step[i][f[i - 1]]
    <3>1. Follows(f, first, n, Step)
      BY <2>1, LoopTurns
    <3> QED BY <3>1 DEF Follows
  <2>2. PICK next : next = Step[n + 1][f[n]]
    OBVIOUS
  <2>3. PICK g : g = [i \in 0..(n + 1) |-> IF i = n + 1 THEN next ELSE f[i]]
    OBVIOUS
  <2>4. g[n + 1] = next /\ \A i \in 0..n : g[i] = f[i]
    BY <2>3
  <2>5. ASSUME NEW i \in 0..(n + 1)
        PROVE  g[i] = IF i = 0 THEN first ELSE Step[i][g[i - 1]]
    <3>1. CASE i = 0
      BY <2>4, <2>8, <3>1
    <3>2. CASE i \in 1..n
      <4>1. i - 1 \in 0..n /\ i \in 0..n /\ i # 0
        BY <3>2
      <4>2. g[i] = f[i] /\ g[i - 1] = f[i - 1] /\ f[i] = Step[i][f[i - 1]]
        BY <2>4, <2>8, <3>2, <4>1
      <4> QED BY <4>1, <4>2
    <3>3. CASE i = n + 1
      <4>1. i - 1 = n /\ n \in 0..n /\ i # 0
        BY <3>3
      <4> QED BY <2>2, <2>4, <3>3, <4>1
    <3> QED BY <3>1, <3>2, <3>3
  <2>6. g = [i \in 0..(n + 1) |-> g[i]]
    BY <2>3
  <2>7. Loop(g, first, n + 1, Step)
    BY <2>5, <2>6 DEF Loop
  <2> QED BY <2>7
<1>3. PICK K : K = T
  OBVIOUS
<1>4. \A n \in Nat : n \in K
  <2>1. 0 \in K /\ \A n \in Nat : n \in K => n + 1 \in K
    BY <1>1, <1>2, <1>3
  <2> QED BY <2>1, Induction
<1> QED BY <1>3, <1>4

LEMMA LoopType ==
  ASSUME NEW S, NEW first \in S, NEW n \in Nat, NEW Step \in [1..n -> [S -> S]],
         NEW f, Loop(f, first, n, Step)
  PROVE  f \in [0..n -> S]
<1>0. PICK g : g = f
  OBVIOUS
<1>1. f = [i \in 0..n |-> IF i = 0 THEN first ELSE Step[i][g[i - 1]]]
  BY <1>0 DEF Loop
<1>2. PICK T : T = {i \in 0..n : f[i] \in S}
  OBVIOUS
<1>3. 0 \in T
  <2>1. 0 \in 0..n
    OBVIOUS
  <2>2. f[0] = first
    BY <1>1, <2>1
  <2> QED BY <1>2, <2>1, <2>2
<1>4. ASSUME NEW i \in 1..n, i - 1 \in T PROVE i \in T
  <2>1. f[i - 1] \in S /\ i \in 0..n
    BY <1>2, <1>4
  <2>2. Step[i] \in [S -> S]
    OBVIOUS
  <2>3. i # 0 /\ f[i] = Step[i][g[i - 1]]
    BY <1>1, <2>1
  <2>4. f[i] \in S
    BY <1>0, <2>1, <2>2, <2>3
  <2> QED BY <1>2, <2>1, <2>4
<1>5. \A i \in 0..n : i \in T
  BY <1>3, <1>4, UpTo
<1>6. \A i \in 0..n : f[i] \in S
  BY <1>2, <1>5
<1>7. f = [i \in 0..n |-> f[i]]
  BY DEF Loop
<1> QED BY <1>6, <1>7

-----------------------------------------------------------------------------
(* Prototypes *)

LEMMA ObjectsFinite == Cardinality(Objects) \in Nat /\ Cardinality(Objects) # 0
<1>1. IsFiniteSet(Objects) /\ Objects # {}
  BY DiscoveryAssumption
<1> QED BY <1>1, FS_CardinalityType, FS_EmptySet

LEMMA NodeType ==
  ASSUME NEW node \in Nodes
  PROVE  /\ node.kind \in Kinds /\ node.sealed \in BOOLEAN /\ node.listed \in BOOLEAN
         /\ node.proto \in Objects \cup {NoObject}
         /\ node.own \in Seq(Properties) /\ Len(node.own) \in Nat
         /\ DOMAIN node.own = 1..Len(node.own)
         /\ \A i \in 1..Len(node.own) : node.own[i] \in Properties
         /\ \A i, j \in 1..Len(node.own) : node.own[i].name = node.own[j].name => i = j
         /\ node.entries \in Seq(Objects \cup {NoObject}) /\ Len(node.entries) \in Nat
         /\ DOMAIN node.entries = 1..Len(node.entries)
         /\ \A i \in 1..Len(node.entries) : node.entries[i] \in Objects \cup {NoObject}
<1>1. /\ node \in [kind : Kinds, own : Seq(Properties), entries : Seq(Objects \cup {NoObject}),
                   proto : Objects \cup {NoObject}, sealed : BOOLEAN, listed : BOOLEAN]
      /\ \A i, j \in DOMAIN node.own : node.own[i].name = node.own[j].name => i = j
  BY DEF Nodes
<1>2. PICK props, entries : props = node.own /\ entries = node.entries
  OBVIOUS
<1>3. props \in Seq(Properties) /\ entries \in Seq(Objects \cup {NoObject})
  BY <1>1, <1>2
<1>4. Len(props) \in Nat /\ DOMAIN props = 1..Len(props)
      /\ \A i \in 1..Len(props) : props[i] \in Properties
  BY <1>3, LenProperties, ElementOfSeq
<1>5. Len(entries) \in Nat /\ DOMAIN entries = 1..Len(entries)
      /\ \A i \in 1..Len(entries) : entries[i] \in Objects \cup {NoObject}
  BY <1>3, LenProperties, ElementOfSeq
<1> QED BY <1>1, <1>2, <1>3, <1>4, <1>5

\* One step up the prototypes.
Up(g, chain) ==
  IF g[Last(chain)].proto = NoObject THEN chain ELSE Append(chain, g[Last(chain)].proto)

LEMMA UpType ==
  ASSUME NEW g \in [Objects -> Nodes], NEW chain \in Seq(Objects), chain # <<>>
  PROVE  /\ Last(chain) \in Objects
         /\ Up(g, chain) \in Seq(Objects) /\ Up(g, chain) # <<>> /\ Up(g, chain)[1] = chain[1]
<1>1. PICK n \in Nat \ {0} : n = Len(chain)
  BY EmptySeq, LenProperties
<1>2. chain[n] \in Objects /\ n \in 1..Len(chain)
  BY <1>1, ElementOfSeq
<1>3. Last(chain) \in Objects
  BY <1>1, <1>2 DEF Last
<1>4. CASE g[Last(chain)].proto = NoObject
  BY <1>3, <1>4 DEF Up
<1>5. CASE g[Last(chain)].proto # NoObject
  <2>1. PICK p \in Objects : p = g[Last(chain)].proto
    BY <1>3, <1>5, NodeType
  <2>2. Up(g, chain) = Append(chain, p)
    BY <1>5, <2>1 DEF Up
  <2>3. Append(chain, p) \in Seq(Objects) /\ Append(chain, p) # <<>> /\ Append(chain, p)[1] = chain[1]
    BY <1>1, AppendProperties
  <2> QED BY <1>3, <2>2, <2>3
<1> QED BY <1>4, <1>5

Climbs(f, g, o, c) ==
  /\ Chain(g, o) = f[c] /\ f[0] = <<o>>
  /\ \A i \in 1..c : f[i] = Up(g, f[i - 1])
  /\ \A i \in 0..c : f[i] \in Seq(Objects) /\ f[i] # <<>> /\ f[i][1] = o

LEMMA ChainLoop ==
  ASSUME NEW g \in [Objects -> Nodes], NEW o \in Objects, NEW c \in Nat, c = Cardinality(Objects)
  PROVE  \E f : Climbs(f, g, o, c)
<1>2. PICK S : S = {chain \in Seq(Objects) : chain # <<>> /\ chain[1] = o}
  OBVIOUS
<1>3. <<o>> \in S
  BY <1>2, EmptySeq
<1>4. \A x \in S : Up(g, x) \in S
  BY <1>2, UpType
<1>5. PICK Step : Step = [i \in 1..c |-> [x \in S |-> Up(g, x)]]
  OBVIOUS
<1>6. Step \in [1..c -> [S -> S]]
  BY <1>4, <1>5
<1>7. PICK h : Loop(h, <<o>>, c, Step)
  BY LoopExists
<1>8. h \in [0..c -> S]
  BY <1>3, <1>6, <1>7, LoopType
<1>9. h[0] = <<o>> /\ \A i \in 1..c : h[i] = Step[i][h[i - 1]]
  <2>1. Follows(h, <<o>>, c, Step)
    BY <1>7, LoopTurns
  <2> QED BY <2>1 DEF Follows
<1>10. \A i \in 1..c : h[i] = Up(g, h[i - 1])
  <2> SUFFICES ASSUME NEW i \in 1..c PROVE h[i] = Up(g, h[i - 1])
    OBVIOUS
  <2>1. h[i - 1] \in S
    BY <1>8
  <2> QED BY <1>5, <1>9, <2>1
<1>11. h = [n \in 0..c |-> IF n = 0 THEN <<o>>
                          ELSE IF g[Last(h[n - 1])].proto = NoObject THEN h[n - 1]
                          ELSE Append(h[n - 1], g[Last(h[n - 1])].proto)]
  <2>1. h = [n \in 0..c |-> h[n]]
    BY <1>8
  <2>2. ASSUME NEW n \in 0..c
        PROVE  h[n] = IF n = 0 THEN <<o>>
                      ELSE IF g[Last(h[n - 1])].proto = NoObject THEN h[n - 1]
                      ELSE Append(h[n - 1], g[Last(h[n - 1])].proto)
    <3>1. CASE n = 0
      BY <1>9, <3>1
    <3>2. CASE n # 0
      <4>1. n \in 1..c
        BY <3>2
      <4> QED BY <1>10, <3>2, <4>1 DEF Up
    <3> QED BY <3>1, <3>2
  <2> QED BY <2>1, <2>2
<1> DEFINE f == CHOOSE up : up = [n \in 0..c |-> IF n = 0 THEN <<o>>
                          ELSE IF g[Last(up[n - 1])].proto = NoObject THEN up[n - 1]
                          ELSE Append(up[n - 1], g[Last(up[n - 1])].proto)]
<1>12. Chain(g, o) = f[c]
  BY DEF Chain
<1>13. PICK k : k = f
  BY Zenon
<1>14. k = [n \in 0..c |-> IF n = 0 THEN <<o>>
                          ELSE IF g[Last(k[n - 1])].proto = NoObject THEN k[n - 1]
                          ELSE Append(k[n - 1], g[Last(k[n - 1])].proto)]
  BY <1>11, <1>13, Zenon
<1> HIDE DEF f
<1>15. k[0] = <<o>> /\ \A n \in 1..c : k[n] = Up(g, k[n - 1])
  <2>1. 0 \in 0..c /\ \A n \in 1..c : n \in 0..c /\ n # 0
    OBVIOUS
  <2>2. k[0] = <<o>>
    BY <1>14, <2>1
  <2>3. ASSUME NEW n \in 1..c PROVE k[n] = Up(g, k[n - 1])
    BY <1>14, <2>1 DEF Up
  <2> QED BY <2>2, <2>3
<1>16. PICK T : T = {i \in 0..c : k[i] \in S}
  OBVIOUS
<1>17. 0 \in T
  BY <1>3, <1>15, <1>16
<1>18. ASSUME NEW i \in 1..c, i - 1 \in T PROVE i \in T
  <2>1. k[i - 1] \in S /\ k[i] = Up(g, k[i - 1])
    BY <1>15, <1>16, <1>18
  <2> QED BY <1>4, <1>16, <2>1
<1>19. \A i \in 0..c : i \in T
  BY <1>17, <1>18, UpTo
<1>20. \A i \in 0..c : k[i] \in Seq(Objects) /\ k[i] # <<>> /\ k[i][1] = o
  BY <1>2, <1>16, <1>19
<1> QED BY <1>12, <1>13, <1>15, <1>20 DEF Climbs
LEMMA ChainAlike ==
  ASSUME NEW g \in [Objects -> Nodes], NEW h \in [Objects -> Nodes], NEW o \in Objects,
         \A x \in Objects : g[x].proto = h[x].proto
  PROVE  Chain(g, o) = Chain(h, o)
<1>1. PICK c \in Nat : c = Cardinality(Objects)
  BY ObjectsFinite
<1>0. PICK f : Climbs(f, g, o, c)
  BY <1>1, ChainLoop
<1>2. /\ Chain(g, o) = f[c] /\ f[0] = <<o>>
      /\ \A i \in 1..c : f[i] = Up(g, f[i - 1])
      /\ \A i \in 0..c : f[i] \in Seq(Objects) /\ f[i] # <<>> /\ f[i][1] = o
  BY <1>0 DEF Climbs
<1>9. PICK k : Climbs(k, h, o, c)
  BY <1>1, ChainLoop
<1>3. /\ Chain(h, o) = k[c] /\ k[0] = <<o>>
      /\ \A i \in 1..c : k[i] = Up(h, k[i - 1])
      /\ \A i \in 0..c : k[i] \in Seq(Objects) /\ k[i] # <<>> /\ k[i][1] = o
  BY <1>9 DEF Climbs
<1>4. PICK T : T = {i \in 0..c : f[i] = k[i]}
  OBVIOUS
<1>5. 0 \in T
  <2>1. 0 \in 0..c /\ f[0] = k[0]
    BY <1>2, <1>3
  <2> QED BY <1>4, <2>1
<1>6. ASSUME NEW i \in 1..c, i - 1 \in T PROVE i \in T
  <2>1. i - 1 \in 0..c /\ i \in 0..c /\ f[i - 1] = k[i - 1]
    BY <1>4, <1>6
  <2>2. Last(f[i - 1]) \in Objects
    BY <1>2, <2>1, UpType
  <2>3. Up(g, f[i - 1]) = Up(h, f[i - 1])
    BY <2>2 DEF Up
  <2>4. f[i] = Up(g, f[i - 1]) /\ k[i] = Up(h, k[i - 1])
    BY <1>2, <1>3
  <2> QED BY <1>4, <2>1, <2>3, <2>4
<1>7. \A i \in 0..c : i \in T
  BY <1>5, <1>6, UpTo
<1>8. c \in T
  BY <1>7
<1> QED BY <1>2, <1>3, <1>4, <1>8

\* x is y with one more element in front.
Longer(x, y) == Len(x) = Len(y) + 1 /\ \A m \in 1..Len(y) : x[m + 1] = y[m]

LEMMA UpLonger ==
  ASSUME NEW g \in [Objects -> Nodes],
         NEW x \in Seq(Objects), NEW y \in Seq(Objects), y # <<>>, x # <<>>, Longer(x, y)
  PROVE  Last(x) = Last(y) /\ Longer(Up(g, x), Up(g, y))
<1>1. PICK n \in Nat \ {0} : n = Len(y)
  BY EmptySeq, LenProperties
<1>2. Len(x) = n + 1 /\ n \in 1..Len(y) /\ x[n + 1] = y[n]
  BY <1>1 DEF Longer
<1>3. Last(x) = Last(y) /\ Last(y) \in Objects
  BY <1>1, <1>2, UpType DEF Last
<1>4. CASE g[Last(y)].proto = NoObject
  BY <1>3, <1>4 DEF Up
<1>5. CASE g[Last(y)].proto # NoObject
  <2>1. PICK p \in Objects : p = g[Last(y)].proto
    BY <1>3, <1>5, NodeType
  <2>2. Up(g, x) = Append(x, p) /\ Up(g, y) = Append(y, p)
    BY <1>3, <1>5, <2>1 DEF Up
  <2>3. /\ Len(Append(x, p)) = n + 2 /\ Append(x, p)[n + 2] = p
        /\ \A m \in 1..n + 1 : Append(x, p)[m] = x[m]
    BY <1>2, AppendProperties
  <2>4. /\ Len(Append(y, p)) = n + 1 /\ Append(y, p)[n + 1] = p
        /\ \A m \in 1..n : Append(y, p)[m] = y[m]
    BY <1>1, AppendProperties
  <2>5. ASSUME NEW m \in 1..n + 1 PROVE Append(x, p)[m + 1] = Append(y, p)[m]
    <3>1. CASE m = n + 1
      BY <2>3, <2>4, <3>1
    <3>2. CASE m \in 1..n
      <4>1. x[m + 1] = y[m] /\ m + 1 \in 1..n + 1
        BY <1>1, <3>2 DEF Longer
      <4> QED BY <2>3, <2>4, <3>2, <4>1
    <3>3. m = n + 1 \/ m \in 1..n
      OBVIOUS
    <3> QED BY <3>1, <3>2, <3>3
  <2>6. Longer(Append(x, p), Append(y, p))
    BY <2>3, <2>4, <2>5 DEF Longer
  <2> QED BY <1>3, <2>2, <2>6
<1> QED BY <1>4, <1>5

LEMMA ChainNext ==
  ASSUME NEW g \in [Objects -> Nodes], NEW o \in Objects, g[Last(Chain(g, o))].proto = NoObject
  PROVE  /\ g[o].proto = NoObject => Chain(g, o) = <<o>>
         /\ g[o].proto # NoObject => Longer(Chain(g, o), Chain(g, g[o].proto))
<1>1. PICK c \in Nat : c = Cardinality(Objects) /\ c # 0
  BY ObjectsFinite
<1>0. PICK f : Climbs(f, g, o, c)
  BY <1>1, ChainLoop
<1>2. /\ Chain(g, o) = f[c] /\ f[0] = <<o>>
      /\ \A i \in 1..c : f[i] = Up(g, f[i - 1])
      /\ \A i \in 0..c : f[i] \in Seq(Objects) /\ f[i] # <<>> /\ f[i][1] = o
  BY <1>0 DEF Climbs
<1>3. Last(<<o>>) = o /\ Len(<<o>>) = 1 /\ <<o>>[1] = o
  BY DEF Last
<1>4. CASE g[o].proto = NoObject
  <2>1. PICK T : T = {i \in 0..c : f[i] = <<o>>}
    OBVIOUS
  <2>2. Up(g, <<o>>) = <<o>>
    BY <1>3, <1>4 DEF Up
  <2>3. 0 \in T
    BY <1>2, <2>1
  <2>4. ASSUME NEW i \in 1..c, i - 1 \in T PROVE i \in T
    <3>1. f[i - 1] = <<o>> /\ f[i] = Up(g, f[i - 1]) /\ i \in 0..c
      BY <1>2, <2>1, <2>4
    <3> QED BY <2>1, <2>2, <3>1
  <2>5. \A i \in 0..c : i \in T
    BY <2>3, <2>4, UpTo
  <2>6. c \in T
    BY <2>5
  <2> QED BY <1>2, <1>4, <2>1, <2>6
<1>5. CASE g[o].proto # NoObject
  <2>1. PICK p \in Objects : p = g[o].proto
    BY <1>5, NodeType
  <2>12. PICK h : Climbs(h, g, p, c)
    BY <1>1, <2>1, ChainLoop
  <2>2. /\ Chain(g, p) = h[c] /\ h[0] = <<p>>
        /\ \A i \in 1..c : h[i] = Up(g, h[i - 1])
        /\ \A i \in 0..c : h[i] \in Seq(Objects) /\ h[i] # <<>> /\ h[i][1] = p
    BY <2>12 DEF Climbs
  <2>3. PICK n \in Nat : n + 1 = c
    BY <1>1
  <2>4. PICK T : T = {i \in 0..n : Longer(f[i + 1], h[i])}
    OBVIOUS
  <2>5. 0 \in T
    <3>5. Up(g, <<o>>) = Append(<<o>>, p)
      BY <1>3, <1>5, <2>1 DEF Up
    <3>1. Up(g, <<o>>) = <<o, p>>
      BY <3>5
    <3>2. 1 \in 1..c /\ f[1] = Up(g, f[0])
      <4>1. 1 \in 1..c /\ 1 - 1 = 0
        BY <2>3
      <4> QED BY <1>2, <4>1
    <3>3. f[1] = <<o, p>>
      BY <1>2, <3>1, <3>2
    <3>4. Longer(<<o, p>>, <<p>>)
      BY DEF Longer
    <3>6. 0 \in 0..n /\ 0 + 1 = 1 /\ Longer(f[1], h[0])
      BY <2>2, <3>3, <3>4
    <3> QED BY <2>4, <3>6
  <2>6. ASSUME NEW i \in 1..n, i - 1 \in T PROVE i \in T
    <3>1. Longer(f[i], h[i - 1]) /\ i - 1 \in 0..n /\ i \in 0..n
      BY <2>4, <2>6
    <3>2. i \in 0..c /\ i - 1 \in 0..c /\ i + 1 \in 1..c /\ i \in 1..c
      BY <2>3
    <3>3. PICK x \in Seq(Objects), y \in Seq(Objects) : x = f[i] /\ y = h[i - 1] /\ x # <<>> /\ y # <<>>
      BY <1>2, <2>2, <3>2
    <3>4. Longer(Up(g, x), Up(g, y))
      BY <3>1, <3>3, UpLonger
    <3>5. f[i + 1] = Up(g, x) /\ h[i] = Up(g, y)
      BY <1>2, <2>2, <3>2, <3>3
    <3> QED BY <2>4, <3>1, <3>4, <3>5
  <2>7. \A i \in 0..n : i \in T
    BY <2>5, <2>6, UpTo
  <2>8. Longer(f[c], h[n])
    BY <2>3, <2>4, <2>7
  <2>9. c \in 0..c /\ n \in 0..c /\ c \in 1..c /\ c - 1 = n
    BY <2>3
  <2>10. Last(f[c]) = Last(h[n])
    BY <1>2, <2>2, <2>8, <2>9, UpLonger
  <2>11. h[c] = Up(g, h[n]) /\ Up(g, h[n]) = h[n]
    BY <1>2, <2>2, <2>9, <2>10 DEF Up
  <2> QED BY <1>2, <1>5, <2>1, <2>2, <2>8, <2>11
<1> QED BY <1>4, <1>5

\* The prototypes of a prototype are the rest of the chain.
IsChain(g, o, chain) ==
  /\ chain \in Seq(Objects) /\ Len(chain) \in Nat \ {0} /\ DOMAIN chain = 1..Len(chain)
  /\ \A k \in 1..Len(chain) : chain[k] \in Objects
  /\ chain[1] = o
  /\ \A k \in 1..Len(chain) :
       /\ Len(Chain(g, chain[k])) = Len(chain) - (k - 1)
       /\ \A m \in 1..Len(chain) - (k - 1) : Chain(g, chain[k])[m] = chain[k - 1 + m]

LEMMA ChainTail ==
  ASSUME NEW g \in [Objects -> Nodes], NEW o \in Objects,
         \A x \in Objects : g[Last(Chain(g, x))].proto = NoObject,
         NEW chain, chain = Chain(g, o)
  PROVE  IsChain(g, o, chain)
<1>1. \A x \in Objects : /\ Chain(g, x) \in Seq(Objects) /\ Chain(g, x) # <<>> /\ Chain(g, x)[1] = x
  <2> SUFFICES ASSUME NEW x \in Objects
               PROVE  Chain(g, x) \in Seq(Objects) /\ Chain(g, x) # <<>> /\ Chain(g, x)[1] = x
    OBVIOUS
  <2>1. PICK c \in Nat : c = Cardinality(Objects)
    BY ObjectsFinite
  <2>4. PICK f : Climbs(f, g, x, c)
    BY <2>1, ChainLoop
  <2>2. Chain(g, x) = f[c] /\ \A i \in 0..c : f[i] \in Seq(Objects) /\ f[i] # <<>> /\ f[i][1] = x
    BY <2>4 DEF Climbs
  <2>3. c \in 0..c
    OBVIOUS
  <2> QED BY <2>2, <2>3
<1>2. PICK n \in Nat : n + 1 = Len(chain)
  <2>1. chain \in Seq(Objects) /\ chain # <<>>
    BY <1>1
  <2>2. PICK m \in Nat \ {0} : m = Len(chain)
    BY <2>1, EmptySeq, LenProperties
  <2>3. m - 1 \in Nat /\ (m - 1) + 1 = m
    OBVIOUS
  <2> QED BY <2>2, <2>3
<1>3. chain \in Seq(Objects) /\ DOMAIN chain = 1..n + 1 /\ chain[1] = o
      /\ \A k \in 1..n + 1 : chain[k] \in Objects
  BY <1>1, <1>2, LenProperties, ElementOfSeq
<1> DEFINE Rest(k, x) == /\ Len(x) = n + 1 - (k - 1)
                         /\ \A m \in 1..n + 1 - (k - 1) : x[m] = chain[k - 1 + m]
<1>4. PICK T : T = {i \in 0..n : Rest(i + 1, Chain(g, chain[i + 1]))}
  OBVIOUS
<1>5. 0 \in T
  <2>1. Len(chain) = n + 1 - ((0 + 1) - 1)
    BY <1>2
  <2>2. \A m \in 1..n + 1 - ((0 + 1) - 1) : chain[m] = chain[(0 + 1) - 1 + m]
    OBVIOUS
  <2>3. Chain(g, chain[0 + 1]) = chain
    BY <1>3
  <2>4. Rest(0 + 1, chain)
    BY <2>1, <2>2
  <2> HIDE DEF Rest
  <2> QED BY <1>4, <2>3, <2>4
<1>6. ASSUME NEW i \in 1..n, i - 1 \in T PROVE i \in T
  <2>1. PICK x \in Objects : x = chain[i]
    BY <1>3
  <2>2. PICK y : y = Chain(g, x)
    OBVIOUS
  <2>3. Rest(i, y)
    <3>1. Rest((i - 1) + 1, Chain(g, chain[(i - 1) + 1]))
      BY <1>4, <1>6
    <3>2. (i - 1) + 1 = i
      OBVIOUS
    <3> HIDE DEF Rest
    <3> QED BY <2>1, <2>2, <3>1, <3>2
  <2>4. PICK j \in Nat \ {0} : j = n - (i - 1) /\ Len(y) = j + 1 /\ n + 1 - ((i + 1) - 1) = j
    <3>1. n - (i - 1) \in Nat \ {0} /\ n + 1 - (i - 1) = (n - (i - 1)) + 1 /\ n + 1 - ((i + 1) - 1) = n - (i - 1)
      OBVIOUS
    <3> QED BY <2>3, <3>1
  <2>5. \A m \in 1..j + 1 : y[m] = chain[i - 1 + m]
    BY <2>3, <2>4
  <2>6. g[x].proto # NoObject
    <3> SUFFICES ASSUME g[x].proto = NoObject PROVE FALSE
      OBVIOUS
    <3>1. y = <<x>>
      BY <2>2, ChainNext
    <3> QED BY <2>4, <3>1
  <2>7. PICK p \in Objects : p = g[x].proto
    BY <2>6, NodeType
  <2>8. Longer(y, Chain(g, p))
    BY <2>2, <2>6, <2>7, ChainNext
  <2>9. PICK z : z = Chain(g, p) /\ z \in Seq(Objects) /\ z[1] = p
    BY <1>1
  <2>10. Len(z) = j
    <3>1. Len(z) \in Nat /\ Len(y) = Len(z) + 1
      BY <2>8, <2>9, LenProperties DEF Longer
    <3> QED BY <2>4, <3>1
  <2>11. \A m \in 1..j : z[m] = y[m + 1]
    BY <2>8, <2>9, <2>10 DEF Longer
  <2>12. \A m \in 1..j : z[m] = chain[(i + 1) - 1 + m]
    <3> SUFFICES ASSUME NEW m \in 1..j PROVE z[m] = chain[(i + 1) - 1 + m]
      OBVIOUS
    <3>1. m + 1 \in 1..j + 1 /\ i - 1 + (m + 1) = (i + 1) - 1 + m
      OBVIOUS
    <3> QED BY <2>5, <2>11, <3>1
  <2>13. p = chain[i + 1]
    <3>1. 1 \in 1..j /\ (i + 1) - 1 + 1 = i + 1
      BY <2>4
    <3> QED BY <2>9, <2>12, <3>1
  <2>14. Rest(i + 1, z)
    BY <2>4, <2>10, <2>12
  <2>15. i \in 0..n
    OBVIOUS
  <2> HIDE DEF Rest
  <2> QED BY <1>4, <2>9, <2>13, <2>14, <2>15
<1>7. \A i \in 0..n : i \in T
  BY <1>5, <1>6, UpTo
<1>8. \A k \in 1..n + 1 : Rest(k, Chain(g, chain[k]))
  <2> SUFFICES ASSUME NEW k \in 1..n + 1 PROVE Rest(k, Chain(g, chain[k]))
    OBVIOUS
  <2>1. k - 1 \in 0..n /\ (k - 1) + 1 = k
    OBVIOUS
  <2>2. Rest((k - 1) + 1, Chain(g, chain[(k - 1) + 1]))
    BY <1>4, <1>7, <2>1
  <2> HIDE DEF Rest
  <2> QED BY <2>1, <2>2
<1>9. n + 1 \in Nat \ {0}
  OBVIOUS
<1> HIDE DEF Rest
<1>10. PICK len : len = n + 1 /\ len = Len(chain)
  BY <1>2
<1> DEFINE Remains(k, n1) == /\ Len(Chain(g, chain[k])) = n1 - (k - 1)
                             /\ \A m \in 1..n1 - (k - 1) : Chain(g, chain[k])[m] = chain[k - 1 + m]
<1>11. \A k \in 1..n + 1 : Remains(k, n + 1)
  BY <1>8 DEF Rest
<1> HIDE DEF Remains
<1>12. \A k \in 1..len : Remains(k, len)
  BY <1>10, <1>11, Zenon
<1>13. \A k \in 1..Len(chain) : Remains(k, Len(chain))
  BY <1>10, <1>12, Zenon
<1> USE DEF Remains
<1> QED BY <1>3, <1>9, <1>10, <1>13, Zenon DEF IsChain
\* n is a property of the k-th object of o's chain, and of none before it.
Nearest(o, n, k) ==
  /\ k \in 1..Len(Chain(before, o)) /\ Has(before, Chain(before, o)[k], n)
  /\ \A j \in 1..k - 1 : ~Has(before, Chain(before, o)[j], n)

LEMMA BeforeChain ==
  ASSUME before \in Graphs, NEW o \in Objects, NEW chain, chain = Chain(before, o)
  PROVE  before \in [Objects -> Nodes] /\ IsChain(before, o, chain)
<1>1. before \in [Objects -> Nodes] /\ \A x \in Objects : before[Last(Chain(before, x))].proto = NoObject
  BY DiscoveryAssumption
<1> QED BY <1>1, ChainTail

LEMMA HasIs ==
  ASSUME NEW g \in [Objects -> Nodes], NEW x \in Objects, NEW n
  PROVE  Has(g, x, n) <=> \E i \in 1..Len(g[x].own) : g[x].own[i].name = n
<1>1. DOMAIN g[x].own = 1..Len(g[x].own)
  BY NodeType
<1> QED BY <1>1 DEF Has

LEMMA LeastOf ==
  ASSUME NEW S \in SUBSET Nat, NEW k \in S, \A j \in S : k <= j
  PROVE  Min(S) = k
<1>1. Min(S) \in S /\ \A j \in S : Min(S) <= j
  BY DEF Min
<1>2. PICK m \in Nat : m = Min(S)
  BY <1>1
<1>3. m <= k /\ k <= m
  BY <1>1, <1>2
<1> QED BY <1>2, <1>3

LEMMA SeenNearest ==
  ASSUME before \in Graphs, NEW o \in Objects, NEW n, NEW k, Nearest(o, n, k),
         NEW x, x = Chain(before, o)[k], NEW i \in 1..Len(before[x].own), before[x].own[i].name = n
  PROVE  Seen(o, n) = before[x].own[i]
<1>1. PICK chain : chain = Chain(before, o)
  OBVIOUS
<1>2. /\ before \in [Objects -> Nodes] /\ Len(chain) \in Nat \ {0}
      /\ DOMAIN chain = 1..Len(chain) /\ \A j \in 1..Len(chain) : chain[j] \in Objects
  BY <1>1, BeforeChain DEF IsChain
<1>3. /\ k \in 1..Len(chain) /\ x = chain[k] /\ Has(before, x, n)
      /\ \A j \in 1..k - 1 : ~Has(before, chain[j], n)
  BY <1>1 DEF Nearest
<1>4. PICK at : at = {j \in DOMAIN chain : Has(before, chain[j], n)}
  OBVIOUS
<1>5. Min(at) = k
  <2>1. at \subseteq Nat /\ k \in at
    BY <1>2, <1>3, <1>4
  <2>2. \A j \in at : k <= j
    <3> SUFFICES ASSUME NEW j \in at, ~(k <= j) PROVE FALSE
      OBVIOUS
    <3>1. j \in 1..k - 1
      BY <1>2, <1>3, <1>4
    <3> QED BY <1>3, <1>4, <3>1
  <2> QED BY <2>1, <2>2, LeastOf
<1>6. at # {}
  BY <1>2, <1>3, <1>4
<1>7. x \in Objects
  BY <1>2, <1>3
<1>8. PICK props : props = before[x].own
  OBVIOUS
<1>9. /\ DOMAIN props = 1..Len(props)
      /\ \A j, m \in 1..Len(props) : props[j].name = props[m].name => j = m
  BY <1>2, <1>7, <1>8, NodeType
<1>10. (CHOOSE j \in DOMAIN props : props[j].name = n) = i
  BY <1>8, <1>9
<1>11. Seen(o, n) = props[CHOOSE j \in DOMAIN props : props[j].name = n]
  BY <1>1, <1>3, <1>4, <1>5, <1>6, <1>8 DEF Seen
<1> QED BY <1>8, <1>10, <1>11

LEMMA SeenSomething ==
  ASSUME before \in Graphs, NEW o \in Objects, NEW n, Seen(o, n).kind = "function"
  PROVE  \E k \in 1..Len(Chain(before, o)) :
           /\ Nearest(o, n, k)
           /\ \E i \in 1..Len(before[Chain(before, o)[k]].own) :
                /\ before[Chain(before, o)[k]].own[i].name = n
                /\ before[Chain(before, o)[k]].own[i] = Seen(o, n)
<1>1. PICK chain : chain = Chain(before, o)
  OBVIOUS
<1>2. /\ before \in [Objects -> Nodes] /\ Len(chain) \in Nat \ {0}
      /\ DOMAIN chain = 1..Len(chain) /\ \A j \in 1..Len(chain) : chain[j] \in Objects
  BY <1>1, BeforeChain DEF IsChain
<1>3. PICK at : at = {j \in DOMAIN chain : Has(before, chain[j], n)}
  OBVIOUS
<1>4. at # {}
  <2> SUFFICES ASSUME at = {} PROVE FALSE
    OBVIOUS
  <2>1. Seen(o, n) = [kind |-> "nothing"]
    BY <1>1, <1>3 DEF Seen
  <2> QED BY <2>1
<1>5. at \in SUBSET Nat
  BY <1>2, <1>3
<1>6. PICK k \in at : \A j \in at : k <= j
  BY <1>4, <1>5, LeastNumber
<1>7. k \in 1..Len(chain) /\ Has(before, chain[k], n)
  BY <1>2, <1>3, <1>6
<1>8. ASSUME NEW j \in 1..k - 1, Has(before, chain[j], n)
      PROVE  FALSE
  <2>1. j \in 1..Len(chain) /\ ~(k <= j)
    BY <1>2, <1>7
  <2> QED BY <1>2, <1>3, <1>6, <1>8, <2>1
<1>9. Nearest(o, n, k)
  BY <1>1, <1>7, <1>8 DEF Nearest
<1>10. PICK x \in Objects : x = chain[k]
  BY <1>2, <1>7
<1>11. PICK i \in 1..Len(before[x].own) : before[x].own[i].name = n
  BY <1>2, <1>7, <1>10, HasIs
<1>12. Seen(o, n) = before[x].own[i]
  BY <1>1, <1>9, <1>10, <1>11, SeenNearest
<1> QED BY <1>1, <1>7, <1>9, <1>10, <1>11, <1>12
-----------------------------------------------------------------------------
(* What the scan keeps true of what it has patched.  Each object's properties are those it had,    *)
(* in their places, then methods of its prototypes; each of them was seen under its name when the  *)
(* scan began; and what the engine refused is among a set of slots no larger than the number of    *)
(* skipped functions.                                                                              *)

States ==
  [graph : [Objects -> Nodes], patched : SUBSET (Objects \X Names),
   stats : [patchedFunctions : Nat, visitedObjects : Nat, skippedFunctions : Nat, truncated : BOOLEAN],
   stopped : BOOLEAN]

Alike(p, q) == p.name = q.name /\ p.kind = q.kind /\ p.value = q.value /\ p.from = q.from

Grown(x, y) ==
  /\ y.kind = x.kind /\ y.entries = x.entries /\ y.proto = x.proto /\ y.sealed = x.sealed
  /\ y.listed = x.listed
  /\ Len(x.own) <= Len(y.own)
  /\ \A i \in 1..Len(x.own) : Alike(y.own[i], x.own[i])
  /\ \A i \in 1..Len(y.own) : i > Len(x.own) => y.own[i].kind = "function"

\* The scan looks at each of the properties.
Whole(node) == node.listed /\ ~TooMany(node)

\* That is so of every object of o's chain.
Intact(o) == \A k \in 1..Len(Chain(before, o)) : Whole(before[Chain(before, o)[k]])

\* None of them has too many.
Uncut(o) == \A k \in 1..Len(Chain(before, o)) : ~TooMany(before[Chain(before, o)[k]])

Original(p, o) == \E i \in 1..Len(before[o].own) : Alike(p, before[o].own[i])

Inherited(p, o, done) ==
  /\ p.kind = "function" /\ <<o, p.name>> \in done /\ ~Has(before, o, p.name)
  /\ Seen(o, p.name).kind = "function" /\ Intact(o) => p.from = Seen(o, p.name).from

Fits(p, o, done) == p \in Properties /\ (Original(p, o) \/ Inherited(p, o, done))

IsMethod(g, slot) ==
  \E i \in 1..Len(g[slot[1]].own) : g[slot[1]].own[i].name = slot[2] /\ g[slot[1]].own[i].kind = "function"

Sound(s) ==
  /\ s \in States
  /\ \A o \in Objects : Grown(before[o], s.graph[o])
  /\ \A o \in Objects : \A i \in 1..Len(s.graph[o].own) : Fits(s.graph[o].own[i], o, s.patched)
  /\ \A slot \in s.patched : IsMethod(s.graph, slot)
  /\ s.stopped => s.stats.truncated

\* Q holds the slots the engine refused.
Refused(s, Q) ==
  /\ Q \in SUBSET (Objects \X Names) /\ IsFiniteSet(Q) /\ Cardinality(Q) <= s.stats.skippedFunctions
  /\ \A slot \in Q : Has(before, slot[1], slot[2]) \/ before[slot[1]].sealed

Handled(s, Q, slot) == s.stopped \/ slot \in s.patched \/ slot \in Q

\* The methods seen on the first k objects of o's chain have had their turn.
HandledTo(s, Q, o, k) ==
  \A j \in 1..Len(Chain(before, o)) : \A n \in Names :
    /\ j <= k /\ Nearest(o, n, j) /\ Seen(o, n).kind = "function"
    /\ Whole(before[Chain(before, o)[j]])
    => Handled(s, Q, <<o, n>>)

\* From s the scan comes to t, which is as sound.
Keeps(s, Q, t, R) ==
  /\ Sound(t) /\ Refused(t, R)
  /\ Q \subseteq R /\ s.patched \subseteq t.patched
  /\ s.stopped => t.stopped
  /\ s.stats.truncated => t.stats.truncated
  /\ t.stats.visitedObjects = s.stats.visitedObjects

LEMMA KeepsIsTransitive ==
  ASSUME NEW s, NEW t, NEW u, NEW Q, NEW R, NEW X, Keeps(s, Q, t, R), Keeps(t, R, u, X)
  PROVE  Keeps(s, Q, u, X)
BY DEF Keeps

LEMMA HandledStays ==
  ASSUME NEW s, NEW t, NEW Q, NEW R, Keeps(s, Q, t, R)
  PROVE  /\ \A slot : Handled(s, Q, slot) => Handled(t, R, slot)
         /\ \A o, k : HandledTo(s, Q, o, k) => HandledTo(t, R, o, k)
<1>1. ASSUME NEW slot, Handled(s, Q, slot)
      PROVE  Handled(t, R, slot)
  BY <1>1 DEF Handled, Keeps
<1>2. ASSUME NEW o, NEW k, HandledTo(s, Q, o, k)
      PROVE  HandledTo(t, R, o, k)
  BY <1>1, <1>2 DEF HandledTo
<1> QED BY <1>1, <1>2

LEMMA FitsStays ==
  ASSUME NEW p, NEW o, NEW done, NEW more, done \subseteq more, Fits(p, o, done)
  PROVE  Fits(p, o, more)
BY DEF Fits, Inherited

LEMMA StateParts ==
  ASSUME NEW s \in States
  PROVE  /\ s.graph \in [Objects -> Nodes] /\ s.patched \subseteq Objects \X Names
         /\ s.stopped \in BOOLEAN /\ s.stats.truncated \in BOOLEAN
         /\ s.stats.patchedFunctions \in Nat /\ s.stats.visitedObjects \in Nat
         /\ s.stats.skippedFunctions \in Nat
BY DEF States

\* A property of a grown node has the name it had, or the name of a method put there.
LEMMA HasFits ==
  ASSUME before \in Graphs, NEW s, Sound(s), NEW o \in Objects, NEW n, Has(s.graph, o, n)
  PROVE  Has(before, o, n) \/ <<o, n>> \in s.patched
<1>1. s.graph \in [Objects -> Nodes] /\ before \in [Objects -> Nodes]
  BY StateParts, DiscoveryAssumption DEF Sound
<1>2. PICK i \in 1..Len(s.graph[o].own) : s.graph[o].own[i].name = n
  BY <1>1, HasIs
<1>3. PICK p : p = s.graph[o].own[i] /\ p.name = n
  BY <1>2
<1>4. Original(p, o) \/ Inherited(p, o, s.patched)
  BY <1>2, <1>3 DEF Sound, Fits
<1>5. CASE Original(p, o)
  BY <1>1, <1>3, <1>5, HasIs DEF Original, Alike
<1>6. CASE Inherited(p, o, s.patched)
  BY <1>3, <1>6 DEF Inherited
<1> QED BY <1>4, <1>5, <1>6

LEMMA GrownHas ==
  ASSUME before \in Graphs, NEW s, Sound(s), NEW o \in Objects, NEW n, Has(before, o, n)
  PROVE  Has(s.graph, o, n)
<1>1. s.graph \in [Objects -> Nodes] /\ before \in [Objects -> Nodes]
  BY StateParts, DiscoveryAssumption DEF Sound
<1>2. PICK i \in 1..Len(before[o].own) : before[o].own[i].name = n
  BY <1>1, HasIs
<1>3. Grown(before[o], s.graph[o])
  BY DEF Sound
<1>4. PICK x \in Nat, y \in Nat : x = Len(before[o].own) /\ y = Len(s.graph[o].own)
  BY <1>1, NodeType
<1>5. i \in 1..y /\ s.graph[o].own[i].name = n
  BY <1>2, <1>3, <1>4 DEF Grown, Alike
<1> QED BY <1>1, <1>4, <1>5, HasIs
LEMMA WrappedIs ==
  ASSUME NEW p \in Properties
  PROVE  Wrapped(p) \in Properties /\ Alike(Wrapped(p), p)
<1> DEFINE Fields == [name : Names, kind : {"function", "object", "accessor", "unreadable"},
                      locked : BOOLEAN, value : Objects \cup {NoObject}, from : Objects, wraps : Nat]
<1>1. p \in Fields
  BY DEF Properties
<1>2. PICK w : w = Wrapped(p)
  OBVIOUS
<1>3. w = [p EXCEPT !.wraps = p.wraps + 1, !.locked = FALSE]
  BY <1>2 DEF Wrapped
<1>4. p.wraps + 1 \in Nat
  BY <1>1
<1>5. w \in Fields
  BY <1>1, <1>3, <1>4
<1>6. w.name = p.name /\ w.kind = p.kind /\ w.value = p.value /\ w.from = p.from
  BY <1>1, <1>3
<1> QED BY <1>2, <1>5, <1>6 DEF Properties, Alike

OneOfEach(props) == \A i, j \in 1..Len(props) : props[i].name = props[j].name => i = j

LEMMA WithOwn ==
  ASSUME NEW node \in Nodes, NEW props \in Seq(Properties), OneOfEach(props)
  PROVE  /\ [node EXCEPT !.own = props] \in Nodes
         /\ [node EXCEPT !.own = props].own = props
         /\ [node EXCEPT !.own = props].kind = node.kind
         /\ [node EXCEPT !.own = props].entries = node.entries
         /\ [node EXCEPT !.own = props].proto = node.proto
         /\ [node EXCEPT !.own = props].sealed = node.sealed
         /\ [node EXCEPT !.own = props].listed = node.listed
<1> DEFINE All == [kind : Kinds, own : Seq(Properties), entries : Seq(Objects \cup {NoObject}),
                   proto : Objects \cup {NoObject}, sealed : BOOLEAN, listed : BOOLEAN]
<1>1. node \in All /\ (node.kind \in {"plain", "array"} => node.entries = <<>>)
  BY DEF Nodes
<1>2. PICK new : new = [node EXCEPT !.own = props]
  OBVIOUS
<1>3. /\ new \in All /\ new.own = props /\ new.kind = node.kind /\ new.entries = node.entries
      /\ new.proto = node.proto /\ new.sealed = node.sealed /\ new.listed = node.listed
  BY <1>1, <1>2
<1>4. DOMAIN props = 1..Len(props)
  BY LenProperties
<1>5. new \in Nodes
  BY <1>1, <1>3, <1>4 DEF Nodes, OneOfEach
<1> QED BY <1>2, <1>3, <1>5

AllFit(props, o, done) == \A i \in 1..Len(props) : Fits(props[i], o, done)

HasMethod(props, n) == \E i \in 1..Len(props) : props[i].name = n /\ props[i].kind = "function"

LEMMA Replaced ==
  ASSUME before \in Graphs, NEW s, Sound(s), NEW Q, Refused(s, Q),
         NEW o \in Objects, NEW n \in Names, NEW node \in Nodes, Grown(before[o], node),
         AllFit(node.own, o, s.patched \cup {<<o, n>>}),
         \A m : HasMethod(s.graph[o].own, m) => HasMethod(node.own, m), HasMethod(node.own, n),
         NEW t \in States, t.graph = [s.graph EXCEPT ![o] = node],
         t.patched = s.patched \cup {<<o, n>>}, t.stopped = s.stopped,
         t.stats = [s.stats EXCEPT !.patchedFunctions = @ + 1]
  PROVE  Keeps(s, Q, t, Q)
<1>1. /\ s.graph \in [Objects -> Nodes] /\ s.patched \subseteq Objects \X Names
      /\ s.stats.truncated \in BOOLEAN /\ s.stats.visitedObjects \in Nat /\ s.stats.skippedFunctions \in Nat
  BY StateParts DEF Sound
<1>2. t.graph[o] = node /\ \A x \in Objects : x # o => t.graph[x] = s.graph[x]
  BY <1>1
<1>3. /\ t.stats.skippedFunctions = s.stats.skippedFunctions /\ t.stats.truncated = s.stats.truncated
      /\ t.stats.visitedObjects = s.stats.visitedObjects
  BY DEF Sound, States
<1>4. \A x \in Objects : Grown(before[x], t.graph[x])
  BY <1>2 DEF Sound
<1>5. ASSUME NEW x \in Objects, NEW i \in 1..Len(t.graph[x].own)
      PROVE  Fits(t.graph[x].own[i], x, t.patched)
  <2>1. CASE x = o
    BY <1>2, <1>5, <2>1 DEF AllFit
  <2>2. CASE x # o
    <3>1. Fits(s.graph[x].own[i], x, s.patched)
      BY <1>2, <1>5, <2>2 DEF Sound
    <3>2. t.graph[x].own[i] = s.graph[x].own[i] /\ s.patched \subseteq t.patched
      BY <1>2, <2>2
    <3> QED BY <3>1, <3>2, FitsStays
  <2> QED BY <2>1, <2>2
<1>6. ASSUME NEW slot \in t.patched
      PROVE  IsMethod(t.graph, slot)
  <2>3. \A g, x : IsMethod(g, x) <=> HasMethod(g[x[1]].own, x[2])
    BY DEF IsMethod, HasMethod
  <2>1. CASE slot = <<o, n>>
    BY <1>2, <2>1, <2>3
  <2>2. CASE slot \in s.patched
    <3>1. slot[1] \in Objects /\ HasMethod(s.graph[slot[1]].own, slot[2])
      BY <1>1, <2>2, <2>3 DEF Sound
    <3> QED BY <1>2, <2>3, <3>1
  <2> QED BY <2>1, <2>2
<1>7. Sound(t)
  BY <1>3, <1>4, <1>5, <1>6 DEF Sound
<1>8. Refused(t, Q)
  BY <1>3 DEF Refused
<1> QED BY <1>3, <1>7, <1>8 DEF Keeps

Put(s, o, n, props) ==
  [s EXCEPT !.graph[o].own = props, !.patched = @ \cup {<<o, n>>}, !.stats.patchedFunctions = @ + 1]

LEMMA PutIs ==
  ASSUME NEW s \in States, NEW o \in Objects, NEW n \in Names, NEW props \in Seq(Properties),
         OneOfEach(props), NEW t, t = Put(s, o, n, props)
  PROVE  /\ t \in States /\ t.graph = [s.graph EXCEPT ![o] = [s.graph[o] EXCEPT !.own = props]]
         /\ t.patched = s.patched \cup {<<o, n>>} /\ t.stopped = s.stopped
         /\ t.stats = [s.stats EXCEPT !.patchedFunctions = @ + 1]
<1>1. PICK node : node = [s.graph[o] EXCEPT !.own = props]
  OBVIOUS
<1>2. node \in Nodes
  BY <1>1, StateParts, WithOwn
<1>3. /\ t.graph = [s.graph EXCEPT ![o] = node] /\ t.patched = s.patched \cup {<<o, n>>}
      /\ t.stopped = s.stopped /\ t.stats = [s.stats EXCEPT !.patchedFunctions = @ + 1]
      /\ t = [graph |-> t.graph, patched |-> t.patched, stats |-> t.stats, stopped |-> t.stopped]
  BY <1>1 DEF States, Put
<1>4. t.graph \in [Objects -> Nodes]
  BY <1>2, <1>3, StateParts
<1>5. /\ t.stats \in [patchedFunctions : Nat, visitedObjects : Nat, skippedFunctions : Nat, truncated : BOOLEAN]
      /\ t.patched \in SUBSET (Objects \X Names) /\ t.stopped \in BOOLEAN
  <2>1. s.stats \in [patchedFunctions : Nat, visitedObjects : Nat, skippedFunctions : Nat, truncated : BOOLEAN]
    BY DEF States
  <2>2. t.stats \in [patchedFunctions : Nat, visitedObjects : Nat, skippedFunctions : Nat, truncated : BOOLEAN]
    BY <1>3, <2>1
  <2>3. <<o, n>> \in Objects \X Names
    OBVIOUS
  <2> QED BY <1>3, <2>2, <2>3, StateParts
<1> QED BY <1>1, <1>3, <1>4, <1>5 DEF States
\* The same for a list of properties as Grown is for a node.
GrownOwn(x, props) ==
  /\ Len(x.own) <= Len(props)
  /\ \A i \in 1..Len(x.own) : Alike(props[i], x.own[i])
  /\ \A i \in 1..Len(props) : i > Len(x.own) => props[i].kind = "function"

LEMMA PutKeeps ==
  ASSUME before \in Graphs, NEW s, Sound(s), NEW Q, Refused(s, Q),
         NEW o \in Objects, NEW n \in Names, NEW props \in Seq(Properties), OneOfEach(props),
         GrownOwn(before[o], props), AllFit(props, o, s.patched \cup {<<o, n>>}),
         \A m : HasMethod(s.graph[o].own, m) => HasMethod(props, m), HasMethod(props, n)
  PROVE  Keeps(s, Q, Put(s, o, n, props), Q) /\ <<o, n>> \in Put(s, o, n, props).patched
<1>1. s \in States /\ s.graph[o] \in Nodes
  BY StateParts DEF Sound
<1>2. PICK t : t = Put(s, o, n, props)
  OBVIOUS
<1>3. /\ t \in States /\ t.graph = [s.graph EXCEPT ![o] = [s.graph[o] EXCEPT !.own = props]]
      /\ t.patched = s.patched \cup {<<o, n>>} /\ t.stopped = s.stopped
      /\ t.stats = [s.stats EXCEPT !.patchedFunctions = @ + 1]
  BY <1>1, <1>2, PutIs
<1>4. PICK node \in Nodes :
         /\ node = [s.graph[o] EXCEPT !.own = props]
         /\ node.own = props /\ node.kind = s.graph[o].kind /\ node.entries = s.graph[o].entries
         /\ node.proto = s.graph[o].proto /\ node.sealed = s.graph[o].sealed
         /\ node.listed = s.graph[o].listed
  BY <1>1, WithOwn
<1>5. Grown(before[o], s.graph[o])
  BY DEF Sound
<1>6. Grown(before[o], node)
  BY <1>4, <1>5 DEF Grown, GrownOwn
<1>7. t.graph = [s.graph EXCEPT ![o] = node]
  BY <1>3, <1>4
<1>8. AllFit(node.own, o, s.patched \cup {<<o, n>>}) /\ HasMethod(node.own, n)
      /\ \A m : HasMethod(s.graph[o].own, m) => HasMethod(node.own, m)
  BY <1>4
<1>9. Keeps(s, Q, t, Q)
  BY <1>3, <1>6, <1>7, <1>8, Replaced
<1> QED BY <1>2, <1>3, <1>9

LEMMA DefinesOwn ==
  ASSUME before \in Graphs, NEW s, Sound(s), NEW Q, Refused(s, Q), NEW o \in Objects,
         NEW p \in Properties, Fits(p, o, s.patched), p.kind = "function",
         <<o, p.name>> \notin s.patched, ~p.locked
  PROVE  Keeps(s, Q, Define(s, o, o, p), Q) /\ <<o, p.name>> \in Define(s, o, o, p).patched
<1>1. /\ s \in States /\ s.graph \in [Objects -> Nodes] /\ before \in [Objects -> Nodes]
      /\ p \in Properties
  BY StateParts, DiscoveryAssumption DEF Sound, Fits
<1>2. PICK k \in 1..Len(before[o].own) : Alike(p, before[o].own[k])
  BY DEF Fits, Original, Inherited
<1>3. PICK props : props = s.graph[o].own
  OBVIOUS
<1>4. /\ props \in Seq(Properties) /\ DOMAIN props = 1..Len(props)
      /\ \A i, j \in 1..Len(props) : props[i].name = props[j].name => i = j
  BY <1>1, <1>3, NodeType
<1>5. /\ Grown(before[o], s.graph[o])
      /\ \A i \in 1..Len(props) : Fits(props[i], o, s.patched)
  BY <1>3 DEF Sound
<1>6. PICK x \in Nat, y \in Nat : x = Len(before[o].own) /\ y = Len(props)
  BY <1>1, <1>3, NodeType
<1>7. k \in 1..Len(props) /\ k <= Len(before[o].own) /\ props[k].name = p.name
  <2>1. k \in 1..y
    BY <1>2, <1>3, <1>5, <1>6 DEF Grown
  <2>2. Alike(props[k], before[o].own[k])
    BY <1>2, <1>3, <1>5 DEF Grown
  <2> QED BY <1>2, <1>6, <2>1, <2>2 DEF Alike
<1>8. (CHOOSE j \in DOMAIN props : props[j].name = p.name) = k
  BY <1>4, <1>7
<1>9. PICK w : w = Wrapped(p)
  OBVIOUS
<1>10. w \in Properties /\ Alike(w, p)
  BY <1>1, <1>9, WrappedIs
<1>11. PICK new : new = [props EXCEPT ![k] = w]
  OBVIOUS
<1>12. /\ new \in Seq(Properties) /\ Len(new) = Len(props)
       /\ new[k] = w /\ \A i \in 1..Len(props) : i # k => new[i] = props[i]
  BY <1>4, <1>7, <1>10, <1>11, ExceptSeq
<1>13. OneOfEach(new)
  <2>1. \A i \in 1..Len(props) : new[i].name = props[i].name
    BY <1>7, <1>10, <1>12 DEF Alike
  <2> QED BY <1>4, <1>12, <2>1 DEF OneOfEach
<1>14. p.name \in Names
  BY <1>1 DEF Properties
<1>15. PICK t : t = Define(s, o, o, p)
  OBVIOUS
<1>16. t = Put(s, o, p.name, new)
  BY <1>3, <1>8, <1>9, <1>11, <1>15 DEF Define, Put
<1>19. GrownOwn(before[o], new)
  <2>1. \A i \in 1..Len(before[o].own) : i \in 1..Len(props) /\ Alike(props[i], before[o].own[i])
    BY <1>3, <1>5, <1>6 DEF Grown
  <2>2. \A i \in 1..Len(before[o].own) : Alike(new[i], before[o].own[i])
    BY <1>2, <1>10, <1>12, <2>1 DEF Alike
  <2>3. \A i \in 1..Len(new) : i > Len(before[o].own) => new[i].kind = "function"
    BY <1>3, <1>5, <1>6, <1>7, <1>12 DEF Grown
  <2> QED BY <1>3, <1>5, <1>12, <2>2, <2>3 DEF Grown, GrownOwn
<1>20. AllFit(new, o, s.patched \cup {<<o, p.name>>})
  <2> SUFFICES ASSUME NEW i \in 1..Len(props)
               PROVE  Fits(new[i], o, s.patched \cup {<<o, p.name>>})
    BY <1>12 DEF AllFit
  <2>1. CASE i = k
    <3>1. Original(w, o)
      BY <1>2, <1>10 DEF Original, Alike
    <3> QED BY <1>10, <1>12, <2>1, <3>1 DEF Fits
  <2>2. CASE i # k
    BY <1>5, <1>12, <2>2, FitsStays
  <2> QED BY <2>1, <2>2
<1>21. w.kind = "function" /\ w.name = p.name /\ k \in 1..Len(new)
  BY <1>7, <1>10, <1>12 DEF Alike
<1>22. \A m : HasMethod(s.graph[o].own, m) => HasMethod(new, m)
  <2> SUFFICES ASSUME NEW i \in 1..Len(props), props[i].kind = "function"
               PROVE  new[i].name = props[i].name /\ new[i].kind = "function"
    BY <1>3, <1>12 DEF HasMethod
  <2> QED BY <1>7, <1>12, <1>21
<1>23. HasMethod(new, p.name)
  BY <1>12, <1>21 DEF HasMethod
<1> QED BY <1>12, <1>13, <1>14, <1>15, <1>16, <1>19, <1>20, <1>22, <1>23, PutKeeps

LEMMA DefinesInherited ==
  ASSUME before \in Graphs, NEW s, Sound(s), NEW Q, Refused(s, Q), NEW o \in Objects, NEW source, source # o,
         NEW p \in Properties, p.kind = "function", ~Has(s.graph, o, p.name), ~s.graph[o].sealed,
         Seen(o, p.name).kind = "function" /\ Intact(o) => p.from = Seen(o, p.name).from
  PROVE  Keeps(s, Q, Define(s, o, source, p), Q) /\ <<o, p.name>> \in Define(s, o, source, p).patched
<1>1. s \in States /\ s.graph \in [Objects -> Nodes] /\ before \in [Objects -> Nodes]
  BY StateParts, DiscoveryAssumption DEF Sound
<1>2. PICK props : props = s.graph[o].own
  OBVIOUS
<1>3. PICK n \in Nat : n = Len(props)
  BY <1>1, <1>2, NodeType
<1>4. /\ props \in Seq(Properties)
      /\ \A i, j \in 1..n : props[i].name = props[j].name => i = j
      /\ \A i \in 1..n : props[i].name # p.name
  <2>1. s.graph[o] \in Nodes
    BY <1>1
  <2>2. /\ props \in Seq(Properties)
        /\ \A i, j \in 1..n : props[i].name = props[j].name => i = j
    BY <1>2, <1>3, <2>1, NodeType
  <2>3. \A i \in 1..n : props[i].name # p.name
    BY <1>1, <1>2, <1>3, HasIs
  <2> QED BY <2>2, <2>3
<1>5. /\ Grown(before[o], s.graph[o])
      /\ \A i \in 1..n : Fits(props[i], o, s.patched)
  BY <1>2, <1>3 DEF Sound
<1>6. PICK w : w = Wrapped(p)
  OBVIOUS
<1>7. w \in Properties /\ Alike(w, p)
  BY <1>6, WrappedIs
<1>8. PICK new : new = Append(props, w)
  OBVIOUS
<1>9. /\ new \in Seq(Properties) /\ Len(new) = n + 1 /\ new[n + 1] = w
      /\ \A i \in 1..n : new[i] = props[i]
  BY <1>3, <1>4, <1>7, <1>8, AppendProperties
<1>10. OneOfEach(new)
  <2> SUFFICES ASSUME NEW i \in 1..n + 1, NEW j \in 1..n + 1, new[i].name = new[j].name, i # j
               PROVE  FALSE
    BY <1>9 DEF OneOfEach
  <2>1. w.name = p.name
    BY <1>7 DEF Alike
  <2>2. CASE i \in 1..n /\ j \in 1..n
    BY <1>4, <1>9, <2>2
  <2>3. CASE i = n + 1 /\ j \in 1..n
    BY <1>4, <1>9, <2>1, <2>3
  <2>4. CASE j = n + 1 /\ i \in 1..n
    BY <1>4, <1>9, <2>1, <2>4
  <2> QED BY <2>2, <2>3, <2>4
<1>11. p.name \in Names
  BY DEF Properties
<1>12. PICK t : t = Define(s, o, source, p)
  OBVIOUS
<1>13. t = Put(s, o, p.name, new)
  BY <1>2, <1>6, <1>8, <1>12 DEF Define, Put
<1>16. w.kind = "function" /\ w.name = p.name /\ w.from = p.from /\ n + 1 \in 1..Len(new)
  BY <1>7, <1>9 DEF Alike
<1>17. PICK x \in Nat : x = Len(before[o].own)
  BY <1>1, NodeType
<1>18. GrownOwn(before[o], new)
  <2>1. x <= n /\ \A i \in 1..x : i \in 1..n /\ Alike(props[i], before[o].own[i])
    BY <1>2, <1>3, <1>5, <1>17 DEF Grown
  <2>2. \A i \in 1..x : Alike(new[i], before[o].own[i])
    BY <1>9, <2>1
  <2>3. \A i \in 1..n : i > x => props[i].kind = "function"
    BY <1>2, <1>3, <1>5, <1>17 DEF Grown
  <2>4. \A i \in 1..n + 1 : i > x => new[i].kind = "function"
    <3> SUFFICES ASSUME NEW i \in 1..n + 1, i > x PROVE new[i].kind = "function"
      OBVIOUS
    <3>1. CASE i = n + 1
      BY <1>9, <1>16, <3>1
    <3>2. CASE i \in 1..n
      BY <1>9, <2>3, <3>2
    <3> QED BY <3>1, <3>2
  <2>5. x <= Len(new)
    BY <1>9, <2>1
  <2> QED BY <1>9, <1>17, <2>2, <2>4, <2>5 DEF GrownOwn
<1>19. ~Has(before, o, p.name)
  BY GrownHas
<1>20. Fits(w, o, s.patched \cup {<<o, p.name>>})
  <2>1. <<o, w.name>> \in s.patched \cup {<<o, p.name>>} /\ ~Has(before, o, w.name)
    BY <1>16, <1>19
  <2>2. Seen(o, w.name).kind = "function" /\ Intact(o) => w.from = Seen(o, w.name).from
    BY <1>16
  <2> QED BY <1>7, <1>16, <2>1, <2>2 DEF Fits, Inherited
<1>21. AllFit(new, o, s.patched \cup {<<o, p.name>>})
  <2> SUFFICES ASSUME NEW i \in 1..n + 1
               PROVE  Fits(new[i], o, s.patched \cup {<<o, p.name>>})
    BY <1>9 DEF AllFit
  <2>1. CASE i = n + 1
    BY <1>9, <1>20, <2>1
  <2>2. CASE i \in 1..n
    BY <1>5, <1>9, <2>2, FitsStays
  <2> QED BY <2>1, <2>2
<1>22. \A m : HasMethod(s.graph[o].own, m) => HasMethod(new, m)
  <2> SUFFICES ASSUME NEW i \in 1..n, props[i].kind = "function"
               PROVE  i \in 1..Len(new) /\ new[i] = props[i]
    BY <1>2, <1>3 DEF HasMethod
  <2> QED BY <1>9
<1>23. HasMethod(new, p.name)
  BY <1>9, <1>16 DEF HasMethod
<1> QED BY <1>9, <1>10, <1>11, <1>12, <1>13, <1>18, <1>21, <1>22, <1>23, PutKeeps
LEMMA SkipKeeps ==
  ASSUME NEW s, Sound(s), NEW Q, Refused(s, Q), NEW o \in Objects, NEW n \in Names,
         Has(before, o, n) \/ before[o].sealed,
         NEW t, t = [s EXCEPT !.stats.skippedFunctions = @ + 1]
  PROVE  Keeps(s, Q, t, Q \cup {<<o, n>>})
<1>1. s \in States /\ s.stats.skippedFunctions \in Nat
  BY StateParts DEF Sound
<1>2. /\ t.graph = s.graph /\ t.patched = s.patched /\ t.stopped = s.stopped
      /\ t.stats = [s.stats EXCEPT !.skippedFunctions = @ + 1]
      /\ t = [graph |-> t.graph, patched |-> t.patched, stats |-> t.stats, stopped |-> t.stopped]
  BY <1>1 DEF States
<1>3. s.stats \in [patchedFunctions : Nat, visitedObjects : Nat, skippedFunctions : Nat, truncated : BOOLEAN]
  BY <1>1 DEF States
<1>4. /\ t.stats \in [patchedFunctions : Nat, visitedObjects : Nat, skippedFunctions : Nat, truncated : BOOLEAN]
      /\ t.stats.skippedFunctions = s.stats.skippedFunctions + 1
      /\ t.stats.truncated = s.stats.truncated /\ t.stats.visitedObjects = s.stats.visitedObjects
  BY <1>2, <1>3
<1>5. t \in States
  BY <1>1, <1>2, <1>4, StateParts DEF States
<1>6. Sound(t)
  BY <1>2, <1>4, <1>5 DEF Sound
<1>7. PICK R : R = Q \cup {<<o, n>>}
  OBVIOUS
<1>8. Q \in SUBSET (Objects \X Names) /\ IsFiniteSet(Q) /\ Cardinality(Q) <= s.stats.skippedFunctions
  BY DEF Refused
<1>9. IsFiniteSet(R) /\ (Cardinality(R) = Cardinality(Q) \/ Cardinality(R) = Cardinality(Q) + 1)
  BY <1>7, <1>8, FS_AddElement
<1>10. PICK c \in Nat, d \in Nat : c = Cardinality(Q) /\ d = s.stats.skippedFunctions
  BY <1>1, <1>8, FS_CardinalityType
<1>11. Cardinality(R) <= t.stats.skippedFunctions
  BY <1>4, <1>8, <1>9, <1>10
<1>12. \A slot \in R : Has(before, slot[1], slot[2]) \/ before[slot[1]].sealed
  BY <1>7 DEF Refused
<1>13. R \in SUBSET (Objects \X Names)
  BY <1>7, <1>8
<1>14. Refused(t, R)
  BY <1>9, <1>11, <1>12, <1>13 DEF Refused
<1> QED BY <1>2, <1>4, <1>6, <1>7, <1>14 DEF Keeps

LEMMA TruncatesKeeps ==
  ASSUME NEW s, Sound(s), NEW Q, Refused(s, Q), NEW c \in BOOLEAN,
         NEW t, t = Truncates(s, c)
  PROVE  Keeps(s, Q, t, Q) /\ (c => t.stats.truncated)
<1>1. s \in States /\ s.stats.truncated \in BOOLEAN
  BY StateParts DEF Sound
<1>2. /\ t.graph = s.graph /\ t.patched = s.patched /\ t.stopped = s.stopped
      /\ t.stats = [s.stats EXCEPT !.truncated = @ \/ c]
      /\ t = [graph |-> t.graph, patched |-> t.patched, stats |-> t.stats, stopped |-> t.stopped]
  BY <1>1 DEF States, Truncates
<1>3. s.stats \in [patchedFunctions : Nat, visitedObjects : Nat, skippedFunctions : Nat, truncated : BOOLEAN]
  BY <1>1 DEF States
<1>4. /\ t.stats \in [patchedFunctions : Nat, visitedObjects : Nat, skippedFunctions : Nat, truncated : BOOLEAN]
      /\ t.stats.skippedFunctions = s.stats.skippedFunctions
      /\ t.stats.truncated = (s.stats.truncated \/ c) /\ t.stats.visitedObjects = s.stats.visitedObjects
  BY <1>2, <1>3
<1>5. t \in States
  BY <1>1, <1>2, <1>4, StateParts DEF States
<1>6. Sound(t)
  BY <1>2, <1>4, <1>5 DEF Sound
<1>7. Refused(t, Q)
  BY <1>4 DEF Refused
<1> QED BY <1>1, <1>2, <1>4, <1>6, <1>7 DEF Keeps

LEMMA StopKeeps ==
  ASSUME NEW s, Sound(s), NEW Q, Refused(s, Q),
         NEW t, t = [Truncates(s, TRUE) EXCEPT !.stopped = TRUE]
  PROVE  Keeps(s, Q, t, Q) /\ t.stopped
<1>1. PICK u : u = Truncates(s, TRUE)
  OBVIOUS
<1>2. Keeps(s, Q, u, Q) /\ u.stats.truncated
  BY <1>1, TruncatesKeeps
<1>3. u \in States
  BY <1>2 DEF Keeps, Sound
<1>4. /\ t.graph = u.graph /\ t.patched = u.patched /\ t.stopped = TRUE /\ t.stats = u.stats
      /\ t = [graph |-> t.graph, patched |-> t.patched, stats |-> t.stats, stopped |-> t.stopped]
  BY <1>1, <1>3 DEF States
<1>5. t \in States
  BY <1>3, <1>4, StateParts DEF States
<1>6. Sound(t)
  BY <1>2, <1>4, <1>5 DEF Keeps, Sound
<1> QED BY <1>2, <1>4, <1>6 DEF Keeps, Refused

LEMMA KeepsSame ==
  ASSUME NEW s, Sound(s), NEW Q, Refused(s, Q)
  PROVE  Keeps(s, Q, s, Q)
BY DEF Keeps

\* Where the source stands in the chain decides what is seen under the name of its property.
LEMMA SeenFrom ==
  ASSUME before \in Graphs, NEW s, Sound(s), NEW Q, Refused(s, Q), NEW o \in Objects,
         NEW k \in 1..Len(Chain(before, o)), NEW source, source = Chain(before, o)[k],
         HandledTo(s, Q, o, k - 1), ~s.stopped,
         NEW p, Fits(p, source, s.patched), <<o, p.name>> \notin s.patched,
         ~Has(s.graph, o, p.name), ~s.graph[o].sealed,
         Seen(o, p.name).kind = "function", Intact(o)
  PROVE  p.from = Seen(o, p.name).from
<1>1. PICK chain : chain = Chain(before, o)
  OBVIOUS
<1>13. before \in [Objects -> Nodes] /\ IsChain(before, o, chain)
  BY <1>1, BeforeChain
<1>2. /\ before \in [Objects -> Nodes] /\ Len(chain) \in Nat \ {0}
      /\ \A j \in 1..Len(chain) : chain[j] \in Objects
      /\ \A j \in 1..Len(chain) :
           /\ Len(Chain(before, chain[j])) = Len(chain) - (j - 1)
           /\ \A m \in 1..Len(chain) - (j - 1) : Chain(before, chain[j])[m] = chain[j - 1 + m]
  BY <1>13 DEF IsChain
<1>3. PICK n \in Names : n = p.name
  BY DEF Fits, Properties
<1>4. PICK j \in 1..Len(chain) :
        /\ Nearest(o, n, j)
        /\ \E i \in 1..Len(before[chain[j]].own) :
             before[chain[j]].own[i].name = n /\ before[chain[j]].own[i] = Seen(o, n)
  BY <1>1, <1>3, SeenSomething
<1>5. PICK i \in 1..Len(before[chain[j]].own) :
        before[chain[j]].own[i].name = n /\ before[chain[j]].own[i] = Seen(o, n)
  BY <1>4
<1>6. k \in 1..Len(chain) /\ source = chain[k] /\ source \in Objects
  BY <1>1, <1>2
<1>7. PICK len \in Nat : len = Len(chain)
  BY <1>2
<1>8. ~(j <= k - 1)
  <2> SUFFICES ASSUME j <= k - 1 PROVE FALSE
    OBVIOUS
  <2>1. Whole(before[chain[j]])
    BY <1>1 DEF Intact
  <2>2. Handled(s, Q, <<o, n>>)
    BY <1>1, <1>3, <1>4, <2>1 DEF HandledTo
  <2>3. <<o, n>> \in Q
    BY <1>3, <2>2 DEF Handled
  <2>4. Has(before, o, n) \/ before[o].sealed
    BY <2>3 DEF Refused
  <2>5. ~Has(before, o, n)
    BY <1>3, GrownHas
  <2>6. s.graph[o].sealed = before[o].sealed
    BY DEF Sound, Grown
  <2> QED BY <2>4, <2>5, <2>6
<1>9. j \in 1..len /\ k \in 1..len /\ ~(j < k)
  BY <1>6, <1>7, <1>8
<1>10. /\ Has(before, chain[j], n)
       /\ \A m \in 1..j - 1 : ~Has(before, chain[m], n)
  BY <1>1, <1>4 DEF Nearest
<1>11. CASE Original(p, source)
  <2>1. PICK m \in 1..Len(before[source].own) : Alike(p, before[source].own[m])
    BY <1>11 DEF Original
  <2>2. before[source].own[m].name = n /\ p.from = before[source].own[m].from
    BY <1>3, <2>1 DEF Alike
  <2>3. Has(before, source, n)
    BY <1>2, <1>6, <2>2, HasIs
  <2>4. j = k
    BY <1>6, <1>9, <1>10, <2>3
  <2>5. chain[j] = source
    BY <1>6, <2>4
  <2>6. i = m
    BY <1>2, <1>5, <1>6, <2>2, <2>5, NodeType
  <2> QED BY <1>3, <1>5, <2>2, <2>5, <2>6
<1>12. CASE Inherited(p, source, s.patched)
  <2>1. ~Has(before, source, n)
    BY <1>3, <1>12 DEF Inherited
  <2>2. j # k
    BY <1>6, <1>10, <2>1
  <2>3. PICK d \in Nat : d = j - (k - 1) /\ d \in 1..len - (k - 1) /\ k - 1 + d = j
    <3>1. j - (k - 1) \in Nat /\ j - (k - 1) \in 1..len - (k - 1) /\ k - 1 + (j - (k - 1)) = j
      BY <1>9
    <3> QED BY <3>1
  <2>4. PICK rest : rest = Chain(before, source)
    OBVIOUS
  <2>5. Len(rest) = len - (k - 1) /\ \A m \in 1..len - (k - 1) : rest[m] = chain[k - 1 + m]
    BY <1>2, <1>6, <1>7, <2>4
  <2>6. d \in 1..Len(rest) /\ rest[d] = chain[j]
    BY <2>3, <2>5
  <2>7. \A m \in 1..d - 1 : ~Has(before, rest[m], n)
    <3> SUFFICES ASSUME NEW m \in 1..d - 1 PROVE ~Has(before, rest[m], n)
      OBVIOUS
    <3>1. m \in 1..len - (k - 1) /\ k - 1 + m \in 1..j - 1
      BY <1>9, <2>3
    <3> QED BY <1>10, <2>5, <3>1
  <2>8. Nearest(source, n, d)
    BY <1>10, <2>4, <2>6, <2>7 DEF Nearest
  <2>9. Seen(source, n) = before[chain[j]].own[i]
    <3>1. PICK x : x = chain[j]
      OBVIOUS
    <3>2. i \in 1..Len(before[x].own) /\ before[x].own[i].name = n /\ x = Chain(before, source)[d]
      BY <1>5, <2>4, <2>6, <3>1
    <3>3. Seen(source, n) = before[x].own[i]
      BY <1>6, <2>8, <3>2, SeenNearest
    <3> QED BY <3>1, <3>3
  <2>10. Intact(source)
    <3> SUFFICES ASSUME NEW m \in 1..Len(rest)
                 PROVE  Whole(before[rest[m]])
      BY <2>4 DEF Intact
    <3>1. m \in 1..len - (k - 1) /\ k - 1 + m \in 1..len
      BY <1>9, <2>5
    <3>2. rest[m] = chain[k - 1 + m]
      BY <2>5, <3>1
    <3> QED BY <1>1, <1>7, <3>1, <3>2 DEF Intact
  <2>11. Seen(source, n) = Seen(o, n)
    BY <1>5, <2>9
  <2>12. Seen(o, n).kind = "function"
    BY <1>3
  <2> QED BY <1>3, <1>12, <2>10, <2>11, <2>12 DEF Inherited
<1> QED BY <1>11, <1>12 DEF Fits

LEMMA PatchOneKeeps ==
  ASSUME before \in Graphs, NEW s, Sound(s), NEW Q, Refused(s, Q), NEW o \in Objects,
         NEW k \in 1..Len(Chain(before, o)), NEW source, source = Chain(before, o)[k],
         HandledTo(s, Q, o, k - 1), NEW p, Fits(p, source, s.patched),
         NEW t, t = PatchOne(s, o, source, p)
  PROVE  \E R : /\ Keeps(s, Q, t, R)
                /\ p.kind = "function" =>
                     Handled(t, R, <<o, p.name>>) \/ (source # o /\ Has(before, o, p.name))
<1>1. s \in States /\ s.graph \in [Objects -> Nodes] /\ s.stopped \in BOOLEAN
  BY StateParts DEF Sound
<1>2. p \in Properties /\ p.name \in Names /\ p.locked \in BOOLEAN
  BY DEF Fits, Properties
<1>3. CASE s.stopped \/ <<o, p.name>> \in s.patched
  <2>1. t = s
    BY <1>3 DEF PatchOne
  <2> QED BY <1>3, <2>1, KeepsSame DEF Handled
<1>4. CASE p.kind # "function"
  <2>1. t = s
    BY <1>4 DEF PatchOne
  <2> QED BY <1>4, <2>1, KeepsSame
<1>5. CASE /\ ~s.stopped /\ <<o, p.name>> \notin s.patched
           /\ source # o /\ Has(s.graph, o, p.name)
  <2>1. t = s
    BY <1>5 DEF PatchOne
  <2>2. Has(before, o, p.name)
    BY <1>5, HasFits
  <2> QED BY <1>5, <2>1, <2>2, KeepsSame
<1>6. CASE /\ ~s.stopped /\ <<o, p.name>> \notin s.patched /\ p.kind = "function"
           /\ ~(source # o /\ Has(s.graph, o, p.name))
  <2>1. CASE s.stats.patchedFunctions >= limits.maxPatchedFunctions
    <3>1. t = [Truncates(s, TRUE) EXCEPT !.stopped = TRUE]
      BY <1>6, <2>1 DEF PatchOne
    <3> QED BY <3>1, StopKeeps DEF Handled
  <2>2. CASE ~(s.stats.patchedFunctions >= limits.maxPatchedFunctions)
    <3>1. t = Define(s, o, source, p)
      BY <1>6, <2>2 DEF PatchOne
    <3>2. CASE source = o /\ ~p.locked
      BY <1>2, <1>6, <3>1, <3>2, DefinesOwn DEF Handled
    <3>3. CASE source # o /\ ~s.graph[o].sealed
      <4>1. Seen(o, p.name).kind = "function" /\ Intact(o) => p.from = Seen(o, p.name).from
        BY <1>6, <3>3, SeenFrom
      <4>2. p \in Properties /\ p.kind = "function" /\ ~Has(s.graph, o, p.name)
        BY <1>2, <1>6, <3>3
      <4>3. Keeps(s, Q, Define(s, o, source, p), Q) /\ <<o, p.name>> \in Define(s, o, source, p).patched
        BY <3>3, <4>1, <4>2, DefinesInherited
      <4> QED BY <3>1, <4>3 DEF Handled
    <3>4. CASE IF source = o THEN p.locked ELSE s.graph[o].sealed
      <4>1. t = [s EXCEPT !.stats.skippedFunctions = @ + 1]
        BY <3>1, <3>4 DEF Define
      <4>2. Has(before, o, p.name) \/ before[o].sealed
        <5>1. CASE source = o
          <6>1. before \in [Objects -> Nodes] /\ Original(p, o)
            BY <1>6, <5>1, DiscoveryAssumption DEF Fits, Inherited
          <6> QED BY <6>1, HasIs DEF Original, Alike
        <5>2. CASE source # o
          BY <3>4, <5>2 DEF Sound, Grown
        <5> QED BY <5>1, <5>2
      <4>3. Keeps(s, Q, t, Q \cup {<<o, p.name>>})
        BY <1>2, <4>1, <4>2, SkipKeeps
      <4>4. Handled(t, Q \cup {<<o, p.name>>}, <<o, p.name>>)
        BY DEF Handled
      <4> QED BY <4>3, <4>4
    <3> QED BY <3>2, <3>3, <3>4
  <2> QED BY <2>1, <2>2
<1> QED BY <1>3, <1>4, <1>5, <1>6
\* A loop whose turns stay within sets of values, one for each number of turns.
Turns(h, first, n, Step, Values) ==
  /\ h = [i \in 0..n |-> h[i]] /\ h[0] = first
  /\ \A i \in 1..n : h[i - 1] \in Values[i - 1] /\ h[i] = Step[i][h[i - 1]]

LEMMA LoopWithin ==
  ASSUME NEW n \in Nat, NEW Values, NEW first \in Values[0], NEW Step,
         \A i \in 1..n : \A x \in Values[i - 1] : Step[i][x] \in Values[i]
  PROVE  \E h : Turns(h, first, n, Step, Values)
<1>1. PICK h : Loop(h, first, n, Step)
  BY LoopExists
<1>2. h[0] = first /\ \A i \in 1..n : h[i] = Step[i][h[i - 1]]
  <2>1. Follows(h, first, n, Step)
    BY <1>1, LoopTurns
  <2> QED BY <2>1 DEF Follows
<1>3. PICK T : T = {i \in 0..n : h[i] \in Values[i]}
  OBVIOUS
<1>4. 0 \in T
  <2>1. 0 \in 0..n
    OBVIOUS
  <2> QED BY <1>2, <1>3, <2>1
<1>5. ASSUME NEW i \in 1..n, i - 1 \in T PROVE i \in T
  <2>1. h[i - 1] \in Values[i - 1] /\ i \in 0..n
    BY <1>3, <1>5
  <2> QED BY <1>2, <1>3, <2>1
<1>6. \A i \in 0..n : i \in T
  BY <1>4, <1>5, UpTo
<1>7. \A i \in 1..n : h[i - 1] \in Values[i - 1]
  <2> SUFFICES ASSUME NEW i \in 1..n PROVE h[i - 1] \in Values[i - 1]
    OBVIOUS
  <2>1. i - 1 \in 0..n
    OBVIOUS
  <2> QED BY <1>3, <1>6, <2>1
<1>8. h = [i \in 0..n |-> h[i]]
  BY <1>1 DEF Loop
<1> QED BY <1>2, <1>7, <1>8 DEF Turns

LEMMA BoundedIs ==
  ASSUME limits \in LimitSets, NEW node \in Nodes
  PROVE  /\ Len(BoundedProperties(node)) \in Nat
         /\ Len(BoundedProperties(node)) <= Len(node.own)
         /\ Len(BoundedProperties(node)) <= limits.maxPropertiesPerObject
         /\ ~node.listed => Len(BoundedProperties(node)) = 0
         /\ Whole(node) => Len(BoundedProperties(node)) = Len(node.own)
         /\ TooMany(node) => Len(BoundedProperties(node)) = limits.maxPropertiesPerObject
         /\ DOMAIN BoundedProperties(node) = 1..Len(BoundedProperties(node))
         /\ \A i \in 1..Len(BoundedProperties(node)) : BoundedProperties(node)[i] = node.own[i]
<1>1. PICK props \in Seq(Properties) : props = node.own
  BY NodeType
<1>2. PICK n \in Nat, l \in Nat : n = Len(props) /\ l = limits.maxPropertiesPerObject
  BY LenProperties, DiscoveryAssumption
<1>3. CASE ~node.listed
  <2>1. BoundedProperties(node) = <<>> /\ ~TooMany(node) /\ ~Whole(node)
    BY <1>3 DEF BoundedProperties, TooMany, Whole
  <2>2. Len(<<>>) = 0 /\ DOMAIN <<>> = 1..0
    OBVIOUS
  <2> QED BY <1>1, <1>2, <2>1, <2>2
<1>4. CASE node.listed
  <2>1. PICK m \in {n, l} : m <= n /\ m <= l
    OBVIOUS
  <2>2. Min({n, l}) = m
    BY <2>1, LeastOf
  <2>3. BoundedProperties(node) = SubSeq(props, 1, m)
    BY <1>1, <1>2, <1>4, <2>2 DEF BoundedProperties
  <2>4. m \in Nat /\ m <= Len(props)
    BY <1>2, <2>1
  <2>5. Len(SubSeq(props, 1, m)) = m /\ \A i \in 1..m : SubSeq(props, 1, m)[i] = props[i]
    BY <2>4, SubSeqProperties
  <2>6. DOMAIN SubSeq(props, 1, m) = 1..m
    BY <2>4, <2>5
  <2>7. TooMany(node) <=> n > l
    BY <1>1, <1>2, <1>4 DEF TooMany
  <2>8. (n > l => m = l) /\ (~(n > l) => m = n)
    BY <2>1
  <2> QED BY <1>1, <1>2, <1>4, <2>1, <2>3, <2>4, <2>5, <2>6, <2>7, <2>8 DEF Whole
<1> QED BY <1>3, <1>4

LEMMA GrownTooMany ==
  ASSUME limits \in LimitSets, NEW x \in Nodes, NEW y \in Nodes, Grown(x, y), TooMany(x)
  PROVE  TooMany(y)
<1>1. PICK a \in Nat, b \in Nat, l \in Nat :
        a = Len(x.own) /\ b = Len(y.own) /\ l = limits.maxPropertiesPerObject
  BY NodeType, DiscoveryAssumption
<1> QED BY <1>1 DEF TooMany, Grown
\* The first i of source's properties have had their turn.
Turned(s, Q, t, o, source, props, i) ==
  \E R : /\ Keeps(s, Q, t, R)
         /\ \A m \in 1..i :
              props[m].kind = "function" =>
                Handled(t, R, <<o, props[m].name>>) \/ (source # o /\ Has(before, o, props[m].name))

LEMMA PatchObjectKeeps ==
  ASSUME before \in Graphs, limits \in LimitSets, NEW s, Sound(s), NEW Q, Refused(s, Q), NEW o \in Objects,
         NEW k \in 1..Len(Chain(before, o)), HandledTo(s, Q, o, k - 1),
         NEW source, source = Chain(before, o)[k], NEW t, t = PatchObject(s, o, source)
  PROVE  \E R : /\ Keeps(s, Q, t, R) /\ HandledTo(t, R, o, k)
                /\ t.stats.truncated \/ ~TooMany(before[source])
<1>1. CASE s.stopped
  <2>1. t = s
    BY <1>1 DEF PatchObject
  <2>2. HandledTo(s, Q, o, k)
    BY <1>1 DEF HandledTo, Handled
  <2>3. s.stats.truncated
    BY <1>1 DEF Sound
  <2> QED BY <2>1, <2>2, <2>3, KeepsSame
<1>2. CASE ~s.stopped
  <2>1. /\ s.graph \in [Objects -> Nodes] /\ before \in [Objects -> Nodes]
        /\ IsChain(before, o, Chain(before, o))
    BY StateParts, BeforeChain DEF Sound
  <2>2. source \in Objects
    BY <2>1 DEF IsChain
  <2>3. PICK node \in Nodes, all \in Seq(Properties) : node = s.graph[source] /\ all = node.own
    BY <2>1, <2>2, NodeType
  <2>4. all \in Seq(Properties)
    OBVIOUS
  <2>5. PICK props : props = BoundedProperties(node)
    OBVIOUS
  <2>6. /\ Len(props) \in Nat /\ Len(props) <= Len(all)
        /\ Whole(node) => Len(props) = Len(all)
        /\ TooMany(node) => Len(props) = limits.maxPropertiesPerObject
        /\ DOMAIN props = 1..Len(props) /\ \A i \in 1..Len(props) : props[i] = all[i]
    BY <2>3, <2>5, BoundedIs
  <2>7. PICK n \in Nat : n = Len(props)
    BY <2>6
  <2>8. PICK c \in Nat : c = Len(all)
    BY <2>4, LenProperties
  <2>9. \A i \in 1..n : Fits(props[i], source, s.patched)
    <3>1. n <= c /\ \A i \in 1..n : props[i] = all[i]
      BY <2>6, <2>7, <2>8
    <3>2. \A i \in 1..n : props[i] = all[i] /\ i \in 1..Len(all)
      BY <2>8, <3>1
    <3> QED BY <2>2, <2>3, <3>2 DEF Sound
  <2>10. PICK first : first = Truncates(s, TooMany(node))
    OBVIOUS
  <2>11. Keeps(s, Q, first, Q) /\ (TooMany(node) => first.stats.truncated)
    <3>1. TooMany(node) \in BOOLEAN
      BY DEF TooMany
    <3> QED BY <2>10, <3>1, TruncatesKeeps
  <2>12. Turned(first, Q, first, o, source, props, 0)
    <3>1. Keeps(first, Q, first, Q)
      BY <2>11, KeepsSame DEF Keeps
    <3> QED BY <3>1 DEF Turned
  <2>13. ASSUME NEW i \in 1..n, NEW x, Turned(first, Q, x, o, source, props, i - 1)
         PROVE  Turned(first, Q, PatchOne(x, o, source, props[i]), o, source, props, i)
    <3>1. PICK R : /\ Keeps(first, Q, x, R)
                   /\ \A m \in 1..i - 1 :
                        props[m].kind = "function" =>
                          Handled(x, R, <<o, props[m].name>>) \/ (source # o /\ Has(before, o, props[m].name))
      BY <2>13 DEF Turned
    <3>2. Sound(x) /\ Refused(x, R) /\ Fits(props[i], source, x.patched)
      BY <2>9, <2>11, <3>1, FitsStays DEF Keeps
    <3>3. HandledTo(x, R, o, k - 1)
      BY <2>11, <3>1, HandledStays
    <3>4. PICK y : y = PatchOne(x, o, source, props[i])
      OBVIOUS
    <3>5. PICK X : /\ Keeps(x, R, y, X)
                   /\ props[i].kind = "function" =>
                        Handled(y, X, <<o, props[i].name>>) \/ (source # o /\ Has(before, o, props[i].name))
      BY <3>2, <3>3, <3>4, PatchOneKeeps
    <3>6. Keeps(first, Q, y, X)
      BY <3>1, <3>5, KeepsIsTransitive
    <3>7. ASSUME NEW m \in 1..i, props[m].kind = "function"
          PROVE  Handled(y, X, <<o, props[m].name>>) \/ (source # o /\ Has(before, o, props[m].name))
      <4>1. CASE m = i
        BY <3>5, <3>7, <4>1
      <4>2. CASE m \in 1..i - 1
        BY <3>1, <3>5, <3>7, <4>2, HandledStays
      <4> QED BY <4>1, <4>2
    <3> QED BY <3>4, <3>6, <3>7 DEF Turned
  <2>14. PICK Values : Values = [i \in 0..n |-> {x \in States : Turned(first, Q, x, o, source, props, i)}]
    OBVIOUS
  <2>15. \A x, i : Turned(first, Q, x, o, source, props, i) => x \in States
    BY DEF Turned, Keeps, Sound
  <2>16. PICK Step : Step = [i \in 1..n |-> [x \in Values[i - 1] |-> PatchOne(x, o, source, props[i])]]
    OBVIOUS
  <2>17. first \in Values[0]
    BY <2>12, <2>14, <2>15
  <2>18. ASSUME NEW i \in 1..n, NEW x \in Values[i - 1]
         PROVE  Step[i][x] = PatchOne(x, o, source, props[i]) /\ Step[i][x] \in Values[i]
    <3>1. i - 1 \in 0..n /\ i \in 0..n
      OBVIOUS
    <3>2. Turned(first, Q, x, o, source, props, i - 1)
      BY <2>14, <3>1
    <3>3. Step[i][x] = PatchOne(x, o, source, props[i])
      BY <2>16
    <3> QED BY <2>13, <2>14, <2>15, <3>1, <3>2, <3>3
  <2>19. PICK h : Turns(h, first, n, Step, Values)
    BY <2>17, <2>18, LoopWithin
  <2>20. h = [i \in 0..n |-> IF i = 0 THEN first ELSE PatchOne(h[i - 1], o, source, props[i])]
    <3>1. \A i \in 1..n : h[i] = PatchOne(h[i - 1], o, source, props[i])
      BY <2>18, <2>19 DEF Turns
    <3>2. \A i \in 0..n : i # 0 => i \in 1..n
      OBVIOUS
    <3> QED BY <2>19, <3>1, <3>2 DEF Turns
  <2>21. PICK f : f = CHOOSE done :
           done = [i \in 0..n |-> IF i = 0 THEN first ELSE PatchOne(done[i - 1], o, source, props[i])]
    OBVIOUS
  <2>22. f = [i \in 0..n |-> IF i = 0 THEN first ELSE PatchOne(f[i - 1], o, source, props[i])]
    BY <2>20, <2>21
  <2>23. t = f[n]
    BY <1>2, <2>3, <2>5, <2>7, <2>10, <2>21 DEF PatchObject
  <2>24. PICK T : T = {i \in 0..n : Turned(first, Q, f[i], o, source, props, i)}
    OBVIOUS
  <2>25. 0 \in T
    <3>1. 0 \in 0..n
      OBVIOUS
    <3>2. f[0] = first
      BY <2>22, <3>1
    <3> QED BY <2>12, <2>24, <3>1, <3>2
  <2>26. ASSUME NEW i \in 1..n, i - 1 \in T PROVE i \in T
    <3>1. i \in 0..n /\ i # 0
      OBVIOUS
    <3>2. f[i] = PatchOne(f[i - 1], o, source, props[i])
      BY <2>22, <3>1
    <3> QED BY <2>13, <2>24, <2>26, <3>1, <3>2
  <2>27. \A i \in 0..n : i \in T
    BY <2>25, <2>26, UpTo
  <2>28. Turned(first, Q, t, o, source, props, n)
    BY <2>23, <2>24, <2>27
  <2>29. PICK R : /\ Keeps(first, Q, t, R)
                  /\ \A m \in 1..n :
                       props[m].kind = "function" =>
                         Handled(t, R, <<o, props[m].name>>) \/ (source # o /\ Has(before, o, props[m].name))
    BY <2>28 DEF Turned
  <2>30. Keeps(s, Q, t, R)
    BY <2>11, <2>29, KeepsIsTransitive
  <2>31. PICK b \in Nat : b = Len(before[source].own)
    BY <2>1, <2>2, NodeType
  <2>32. /\ Grown(before[source], node)
         /\ b <= c /\ \A i \in 1..b : Alike(all[i], before[source].own[i])
    BY <2>2, <2>3, <2>8, <2>31 DEF Sound, Grown
  <2>33. t.stats.truncated \/ (~TooMany(node) /\ ~TooMany(before[source]))
    <3>1. TooMany(node) => t.stats.truncated
      BY <2>11, <2>29 DEF Keeps
    <3>2. TooMany(before[source]) => TooMany(node)
      BY <2>1, <2>2, <2>32, GrownTooMany
    <3> QED BY <3>1, <3>2
  <2>34. ASSUME NEW j \in 1..Len(Chain(before, o)), NEW m \in Names, j <= k, Nearest(o, m, j),
                Seen(o, m).kind = "function",
                Whole(before[Chain(before, o)[j]])
         PROVE  Handled(t, R, <<o, m>>)
    <3>1. CASE j <= k - 1
      <4>1. HandledTo(t, R, o, k - 1)
        BY <2>30, HandledStays
      <4> QED BY <2>34, <3>1, <4>1 DEF HandledTo
    <3>2. CASE j = k
      <4>1. Has(before, source, m)
        BY <2>34, <3>2 DEF Nearest
      <4>2. PICK i \in 1..b : before[source].own[i].name = m
        BY <2>1, <2>2, <2>31, <4>1, HasIs, SMTT(30)
      <4>3. Seen(o, m) = before[source].own[i]
        BY <2>31, <2>34, <3>2, <4>2, SeenNearest
      <4>4. b <= n
        <5>1. PICK l \in Nat : l = limits.maxPropertiesPerObject
          BY DiscoveryAssumption
        <5>2. Whole(before[source])
          BY <2>34, <3>2
        <5>3. b <= l
          BY <2>31, <5>1, <5>2 DEF Whole, TooMany
        <5>4. node.listed
          BY <2>32, <5>2 DEF Grown, Whole
        <5> QED BY <2>6, <2>7, <2>8, <2>32, <5>1, <5>3, <5>4 DEF Whole
      <4>5. i \in 1..n
        BY <4>4
      <4>6. props[i].kind = "function" /\ props[i].name = m
        BY <2>6, <2>7, <2>32, <2>34, <4>2, <4>3, <4>5 DEF Alike
      <4>7. Handled(t, R, <<o, m>>) \/ (source # o /\ Has(before, o, m))
        BY <2>29, <4>5, <4>6
      <4>8. ~(source # o /\ Has(before, o, m))
        <5> SUFFICES ASSUME source # o, Has(before, o, m) PROVE FALSE
          OBVIOUS
        <5>1. Chain(before, o)[1] = o /\ k \in Nat
          BY <2>1 DEF IsChain
        <5>2. 1 \in 1..k - 1
          BY <5>1
        <5> QED BY <2>34, <3>2, <5>1, <5>2 DEF Nearest
      <4> QED BY <4>7, <4>8
    <3> QED BY <2>34, <3>1, <3>2
  <2>35. HandledTo(t, R, o, k)
    BY <2>34 DEF HandledTo
  <2> QED BY <2>30, <2>33, <2>35
<1> QED BY <1>1, <1>2

\* The first k objects of o's chain have been patched from.
Patched(s, Q, t, o, k) ==
  \E R : /\ Keeps(s, Q, t, R) /\ HandledTo(t, R, o, k)
         /\ \A j \in 1..Len(Chain(before, o)) :
              j <= k => t.stats.truncated \/ ~TooMany(before[Chain(before, o)[j]])

LEMMA PatchChainKeeps ==
  ASSUME before \in Graphs, limits \in LimitSets, NEW s, Sound(s), NEW Q, Refused(s, Q), NEW o \in Objects,
         NEW t, t = PatchChain(s, o)
  PROVE  Patched(s, Q, t, o, Len(Chain(before, o)))
<1>1. /\ s.graph \in [Objects -> Nodes] /\ before \in [Objects -> Nodes]
      /\ IsChain(before, o, Chain(before, o))
  BY StateParts, BeforeChain DEF Sound
<1>2. PICK chain : chain = Chain(before, o)
  OBVIOUS
<1>3. \A x \in Objects : s.graph[x].proto = before[x].proto
  BY DEF Sound, Grown
<1>4. Chain(s.graph, o) = chain
  BY <1>1, <1>2, <1>3, ChainAlike
<1>5. PICK n \in Nat : n = Len(chain)
  BY <1>1, <1>2, Zenon DEF IsChain
<1>6. Patched(s, Q, s, o, 0)
  <2>1. HandledTo(s, Q, o, 0)
    BY <1>2, <1>5 DEF HandledTo
  <2>2. \A j \in 1..Len(Chain(before, o)) : ~(j <= 0)
    BY <1>2, <1>5
  <2> QED BY <2>1, <2>2, KeepsSame DEF Patched
<1>7. ASSUME NEW i \in 1..n, NEW x, Patched(s, Q, x, o, i - 1)
      PROVE  Patched(s, Q, PatchObject(x, o, chain[i]), o, i)
  <2>1. PICK R : /\ Keeps(s, Q, x, R) /\ HandledTo(x, R, o, i - 1)
                 /\ \A j \in 1..n :
                      j <= i - 1 => x.stats.truncated \/ ~TooMany(before[chain[j]])
    BY <1>2, <1>5, <1>7 DEF Patched
  <2>2. PICK y : y = PatchObject(x, o, chain[i])
    OBVIOUS
  <2>3. Sound(x) /\ Refused(x, R) /\ i \in 1..Len(Chain(before, o))
    BY <1>2, <1>5, <2>1 DEF Keeps
  <2>4. PICK X : /\ Keeps(x, R, y, X) /\ HandledTo(y, X, o, i)
                 /\ y.stats.truncated \/ ~TooMany(before[chain[i]])
    BY <1>2, <2>1, <2>2, <2>3, PatchObjectKeeps
  <2>5. Keeps(s, Q, y, X)
    BY <2>1, <2>4, KeepsIsTransitive
  <2>6. ASSUME NEW j \in 1..n, j <= i
        PROVE  y.stats.truncated \/ ~TooMany(before[chain[j]])
    <3>1. CASE j = i
      BY <2>4, <3>1
    <3>2. CASE j <= i - 1
      BY <2>1, <2>4, <3>2 DEF Keeps
    <3> QED BY <2>6, <3>1, <3>2
  <2> QED BY <1>2, <1>5, <2>2, <2>4, <2>5, <2>6 DEF Patched
<1>8. PICK Values : Values = [i \in 0..n |-> {x \in States : Patched(s, Q, x, o, i)}]
  OBVIOUS
<1>9. \A x, i : Patched(s, Q, x, o, i) => x \in States
  BY DEF Patched, Keeps, Sound
<1>10. PICK Step : Step = [i \in 1..n |-> [x \in Values[i - 1] |-> PatchObject(x, o, chain[i])]]
  OBVIOUS
<1>11. s \in Values[0]
  BY <1>6, <1>8, <1>9
<1>12. ASSUME NEW i \in 1..n, NEW x \in Values[i - 1]
       PROVE  Step[i][x] = PatchObject(x, o, chain[i]) /\ Step[i][x] \in Values[i]
  <2>1. i - 1 \in 0..n /\ i \in 0..n
    OBVIOUS
  <2>2. Patched(s, Q, x, o, i - 1)
    BY <1>8, <2>1
  <2>3. Step[i][x] = PatchObject(x, o, chain[i])
    BY <1>10
  <2> QED BY <1>7, <1>8, <1>9, <2>1, <2>2, <2>3
<1>13. PICK h : Turns(h, s, n, Step, Values)
  BY <1>11, <1>12, LoopWithin
<1>14. h = [i \in 0..n |-> IF i = 0 THEN s ELSE PatchObject(h[i - 1], o, chain[i])]
  <2>1. \A i \in 1..n : h[i] = PatchObject(h[i - 1], o, chain[i])
    BY <1>12, <1>13 DEF Turns
  <2>2. \A i \in 0..n : i # 0 => i \in 1..n
    OBVIOUS
  <2> QED BY <1>13, <2>1, <2>2 DEF Turns
<1>15. PICK f : f = CHOOSE done : done = [i \in 0..n |-> IF i = 0 THEN s ELSE PatchObject(done[i - 1], o, chain[i])]
  OBVIOUS
<1>16. f = [i \in 0..n |-> IF i = 0 THEN s ELSE PatchObject(f[i - 1], o, chain[i])]
  BY <1>14, <1>15
<1>17. t = f[n]
  BY <1>4, <1>5, <1>15 DEF PatchChain
<1>18. PICK T : T = {i \in 0..n : Patched(s, Q, f[i], o, i)}
  OBVIOUS
<1>19. 0 \in T
  <2>1. 0 \in 0..n
    OBVIOUS
  <2>2. f[0] = s
    BY <1>16, <2>1
  <2> QED BY <1>6, <1>18, <2>1, <2>2
<1>20. ASSUME NEW i \in 1..n, i - 1 \in T PROVE i \in T
  <2>1. i \in 0..n /\ i # 0
    OBVIOUS
  <2>2. f[i] = PatchObject(f[i - 1], o, chain[i])
    BY <1>16, <2>1
  <2> QED BY <1>7, <1>18, <1>20, <2>1, <2>2
<1>21. \A i \in 0..n : i \in T
  BY <1>19, <1>20, UpTo
<1> QED BY <1>2, <1>5, <1>17, <1>18, <1>21
-----------------------------------------------------------------------------
(* Children: methods put on an object are not among them. *)

IndexEntries(node) ==
  {i \in 1..Len(BoundedProperties(node)) : node.kind = "array" /\ node.own[i].name \in IndexNames}

\* The entries before i that can be read.
EntriesBefore(node, i) ==
  {j \in IndexEntries(node) : j < i /\ node.own[j].kind # "unreadable"}

Surplus(node, i) ==
  i \in IndexEntries(node) /\ Cardinality(EntriesBefore(node, i)) >= limits.maxCollectionEntries

Kids(node) ==
  ({node.entries[i] : i \in {i \in 1..Len(node.entries) : i <= limits.maxCollectionEntries}}
   \cup {node.own[i].value :
           i \in {i \in 1..Len(BoundedProperties(node)) : node.own[i].kind = "object" /\ ~Surplus(node, i)}})
  \ {NoObject}

LEMMA FirstIs ==
  ASSUME limits \in LimitSets, NEW S, NEW entries \in Seq(S)
  PROVE  /\ First(limits.maxCollectionEntries, entries) \in Seq(S)
         /\ Len(First(limits.maxCollectionEntries, entries)) \in Nat
         /\ \A i \in Nat : i \in 1..Len(First(limits.maxCollectionEntries, entries))
                           <=> i \in 1..Len(entries) /\ i <= limits.maxCollectionEntries
         /\ \A i \in 1..Len(First(limits.maxCollectionEntries, entries)) :
              First(limits.maxCollectionEntries, entries)[i] = entries[i]
<1>1. PICK n \in Nat, l \in Nat : n = Len(entries) /\ l = limits.maxCollectionEntries
  BY LenProperties, DiscoveryAssumption
<1>2. PICK m \in {n, l} : m <= n /\ m <= l
  OBVIOUS
<1>3. Min({l, n}) = m
  BY <1>2, LeastOf
<1>4. First(limits.maxCollectionEntries, entries) = SubSeq(entries, 1, m)
  BY <1>1, <1>3 DEF First
<1>5. m \in Nat /\ m <= Len(entries)
  BY <1>1, <1>2
<1>6. /\ SubSeq(entries, 1, m) \in Seq(S) /\ Len(SubSeq(entries, 1, m)) = m
      /\ \A i \in 1..m : SubSeq(entries, 1, m)[i] = entries[i]
  BY <1>5, SubSeqProperties
<1>7. \A i \in Nat : i \in 1..m <=> i \in 1..n /\ i <= l
  BY <1>2
<1> QED BY <1>1, <1>4, <1>5, <1>6, <1>7

LEMMA ChildrenAre ==
  ASSUME limits \in LimitSets, NEW node \in Nodes
  PROVE  /\ Children(node).values \in Seq(Objects \cup {NoObject})
         /\ ToSet(Children(node).values) \ {NoObject} = Kids(node)
         /\ Children(node).truncated =
              (\/ TooMany(node)
               \/ Len(node.entries) > limits.maxCollectionEntries
               \/ \E i \in IndexEntries(node) : Surplus(node, i))
<1>1. /\ node.own \in Seq(Properties) /\ node.entries \in Seq(Objects \cup {NoObject})
      /\ \A i \in 1..Len(node.own) : node.own[i] \in Properties
      /\ Len(node.own) \in Nat /\ Len(node.entries) \in Nat
  BY NodeType
<1>2. PICK props : props = BoundedProperties(node)
  OBVIOUS
<1>3. PICK n \in Nat : n = Len(props)
  BY <1>1, <1>2, BoundedIs
<1>4. DOMAIN props = 1..n /\ n <= Len(node.own) /\ \A i \in 1..n : props[i] = node.own[i]
  BY <1>1, <1>2, <1>3, BoundedIs
<1>5. PICK front : front = First(limits.maxCollectionEntries, node.entries)
  OBVIOUS
<1>6. /\ front \in Seq(Objects \cup {NoObject}) /\ Len(front) \in Nat
      /\ \A i \in Nat : i \in 1..Len(front) <=> i \in 1..Len(node.entries) /\ i <= limits.maxCollectionEntries
      /\ \A i \in 1..Len(front) : front[i] = node.entries[i]
  BY <1>1, <1>5, FirstIs
<1>7. PICK entries : entries = {i \in DOMAIN props : node.kind = "array" /\ props[i].name \in IndexNames}
  OBVIOUS
<1>8. entries = IndexEntries(node)
  BY <1>2, <1>3, <1>4, <1>7 DEF IndexEntries
<1>9. ASSUME NEW i \in 1..n
      PROVE  {j \in entries : j < i /\ props[j].kind # "unreadable"} = EntriesBefore(node, i)
  BY <1>4, <1>7, <1>8 DEF EntriesBefore
<1>10. \A i \in 1..n : /\ i \in entries
                        /\ Cardinality({j \in entries : j < i /\ props[j].kind # "unreadable"})
                             >= limits.maxCollectionEntries
                       <=> Surplus(node, i)
  BY <1>8, <1>9 DEF Surplus
<1>11. PICK back : back = [i \in 1..n |-> IF props[i].kind = "object" /\ ~Surplus(node, i)
                                           THEN props[i].value ELSE NoObject]
  OBVIOUS
<1>12. Children(node).values = front \o back
  <2>1. back = [i \in DOMAIN props |->
                  IF /\ props[i].kind = "object"
                     /\ ~(/\ i \in entries
                          /\ Cardinality({j \in entries : j < i /\ props[j].kind # "unreadable"})
                               >= limits.maxCollectionEntries)
                  THEN props[i].value ELSE NoObject]
    BY <1>4, <1>10, <1>11
  <2> QED BY <1>2, <1>5, <1>7, <2>1 DEF Children
<1>13. Children(node).truncated =
         (\/ TooMany(node)
          \/ Len(node.entries) > limits.maxCollectionEntries
          \/ \E i \in entries :
               /\ i \in entries
               /\ Cardinality({j \in entries : j < i /\ props[j].kind # "unreadable"})
                    >= limits.maxCollectionEntries)
  BY <1>2, <1>7 DEF Children
<1>14. back \in Seq(Objects \cup {NoObject}) /\ Len(back) = n
  <2>1. \A i \in 1..n : props[i] \in Properties
    BY <1>1, <1>4
  <2>2. \A i \in 1..n : props[i].value \in Objects \cup {NoObject}
    BY <2>1 DEF Properties
  <2>3. back \in [1..n -> Objects \cup {NoObject}]
    BY <1>11, <2>2
  <2> QED BY <2>3
<1>15. PICK all : all = front \o back
  OBVIOUS
<1>16. PICK m \in Nat : m = Len(front)
  BY <1>6
<1>17. /\ all \in Seq(Objects \cup {NoObject}) /\ Len(all) = m + n
       /\ \A i \in 1..m : all[i] = front[i]
       /\ \A i \in 1..n : all[m + i] = back[i]
  <2>1. all \in Seq(Objects \cup {NoObject}) /\ Len(all) = m + n
        /\ \A i \in 1..m + n : all[i] = IF i <= m THEN front[i] ELSE back[i - m]
    BY <1>6, <1>14, <1>15, <1>16, ConcatProperties, ZenonT(30)
  <2>2. \A i \in 1..n : m + i \in 1..m + n /\ ~(m + i <= m) /\ (m + i) - m = i
    OBVIOUS
  <2> QED BY <2>1, <2>2
<1>18. ToSet(all) = {all[i] : i \in 1..m + n}
  BY <1>17, LenProperties DEF ToSet
<1>19. ASSUME NEW v \in ToSet(all), v # NoObject
       PROVE  v \in Kids(node)
  <2>1. PICK i \in 1..m + n : v = all[i]
    BY <1>18
  <2>2. CASE i \in 1..m
    BY <1>6, <1>16, <1>17, <1>19, <2>1, <2>2 DEF Kids
  <2>3. CASE i \notin 1..m
    <3>1. PICK j \in 1..n : i = m + j
      <4>1. i - m \in 1..n /\ i = m + (i - m)
        BY <2>3
      <4> QED BY <4>1
    <3>2. v = back[j] /\ back[j] # NoObject
      BY <1>17, <1>19, <2>1, <3>1
    <3>3. props[j].kind = "object" /\ ~Surplus(node, j) /\ v = props[j].value
      BY <1>11, <3>2
    <3>4. props[j] = node.own[j] /\ j \in 1..Len(BoundedProperties(node))
      BY <1>2, <1>3, <1>4
    <3> QED BY <1>19, <3>3, <3>4 DEF Kids
  <2> QED BY <2>2, <2>3
<1>20. ASSUME NEW v \in Kids(node)
       PROVE  v \in ToSet(all) /\ v # NoObject
  <2>1. v # NoObject
    BY <1>20 DEF Kids
  <2>2. CASE \E i \in 1..Len(node.entries) : i <= limits.maxCollectionEntries /\ v = node.entries[i]
    <3>1. PICK i \in 1..Len(node.entries) : i <= limits.maxCollectionEntries /\ v = node.entries[i]
      BY <2>2
    <3>2. i \in 1..m /\ v = front[i]
      BY <1>6, <1>16, <3>1
    <3> QED BY <1>17, <1>18, <2>1, <3>2
  <2>3. CASE \E i \in 1..n : node.own[i].kind = "object" /\ ~Surplus(node, i) /\ v = node.own[i].value
    <3>1. PICK i \in 1..n : node.own[i].kind = "object" /\ ~Surplus(node, i) /\ v = node.own[i].value
      BY <2>3
    <3>2. v = back[i]
      BY <1>4, <1>11, <3>1
    <3>3. v = all[m + i] /\ m + i \in 1..m + n
      BY <1>17, <3>2
    <3> QED BY <1>18, <2>1, <3>3
  <2> QED BY <1>2, <1>3, <1>20, <2>2, <2>3 DEF Kids
<1>21. ToSet(all) \ {NoObject} = Kids(node)
  BY <1>19, <1>20
<1>22. (\E i \in entries :
          /\ i \in entries
          /\ Cardinality({j \in entries : j < i /\ props[j].kind # "unreadable"})
               >= limits.maxCollectionEntries)
       <=> \E i \in IndexEntries(node) : Surplus(node, i)
  BY <1>4, <1>7, <1>8, <1>10
<1> QED BY <1>12, <1>13, <1>15, <1>17, <1>21, <1>22
LEMMA KidsGrown ==
  ASSUME limits \in LimitSets, NEW x \in Nodes, NEW y \in Nodes, Grown(x, y)
  PROVE  Kids(y) = Kids(x) /\ (Children(x).truncated => Children(y).truncated)
<1>1. PICK a \in Nat, b \in Nat, l \in Nat :
        a = Len(x.own) /\ b = Len(y.own) /\ l = limits.maxPropertiesPerObject
  BY NodeType, DiscoveryAssumption
<1>2. PICK m \in Nat, n \in Nat :
        /\ m = Len(BoundedProperties(x)) /\ m <= a /\ m <= l
        /\ IF x.listed THEN m = a \/ m = l ELSE m = 0
        /\ n = Len(BoundedProperties(y)) /\ n <= b /\ n <= l
        /\ IF y.listed THEN n = b \/ n = l ELSE n = 0
  <2>1. ASSUME NEW z \in Nodes, z.listed, ~(Len(BoundedProperties(z)) = Len(z.own))
        PROVE  Len(BoundedProperties(z)) = l
    BY <1>1, <2>1, BoundedIs DEF Whole
  <2> QED BY <1>1, <2>1, BoundedIs
<1>3. /\ y.kind = x.kind /\ y.entries = x.entries /\ a <= b /\ y.listed = x.listed
      /\ \A i \in 1..a : Alike(y.own[i], x.own[i])
      /\ \A i \in 1..b : i > a => y.own[i].kind = "function"
  BY <1>1 DEF Grown
<1>4. m <= n /\ \A i \in 1..n : ~(i \in 1..m) => i \in 1..b /\ i > a
  BY <1>2, <1>3
<1>5. \A i \in 1..m : i \in 1..n /\ i \in 1..a
  BY <1>2, <1>4
<1>6. ASSUME NEW i \in 1..m
      PROVE  /\ i \in IndexEntries(x) <=> i \in IndexEntries(y)
             /\ Surplus(x, i) <=> Surplus(y, i)
             /\ y.own[i].kind = x.own[i].kind /\ y.own[i].value = x.own[i].value
  <2>1. ASSUME NEW j \in 1..m PROVE j \in IndexEntries(x) <=> j \in IndexEntries(y)
    <3>1. y.own[j].name = x.own[j].name
      BY <1>3, <1>5 DEF Alike
    <3> QED BY <1>2, <1>3, <1>5, <3>1 DEF IndexEntries
  <2>2. EntriesBefore(x, i) = EntriesBefore(y, i)
    <3>1. \A j \in 1..n : j < i => j \in 1..m
      OBVIOUS
    <3>2. \A j \in 1..m : y.own[j].kind = x.own[j].kind
      BY <1>3, <1>5 DEF Alike
    <3>3. /\ \A j \in IndexEntries(x) : j \in 1..m
          /\ \A j \in IndexEntries(y) : j \in 1..n
      BY <1>2 DEF IndexEntries
    <3> QED BY <2>1, <3>1, <3>2, <3>3 DEF EntriesBefore
  <2>3. Surplus(x, i) <=> Surplus(y, i)
    BY <2>1, <2>2 DEF Surplus
  <2> QED BY <1>3, <1>5, <2>1, <2>3 DEF Alike
<1>7. {x.own[i].value : i \in {i \in 1..m : x.own[i].kind = "object" /\ ~Surplus(x, i)}}
      = {y.own[i].value : i \in {i \in 1..n : y.own[i].kind = "object" /\ ~Surplus(y, i)}}
  <2>1. ASSUME NEW i \in 1..n, y.own[i].kind = "object" PROVE i \in 1..m
    BY <1>3, <1>4, <2>1
  <2>2. \A i \in 1..m : i \in 1..n
    BY <1>5
  <2> QED BY <1>6, <2>1, <2>2
<1>8. Kids(y) = Kids(x)
  BY <1>2, <1>3, <1>7 DEF Kids
<1>9. ASSUME Children(x).truncated
      PROVE  Children(y).truncated
  <2>1. CASE TooMany(x)
    <3>1. TooMany(y)
      BY <2>1, GrownTooMany
    <3> QED BY <3>1, ChildrenAre
  <2>2. CASE Len(x.entries) > limits.maxCollectionEntries
    BY <1>3, <2>2, ChildrenAre
  <2>3. CASE \E i \in IndexEntries(x) : Surplus(x, i)
    <3>1. PICK i \in 1..m : Surplus(x, i)
      BY <1>2, <2>3 DEF IndexEntries
    <3>2. Surplus(y, i) /\ i \in IndexEntries(y)
      BY <1>6, <3>1 DEF Surplus
    <3> QED BY <3>2, ChildrenAre
  <2> QED BY <1>1, <1>9, <2>1, <2>2, <2>3, ChildrenAre
<1> QED BY <1>8, <1>9

LEMMA KidsAll ==
  ASSUME limits \in LimitSets, NEW x \in Nodes
  PROVE  /\ Kids(x) \subseteq ValuesOf(x) /\ ValuesOf(x) \subseteq Objects
         /\ ~Children(x).truncated => Kids(x) = ValuesOf(x)
<1>1. PICK n \in Nat, l \in Nat : n = Len(x.own) /\ l = limits.maxPropertiesPerObject
  BY NodeType, DiscoveryAssumption
<1>2. PICK m \in Nat :
        /\ m = Len(BoundedProperties(x)) /\ m <= n
        /\ (~x.listed => m = 0) /\ (Whole(x) => m = n)
  BY <1>1, BoundedIs
<1>3. /\ DOMAIN x.own = 1..n /\ DOMAIN x.entries = 1..Len(x.entries) /\ Len(x.entries) \in Nat
      /\ \A i \in 1..n : x.own[i] \in Properties
      /\ \A i \in 1..Len(x.entries) : x.entries[i] \in Objects \cup {NoObject}
  BY <1>1, NodeType
<1>4. ValuesOf(x) = ({x.entries[i] : i \in 1..Len(x.entries)}
                     \cup {x.own[i].value : i \in {i \in 1..n : x.listed /\ x.own[i].kind = "object"}})
                    \ {NoObject}
  BY <1>3 DEF ValuesOf, ToSet
<1>5. \A i \in 1..n : x.own[i].value \in Objects \cup {NoObject}
  BY <1>3 DEF Properties
<1>6. ValuesOf(x) \subseteq Objects
  BY <1>3, <1>4, <1>5
<1>7. \A i \in 1..m : i \in 1..n /\ x.listed
  <2>1. x.listed \in BOOLEAN
    BY NodeType
  <2> QED BY <1>2, <2>1
<1>8. Kids(x) \subseteq ValuesOf(x)
  BY <1>2, <1>4, <1>7 DEF Kids
<1>9. ASSUME ~Children(x).truncated
      PROVE  ValuesOf(x) \subseteq Kids(x)
  <2>1. /\ ~TooMany(x) /\ ~(Len(x.entries) > limits.maxCollectionEntries)
        /\ \A i \in IndexEntries(x) : ~Surplus(x, i)
    BY <1>1, <1>9, ChildrenAre
  <2>2. x.listed => m = n
    BY <1>2, <2>1 DEF Whole
  <2>3. \A i \in 1..n : ~Surplus(x, i)
    BY <2>1 DEF Surplus
  <2>4. limits.maxCollectionEntries \in Nat
    BY DiscoveryAssumption
  <2>5. \A i \in 1..Len(x.entries) : i <= limits.maxCollectionEntries
    BY <1>3, <2>1, <2>4
  <2> QED BY <1>2, <1>4, <2>2, <2>3, <2>5 DEF Kids
<1> QED BY <1>6, <1>8, <1>9

-----------------------------------------------------------------------------
(* The objects within some steps of the root *)

LEMMA WithinTurns ==
  ASSUME NEW Steps \in [Objects -> SUBSET Objects], NEW c \in Nat, c = Cardinality(Objects)
  PROVE  /\ Within(0, Steps) = {Root}
         /\ \A d \in 0..c : Within(d, Steps) \subseteq Objects
         /\ \A d \in 1..c :
              Within(d, Steps) = Within(d - 1, Steps) \cup UNION {Steps[o] : o \in Within(d - 1, Steps)}
<1> DEFINE Wider(x) == x \cup UNION {Steps[o] : o \in x}
<1>1. PICK Values : Values = [i \in 0..c |-> SUBSET Objects]
  OBVIOUS
<1>2. PICK Step : Step = [i \in 1..c |-> [x \in SUBSET Objects |-> Wider(x)]]
  OBVIOUS
<1>3. \A x \in SUBSET Objects : Wider(x) \in SUBSET Objects
  OBVIOUS
<1>4. {Root} \in Values[0]
  BY <1>1, DiscoveryAssumption
<1> HIDE DEF Wider
<1>5. ASSUME NEW i \in 1..c, NEW x \in Values[i - 1]
      PROVE  Step[i][x] = Wider(x) /\ Step[i][x] \in Values[i]
  <2>1. i - 1 \in 0..c /\ i \in 0..c
    OBVIOUS
  <2>2. x \in SUBSET Objects
    BY <1>1, <2>1
  <2> QED BY <1>1, <1>2, <1>3, <2>1, <2>2
<1>6. PICK h : Turns(h, {Root}, c, Step, Values)
  BY <1>4, <1>5, LoopWithin
<1>7. h = [i \in 0..c |-> IF i = 0 THEN {Root} ELSE h[i - 1] \cup UNION {Steps[o] : o \in h[i - 1]}]
  <2>1. \A i \in 1..c : h[i] = Wider(h[i - 1])
    BY <1>5, <1>6 DEF Turns
  <2>2. \A i \in 0..c : i # 0 => i \in 1..c
    OBVIOUS
  <2> QED BY <1>6, <2>1, <2>2 DEF Turns, Wider
<1>8. PICK f : f = CHOOSE near : near =
        [d \in 0..c |-> IF d = 0 THEN {Root} ELSE near[d - 1] \cup UNION {Steps[o] : o \in near[d - 1]}]
  OBVIOUS
<1>9. f = [d \in 0..c |-> IF d = 0 THEN {Root} ELSE f[d - 1] \cup UNION {Steps[o] : o \in f[d - 1]}]
  BY <1>7, <1>8
<1>10. \A d : Within(d, Steps) = f[d]
  BY <1>8 DEF Within
<1>11. f[0] = {Root}
  <2>1. 0 \in 0..c
    OBVIOUS
  <2> QED BY <1>9, <2>1
<1>12. \A d \in 1..c : f[d] = f[d - 1] \cup UNION {Steps[o] : o \in f[d - 1]}
  <2>1. \A d \in 1..c : d \in 0..c /\ d # 0
    OBVIOUS
  <2> QED BY <1>9, <2>1
<1>13. PICK T : T = {d \in 0..c : f[d] \subseteq Objects}
  OBVIOUS
<1>14. 0 \in T
  <2>1. 0 \in 0..c /\ f[0] \subseteq Objects
    BY <1>11, DiscoveryAssumption
  <2> QED BY <1>13, <2>1
<1>15. ASSUME NEW d \in 1..c, d - 1 \in T PROVE d \in T
  <2>1. f[d - 1] \in SUBSET Objects /\ d \in 0..c
    BY <1>13, <1>15
  <2>2. f[d] = Wider(f[d - 1])
    BY <1>12 DEF Wider
  <2> QED BY <1>3, <1>13, <2>1, <2>2
<1>16. \A d \in 0..c : d \in T
  BY <1>14, <1>15, UpTo
<1> QED BY <1>10, <1>11, <1>12, <1>13, <1>16
-----------------------------------------------------------------------------
(* The queue: claimed objects, each once. *)

Items == [obj : Objects, depth : Nat]

WellQueued(q) ==
  /\ q \in [queue : Seq(Items), visited : SUBSET Objects, truncated : BOOLEAN]
  /\ q.visited = {q.queue[i].obj : i \in 1..Len(q.queue)}
  /\ \A i, j \in 1..Len(q.queue) : q.queue[i].obj = q.queue[j].obj => i = j

\* From q the queue has come to r, with the first i of the values offered at this depth.
Offered(q, r, values, depth, i) ==
  /\ WellQueued(r) /\ Len(q.queue) <= Len(r.queue)
  /\ \A m \in 1..Len(q.queue) : r.queue[m] = q.queue[m]
  /\ \A m \in 1..Len(r.queue) :
       m > Len(q.queue) =>
         /\ r.queue[m].depth = depth /\ depth <= limits.maxDepth
         /\ \E j \in 1..i : r.queue[m].obj = values[j]
  /\ \A j \in 1..i :
       values[j] = NoObject \/ values[j] \in r.visited \/ (depth > limits.maxDepth /\ r.truncated)
  /\ q.truncated => r.truncated

LEMMA EnqueueOffers ==
  ASSUME limits \in LimitSets, NEW q, WellQueued(q), NEW depth \in Nat,
         NEW values \in Seq(Objects \cup {NoObject}), NEW i \in 1..Len(values),
         NEW r, Offered(q, r, values, depth, i - 1), NEW t, t = Enqueue(r, values[i], depth)
  PROVE  Offered(q, t, values, depth, i)
<1>1. PICK value \in Objects \cup {NoObject} : value = values[i]
  BY ElementOfSeq
<1>2. /\ r \in [queue : Seq(Items), visited : SUBSET Objects, truncated : BOOLEAN]
      /\ r.visited = {r.queue[m].obj : m \in 1..Len(r.queue)}
      /\ \A m, j \in 1..Len(r.queue) : r.queue[m].obj = r.queue[j].obj => m = j
  BY DEF Offered, WellQueued
<1>3. PICK a \in Nat, b \in Nat : a = Len(q.queue) /\ b = Len(r.queue)
  BY <1>2, LenProperties DEF WellQueued
<1>4. /\ a <= b
      /\ \A m \in 1..a : r.queue[m] = q.queue[m]
      /\ \A m \in 1..b : m > a => r.queue[m].depth = depth /\ depth <= limits.maxDepth
                                  /\ \E j \in 1..i - 1 : r.queue[m].obj = values[j]
      /\ \A j \in 1..i - 1 :
           values[j] = NoObject \/ values[j] \in r.visited \/ (depth > limits.maxDepth /\ r.truncated)
      /\ q.truncated => r.truncated
  BY <1>3 DEF Offered
<1>5. \A j \in 1..i : j = i \/ j \in 1..i - 1
  OBVIOUS
<1>6. \A j \in 1..i - 1 : j \in 1..i
  OBVIOUS
<1>7. limits.maxDepth \in Nat
  BY DiscoveryAssumption
<1>8. CASE value = NoObject \/ value \in r.visited
  <2>1. t = r
    BY <1>1, <1>8 DEF Enqueue
  <2>2. \A j \in 1..i :
          values[j] = NoObject \/ values[j] \in r.visited \/ (depth > limits.maxDepth /\ r.truncated)
    BY <1>1, <1>4, <1>5, <1>8
  <2>3. \A m \in 1..b : m > a => r.queue[m].depth = depth /\ depth <= limits.maxDepth
                                 /\ \E j \in 1..i : r.queue[m].obj = values[j]
    BY <1>4, <1>6
  <2>4. WellQueued(r)
    BY DEF Offered
  <2> QED BY <1>3, <1>4, <2>1, <2>2, <2>3, <2>4 DEF Offered
<1>9. CASE value # NoObject /\ value \notin r.visited /\ depth > limits.maxDepth
  <2>1. t = [r EXCEPT !.truncated = TRUE]
    BY <1>1, <1>9 DEF Enqueue
  <2>2. /\ t \in [queue : Seq(Items), visited : SUBSET Objects, truncated : BOOLEAN]
        /\ t.queue = r.queue /\ t.visited = r.visited /\ t.truncated = TRUE
    BY <1>2, <2>1
  <2>3. WellQueued(t)
    BY <1>2, <2>2 DEF WellQueued
  <2>4. \A j \in 1..i :
          values[j] = NoObject \/ values[j] \in r.visited \/ (depth > limits.maxDepth /\ t.truncated)
    BY <1>4, <1>5, <1>9, <2>2
  <2>5. \A m \in 1..b : m > a => r.queue[m].depth = depth /\ depth <= limits.maxDepth
                                 /\ \E j \in 1..i : r.queue[m].obj = values[j]
    BY <1>4, <1>6
  <2> QED BY <1>3, <1>4, <2>2, <2>3, <2>4, <2>5 DEF Offered
<1>10. CASE value # NoObject /\ value \notin r.visited /\ ~(depth > limits.maxDepth)
  <2>1. PICK item : item = [obj |-> value, depth |-> depth]
    OBVIOUS
  <2>2. item \in Items /\ item.obj = value /\ item.depth = depth /\ value \in Objects
    BY <1>10, <2>1 DEF Items
  <2>3. PICK more : more = Append(r.queue, item)
    OBVIOUS
  <2>4. t = [queue |-> more, visited |-> r.visited \cup {value}, truncated |-> r.truncated]
    BY <1>1, <1>10, <2>1, <2>3 DEF Enqueue
  <2>5. r.queue \in Seq(Items) /\ r.visited \in SUBSET Objects /\ r.truncated \in BOOLEAN
    BY <1>2
  <2>6. /\ more \in Seq(Items) /\ Len(more) = b + 1 /\ more[b + 1] = item
        /\ \A m \in 1..b : more[m] = r.queue[m]
    BY <1>3, <2>2, <2>3, <2>5, AppendProperties
  <2>7. \A m \in 1..b + 1 : m = b + 1 \/ m \in 1..b
    OBVIOUS
  <2>8. /\ t.queue = more /\ t.visited = r.visited \cup {value} /\ t.truncated = r.truncated
        /\ t \in [queue : Seq(Items), visited : SUBSET Objects, truncated : BOOLEAN]
    BY <2>2, <2>4, <2>5, <2>6
  <2>9. t.visited = {more[m].obj : m \in 1..Len(more)}
    <3>1. ASSUME NEW v \in t.visited PROVE \E m \in 1..b + 1 : v = more[m].obj
      <4>1. CASE v = value
        <5>1. b + 1 \in 1..b + 1 /\ more[b + 1].obj = value
          BY <2>2, <2>6
        <5> QED BY <4>1, <5>1
      <4>2. CASE v \in r.visited
        <5>1. PICK m \in 1..b : v = r.queue[m].obj
          BY <1>2, <1>3, <4>2
        <5>2. m \in 1..b + 1 /\ more[m] = r.queue[m]
          BY <2>6
        <5> QED BY <5>1, <5>2
      <4> QED BY <2>8, <3>1, <4>1, <4>2
    <3>2. \A m \in 1..b + 1 : more[m].obj \in t.visited
      BY <1>2, <1>3, <2>2, <2>6, <2>7, <2>8
    <3> QED BY <2>6, <3>1, <3>2
  <2>10. ASSUME NEW m \in 1..b + 1, NEW j \in 1..b + 1, more[m].obj = more[j].obj
         PROVE  m = j
    <3>1. \A x \in 1..b : more[x].obj \in r.visited
      BY <1>2, <1>3, <2>6
    <3>2. CASE m \in 1..b /\ j \in 1..b
      BY <1>2, <1>3, <2>6, <2>10, <3>2
    <3>3. CASE m = b + 1 /\ j \in 1..b
      BY <1>10, <2>2, <2>6, <2>10, <3>1, <3>3
    <3>4. CASE j = b + 1 /\ m \in 1..b
      BY <1>10, <2>2, <2>6, <2>10, <3>1, <3>4
    <3> QED BY <2>7, <3>2, <3>3, <3>4
  <2>11. WellQueued(t)
    <3>1. \A m, j \in 1..Len(t.queue) : t.queue[m].obj = t.queue[j].obj => m = j
      BY <2>6, <2>8, <2>10
    <3>2. t.visited = {t.queue[m].obj : m \in 1..Len(t.queue)}
      BY <2>8, <2>9
    <3> QED BY <2>8, <3>1, <3>2 DEF WellQueued
  <2>12. a <= Len(more) /\ \A m \in 1..a : more[m] = q.queue[m]
    BY <1>4, <2>6
  <2>13. ASSUME NEW m \in 1..b + 1, m > a
         PROVE  more[m].depth = depth /\ depth <= limits.maxDepth /\ \E j \in 1..i : more[m].obj = values[j]
    <3>1. CASE m = b + 1
      BY <1>1, <1>7, <1>10, <2>2, <2>6, <3>1
    <3>2. CASE m \in 1..b
      BY <1>4, <1>6, <2>6, <2>13, <3>2
    <3> QED BY <2>7, <3>1, <3>2
  <2>14. \A j \in 1..i :
           values[j] = NoObject \/ values[j] \in t.visited \/ (depth > limits.maxDepth /\ t.truncated)
    BY <1>1, <1>4, <1>5, <2>8
  <2> QED BY <1>3, <1>4, <2>6, <2>8, <2>11, <2>12, <2>13, <2>14 DEF Offered
<1> QED BY <1>8, <1>9, <1>10

LEMMA EnqueueAllOffers ==
  ASSUME limits \in LimitSets, NEW q, WellQueued(q), NEW depth \in Nat,
         NEW values \in Seq(Objects \cup {NoObject}), NEW t, t = EnqueueAll(q, values, depth)
  PROVE  Offered(q, t, values, depth, Len(values))
<1>1. PICK n \in Nat : n = Len(values)
  BY LenProperties
<1>2. Offered(q, q, values, depth, 0)
  <2>1. PICK a \in Nat : a = Len(q.queue)
    BY LenProperties DEF WellQueued
  <2>2. \A m \in 1..a : ~(m > a)
    OBVIOUS
  <2> QED BY <2>1, <2>2 DEF Offered
<1>3. ASSUME NEW i \in 1..n, NEW x, Offered(q, x, values, depth, i - 1)
      PROVE  Offered(q, Enqueue(x, values[i], depth), values, depth, i)
  BY <1>1, <1>3, EnqueueOffers
<1> DEFINE All == [queue : Seq(Items), visited : SUBSET Objects, truncated : BOOLEAN]
<1>4. PICK Values : Values = [i \in 0..n |-> {x \in All : Offered(q, x, values, depth, i)}]
  OBVIOUS
<1>5. \A x, i : Offered(q, x, values, depth, i) => x \in All
  BY DEF Offered, WellQueued
<1> HIDE DEF All
<1>6. PICK Step : Step = [i \in 1..n |-> [x \in Values[i - 1] |-> Enqueue(x, values[i], depth)]]
  OBVIOUS
<1>7. q \in Values[0]
  BY <1>2, <1>4, <1>5
<1>8. ASSUME NEW i \in 1..n, NEW x \in Values[i - 1]
      PROVE  Step[i][x] = Enqueue(x, values[i], depth) /\ Step[i][x] \in Values[i]
  <2>1. i - 1 \in 0..n /\ i \in 0..n
    OBVIOUS
  <2>2. Offered(q, x, values, depth, i - 1)
    BY <1>4, <2>1
  <2>3. Step[i][x] = Enqueue(x, values[i], depth)
    BY <1>6
  <2> QED BY <1>3, <1>4, <1>5, <2>1, <2>2, <2>3
<1>9. PICK h : Turns(h, q, n, Step, Values)
  BY <1>7, <1>8, LoopWithin
<1>10. h = [i \in 0..n |-> IF i = 0 THEN q ELSE Enqueue(h[i - 1], values[i], depth)]
  <2>1. \A i \in 1..n : h[i] = Enqueue(h[i - 1], values[i], depth)
    BY <1>8, <1>9 DEF Turns
  <2>2. \A i \in 0..n : i # 0 => i \in 1..n
    OBVIOUS
  <2> QED BY <1>9, <2>1, <2>2 DEF Turns
<1>11. PICK f : f = CHOOSE done : done = [i \in 0..n |-> IF i = 0 THEN q ELSE Enqueue(done[i - 1], values[i], depth)]
  OBVIOUS
<1>12. f = [i \in 0..n |-> IF i = 0 THEN q ELSE Enqueue(f[i - 1], values[i], depth)]
  BY <1>10, <1>11
<1>13. t = f[n]
  BY <1>1, <1>11 DEF EnqueueAll
<1>14. PICK T : T = {i \in 0..n : Offered(q, f[i], values, depth, i)}
  OBVIOUS
<1>15. 0 \in T
  <2>1. 0 \in 0..n
    OBVIOUS
  <2>2. f[0] = q
    BY <1>12, <2>1
  <2> QED BY <1>2, <1>14, <2>1, <2>2
<1>16. ASSUME NEW i \in 1..n, i - 1 \in T PROVE i \in T
  <2>1. i \in 0..n /\ i # 0
    OBVIOUS
  <2>2. f[i] = Enqueue(f[i - 1], values[i], depth)
    BY <1>12, <2>1
  <2> QED BY <1>3, <1>14, <1>16, <2>1, <2>2
<1>17. \A i \in 0..n : i \in T
  BY <1>15, <1>16, UpTo
<1> QED BY <1>1, <1>13, <1>14, <1>17
-----------------------------------------------------------------------------
(* The limits and the graph as it was found do not change. *)

\* Seen, of a graph that is given.
SeenIn(b, o, n) ==
  LET chain == Chain(b, o)
      at == {i \in DOMAIN chain : Has(b, chain[i], n)}
      props == b[chain[Min(at)]].own
  IN  IF at = {} THEN [kind |-> "nothing"]
      ELSE props[CHOOSE j \in DOMAIN props : props[j].name = n]

KidsOf(o) == Kids(before[o])

Cut(o) ==
  \/ TooMany(before[o])
  \/ Len(before[o].entries) > limits.maxCollectionEntries
  \/ \E i \in IndexEntries(before[o]) : Surplus(before[o], i)

LEMMA SameSeen ==
  ASSUME before' = before
  PROVE  \A o, n : Seen(o, n)' = Seen(o, n)
<1>1. \A o, n : Seen(o, n) = SeenIn(before, o, n)
  BY DEF Seen, SeenIn
<1>2. \A o, n : Seen(o, n)' = SeenIn(before', o, n)
  BY DEF Seen, SeenIn
<1> QED BY <1>1, <1>2

LEMMA SameBounded ==
  ASSUME limits' = limits
  PROVE  \A x : /\ BoundedProperties(x)' = BoundedProperties(x)
                /\ TooMany(x)' <=> TooMany(x)
                /\ Whole(x)' <=> Whole(x)
<1>1. \A x : BoundedProperties(x)' = BoundedProperties(x)
  BY DEF BoundedProperties
<1>2. \A x : TooMany(x)' <=> TooMany(x)
  BY DEF TooMany
<1>3. \A x : Whole(x)' <=> Whole(x)
  BY <1>2 DEF Whole
<1> QED BY <1>1, <1>2, <1>3

LEMMA SameFacts ==
  ASSUME before' = before, limits' = limits
  PROVE  /\ \A o, n, k : Nearest(o, n, k)' <=> Nearest(o, n, k)
         /\ \A p, o, done : Fits(p, o, done)' <=> Fits(p, o, done)
         /\ \A s : Sound(s)' <=> Sound(s)
         /\ \A s, Q : Refused(s, Q)' <=> Refused(s, Q)
         /\ \A s, Q, o, k : HandledTo(s, Q, o, k)' <=> HandledTo(s, Q, o, k)
         /\ \A o : Uncut(o)' <=> Uncut(o)
<1>1. \A o, n, k : Nearest(o, n, k)' <=> Nearest(o, n, k)
  BY DEF Nearest
<1>2. \A o : (Intact(o)' <=> Intact(o)) /\ (Uncut(o)' <=> Uncut(o))
  BY SameBounded DEF Intact, Uncut
<1>3. \A p, o, done : Inherited(p, o, done)' <=> Inherited(p, o, done)
  BY <1>2, SameSeen DEF Inherited
<1>4. \A p, o : Original(p, o)' <=> Original(p, o)
  BY DEF Original
<1>5. \A p, o, done : Fits(p, o, done)' <=> Fits(p, o, done)
  BY <1>3, <1>4 DEF Fits
<1>6. \A s : Sound(s)' <=> Sound(s)
  BY <1>5 DEF Sound
<1>7. \A s, Q : Refused(s, Q)' <=> Refused(s, Q)
  BY DEF Refused
<1>8. \A s, Q, o, k : HandledTo(s, Q, o, k)' <=> HandledTo(s, Q, o, k)
  BY <1>1, SameSeen, SameBounded DEF HandledTo
<1> QED BY <1>1, <1>2, <1>5, <1>6, <1>7, <1>8

LEMMA SameKids ==
  ASSUME before' = before, limits' = limits
  PROVE  \A o : KidsOf(o)' = KidsOf(o) /\ (Cut(o)' <=> Cut(o))
<1>1. \A x : IndexEntries(x)' = IndexEntries(x)
  BY SameBounded DEF IndexEntries
<1>2. \A x, i : Surplus(x, i)' <=> Surplus(x, i)
  <2>1. \A x, i : EntriesBefore(x, i)' = EntriesBefore(x, i)
    BY <1>1 DEF EntriesBefore
  <2> QED BY <1>1, <2>1 DEF Surplus
<1>3. \A x : Kids(x)' = Kids(x)
  BY <1>2, SameBounded DEF Kids
<1>4. \A o : KidsOf(o)' = KidsOf(o)
  BY <1>3 DEF KidsOf
<1>6. \A o : Cut(o)' <=> Cut(o)
  BY <1>1, <1>2, SameBounded DEF Cut
<1> QED BY <1>4, <1>6
Reach == [o \in Objects |-> ValuesOf(before[o])]

\* The queue at its h-th item: depths in order, no object further from the root than its depth.
InLine(q, h) ==
  /\ WellQueued(q) /\ Len(q.queue) # 0 /\ h \in 1..Len(q.queue) + 1
  /\ q.queue[1] = [obj |-> Root, depth |-> 0]
  /\ \A i, j \in 1..Len(q.queue) : i <= j => q.queue[i].depth <= q.queue[j].depth
  /\ \A i \in 1..Len(q.queue) :
       /\ q.queue[i].depth < i /\ q.queue[i].depth <= limits.maxDepth
       /\ q.queue[i].obj \in Within(q.queue[i].depth, Reach)
  /\ h = 1 => Len(q.queue) = 1
  /\ h > 1 => \A i \in 1..Len(q.queue) : q.queue[i].depth <= q.queue[h - 1].depth + 1

\* What the objects before the h-th hold is in the queue; where the scan stopped, or was cut by a
\* limit, it may not be.
IsQueued(q, v, depth) == \E m \in 1..Len(q.queue) : q.queue[m].obj = v /\ q.queue[m].depth <= depth

Leaves(q, i) == q.queue[i].depth + 1 > limits.maxDepth /\ q.truncated

Held(q, i) ==
  /\ \A v \in KidsOf(q.queue[i].obj) : IsQueued(q, v, q.queue[i].depth + 1) \/ Leaves(q, i)
  /\ q.truncated \/ ~Cut(q.queue[i].obj)

Explored(q, h, stopped) == \A i \in 1..h - 1 : (stopped /\ i = h - 1) \/ Held(q, i)

LEMMA ReachIs ==
  ASSUME before \in Graphs, limits \in LimitSets
  PROVE  /\ Reach \in [Objects -> SUBSET Objects]
         /\ \A o \in Objects : before[o] \in Nodes /\ Reach[o] = ValuesOf(before[o]) /\ KidsOf(o) \subseteq Reach[o]
<1>1. before \in [Objects -> Nodes]
  BY DiscoveryAssumption
<1>2. ASSUME NEW o \in Objects
      PROVE  before[o] \in Nodes /\ ValuesOf(before[o]) \subseteq Objects /\ KidsOf(o) \subseteq ValuesOf(before[o])
  BY <1>1, KidsAll DEF KidsOf
<1> QED BY <1>2 DEF Reach

LEMMA Room ==
  ASSUME NEW q, WellQueued(q)
  PROVE  Len(q.queue) <= Cardinality(Objects)
<1>1. PICK queued \in Seq(Items) : queued = q.queue
  BY DEF WellQueued
<1>2. PICK n \in Nat : n = Len(queued)
  BY <1>1, LenProperties
<1>3. \A i \in 1..n : queued[i] \in Items
  BY <1>1, <1>2, ElementOfSeq
<1>4. PICK f : f = [i \in 1..n |-> queued[i].obj]
  OBVIOUS
<1>5. f \in [1..n -> Objects]
  BY <1>3, <1>4 DEF Items
<1>6. \A i, j \in 1..n : f[i] = f[j] => i = j
  BY <1>1, <1>2, <1>4 DEF WellQueued
<1>7. f \in Injection(1..n, Objects)
  BY <1>5, <1>6 DEF Injection, IsInjective
<1>8. Cardinality(1..n) <= Cardinality(Objects)
  BY <1>7, FS_Injection, DiscoveryAssumption
<1>9. Cardinality(1..n) = n
  BY FS_Interval
<1> QED BY <1>1, <1>2, <1>8, <1>9

\* r is the queue q with some of what its h-th object holds.
Longest(q, r, h) ==
  /\ WellQueued(r) /\ Len(q.queue) <= Len(r.queue)
  /\ \A m \in 1..Len(q.queue) : r.queue[m] = q.queue[m]
  /\ \A m \in 1..Len(r.queue) :
       m > Len(q.queue) =>
         /\ r.queue[m].depth = q.queue[h].depth + 1 /\ r.queue[m].depth <= limits.maxDepth
         /\ r.queue[m].obj \in KidsOf(q.queue[h].obj)

LEMMA InLineStep ==
  ASSUME before \in Graphs, limits \in LimitSets, NEW q, NEW h, InLine(q, h), h <= Len(q.queue),
         NEW r, Longest(q, r, h)
  PROVE  InLine(r, h + 1)
<1>1. PICK x \in Seq(Items), y \in Seq(Items) : x = q.queue /\ y = r.queue
  BY DEF InLine, Longest, WellQueued
<1>2. PICK a \in Nat, b \in Nat : a = Len(x) /\ b = Len(y)
  BY <1>1, LenProperties
<1>3. /\ \A i \in 1..a : x[i].obj \in Objects /\ x[i].depth \in Nat
      /\ \A i \in 1..b : y[i].obj \in Objects /\ y[i].depth \in Nat
  <2>1. /\ \A i \in 1..a : x[i] \in Items
        /\ \A i \in 1..b : y[i] \in Items
    BY <1>1, <1>2, ElementOfSeq
  <2> QED BY <2>1 DEF Items
<1>4. /\ a # 0 /\ h \in 1..a
      /\ x[1] = [obj |-> Root, depth |-> 0]
      /\ \A i, j \in 1..a : i <= j => x[i].depth <= x[j].depth
      /\ \A i \in 1..a : x[i].depth < i /\ x[i].depth <= limits.maxDepth
                         /\ x[i].obj \in Within(x[i].depth, Reach)
      /\ h = 1 => a = 1
      /\ h > 1 => \A i \in 1..a : x[i].depth <= x[h - 1].depth + 1
  <2>1. h \in 1..a + 1 /\ h <= a
    BY <1>1, <1>2 DEF InLine
  <2>2. h \in 1..a
    BY <2>1
  <2> QED BY <1>1, <1>2, <2>2 DEF InLine
<1>5. /\ a <= b /\ WellQueued(r)
      /\ \A m \in 1..a : y[m] = x[m]
      /\ \A m \in 1..b : m > a => /\ y[m].depth = x[h].depth + 1 /\ y[m].depth <= limits.maxDepth
                                  /\ y[m].obj \in KidsOf(x[h].obj)
  BY <1>1, <1>2 DEF Longest
<1>6. PICK d \in Nat : d = x[h].depth
  BY <1>3, <1>4
<1>7. \A i \in 1..a : x[i].depth <= d + 1
  <2> SUFFICES ASSUME NEW i \in 1..a PROVE x[i].depth <= d + 1
    OBVIOUS
  <2>1. CASE h = 1
    <3>1. i = h
      BY <1>4, <2>1
    <3> QED BY <1>6, <3>1
  <2>2. CASE h # 1
    <3>1. h > 1 /\ h - 1 \in 1..a /\ h - 1 <= h
      BY <1>4, <2>2
    <3>2. PICK e \in Nat : e = x[h - 1].depth
      BY <1>3, <3>1
    <3>3. PICK c \in Nat : c = x[i].depth
      BY <1>3
    <3>4. e <= d /\ c <= e + 1
      BY <1>4, <1>6, <3>1, <3>2, <3>3
    <3> QED BY <3>3, <3>4
  <2> QED BY <2>1, <2>2
<1>8. \A m \in 1..b : m \in 1..a \/ m > a
  OBVIOUS
<1>9. \A i \in 1..b : y[i].depth <= d + 1
  BY <1>5, <1>6, <1>7, <1>8
<1>10. ASSUME NEW i \in 1..b, NEW j \in 1..b, i <= j
       PROVE  y[i].depth <= y[j].depth
  <2>1. CASE j \in 1..a
    <3>1. i \in 1..a
      BY <1>10, <2>1
    <3> QED BY <1>4, <1>5, <1>10, <2>1, <3>1
  <2>2. CASE j > a
    BY <1>5, <1>6, <1>9, <2>2
  <2> QED BY <1>8, <2>1, <2>2
<1>11. PICK c \in Nat : c = Cardinality(Objects)
  BY ObjectsFinite
<1>12. a <= c
  BY <1>1, <1>2, <1>11, Room DEF InLine
<1>13. d + 1 \in 1..c /\ (d + 1) - 1 = d /\ d + 1 <= a
  <2>1. d < h /\ h <= a
    BY <1>4, <1>6
  <2> QED BY <1>4, <1>12, <2>1
<1>14. Within(d + 1, Reach) = Within(d, Reach) \cup UNION {Reach[o] : o \in Within(d, Reach)}
  BY <1>11, <1>13, ReachIs, WithinTurns
<1>15. ASSUME NEW i \in 1..b
       PROVE  y[i].depth < i /\ y[i].depth <= limits.maxDepth /\ y[i].obj \in Within(y[i].depth, Reach)
  <2>1. CASE i \in 1..a
    BY <1>4, <1>5, <2>1
  <2>2. CASE i > a
    <3>1. y[i].depth = d + 1 /\ y[i].depth <= limits.maxDepth /\ y[i].obj \in KidsOf(x[h].obj)
      BY <1>5, <1>6, <2>2
    <3>2. x[h].obj \in Objects /\ x[h].obj \in Within(d, Reach)
      BY <1>3, <1>4, <1>6
    <3>3. y[i].obj \in Reach[x[h].obj]
      BY <3>1, <3>2, ReachIs
    <3>4. y[i].obj \in Within(d + 1, Reach)
      BY <1>14, <3>2, <3>3
    <3>5. d + 1 < i
      BY <1>13, <2>2
    <3> QED BY <3>1, <3>4, <3>5
  <2> QED BY <1>8, <2>1, <2>2
<1>16. b # 0 /\ h + 1 \in 1..b + 1 /\ y[1] = x[1] /\ h + 1 # 1 /\ (h + 1) - 1 = h /\ y[h] = x[h]
  BY <1>4, <1>5
<1>17. \A i \in 1..b : y[i].depth <= y[(h + 1) - 1].depth + 1
  BY <1>6, <1>9, <1>16
<1> QED BY <1>1, <1>2, <1>4, <1>5, <1>10, <1>15, <1>16, <1>17 DEF InLine
LEMMA ExploredStep ==
  ASSUME before \in Graphs, limits \in LimitSets, NEW q, NEW h, InLine(q, h), h <= Len(q.queue),
         Explored(q, h, FALSE),
         NEW r, Longest(q, r, h), q.truncated => r.truncated, NEW stopped \in BOOLEAN,
         ~stopped => \A v \in KidsOf(q.queue[h].obj) :
                       v \in r.visited \/ (q.queue[h].depth + 1 > limits.maxDepth /\ r.truncated),
         ~stopped => r.truncated \/ ~Cut(q.queue[h].obj)
  PROVE  Explored(r, h + 1, stopped)
<1>1. PICK x \in Seq(Items), y \in Seq(Items) : x = q.queue /\ y = r.queue
  BY DEF InLine, Longest, WellQueued
<1>2. PICK a \in Nat, b \in Nat : a = Len(x) /\ b = Len(y)
  BY <1>1, LenProperties
<1>3. a <= b /\ h \in 1..a /\ \A m \in 1..a : y[m] = x[m]
  <2>1. h \in 1..a + 1 /\ h <= a
    BY <1>1, <1>2 DEF InLine
  <2> QED BY <1>1, <1>2, <2>1 DEF Longest
<1>4. ASSUME NEW i \in 1..h
      PROVE  \/ stopped /\ i = h
             \/ /\ \A v \in KidsOf(y[i].obj) :
                     \/ \E m \in 1..b : y[m].obj = v /\ y[m].depth <= y[i].depth + 1
                     \/ y[i].depth + 1 > limits.maxDepth /\ r.truncated
                /\ r.truncated \/ ~Cut(y[i].obj)
  <2>1. CASE i \in 1..h - 1
    <3>1. i \in 1..a /\ y[i] = x[i]
      BY <1>3, <2>1
    <3>2. /\ \A v \in KidsOf(x[i].obj) :
               \/ \E m \in 1..a : x[m].obj = v /\ x[m].depth <= x[i].depth + 1
               \/ x[i].depth + 1 > limits.maxDepth /\ q.truncated
          /\ q.truncated \/ ~Cut(x[i].obj)
      BY <1>1, <1>2, <2>1, ZenonT(30) DEF Explored, Held, IsQueued, Leaves
    <3>3. \A m \in 1..a : m \in 1..b /\ y[m] = x[m]
      BY <1>3
    <3> QED BY <3>1, <3>2, <3>3
  <2>2. CASE i = h /\ ~stopped
    <3>1. InLine(r, h + 1)
      BY InLineStep
    <3>2. \A m \in 1..b : y[m].depth <= y[h].depth + 1
      <4>1. h + 1 > 1 /\ (h + 1) - 1 = h
        BY <1>3
      <4> QED BY <1>1, <1>2, <3>1, <4>1 DEF InLine
    <3>3. r.visited = {y[m].obj : m \in 1..b}
      BY <1>1, <1>2 DEF Longest, WellQueued
    <3>4. y[h] = x[h]
      BY <1>3
    <3>5. ASSUME NEW v \in KidsOf(x[h].obj)
          PROVE  \/ \E m \in 1..b : y[m].obj = v /\ y[m].depth <= y[h].depth + 1
                 \/ y[h].depth + 1 > limits.maxDepth /\ r.truncated
      <4>1. CASE v \in r.visited
        BY <3>2, <3>3, <4>1
      <4>2. CASE x[h].depth + 1 > limits.maxDepth /\ r.truncated
        BY <3>4, <4>2
      <4> QED BY <1>1, <2>2, <3>5, <4>1, <4>2
    <3>6. r.truncated \/ ~Cut(x[h].obj)
      BY <1>1, <2>2
    <3> QED BY <2>2, <3>4, <3>5, <3>6
  <2> QED BY <1>3, <2>1, <2>2
<1>5. ASSUME NEW i \in 1..h, ~(stopped /\ i = h)
      PROVE  Held(r, i)
  <2>1. /\ \A v \in KidsOf(y[i].obj) :
              \/ \E m \in 1..b : y[m].obj = v /\ y[m].depth <= y[i].depth + 1
              \/ y[i].depth + 1 > limits.maxDepth /\ r.truncated
        /\ r.truncated \/ ~Cut(y[i].obj)
    BY <1>4, <1>5
  <2>2. \A v : IsQueued(r, v, y[i].depth + 1)
               <=> \E m \in 1..b : y[m].obj = v /\ y[m].depth <= y[i].depth + 1
    BY <1>1, <1>2 DEF IsQueued
  <2>3. Leaves(r, i) <=> y[i].depth + 1 > limits.maxDepth /\ r.truncated
    BY <1>1 DEF Leaves
  <2> QED BY <1>1, <2>1, <2>2, <2>3, Zenon DEF Held
<1>6. (h + 1) - 1 = h
  BY <1>3
<1> QED BY <1>5, <1>6 DEF Explored

\* The objects before the h-th have been patched.
Served(s, Q, q, h) ==
  \A i \in 1..h - 1 :
    /\ HandledTo(s, Q, q.queue[i].obj, Len(Chain(before, q.queue[i].obj)))
    /\ s.stats.truncated \/ Uncut(q.queue[i].obj)

\* What the scan keeps true.
Instrumented(s, Q, q, h) ==
  Sound(s) /\ Refused(s, Q) /\ q.truncated = s.stats.truncated /\ Served(s, Q, q, h)

Scans(s, Q, q, h) == Instrumented(s, Q, q, h) /\ InLine(q, h) /\ Explored(q, h, s.stopped)

LEMMA SameScans ==
  ASSUME before' = before, limits' = limits
  PROVE  \A s, Q, q, h : Scans(s, Q, q, h)' <=> Scans(s, Q, q, h)
<1>1. Reach' = Reach
  BY DEF Reach
<1>2. \A q, h : InLine(q, h)' <=> InLine(q, h)
  BY <1>1 DEF InLine
<1>3. \A q, h, stopped : Explored(q, h, stopped)' <=> Explored(q, h, stopped)
  <2>1. ASSUME NEW q, NEW i PROVE Held(q, i)' <=> Held(q, i)
    <3>1. PICK o : o = q.queue[i].obj
      OBVIOUS
    <3>2. KidsOf(o)' = KidsOf(o) /\ (Cut(o)' <=> Cut(o)) /\ (Leaves(q, i)' <=> Leaves(q, i))
      BY SameKids DEF Leaves
    <3> QED BY <3>1, <3>2 DEF Held
  <2> QED BY <2>1 DEF Explored
<1>4. \A s, Q, q, h : Instrumented(s, Q, q, h)' <=> Instrumented(s, Q, q, h)
  BY SameFacts DEF Instrumented, Served
<1> QED BY <1>2, <1>3, <1>4 DEF Scans

AsQueue(q, c) == [queue |-> q.queue, visited |-> q.visited, truncated |-> c]

LEMMA LeavesQueue ==
  ASSUME NEW q, WellQueued(q), NEW h, NEW c \in BOOLEAN, NEW r, r = AsQueue(q, c)
  PROVE  Longest(q, r, h) /\ r.truncated = c /\ r.queue = q.queue /\ r.visited = q.visited
<1>1. q \in [queue : Seq(Items), visited : SUBSET Objects, truncated : BOOLEAN]
  BY DEF WellQueued
<1>2. PICK n \in Nat : n = Len(q.queue)
  BY <1>1, LenProperties
<1>3. r.queue = q.queue /\ r.visited = q.visited /\ r.truncated = c
      /\ r \in [queue : Seq(Items), visited : SUBSET Objects, truncated : BOOLEAN]
  BY <1>1 DEF AsQueue
<1>4. WellQueued(r)
  BY <1>3 DEF WellQueued
<1>5. \A m \in 1..n : ~(m > n)
  OBVIOUS
<1> QED BY <1>2, <1>3, <1>4, <1>5 DEF Longest
\* Visit counts the object it visits.
Counted(s) ==
  [graph |-> s.graph, patched |-> s.patched, stopped |-> FALSE,
   stats |-> [s.stats EXCEPT !.visitedObjects = @ + 1]]

LEMMA VisitBegins ==
  ASSUME NEW s, Sound(s), NEW Q, Refused(s, Q), ~s.stopped, NEW q, NEW h, Served(s, Q, q, h),
         NEW t, t = Counted(s)
  PROVE  Sound(t) /\ Refused(t, Q) /\ t.stats.truncated = s.stats.truncated /\ Served(t, Q, q, h)
<1>1. s \in States /\ s.stats.visitedObjects \in Nat
  BY StateParts DEF Sound
<1>2. s.stats \in [patchedFunctions : Nat, visitedObjects : Nat, skippedFunctions : Nat, truncated : BOOLEAN]
  BY <1>1 DEF States
<1>3. /\ t.graph = s.graph /\ t.patched = s.patched /\ t.stopped = FALSE
      /\ t.stats = [s.stats EXCEPT !.visitedObjects = @ + 1]
  BY DEF Counted
<1>4. /\ t.stats \in [patchedFunctions : Nat, visitedObjects : Nat, skippedFunctions : Nat, truncated : BOOLEAN]
      /\ t.stats.truncated = s.stats.truncated /\ t.stats.skippedFunctions = s.stats.skippedFunctions
  BY <1>2, <1>3
<1>5. t \in States
  BY <1>1, <1>4, StateParts DEF States, Counted
<1>6. Sound(t)
  BY <1>3, <1>5 DEF Sound
<1>7. Refused(t, Q)
  BY <1>4 DEF Refused
<1>8. ASSUME NEW o, NEW k, HandledTo(s, Q, o, k) PROVE HandledTo(t, Q, o, k)
  BY <1>3, <1>8 DEF HandledTo, Handled
<1>9. Served(t, Q, q, h)
  BY <1>4, <1>8 DEF Served
<1> QED BY <1>4, <1>6, <1>7, <1>9

LEMMA VisitPatches ==
  ASSUME before \in Graphs, limits \in LimitSets, NEW s, Sound(s), NEW Q, Refused(s, Q),
         NEW q, WellQueued(q), NEW h \in 1..Len(q.queue), Served(s, Q, q, h),
         NEW t, t = PatchChain(s, q.queue[h].obj)
  PROVE  \E R : Keeps(s, Q, t, R) /\ Served(t, R, q, h + 1)
<1>1. PICK n \in Nat : n = Len(q.queue) /\ q.queue \in Seq(Items)
  BY LenProperties DEF WellQueued
<1>2. PICK o \in Objects : o = q.queue[h].obj
  <2>1. q.queue[h] \in Items
    BY <1>1, ElementOfSeq
  <2> QED BY <2>1 DEF Items
<1>3. PICK k \in Nat : k = Len(Chain(before, o))
  BY BeforeChain DEF IsChain
<1>4. Patched(s, Q, t, o, k)
  BY <1>2, <1>3, PatchChainKeeps
<1>5. PICK R : /\ Keeps(s, Q, t, R) /\ HandledTo(t, R, o, k)
               /\ \A j \in 1..k :
                    j <= k => t.stats.truncated \/ ~TooMany(before[Chain(before, o)[j]])
  BY <1>3, <1>4 DEF Patched
<1>6. t.stats.truncated \/ Uncut(o)
  <2>1. \A j \in 1..k : j <= k
    OBVIOUS
  <2> QED BY <1>3, <1>5, <2>1 DEF Uncut
<1>7. \A i \in 1..(h + 1) - 1 : i = h \/ i \in 1..h - 1
  BY <1>1
<1>8. s.stats.truncated => t.stats.truncated
  BY <1>5 DEF Keeps
<1>9. ASSUME NEW i \in 1..(h + 1) - 1
      PROVE  /\ HandledTo(t, R, q.queue[i].obj, Len(Chain(before, q.queue[i].obj)))
             /\ t.stats.truncated \/ Uncut(q.queue[i].obj)
  <2>1. CASE i = h
    BY <1>2, <1>3, <1>5, <1>6, <2>1
  <2>2. CASE i \in 1..h - 1
    <3>1. /\ HandledTo(s, Q, q.queue[i].obj, Len(Chain(before, q.queue[i].obj)))
          /\ s.stats.truncated \/ Uncut(q.queue[i].obj)
      BY <2>2 DEF Served
    <3> QED BY <1>5, <1>8, <3>1, HandledStays
  <2> QED BY <1>7, <2>1, <2>2
<1>10. Served(t, R, q, h + 1)
  BY <1>9 DEF Served
<1> QED BY <1>5, <1>10

LEMMA VisitStops ==
  ASSUME before \in Graphs, limits \in LimitSets, NEW q, NEW h, InLine(q, h), h <= Len(q.queue),
         Explored(q, h, FALSE), NEW t, Sound(t), t.stopped, NEW R, Refused(t, R), Served(t, R, q, h + 1),
         q.truncated => t.stats.truncated, NEW r, r = AsQueue(q, t.stats.truncated)
  PROVE  Scans(t, R, r, h + 1)
<1>1. t.stopped = TRUE /\ t.stats.truncated \in BOOLEAN
  <2>1. t \in States
    BY DEF Sound
  <2> QED BY <2>1, StateParts
<1>2. Longest(q, r, h) /\ r.truncated = t.stats.truncated /\ r.queue = q.queue
  BY <1>1, LeavesQueue DEF InLine
<1>3. InLine(r, h + 1)
  BY <1>2, InLineStep
<1>4. Explored(r, h + 1, TRUE)
  BY <1>2, ExploredStep
<1>5. Served(t, R, r, h + 1)
  BY <1>2 DEF Served
<1> QED BY <1>1, <1>2, <1>3, <1>4, <1>5 DEF Scans, Instrumented

\* What o holds has been queued or does not fit; Children(o) said it was cut short if it was.
Covers(r, o, depth) ==
  /\ \A v \in KidsOf(o) : v \in r.visited \/ (depth > limits.maxDepth /\ r.truncated)
  /\ r.truncated \/ ~Cut(o)

LEMMA CutIs ==
  ASSUME before \in Graphs, limits \in LimitSets, NEW o \in Objects, NEW node \in Nodes, Grown(before[o], node),
         NEW c, c = Children(node)
  PROVE  /\ c.values \in Seq(Objects \cup {NoObject}) /\ ToSet(c.values) \ {NoObject} = KidsOf(o)
         /\ c.truncated \in BOOLEAN /\ (Cut(o) => c.truncated)
<1>1. before[o] \in Nodes
  BY DiscoveryAssumption
<1>2. Kids(node) = KidsOf(o) /\ (Children(before[o]).truncated => c.truncated)
  BY <1>1, KidsGrown DEF KidsOf
<1>3. c.values \in Seq(Objects \cup {NoObject}) /\ ToSet(c.values) \ {NoObject} = Kids(node)
      /\ c.truncated \in BOOLEAN
  BY ChildrenAre
<1>4. Cut(o) <=> Children(before[o]).truncated
  BY <1>1, ChildrenAre DEF Cut
<1> QED BY <1>2, <1>3, <1>4

LEMMA VisitOffers ==
  ASSUME before \in Graphs, limits \in LimitSets, NEW q, WellQueued(q), NEW h \in 1..Len(q.queue),
         NEW o \in Objects, o = q.queue[h].obj, NEW depth \in Nat, depth = q.queue[h].depth + 1,
         NEW values \in Seq(Objects \cup {NoObject}), ToSet(values) \ {NoObject} = KidsOf(o),
         NEW c \in BOOLEAN, Cut(o) => c,
         NEW r, r = EnqueueAll(AsQueue(q, c), values, depth)
  PROVE  Longest(q, r, h) /\ Covers(r, o, depth)
<1>1. PICK n \in Nat : n = Len(q.queue)
  BY LenProperties DEF WellQueued
<1>2. PICK q0 : q0 = AsQueue(q, c)
  OBVIOUS
<1>3. Longest(q, q0, h) /\ q0.truncated = c /\ q0.queue = q.queue
  BY <1>2, LeavesQueue
<1>4. PICK v \in Nat : v = Len(values) /\ ToSet(values) = {values[j] : j \in 1..v}
  BY LenProperties DEF ToSet
<1>5. Offered(q0, r, values, depth, v)
  <2>1. WellQueued(q0) /\ r = EnqueueAll(q0, values, depth)
    BY <1>2, <1>3 DEF Longest
  <2> QED BY <1>4, <2>1, EnqueueAllOffers
<1>6. /\ WellQueued(r) /\ n <= Len(r.queue)
      /\ \A m \in 1..n : r.queue[m] = q.queue[m]
      /\ \A m \in 1..Len(r.queue) :
           m > n =>
             /\ r.queue[m].depth = depth /\ depth <= limits.maxDepth
             /\ \E j \in 1..v : r.queue[m].obj = values[j]
      /\ \A j \in 1..v :
           values[j] = NoObject \/ values[j] \in r.visited \/ (depth > limits.maxDepth /\ r.truncated)
      /\ c => r.truncated
  BY <1>1, <1>3, <1>5, SMTT(30) DEF Offered
<1>7. \A m \in 1..Len(r.queue) : r.queue[m].obj \in Objects
  <2>1. r.queue \in Seq(Items)
    BY <1>6 DEF WellQueued
  <2>2. \A m \in 1..Len(r.queue) : r.queue[m] \in Items
    BY <2>1, ElementOfSeq
  <2> QED BY <2>2 DEF Items
<1>8. \A m \in 1..Len(r.queue) : m > n => r.queue[m].obj \in KidsOf(o)
  BY <1>4, <1>6, <1>7, DiscoveryAssumption
<1>9. Longest(q, r, h)
  BY <1>1, <1>6, <1>8 DEF Longest
<1>10. \A w \in KidsOf(o) : \E j \in 1..v : w = values[j] /\ w # NoObject
  BY <1>4
<1>11. Covers(r, o, depth)
  BY <1>6, <1>10 DEF Covers
<1> QED BY <1>9, <1>11

LEMMA VisitGoesOn ==
  ASSUME before \in Graphs, limits \in LimitSets, NEW q, NEW h, InLine(q, h), h <= Len(q.queue),
         Explored(q, h, FALSE), NEW t, Sound(t), ~t.stopped, NEW R, Refused(t, R), Served(t, R, q, h + 1),
         q.truncated => t.stats.truncated, NEW r, Longest(q, r, h),
         Covers(r, q.queue[h].obj, q.queue[h].depth + 1),
         NEW u, u = Truncates(t, r.truncated), NEW x, x = AsQueue(r, u.stats.truncated)
  PROVE  Scans(u, R, x, h + 1)
<1>1. r.truncated \in BOOLEAN
  BY DEF Longest, WellQueued
<1>2. Keeps(t, R, u, R) /\ (r.truncated => u.stats.truncated)
  BY <1>1, TruncatesKeeps
<1>3. t \in States /\ t.stopped = FALSE
  <2>1. t \in States
    BY DEF Sound
  <2> QED BY <2>1, StateParts
<1>4. /\ Sound(u) /\ Refused(u, R) /\ (t.stats.truncated => u.stats.truncated)
      /\ u.stopped = FALSE
  <2>1. u.stopped = t.stopped
    BY <1>3 DEF Truncates, States
  <2> QED BY <1>2, <1>3, <2>1 DEF Keeps
<1>5. u.stats.truncated \in BOOLEAN
  <2>1. u \in States
    BY <1>4 DEF Sound
  <2> QED BY <2>1, StateParts
<1>6. Longest(q, x, h) /\ x.truncated = u.stats.truncated /\ x.queue = r.queue /\ x.visited = r.visited
  <2>1. WellQueued(r)
    BY DEF Longest
  <2>2. Longest(r, x, h) /\ x.truncated = u.stats.truncated /\ x.queue = r.queue /\ x.visited = r.visited
    BY <1>5, <2>1, LeavesQueue
  <2> QED BY <2>2 DEF Longest
<1>7. InLine(x, h + 1)
  BY <1>6, InLineStep
<1>8. /\ \A v \in KidsOf(q.queue[h].obj) :
            v \in x.visited \/ (q.queue[h].depth + 1 > limits.maxDepth /\ x.truncated)
      /\ x.truncated \/ ~Cut(q.queue[h].obj)
  BY <1>2, <1>6 DEF Covers
<1>9. Explored(x, h + 1, FALSE)
  <2>1. q.truncated => x.truncated
    BY <1>4, <1>6
  <2> QED BY <1>6, <1>8, <2>1, ExploredStep
<1>10. Served(u, R, x, h + 1)
  <2>1. PICK n \in Nat : n = Len(q.queue) /\ h \in 1..n
    <3>1. PICK n \in Nat : n = Len(q.queue)
      BY LenProperties DEF InLine, WellQueued
    <3>2. h \in 1..n + 1 /\ h <= n
      BY <3>1 DEF InLine
    <3>3. h \in 1..n
      BY <3>2
    <3> QED BY <3>1, <3>3
  <2>2. \A i \in 1..(h + 1) - 1 : i \in 1..n
    BY <2>1
  <2>3. \A i \in 1..(h + 1) - 1 : x.queue[i] = q.queue[i]
    BY <1>6, <2>1, <2>2 DEF Longest
  <2>4. ASSUME NEW i \in 1..(h + 1) - 1
        PROVE  /\ HandledTo(u, R, x.queue[i].obj, Len(Chain(before, x.queue[i].obj)))
               /\ u.stats.truncated \/ Uncut(x.queue[i].obj)
    <3>1. /\ HandledTo(t, R, q.queue[i].obj, Len(Chain(before, q.queue[i].obj)))
          /\ t.stats.truncated \/ Uncut(q.queue[i].obj)
      BY DEF Served
    <3>2. x.queue[i] = q.queue[i]
      BY <2>3
    <3> QED BY <1>2, <1>4, <3>1, <3>2, HandledStays
  <2> QED BY <2>4 DEF Served
<1> QED BY <1>4, <1>6, <1>7, <1>9, <1>10 DEF Scans, Instrumented

\* One turn of the loop: s becomes t when its object has been patched, r is then the queue, and u is t
\* when the children are queued.
Turn(s, q, h, t, r, u) ==
  /\ ~s.stopped /\ h <= Len(q.queue)
  /\ t = PatchChain(Counted(s), q.queue[h].obj)
  /\ r = EnqueueAll(AsQueue(q, Children(t.graph[q.queue[h].obj]).truncated),
                    Children(t.graph[q.queue[h].obj]).values, q.queue[h].depth + 1)
  /\ u = Truncates(t, r.truncated)

TurnScans(q, h, t, r, u, R) ==
  /\ Sound(t)
  /\ t.stopped => Scans(t, R, AsQueue(q, t.stats.truncated), h + 1)
  /\ ~t.stopped => Scans(u, R, AsQueue(r, u.stats.truncated), h + 1)

LEMMA VisitScans ==
  ASSUME before \in Graphs, limits \in LimitSets, NEW s, NEW Q, NEW q, NEW h, Scans(s, Q, q, h),
         NEW t, NEW r, NEW u, Turn(s, q, h, t, r, u)
  PROVE  \E R : TurnScans(q, h, t, r, u, R)
<1>1. /\ Sound(s) /\ Refused(s, Q) /\ q.truncated = s.stats.truncated /\ Served(s, Q, q, h)
      /\ InLine(q, h) /\ Explored(q, h, s.stopped)
  BY DEF Scans, Instrumented
<1>2. s.stopped = FALSE
  <2>1. s \in States /\ ~s.stopped
    BY <1>1, Zenon DEF Sound, Turn
  <2> QED BY <2>1, StateParts, Zenon
<1>3. WellQueued(q) /\ q.queue \in Seq(Items)
  BY <1>1 DEF InLine, WellQueued
<1>4. h <= Len(q.queue) /\ h \in 1..Len(q.queue)
  <2>1. PICK n \in Nat : n = Len(q.queue)
    BY <1>3, LenProperties, Zenon
  <2>2. h \in 1..n + 1 /\ h <= n
    BY <1>1, <2>1, Zenon DEF InLine, Turn
  <2>3. h \in 1..n
    BY <2>2
  <2> QED BY <2>1, <2>2, <2>3
<1>5. PICK o \in Objects, depth \in Nat : o = q.queue[h].obj /\ depth = q.queue[h].depth + 1
  <2>1. q.queue[h] \in Items
    BY <1>3, <1>4, ElementOfSeq
  <2>2. q.queue[h].obj \in Objects /\ q.queue[h].depth \in Nat
    BY <2>1 DEF Items
  <2>3. q.queue[h].depth + 1 \in Nat
    BY <2>2
  <2> QED BY <2>2, <2>3
<1>6. PICK b, c : b = Counted(s) /\ c = Children(t.graph[o])
  BY Zenon
<1>7. /\ t = PatchChain(b, q.queue[h].obj) /\ r = EnqueueAll(AsQueue(q, c.truncated), c.values, depth)
      /\ u = Truncates(t, r.truncated)
  BY <1>5, <1>6, Zenon DEF Turn
<1>8. Sound(b) /\ Refused(b, Q) /\ b.stats.truncated = s.stats.truncated /\ Served(b, Q, q, h)
  BY <1>1, <1>2, <1>6, VisitBegins
<1>9. PICK R : Keeps(b, Q, t, R) /\ Served(t, R, q, h + 1)
  BY <1>3, <1>4, <1>7, <1>8, VisitPatches
<1>10. Sound(t) /\ Refused(t, R) /\ (q.truncated => t.stats.truncated)
  BY <1>1, <1>8, <1>9 DEF Keeps
<1>11. t.graph[o] \in Nodes /\ Grown(before[o], t.graph[o])
  <2>1. t \in States
    BY <1>10 DEF Sound
  <2> QED BY <1>10, <2>1, StateParts DEF Sound
<1>12. Explored(q, h, FALSE)
  BY <1>1, <1>2
<1>13. ASSUME t.stopped PROVE Scans(t, R, AsQueue(q, t.stats.truncated), h + 1)
  BY <1>1, <1>4, <1>9, <1>10, <1>12, <1>13, VisitStops
<1>14. ASSUME ~t.stopped PROVE Scans(u, R, AsQueue(r, u.stats.truncated), h + 1)
  <2>1. /\ c.values \in Seq(Objects \cup {NoObject}) /\ ToSet(c.values) \ {NoObject} = KidsOf(o)
        /\ c.truncated \in BOOLEAN /\ (Cut(o) => c.truncated)
    BY <1>6, <1>11, CutIs
  <2>2. Longest(q, r, h) /\ Covers(r, o, depth)
    BY <1>3, <1>4, <1>5, <1>7, <2>1, VisitOffers
  <2>3. Covers(r, q.queue[h].obj, q.queue[h].depth + 1)
    BY <1>5, <2>2
  <2> QED BY <1>1, <1>4, <1>7, <1>9, <1>10, <1>12, <1>14, <2>2, <2>3, VisitGoesOn
<1> QED BY <1>10, <1>13, <1>14 DEF TurnScans
-----------------------------------------------------------------------------
(* The scan *)

ScanState == [graph |-> graph, patched |-> patched, stats |-> stats, stopped |-> discoveryStopped]

ScanQueue == [queue |-> queue, visited |-> visited, truncated |-> stats.truncated]

ScanInv ==
  /\ limits \in LimitSets /\ before \in Graphs /\ finished \in BOOLEAN
  /\ \E s, Q, q, h :
       /\ s = ScanState /\ q = ScanQueue /\ h = head
       /\ Scans(s, Q, q, h)
       /\ finished => s.stats.truncated \/ ~(h <= Len(q.queue))

LEMMA BeginsSound ==
  ASSUME before \in Graphs, NEW s, s.graph = before, s.patched = {},
         s.stats = [patchedFunctions |-> 0, visitedObjects |-> 0, skippedFunctions |-> 0, truncated |-> FALSE],
         s.stopped = FALSE,
         s = [graph |-> s.graph, patched |-> s.patched, stats |-> s.stats, stopped |-> s.stopped]
  PROVE  Sound(s) /\ Refused(s, {})
<1>1. before \in [Objects -> Nodes]
  BY DiscoveryAssumption
<1>2. s.stats \in [patchedFunctions : Nat, visitedObjects : Nat, skippedFunctions : Nat, truncated : BOOLEAN]
      /\ s.stats.skippedFunctions = 0
  OBVIOUS
<1>3. s \in States
  BY <1>1, <1>2 DEF States
<1>4. ASSUME NEW o \in Objects
      PROVE  Grown(before[o], before[o]) /\ \A i \in 1..Len(before[o].own) : Fits(before[o].own[i], o, {})
  <2>1. PICK n \in Nat : n = Len(before[o].own) /\ \A i \in 1..n : before[o].own[i] \in Properties
    BY <1>1, NodeType
  <2>2. \A i \in 1..n : ~(i > n)
    OBVIOUS
  <2>3. Grown(before[o], before[o])
    BY <2>1, <2>2 DEF Grown, Alike
  <2> QED BY <2>1, <2>3 DEF Fits, Original, Alike
<1>5. Sound(s)
  BY <1>3, <1>4 DEF Sound
<1>6. Refused(s, {})
  BY <1>2, FS_EmptySet DEF Refused
<1> QED BY <1>5, <1>6

LEMMA BeginsInLine ==
  ASSUME before \in Graphs, limits \in LimitSets,
         NEW q, q = [queue |-> <<[obj |-> Root, depth |-> 0]>>, visited |-> {Root}, truncated |-> FALSE]
  PROVE  InLine(q, 1)
<1>1. PICK item \in Items : item = [obj |-> Root, depth |-> 0]
  BY DiscoveryAssumption DEF Items
<1>2. item.obj = Root /\ item.depth = 0
  BY <1>1
<1>3. /\ q.queue = <<item>> /\ q.visited = {Root} /\ q.truncated = FALSE
      /\ q \in [queue : Seq(Items), visited : SUBSET Objects, truncated : BOOLEAN]
  BY <1>1, DiscoveryAssumption
<1>4. Len(q.queue) = 1 /\ q.queue[1] = item /\ \A i \in 1..Len(q.queue) : i = 1 /\ q.queue[i] = item
  BY <1>3
<1>5. WellQueued(q)
  BY <1>2, <1>3, <1>4 DEF WellQueued
<1>6. Root \in Within(0, Reach)
  <2>1. Reach \in [Objects -> SUBSET Objects]
    BY ReachIs
  <2> QED BY <2>1, WithinTurns, ObjectsFinite
<1>7. \A i \in 1..Len(q.queue) :
        q.queue[i].depth < i /\ q.queue[i].depth <= limits.maxDepth /\ q.queue[i].obj \in Within(q.queue[i].depth, Reach)
  <2>1. 0 <= limits.maxDepth /\ 0 < 1
    BY DiscoveryAssumption
  <2> QED BY <1>2, <1>4, <1>6, <2>1
<1>8. \A i, j \in 1..Len(q.queue) : i <= j => q.queue[i].depth <= q.queue[j].depth
  <2>1. 0 <= 0
    OBVIOUS
  <2> QED BY <1>2, <1>4, <2>1
<1>9. Len(q.queue) # 0 /\ 1 \in 1..Len(q.queue) + 1 /\ ~(1 > 1)
  BY <1>4
<1> QED BY <1>1, <1>4, <1>5, <1>7, <1>8, <1>9 DEF InLine

LEMMA ScanBegins ==
  ASSUME ScanInit
  PROVE  ScanInv
<1>1. /\ limits \in LimitSets /\ before \in Graphs /\ finished = FALSE /\ head = 1
      /\ graph = before /\ patched = {} /\ discoveryStopped = FALSE
      /\ stats = [patchedFunctions |-> 0, visitedObjects |-> 0, skippedFunctions |-> 0, truncated |-> FALSE]
      /\ queue = <<[obj |-> Root, depth |-> 0]>> /\ visited = {Root}
  BY DEF ScanInit
<1>2. PICK s, q : s = ScanState /\ q = ScanQueue
  OBVIOUS
<1>3. Sound(s) /\ Refused(s, {})
  <2>1. /\ s.graph = graph /\ s.patched = patched /\ s.stats = stats /\ s.stopped = discoveryStopped
        /\ s = [graph |-> s.graph, patched |-> s.patched, stats |-> s.stats, stopped |-> s.stopped]
    BY <1>2 DEF ScanState
  <2> QED BY <1>1, <2>1, BeginsSound
<1>4. InLine(q, 1)
  <2>1. stats.truncated = FALSE
    BY <1>1
  <2>2. q = [queue |-> <<[obj |-> Root, depth |-> 0]>>, visited |-> {Root}, truncated |-> FALSE]
    BY <1>1, <1>2, <2>1 DEF ScanQueue
  <2> QED BY <1>1, <2>2, BeginsInLine
<1>5. q.truncated = s.stats.truncated
  BY <1>2 DEF ScanState, ScanQueue
<1>6. \A i \in 1..1 - 1 : FALSE
  OBVIOUS
<1>7. Scans(s, {}, q, 1)
  BY <1>3, <1>4, <1>5, <1>6 DEF Scans, Instrumented, Served, Explored
<1> QED BY <1>1, <1>2, <1>7 DEF ScanInv

\* Finish may only add that the scan was cut short.
LEMMA FinishScans ==
  ASSUME before \in Graphs, limits \in LimitSets, NEW s, NEW Q, NEW q, NEW h, Scans(s, Q, q, h),
         NEW c \in BOOLEAN, NEW t, t = Truncates(s, c), NEW r, r = AsQueue(q, t.stats.truncated)
  PROVE  Scans(t, Q, r, h) /\ (c => t.stats.truncated)
<1>1. /\ Sound(s) /\ Refused(s, Q) /\ q.truncated = s.stats.truncated /\ Served(s, Q, q, h)
      /\ InLine(q, h) /\ Explored(q, h, s.stopped)
  BY DEF Scans, Instrumented
<1>2. Keeps(s, Q, t, Q) /\ (c => t.stats.truncated)
  BY <1>1, TruncatesKeeps
<1>3. Sound(t) /\ Refused(t, Q) /\ (q.truncated => t.stats.truncated)
  BY <1>1, <1>2 DEF Keeps
<1>4. t.stopped = s.stopped /\ t.stats.truncated \in BOOLEAN
  <2>1. s \in States /\ t \in States
    BY <1>1, <1>3 DEF Sound
  <2>2. t.stopped = s.stopped
    BY <2>1 DEF Truncates, States
  <2> QED BY <2>1, <2>2, StateParts
<1>5. Longest(q, r, h) /\ r.truncated = t.stats.truncated /\ r.queue = q.queue
  BY <1>1, <1>4, LeavesQueue DEF InLine
<1>6. InLine(r, h)
  BY <1>1, <1>5 DEF InLine, Longest
<1>7. Explored(r, h, t.stopped)
  <2>1. ASSUME NEW i, Held(q, i) PROVE Held(r, i)
    BY <1>3, <1>5, <2>1 DEF Held, IsQueued, Leaves
  <2> QED BY <1>1, <1>4, <2>1 DEF Explored
<1>8. Served(t, Q, r, h)
  <2>1. ASSUME NEW i \in 1..h - 1
        PROVE  /\ HandledTo(t, Q, r.queue[i].obj, Len(Chain(before, r.queue[i].obj)))
               /\ t.stats.truncated \/ Uncut(r.queue[i].obj)
    <3>1. /\ HandledTo(s, Q, q.queue[i].obj, Len(Chain(before, q.queue[i].obj)))
          /\ s.stats.truncated \/ Uncut(q.queue[i].obj)
      BY <1>1 DEF Served
    <3> QED BY <1>1, <1>2, <1>3, <1>5, <3>1, HandledStays
  <2> QED BY <2>1 DEF Served
<1> QED BY <1>2, <1>3, <1>5, <1>6, <1>7, <1>8 DEF Scans, Instrumented

\* The record a state is, from its parts.
LEMMA StateIs ==
  ASSUME NEW t, Sound(t)
  PROVE  t = [graph |-> t.graph, patched |-> t.patched, stats |-> t.stats, stopped |-> t.stopped]
BY DEF Sound, States

LEMMA FinishKeepsInv ==
  ASSUME ScanInv, Finish
  PROVE  ScanInv'
<1>1. PICK s, Q, q, h : s = ScanState /\ q = ScanQueue /\ h = head /\ Scans(s, Q, q, h)
  BY DEF ScanInv
<1>2. /\ limits' = limits /\ before' = before /\ finished' = TRUE /\ head' = head
      /\ graph' = graph /\ patched' = patched /\ discoveryStopped' = discoveryStopped
      /\ queue' = queue /\ visited' = visited
      /\ stats' = [stats EXCEPT !.truncated = @ \/ head <= Len(queue)]
      /\ ~MayVisit
  BY DEF Finish
<1>3. limits \in LimitSets /\ before \in Graphs
  BY DEF ScanInv
<1>4. PICK c \in BOOLEAN : c <=> head <= Len(queue)
  <2>1. (TRUE <=> head <= Len(queue)) \/ (FALSE <=> head <= Len(queue))
    OBVIOUS
  <2> QED BY <2>1
<1>5. PICK t : t = Truncates(s, c)
  OBVIOUS
<1>6. PICK r : r = AsQueue(q, t.stats.truncated)
  OBVIOUS
<1>7. Scans(t, Q, r, h) /\ (c => t.stats.truncated)
  BY <1>1, <1>3, <1>5, <1>6, FinishScans
<1>8. /\ s.graph = graph /\ s.patched = patched /\ s.stats = stats /\ s.stopped = discoveryStopped
      /\ q.queue = queue /\ q.visited = visited
  BY <1>1 DEF ScanState, ScanQueue
<1>9. /\ t.graph = graph' /\ t.patched = patched' /\ t.stopped = discoveryStopped'
      /\ t.stats = stats'
  <2>1. s \in States
    BY <1>1 DEF Scans, Instrumented, Sound
  <2>2. /\ t.graph = s.graph /\ t.patched = s.patched /\ t.stopped = s.stopped
        /\ t.stats = [s.stats EXCEPT !.truncated = @ \/ c]
    BY <1>5, <2>1 DEF Truncates, States
  <2> QED BY <1>2, <1>4, <1>8, <2>2
<1>10. t = ScanState'
  <2>1. t = [graph |-> t.graph, patched |-> t.patched, stats |-> t.stats, stopped |-> t.stopped]
    BY <1>7, StateIs DEF Scans, Instrumented
  <2> QED BY <1>9, <2>1 DEF ScanState
<1>11. r = ScanQueue'
  BY <1>2, <1>6, <1>8, <1>9 DEF ScanQueue, AsQueue
<1>12. Scans(t, Q, r, h)'
  BY <1>2, <1>7, SameScans
<1>13. t.stats.truncated \/ ~(h <= Len(r.queue))
  <2>1. r.queue = queue
    BY <1>6, <1>8 DEF AsQueue
  <2> QED BY <1>1, <1>4, <1>7, <2>1
<1>14. limits' \in LimitSets /\ before' \in Graphs /\ finished' \in BOOLEAN /\ h = head'
  BY <1>1, <1>2, <1>3
<1> QED BY <1>10, <1>11, <1>12, <1>13, <1>14 DEF ScanInv

\* Visit takes such a turn.
LEMMA VisitIsTurn ==
  ASSUME Visit, NEW s, s = ScanState, NEW q, q = ScanQueue, NEW h, h = head
  PROVE  \E t, r, u :
           /\ Turn(s, q, h, t, r, u)
           /\ graph' = t.graph /\ patched' = t.patched /\ discoveryStopped' = t.stopped
           /\ t.stopped => stats' = t.stats /\ queue' = queue /\ visited' = visited
           /\ ~t.stopped => /\ stats' = [t.stats EXCEPT !.truncated = @ \/ r.truncated]
                            /\ queue' = r.queue /\ visited' = r.visited
<1>1. /\ s.graph = graph /\ s.patched = patched /\ s.stats = stats /\ s.stopped = discoveryStopped
      /\ q.queue = queue /\ q.visited = visited
  BY Zenon DEF ScanState, ScanQueue
<1>2. PICK t : t = PatchChain([graph |-> graph, patched |-> patched, stopped |-> FALSE,
                               stats |-> [stats EXCEPT !.visitedObjects = @ + 1]], queue[head].obj)
  OBVIOUS
<1>3. PICK c : c = Children(t.graph[queue[head].obj])
  OBVIOUS
<1>4. PICK r : r = EnqueueAll([queue |-> queue, visited |-> visited, truncated |-> c.truncated],
                              c.values, queue[head].depth + 1)
  OBVIOUS
<1>5. PICK u : u = Truncates(t, r.truncated)
  OBVIOUS
<1>6. /\ graph' = t.graph /\ patched' = t.patched /\ discoveryStopped' = t.stopped
      /\ IF t.stopped
         THEN stats' = t.stats /\ UNCHANGED <<queue, visited>>
         ELSE /\ stats' = [t.stats EXCEPT !.truncated = @ \/ r.truncated]
              /\ queue' = r.queue /\ visited' = r.visited
  BY <1>2, <1>3, <1>4, Zenon DEF Visit
<1>7. head <= Len(queue) /\ ~discoveryStopped
  BY Zenon DEF Visit, MayVisit
<1>8. t = PatchChain(Counted(s), q.queue[h].obj)
  BY <1>1, <1>2, Zenon DEF Counted
<1>9. r = EnqueueAll(AsQueue(q, Children(t.graph[q.queue[h].obj]).truncated),
                     Children(t.graph[q.queue[h].obj]).values, q.queue[h].depth + 1)
  BY <1>1, <1>3, <1>4, Zenon DEF AsQueue
<1>10. Turn(s, q, h, t, r, u)
  BY <1>1, <1>5, <1>7, <1>8, <1>9, Zenon DEF Turn
<1> QED BY <1>6, <1>10, Zenon

LEMMA VisitKeepsInv ==
  ASSUME ScanInv, Visit
  PROVE  ScanInv'
<1>1. PICK s, Q, q, h : s = ScanState /\ q = ScanQueue /\ h = head /\ Scans(s, Q, q, h)
  BY DEF ScanInv
<1>2. PICK t, r, u :
        /\ Turn(s, q, h, t, r, u)
        /\ graph' = t.graph /\ patched' = t.patched /\ discoveryStopped' = t.stopped
        /\ t.stopped => stats' = t.stats /\ queue' = queue /\ visited' = visited
        /\ ~t.stopped => /\ stats' = [t.stats EXCEPT !.truncated = @ \/ r.truncated]
                         /\ queue' = r.queue /\ visited' = r.visited
  BY <1>1, VisitIsTurn
<1>3. /\ head' = head + 1 /\ limits' = limits /\ before' = before /\ finished' = finished /\ ~finished
  BY Zenon DEF Visit
<1>4. limits \in LimitSets /\ before \in Graphs /\ finished \in BOOLEAN
  BY DEF ScanInv
<1>5. q.queue = queue /\ q.visited = visited
  BY <1>1, Zenon DEF ScanQueue
<1>6. u = Truncates(t, r.truncated)
  BY <1>2, Zenon DEF Turn
<1>7. PICK R : TurnScans(q, h, t, r, u, R)
  BY <1>1, <1>2, <1>4, VisitScans
<1>8. /\ Sound(t)
      /\ t.stopped => Scans(t, R, AsQueue(q, t.stats.truncated), h + 1)
      /\ ~t.stopped => Scans(u, R, AsQueue(r, u.stats.truncated), h + 1)
  BY <1>7 DEF TurnScans
<1>9. ASSUME NEW x, NEW y, Scans(x, R, y, h + 1), x = ScanState', y = ScanQueue'
      PROVE  ScanInv'
  <2>1. Scans(x, R, y, h + 1)'
    BY <1>3, <1>9, SameScans
  <2>2. h + 1 = head' /\ limits' \in LimitSets /\ before' \in Graphs /\ finished' \in BOOLEAN /\ ~finished'
    BY <1>1, <1>3, <1>4
  <2> QED BY <1>9, <2>1, <2>2 DEF ScanInv
<1>10. CASE t.stopped
  <2>1. t = ScanState'
    BY <1>2, <1>8, <1>10, StateIs DEF ScanState
  <2>2. AsQueue(q, t.stats.truncated) = ScanQueue'
    BY <1>2, <1>5, <1>10 DEF ScanQueue, AsQueue
  <2> QED BY <1>8, <1>9, <1>10, <2>1, <2>2
<1>11. CASE ~t.stopped
  <2>1. t \in States
    BY <1>8 DEF Sound
  <2>2. /\ u.graph = t.graph /\ u.patched = t.patched /\ u.stopped = t.stopped
        /\ u.stats = [t.stats EXCEPT !.truncated = @ \/ r.truncated]
    BY <1>6, <2>1 DEF Truncates, States
  <2>3. Sound(u)
    BY <1>8, <1>11 DEF Scans, Instrumented
  <2>4. u = ScanState'
    BY <1>2, <1>11, <2>2, <2>3, StateIs DEF ScanState
  <2>5. AsQueue(r, u.stats.truncated) = ScanQueue'
    BY <1>2, <1>11, <2>2 DEF ScanQueue, AsQueue
  <2> QED BY <1>8, <1>9, <1>11, <2>4, <2>5
<1> QED BY <1>10, <1>11

LEMMA ScanInvStays ==
  ASSUME ScanInv, UNCHANGED scanVars
  PROVE  ScanInv'
<1>1. PICK s, Q, q, h :
        /\ s = ScanState /\ q = ScanQueue /\ h = head
        /\ Scans(s, Q, q, h)
        /\ finished => s.stats.truncated \/ ~(h <= Len(q.queue))
  BY DEF ScanInv
<1>2. /\ s = ScanState' /\ q = ScanQueue' /\ h = head' /\ before' = before /\ limits' = limits /\ finished' = finished
  BY <1>1 DEF scanVars, ScanState, ScanQueue
<1>3. Scans(s, Q, q, h)'
  BY <1>1, <1>2, SameScans
<1> QED BY <1>1, <1>2, <1>3 DEF ScanInv

\* The invariant of the scan: every object before the head has been patched from its whole chain, as
\* far as the limits let it, and what it holds is queued; the queue is in the order of the depths.
THEOREM ScanInvHolds == ScanSpec => []ScanInv
<1>1. ScanInit => ScanInv
  BY ScanBegins
<1>2. ScanInv /\ [ScanNext]_scanVars => ScanInv'
  BY VisitKeepsInv, FinishKeepsInv, ScanInvStays DEF ScanNext
<1> QED BY <1>1, <1>2, PTL DEF ScanSpec

LEMMA PatchedFits ==
  ASSUME before \in Graphs, NEW s, Sound(s), NEW slot \in s.patched,
         NEW o, o = slot[1], NEW n, n = slot[2]
  PROVE  /\ o \in Objects /\ n \in Names /\ s.graph[o] \in Nodes /\ before[o] \in Nodes
         /\ \E i \in 1..Len(s.graph[o].own) :
              /\ s.graph[o].own[i].name = n /\ s.graph[o].own[i].kind = "function"
              /\ Original(s.graph[o].own[i], o) \/ Inherited(s.graph[o].own[i], o, s.patched)
<1>1. s.graph \in [Objects -> Nodes] /\ before \in [Objects -> Nodes] /\ s.patched \subseteq Objects \X Names
  BY StateParts, DiscoveryAssumption DEF Sound
<1>2. o \in Objects /\ n \in Names
  BY <1>1
<1>3. IsMethod(s.graph, slot)
  BY DEF Sound
<1>4. PICK i \in 1..Len(s.graph[o].own) : s.graph[o].own[i].name = n /\ s.graph[o].own[i].kind = "function"
  BY <1>3 DEF IsMethod
<1>5. Fits(s.graph[o].own[i], o, s.patched)
  BY <1>2 DEF Sound
<1> QED BY <1>1, <1>2, <1>4, <1>5 DEF Fits

LEMMA NowIs ==
  ASSUME graph \in [Objects -> Nodes], NEW o \in Objects, NEW i \in 1..Len(graph[o].own),
         NEW n, graph[o].own[i].name = n
  PROVE  Now(o, n) = graph[o].own[i]
<1>1. PICK props : props = graph[o].own
  OBVIOUS
<1>2. /\ DOMAIN props = 1..Len(props)
      /\ \A j, m \in 1..Len(props) : props[j].name = props[m].name => j = m
  BY <1>1, NodeType
<1>3. (CHOOSE j \in DOMAIN props : props[j].name = n) = i
  BY <1>1, <1>2
<1>4. Now(o, n) = props[CHOOSE j \in DOMAIN props : props[j].name = n]
  BY <1>1 DEF Now
<1> QED BY <1>1, <1>3, <1>4

LEMMA InvWraps == ScanInv => WrapsWhatWasSeen
<1> SUFFICES ASSUME ScanInv PROVE WrapsWhatWasSeen
  OBVIOUS
<1>1. PICK s, Q, q : s = ScanState /\ Sound(s) /\ before \in Graphs
  BY DEF ScanInv, Scans, Instrumented
<1>2. s.graph = graph /\ s.patched = patched
  BY <1>1 DEF ScanState
<1> SUFFICES ASSUME NEW slot \in patched, NEW o, o = slot[1], NEW n, n = slot[2],
                    NEW chain, chain = Chain(before, o)
             PROVE  /\ Has(before, o, n) => Seen(o, n).kind = "function"
                    /\ Seen(o, n).kind = "function"
                         /\ (\A i \in DOMAIN chain : before[chain[i]].listed /\ ~TooMany(before[chain[i]]))
                         => Now(o, n).from = Seen(o, n).from
  BY DEF WrapsWhatWasSeen
<1>3. /\ o \in Objects /\ n \in Names /\ graph[o] \in Nodes /\ before[o] \in Nodes
      /\ \E i \in 1..Len(graph[o].own) :
           /\ graph[o].own[i].name = n /\ graph[o].own[i].kind = "function"
           /\ Original(graph[o].own[i], o) \/ Inherited(graph[o].own[i], o, patched)
  BY <1>1, <1>2, PatchedFits
<1>4. graph \in [Objects -> Nodes] /\ before \in [Objects -> Nodes]
  <2>1. s \in States
    BY <1>1 DEF Sound
  <2> QED BY <1>1, <1>2, <2>1, StateParts, DiscoveryAssumption
<1>5. PICK i \in 1..Len(graph[o].own) :
        /\ graph[o].own[i].name = n /\ graph[o].own[i].kind = "function"
        /\ Original(graph[o].own[i], o) \/ Inherited(graph[o].own[i], o, patched)
  BY <1>3
<1>6. PICK p : p = graph[o].own[i] /\ p.name = n /\ p.kind = "function"
  BY <1>5
<1>7. Now(o, n) = p
  BY <1>3, <1>4, <1>5, <1>6, NowIs
<1>8. CASE Original(p, o)
  <2>1. PICK j \in 1..Len(before[o].own) : Alike(p, before[o].own[j])
    BY <1>8 DEF Original
  <2>2. before[o].own[j].name = n /\ before[o].own[j].kind = "function" /\ before[o].own[j].from = p.from
    BY <1>6, <2>1 DEF Alike
  <2>3. Nearest(o, n, 1) /\ Chain(before, o)[1] = o
    <3>1. IsChain(before, o, Chain(before, o))
      BY <1>1, <1>3, BeforeChain
    <3>2. PICK k \in Nat \ {0} : k = Len(Chain(before, o))
      BY <3>1 DEF IsChain
    <3>3. 1 \in 1..k /\ \A m \in 1..1 - 1 : FALSE
      BY <3>2
    <3>4. Has(before, o, n)
      BY <1>3, <1>4, <2>2, HasIs
    <3>5. Chain(before, o)[1] = o
      BY <3>1 DEF IsChain
    <3> QED BY <3>2, <3>3, <3>4, <3>5 DEF Nearest
  <2>4. Seen(o, n) = before[o].own[j]
    BY <1>1, <1>3, <2>2, <2>3, SeenNearest
  <2> QED BY <1>7, <2>2, <2>4
<1>9. CASE Inherited(p, o, patched)
  <2>1. ~Has(before, o, n)
    BY <1>6, <1>9 DEF Inherited
  <2>2. ASSUME \A m \in DOMAIN chain : before[chain[m]].listed /\ ~TooMany(before[chain[m]])
        PROVE  Intact(o)
    <3>1. DOMAIN chain = 1..Len(chain)
      BY <1>1, <1>3, BeforeChain DEF IsChain
    <3> QED BY <2>2, <3>1 DEF Intact, Whole
  <2>3. Seen(o, n).kind = "function" /\ Intact(o) => p.from = Seen(o, n).from
    BY <1>6, <1>9 DEF Inherited
  <2> QED BY <1>7, <2>1, <2>2, <2>3
<1> QED BY <1>5, <1>6, <1>8, <1>9

\* The queue's items, as a sequence with a length.
LEMMA InLineParts ==
  ASSUME NEW q, NEW h, InLine(q, h)
  PROVE  \E n \in Nat :
           /\ n = Len(q.queue) /\ n # 0 /\ n <= Cardinality(Objects) /\ h \in 1..n + 1
           /\ \A i \in 1..n :
                /\ q.queue[i].obj \in Objects /\ q.queue[i].depth \in Nat
                /\ q.queue[i].depth < i /\ q.queue[i].depth <= limits.maxDepth
                /\ q.queue[i].obj \in Within(q.queue[i].depth, Reach)
           /\ \A i, j \in 1..n : i <= j => q.queue[i].depth <= q.queue[j].depth
           /\ q.queue[1].obj = Root /\ q.queue[1].depth = 0
<1>1. WellQueued(q) /\ q.queue \in Seq(Items)
  BY DEF InLine, WellQueued
<1>2. PICK n \in Nat : n = Len(q.queue)
  BY <1>1, LenProperties
<1>3. \A i \in 1..n : q.queue[i].obj \in Objects /\ q.queue[i].depth \in Nat
  <2>1. \A i \in 1..n : q.queue[i] \in Items
    BY <1>1, <1>2, ElementOfSeq
  <2> QED BY <2>1 DEF Items
<1>4. n <= Cardinality(Objects)
  BY <1>1, <1>2, Room
<1>5. /\ n # 0 /\ h \in 1..n + 1
      /\ \A i \in 1..n :
           /\ q.queue[i].depth < i /\ q.queue[i].depth <= limits.maxDepth
           /\ q.queue[i].obj \in Within(q.queue[i].depth, Reach)
  BY <1>2 DEF InLine
<1>6. \A i, j \in 1..n : i <= j => q.queue[i].depth <= q.queue[j].depth
  BY <1>2 DEF InLine
<1>7. q.queue[1].obj = Root /\ q.queue[1].depth = 0
  BY DEF InLine
<1> QED BY <1>2, <1>3, <1>4, <1>5, <1>6, <1>7

\* Each x that is within d steps of the root is queued, no deeper than d.
QueuedWithin(q, d, Steps) ==
  \A x \in Within(d, Steps) : \E m \in 1..Len(q.queue) : q.queue[m].obj = x /\ q.queue[m].depth <= d

VisitedObjects(q, h) == {q.queue[m].obj : m \in 1..h - 1}

LastDepth(q, h) == q.queue[h - 1].depth

LEMMA NearQueued ==
  ASSUME limits \in LimitSets, NEW q, NEW h, InLine(q, h), h > 1,
         NEW stopped, Explored(q, h, stopped),
         NEW Steps \in [Objects -> SUBSET Objects], \A o \in Objects : Steps[o] = KidsOf(o),
         NEW D, D = LastDepth(q, h), NEW d \in 0..D - 1
  PROVE  Within(d, Steps) \subseteq VisitedObjects(q, h)
<1>1. PICK n \in Nat :
        /\ n = Len(q.queue) /\ n # 0 /\ n <= Cardinality(Objects) /\ h \in 1..n + 1
        /\ \A i \in 1..n :
             /\ q.queue[i].obj \in Objects /\ q.queue[i].depth \in Nat
             /\ q.queue[i].depth < i /\ q.queue[i].depth <= limits.maxDepth
        /\ \A i, j \in 1..n : i <= j => q.queue[i].depth <= q.queue[j].depth
        /\ q.queue[1].obj = Root /\ q.queue[1].depth = 0
  BY InLineParts
<1>2. PICK c \in Nat : c = Cardinality(Objects)
  BY ObjectsFinite
<1>3. PICK l \in Nat : l = limits.maxDepth
  BY DiscoveryAssumption
<1>0. D = q.queue[h - 1].depth
  BY DEF LastDepth
<1>4. h - 1 \in 1..n /\ D \in Nat /\ D < n /\ D <= l
  <2>1. h - 1 \in 1..n
    BY <1>1
  <2>2. D \in Nat /\ D < h - 1 /\ D <= l
    BY <1>0, <1>1, <1>3, <2>1
  <2> QED BY <1>1, <2>1, <2>2
<1>5. /\ Within(0, Steps) = {Root}
      /\ \A e \in 0..c : Within(e, Steps) \subseteq Objects
      /\ \A e \in 1..c : Within(e, Steps) = Within(e - 1, Steps) \cup UNION {Steps[o] : o \in Within(e - 1, Steps)}
  BY <1>2, WithinTurns
<1>6. ASSUME NEW m \in 1..n, q.queue[m].depth <= D - 1
      PROVE  m \in 1..h - 1 /\ m # h - 1
  <2>1. ~(h - 1 <= m)
    <3>1. ASSUME h - 1 <= m PROVE FALSE
      <4>1. D <= q.queue[m].depth
        BY <1>0, <1>1, <1>4, <3>1
      <4>2. q.queue[m].depth \in Nat
        BY <1>1
      <4> QED BY <1>4, <1>6, <4>1, <4>2
    <3> QED BY <3>1
  <2> QED BY <1>4, <2>1
<1>7. PICK T : T = {e \in 0..D - 1 : QueuedWithin(q, e, Steps)}
  OBVIOUS
<1>8. 0 \in T
  <2>1. 0 \in 0..D - 1 /\ 1 \in 1..n /\ 0 <= 0
    BY <1>1, <1>4
  <2>2. QueuedWithin(q, 0, Steps)
    BY <1>1, <1>5, <2>1 DEF QueuedWithin
  <2> QED BY <1>7, <2>1, <2>2
<1>9. ASSUME NEW e \in 1..D - 1, e - 1 \in T
      PROVE  e \in T
  <2>1. /\ e \in 1..c /\ e - 1 \in 0..c /\ e \in 0..D - 1 /\ e - 1 <= D - 1 /\ e - 1 <= e
        /\ QueuedWithin(q, e - 1, Steps)
    BY <1>1, <1>2, <1>4, <1>7, <1>9
  <2>2. ASSUME NEW x \in Within(e - 1, Steps)
        PROVE  \E m \in 1..n : q.queue[m].obj = x /\ q.queue[m].depth <= e - 1
    BY <1>1, <2>1, <2>2 DEF QueuedWithin
  <2>3. ASSUME NEW x \in Within(e - 1, Steps)
        PROVE  \E m \in 1..n : q.queue[m].obj = x /\ q.queue[m].depth <= e
    <3>1. PICK m \in 1..n : q.queue[m].obj = x /\ q.queue[m].depth <= e - 1
      BY <2>2
    <3>2. q.queue[m].depth \in Nat
      BY <1>1
    <3>3. q.queue[m].depth <= e
      BY <3>1, <3>2
    <3> QED BY <3>1, <3>3
  <2>4. ASSUME NEW y \in Within(e - 1, Steps), NEW x \in Steps[y]
        PROVE  \E m \in 1..n : q.queue[m].obj = x /\ q.queue[m].depth <= e
    <3>1. PICK i \in 1..n : q.queue[i].obj = y /\ q.queue[i].depth <= e - 1
      BY <2>2
    <3>2. PICK b \in Nat : b = q.queue[i].depth /\ b <= e - 1
      BY <1>1, <3>1
    <3>3. b <= D - 1 /\ b + 1 <= e /\ ~(b + 1 > l)
      BY <1>4, <3>2
    <3>4. i \in 1..h - 1 /\ i # h - 1
      BY <1>6, <3>2, <3>3
    <3>5. Held(q, i)
      BY <3>4 DEF Explored
    <3>6. y \in Objects /\ x \in KidsOf(q.queue[i].obj)
      BY <1>5, <2>1, <2>4, <3>1
    <3>7. ~Leaves(q, i)
      BY <1>3, <3>2, <3>3 DEF Leaves
    <3>8. PICK m \in 1..n : q.queue[m].obj = x /\ q.queue[m].depth <= b + 1
      BY <1>1, <3>2, <3>5, <3>6, <3>7 DEF Held, IsQueued
    <3>9. q.queue[m].depth \in Nat
      BY <1>1
    <3>10. q.queue[m].depth <= e
      BY <3>2, <3>3, <3>8, <3>9
    <3> QED BY <3>8, <3>10
  <2>5. Within(e, Steps) = Within(e - 1, Steps) \cup UNION {Steps[o] : o \in Within(e - 1, Steps)}
    BY <1>5, <2>1
  <2>6. ASSUME NEW x \in Within(e, Steps)
        PROVE  \E m \in 1..n : q.queue[m].obj = x /\ q.queue[m].depth <= e
    <3>1. CASE x \in Within(e - 1, Steps)
      BY <2>3, <3>1
    <3>2. CASE x \in UNION {Steps[o] : o \in Within(e - 1, Steps)}
      <4>1. PICK y \in Within(e - 1, Steps) : x \in Steps[y]
        BY <3>2
      <4> QED BY <2>4, <4>1
    <3> QED BY <2>5, <3>1, <3>2
  <2>7. QueuedWithin(q, e, Steps)
    BY <1>1, <2>6 DEF QueuedWithin
  <2> QED BY <1>7, <2>1, <2>7
<1>10. \A e \in 0..D - 1 : e \in T
  <2>1. D - 1 \in Nat
    BY <1>4
  <2> QED BY <1>8, <1>9, <2>1, UpTo
<1>11. ASSUME NEW x \in Within(d, Steps)
       PROVE  \E m \in 1..h - 1 : q.queue[m].obj = x
  <2>1. QueuedWithin(q, d, Steps)
    BY <1>7, <1>10
  <2>2. PICK m \in 1..n : q.queue[m].obj = x /\ q.queue[m].depth <= d
    BY <1>1, <1>11, <2>1 DEF QueuedWithin
  <2>3. q.queue[m].depth \in Nat
    BY <1>1
  <2>4. q.queue[m].depth <= D - 1
    BY <1>4, <2>2, <2>3
  <2> QED BY <1>6, <2>2, <2>4
<1> QED BY <1>11 DEF VisitedObjects

LEMMA InvShallow == ScanInv => ShallowFirst
<1> SUFFICES ASSUME ScanInv, head > 1, NEW Steps, Steps = [o \in Objects |-> ToSet(Children(before[o]).values) \ {NoObject}]
             PROVE  \A d \in 0..queue[head - 1].depth - 1 : Within(d, Steps) \subseteq Scanned
  BY DEF ShallowFirst
<1>1. PICK s, q : /\ q = ScanQueue /\ InLine(q, head) /\ Explored(q, head, s.stopped)
                  /\ before \in Graphs /\ limits \in LimitSets
  BY DEF ScanInv, Scans
<1>2. q.queue = queue
  BY <1>1 DEF ScanQueue
<1>3. \A o \in Objects : Steps[o] = KidsOf(o)
  <2>1. \A o \in Objects : before[o] \in Nodes
    BY <1>1, ReachIs
  <2> QED BY <1>1, <2>1, ChildrenAre DEF KidsOf
<1>4. Steps \in [Objects -> SUBSET Objects]
  <2>1. Reach \in [Objects -> SUBSET Objects] /\ \A o \in Objects : KidsOf(o) \subseteq Reach[o]
    BY <1>1, ReachIs
  <2>2. \A o \in Objects : Steps[o] \in SUBSET Objects
    BY <1>3, <2>1
  <2> QED BY <2>2
<1>5. PICK D : D = queue[head - 1].depth
  OBVIOUS
<1>6. ASSUME NEW d \in 0..D - 1
      PROVE  Within(d, Steps) \subseteq Scanned
  <2>1. D = LastDepth(q, head)
    BY <1>2, <1>5 DEF LastDepth
  <2>2. Within(d, Steps) \subseteq VisitedObjects(q, head)
    BY <1>1, <1>3, <1>4, <1>6, <2>1, NearQueued
  <2> QED BY <1>2, <2>2 DEF Scanned, VisitedObjects
<1> QED BY <1>5, <1>6

LEMMA WithinGrows ==
  ASSUME NEW Steps \in [Objects -> SUBSET Objects], NEW c \in Nat, c = Cardinality(Objects), NEW d \in 0..c
  PROVE  Within(d, Steps) \subseteq Within(c, Steps)
<1>1. \A e \in 1..c : Within(e - 1, Steps) \subseteq Within(e, Steps)
  BY WithinTurns
<1>2. PICK T : T = {e \in 0..c : d <= e => Within(d, Steps) \subseteq Within(e, Steps)}
  OBVIOUS
<1>3. 0 \in T
  <2>1. 0 \in 0..c /\ (d <= 0 => d = 0)
    OBVIOUS
  <2> QED BY <1>2, <2>1
<1>4. ASSUME NEW e \in 1..c, e - 1 \in T PROVE e \in T
  <2>1. e \in 0..c /\ (d <= e => d = e \/ d <= e - 1)
    OBVIOUS
  <2>2. d <= e - 1 => Within(d, Steps) \subseteq Within(e - 1, Steps)
    BY <1>2, <1>4
  <2>3. Within(e - 1, Steps) \subseteq Within(e, Steps)
    BY <1>1
  <2> QED BY <1>2, <2>1, <2>2, <2>3
<1>5. \A e \in 0..c : e \in T
  BY <1>3, <1>4, UpTo
<1>6. c \in T /\ d <= c
  BY <1>5
<1> QED BY <1>2, <1>6

\* The scan has come to the end of the queue, was not stopped and not cut short.
LEMMA AllReached ==
  ASSUME before \in Graphs, limits \in LimitSets, NEW q, NEW h, InLine(q, h), ~(h <= Len(q.queue)),
         Explored(q, h, FALSE), ~q.truncated, NEW c \in Nat, c = Cardinality(Objects)
  PROVE  VisitedObjects(q, h) = Within(c, Reach)
<1>1. PICK n \in Nat :
        /\ n = Len(q.queue) /\ n # 0 /\ n <= c /\ h \in 1..n + 1
        /\ \A i \in 1..n :
             /\ q.queue[i].obj \in Objects /\ q.queue[i].depth \in Nat
             /\ q.queue[i].depth < i
             /\ q.queue[i].obj \in Within(q.queue[i].depth, Reach)
        /\ q.queue[1].obj = Root
  BY InLineParts
<1>2. h = n + 1 /\ h - 1 = n
  <2>1. ~(h <= n)
    BY <1>1
  <2> QED BY <1>1, <2>1
<1>3. PICK Seen1 : Seen1 = VisitedObjects(q, h) /\ Seen1 = {q.queue[m].obj : m \in 1..n}
  BY <1>2 DEF VisitedObjects
<1>4. Reach \in [Objects -> SUBSET Objects]
  BY ReachIs
<1>5. ASSUME NEW i \in 1..n PROVE q.queue[i].obj \in Within(c, Reach)
  <2>1. q.queue[i].depth \in 0..c
    BY <1>1
  <2>2. Within(q.queue[i].depth, Reach) \subseteq Within(c, Reach)
    BY <1>4, <2>1, WithinGrows
  <2> QED BY <1>1, <2>2
<1>6. ASSUME NEW i \in 1..n, NEW v \in Reach[q.queue[i].obj]
      PROVE  v \in Seen1
  <2>1. PICK o \in Objects : o = q.queue[i].obj
    BY <1>1
  <2>2. Held(q, i)
    BY <1>2 DEF Explored
  <2>3. ~Cut(o) /\ \A w \in KidsOf(o) : IsQueued(q, w, q.queue[i].depth + 1)
    BY <2>1, <2>2 DEF Held, Leaves
  <2>4. before[o] \in Nodes /\ Reach[o] = ValuesOf(before[o])
    BY ReachIs
  <2>5. ~Children(before[o]).truncated
    BY <2>3, <2>4, ChildrenAre DEF Cut
  <2>6. v \in KidsOf(o)
    BY <1>6, <2>1, <2>4, <2>5, KidsAll DEF KidsOf
  <2> QED BY <1>1, <1>3, <2>3, <2>6 DEF IsQueued
<1>7. /\ Within(0, Reach) = {Root}
      /\ \A e \in 1..c : Within(e, Reach) = Within(e - 1, Reach) \cup UNION {Reach[o] : o \in Within(e - 1, Reach)}
  BY <1>4, WithinTurns
<1>8. PICK T : T = {e \in 0..c : Within(e, Reach) \subseteq Seen1}
  OBVIOUS
<1>9. 0 \in T
  <2>1. 0 \in 0..c /\ 1 \in 1..n
    BY <1>1
  <2> QED BY <1>1, <1>3, <1>7, <1>8, <2>1
<1>10. ASSUME NEW e \in 1..c, e - 1 \in T PROVE e \in T
  <2>1. Within(e - 1, Reach) \subseteq Seen1 /\ e \in 0..c
    BY <1>8, <1>10
  <2>2. ASSUME NEW o \in Within(e - 1, Reach) PROVE Reach[o] \subseteq Seen1
    <3>1. PICK i \in 1..n : o = q.queue[i].obj
      BY <1>3, <2>1
    <3> QED BY <1>6, <3>1
  <2>3. Within(e, Reach) = Within(e - 1, Reach) \cup UNION {Reach[o] : o \in Within(e - 1, Reach)}
    BY <1>7
  <2>4. Within(e, Reach) \subseteq Seen1
    BY <2>1, <2>2, <2>3
  <2> QED BY <1>8, <2>1, <2>4
<1>11. c \in T
  <2>1. c \in 0..c
    OBVIOUS
  <2> QED BY <1>9, <1>10, <2>1, UpTo
<1> QED BY <1>3, <1>5, <1>8, <1>11

LEMMA AllPatched ==
  ASSUME before \in Graphs, NEW s, NEW Q, Refused(s, Q), NEW q, NEW h, Served(s, Q, q, h),
         ~s.stopped, ~s.stats.truncated,
         NEW o \in VisitedObjects(q, h), o \in Objects, NEW n \in Names, Seen(o, n).kind = "function",
         ~Unlisted(o, n)
  PROVE  <<o, n>> \in s.patched \/ <<o, n>> \in Q
<1>1. PICK i \in 1..h - 1 : o = q.queue[i].obj
  BY DEF VisitedObjects
<1>2. HandledTo(s, Q, o, Len(Chain(before, o))) /\ Uncut(o)
  BY <1>1 DEF Served
<1>3. PICK k \in 1..Len(Chain(before, o)) : Nearest(o, n, k)
  BY SeenSomething
<1>4. PICK l \in Nat : l = Len(Chain(before, o))
  BY BeforeChain DEF IsChain
<1>5. k <= l
  BY <1>3, <1>4
<1>6. before[Chain(before, o)[k]].listed
  <2>1. DOMAIN Chain(before, o) = 1..Len(Chain(before, o))
    BY BeforeChain DEF IsChain
  <2> QED BY <1>3, <2>1 DEF Unlisted, Nearest
<1>7. Whole(before[Chain(before, o)[k]])
  BY <1>2, <1>3, <1>6 DEF Uncut, Whole
<1>8. Handled(s, Q, <<o, n>>)
  BY <1>2, <1>3, <1>4, <1>5, <1>7 DEF HandledTo
<1> QED BY <1>8 DEF Handled

LEMMA InvComplete == ScanInv => ScanIsComplete
<1> SUFFICES ASSUME ScanInv, finished, ~stats.truncated,
                    NEW X, X = {slot \in Scanned \X Names : /\ Seen(slot[1], slot[2]).kind = "function"
                                                             /\ ~Unlisted(slot[1], slot[2])} \ patched,
                    NEW c, c = Cardinality(Objects)
             PROVE  Scanned = Within(c, [o \in Objects |-> ValuesOf(before[o])]) /\ Cardinality(X) <= stats.skippedFunctions
  BY DEF ScanIsComplete
<1>1. PICK s, Q, q : /\ s = ScanState /\ q = ScanQueue /\ Scans(s, Q, q, head)
                     /\ s.stats.truncated \/ ~(head <= Len(q.queue))
                     /\ before \in Graphs /\ limits \in LimitSets
  BY DEF ScanInv
<1>2. /\ s.stats = stats /\ s.patched = patched /\ q.queue = queue /\ q.truncated = stats.truncated
  BY <1>1 DEF ScanState, ScanQueue
<1>3. /\ Sound(s) /\ Refused(s, Q) /\ Served(s, Q, q, head)
      /\ InLine(q, head) /\ Explored(q, head, s.stopped)
  BY <1>1 DEF Scans, Instrumented
<1>4. s.stopped = FALSE
  <2>1. s.stopped \in BOOLEAN /\ (s.stopped => stats.truncated)
    BY <1>2, <1>3, StateParts DEF Sound
  <2> QED BY <2>1
<1>5. Scanned = VisitedObjects(q, head)
  BY <1>2 DEF Scanned, VisitedObjects
<1>6. Scanned = Within(c, Reach)
  <2>1. Explored(q, head, FALSE) /\ ~q.truncated /\ ~(head <= Len(q.queue))
    BY <1>1, <1>2, <1>3, <1>4
  <2> QED BY <1>1, <1>3, <1>5, <2>1, AllReached, ObjectsFinite
<1>7. Scanned \subseteq Objects
  <2>1. PICK k \in Nat : k = c
    BY ObjectsFinite
  <2>2. k \in 0..k
    OBVIOUS
  <2> QED BY <1>1, <1>6, <2>1, <2>2, ReachIs, WithinTurns
<1>8. X \subseteq Q
  <2>1. ASSUME NEW slot \in X PROVE slot \in Q
    <3>1. PICK o \in Scanned, n \in Names : /\ slot = <<o, n>> /\ Seen(o, n).kind = "function"
                                             /\ ~Unlisted(o, n) /\ slot \notin patched
      <4>1. /\ slot \in Scanned \X Names /\ Seen(slot[1], slot[2]).kind = "function"
            /\ ~Unlisted(slot[1], slot[2]) /\ slot \notin patched
        BY <2>1
      <4> QED BY <4>1
    <3> QED BY <1>1, <1>2, <1>3, <1>4, <1>5, <1>7, <3>1, AllPatched
  <2> QED BY <2>1
<1>9. Cardinality(X) <= stats.skippedFunctions
  <2>1. IsFiniteSet(Q) /\ Cardinality(Q) <= stats.skippedFunctions
    BY <1>2, <1>3 DEF Refused
  <2>2. IsFiniteSet(X) /\ Cardinality(X) <= Cardinality(Q)
    BY <1>8, <2>1, FS_Subset
  <2>3. Cardinality(X) \in Nat /\ Cardinality(Q) \in Nat
    BY <2>1, <2>2, FS_CardinalityType
  <2>4. stats.skippedFunctions \in Nat
    BY <1>2, <1>3, StateParts DEF Sound
  <2> QED BY <2>1, <2>2, <2>3, <2>4
<1> QED BY <1>6, <1>9 DEF Reach

\* A scan that does not say it was cut short has visited every object that can be reached over
\* properties that can be read, and wrapped every method seen on one, or counted it as skipped; but
\* not the methods of an object whose names cannot be read, of which it says nothing.
THEOREM CompleteScan == ScanSpec => []ScanIsComplete
BY ScanInvHolds, InvComplete, PTL

\* No scan wraps under a name anything but the method that was seen under it.
THEOREM WrapsSeen == ScanSpec => []WrapsWhatWasSeen
BY ScanInvHolds, InvWraps, PTL

\* When an object is visited, all that are nearer to the root have been.
THEOREM ShallowObjectsFirst == ScanSpec => []ShallowFirst
BY ScanInvHolds, InvShallow, PTL

=============================================================================
