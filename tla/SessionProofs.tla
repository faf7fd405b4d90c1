---------------------------- MODULE SessionProofs ----------------------------
(***************************************************************************)
(* Theorems about the recording protocol of module ProfilingSession, for   *)
(* any extensions, batch sizes and windows, any number of recordings and   *)
(* any number of lines under way, over a connection that breaks anywhere.  *)
(***************************************************************************)
EXTENDS ProfilingSession, SequenceTheorems, TLAPS

\* What the page is recording is its newest generation, first used on the present connection,
\* and accepted events are not older than what was cleared.
GenInv ==
  /\ profiling => /\ appUp /\ startGeneration > connectedAt
                  /\ activeStartGeneration = startGeneration
                  /\ acceptedEventGeneration = startGeneration
  /\ connectedAt <= startGeneration
  /\ ~appUp => acceptedEventGeneration = NoGeneration
  /\ acceptedEventGeneration = NoGeneration \/ acceptedEventGeneration >= clearedBelow
  /\ clearedBelow <= startGeneration + 1

\* The events of a batch carry the generation of its header.
OfOne(events, g) == \A i \in 1..Len(events) : events[i].gen = g

UniformBatches(a) ==
  \A i \in 1..Len(a) : a[i].type = "profile_batch" => OfOne(a[i].events, a[i].gen)

BatchInv == OfOne(eventQueue, clientSession) /\ UniformBatches(toApp)

Shows(events) ==
  \A i \in 1..Len(events) :
    events[i].gen = NoGeneration \/ events[i].gen >= clearedBelow

ClearInv == TypeOK /\ GenInv /\ BatchInv /\ Shows(rawEvents)

-----------------------------------------------------------------------------
(* Lines *)

Start_(u, g) == [type |-> "start_profiling", uuid |-> u, gen |-> g]
Stop_ == [type |-> "stop_profiling"]
Stopped_ == [type |-> "profiling_stopped"]
Started_(u, ok, g) == [type |-> "profiling_started", uuid |-> u, ok |-> ok, gen |-> g]
Batch_(g, events) == [type |-> "profile_batch", gen |-> g, events |-> events]

LEMMA LineTypes ==
  /\ Stop_ \in BridgeLine /\ Stopped_ \in AppLine
  /\ \A u \in Uuids, g \in Generation : Start_(u, g) \in BridgeLine
  /\ \A u \in Uuids, ok \in BOOLEAN, g \in Generation : Started_(u, ok, g) \in AppLine
  /\ \A g \in Generation, events \in Seq(Event) : Batch_(g, events) \in AppLine
  /\ \A k \in Shortcuts : [type |-> k] \in AppLine
BY DEF Start_, Stop_, Stopped_, Started_, Batch_, AppLine, BridgeLine

LEMMA BridgeLineCases ==
  ASSUME NEW m \in BridgeLine
  PROVE  \/ m.type = "start_profiling" /\ m.uuid \in Uuids /\ m.gen \in Generation
         \/ m.type = "stop_profiling"
BY DEF BridgeLine

LEMMA AppLineCases ==
  ASSUME NEW m \in AppLine
  PROVE  /\ m.type = "profiling_started" => m.uuid \in Uuids /\ m.gen \in Generation
         /\ m.type = "profile_batch" => m.gen \in Generation /\ m.events \in Seq(Event)
BY DEF AppLine, Shortcuts

\* RemoveAt leaves the other elements in their order.
LEMMA RemoveAtProperties ==
  ASSUME NEW S, NEW s \in Seq(S), NEW i \in 1..Len(s)
  PROVE  /\ RemoveAt(s, i) \in Seq(S) /\ Len(RemoveAt(s, i)) = Len(s) - 1
         /\ \A k \in 1..(Len(s) - 1) : RemoveAt(s, i)[k] = s[IF k < i THEN k ELSE k + 1]
<1> DEFINE front == SubSeq(s, 1, i - 1)
           back == SubSeq(s, i + 1, Len(s))
<1>0. Len(s) \in Nat
  BY LenProperties
<1>1. \A k \in 1..Len(s) : s[k] \in S
  BY ElementOfSeq
<1>2. /\ front \in Seq(S) /\ Len(front) = i - 1
      /\ \A k \in 1..(i - 1) : front[k] = s[k]
  BY <1>0, <1>1, SubSeqProperties
<1>3. /\ back \in Seq(S) /\ Len(back) = Len(s) - i
      /\ \A k \in 1..(Len(s) - i) : back[k] = s[k + i]
  <2>1. \A k \in (i + 1)..Len(s) : s[k] \in S
    BY <1>0, <1>1
  <2>2. /\ back \in Seq(S)
        /\ Len(back) = IF i + 1 <= Len(s) THEN Len(s) - (i + 1) + 1 ELSE 0
        /\ \A k \in 1..(Len(s) - (i + 1) + 1) : back[k] = s[(i + 1) + k - 1]
    BY <1>0, <2>1, SubSeqProperties
  <2>3. Len(back) = Len(s) - i
    BY <1>0, <2>2
  <2>4. ASSUME NEW k \in 1..(Len(s) - i)
        PROVE  back[k] = s[k + i]
    <3>1. k \in 1..(Len(s) - (i + 1) + 1) /\ (i + 1) + k - 1 = k + i
      BY <1>0
    <3>2. back[k] = s[(i + 1) + k - 1]
      BY <2>2, <3>1
    <3> QED BY <3>1, <3>2
  <2> QED BY <2>2, <2>3, <2>4
<1> HIDE DEF front, back
<1>4. /\ front \o back \in Seq(S) /\ Len(front \o back) = Len(s) - 1
      /\ \A k \in 1..(Len(s) - 1) :
           (front \o back)[k] = IF k <= i - 1 THEN front[k] ELSE back[k - (i - 1)]
  BY <1>0, <1>2, <1>3, ConcatProperties
<1>5. ASSUME NEW k \in 1..(Len(s) - 1)
      PROVE  (front \o back)[k] = s[IF k < i THEN k ELSE k + 1]
  <2>1. CASE k < i
    BY <1>0, <1>2, <1>4, <2>1
  <2>2. CASE ~(k < i)
    <3>1. k - (i - 1) \in 1..(Len(s) - i) /\ k - (i - 1) + i = k + 1
      BY <1>0, <2>2
    <3>2. back[k - (i - 1)] = s[k - (i - 1) + i]
      BY <1>3, <3>1
    <3> QED BY <1>0, <1>4, <2>2, <3>1, <3>2
  <2> QED BY <2>1, <2>2
<1> QED BY <1>4, <1>5 DEF RemoveAt, front, back

-----------------------------------------------------------------------------
(* Types *)

LEMMA StartTypes ==
  ASSUME TypeOK, CanStart, Start
  PROVE  /\ toBridge' \in Seq(BridgeLine) /\ pendingStartAcks' \in Seq(Request)
         /\ startGeneration' \in Generation /\ activeStartGeneration' \in Generation
         /\ acceptedEventGeneration' \in Generation /\ profiling' \in BOOLEAN
<1> DEFINE g == startGeneration + 1
<1>1. targetUuid \in Uuids /\ g \in Generation
  BY DEF TypeOK, PageTypes, CanStart, Generation
<1>2. toBridge' = Append(toBridge, Start_(targetUuid, g))
  BY DEF Start, Send, CanStart, Start_
<1>3. pendingStartAcks' = Append(pendingStartAcks, [gen |-> g, uuid |-> targetUuid])
  BY DEF Start
<1>4. Start_(targetUuid, g) \in BridgeLine /\ [gen |-> g, uuid |-> targetUuid] \in Request
  BY <1>1, LineTypes DEF Request
<1>5. toBridge' \in Seq(BridgeLine) /\ pendingStartAcks' \in Seq(Request)
  BY <1>2, <1>3, <1>4, AppendProperties DEF TypeOK, PageTypes, LinkTypes
<1>6. profiling' \in BOOLEAN
  BY DEF Start
<1> QED BY <1>1, <1>5, <1>6 DEF Start

LEMMA SendStopTypes ==
  ASSUME TypeOK, SendStop
  PROVE  /\ toBridge' \in Seq(BridgeLine) /\ activeStartGeneration' \in Generation
         /\ profiling' \in BOOLEAN
<1>1. toBridge' = Append(toBridge, Stop_) \/ toBridge' = toBridge
  BY DEF SendStop, Send, Stop_
<1>2. toBridge' \in Seq(BridgeLine)
  BY <1>1, LineTypes, AppendProperties DEF TypeOK, LinkTypes
<1>3. profiling' \in BOOLEAN
  BY DEF SendStop, SetStopped
<1> QED BY <1>2, <1>3 DEF SendStop, SetStopped, NoGeneration, Generation

LEMMA StopIfTypes ==
  ASSUME TypeOK, NEW c, StopIf(c)
  PROVE  /\ toBridge' \in Seq(BridgeLine) /\ activeStartGeneration' \in Generation
         /\ profiling' \in BOOLEAN
<1>1. CASE SendStop
  BY <1>1, SendStopTypes
<1>2. CASE UNCHANGED <<profiling, activeStartGeneration, toBridge>>
  BY <1>2 DEF TypeOK, FlagTypes, PageTypes, LinkTypes
<1> QED BY <1>1, <1>2 DEF StopIf

LEMMA SetStoppedTypes ==
  ASSUME TypeOK, SetStopped \/ UNCHANGED <<profiling, activeStartGeneration>>
  PROVE  activeStartGeneration' \in Generation /\ profiling' \in BOOLEAN
<1>1. profiling' \in BOOLEAN
  BY DEF SetStopped, TypeOK, FlagTypes
<1> QED BY <1>1 DEF SetStopped, TypeOK, PageTypes, NoGeneration, Generation

LEMMA EmitTypes ==
  ASSUME TypeOK, NEW ms \in Seq(AppLine), Emit(ms)
  PROVE  toApp' \in Seq(AppLine)
BY ConcatProperties DEF Emit, TypeOK, LinkTypes

LEMMA OneLine ==
  ASSUME NEW m \in AppLine
  PROVE  <<m>> \in Seq(AppLine) /\ Len(<<m>>) = 1 /\ <<m>>[1] = m
OBVIOUS

LEMMA BatchTypes ==
  ASSUME TypeOK
  PROVE  Batch \in Seq(AppLine)
<1>1. Batch_(clientSession, eventQueue) \in AppLine
  BY LineTypes DEF TypeOK, BridgeTypes
<1> QED BY <1>1, OneLine, EmptySeq DEF Batch, Batch_

LEMMA ReceiveTypes ==
  ASSUME TypeOK, NEW type, Receive(type)
  PROVE  /\ toApp' \in Seq(AppLine) /\ Head(toApp) \in AppLine /\ Head(toApp) = toApp[1]
         /\ toApp # <<>>
BY HeadTailProperties DEF Receive, TypeOK, LinkTypes

LEMMA BridgeReceiveTypes ==
  ASSUME TypeOK, NEW type, BridgeReceive(type)
  PROVE  /\ toBridge' \in Seq(BridgeLine) /\ Head(toBridge) \in BridgeLine
         /\ Head(toBridge) = toBridge[1] /\ toBridge # <<>> /\ Head(toBridge).type = type
BY HeadTailProperties DEF BridgeReceive, TypeOK, LinkTypes

LEMMA PageDisconnectedTypes ==
  ASSUME TypeOK, PageDisconnected
  PROVE  PageTypes' /\ profiling' \in BOOLEAN
<1>1. activeStartGeneration' \in Generation /\ profiling' \in BOOLEAN
  BY SetStoppedTypes DEF PageDisconnected
<1> QED BY <1>1, EmptySeq DEF PageDisconnected, TypeOK, PageTypes, NoGeneration, Generation

\* The lines of s are consecutive lines of t.
Piece(s, t) == \E d \in Nat : \A i \in 1..Len(s) : i + d \in 1..Len(t) /\ s[i] = t[i + d]

LEMMA SubSeqPiece ==
  ASSUME NEW S, NEW s \in Seq(S), NEW j \in Nat \ {0}, NEW k \in 0..Len(s)
  PROVE  SubSeq(s, j, k) \in Seq(S) /\ Piece(SubSeq(s, j, k), s)
<1> DEFINE t == SubSeq(s, j, k)
<1>1. Len(s) \in Nat
  BY LenProperties
<1>2. \A i \in j..k : s[i] \in S
  BY <1>1, ElementOfSeq
<1>3. /\ t \in Seq(S) /\ Len(t) = (IF j <= k THEN k - j + 1 ELSE 0)
      /\ \A i \in 1..(k - j + 1) : t[i] = s[j + i - 1]
  BY <1>1, <1>2, SubSeqProperties
<1> HIDE DEF t
<1>4. ASSUME NEW i \in 1..Len(t)
      PROVE  i + (j - 1) \in 1..Len(s) /\ t[i] = s[i + (j - 1)]
  <2>1. i \in 1..(k - j + 1) /\ j + i - 1 = i + (j - 1) /\ i + (j - 1) \in 1..Len(s)
    BY <1>1, <1>3
  <2>2. t[i] = s[j + i - 1]
    BY <1>3, <2>1
  <2> QED BY <2>1, <2>2
<1>5. j - 1 \in Nat
  OBVIOUS
<1>6. Piece(t, s)
  BY <1>4, <1>5 DEF Piece
<1> QED BY <1>3, <1>6 DEF t

LEMMA WholePiece ==
  ASSUME NEW S, NEW s \in Seq(S)
  PROVE  Piece(s, s)
<1>1. \A i \in 1..Len(s) : i + 0 \in 1..Len(s) /\ s[i] = s[i + 0]
  BY LenProperties
<1>2. 0 \in Nat
  OBVIOUS
<1> QED BY <1>1, <1>2 DEF Piece

\* Whatever becomes of a connection, what is left of the lines to the bridge is a piece of them.
LEMMA LinesLeft ==
  ASSUME TypeOK, Link
  PROVE  toBridge' \in Seq(BridgeLine) /\ Piece(toBridge', toBridge)
<1>0. toBridge \in Seq(BridgeLine) /\ Len(toBridge) \in Nat
  BY LenProperties DEF TypeOK, LinkTypes
<1>1. CASE toBridge' = <<>>
  <2>1. Piece(<<>>, toBridge)
    BY <1>0, EmptySeq DEF Piece
  <2> QED BY <1>1, <2>1, EmptySeq
<1>2. CASE toBridge' = toBridge
  BY <1>0, <1>2, WholePiece
<1>3. ASSUME NEW j \in Nat \ {0}, NEW k \in 0..Len(toBridge), toBridge' = SubSeq(toBridge, j, k)
      PROVE  toBridge' \in Seq(BridgeLine) /\ Piece(toBridge', toBridge)
  BY <1>0, <1>3, SubSeqPiece
<1>4. CASE Connect
  <2>1. CASE \E k \in 1..(Len(toBridge) + 1) : toBridge' = SubSeq(toBridge, k, Len(toBridge))
    <3>1. PICK k \in 1..(Len(toBridge) + 1) : toBridge' = SubSeq(toBridge, k, Len(toBridge))
      BY <2>1
    <3>2. k \in Nat \ {0} /\ Len(toBridge) \in 0..Len(toBridge)
      BY <1>0
    <3> QED BY <1>3, <3>1, <3>2
  <2> QED BY <1>1, <1>4, <2>1 DEF Connect
<1>5. CASE LateWriteReturns
  <2>1. CASE \E k \in 0..(Len(toBridge) - 1) : toBridge' = SubSeq(toBridge, 1, k)
    <3>1. PICK k \in 0..(Len(toBridge) - 1) : toBridge' = SubSeq(toBridge, 1, k)
      BY <2>1
    <3>2. k \in 0..Len(toBridge) /\ 1 \in Nat \ {0}
      BY <1>0
    <3> QED BY <1>3, <3>1, <3>2
  <2> QED BY <1>2, <1>5, <2>1 DEF LateWriteReturns
<1>6. CASE AppCloses
  <2>1. PICK k \in 0..Len(toBridge) :
          toBridge' = IF bridgeUp THEN SubSeq(toBridge, 1, k) ELSE <<>>
    BY <1>6 DEF AppCloses
  <2>2. 1 \in Nat \ {0}
    OBVIOUS
  <2> QED BY <1>1, <1>3, <2>1, <2>2
<1>7. CASE AppSeesEnd \/ BridgeSeesEnd \/ BridgeDisabled \/ BridgeDies
  BY <1>1, <1>2, <1>7 DEF AppSeesEnd, BridgeSeesEnd, BridgeDisabled, BridgeDies, BridgeCloses
<1> QED BY <1>4, <1>5, <1>6, <1>7 DEF Link, AppDrops, AppRestarts

LEMMA FlagsStep ==
  ASSUME TypeOK, [Next]_vars
  PROVE  FlagTypes'
<1> USE DEF TypeOK, FlagTypes, vars, pageVars, linkVars, bridgeVars
<1>1. CASE User
  BY <1>1 DEF User, PressStart, PressStop, Clear, Load, SelectTarget, ExtensionsChanged,
    PressShortcut, Start, SendStop, SetStopped, StopIf
<1>2. CASE AppReceives
  BY <1>2 DEF AppReceives, ReceiveToggle, ReceiveRestart, ReceiveBatch, ReceiveStarted,
    ReceiveStopped, Start, SendStop, SetStopped, StopIf
<1>3. CASE BridgeReceives \/ Record \/ Flush
  BY <1>3 DEF BridgeReceives, BridgeStops, BridgeStarts, BridgeIdle, Record, Flush
<1>4. CASE Link
  BY <1>4 DEF Link, Connect, LateWriteReturns, AppSeesEnd, AppDrops, AppRestarts, AppCloses,
    WriteMayBeLate, BridgeSeesEnd, BridgeDisabled, BridgeDies, BridgeCloses, BridgeIdle,
    PageDisconnected, SetStopped
<1>5. CASE UNCHANGED vars
  BY <1>5
<1> QED BY <1>1, <1>2, <1>3, <1>4, <1>5 DEF Next

LEMMA UserTypes ==
  ASSUME TypeOK, User
  PROVE  PageTypes' /\ LinkTypes' /\ BridgeTypes'
<1> USE DEF TypeOK, PageTypes, LinkTypes, BridgeTypes, pageVars, linkVars, bridgeVars
<1>1. CASE PressStart
  BY <1>1, StartTypes DEF PressStart
<1>2. CASE PressStop
  BY <1>2, SendStopTypes DEF PressStop
<1>3. CASE Clear
  BY <1>3, EmptySeq DEF Clear, NoGeneration, Generation
<1>4. CASE Load
  BY <1>4 DEF Load, FileEvents, NoGeneration, Generation, Event
<1>5. ASSUME NEW u \in Uuids \cup {NoUuid}, SelectTarget(u)
      PROVE  PageTypes' /\ LinkTypes' /\ BridgeTypes'
  BY <1>5, StopIfTypes DEF SelectTarget
<1>6. ASSUME NEW E \in SUBSET Uuids, ExtensionsChanged(E)
      PROVE  PageTypes' /\ LinkTypes' /\ BridgeTypes'
  BY <1>6, StopIfTypes DEF ExtensionsChanged
<1>7. ASSUME NEW k \in Shortcuts, PressShortcut(k)
      PROVE  PageTypes' /\ LinkTypes' /\ BridgeTypes'
  <2>1. <<[type |-> k]>> \in Seq(AppLine)
    BY LineTypes, OneLine
  <2>2. toApp' \in Seq(AppLine)
    BY <1>7, <2>1, EmitTypes DEF PressShortcut
  <2> QED BY <1>7, <2>2 DEF PressShortcut
<1> QED BY <1>1, <1>2, <1>3, <1>4, <1>5, <1>6, <1>7 DEF User

\* The window keeps the last events, in order.
LEMMA LastEventsTypes ==
  ASSUME NEW s \in Seq(Event)
  PROVE  /\ LastEvents(s) \in Seq(Event)
         /\ \E d \in 0..Len(s) :
              /\ Len(LastEvents(s)) = Len(s) - d
              /\ \A i \in 1..(Len(s) - d) : i + d \in 1..Len(s) /\ LastEvents(s)[i] = s[i + d]
<1>0. MaxRawEvents \in Nat /\ Len(s) \in Nat
  BY SessionAssumption, LenProperties
<1>1. CASE Len(s) <= MaxRawEvents
  <2>1. LastEvents(s) = s
    BY <1>1 DEF LastEvents
  <2>2. \A i \in 1..(Len(s) - 0) : i + 0 = i /\ i \in 1..Len(s)
    BY <1>0
  <2>3. 0 \in 0..Len(s) /\ Len(s) - 0 = Len(s)
    BY <1>0
  <2> QED BY <2>1, <2>2, <2>3
<1>2. CASE ~(Len(s) <= MaxRawEvents)
  <2>1. PICK d \in 1..Len(s) : d = Len(s) - MaxRawEvents
    BY <1>0, <1>2
  <2> DEFINE last == SubSeq(s, d + 1, Len(s))
  <2>2. LastEvents(s) = last
    BY <1>2, <2>1 DEF LastEvents
  <2>3. \A i \in (d + 1)..Len(s) : s[i] \in Event
    BY <1>0, <2>1, ElementOfSeq
  <2>4. /\ last \in Seq(Event)
        /\ Len(last) = IF d + 1 <= Len(s) THEN Len(s) - (d + 1) + 1 ELSE 0
        /\ \A i \in 1..(Len(s) - (d + 1) + 1) : last[i] = s[(d + 1) + i - 1]
    BY <1>0, <2>1, <2>3, SubSeqProperties
  <2>5. Len(last) = Len(s) - d
    BY <1>0, <2>1, <2>4
  <2>6. ASSUME NEW i \in 1..(Len(s) - d)
        PROVE  i + d \in 1..Len(s) /\ last[i] = s[i + d]
    <3>1. i + d \in 1..Len(s) /\ i \in 1..(Len(s) - (d + 1) + 1) /\ (d + 1) + i - 1 = i + d
      BY <1>0, <2>1
    <3>2. last[i] = s[(d + 1) + i - 1]
      BY <2>4, <3>1
    <3> QED BY <3>1, <3>2
  <2>7. d \in 0..Len(s)
    BY <1>0, <2>1
  <2> HIDE DEF last
  <2> QED BY <2>2, <2>4, <2>5, <2>6, <2>7
<1> QED BY <1>1, <1>2, Zenon

LEMMA AppReceivesTypes ==
  ASSUME TypeOK, AppReceives
  PROVE  PageTypes' /\ LinkTypes' /\ BridgeTypes'
<1> USE DEF TypeOK, PageTypes, LinkTypes, BridgeTypes, pageVars, linkVars, bridgeVars
<1>1. CASE ReceiveToggle
  BY <1>1, ReceiveTypes, StartTypes, SendStopTypes DEF ReceiveToggle
<1>2. CASE ReceiveRestart
  <2>1. toApp' \in Seq(AppLine)
    BY <1>2, ReceiveTypes DEF ReceiveRestart
  <2>2. CASE CanStart /\ Start /\ rawEvents' = <<>> /\ clearedBelow' = startGeneration + 1
    BY <1>2, <2>1, <2>2, StartTypes, EmptySeq DEF ReceiveRestart, Generation
  <2>3. CASE ~CanStart
    BY <1>2, <2>1, <2>3, StopIfTypes DEF ReceiveRestart
  <2> QED BY <1>2, <2>2, <2>3 DEF ReceiveRestart
<1>3. CASE ReceiveBatch
  <2>1. Receive("profile_batch") /\ toApp' \in Seq(AppLine) /\ Head(toApp) \in AppLine
    BY <1>3, ReceiveTypes DEF ReceiveBatch
  <2>2. Head(toApp).events \in Seq(Event)
    BY <2>1, AppLineCases DEF Receive
  <2>3. rawEvents \o Head(toApp).events \in Seq(Event)
    BY <2>2, ConcatProperties
  <2>4. rawEvents' \in Seq(Event)
    BY <1>3, <2>3, LastEventsTypes DEF ReceiveBatch
  <2> QED BY <1>3, <2>1, <2>4 DEF ReceiveBatch
<1>4. CASE ReceiveStarted
  <2>1. toApp' \in Seq(AppLine)
    BY <1>4, ReceiveTypes DEF ReceiveStarted
  <2>2. PICK i \in 0..Len(pendingStartAcks) :
          /\ pendingStartAcks' = IF i = 0 THEN pendingStartAcks ELSE RemoveAt(pendingStartAcks, i)
          /\ SetStopped \/ UNCHANGED <<profiling, activeStartGeneration>>
    BY <1>4 DEF ReceiveStarted
  <2>3. pendingStartAcks' \in Seq(Request)
    BY <2>2, LenProperties, RemoveAtProperties
  <2>4. activeStartGeneration' \in Generation
    BY <2>2, SetStoppedTypes
  <2> QED BY <1>4, <2>1, <2>3, <2>4 DEF ReceiveStarted
<1>5. CASE ReceiveStopped
  <2>1. toApp' \in Seq(AppLine)
    BY <1>5, ReceiveTypes DEF ReceiveStopped
  <2>2. activeStartGeneration' \in Generation
    BY <1>5, SetStoppedTypes DEF ReceiveStopped
  <2> QED BY <1>5, <2>1, <2>2 DEF ReceiveStopped
<1> QED BY <1>1, <1>2, <1>3, <1>4, <1>5 DEF AppReceives

LEMMA BridgeTypesStep ==
  ASSUME TypeOK, BridgeReceives \/ Record \/ Flush
  PROVE  PageTypes' /\ LinkTypes' /\ BridgeTypes'
<1> USE DEF TypeOK, PageTypes, LinkTypes, BridgeTypes, pageVars, linkVars, bridgeVars
<1>1. ASSUME NEW ok \in BOOLEAN, BridgeStarts(ok)
      PROVE  PageTypes' /\ LinkTypes' /\ BridgeTypes'
  <2> DEFINE m == Head(toBridge)
             ack == Started_(m.uuid, ok, m.gen)
  <2>1. BridgeReceive("start_profiling") /\ Emit(<<ack>>)
    BY <1>1 DEF BridgeStarts, Started_
  <2>2. toBridge' \in Seq(BridgeLine) /\ m \in BridgeLine /\ m.type = "start_profiling"
    BY <2>1, BridgeReceiveTypes
  <2>3. m.uuid \in Uuids /\ m.gen \in Generation
    BY <2>2, BridgeLineCases
  <2>4. <<ack>> \in Seq(AppLine)
    BY <2>3, LineTypes, OneLine
  <2>5. toApp' \in Seq(AppLine)
    BY <2>1, <2>4, EmitTypes
  <2> QED BY <1>1, <2>2, <2>3, <2>5, EmptySeq DEF BridgeStarts, NoGeneration, Generation
<1>2. CASE BridgeStops
  <2>1. BridgeReceive("stop_profiling") /\ Emit(Append(Batch, Stopped_)) /\ BridgeIdle
    BY <1>2 DEF BridgeStops, Stopped_
  <2>2. Append(Batch, Stopped_) \in Seq(AppLine)
    BY BatchTypes, LineTypes, AppendProperties
  <2>3. toApp' \in Seq(AppLine) /\ toBridge' \in Seq(BridgeLine)
    BY <2>1, <2>2, EmitTypes, BridgeReceiveTypes
  <2> QED BY <1>2, <2>1, <2>3, EmptySeq DEF BridgeStops, BridgeIdle, NoGeneration, Generation
<1>3. CASE Record
  <2> DEFINE e == [gen |-> clientSession, n |-> recorded + 1]
             q == Append(eventQueue, e)
             b == Batch_(clientSession, q)
  <2>1. e \in Event
    BY DEF Event
  <2>2. q \in Seq(Event)
    BY <2>1, AppendProperties
  <2>3. <<b>> \in Seq(AppLine)
    BY <2>2, LineTypes, OneLine
  <2>4. eventQueue' \in {q, <<>>} /\ (UNCHANGED toApp \/ Emit(<<b>>)) /\ recorded' \in Nat
    BY <1>3 DEF Record, Batch_
  <2>5. toApp' \in Seq(AppLine)
    BY <2>3, <2>4, EmitTypes
  <2> HIDE DEF q
  <2> QED BY <1>3, <2>2, <2>4, <2>5, EmptySeq DEF Record
<1>4. CASE Flush
  <2>1. toApp' \in Seq(AppLine)
    BY <1>4, BatchTypes, EmitTypes DEF Flush
  <2> QED BY <1>4, <2>1, EmptySeq DEF Flush
<1> QED BY <1>1, <1>2, <1>3, <1>4 DEF BridgeReceives

LEMMA LinkTypesStep ==
  ASSUME TypeOK, Link
  PROVE  PageTypes' /\ LinkTypes' /\ BridgeTypes'
<1> USE DEF TypeOK, LinkTypes, BridgeTypes, linkVars, bridgeVars
<1>0. UNCHANGED pageVars => PageTypes'
  BY DEF PageTypes, pageVars
<1>1. BridgeIdle => BridgeTypes'
  BY EmptySeq DEF BridgeIdle, NoGeneration, Generation
<1>2. <<>> \in Seq(AppLine) /\ toBridge' \in Seq(BridgeLine)
  BY EmptySeq, LinesLeft
<1>3. CASE Connect
  BY <1>0, <1>2, <1>3, PageDisconnectedTypes DEF Connect, PageTypes, NoGeneration, Generation
<1>4. CASE LateWriteReturns
  BY <1>0, <1>2, <1>4 DEF LateWriteReturns, PageTypes
<1>5. CASE AppSeesEnd
  BY <1>2, <1>5, PageDisconnectedTypes DEF AppSeesEnd, NoGeneration, Generation
<1>6. CASE AppDrops
  BY <1>2, <1>6, PageDisconnectedTypes DEF AppDrops, AppCloses, NoGeneration, Generation
<1>7. CASE BridgeSeesEnd
  BY <1>0, <1>7 DEF BridgeSeesEnd
<1>8. CASE BridgeDisabled
  <2>1. toApp' \in Seq(AppLine)
    BY <1>8, BatchTypes, EmitTypes DEF BridgeDisabled
  <2> QED BY <1>0, <1>1, <1>2, <1>8, <2>1 DEF BridgeDisabled, BridgeCloses
<1>9. CASE BridgeDies
  BY <1>0, <1>1, <1>2, <1>9 DEF BridgeDies, BridgeCloses
<1>10. CASE AppRestarts
  BY <1>2, <1>10, EmptySeq DEF AppRestarts, AppCloses, PageTypes, NoGeneration, Generation
<1> QED BY <1>3, <1>4, <1>5, <1>6, <1>7, <1>8, <1>9, <1>10 DEF Link

LEMMA TypesStep ==
  ASSUME TypeOK, [Next]_vars
  PROVE  TypeOK'
<1>1. CASE UNCHANGED vars
  BY <1>1, FlagsStep DEF TypeOK, PageTypes, LinkTypes, BridgeTypes, vars, pageVars, linkVars,
    bridgeVars
<1> QED BY <1>1, FlagsStep, UserTypes, AppReceivesTypes, BridgeTypesStep, LinkTypesStep
  DEF Next, TypeOK

-----------------------------------------------------------------------------
(* Generations and batches *)

LEMMA GenStep ==
  ASSUME TypeOK, GenInv, [Next]_vars
  PROVE  GenInv'
<1> USE DEF GenInv, NoGeneration
<1>0. /\ startGeneration \in Nat /\ clearedBelow \in Nat /\ acceptedEventGeneration \in Nat
      /\ profiling \in BOOLEAN /\ connectedAt \in Nat
  BY DEF TypeOK, FlagTypes, PageTypes, LinkTypes, Generation
<1>1. UNCHANGED <<profiling, activeStartGeneration, acceptedEventGeneration, startGeneration,
                  clearedBelow, appUp, connectedAt>> => GenInv'
  OBVIOUS
<1>2. ASSUME Start, CanStart, UNCHANGED <<appUp, connectedAt>>,
             clearedBelow' \in {clearedBelow, startGeneration + 1}
      PROVE  GenInv'
  <2>1. /\ appUp' /\ startGeneration' = startGeneration + 1
        /\ activeStartGeneration' = startGeneration' /\ acceptedEventGeneration' = startGeneration'
    BY <1>2 DEF Start, CanStart
  <2>2. startGeneration' > connectedAt' /\ connectedAt' <= startGeneration'
    BY <1>0, <1>2, <2>1
  <2>3. acceptedEventGeneration' >= clearedBelow' /\ clearedBelow' <= startGeneration' + 1
    BY <1>0, <1>2, <2>1
  <2> QED BY <2>1, <2>2, <2>3
<1>3. ASSUME SetStopped \/ UNCHANGED <<profiling, activeStartGeneration>>,
             UNCHANGED <<startGeneration, acceptedEventGeneration, clearedBelow, appUp, connectedAt>>
      PROVE  GenInv'
  BY <1>0, <1>3 DEF SetStopped
<1>4. PageDisconnected /\ connectedAt' \in {connectedAt, startGeneration} => GenInv'
  BY <1>0 DEF PageDisconnected, SetStopped
<1>5. CASE User
  <2>1. CASE Clear
    BY <1>0, <2>1 DEF Clear, linkVars
  <2>2. CASE PressStart
    BY <1>2, <2>2 DEF PressStart, linkVars
  <2>3. CASE PressStop \/ (\E u \in Uuids \cup {NoUuid} : SelectTarget(u))
               \/ (\E E \in SUBSET Uuids : ExtensionsChanged(E))
    BY <1>3, <2>3 DEF PressStop, SelectTarget, ExtensionsChanged, StopIf, SendStop, linkVars
  <2>4. CASE Load \/ \E k \in Shortcuts : PressShortcut(k)
    BY <1>1, <2>4 DEF Load, PressShortcut, pageVars, linkVars
  <2> QED BY <1>5, <2>1, <2>2, <2>3, <2>4 DEF User
<1>6. CASE AppReceives
  <2>1. CASE ReceiveToggle
    BY <1>1, <1>2, <1>3, <2>1 DEF ReceiveToggle, SendStop, linkVars
  <2>2. CASE ReceiveRestart
    BY <1>2, <1>3, <2>2 DEF ReceiveRestart, StopIf, SendStop, linkVars
  <2>3. CASE ReceiveBatch
    BY <1>1, <2>3 DEF ReceiveBatch, linkVars
  <2>4. CASE ReceiveStarted
    BY <1>3, <2>4 DEF ReceiveStarted, linkVars
  <2>5. CASE ReceiveStopped
    BY <1>3, <2>5 DEF ReceiveStopped, linkVars
  <2> QED BY <1>6, <2>1, <2>2, <2>3, <2>4, <2>5 DEF AppReceives
<1>7. CASE BridgeReceives \/ Record \/ Flush
  BY <1>1, <1>7 DEF BridgeReceives, BridgeStarts, BridgeStops, Record, Flush, pageVars, linkVars
<1>8. CASE Link
  <2>1. CASE Connect
    <3>1. CASE appUp
      BY <1>4, <2>1, <3>1 DEF Connect
    <3>2. CASE ~appUp
      BY <1>0, <2>1, <3>2 DEF Connect, pageVars
    <3> QED BY <3>1, <3>2
  <2>2. CASE AppSeesEnd \/ AppDrops
    BY <1>4, <2>2 DEF AppSeesEnd, AppDrops
  <2>3. CASE LateWriteReturns \/ BridgeSeesEnd \/ BridgeDisabled \/ BridgeDies
    BY <1>1, <2>3 DEF LateWriteReturns, BridgeSeesEnd, BridgeDisabled, BridgeDies, BridgeCloses, pageVars
  <2>4. CASE AppRestarts
    BY <1>0, <2>4 DEF AppRestarts
  <2> QED BY <1>8, <2>1, <2>2, <2>3, <2>4 DEF Link
<1>9. CASE UNCHANGED vars
  BY <1>1, <1>9 DEF vars, pageVars, linkVars
<1> QED BY <1>5, <1>6, <1>7, <1>8, <1>9 DEF Next

LEMMA UniformEmit ==
  ASSUME TypeOK, UniformBatches(toApp), NEW ms \in Seq(AppLine), UniformBatches(ms), Emit(ms)
  PROVE  UniformBatches(toApp')
<1>1. Len(toApp) \in Nat /\ Len(ms) \in Nat /\ toApp \in Seq(AppLine)
  BY LenProperties DEF TypeOK, LinkTypes
<1>2. CASE toApp' = toApp \o ms
  <2>1. /\ Len(toApp') = Len(toApp) + Len(ms)
        /\ \A i \in 1..Len(toApp') :
             \/ i \in 1..Len(toApp) /\ toApp'[i] = toApp[i]
             \/ i - Len(toApp) \in 1..Len(ms) /\ toApp'[i] = ms[i - Len(toApp)]
    BY <1>1, <1>2, ConcatProperties
  <2> QED BY <2>1 DEF UniformBatches
<1> QED BY <1>2 DEF Emit

LEMMA UniformOne ==
  ASSUME NEW m \in AppLine, m.type = "profile_batch" => OfOne(m.events, m.gen)
  PROVE  UniformBatches(<<m>>)
BY OneLine DEF UniformBatches

LEMMA UniformBatch ==
  ASSUME TypeOK, BatchInv
  PROVE  UniformBatches(Batch)
<1>1. CASE eventQueue = <<>>
  BY <1>1 DEF Batch, UniformBatches
<1>2. CASE eventQueue # <<>>
  <2> DEFINE b == Batch_(clientSession, eventQueue)
  <2>1. b \in AppLine /\ b.events = eventQueue /\ b.gen = clientSession
    BY LineTypes DEF TypeOK, BridgeTypes, Batch_
  <2>2. Batch = <<b>>
    BY <1>2 DEF Batch, Batch_
  <2> QED BY <2>1, <2>2, UniformOne DEF BatchInv
<1> QED BY <1>1, <1>2

LEMMA BatchStep ==
  ASSUME TypeOK, BatchInv, [Next]_vars
  PROVE  BatchInv'
<1> USE DEF bridgeVars
<1>0. UniformBatches(toApp) /\ OfOne(eventQueue, clientSession)
  BY DEF BatchInv
<1>1. OfOne(<<>>, clientSession') /\ UniformBatches(<<>>)
  BY DEF OfOne, UniformBatches
<1>2. UNCHANGED <<eventQueue, clientSession>> => OfOne(eventQueue', clientSession')
  BY <1>0
<1>3. toApp' \in {toApp, <<>>} => UniformBatches(toApp')
  BY <1>0, <1>1
<1>4. ASSUME toApp # <<>>, toApp' = Tail(toApp)
      PROVE  UniformBatches(toApp')
  <2>1. toApp \in Seq(AppLine) /\ Len(toApp) \in Nat
    BY LenProperties DEF TypeOK, LinkTypes
  <2>2. \A i \in 1..Len(toApp') : i + 1 \in 1..Len(toApp) /\ toApp'[i] = toApp[i + 1]
    BY <1>4, <2>1, HeadTailProperties
  <2> QED BY <1>0, <2>2 DEF UniformBatches
<1>5. CASE User
  <2>1. CASE UNCHANGED <<toApp, eventQueue, clientSession>>
    BY <1>2, <1>3, <2>1 DEF BatchInv
  <2>2. ASSUME NEW k \in Shortcuts, PressShortcut(k)
        PROVE  BatchInv'
    <3>1. [type |-> k] \in AppLine /\ [type |-> k].type # "profile_batch"
      BY LineTypes DEF Shortcuts
    <3>2. UniformBatches(<<[type |-> k]>>) /\ <<[type |-> k]>> \in Seq(AppLine)
      BY <3>1, UniformOne, OneLine
    <3> QED BY <1>0, <1>2, <2>2, <3>2, UniformEmit DEF PressShortcut, BatchInv
  <2> QED BY <1>5, <2>1, <2>2 DEF User, PressStart, PressStop, Clear, Load, SelectTarget,
    ExtensionsChanged
<1>6. CASE AppReceives
  <2>1. toApp # <<>> /\ toApp' = Tail(toApp) /\ UNCHANGED <<eventQueue, clientSession>>
    BY <1>6 DEF AppReceives, ReceiveToggle, ReceiveRestart, ReceiveBatch, ReceiveStarted,
      ReceiveStopped, Receive
  <2> QED BY <1>2, <1>4, <2>1 DEF BatchInv
<1>7. ASSUME NEW ok \in BOOLEAN, BridgeStarts(ok)
      PROVE  BatchInv'
  <2> DEFINE m == Head(toBridge)
             ack == Started_(m.uuid, ok, m.gen)
  <2>1. BridgeReceive("start_profiling") /\ Emit(<<ack>>)
    BY <1>7 DEF BridgeStarts, Started_
  <2>2. m.uuid \in Uuids /\ m.gen \in Generation
    BY <2>1, BridgeReceiveTypes, BridgeLineCases
  <2>3. ack \in AppLine /\ ack.type # "profile_batch"
    BY <2>2, LineTypes DEF Started_
  <2>4. UniformBatches(<<ack>>) /\ <<ack>> \in Seq(AppLine)
    BY <2>3, UniformOne, OneLine
  <2> QED BY <1>0, <1>1, <1>7, <2>1, <2>4, UniformEmit DEF BridgeStarts, BatchInv
<1>8. CASE BridgeStops
  <2>1. Batch \in Seq(AppLine) /\ Stopped_ \in AppLine /\ Stopped_.type # "profile_batch"
    BY BatchTypes, LineTypes DEF Stopped_
  <2>2. Append(Batch, Stopped_) \in Seq(AppLine)
    BY <2>1, AppendProperties
  <2>3. UniformBatches(Append(Batch, Stopped_))
    <3>1. UniformBatches(Batch)
      BY UniformBatch
    <3>2. /\ Len(Batch) \in Nat
          /\ \A i \in 1..Len(Append(Batch, Stopped_)) :
               \/ i \in 1..Len(Batch) /\ Append(Batch, Stopped_)[i] = Batch[i]
               \/ Append(Batch, Stopped_)[i] = Stopped_
      BY <2>1, LenProperties, AppendProperties
    <3> QED BY <2>1, <3>1, <3>2 DEF UniformBatches
  <2> QED BY <1>0, <1>1, <1>8, <2>2, <2>3, UniformEmit DEF BridgeStops, BridgeIdle, Stopped_, BatchInv
<1>9. CASE Record
  <2> DEFINE e == [gen |-> clientSession, n |-> recorded + 1]
             q == Append(eventQueue, e)
             b == Batch_(clientSession, q)
  <2>1. e \in Event /\ clientSession \in Generation /\ eventQueue \in Seq(Event)
    BY DEF Event, TypeOK, BridgeTypes
  <2>2. q \in Seq(Event)
    BY <2>1, AppendProperties
  <2>3. OfOne(q, clientSession)
    <3>1. /\ Len(eventQueue) \in Nat
          /\ \A i \in 1..Len(q) : (i \in 1..Len(eventQueue) /\ q[i] = eventQueue[i]) \/ q[i] = e
      BY <2>1, LenProperties, AppendProperties
    <3> QED BY <1>0, <3>1 DEF OfOne
  <2> HIDE DEF q
  <2>4. b \in AppLine /\ b.events = q /\ b.gen = clientSession
    BY <2>1, <2>2, LineTypes DEF Batch_
  <2>5. <<b>> \in Seq(AppLine) /\ UniformBatches(<<b>>)
    BY <2>3, <2>4, OneLine, UniformOne
  <2>6. /\ UNCHANGED clientSession /\ eventQueue' \in {q, <<>>}
        /\ UNCHANGED toApp \/ Emit(<<b>>)
    BY <1>9 DEF Record, Batch_, q
  <2>7. UniformBatches(toApp')
    BY <1>0, <2>5, <2>6, UniformEmit
  <2> QED BY <1>1, <2>3, <2>6, <2>7 DEF BatchInv
<1>10. CASE Flush
  <2>1. UniformBatches(toApp')
    BY <1>0, <1>10, BatchTypes, UniformBatch, UniformEmit DEF Flush
  <2> QED BY <1>1, <1>10, <2>1 DEF Flush, BatchInv
<1>11. CASE Link
  <2>1. UniformBatches(toApp')
    <3>1. CASE BridgeDisabled
      BY <1>0, <3>1, BatchTypes, UniformBatch, UniformEmit DEF BridgeDisabled
    <3> QED BY <1>3, <1>11, <3>1 DEF Link, Connect, LateWriteReturns, AppSeesEnd, AppDrops,
      AppRestarts, AppCloses, BridgeSeesEnd, BridgeDies
  <2>2. OfOne(eventQueue', clientSession')
    BY <1>1, <1>2, <1>11 DEF Link, Connect, LateWriteReturns, AppSeesEnd, AppDrops, AppRestarts,
      BridgeSeesEnd, BridgeDisabled, BridgeDies, BridgeCloses, BridgeIdle
  <2> QED BY <2>1, <2>2 DEF BatchInv
<1>12. CASE UNCHANGED vars
  BY <1>2, <1>3, <1>12 DEF vars, BatchInv
<1> QED BY <1>5, <1>6, <1>7, <1>8, <1>9, <1>10, <1>11, <1>12 DEF Next, BridgeReceives

-----------------------------------------------------------------------------
(* What was cleared *)

LEMMA ShownStep ==
  ASSUME ClearInv, [Next]_vars
  PROVE  Shows(rawEvents)'
<1> USE DEF ClearInv, NoGeneration
<1>1. UNCHANGED <<rawEvents, clearedBelow>> => Shows(rawEvents)'
  BY DEF Shows
<1>2. rawEvents' = <<>> => Shows(rawEvents)'
  BY DEF Shows
<1>3. CASE Load
  BY <1>3 DEF Load, FileEvents, Shows
<1>4. CASE Clear \/ AppRestarts
  BY <1>2, <1>4 DEF Clear, AppRestarts
<1>5. CASE ReceiveRestart
  BY <1>1, <1>2, <1>5 DEF ReceiveRestart
<1>6. CASE ReceiveBatch
  <2> DEFINE m == Head(toApp)
             all == rawEvents \o m.events
  <2>1. Receive("profile_batch") /\ m = toApp[1] /\ m \in AppLine /\ UNCHANGED clearedBelow
    BY <1>6, ReceiveTypes DEF ReceiveBatch
  <2>2. m.type = "profile_batch" /\ m.events \in Seq(Event) /\ rawEvents \in Seq(Event)
    BY <2>1, AppLineCases DEF Receive, TypeOK, PageTypes
  <2>3. OfOne(m.events, m.gen)
    <3>1. 1 \in 1..Len(toApp)
      BY <2>1, EmptySeq DEF Receive, TypeOK, LinkTypes
    <3> QED BY <2>1, <2>2, <3>1 DEF BatchInv, UniformBatches
  <2>4. CASE Accepts(m)
    <3>1. Shows(m.events)
      BY <2>3, <2>4 DEF Shows, OfOne, Accepts, GenInv
    <3>2. /\ all \in Seq(Event) /\ Len(rawEvents) \in Nat /\ Len(m.events) \in Nat
          /\ Len(all) = Len(rawEvents) + Len(m.events)
          /\ \A i \in 1..(Len(rawEvents) + Len(m.events)) :
               all[i] = IF i <= Len(rawEvents) THEN rawEvents[i] ELSE m.events[i - Len(rawEvents)]
      BY <2>2, ConcatProperties, LenProperties
    <3> HIDE DEF m, all
    <3>3. ASSUME NEW i \in 1..Len(all)
          PROVE  all[i].gen = NoGeneration \/ all[i].gen >= clearedBelow
      <4>1. CASE i <= Len(rawEvents)
        BY <3>2, <4>1 DEF Shows
      <4>2. CASE ~(i <= Len(rawEvents))
        <5>1. i - Len(rawEvents) \in 1..Len(m.events) /\ all[i] = m.events[i - Len(rawEvents)]
          BY <3>2, <4>2
        <5> QED BY <3>1, <5>1 DEF Shows
      <4> QED BY <4>1, <4>2
    <3>4. rawEvents' = LastEvents(all)
      BY <1>6, <2>4 DEF ReceiveBatch, m, all
    <3>5. PICK d \in 0..Len(all) :
            /\ Len(rawEvents') = Len(all) - d
            /\ \A i \in 1..(Len(all) - d) : i + d \in 1..Len(all) /\ rawEvents'[i] = all[i + d]
      BY <3>2, <3>4, LastEventsTypes
    <3> QED BY <2>1, <3>3, <3>5 DEF Shows
  <2>5. CASE ~Accepts(m)
    BY <1>1, <1>6, <2>5 DEF ReceiveBatch
  <2> QED BY <2>4, <2>5
<1>7. CASE UNCHANGED vars
  BY <1>1, <1>7 DEF vars, pageVars
<1>8. User => Clear \/ Load \/ UNCHANGED <<rawEvents, clearedBelow>>
  BY DEF User, PressStart, PressStop, SelectTarget, ExtensionsChanged, PressShortcut, pageVars
<1>9. AppReceives => ReceiveRestart \/ ReceiveBatch \/ UNCHANGED <<rawEvents, clearedBelow>>
  BY DEF AppReceives, ReceiveToggle, ReceiveStarted, ReceiveStopped
<1>10. BridgeReceives \/ Record \/ Flush => UNCHANGED <<rawEvents, clearedBelow>>
  BY DEF BridgeReceives, BridgeStarts, BridgeStops, Record, Flush, pageVars
<1>11. Link => AppRestarts \/ UNCHANGED <<rawEvents, clearedBelow>>
  BY DEF Link, Connect, LateWriteReturns, AppSeesEnd, AppDrops, BridgeSeesEnd, BridgeDisabled,
    BridgeDies, BridgeCloses, PageDisconnected, pageVars
<1> QED BY <1>1, <1>3, <1>4, <1>5, <1>6, <1>7, <1>8, <1>9, <1>10, <1>11 DEF Next

\* The page and the bridge keep their variables in range, and every line in flight is one of
\* the protocol's, whatever breaks.
THEOREM SessionIsTyped == Spec => []TypeOK
<1>1. Init => TypeOK
  <2>1. Init => FlagTypes
    BY DEF Init, FlagTypes
  <2>2. Init => PageTypes /\ LinkTypes /\ BridgeTypes
    BY EmptySeq DEF Init, PageTypes, LinkTypes, BridgeTypes, NoGeneration, Generation
  <2> QED BY <2>1, <2>2 DEF TypeOK
<1>2. TypeOK /\ [Next]_vars => TypeOK'
  BY TypesStep
<1> QED BY <1>1, <1>2, PTL DEF Spec

\* After a Clear or a Restart, and in a new run of the app, no event of a superseded recording
\* is shown again, however late its batch arrives and whatever connection brings it
\* (_on_clear, _handle_global_restart, _accepts_profile_message).
THEOREM AlwaysCleared == Spec => []ClearedStaysCleared
<1>1. Init => ClearInv
  <2>1. Init => GenInv
    BY DEF Init, GenInv
  <2>2. Init => BatchInv /\ Shows(rawEvents)
    BY DEF Init, BatchInv, Shows, OfOne, UniformBatches
  <2>3. Init => FlagTypes
    BY DEF Init, FlagTypes
  <2>4. Init => PageTypes /\ LinkTypes /\ BridgeTypes
    BY EmptySeq DEF Init, PageTypes, LinkTypes, BridgeTypes, NoGeneration, Generation
  <2> QED BY <2>1, <2>2, <2>3, <2>4 DEF TypeOK, ClearInv
<1>2. ClearInv /\ [Next]_vars => ClearInv'
  <2>1. SUFFICES ASSUME ClearInv, [Next]_vars PROVE ClearInv'
    OBVIOUS
  <2>2. TypeOK' /\ GenInv' /\ BatchInv'
    BY <2>1, TypesStep, GenStep, BatchStep DEF ClearInv
  <2>3. Shows(rawEvents)'
    BY <2>1, ShownStep
  <2> QED BY <2>2, <2>3 DEF ClearInv
<1>3. ClearInv => ClearedStaysCleared
  <2>1. SUFFICES ASSUME ClearInv PROVE ClearedStaysCleared
    OBVIOUS
  <2>2. DOMAIN rawEvents = 1..Len(rawEvents) /\ \A i \in 1..Len(rawEvents) : rawEvents[i] \in Event
    BY <2>1, LenProperties, ElementOfSeq DEF ClearInv, TypeOK, PageTypes
  <2> QED BY <2>1, <2>2 DEF ClearInv, Shows, ClearedStaysCleared, Event
<1> QED BY <1>1, <1>2, <1>3, PTL DEF Spec

-----------------------------------------------------------------------------
(* Requests and their acknowledgements *)

StartLine(m) == m.type \in {"profiling_started", "start_profiling"}
Same(m, r) == m.gen = r.gen /\ m.uuid = r.uuid

Rising(s) ==
  \A i, j \in 1..Len(s) : i < j /\ StartLine(s[i]) /\ StartLine(s[j]) => s[i].gen < s[j].gen
Before(a, b) ==
  \A i \in 1..Len(a), j \in 1..Len(b) : StartLine(a[i]) /\ StartLine(b[j]) => a[i].gen < b[j].gen
Within(s, n) == \A i \in 1..Len(s) : StartLine(s[i]) => s[i].gen \in 1..n
RequestsRise(p) == \A i, j \in 1..Len(p) : i < j => p[i].gen < p[j].gen

Carries(s, r) == \E i \in 1..Len(s) : StartLine(s[i]) /\ Same(s[i], r)
Asked(s, p, c) ==
  \A i \in 1..Len(s) : StartLine(s[i]) /\ s[i].gen > c => \E k \in 1..Len(p) : Same(s[i], p[k])
Answered(p, a, b, l) ==
  \A k \in 1..Len(p) : p[k].gen > l => Carries(a, p[k]) \/ Carries(b, p[k])
Recent(p, c, n) == c <= n /\ \A k \in 1..Len(p) : p[k].gen \in (c + 1)..n

\* Requests p wait for their answers; a holds the answers on their way back and b the requests
\* on their way there, of generations up to n.  Those of generations up to c are of earlier
\* connections and nobody waits for them; those of generations up to l may have been cleared.
Matched(p, a, b, n, c, l) ==
  /\ Rising(a) /\ Rising(b) /\ Before(a, b) /\ Within(a, n) /\ Within(b, n)
  /\ RequestsRise(p) /\ Recent(p, c, n)
  /\ Asked(a, p, c) /\ Asked(b, p, c) /\ Answered(p, a, b, l)

MatchInv ==
  /\ appUp /\ bridgeUp =>
       Matched(pendingStartAcks, toApp, toBridge, startGeneration, connectedAt, lostAt)
  /\ ~appUp => pendingStartAcks = <<>>

\* Requests on their way to the bridge follow in order, and no generation on its way there, or
\* recorded there, is newer than the page's.
KnownInv ==
  /\ Rising(toBridge) /\ Within(toBridge, startGeneration)
  /\ clientSession <= startGeneration /\ (running => clientSession > 0)

LEMMA PieceParts ==
  ASSUME NEW s, NEW t, Len(s) \in Nat, Piece(s, t)
  PROVE  /\ Rising(t) => Rising(s)
         /\ \A n : Within(t, n) => Within(s, n)
         /\ \A a : Before(a, t) => Before(a, s)
         /\ \A p, c : Asked(t, p, c) => Asked(s, p, c)
<1>1. PICK d \in Nat : \A i \in 1..Len(s) : i + d \in 1..Len(t) /\ s[i] = t[i + d]
  BY DEF Piece
<1>2. Rising(t) => Rising(s)
  <2>1. SUFFICES ASSUME Rising(t), NEW i \in 1..Len(s), NEW j \in 1..Len(s), i < j,
                        StartLine(s[i]), StartLine(s[j])
                 PROVE  s[i].gen < s[j].gen
    BY DEF Rising
  <2>2. i + d \in 1..Len(t) /\ s[i] = t[i + d] /\ j + d \in 1..Len(t) /\ s[j] = t[j + d]
    BY <1>1
  <2>3. i + d < j + d
    BY <2>1
  <2>4. StartLine(t[i + d]) /\ StartLine(t[j + d])
    BY <2>1, <2>2
  <2>5. t[i + d].gen < t[j + d].gen
    BY <2>1, <2>2, <2>3, <2>4 DEF Rising
  <2> QED BY <2>2, <2>5
<1>3. \A n : Within(t, n) => Within(s, n)
  BY <1>1 DEF Within
<1>4. \A a : Before(a, t) => Before(a, s)
  BY <1>1 DEF Before
<1>5. \A p, c : Asked(t, p, c) => Asked(s, p, c)
  BY <1>1 DEF Asked
<1> QED BY <1>2, <1>3, <1>4, <1>5

\* The lines of s about starts are those of t, d places further.
Keeps(s, t, d) ==
  /\ \A j \in 1..Len(t) : StartLine(t[j]) => j + d \in 1..Len(s) /\ s[j + d] = t[j]
  /\ \A i \in 1..Len(s) : StartLine(s[i]) => i - d \in 1..Len(t) /\ t[i - d] = s[i]

LEMMA KeepsTail ==
  ASSUME NEW S, NEW s \in Seq(S), s # <<>>, ~StartLine(s[1])
  PROVE  Keeps(s, Tail(s), 1)
<1>1. Len(s) \in Nat /\ Len(Tail(s)) = Len(s) - 1
  BY LenProperties, HeadTailProperties
<1>2. ASSUME NEW j \in 1..Len(Tail(s))
      PROVE  j + 1 \in 1..Len(s) /\ s[j + 1] = Tail(s)[j]
  BY <1>1, HeadTailProperties
<1>3. ASSUME NEW i \in 1..Len(s), StartLine(s[i])
      PROVE  i - 1 \in 1..Len(Tail(s)) /\ Tail(s)[i - 1] = s[i]
  <2>1. i # 1
    BY <1>3
  <2>2. i - 1 \in 1..Len(Tail(s)) /\ i - 1 + 1 = i
    BY <1>1, <2>1
  <2> QED BY <1>2, <2>2
<1> QED BY <1>2, <1>3 DEF Keeps

LEMMA KeepsConcat ==
  ASSUME NEW S, NEW s \in Seq(S), NEW t \in Seq(S), \A i \in 1..Len(t) : ~StartLine(t[i])
  PROVE  Keeps(s, s \o t, 0)
<1>1. /\ Len(s) \in Nat /\ Len(t) \in Nat /\ Len(s \o t) = Len(s) + Len(t)
      /\ \A i \in 1..(Len(s) + Len(t)) :
           (s \o t)[i] = IF i <= Len(s) THEN s[i] ELSE t[i - Len(s)]
  BY LenProperties, ConcatProperties
<1>2. ASSUME NEW j \in 1..Len(s \o t), StartLine((s \o t)[j])
      PROVE  j + 0 \in 1..Len(s) /\ s[j + 0] = (s \o t)[j]
  <2>1. CASE j <= Len(s)
    BY <1>1, <2>1
  <2>2. CASE ~(j <= Len(s))
    <3>1. j - Len(s) \in 1..Len(t) /\ (s \o t)[j] = t[j - Len(s)]
      BY <1>1, <2>2
    <3> QED BY <1>2, <3>1
  <2> QED BY <2>1, <2>2
<1>3. ASSUME NEW i \in 1..Len(s)
      PROVE  i - 0 \in 1..Len(s \o t) /\ (s \o t)[i - 0] = s[i]
  BY <1>1
<1> QED BY <1>2, <1>3 DEF Keeps

LEMMA KeepsAppend ==
  ASSUME NEW S, NEW s \in Seq(S), NEW m \in S, ~StartLine(m)
  PROVE  Keeps(s, Append(s, m), 0)
<1>1. <<m>> \in Seq(S) /\ Append(s, m) = s \o <<m>> /\ Len(<<m>>) = 1 /\ <<m>>[1] = m
  BY AppendIsConcat
<1>2. \A i \in 1..Len(<<m>>) : ~StartLine(<<m>>[i])
  BY <1>1
<1> QED BY <1>1, <1>2, KeepsConcat

LEMMA KeepsSame ==
  ASSUME NEW S, NEW s \in Seq(S)
  PROVE  Keeps(s, s, 0)
<1>1. Len(s) \in Nat
  BY LenProperties
<1>2. \A i \in 1..Len(s) : i + 0 = i /\ i - 0 = i
  BY <1>1
<1> QED BY <1>2 DEF Keeps

\* Lines that are not about starts come and go without a trace.
LEMMA KeptMatched ==
  ASSUME NEW p, NEW a, NEW b, NEW n, NEW c, NEW l, Matched(p, a, b, n, c, l),
         NEW a2, NEW b2, NEW d \in Int, NEW e \in Int,
         Len(a) \in Nat, Len(b) \in Nat, Len(a2) \in Nat, Len(b2) \in Nat,
         Keeps(a, a2, d), Keeps(b, b2, e)
  PROVE  Matched(p, a2, b2, n, c, l)
<1> USE DEF Matched
<1>1. ASSUME NEW s, NEW t, NEW h \in Int, Len(s) \in Nat, Len(t) \in Nat, Keeps(s, t, h)
      PROVE  /\ Rising(s) => Rising(t)
             /\ Within(s, n) => Within(t, n)
             /\ Asked(s, p, c) => Asked(t, p, c)
             /\ \A r : Carries(s, r) => Carries(t, r)
  <2>1. Rising(s) => Rising(t)
    <3>1. SUFFICES ASSUME Rising(s), NEW i \in 1..Len(t), NEW j \in 1..Len(t), i < j,
                          StartLine(t[i]), StartLine(t[j])
                   PROVE  t[i].gen < t[j].gen
      BY DEF Rising
    <3>2. /\ i + h \in 1..Len(s) /\ s[i + h] = t[i]
          /\ j + h \in 1..Len(s) /\ s[j + h] = t[j]
      BY <1>1, <3>1 DEF Keeps
    <3>3. i + h < j + h
      BY <1>1, <3>1
    <3>4. StartLine(s[i + h]) /\ StartLine(s[j + h])
      BY <3>1, <3>2
    <3>5. s[i + h].gen < s[j + h].gen
      BY <3>1, <3>2, <3>3, <3>4 DEF Rising
    <3> QED BY <3>2, <3>5
  <2>2. Within(s, n) => Within(t, n)
    BY <1>1 DEF Within, Keeps
  <2>3. Asked(s, p, c) => Asked(t, p, c)
    BY <1>1 DEF Asked, Keeps
  <2>4. ASSUME NEW r, Carries(s, r)
        PROVE  Carries(t, r)
    <3>1. PICK i \in 1..Len(s) : StartLine(s[i]) /\ Same(s[i], r)
      BY <2>4 DEF Carries
    <3>2. i - h \in 1..Len(t) /\ t[i - h] = s[i]
      BY <1>1, <3>1 DEF Keeps
    <3> QED BY <3>1, <3>2 DEF Carries
  <2> QED BY <2>1, <2>2, <2>3, <2>4
<1>2. Rising(a2) /\ Within(a2, n) /\ Asked(a2, p, c) /\ \A r : Carries(a, r) => Carries(a2, r)
  BY <1>1
<1>3. Rising(b2) /\ Within(b2, n) /\ Asked(b2, p, c) /\ \A r : Carries(b, r) => Carries(b2, r)
  BY <1>1
<1>4. Before(a2, b2)
  <2>1. SUFFICES ASSUME NEW i \in 1..Len(a2), NEW j \in 1..Len(b2), StartLine(a2[i]), StartLine(b2[j])
                 PROVE  a2[i].gen < b2[j].gen
    BY DEF Before
  <2>2. i + d \in 1..Len(a) /\ a[i + d] = a2[i]
    BY <2>1 DEF Keeps
  <2>3. j + e \in 1..Len(b) /\ b[j + e] = b2[j]
    BY <2>1 DEF Keeps
  <2>4. StartLine(a[i + d]) /\ StartLine(b[j + e])
    BY <2>1, <2>2, <2>3
  <2>5. a[i + d].gen < b[j + e].gen
    BY <2>2, <2>3, <2>4 DEF Before
  <2> QED BY <2>2, <2>3, <2>5
<1>5. Answered(p, a2, b2, l)
  BY <1>2, <1>3 DEF Answered
<1> QED BY <1>2, <1>3, <1>4, <1>5

\* What Tail and Append make of a sequence, element by element.
LEMMA TailAt ==
  ASSUME NEW S, NEW s \in Seq(S), s # <<>>
  PROVE  /\ Len(s) \in Nat /\ Len(Tail(s)) \in Nat /\ Len(Tail(s)) = Len(s) - 1
         /\ 1 \in 1..Len(s) /\ Head(s) = s[1]
         /\ \A j \in 1..Len(Tail(s)) : j + 1 \in 1..Len(s) /\ 1 < j + 1 /\ Tail(s)[j] = s[j + 1]
         /\ \A i \in 1..Len(s) : i = 1 \/ (i - 1 \in 1..Len(Tail(s)) /\ Tail(s)[i - 1] = s[i])
<1>1. Len(s) \in Nat \ {0} /\ Len(Tail(s)) = Len(s) - 1
  BY EmptySeq, HeadTailProperties
<1>2. ASSUME NEW j \in 1..Len(Tail(s))
      PROVE  j + 1 \in 1..Len(s) /\ 1 < j + 1 /\ Tail(s)[j] = s[j + 1]
  BY <1>1, HeadTailProperties
<1>3. ASSUME NEW i \in 1..Len(s), i # 1
      PROVE  i - 1 \in 1..Len(Tail(s)) /\ Tail(s)[i - 1] = s[i]
  <2>1. i - 1 \in 1..Len(Tail(s)) /\ i - 1 + 1 = i
    BY <1>1, <1>3
  <2> QED BY <1>2, <2>1
<1> QED BY <1>1, <1>2, <1>3

LEMMA AppendAt ==
  ASSUME NEW S, NEW s \in Seq(S), NEW m \in S
  PROVE  /\ Len(s) \in Nat /\ Len(Append(s, m)) = Len(s) + 1
         /\ \A j \in 1..Len(Append(s, m)) :
              \/ j \in 1..Len(s) /\ Append(s, m)[j] = s[j]
              \/ j = Len(s) + 1 /\ Append(s, m)[j] = m
         /\ \A i \in 1..Len(s) : i \in 1..Len(Append(s, m)) /\ Append(s, m)[i] = s[i]
         /\ Len(s) + 1 \in 1..Len(Append(s, m)) /\ Append(s, m)[Len(s) + 1] = m
<1>1. /\ Len(s) \in Nat /\ Len(Append(s, m)) = Len(s) + 1
      /\ \A i \in 1..Len(s) : Append(s, m)[i] = s[i]
      /\ Append(s, m)[Len(s) + 1] = m
  BY LenProperties, AppendProperties
<1> QED BY <1>1

LEMMA TailParts ==
  ASSUME NEW S, NEW s \in Seq(S), s # <<>>, NEW n
  PROVE  /\ Rising(s) => Rising(Tail(s))
         /\ Within(s, n) => Within(Tail(s), n)
         /\ \A p, c : Asked(s, p, c) => Asked(Tail(s), p, c)
         /\ \A r : Carries(s, r) => (StartLine(s[1]) /\ Same(s[1], r)) \/ Carries(Tail(s), r)
<1> DEFINE t == Tail(s)
<1>1. /\ \A j \in 1..Len(t) : j + 1 \in 1..Len(s) /\ t[j] = s[j + 1]
      /\ \A i \in 1..Len(s) : i = 1 \/ (i - 1 \in 1..Len(t) /\ t[i - 1] = s[i])
      /\ Len(t) \in Nat /\ Len(s) \in Nat
  BY TailAt
<1> HIDE DEF t
<1>2. Rising(s) => Rising(t)
  <2>1. SUFFICES ASSUME Rising(s), NEW i \in 1..Len(t), NEW j \in 1..Len(t), i < j,
                        StartLine(t[i]), StartLine(t[j])
                 PROVE  t[i].gen < t[j].gen
    BY DEF Rising
  <2>2. /\ i + 1 \in 1..Len(s) /\ t[i] = s[i + 1]
        /\ j + 1 \in 1..Len(s) /\ t[j] = s[j + 1]
        /\ i + 1 < j + 1
    BY <1>1, <2>1
  <2>3. StartLine(s[i + 1]) /\ StartLine(s[j + 1])
    BY <2>1, <2>2
  <2>4. s[i + 1].gen < s[j + 1].gen
    BY <2>1, <2>2, <2>3 DEF Rising
  <2> QED BY <2>2, <2>4
<1>3. Within(s, n) => Within(t, n)
  BY <1>1 DEF Within
<1>4. \A p, c : Asked(s, p, c) => Asked(t, p, c)
  BY <1>1 DEF Asked
<1>5. ASSUME NEW r, Carries(s, r)
      PROVE  (StartLine(s[1]) /\ Same(s[1], r)) \/ Carries(t, r)
  <2>1. PICK i \in 1..Len(s) : StartLine(s[i]) /\ Same(s[i], r)
    BY <1>5 DEF Carries
  <2>2. CASE i - 1 \in 1..Len(t) /\ t[i - 1] = s[i]
    BY <2>1, <2>2 DEF Carries
  <2> QED BY <1>1, <2>1, <2>2
<1> QED BY <1>2, <1>3, <1>4, <1>5 DEF t

\* A start request is sent.
LEMMA MatchedStart ==
  ASSUME NEW p \in Seq(Request), NEW a \in Seq(AppLine), NEW b \in Seq(BridgeLine),
         NEW n \in Generation, NEW c \in Generation, NEW l \in Generation,
         Matched(p, a, b, n, c, l), NEW u \in Uuids
  PROVE  Matched(Append(p, [gen |-> n + 1, uuid |-> u]), a, Append(b, Start_(u, n + 1)), n + 1, c, l)
<1> DEFINE g == n + 1
           r == [gen |-> g, uuid |-> u]
           m == Start_(u, g)
           p2 == Append(p, r)
           b2 == Append(b, m)
<1>0. g \in Generation /\ g = n + 1 /\ n \in Nat /\ c \in Nat
  BY DEF Generation
<1>1. r \in Request /\ m \in BridgeLine /\ Same(m, r) /\ StartLine(m) /\ m.gen = g /\ r.gen = g
  <2>1. r \in Request
    BY <1>0 DEF Request
  <2>2. m \in BridgeLine
    BY <1>0, LineTypes
  <2> QED BY <2>1, <2>2 DEF Same, StartLine, Start_
<1>2. /\ \A j \in 1..Len(p2) : \/ j \in 1..Len(p) /\ p2[j] = p[j]
                               \/ j = Len(p) + 1 /\ p2[j] = r
      /\ \A i \in 1..Len(p) : i \in 1..Len(p2) /\ p2[i] = p[i]
      /\ Len(p) + 1 \in 1..Len(p2) /\ p2[Len(p) + 1] = r /\ Len(p) \in Nat
  BY <1>1, AppendAt
<1>3. /\ \A j \in 1..Len(b2) : \/ j \in 1..Len(b) /\ b2[j] = b[j]
                               \/ j = Len(b) + 1 /\ b2[j] = m
      /\ \A i \in 1..Len(b) : i \in 1..Len(b2) /\ b2[i] = b[i]
      /\ Len(b) + 1 \in 1..Len(b2) /\ b2[Len(b) + 1] = m /\ Len(b) \in Nat
  BY <1>1, AppendAt
<1> HIDE DEF g, r, m, p2, b2
<1>4. Rising(b2)
  <2>1. SUFFICES ASSUME NEW i \in 1..Len(b2), NEW j \in 1..Len(b2), i < j,
                        StartLine(b2[i]), StartLine(b2[j])
                 PROVE  b2[i].gen < b2[j].gen
    BY DEF Rising
  <2>2. i \in 1..Len(b) /\ b2[i] = b[i]
    BY <1>3, <2>1
  <2>3. CASE j \in 1..Len(b) /\ b2[j] = b[j]
    BY <2>1, <2>2, <2>3 DEF Matched, Rising
  <2>4. CASE b2[j] = m
    <3>1. b[i].gen \in 1..n
      BY <2>1, <2>2 DEF Matched, Within
    <3> QED BY <1>0, <1>1, <2>2, <2>4, <3>1
  <2> QED BY <1>3, <2>3, <2>4
<1>5. Before(a, b2)
  <2>1. SUFFICES ASSUME NEW i \in 1..Len(a), NEW j \in 1..Len(b2), StartLine(a[i]), StartLine(b2[j])
                 PROVE  a[i].gen < b2[j].gen
    BY DEF Before
  <2>2. CASE j \in 1..Len(b) /\ b2[j] = b[j]
    BY <2>1, <2>2 DEF Matched, Before
  <2>3. CASE b2[j] = m
    <3>1. a[i].gen \in 1..n
      BY <2>1 DEF Matched, Within
    <3> QED BY <1>0, <1>1, <2>3, <3>1
  <2> QED BY <1>3, <2>2, <2>3
<1>6. Within(a, g) /\ Within(b2, g)
  <2>1. 1..n \subseteq 1..g /\ g \in 1..g
    BY <1>0 DEF Generation
  <2>2. Within(a, g)
    BY <2>1 DEF Matched, Within
  <2>3. Within(b2, g)
    BY <1>1, <1>3, <2>1 DEF Matched, Within
  <2> QED BY <2>2, <2>3
<1>7. c <= n /\ \A k \in 1..Len(p) : p[k].gen \in (c + 1)..n
  BY DEF Matched, Recent
<1>8. RequestsRise(p2)
  <2>1. SUFFICES ASSUME NEW i \in 1..Len(p2), NEW j \in 1..Len(p2), i < j
                 PROVE  p2[i].gen < p2[j].gen
    BY DEF RequestsRise
  <2>2. i \in 1..Len(p) /\ p2[i] = p[i]
    BY <1>2, <2>1
  <2>3. CASE j \in 1..Len(p) /\ p2[j] = p[j]
    BY <2>1, <2>2, <2>3 DEF Matched, RequestsRise
  <2>4. CASE p2[j] = r
    BY <1>0, <1>1, <1>7, <2>2, <2>4
  <2> QED BY <1>2, <2>3, <2>4
<1>9. Asked(a, p2, c) /\ Asked(b2, p2, c)
  <2>1. \A q : (\E k \in 1..Len(p) : Same(q, p[k])) => \E k \in 1..Len(p2) : Same(q, p2[k])
    BY <1>2
  <2>2. Asked(a, p2, c)
    BY <2>1 DEF Matched, Asked
  <2>3. Asked(b2, p2, c)
    BY <1>1, <1>2, <1>3, <2>1 DEF Matched, Asked
  <2> QED BY <2>2, <2>3
<1>10. Answered(p2, a, b2, l)
  <2>1. \A q : Carries(b, q) => Carries(b2, q)
    BY <1>3 DEF Carries
  <2>2. Carries(b2, r)
    BY <1>1, <1>3 DEF Carries
  <2>3. \A k \in 1..Len(p) : p[k].gen > l => Carries(a, p[k]) \/ Carries(b2, p[k])
    BY <2>1 DEF Matched, Answered
  <2> QED BY <1>2, <2>2, <2>3 DEF Answered
<1>11. Rising(a)
  BY DEF Matched
<1>12. Recent(p2, c, g)
  <2>1. c <= g /\ g \in (c + 1)..g /\ \A x \in (c + 1)..n : x \in (c + 1)..g
    BY <1>0, <1>7
  <2> QED BY <1>1, <1>2, <1>7, <2>1 DEF Recent
<1>13. Matched(p2, a, b2, g, c, l)
  BY <1>4, <1>5, <1>6, <1>8, <1>9, <1>10, <1>11, <1>12 DEF Matched
<1> QED BY <1>13 DEF g, r, m, p2, b2

\* The bridge answers the request at the head of its lines.
LEMMA MatchedAnswer ==
  ASSUME NEW p, NEW a \in Seq(AppLine), NEW b \in Seq(BridgeLine),
         NEW n, NEW c, NEW l, Matched(p, a, b, n, c, l), b # <<>>, StartLine(b[1]),
         NEW m \in AppLine, StartLine(m), Same(m, b[1])
  PROVE  Matched(p, Append(a, m), Tail(b), n, c, l)
<1> DEFINE a2 == Append(a, m)
           b2 == Tail(b)
<1>0. m.gen = b[1].gen /\ 1 \in 1..Len(b)
  BY TailAt DEF Same
<1>1. /\ \A j \in 1..Len(a2) : \/ j \in 1..Len(a) /\ a2[j] = a[j]
                               \/ j = Len(a) + 1 /\ a2[j] = m
      /\ \A i \in 1..Len(a) : i \in 1..Len(a2) /\ a2[i] = a[i]
      /\ Len(a) + 1 \in 1..Len(a2) /\ a2[Len(a) + 1] = m /\ Len(a) \in Nat
  BY AppendAt
<1>2. \A j \in 1..Len(b2) : j + 1 \in 1..Len(b) /\ 1 < j + 1 /\ b2[j] = b[j + 1]
  BY TailAt
<1>3. /\ Rising(b2) /\ Within(b2, n) /\ Asked(b2, p, c)
      /\ \A r : Carries(b, r) => (StartLine(b[1]) /\ Same(b[1], r)) \/ Carries(b2, r)
  BY TailParts DEF Matched
<1> HIDE DEF a2, b2
<1>4. Rising(a2)
  <2>1. SUFFICES ASSUME NEW i \in 1..Len(a2), NEW j \in 1..Len(a2), i < j,
                        StartLine(a2[i]), StartLine(a2[j])
                 PROVE  a2[i].gen < a2[j].gen
    BY DEF Rising
  <2>2. i \in 1..Len(a) /\ a2[i] = a[i]
    BY <1>1, <2>1
  <2>3. CASE j \in 1..Len(a) /\ a2[j] = a[j]
    BY <2>1, <2>2, <2>3 DEF Matched, Rising
  <2>4. CASE a2[j] = m
    <3>1. a[i].gen < b[1].gen
      BY <1>0, <2>1, <2>2 DEF Matched, Before
    <3> QED BY <1>0, <2>2, <2>4, <3>1
  <2> QED BY <1>1, <2>3, <2>4
<1>5. Before(a2, b2)
  <2>1. SUFFICES ASSUME NEW i \in 1..Len(a2), NEW j \in 1..Len(b2), StartLine(a2[i]), StartLine(b2[j])
                 PROVE  a2[i].gen < b2[j].gen
    BY DEF Before
  <2>2. j + 1 \in 1..Len(b) /\ 1 < j + 1 /\ b2[j] = b[j + 1]
    BY <1>2
  <2>3. CASE i \in 1..Len(a) /\ a2[i] = a[i]
    BY <2>1, <2>2, <2>3 DEF Matched, Before
  <2>4. CASE a2[i] = m
    <3>1. b[1].gen < b[j + 1].gen
      BY <1>0, <2>1, <2>2 DEF Matched, Rising
    <3> QED BY <1>0, <2>2, <2>4, <3>1
  <2> QED BY <1>1, <2>3, <2>4
<1>6. Within(a2, n)
  <2>1. m.gen \in 1..n
    BY <1>0 DEF Matched, Within
  <2> QED BY <1>1, <2>1 DEF Matched, Within
<1>7. Asked(a2, p, c)
  <2>1. m.gen > c => \E k \in 1..Len(p) : Same(m, p[k])
    BY <1>0 DEF Matched, Asked, Same
  <2> QED BY <1>1, <2>1 DEF Matched, Asked
<1>8. Answered(p, a2, b2, l)
  <2>1. \A r : Carries(a, r) => Carries(a2, r)
    BY <1>1 DEF Carries
  <2>2. \A r : Same(b[1], r) => Carries(a2, r)
    BY <1>1 DEF Carries, Same
  <2> QED BY <1>3, <2>1, <2>2 DEF Matched, Answered
<1>9. RequestsRise(p) /\ Recent(p, c, n)
  BY DEF Matched
<1>10. Matched(p, a2, b2, n, c, l)
  BY <1>3, <1>4, <1>5, <1>6, <1>7, <1>8, <1>9 DEF Matched
<1> QED BY <1>10 DEF a2, b2

\* The page takes in an answer and forgets the request.
LEMMA MatchedAck ==
  ASSUME NEW p \in Seq(Request), NEW a \in Seq(AppLine), NEW b \in Seq(BridgeLine),
         NEW n, NEW c, NEW l, Matched(p, a, b, n, c, l), a # <<>>, StartLine(a[1]),
         NEW i \in 1..Len(p), p[i].gen = a[1].gen
  PROVE  Matched(RemoveAt(p, i), Tail(a), b, n, c, l)
<1> DEFINE p2 == RemoveAt(p, i)
           a2 == Tail(a)
<1>0. 1 \in 1..Len(a) /\ a[1].gen \in 1..n /\ Len(p) \in Nat
  BY TailAt, LenProperties DEF Matched, Within
<1>1. Len(p2) = Len(p) - 1 /\ \A k \in 1..(Len(p) - 1) : p2[k] = p[IF k < i THEN k ELSE k + 1]
  BY RemoveAtProperties
<1>2. /\ \A j \in 1..Len(a2) : j + 1 \in 1..Len(a) /\ 1 < j + 1 /\ a2[j] = a[j + 1]
      /\ Rising(a2) /\ Within(a2, n)
      /\ \A r : Carries(a, r) => (StartLine(a[1]) /\ Same(a[1], r)) \/ Carries(a2, r)
  BY TailAt, TailParts DEF Matched
<1> HIDE DEF p2, a2
<1>3. ASSUME NEW k \in 1..Len(p2)
      PROVE  \E h \in 1..Len(p) : /\ h = (IF k < i THEN k ELSE k + 1) /\ h # i
                                  /\ p2[k] = p[h]
  <2>1. (IF k < i THEN k ELSE k + 1) \in 1..Len(p) /\ k \in 1..(Len(p) - 1)
        /\ (IF k < i THEN k ELSE k + 1) # i
    BY <1>0, <1>1
  <2> QED BY <1>1, <2>1
<1>4. ASSUME NEW h \in 1..Len(p), h # i
      PROVE  \E k \in 1..Len(p2) : p2[k] = p[h]
  <2> DEFINE k == IF h < i THEN h ELSE h - 1
  <2>1. k \in 1..Len(p2) /\ k \in 1..(Len(p) - 1) /\ (IF k < i THEN k ELSE k + 1) = h
    BY <1>0, <1>1, <1>4
  <2>2. p2[k] = p[h]
    BY <1>1, <2>1
  <2> QED BY <2>1, <2>2
<1>5. RequestsRise(p2)
  <2>1. SUFFICES ASSUME NEW k \in 1..Len(p2), NEW g \in 1..Len(p2), k < g
                 PROVE  p2[k].gen < p2[g].gen
    BY DEF RequestsRise
  <2>2. PICK h \in 1..Len(p) : h = (IF k < i THEN k ELSE k + 1) /\ p2[k] = p[h]
    BY <1>3
  <2>3. PICK j \in 1..Len(p) : j = (IF g < i THEN g ELSE g + 1) /\ p2[g] = p[j]
    BY <1>3
  <2>4. h < j
    BY <1>0, <1>1, <2>1, <2>2, <2>3
  <2>5. p[h].gen < p[j].gen
    BY <2>4 DEF Matched, RequestsRise
  <2> QED BY <2>2, <2>3, <2>5
<1>6. ASSUME NEW m, m.gen # a[1].gen, \E k \in 1..Len(p) : Same(m, p[k])
      PROVE  \E k \in 1..Len(p2) : Same(m, p2[k])
  <2>1. PICK h \in 1..Len(p) : Same(m, p[h])
    BY <1>6
  <2>2. h # i
    BY <1>6, <2>1 DEF Same
  <2> QED BY <1>4, <2>1, <2>2
<1>7. Asked(a2, p2, c)
  <2>1. SUFFICES ASSUME NEW j \in 1..Len(a2), StartLine(a2[j]), a2[j].gen > c
                 PROVE  \E k \in 1..Len(p2) : Same(a2[j], p2[k])
    BY DEF Asked
  <2>2. j + 1 \in 1..Len(a) /\ 1 < j + 1 /\ a2[j] = a[j + 1]
    BY <1>2
  <2>3. a[1].gen < a[j + 1].gen /\ a[j + 1].gen \in 1..n
    BY <1>0, <2>1, <2>2 DEF Matched, Rising, Within
  <2>4. a2[j].gen # a[1].gen
    BY <1>0, <2>2, <2>3
  <2>5. \E k \in 1..Len(p) : Same(a2[j], p[k])
    BY <2>1, <2>2 DEF Matched, Asked
  <2> QED BY <1>6, <2>4, <2>5
<1>8. Asked(b, p2, c)
  <2>1. SUFFICES ASSUME NEW j \in 1..Len(b), StartLine(b[j]), b[j].gen > c
                 PROVE  \E k \in 1..Len(p2) : Same(b[j], p2[k])
    BY DEF Asked
  <2>2. a[1].gen < b[j].gen /\ b[j].gen \in 1..n
    BY <1>0, <2>1 DEF Matched, Before, Within
  <2>3. b[j].gen # a[1].gen
    BY <1>0, <2>2
  <2>4. \E k \in 1..Len(p) : Same(b[j], p[k])
    BY <2>1 DEF Matched, Asked
  <2> QED BY <1>6, <2>3, <2>4
<1>9. Answered(p2, a2, b, l)
  <2>1. SUFFICES ASSUME NEW k \in 1..Len(p2), p2[k].gen > l
                 PROVE  Carries(a2, p2[k]) \/ Carries(b, p2[k])
    BY DEF Answered
  <2>2. PICK h \in 1..Len(p) : h # i /\ p2[k] = p[h]
    BY <1>3
  <2>3. p[h].gen # a[1].gen
    <3>1. p[h].gen < p[i].gen \/ p[i].gen < p[h].gen
      BY <2>2 DEF Matched, RequestsRise
    <3>2. p[h] \in Request /\ p[i] \in Request
      BY ElementOfSeq
    <3>3. p[h].gen \in Nat /\ p[i].gen \in Nat
      BY <3>2 DEF Request, Generation
    <3> QED BY <3>1, <3>3
  <2>4. Carries(a, p[h]) \/ Carries(b, p[h])
    BY <2>1, <2>2 DEF Matched, Answered
  <2> QED BY <1>2, <2>2, <2>3, <2>4 DEF Same
<1>10. Before(a2, b) /\ Rising(b) /\ Within(b, n)
  BY <1>2 DEF Matched, Before
<1>11. Recent(p2, c, n)
  BY <1>3 DEF Matched, Recent
<1>12. Matched(p2, a2, b, n, c, l)
  BY <1>2, <1>5, <1>7, <1>8, <1>9, <1>10, <1>11 DEF Matched
<1> QED BY <1>12 DEF p2, a2

\* The page takes in an answer to a request it no longer waits for.
LEMMA MatchedDrop ==
  ASSUME NEW p, NEW a \in Seq(AppLine), NEW b \in Seq(BridgeLine),
         NEW n, NEW c, NEW l, Matched(p, a, b, n, c, l), a # <<>>,
         \A k \in 1..Len(p) : p[k].gen # a[1].gen
  PROVE  Matched(p, Tail(a), b, n, c, l)
<1> DEFINE a2 == Tail(a)
<1>1. /\ \A j \in 1..Len(a2) : j + 1 \in 1..Len(a) /\ a2[j] = a[j + 1]
      /\ Rising(a2) /\ Within(a2, n) /\ Asked(a2, p, c)
      /\ \A r : Carries(a, r) => (StartLine(a[1]) /\ Same(a[1], r)) \/ Carries(a2, r)
  BY TailAt, TailParts DEF Matched
<1> HIDE DEF a2
<1>2. Before(a2, b)
  BY <1>1 DEF Matched, Before
<1>3. Answered(p, a2, b, l)
  BY <1>1 DEF Matched, Answered, Same
<1>4. Matched(p, a2, b, n, c, l)
  BY <1>1, <1>2, <1>3 DEF Matched
<1> QED BY <1>4 DEF a2

\* Any of the lines to the bridge may be lost, once no request so far needs an answer.
LEMMA MatchedLoss ==
  ASSUME NEW p, NEW a, NEW b, NEW b2, NEW n \in Nat, NEW c \in Nat, NEW l,
         Matched(p, a, b, n, c, l), Len(b2) \in Nat, Piece(b2, b)
  PROVE  Matched(p, a, b2, n, c, n)
<1>1. Rising(b2) /\ Within(b2, n) /\ Before(a, b2) /\ Asked(b2, p, c)
  BY PieceParts DEF Matched
<1>2. Answered(p, a, b2, n)
  <2>1. \A k \in 1..Len(p) : p[k].gen \in (c + 1)..n
    BY DEF Matched, Recent
  <2>2. \A x \in (c + 1)..n : ~(x > n)
    OBVIOUS
  <2> QED BY <2>1, <2>2 DEF Answered
<1> QED BY <1>1, <1>2 DEF Matched

LEMMA MatchedSendStop ==
  ASSUME TypeOK, NEW p, NEW a \in Seq(AppLine), NEW n, NEW c, NEW l,
         Matched(p, a, toBridge, n, c, l), appUp,
         SendStop \/ UNCHANGED toBridge
  PROVE  Matched(p, a, toBridge', n, c, l)
<1>1. toBridge \in Seq(BridgeLine) /\ Stop_ \in BridgeLine /\ ~StartLine(Stop_)
  BY LineTypes DEF TypeOK, LinkTypes, StartLine, Stop_
<1>2. CASE toBridge' = Append(toBridge, Stop_)
  <2>1. Keeps(toBridge, toBridge', 0) /\ Keeps(a, a, 0)
    BY <1>1, <1>2, KeepsAppend, KeepsSame
  <2>2. Len(toBridge) \in Nat /\ Len(toBridge') \in Nat /\ Len(a) \in Nat
    BY <1>1, <1>2, AppendProperties, LenProperties
  <2> QED BY <2>1, <2>2, KeptMatched
<1>3. CASE UNCHANGED toBridge
  BY <1>3
<1> QED BY <1>2, <1>3 DEF SendStop, Send, Stop_

LEMMA MatchedRead ==
  ASSUME TypeOK, NEW p, NEW n, NEW c, NEW l, Matched(p, toApp, toBridge, n, c, l),
         toApp # <<>>, ~StartLine(toApp[1])
  PROVE  Matched(p, Tail(toApp), toBridge, n, c, l)
<1>1. toApp \in Seq(AppLine) /\ toBridge \in Seq(BridgeLine)
  BY DEF TypeOK, LinkTypes
<1>2. Keeps(toApp, Tail(toApp), 1) /\ Keeps(toBridge, toBridge, 0)
  BY <1>1, KeepsTail, KeepsSame
<1>3. Len(toApp) \in Nat /\ Len(Tail(toApp)) \in Nat /\ Len(toBridge) \in Nat
  BY <1>1, LenProperties, TailAt
<1> QED BY <1>2, <1>3, KeptMatched

LEMMA MatchedEmit ==
  ASSUME TypeOK, NEW p, NEW n, NEW c, NEW l, NEW b \in Seq(BridgeLine),
         Matched(p, toApp, b, n, c, l),
         NEW ms \in Seq(AppLine), \A i \in 1..Len(ms) : ~StartLine(ms[i]), Emit(ms)
  PROVE  Matched(p, toApp', b, n, c, l)
<1>1. toApp \in Seq(AppLine)
  BY DEF TypeOK, LinkTypes
<1>2. CASE toApp' = toApp \o ms
  <2>1. Keeps(toApp, toApp', 0) /\ Keeps(b, b, 0)
    BY <1>1, <1>2, KeepsConcat, KeepsSame
  <2>2. Len(toApp) \in Nat /\ Len(toApp') \in Nat /\ Len(b) \in Nat
    BY <1>1, <1>2, ConcatProperties, LenProperties
  <2> QED BY <2>1, <2>2, KeptMatched
<1> QED BY <1>2 DEF Emit

LEMMA BatchKinds ==
  ASSUME TypeOK
  PROVE  \A i \in 1..Len(Batch) : Batch[i].type = "profile_batch"
<1>1. Batch_(clientSession, eventQueue) \in AppLine
  BY LineTypes DEF TypeOK, BridgeTypes
<1>2. Batch = <<>> \/ Batch = <<Batch_(clientSession, eventQueue)>>
  BY DEF Batch, Batch_
<1> QED BY <1>1, <1>2, OneLine, EmptySeq DEF Batch_

LEMMA StopReplyKinds ==
  ASSUME TypeOK
  PROVE  /\ Append(Batch, Stopped_) \in Seq(AppLine)
         /\ \A i \in 1..Len(Append(Batch, Stopped_)) :
              Append(Batch, Stopped_)[i].type \in {"profile_batch", "profiling_stopped"}
<1>1. Batch \in Seq(AppLine) /\ Stopped_ \in AppLine
  BY BatchTypes, LineTypes
<1>2. \A j \in 1..Len(Append(Batch, Stopped_)) :
        \/ j \in 1..Len(Batch) /\ Append(Batch, Stopped_)[j] = Batch[j]
        \/ Append(Batch, Stopped_)[j] = Stopped_
  BY <1>1, AppendAt
<1> QED BY <1>1, <1>2, BatchKinds, AppendProperties DEF Stopped_

MatchedNow ==
  Matched(pendingStartAcks, toApp, toBridge, startGeneration, connectedAt, lostAt)

LEMMA MatchedPressStart ==
  ASSUME TypeOK, NEW a \in Seq(AppLine), CanStart, Start,
         Matched(pendingStartAcks, a, toBridge, startGeneration, connectedAt, lostAt)
  PROVE  Matched(pendingStartAcks', a, toBridge', startGeneration', connectedAt, lostAt)
<1>1. /\ pendingStartAcks \in Seq(Request) /\ toBridge \in Seq(BridgeLine)
      /\ startGeneration \in Generation /\ connectedAt \in Generation /\ lostAt \in Generation
  BY DEF TypeOK, PageTypes, LinkTypes
<1>2. targetUuid \in Uuids
  BY DEF TypeOK, PageTypes, CanStart
<1>3. /\ pendingStartAcks' = Append(pendingStartAcks, [gen |-> startGeneration + 1, uuid |-> targetUuid])
      /\ toBridge' = Append(toBridge, Start_(targetUuid, startGeneration + 1))
      /\ startGeneration' = startGeneration + 1
  BY DEF Start, Send, CanStart, Start_
<1> QED BY <1>1, <1>2, <1>3, MatchedStart

LEMMA MatchedAppReceives ==
  ASSUME TypeOK, MatchedNow, appUp, AppReceives
  PROVE  MatchedNow'
<1>u. UNCHANGED <<connectedAt, lostAt>>
  BY DEF AppReceives, ReceiveToggle, ReceiveRestart, ReceiveBatch, ReceiveStarted,
    ReceiveStopped, linkVars
<1> USE <1>u DEF MatchedNow
<1>0. toApp \in Seq(AppLine) /\ toBridge \in Seq(BridgeLine) /\ pendingStartAcks \in Seq(Request)
  BY DEF TypeOK, PageTypes, LinkTypes
<1>1. toApp # <<>> /\ toApp' = Tail(toApp) /\ Head(toApp) = toApp[1] /\ 1 \in 1..Len(toApp)
  <2>1. toApp # <<>> /\ toApp' = Tail(toApp)
    BY DEF AppReceives, ReceiveToggle, ReceiveRestart, ReceiveBatch, ReceiveStarted,
      ReceiveStopped, Receive
  <2> QED BY <1>0, <2>1, TailAt
<1>2. Tail(toApp) \in Seq(AppLine)
  BY <1>0, <1>1, HeadTailProperties
<1>3. ASSUME ~StartLine(toApp[1])
      PROVE  Matched(pendingStartAcks, toApp', toBridge, startGeneration, connectedAt, lostAt)
  BY <1>1, <1>3, MatchedRead
<1>4. CASE ReceiveToggle
  <2>1. ~StartLine(toApp[1])
    BY <1>1, <1>4 DEF ReceiveToggle, Receive, StartLine
  <2>2. CASE CanStart /\ Start
    BY <1>1, <1>2, <1>3, <2>1, <2>2, MatchedPressStart
  <2>3. CASE (SendStop \/ UNCHANGED toBridge) /\ UNCHANGED <<pendingStartAcks, startGeneration>>
    BY <1>1, <1>2, <1>3, <2>1, <2>3, MatchedSendStop
  <2> QED BY <1>4, <2>2, <2>3 DEF ReceiveToggle
<1>5. CASE ReceiveRestart
  <2>1. ~StartLine(toApp[1])
    BY <1>1, <1>5 DEF ReceiveRestart, Receive, StartLine
  <2>2. CASE CanStart /\ Start
    BY <1>1, <1>2, <1>3, <2>1, <2>2, MatchedPressStart
  <2>3. CASE (SendStop \/ UNCHANGED toBridge) /\ UNCHANGED <<pendingStartAcks, startGeneration>>
    BY <1>1, <1>2, <1>3, <2>1, <2>3, MatchedSendStop
  <2> QED BY <1>5, <2>2, <2>3 DEF ReceiveRestart, StopIf
<1>6. CASE ReceiveBatch
  BY <1>1, <1>3, <1>6 DEF ReceiveBatch, Receive, StartLine
<1>7. CASE ReceiveStopped
  BY <1>1, <1>3, <1>7 DEF ReceiveStopped, Receive, StartLine
<1>8. CASE ReceiveStarted
  <2>1. toApp[1].type = "profiling_started" /\ UNCHANGED <<toBridge, startGeneration>>
    BY <1>1, <1>8 DEF ReceiveStarted, Receive
  <2>2. PICK i \in 0..Len(pendingStartAcks) :
          /\ Answers(toApp[1], i)
          /\ pendingStartAcks' = IF i = 0 THEN pendingStartAcks ELSE RemoveAt(pendingStartAcks, i)
    BY <1>1, <1>8 DEF ReceiveStarted
  <2>3. DOMAIN pendingStartAcks = 1..Len(pendingStartAcks) /\ Len(pendingStartAcks) \in Nat
    BY <1>0, LenProperties
  <2>4. CASE i = 0
    <3>1. \A k \in 1..Len(pendingStartAcks) : pendingStartAcks[k].gen # toApp[1].gen
      BY <2>2, <2>3, <2>4 DEF Answers
    <3> QED BY <1>0, <1>1, <2>1, <2>2, <2>4, <3>1, MatchedDrop
  <2>5. CASE i # 0
    <3>1. i \in 1..Len(pendingStartAcks) /\ pendingStartAcks[i].gen = toApp[1].gen
      BY <2>2, <2>3, <2>5 DEF Answers
    <3> QED BY <1>0, <1>1, <2>1, <2>2, <2>5, <3>1, MatchedAck DEF StartLine
  <2> QED BY <2>4, <2>5
<1> QED BY <1>4, <1>5, <1>6, <1>7, <1>8 DEF AppReceives

LEMMA MatchedBridge ==
  ASSUME TypeOK, MatchedNow, appUp, bridgeUp, BridgeReceives \/ Record \/ Flush
  PROVE  MatchedNow'
<1>u. UNCHANGED <<connectedAt, lostAt>>
  BY DEF BridgeReceives, BridgeStarts, BridgeStops, Record, Flush, linkVars
<1> USE <1>u DEF MatchedNow
<1>0. toApp \in Seq(AppLine) /\ toBridge \in Seq(BridgeLine)
  BY DEF TypeOK, LinkTypes
<1>1. ASSUME NEW ok \in BOOLEAN, BridgeStarts(ok)
      PROVE  MatchedNow'
  <2> DEFINE m == Head(toBridge)
             ack == Started_(m.uuid, ok, m.gen)
  <2>1. BridgeReceive("start_profiling") /\ Emit(<<ack>>)
    BY <1>1 DEF BridgeStarts, Started_
  <2>2. m = toBridge[1] /\ toBridge # <<>> /\ m.type = "start_profiling"
        /\ m.uuid \in Uuids /\ m.gen \in Generation
    BY <2>1, BridgeReceiveTypes, BridgeLineCases
  <2>3. ack \in AppLine /\ StartLine(ack) /\ Same(ack, toBridge[1]) /\ StartLine(toBridge[1])
    <3>1. ack \in AppLine
      BY <2>2, LineTypes
    <3> QED BY <2>2, <3>1 DEF Started_, StartLine, Same
  <2>4. toApp' = Append(toApp, ack)
    BY <1>0, <2>1, <2>3, AppendIsConcat DEF Emit
  <2>5. toBridge' = Tail(toBridge) /\ UNCHANGED <<pendingStartAcks, startGeneration>>
    BY <1>1, <2>1 DEF BridgeStarts, BridgeReceive, pageVars
  <2> QED BY <1>0, <2>2, <2>3, <2>4, <2>5, MatchedAnswer
<1>2. CASE BridgeStops
  <2>1. BridgeReceive("stop_profiling") /\ Emit(Append(Batch, Stopped_))
        /\ UNCHANGED <<pendingStartAcks, startGeneration>>
    BY <1>2 DEF BridgeStops, Stopped_, pageVars
  <2>2. toBridge # <<>> /\ ~StartLine(toBridge[1]) /\ toBridge' = Tail(toBridge)
        /\ toBridge' \in Seq(BridgeLine)
    BY <2>1, BridgeReceiveTypes DEF BridgeReceive, StartLine
  <2>3. Keeps(toBridge, toBridge', 1) /\ Keeps(toApp, toApp, 0)
    BY <1>0, <2>2, KeepsTail, KeepsSame
  <2>4. Len(toBridge) \in Nat /\ Len(toBridge') \in Nat /\ Len(toApp) \in Nat
    BY <1>0, <2>2, LenProperties
  <2>5. Matched(pendingStartAcks, toApp, toBridge', startGeneration, connectedAt, lostAt)
    BY <2>3, <2>4, KeptMatched
  <2>6. Matched(pendingStartAcks, toApp', toBridge', startGeneration, connectedAt, lostAt)
    BY <2>1, <2>2, <2>5, StopReplyKinds, MatchedEmit DEF StartLine
  <2> QED BY <2>1, <2>6
<1>3. CASE Record
  <2> DEFINE e == [gen |-> clientSession, n |-> recorded + 1]
             q == Append(eventQueue, e)
             b == Batch_(clientSession, q)
  <2>1. clientSession \in Generation /\ eventQueue \in Seq(Event) /\ e \in Event
    BY DEF Event, TypeOK, BridgeTypes
  <2>2. q \in Seq(Event)
    BY <2>1, AppendProperties
  <2>3. b \in AppLine /\ ~StartLine(b)
    <3>1. b \in AppLine
      BY <2>1, <2>2, LineTypes
    <3> QED BY <3>1 DEF Batch_, StartLine
  <2>4. UNCHANGED <<toBridge, pendingStartAcks, startGeneration>> /\ (UNCHANGED toApp \/ Emit(<<b>>))
    BY <1>3 DEF Record, Batch_, pageVars
  <2> HIDE DEF b
  <2>5. <<b>> \in Seq(AppLine) /\ \A i \in 1..Len(<<b>>) : ~StartLine(<<b>>[i])
    BY <2>3, OneLine
  <2>6. Matched(pendingStartAcks, toApp', toBridge, startGeneration, connectedAt, lostAt)
    BY <1>0, <2>4, <2>5, MatchedEmit
  <2> QED BY <2>4, <2>6
<1>4. CASE Flush
  <2>1. UNCHANGED <<toBridge, pendingStartAcks, startGeneration>> /\ Emit(Batch)
    BY <1>4 DEF Flush, pageVars
  <2>2. \A i \in 1..Len(Batch) : ~StartLine(Batch[i])
    BY BatchKinds DEF StartLine
  <2>3. Matched(pendingStartAcks, toApp', toBridge, startGeneration, connectedAt, lostAt)
    BY <1>0, <2>1, <2>2, BatchTypes, MatchedEmit
  <2> QED BY <2>1, <2>3
<1> QED BY <1>1, <1>2, <1>3, <1>4 DEF BridgeReceives

LEMMA MatchedUser ==
  ASSUME TypeOK, MatchedNow, appUp, bridgeUp, User
  PROVE  MatchedNow'
<1>u. UNCHANGED <<connectedAt, lostAt>>
  BY DEF User, PressStart, PressStop, Clear, Load, SelectTarget, ExtensionsChanged,
    PressShortcut, linkVars
<1> USE <1>u DEF MatchedNow
<1>0. toApp \in Seq(AppLine) /\ toBridge \in Seq(BridgeLine)
  BY DEF TypeOK, LinkTypes
<1>1. CASE PressStart
  BY <1>0, <1>1, MatchedPressStart DEF PressStart
<1>2. ASSUME NEW k \in Shortcuts, PressShortcut(k)
      PROVE  MatchedNow'
  <2> DEFINE m == [type |-> k]
  <2>1. m \in AppLine /\ ~StartLine(m)
    BY LineTypes DEF StartLine, Shortcuts
  <2>2. UNCHANGED <<toBridge, pendingStartAcks, startGeneration>> /\ Emit(<<m>>)
    BY <1>2 DEF PressShortcut, pageVars
  <2> HIDE DEF m
  <2>3. <<m>> \in Seq(AppLine) /\ \A i \in 1..Len(<<m>>) : ~StartLine(<<m>>[i])
    BY <2>1, OneLine
  <2>4. Matched(pendingStartAcks, toApp', toBridge, startGeneration, connectedAt, lostAt)
    BY <1>0, <2>2, <2>3, MatchedEmit
  <2> QED BY <2>2, <2>4
<1>3. CASE (SendStop \/ UNCHANGED toBridge) /\ UNCHANGED <<toApp, pendingStartAcks, startGeneration>>
  BY <1>0, <1>3, MatchedSendStop
<1> QED BY <1>1, <1>2, <1>3 DEF User, PressStop, Clear, Load, SelectTarget, ExtensionsChanged, StopIf

LEMMA RisingAppend ==
  ASSUME NEW s \in Seq(BridgeLine), NEW n \in Nat, NEW m \in BridgeLine,
         Rising(s), Within(s, n), ~StartLine(m) \/ m.gen = n + 1
  PROVE  Rising(Append(s, m))
<1> DEFINE t == Append(s, m)
<1>1. /\ Len(s) \in Nat
      /\ \A j \in 1..Len(t) : \/ j \in 1..Len(s) /\ t[j] = s[j]
                              \/ j = Len(s) + 1 /\ t[j] = m
      /\ Len(t) = Len(s) + 1
  BY AppendAt
<1> HIDE DEF t
<1>2. SUFFICES ASSUME NEW i \in 1..Len(t), NEW j \in 1..Len(t), i < j,
                      StartLine(t[i]), StartLine(t[j])
               PROVE  t[i].gen < t[j].gen
  BY DEF Rising, t
<1>3. i \in 1..Len(s) /\ t[i] = s[i]
  BY <1>1, <1>2
<1>4. CASE j \in 1..Len(s) /\ t[j] = s[j]
  BY <1>2, <1>3, <1>4 DEF Rising
<1>5. CASE t[j] = m
  <2>1. s[i].gen \in 1..n
    BY <1>2, <1>3 DEF Within
  <2> QED BY <1>2, <1>3, <1>5, <2>1
<1> QED BY <1>1, <1>4, <1>5

LEMMA KnownStep ==
  ASSUME TypeOK, KnownInv, [Next]_vars
  PROVE  KnownInv'
<1>0. /\ toBridge \in Seq(BridgeLine) /\ Len(toBridge) \in Nat
      /\ startGeneration \in Nat /\ clientSession \in Nat
      /\ Rising(toBridge) /\ Within(toBridge, startGeneration) /\ clientSession <= startGeneration
      /\ running => clientSession > 0
  BY LenProperties DEF TypeOK, LinkTypes, PageTypes, BridgeTypes, Generation, KnownInv
<1>1. ASSUME NEW g \in Nat, startGeneration <= g
      PROVE  Within(toBridge, g)
  <2>1. 1..startGeneration \subseteq 1..g
    BY <1>0, <1>1
  <2> QED BY <1>0, <2>1 DEF Within
<1>3. CASE CanStart /\ Start /\ UNCHANGED <<running, clientSession>>
  <2> DEFINE g == startGeneration + 1
             m == Start_(targetUuid, g)
  <2>1. /\ toBridge' = Append(toBridge, m) /\ startGeneration' = g /\ targetUuid \in Uuids
        /\ g \in Nat /\ g \in Generation /\ startGeneration <= g
    BY <1>0, <1>3 DEF Start, Send, CanStart, Start_, TypeOK, PageTypes, Generation
  <2>2. m \in BridgeLine /\ m.gen = g
    <3>1. m \in BridgeLine
      BY <2>1, LineTypes
    <3> QED BY <3>1 DEF Start_
  <2>3. \A j \in 1..Len(toBridge') : \/ j \in 1..Len(toBridge) /\ toBridge'[j] = toBridge[j]
                                     \/ toBridge'[j] = m
    BY <1>0, <2>1, <2>2, AppendAt
  <2>4. Within(toBridge, g) /\ g \in 1..g
    BY <1>0, <1>1, <2>1
  <2> HIDE DEF m
  <2>5. Within(toBridge', g)
    BY <2>2, <2>3, <2>4 DEF Within
  <2>6. Rising(toBridge')
    BY <1>0, <2>1, <2>2, RisingAppend
  <2> QED BY <1>0, <1>3, <2>1, <2>5, <2>6 DEF KnownInv
<1>4. CASE (SendStop \/ UNCHANGED toBridge) /\ UNCHANGED <<startGeneration, running, clientSession>>
  <2>1. CASE toBridge' = Append(toBridge, Stop_)
    <3>1. Stop_ \in BridgeLine /\ ~StartLine(Stop_)
      BY LineTypes DEF StartLine, Stop_
    <3>2. \A j \in 1..Len(toBridge') : \/ j \in 1..Len(toBridge) /\ toBridge'[j] = toBridge[j]
                                       \/ toBridge'[j] = Stop_
      BY <1>0, <2>1, <3>1, AppendAt
    <3>3. Within(toBridge', startGeneration)
      BY <1>0, <3>1, <3>2 DEF Within
    <3>4. Rising(toBridge')
      BY <1>0, <2>1, <3>1, RisingAppend
    <3> QED BY <1>0, <1>4, <3>3, <3>4 DEF KnownInv
  <2>2. CASE UNCHANGED toBridge
    BY <1>0, <1>4, <2>2 DEF KnownInv
  <2> QED BY <1>4, <2>1, <2>2 DEF SendStop, Send, Stop_
<1>5. CASE User
  BY <1>3, <1>4, <1>5 DEF User, PressStart, PressStop, Clear, Load, SelectTarget, ExtensionsChanged,
    PressShortcut, StopIf, pageVars, bridgeVars
<1>6. CASE AppReceives
  BY <1>3, <1>4, <1>6 DEF AppReceives, ReceiveToggle, ReceiveRestart, ReceiveBatch, ReceiveStarted,
    ReceiveStopped, StopIf, bridgeVars
<1>7. ASSUME NEW ok \in BOOLEAN, BridgeStarts(ok)
      PROVE  KnownInv'
  <2>1. BridgeReceive("start_profiling")
    BY <1>7 DEF BridgeStarts
  <2>2. /\ Head(toBridge) = toBridge[1] /\ toBridge # <<>> /\ toBridge' = Tail(toBridge)
        /\ StartLine(toBridge[1]) /\ 1 \in 1..Len(toBridge)
    BY <1>0, <2>1, BridgeReceiveTypes, TailAt DEF BridgeReceive, StartLine
  <2>3. /\ Rising(toBridge') /\ Within(toBridge', startGeneration)
        /\ toBridge[1].gen \in 1..startGeneration
    BY <1>0, <2>2, TailParts DEF Within
  <2>4. /\ clientSession' \in {toBridge[1].gen, 0} /\ UNCHANGED startGeneration
        /\ running' => clientSession' = toBridge[1].gen
    BY <1>7, <2>2 DEF BridgeStarts, NoGeneration, pageVars
  <2> QED BY <1>0, <2>3, <2>4 DEF KnownInv
<1>8. CASE BridgeStops
  <2>1. BridgeReceive("stop_profiling")
    BY <1>8 DEF BridgeStops
  <2>2. toBridge # <<>> /\ toBridge' = Tail(toBridge) /\ clientSession' = 0 /\ ~running'
        /\ UNCHANGED startGeneration
    BY <1>8, <2>1, BridgeReceiveTypes DEF BridgeReceive, BridgeStops, BridgeIdle, NoGeneration, pageVars
  <2>3. Rising(toBridge') /\ Within(toBridge', startGeneration)
    BY <1>0, <2>2, TailParts
  <2> QED BY <1>0, <2>2, <2>3 DEF KnownInv
<1>9. CASE Record \/ Flush
  BY <1>4, <1>9 DEF Record, Flush, pageVars
<1>10. CASE Link
  <2>1. /\ UNCHANGED <<running, clientSession>> \/ (clientSession' = 0 /\ ~running')
        /\ startGeneration' \in {startGeneration, startGeneration + 1}
    BY <1>10 DEF Link, Connect, LateWriteReturns, AppSeesEnd, AppDrops, BridgeSeesEnd, BridgeDisabled,
      BridgeDies, BridgeCloses, AppRestarts, BridgeIdle, NoGeneration, PageDisconnected, pageVars,
      bridgeVars
  <2>2. /\ clientSession' <= startGeneration' /\ startGeneration <= startGeneration'
        /\ startGeneration' \in Nat /\ (running' => clientSession' > 0)
    BY <1>0, <2>1
  <2>3. Within(toBridge, startGeneration')
    BY <1>1, <2>2
  <2>4. toBridge' \in Seq(BridgeLine) /\ Piece(toBridge', toBridge)
    BY <1>10, LinesLeft
  <2>5. Rising(toBridge') /\ Within(toBridge', startGeneration')
    BY <1>0, <2>3, <2>4, PieceParts, LenProperties
  <2> QED BY <2>2, <2>5 DEF KnownInv
<1>11. CASE UNCHANGED vars
  BY <1>4, <1>11 DEF vars, pageVars, bridgeVars
<1> QED BY <1>5, <1>6, <1>7, <1>8, <1>9, <1>10, <1>11 DEF Next, BridgeReceives

LEMMA MatchStep ==
  ASSUME TypeOK, MatchInv, KnownInv', [Next]_vars
  PROVE  MatchInv'
<1>1. CASE User \/ AppReceives \/ BridgeReceives \/ Record \/ Flush
  <2>1. UNCHANGED <<appUp, bridgeUp>>
    BY <1>1 DEF User, PressStart, PressStop, Clear, Load, SelectTarget, ExtensionsChanged,
      PressShortcut, AppReceives, ReceiveToggle, ReceiveRestart, ReceiveBatch, ReceiveStarted,
      ReceiveStopped, BridgeReceives, BridgeStarts, BridgeStops, Record, Flush, linkVars
  <2>2. CASE appUp /\ bridgeUp
    BY <1>1, <2>1, <2>2, MatchedUser, MatchedAppReceives, MatchedBridge DEF MatchInv, MatchedNow
  <2>3. CASE appUp /\ ~bridgeUp
    BY <2>1, <2>3 DEF MatchInv
  <2>4. CASE ~appUp
    <3>1. UNCHANGED pendingStartAcks
      BY <1>1, <2>4 DEF User, PressStart, PressStop, Clear, Load, SelectTarget, ExtensionsChanged,
        PressShortcut, AppReceives, ReceiveToggle, ReceiveRestart, ReceiveBatch, ReceiveStarted,
        ReceiveStopped, Receive, BridgeReceives, BridgeStarts, BridgeStops, Record, Flush, pageVars,
        CanStart
    <3> QED BY <2>1, <2>4, <3>1 DEF MatchInv
  <2> QED BY <2>2, <2>3, <2>4
<1>2. CASE Connect
  <2>1. /\ pendingStartAcks' = <<>> /\ toApp' = <<>> /\ appUp' = TRUE
        /\ connectedAt' = startGeneration /\ startGeneration' = startGeneration
        /\ startGeneration \in Nat
    BY <1>2 DEF Connect, PageDisconnected, MatchInv, pageVars, TypeOK, PageTypes, Generation
  <2>2. Rising(toBridge') /\ Within(toBridge', startGeneration)
    BY <2>1 DEF KnownInv
  <2>3. Rising(<<>>) /\ Within(<<>>, startGeneration) /\ Before(<<>>, toBridge') /\ RequestsRise(<<>>)
    BY EmptySeq DEF Rising, Within, Before, RequestsRise
  <2>4. Recent(<<>>, startGeneration, startGeneration)
    BY <2>1, EmptySeq DEF Recent
  <2>5. Asked(<<>>, <<>>, startGeneration) /\ \A l : Answered(<<>>, <<>>, toBridge', l)
    BY EmptySeq DEF Asked, Answered
  <2>6. Asked(toBridge', <<>>, startGeneration)
    <3>1. \A x \in 1..startGeneration : ~(x > startGeneration)
      BY <2>1
    <3> QED BY <2>2, <3>1 DEF Asked, Within
  <2>7. \A l : Matched(<<>>, <<>>, toBridge', startGeneration, startGeneration, l)
    BY <2>2, <2>3, <2>4, <2>5, <2>6 DEF Matched
  <2> QED BY <2>1, <2>7 DEF MatchInv
<1>3. CASE LateWriteReturns
  <2>1. UNCHANGED <<appUp, bridgeUp, pendingStartAcks, toApp, startGeneration, connectedAt>>
    BY <1>3 DEF LateWriteReturns, pageVars
  <2>2. CASE UNCHANGED <<toBridge, lostAt>>
    BY <2>1, <2>2 DEF MatchInv
  <2>3. CASE lostAt' = startGeneration
    <3>1. startGeneration \in Nat /\ connectedAt \in Nat
      BY DEF TypeOK, PageTypes, LinkTypes, Generation
    <3>2. Len(toBridge') \in Nat /\ Piece(toBridge', toBridge)
      BY <1>3, LinesLeft, LenProperties DEF Link
    <3>3. ASSUME MatchedNow
          PROVE  Matched(pendingStartAcks, toApp, toBridge', startGeneration, connectedAt, startGeneration)
      BY <3>1, <3>2, <3>3, MatchedLoss DEF MatchedNow
    <3> QED BY <2>1, <2>3, <3>3 DEF MatchInv, MatchedNow
  <2> QED BY <1>3, <2>2, <2>3 DEF LateWriteReturns
<1>4. CASE AppSeesEnd \/ AppDrops \/ AppRestarts
  BY <1>4 DEF AppSeesEnd, AppDrops, AppRestarts, AppCloses, PageDisconnected, MatchInv
<1>5. CASE BridgeSeesEnd \/ BridgeDisabled \/ BridgeDies
  BY <1>5 DEF BridgeSeesEnd, BridgeDisabled, BridgeDies, BridgeCloses, MatchInv, pageVars
<1>6. CASE UNCHANGED vars
  BY <1>6 DEF vars, pageVars, linkVars, MatchInv, Matched
<1> QED BY <1>1, <1>2, <1>3, <1>4, <1>5, <1>6 DEF Next, Link

\* The gap between lines told by their generations and lines told by their places.
LEMMA MatchedPlaces ==
  ASSUME TypeOK, MatchedNow
  PROVE  \E f \in [StartLines -> DOMAIN pendingStartAcks] :
           /\ \A l, m \in StartLines : l < m => f[l] < f[m]
           /\ \A l \in StartLines : /\ Lines[l].gen = pendingStartAcks[f[l]].gen
                                    /\ Lines[l].uuid = pendingStartAcks[f[l]].uuid
           /\ \A i \in DOMAIN pendingStartAcks :
                pendingStartAcks[i].gen > lostAt => \E l \in StartLines : f[l] = i
<1> DEFINE p == pendingStartAcks
           n == startGeneration
           A == Len(toApp)
           B == Len(toBridge)
<1>1. /\ toApp \in Seq(AppLine \cup BridgeLine) /\ toBridge \in Seq(AppLine \cup BridgeLine)
      /\ A \in Nat /\ B \in Nat /\ DOMAIN p = 1..Len(p)
  <2>1. toApp \in Seq(AppLine) /\ toBridge \in Seq(BridgeLine) /\ p \in Seq(Request)
    BY DEF TypeOK, LinkTypes, PageTypes
  <2> QED BY <2>1, LenProperties, SeqMonotonic
<1>2. /\ DOMAIN Lines = 1..(A + B)
      /\ \A i \in 1..(A + B) : Lines[i] = IF i <= A THEN toApp[i] ELSE toBridge[i - A]
  <2>1. /\ Lines \in Seq(AppLine \cup BridgeLine) /\ Len(Lines) = A + B
        /\ \A i \in 1..(A + B) : Lines[i] = IF i <= A THEN toApp[i] ELSE toBridge[i - A]
    BY <1>1, ConcatProperties DEF Lines
  <2> QED BY <2>1, LenProperties
<1>3. StartLines = {i \in 1..(A + B) : StartLine(Lines[i]) /\ Lines[i].gen > connectedAt}
  BY <1>2 DEF StartLines, StartLine
<1> HIDE DEF A, B
<1>4. ASSUME NEW i \in StartLines
      PROVE  \/ i \in 1..A /\ Lines[i] = toApp[i] /\ StartLine(toApp[i])
             \/ i - A \in 1..B /\ Lines[i] = toBridge[i - A] /\ StartLine(toBridge[i - A]) /\ i > A
  <2>1. i \in 1..(A + B) /\ StartLine(Lines[i])
    BY <1>3
  <2>2. CASE i <= A
    BY <1>1, <1>2, <2>1, <2>2
  <2>3. CASE ~(i <= A)
    <3>1. i - A \in 1..B /\ i > A /\ Lines[i] = toBridge[i - A]
      BY <1>1, <1>2, <2>1, <2>3
    <3> QED BY <2>1, <3>1
  <2> QED BY <2>2, <2>3
<1>5. StartLines \subseteq Nat /\ \A i \in StartLines : Lines[i].gen \in Nat
  <2>1. StartLines \subseteq Nat
    BY <1>1, <1>3
  <2>2. \A i \in StartLines : Lines[i].gen \in 1..n
    BY <1>4 DEF MatchedNow, Matched, Within, A, B
  <2> QED BY <2>1, <2>2
<1>6. ASSUME NEW i \in StartLines, NEW j \in StartLines, i < j
      PROVE  Lines[i].gen < Lines[j].gen
  <2>1. CASE i \in 1..A /\ Lines[i] = toApp[i] /\ StartLine(toApp[i])
    <3>1. CASE j \in 1..A /\ Lines[j] = toApp[j] /\ StartLine(toApp[j])
      BY <1>6, <2>1, <3>1 DEF MatchedNow, Matched, Rising, A
    <3>2. CASE j - A \in 1..B /\ Lines[j] = toBridge[j - A] /\ StartLine(toBridge[j - A])
      <4>1. toApp[i].gen < toBridge[j - A].gen
        BY <2>1, <3>2 DEF MatchedNow, Matched, Before, A, B
      <4> QED BY <2>1, <3>2, <4>1
    <3> QED BY <1>4, <3>1, <3>2
  <2>2. CASE i - A \in 1..B /\ Lines[i] = toBridge[i - A] /\ StartLine(toBridge[i - A]) /\ i > A
    <3>1. j - A \in 1..B /\ Lines[j] = toBridge[j - A] /\ StartLine(toBridge[j - A])
      <4>1. ~(j \in 1..A)
        BY <1>1, <1>5, <1>6, <2>2
      <4> QED BY <1>4, <4>1
    <3>2. i - A < j - A
      <4>1. i \in Nat /\ j \in Nat
        BY <1>5
      <4> QED BY <1>1, <1>6, <4>1
    <3>3. toBridge[i - A].gen < toBridge[j - A].gen
      BY <2>2, <3>1, <3>2 DEF MatchedNow, Matched, Rising, B
    <3> QED BY <2>2, <3>1, <3>3
  <2> QED BY <1>4, <2>1, <2>2
<1>7. ASSUME NEW k \in DOMAIN p, p[k].gen > lostAt
      PROVE  \E l \in StartLines : Same(Lines[l], p[k])
  <2>1. p[k].gen > connectedAt
    <3>1. connectedAt \in Nat /\ n \in Nat
      BY DEF TypeOK, LinkTypes, PageTypes, Generation
    <3>2. p[k].gen \in (connectedAt + 1)..n
      BY <1>1, <1>7 DEF MatchedNow, Matched, Recent
    <3> QED BY <3>1, <3>2
  <2>2. CASE Carries(toApp, p[k])
    <3>1. PICK i \in 1..A : StartLine(toApp[i]) /\ Same(toApp[i], p[k])
      BY <2>2 DEF Carries, A
    <3>2. i \in 1..(A + B) /\ Lines[i] = toApp[i]
      BY <1>1, <1>2
    <3>3. i \in StartLines
      BY <1>3, <2>1, <3>1, <3>2 DEF Same
    <3> QED BY <3>1, <3>2, <3>3
  <2>3. CASE Carries(toBridge, p[k])
    <3>1. PICK i \in 1..B : StartLine(toBridge[i]) /\ Same(toBridge[i], p[k])
      BY <2>3 DEF Carries, B
    <3>2. PICK j \in 1..(A + B) : ~(j <= A) /\ j - A = i
      <4>1. i + A \in 1..(A + B) /\ ~(i + A <= A) /\ i + A - A = i
        BY <1>1
      <4> QED BY <1>1, <4>1
    <3>3. Lines[j] = toBridge[j - A]
      BY <1>2, <3>2
    <3>4. Lines[j] = toBridge[i]
      BY <3>2, <3>3
    <3>5. j \in StartLines
      BY <1>3, <2>1, <3>1, <3>2, <3>4 DEF Same
    <3> QED BY <3>1, <3>4, <3>5
  <2> QED BY <1>1, <1>7, <2>2, <2>3 DEF MatchedNow, Matched, Answered
<1>8. ASSUME NEW l \in StartLines
      PROVE  \E k \in DOMAIN p : Same(Lines[l], p[k])
  <2>1. Lines[l].gen > connectedAt
    BY <1>3
  <2> QED BY <1>1, <1>4, <2>1 DEF MatchedNow, Matched, Asked, A, B
<1> DEFINE f == [l \in StartLines |-> CHOOSE k \in DOMAIN p : Same(Lines[l], p[k])]
<1>9. ASSUME NEW l \in StartLines
      PROVE  f[l] \in DOMAIN p /\ Same(Lines[l], p[f[l]])
  BY <1>8
<1>10. f \in [StartLines -> DOMAIN p]
  BY <1>9
<1> HIDE DEF f
<1>11. ASSUME NEW j \in DOMAIN p, NEW k \in DOMAIN p
       PROVE  /\ p[j].gen < p[k].gen => j < k
              /\ p[j].gen = p[k].gen => j = k
  <2>1. /\ j < k => p[j].gen < p[k].gen
        /\ k < j => p[k].gen < p[j].gen
    BY <1>1 DEF MatchedNow, Matched, RequestsRise
  <2>2. j \in Nat /\ k \in Nat /\ p[j].gen \in Nat /\ p[k].gen \in Nat
    <3>1. p[j] \in Request /\ p[k] \in Request
      BY <1>1, ElementOfSeq DEF TypeOK, PageTypes
    <3> QED BY <1>1, <3>1 DEF Request, Generation
  <2> QED BY <2>1, <2>2
<1> HIDE DEF p
<1>12. ASSUME NEW l \in StartLines, NEW m \in StartLines, l < m
       PROVE  f[l] < f[m]
  <2>1. Lines[l].gen < Lines[m].gen
    BY <1>6, <1>12
  <2>2. p[f[l]].gen < p[f[m]].gen
    BY <1>9, <2>1 DEF Same
  <2> QED BY <1>9, <1>11, <2>2
<1>13. ASSUME NEW i \in DOMAIN p, p[i].gen > lostAt
       PROVE  \E l \in StartLines : f[l] = i
  <2>1. PICK l \in StartLines : Same(Lines[l], p[i])
    BY <1>7, <1>13
  <2>2. p[f[l]].gen = p[i].gen /\ f[l] \in DOMAIN p
    BY <1>9, <2>1 DEF Same
  <2> QED BY <1>11, <2>2
<1> QED BY <1>9, <1>10, <1>12, <1>13 DEF Same, p

\* While the connection lasts, the acknowledgements and requests under way belong each to a
\* request of its own that the page waits for, in order (_on_profiling_started, onMessage): none
\* is answered twice or for the wrong request, and none is forgotten but those that the late
\* failure of an earlier connection's write cleared (_on_write_done).
THEOREM AlwaysMatched == Spec => []AcksMatchStarts
<1>1. Init => MatchInv /\ KnownInv
  BY EmptySeq DEF Init, MatchInv, KnownInv, Rising, Within, NoGeneration
<1>2. MatchInv /\ KnownInv /\ TypeOK /\ [Next]_vars => MatchInv' /\ KnownInv'
  BY KnownStep, MatchStep
<1>3. MatchInv /\ TypeOK => AcksMatchStarts
  BY MatchedPlaces DEF MatchInv, MatchedNow, AcksMatchStarts
<1> QED BY <1>1, <1>2, <1>3, SessionIsTyped, PTL DEF Spec

-----------------------------------------------------------------------------
(* The page and the bridge in step *)

Refusal(m) == m.type = "profiling_started" /\ ~m.ok
RefusesNow(m) == Refusal(m) /\ m.gen = activeStartGeneration /\ m.uuid = targetUuid

\* The bridge does not make a recording that a refusal under way speaks of.
RefusalsOver ==
  \A i \in 1..Len(toApp) : Refusal(toApp[i]) => ~(running /\ clientSession = toApp[i].gen)

\* The last thing the bridge will hear is what the page shows, or a request of an earlier
\* connection while the page shows nothing.
LastTold ==
  toBridge # <<>> =>
    LET m == toBridge[Len(toBridge)]
    IN  \/ /\ m.type = "start_profiling" /\ profiling
           /\ m.gen = activeStartGeneration /\ m.uuid = targetUuid
        \/ m.type = "stop_profiling" /\ ~profiling
        \/ m.type = "start_profiling" /\ ~profiling /\ m.gen <= connectedAt

\* A bridge that has heard everything makes the recording that the page shows, or the page is
\* about to hear that it does not.
PageServed ==
  toBridge = <<>> /\ profiling =>
    \/ running /\ clientSession = activeStartGeneration /\ bridgeUuid = targetUuid
    \/ \E i \in 1..Len(toApp) : RefusesNow(toApp[i])

BridgeAsked ==
  toBridge = <<>> /\ running /\ clientSession > connectedAt =>
    profiling /\ clientSession = activeStartGeneration

\* Since the newest start nothing of this connection was cleared.
NoneCleared == startGeneration > lostAt

Settled == RefusalsOver /\ (NoneCleared => LastTold /\ PageServed /\ BridgeAsked)

StepInv == appUp /\ bridgeUp => Settled

bridgeRun == <<running, clientSession, bridgeUuid, connectedAt, lostAt>>

LEMMA RefusalsKept ==
  ASSUME TypeOK, RefusalsOver, UNCHANGED bridgeRun,
         toApp' = toApp \/ (toApp # <<>> /\ toApp' = Tail(toApp))
  PROVE  RefusalsOver'
<1>1. CASE toApp' = toApp
  BY <1>1 DEF RefusalsOver, bridgeRun, Refusal
<1>2. CASE toApp # <<>> /\ toApp' = Tail(toApp)
  <2>1. toApp \in Seq(AppLine)
    BY DEF TypeOK, LinkTypes
  <2>2. \A j \in 1..Len(toApp') : j + 1 \in 1..Len(toApp) /\ toApp'[j] = toApp[j + 1]
    BY <1>2, <2>1, TailAt
  <2> QED BY <2>2 DEF RefusalsOver, bridgeRun, Refusal
<1> QED BY <1>1, <1>2

LEMMA SettledStart ==
  ASSUME TypeOK, Settled, CanStart, Start, UNCHANGED <<targetUuid, bridgeRun>>,
         toApp' = toApp \/ (toApp # <<>> /\ toApp' = Tail(toApp))
  PROVE  Settled'
<1> DEFINE m == Start_(targetUuid, startGeneration + 1)
<1>1. toBridge' = Append(toBridge, m)
  BY DEF Start, Send, CanStart, Start_
<1>2. targetUuid \in Uuids /\ startGeneration + 1 \in Generation /\ toBridge \in Seq(BridgeLine)
  BY DEF TypeOK, PageTypes, LinkTypes, CanStart, Generation
<1>3. m \in BridgeLine
  BY <1>2, LineTypes
<1>4. toBridge' # <<>> /\ toBridge'[Len(toBridge')] = m
  BY <1>1, <1>2, <1>3, AppendProperties, AppendAt
<1>5. LastTold'
  BY <1>4 DEF LastTold, Start, Start_
<1>6. RefusalsOver'
  BY RefusalsKept DEF Settled
<1> QED BY <1>4, <1>5, <1>6 DEF Settled, PageServed, BridgeAsked

LEMMA SettledStop ==
  ASSUME TypeOK, Settled, appUp, SendStop, UNCHANGED <<startGeneration, bridgeRun>>,
         toApp' = toApp \/ (toApp # <<>> /\ toApp' = Tail(toApp))
  PROVE  Settled'
<1>1. toBridge' = Append(toBridge, Stop_) /\ toBridge \in Seq(BridgeLine) /\ Stop_ \in BridgeLine
  BY LineTypes DEF SendStop, Send, Stop_, TypeOK, LinkTypes
<1>2. toBridge' # <<>> /\ toBridge'[Len(toBridge')] = Stop_
  BY <1>1, AppendProperties, AppendAt
<1>3. LastTold'
  BY <1>2 DEF LastTold, SendStop, SetStopped, Stop_
<1>4. RefusalsOver'
  BY RefusalsKept DEF Settled
<1> QED BY <1>2, <1>3, <1>4 DEF Settled, PageServed, BridgeAsked

\* Nothing is sent, and what the page records stays as it is.
LEMMA SettledQuiet ==
  ASSUME TypeOK, Settled, UNCHANGED <<toBridge, profiling, startGeneration, bridgeRun>>,
         profiling => UNCHANGED <<activeStartGeneration, targetUuid>>,
         \/ toApp' = toApp
         \/ toApp # <<>> /\ toApp' = Tail(toApp) /\ ~(profiling /\ RefusesNow(toApp[1]))
  PROVE  Settled'
<1>1. RefusalsOver'
  BY RefusalsKept DEF Settled
<1>2. LastTold => LastTold'
  BY DEF LastTold, bridgeRun
<1>3. BridgeAsked => BridgeAsked'
  BY DEF BridgeAsked, bridgeRun
<1>4. PageServed => PageServed'
  <2>1. SUFFICES ASSUME PageServed, toBridge = <<>>, profiling, NEW i \in 1..Len(toApp), RefusesNow(toApp[i])
                 PROVE  (\E j \in 1..Len(toApp) : RefusesNow(toApp[j]))'
    BY DEF PageServed, bridgeRun, RefusesNow, Refusal
  <2>2. \E j \in 1..Len(toApp') : toApp'[j] = toApp[i]
    <3>1. CASE toApp' = toApp
      BY <3>1
    <3>2. CASE toApp # <<>> /\ toApp' = Tail(toApp) /\ ~RefusesNow(toApp[1])
      <4>1. toApp \in Seq(AppLine) /\ i # 1
        BY <2>1, <3>2 DEF TypeOK, LinkTypes
      <4>2. i - 1 \in 1..Len(toApp') /\ toApp'[i - 1] = toApp[i]
        BY <3>2, <4>1, TailAt
      <4> QED BY <4>2
    <3> QED BY <2>1, <3>1, <3>2
  <2> QED BY <2>1, <2>2 DEF RefusesNow, Refusal
<1> QED BY <1>1, <1>2, <1>3, <1>4 DEF Settled, NoneCleared, bridgeRun

\* The page hears that its present request was refused.
LEMMA SettledRefused ==
  ASSUME TypeOK, MatchedNow, Settled, profiling, SetStopped,
         UNCHANGED <<toBridge, startGeneration, bridgeRun>>, toApp # <<>>, toApp' = Tail(toApp), RefusesNow(toApp[1])
  PROVE  Settled'
<1>0. toApp \in Seq(AppLine) /\ toBridge \in Seq(BridgeLine) /\ 1 \in 1..Len(toApp)
  BY TailAt DEF TypeOK, LinkTypes
<1>1. RefusalsOver'
  BY RefusalsKept DEF Settled
<1>2. ~profiling'
  BY DEF SetStopped
<1>3. NoneCleared => toBridge = <<>>
  <2>1. SUFFICES ASSUME NoneCleared, toBridge # <<>> PROVE FALSE
    OBVIOUS
  <2> DEFINE m == toBridge[Len(toBridge)]
  <2>2. m.type = "start_profiling" /\ m.gen = activeStartGeneration
    BY <2>1 DEF Settled, LastTold
  <2>3. Len(toBridge) \in 1..Len(toBridge)
    BY <1>0, <2>1, TailAt
  <2>4. toApp[1].gen < m.gen
    BY <1>0, <2>2, <2>3 DEF MatchedNow, Matched, Before, StartLine, RefusesNow, Refusal
  <2>5. activeStartGeneration \in Nat
    BY DEF TypeOK, PageTypes, Generation
  <2> QED BY <2>2, <2>4, <2>5 DEF RefusesNow
<1>4. NoneCleared => ~(running /\ clientSession > connectedAt)
  BY <1>0, <1>3 DEF Settled, BridgeAsked, RefusalsOver, RefusesNow
<1>5. NoneCleared' => NoneCleared
  BY DEF NoneCleared, bridgeRun
<1> QED BY <1>1, <1>2, <1>3, <1>4, <1>5 DEF Settled, LastTold, PageServed, BridgeAsked, bridgeRun

\* Lines that refuse nothing are sent to the page.
LEMMA SettledEmit ==
  ASSUME TypeOK, Settled, NEW ms \in Seq(AppLine), \A i \in 1..Len(ms) : ~StartLine(ms[i]),
         Emit(ms), UNCHANGED <<toBridge, profiling, activeStartGeneration, targetUuid, startGeneration, bridgeRun>>
  PROVE  Settled'
<1>0. toApp \in Seq(AppLine) /\ Len(toApp) \in Nat /\ Len(ms) \in Nat
  BY LenProperties DEF TypeOK, LinkTypes
<1>1. /\ \A j \in 1..Len(toApp') : \/ j \in 1..Len(toApp) /\ toApp'[j] = toApp[j]
                                   \/ ~Refusal(toApp'[j])
      /\ \A i \in 1..Len(toApp) : i \in 1..Len(toApp') /\ toApp'[i] = toApp[i]
  <2>1. CASE toApp' = toApp
    BY <2>1
  <2>2. CASE toApp' = toApp \o ms
    <3>1. /\ Len(toApp') = Len(toApp) + Len(ms)
          /\ \A i \in 1..Len(toApp) : toApp'[i] = toApp[i]
          /\ \A j \in 1..Len(toApp') :
               \/ j \in 1..Len(toApp)
               \/ j - Len(toApp) \in 1..Len(ms) /\ toApp'[j] = ms[j - Len(toApp)]
      BY <1>0, <2>2, ConcatProperties
    <3>2. \A i \in 1..Len(ms) : ~Refusal(ms[i])
      BY DEF StartLine, Refusal
    <3>3. ASSUME NEW j \in 1..Len(toApp')
          PROVE  (j \in 1..Len(toApp) /\ toApp'[j] = toApp[j]) \/ ~Refusal(toApp'[j])
      <4>1. CASE j \in 1..Len(toApp)
        BY <3>1, <4>1
      <4>2. CASE j \notin 1..Len(toApp)
        <5>1. j - Len(toApp) \in 1..Len(ms) /\ toApp'[j] = ms[j - Len(toApp)]
          BY <3>1, <4>2
        <5> QED BY <3>2, <5>1
      <4> QED BY <4>1, <4>2
    <3>4. \A i \in 1..Len(toApp) : i \in 1..Len(toApp') /\ toApp'[i] = toApp[i]
      BY <1>0, <3>1
    <3> QED BY <3>3, <3>4
  <2> QED BY <2>1, <2>2 DEF Emit
<1>2. RefusalsOver'
  BY <1>1 DEF Settled, RefusalsOver, bridgeRun, Refusal
<1>3. (LastTold => LastTold') /\ (BridgeAsked => BridgeAsked')
  BY DEF LastTold, BridgeAsked, bridgeRun
<1>4. PageServed => PageServed'
  BY <1>1 DEF PageServed, RefusesNow, Refusal, bridgeRun
<1> QED BY <1>2, <1>3, <1>4 DEF Settled, NoneCleared, bridgeRun

LEMMA TailLast ==
  ASSUME NEW S, NEW s \in Seq(S), s # <<>>
  PROVE  /\ Tail(s) # <<>> => Tail(s)[Len(Tail(s))] = s[Len(s)]
         /\ Tail(s) = <<>> => s[Len(s)] = s[1]
<1>1. /\ Len(s) \in Nat /\ Len(Tail(s)) = Len(s) - 1 /\ Len(Tail(s)) \in Nat
      /\ \A j \in 1..Len(Tail(s)) : Tail(s)[j] = s[j + 1]
  BY TailAt
<1>2. CASE Tail(s) = <<>>
  <2>1. Len(<<>>) = 0
    BY EmptySeq
  <2>2. Len(Tail(s)) = 0
    BY <1>2, <2>1
  <2>3. PICK n \in Nat : n = Len(s)
    BY <1>1
  <2>4. n - 1 = 0
    BY <1>1, <2>2, <2>3
  <2>5. s[n] = s[1]
    BY <2>4
  <2> QED BY <1>2, <2>3, <2>5
<1>3. CASE Tail(s) # <<>>
  <2>1. Tail(s) \in Seq(S)
    BY HeadTailProperties
  <2>2. Len(Tail(s)) \in 1..Len(Tail(s)) /\ Len(Tail(s)) + 1 = Len(s)
    BY <1>1, <1>3, <2>1, EmptySeq
  <2>3. Tail(s)[Len(Tail(s))] = s[Len(Tail(s)) + 1]
    BY <1>1, <2>2
  <2> QED BY <1>3, <2>2, <2>3
<1> QED BY <1>2, <1>3

LEMMA SettledBridgeStarts ==
  ASSUME TypeOK, MatchedNow, Settled, appUp, bridgeUp, NEW ok \in BOOLEAN, BridgeStarts(ok)
  PROVE  Settled'
<1> DEFINE m == toBridge[1]
           ack == Started_(m.uuid, ok, m.gen)
<1>0. toApp \in Seq(AppLine) /\ toBridge \in Seq(BridgeLine)
  BY DEF TypeOK, LinkTypes
<1>1. /\ Head(toBridge) = m /\ toBridge # <<>> /\ toBridge' = Tail(toBridge)
      /\ m.type = "start_profiling" /\ m.uuid \in Uuids /\ m.gen \in Generation
  <2>1. BridgeReceive("start_profiling")
    BY DEF BridgeStarts
  <2> QED BY <2>1, BridgeReceiveTypes, BridgeLineCases DEF BridgeReceive
<1>2. ack \in AppLine /\ ack.type = "profiling_started" /\ ack.ok = ok
      /\ ack.gen = m.gen /\ ack.uuid = m.uuid
  <2>1. ack \in AppLine
    BY <1>1, LineTypes
  <2> QED BY <2>1 DEF Started_
<1>3. toApp' = Append(toApp, ack)
  BY <1>0, <1>1, <1>2, AppendIsConcat DEF BridgeStarts, Emit, Started_
<1>4. /\ \A j \in 1..Len(toApp') : \/ j \in 1..Len(toApp) /\ toApp'[j] = toApp[j]
                                   \/ toApp'[j] = ack
      /\ \E j \in 1..Len(toApp') : toApp'[j] = ack
  BY <1>0, <1>2, <1>3, AppendAt
<1>5. /\ running' = ok /\ (ok => clientSession' = m.gen /\ bridgeUuid' = m.uuid)
      /\ UNCHANGED <<profiling, activeStartGeneration, targetUuid, startGeneration, connectedAt, lostAt>>
  BY <1>1 DEF BridgeStarts, pageVars, linkVars
<1>6. \A i \in 1..Len(toApp) : Refusal(toApp[i]) => toApp[i].gen < m.gen
  <2>1. 1 \in 1..Len(toBridge)
    BY <1>0, <1>1, TailAt
  <2> QED BY <1>1, <2>1 DEF MatchedNow, Matched, Before, StartLine, Refusal
<1> HIDE DEF ack
<1>7. RefusalsOver'
  <2>1. SUFFICES ASSUME NEW j \in 1..Len(toApp'), Refusal(toApp'[j]), running'
                 PROVE  clientSession' # toApp'[j].gen
    BY DEF RefusalsOver, Refusal
  <2>2. ok = TRUE
    BY <1>5, <2>1
  <2>3. toApp'[j] # ack
    BY <1>2, <2>1, <2>2 DEF Refusal
  <2>4. toApp'[j].gen < m.gen
    BY <1>4, <1>6, <2>1, <2>3
  <2> QED BY <1>1, <1>5, <2>2, <2>4 DEF Generation
<1>8. LastTold => LastTold'
  BY <1>0, <1>1, <1>5, TailLast DEF LastTold
<1>9. LastTold /\ toBridge' = <<>> =>
        \/ profiling /\ m.gen = activeStartGeneration /\ m.uuid = targetUuid
        \/ ~profiling /\ m.gen <= connectedAt
  BY <1>0, <1>1, TailLast DEF LastTold
<1>10. LastTold => PageServed'
  <2>1. CASE ok = TRUE
    BY <1>5, <1>9, <2>1 DEF PageServed
  <2>2. CASE ok = FALSE
    BY <1>2, <1>4, <1>5, <1>9, <2>2 DEF PageServed, RefusesNow, Refusal
  <2> QED BY <2>1, <2>2
<1>11. LastTold => BridgeAsked'
  <2>1. connectedAt \in Nat /\ m.gen \in Nat
    BY <1>1 DEF TypeOK, LinkTypes, Generation
  <2> QED BY <1>5, <1>9, <2>1 DEF BridgeAsked
<1> QED BY <1>5, <1>7, <1>8, <1>10, <1>11 DEF Settled, NoneCleared

LEMMA SettledBridgeStops ==
  ASSUME TypeOK, Settled, BridgeStops
  PROVE  Settled'
<1>0. toBridge \in Seq(BridgeLine)
  BY DEF TypeOK, LinkTypes
<1>1. /\ running' = FALSE /\ toBridge # <<>> /\ toBridge' = Tail(toBridge)
      /\ toBridge[1].type = "stop_profiling"
      /\ UNCHANGED <<profiling, activeStartGeneration, targetUuid, startGeneration, connectedAt, lostAt>>
  <2>1. BridgeReceive("stop_profiling")
    BY DEF BridgeStops
  <2> QED BY <2>1, BridgeReceiveTypes DEF BridgeReceive, BridgeStops, BridgeIdle, pageVars, linkVars
<1>2. LastTold => LastTold'
  BY <1>0, <1>1, TailLast DEF LastTold
<1>3. LastTold /\ toBridge' = <<>> => ~profiling
  BY <1>0, <1>1, TailLast DEF LastTold
<1> QED BY <1>1, <1>2, <1>3 DEF Settled, NoneCleared, RefusalsOver, PageServed, BridgeAsked

LEMMA SettledUser ==
  ASSUME TypeOK, Settled, appUp, bridgeUp, User
  PROVE  Settled'
<1> USE DEF linkVars, bridgeVars, bridgeRun
<1>0. profiling \in BOOLEAN
  BY DEF TypeOK, FlagTypes
<1>1. CASE PressStart
  BY <1>1, SettledStart DEF PressStart
<1>2. CASE PressStop
  BY <1>2, SettledStop DEF PressStop
<1>3. CASE Clear \/ Load
  BY <1>3, SettledQuiet DEF Clear, Load
<1>4. ASSUME NEW c, StopIf(c), UNCHANGED <<toApp, startGeneration, bridgeRun>>,
             profiling /\ ~c => UNCHANGED targetUuid, c \in BOOLEAN
      PROVE  Settled'
  <2>1. CASE SendStop
    BY <1>4, <2>1, SettledStop
  <2>2. CASE ~(profiling /\ c) /\ UNCHANGED <<profiling, activeStartGeneration, toBridge>>
    BY <1>4, <2>2, SettledQuiet
  <2> QED BY <1>4, <2>1, <2>2 DEF StopIf
<1>5. ASSUME NEW u \in Uuids \cup {NoUuid}, SelectTarget(u)
      PROVE  Settled'
  BY <1>4, <1>5 DEF SelectTarget
<1>6. ASSUME NEW E \in SUBSET Uuids, ExtensionsChanged(E)
      PROVE  Settled'
  <2>1. (targetUuid \notin E) \in BOOLEAN /\ (~(targetUuid \notin E) => UNCHANGED targetUuid)
    BY <1>6 DEF ExtensionsChanged
  <2> QED BY <1>4, <1>6, <2>1 DEF ExtensionsChanged
<1>7. ASSUME NEW k \in Shortcuts, PressShortcut(k)
      PROVE  Settled'
  <2> DEFINE m == [type |-> k]
  <2>1. m \in AppLine /\ ~StartLine(m)
    BY LineTypes DEF StartLine, Shortcuts
  <2>2. /\ Emit(<<m>>)
        /\ UNCHANGED <<toBridge, profiling, activeStartGeneration, targetUuid, startGeneration, bridgeRun>>
    BY <1>7 DEF PressShortcut, pageVars
  <2> HIDE DEF m
  <2>3. <<m>> \in Seq(AppLine) /\ \A i \in 1..Len(<<m>>) : ~StartLine(<<m>>[i])
    BY <2>1, OneLine
  <2> QED BY <2>2, <2>3, SettledEmit
<1> QED BY <1>1, <1>2, <1>3, <1>5, <1>6, <1>7 DEF User

LEMMA SettledAppReceives ==
  ASSUME TypeOK, GenInv, MatchedNow, Settled, appUp, bridgeUp, AppReceives
  PROVE  Settled'
<1> USE DEF linkVars, bridgeVars, bridgeRun
<1>0. toApp \in Seq(AppLine) /\ pendingStartAcks \in Seq(Request)
  BY DEF TypeOK, PageTypes, LinkTypes
<1>1. toApp # <<>> /\ toApp' = Tail(toApp) /\ Head(toApp) = toApp[1] /\ 1 \in 1..Len(toApp)
  <2>1. toApp # <<>> /\ toApp' = Tail(toApp)
    BY DEF AppReceives, ReceiveToggle, ReceiveRestart, ReceiveBatch, ReceiveStarted,
      ReceiveStopped, Receive
  <2> QED BY <1>0, <2>1, TailAt
<1>2. CASE ReceiveToggle
  <2>1. ~RefusesNow(toApp[1]) /\ UNCHANGED <<targetUuid, bridgeRun>>
    BY <1>1, <1>2 DEF ReceiveToggle, Receive, RefusesNow, Refusal
  <2>2. CASE SendStop /\ UNCHANGED startGeneration
    BY <1>1, <2>1, <2>2, SettledStop
  <2>3. CASE CanStart /\ Start
    BY <1>1, <2>1, <2>3, SettledStart
  <2>4. CASE UNCHANGED <<profiling, activeStartGeneration, startGeneration, toBridge>>
    BY <1>1, <2>1, <2>4, SettledQuiet
  <2> QED BY <1>2, <2>2, <2>3, <2>4 DEF ReceiveToggle
<1>3. CASE ReceiveRestart
  <2>1. ~RefusesNow(toApp[1]) /\ UNCHANGED <<targetUuid, bridgeRun>>
    BY <1>1, <1>3 DEF ReceiveRestart, Receive, RefusesNow, Refusal
  <2>2. CASE SendStop /\ UNCHANGED startGeneration
    BY <1>1, <2>1, <2>2, SettledStop
  <2>3. CASE CanStart /\ Start
    BY <1>1, <2>1, <2>3, SettledStart
  <2>4. CASE UNCHANGED <<profiling, activeStartGeneration, startGeneration, toBridge>>
    BY <1>1, <2>1, <2>4, SettledQuiet
  <2> QED BY <1>3, <2>2, <2>3, <2>4 DEF ReceiveRestart, StopIf
<1>4. CASE ReceiveBatch
  <2>1. /\ ~RefusesNow(toApp[1])
        /\ UNCHANGED <<targetUuid, bridgeRun, profiling, activeStartGeneration, startGeneration, toBridge>>
    BY <1>1, <1>4 DEF ReceiveBatch, Receive, RefusesNow, Refusal
  <2> QED BY <1>1, <2>1, SettledQuiet
<1>5. CASE ReceiveStopped
  <2>1. ~RefusesNow(toApp[1]) /\ UNCHANGED <<targetUuid, startGeneration, bridgeRun, toBridge>>
    BY <1>1, <1>5 DEF ReceiveStopped, Receive, RefusesNow, Refusal
  <2>2. UNCHANGED profiling /\ (profiling => UNCHANGED activeStartGeneration)
    <3>1. CASE profiling
      BY <1>5, <3>1 DEF ReceiveStopped
    <3>2. CASE ~profiling
      <4>1. profiling' = FALSE
        BY <1>5, <3>2 DEF ReceiveStopped, SetStopped
      <4>2. profiling = FALSE
        BY <3>2 DEF TypeOK, FlagTypes
      <4> QED BY <3>2, <4>1, <4>2
    <3> QED BY <3>1, <3>2
  <2> QED BY <1>1, <2>1, <2>2, SettledQuiet
<1>6. CASE ReceiveStarted
  <2>1. toApp[1].type = "profiling_started" /\ UNCHANGED <<targetUuid, startGeneration, bridgeRun, toBridge>>
    BY <1>1, <1>6 DEF ReceiveStarted, Receive
  <2>2. PICK i \in 0..Len(pendingStartAcks) :
          /\ Answers(toApp[1], i)
          /\ IF i # 0 /\ RefusesCurrent(toApp[1], pendingStartAcks[i])
             THEN SetStopped ELSE UNCHANGED <<profiling, activeStartGeneration>>
    BY <1>1, <1>6 DEF ReceiveStarted
  <2>3. DOMAIN pendingStartAcks = 1..Len(pendingStartAcks) /\ Len(pendingStartAcks) \in Nat
    BY <1>0, LenProperties
  <2>4. CASE i # 0 /\ RefusesCurrent(toApp[1], pendingStartAcks[i])
    <3>1. pendingStartAcks[i].gen = toApp[1].gen
      BY <2>2, <2>4 DEF Answers
    <3>2. profiling /\ RefusesNow(toApp[1])
      BY <2>1, <2>4, <3>1 DEF RefusesCurrent, RefusesNow, Refusal
    <3>3. SetStopped
      BY <2>2, <2>4
    <3> QED BY <1>1, <2>1, <3>2, <3>3, SettledRefused
  <2>5. CASE ~(i # 0 /\ RefusesCurrent(toApp[1], pendingStartAcks[i]))
    <3>1. ASSUME profiling, RefusesNow(toApp[1])
          PROVE  FALSE
      <4>1. toApp[1].gen > connectedAt /\ toApp[1].gen = activeStartGeneration
        BY <3>1 DEF GenInv, RefusesNow
      <4>2. PICK k \in 1..Len(pendingStartAcks) : Same(toApp[1], pendingStartAcks[k])
        BY <1>1, <2>1, <4>1 DEF MatchedNow, Matched, Asked, StartLine
      <4>3. i # 0
        BY <2>2, <2>3, <4>2 DEF Answers, Same
      <4>4. i \in 1..Len(pendingStartAcks) /\ pendingStartAcks[i].gen = toApp[1].gen
        BY <2>2, <2>3, <4>3 DEF Answers
      <4>5. i = k
        <5>1. \A r \in Request : r.gen \in Nat
          BY DEF Request, Generation
        <5>2. pendingStartAcks[i].gen \in Nat /\ pendingStartAcks[k].gen \in Nat
          BY <1>0, <4>4, <5>1, ElementOfSeq
        <5>3. ~(i < k) /\ ~(k < i)
          BY <4>2, <4>4, <5>2 DEF MatchedNow, Matched, RequestsRise, Same
        <5> QED BY <2>3, <4>4, <5>3
      <4> QED BY <2>5, <3>1, <4>2, <4>3, <4>5 DEF RefusesCurrent, RefusesNow, Refusal, Same
    <3> QED BY <1>1, <2>1, <2>2, <2>5, <3>1, SettledQuiet
  <2> QED BY <2>4, <2>5
<1> QED BY <1>2, <1>3, <1>4, <1>5, <1>6 DEF AppReceives

LEMMA SettledBridge ==
  ASSUME TypeOK, MatchedNow, Settled, appUp, bridgeUp, BridgeReceives \/ Record \/ Flush
  PROVE  Settled'
<1> USE DEF linkVars, bridgeRun, pageVars
<1>1. CASE BridgeReceives
  BY <1>1, SettledBridgeStarts, SettledBridgeStops DEF BridgeReceives
<1>2. CASE Record
  <2> DEFINE q == Append(eventQueue, [gen |-> clientSession, n |-> recorded + 1])
             b == Batch_(clientSession, q)
  <2>1. clientSession \in Generation /\ q \in Seq(Event)
    <3>1. /\ clientSession \in Generation /\ eventQueue \in Seq(Event)
          /\ [gen |-> clientSession, n |-> recorded + 1] \in Event
      BY DEF Event, TypeOK, BridgeTypes
    <3> QED BY <3>1, AppendProperties
  <2>2. b \in AppLine
    BY <2>1, LineTypes
  <2>3. ~StartLine(b)
    BY DEF Batch_, StartLine
  <2>4. /\ UNCHANGED <<toBridge, profiling, activeStartGeneration, targetUuid, startGeneration, bridgeRun>>
        /\ UNCHANGED toApp \/ Emit(<<b>>)
    BY <1>2 DEF Record, Batch_
  <2> HIDE DEF b
  <2>5. <<b>> \in Seq(AppLine) /\ \A i \in 1..Len(<<b>>) : ~StartLine(<<b>>[i])
    BY <2>2, <2>3, OneLine
  <2>6. CASE UNCHANGED toApp
    BY <2>4, <2>6, SettledQuiet
  <2> QED BY <2>4, <2>5, <2>6, SettledEmit
<1>3. CASE Flush
  <2>1. \A i \in 1..Len(Batch) : ~StartLine(Batch[i])
    BY BatchKinds DEF StartLine
  <2> QED BY <1>3, <2>1, BatchTypes, SettledEmit DEF Flush
<1> QED BY <1>1, <1>2, <1>3

StepsInv == GenInv /\ MatchInv /\ KnownInv /\ StepInv

LEMMA SettledStep ==
  ASSUME TypeOK, StepsInv, KnownInv', [Next]_vars
  PROVE  StepInv'
<1> USE DEF StepsInv
<1>1. CASE User \/ AppReceives \/ BridgeReceives \/ Record \/ Flush
  <2>1. UNCHANGED <<appUp, bridgeUp>>
    BY <1>1 DEF User, PressStart, PressStop, Clear, Load, SelectTarget, ExtensionsChanged,
      PressShortcut, AppReceives, ReceiveToggle, ReceiveRestart, ReceiveBatch, ReceiveStarted,
      ReceiveStopped, BridgeReceives, BridgeStarts, BridgeStops, Record, Flush, linkVars
  <2>2. SUFFICES ASSUME appUp, bridgeUp PROVE Settled'
    BY <2>1 DEF StepInv
  <2>3. MatchedNow /\ Settled
    BY <2>2 DEF MatchInv, MatchedNow, StepInv
  <2> QED BY <1>1, <2>2, <2>3, SettledUser, SettledAppReceives, SettledBridge
<1>2. CASE Connect
  <2>1. /\ toApp' = <<>> /\ connectedAt' = startGeneration
        /\ UNCHANGED <<running, clientSession, startGeneration>>
    BY <1>2 DEF Connect, PageDisconnected, pageVars, bridgeVars
  <2>2. ~profiling'
    <3>1. CASE appUp
      BY <1>2, <3>1 DEF Connect, PageDisconnected, SetStopped
    <3>2. CASE ~appUp
      BY <1>2, <3>2 DEF Connect, pageVars, GenInv
    <3> QED BY <3>1, <3>2
  <2>3. ~(clientSession' > connectedAt')
    BY <2>1 DEF KnownInv, TypeOK, PageTypes, BridgeTypes, Generation
  <2>4. LastTold'
    <3>1. SUFFICES ASSUME toBridge' # <<>>
                   PROVE  LET m == toBridge'[Len(toBridge')]
                          IN  m.type = "stop_profiling" \/ (m.type = "start_profiling" /\ m.gen <= connectedAt')
      BY <2>2 DEF LastTold
    <3>2. toBridge' \in Seq(BridgeLine) /\ Within(toBridge', startGeneration)
      BY <2>1, TypesStep DEF TypeOK, LinkTypes, KnownInv
    <3>3. Len(toBridge') \in 1..Len(toBridge')
      BY <3>1, <3>2, LenProperties, EmptySeq
    <3>4. toBridge'[Len(toBridge')] \in BridgeLine
      BY <3>2, <3>3, ElementOfSeq
    <3>5. StartLine(toBridge'[Len(toBridge')]) => toBridge'[Len(toBridge')].gen \in 1..startGeneration
      BY <3>2, <3>3 DEF Within
    <3> QED BY <2>1, <3>4, <3>5, BridgeLineCases DEF StartLine
  <2> QED BY <2>1, <2>2, <2>3, <2>4, EmptySeq DEF StepInv, Settled, RefusalsOver, PageServed, BridgeAsked
<1>3. CASE LateWriteReturns
  <2>1. /\ UNCHANGED <<appUp, bridgeUp, toApp, running, clientSession, bridgeUuid, connectedAt>>
        /\ UNCHANGED <<profiling, activeStartGeneration, startGeneration, targetUuid>>
    BY <1>3 DEF LateWriteReturns, pageVars, bridgeVars
  <2>2. RefusalsOver => RefusalsOver'
    BY <2>1 DEF RefusalsOver, Refusal
  <2>3. CASE UNCHANGED <<toBridge, lostAt>>
    BY <2>1, <2>2, <2>3 DEF StepInv, Settled, NoneCleared, LastTold, PageServed, BridgeAsked,
      RefusesNow, Refusal
  <2>4. CASE lostAt' = startGeneration
    <3>1. ~NoneCleared'
      BY <2>1, <2>4 DEF NoneCleared, TypeOK, PageTypes, Generation
    <3> QED BY <2>1, <2>2, <3>1 DEF StepInv, Settled
  <2> QED BY <1>3, <2>3, <2>4 DEF LateWriteReturns
<1>4. CASE AppSeesEnd \/ AppDrops \/ AppRestarts \/ BridgeSeesEnd \/ BridgeDisabled \/ BridgeDies
  BY <1>4 DEF AppSeesEnd, AppDrops, AppRestarts, AppCloses, BridgeSeesEnd, BridgeDisabled, BridgeDies,
    BridgeCloses, StepInv
<1>5. CASE UNCHANGED vars
  BY <1>5 DEF vars, pageVars, linkVars, bridgeVars, StepInv, Settled, NoneCleared, RefusalsOver,
    LastTold, PageServed, BridgeAsked, RefusesNow, Refusal
<1> QED BY <1>1, <1>2, <1>3, <1>4, <1>5 DEF Next, Link

\* With nothing under way the page shows a recording exactly when the bridge makes it, of the
\* same extension and generation, whatever was pressed, refused or restarted before
\* (_start_profiling, _on_profiling_started, startProfiling, stopProfiling).  When the late
\* failure of an earlier connection's write cleared lines (_on_write_done), this holds again
\* from the next recording the page starts.
THEOREM AlwaysInStep == Spec => []InStep
<1>1. Init => StepsInv
  BY EmptySeq DEF Init, StepsInv, GenInv, MatchInv, KnownInv, StepInv, Rising, Within, NoGeneration
<1>2. TypeOK /\ StepsInv /\ [Next]_vars => StepsInv'
  BY GenStep, MatchStep, KnownStep, SettledStep DEF StepsInv
<1>3. StepsInv => InStep
  BY EmptySeq DEF StepsInv, StepInv, Settled, NoneCleared, PageServed, BridgeAsked, InStep
<1> QED BY <1>1, <1>2, <1>3, SessionIsTyped, PTL DEF Spec

-----------------------------------------------------------------------------
(* Nothing lost *)

Accepted(m, g) == m.type = "profile_batch" /\ m.gen = g

\* The events of generation g in the window are its last ones, numbered up to k.
ShownTo(raw, g, k) ==
  \E older \in 0..Len(raw) : \A i \in 1..Len(raw) :
    IF i <= older THEN raw[i].gen # g ELSE raw[i].gen = g /\ raw[i].n = k - Len(raw) + i

Runs(events, k) == \A j \in 1..Len(events) : events[j].n = k + j

\* Each line of a carries on from the number before it.
Linked(a, g, before) ==
  \A i \in 1..Len(a) :
    /\ Accepted(a[i], g) => /\ Runs(a[i].events, before[i])
                            /\ before[i + 1] = before[i] + Len(a[i].events)
    /\ ~Accepted(a[i], g) => before[i + 1] = before[i]

ChainedBy(raw, a, q, rec, g, before) ==
  /\ before \in [1..(Len(a) + 1) -> 0..rec]
  /\ ShownTo(raw, g, before[1])
  /\ Linked(a, g, before)
  /\ Runs(q, before[Len(a) + 1])
  /\ rec = before[Len(a) + 1] + Len(q)

Chained(raw, a, q, rec, g) == \E before : ChainedBy(raw, a, q, rec, g, before)

\* The window shows nothing of generation g.
LEMMA ShownNone ==
  ASSUME NEW raw, Len(raw) \in Nat, NEW g, \A i \in 1..Len(raw) : raw[i].gen # g, NEW k
  PROVE  ShownTo(raw, g, k)
<1>1. Len(raw) \in 0..Len(raw) /\ \A i \in 1..Len(raw) : i <= Len(raw)
  OBVIOUS
<1> QED BY <1>1 DEF ShownTo

LEMMA ChainedReset ==
  ASSUME NEW raw, NEW a, NEW q, NEW rec, NEW g, Chained(raw, a, q, rec, g),
         NEW raw2, Len(raw2) \in Nat, \A i \in 1..Len(raw2) : raw2[i].gen # g
  PROVE  Chained(raw2, a, q, rec, g)
BY ShownNone DEF Chained, ChainedBy

LEMMA ShownMore ==
  ASSUME NEW raw \in Seq(Event), NEW events \in Seq(Event), NEW g, NEW k \in Nat,
         ShownTo(raw, g, k), OfOne(events, g), Runs(events, k)
  PROVE  ShownTo(raw \o events, g, k + Len(events))
<1> DEFINE all == raw \o events
<1>1. PICK r \in Nat : r = Len(raw)
  BY LenProperties
<1>2. PICK e \in Nat : e = Len(events)
  BY LenProperties
<1>3. /\ Len(all) = r + e
      /\ \A i \in 1..(r + e) : all[i] = IF i <= r THEN raw[i] ELSE events[i - r]
  BY <1>1, <1>2, ConcatProperties
<1>4. PICK older \in 0..r : \A i \in 1..r :
        IF i <= older THEN raw[i].gen # g ELSE raw[i].gen = g /\ raw[i].n = k - r + i
  BY <1>1 DEF ShownTo
<1> HIDE DEF all
<1>5. ASSUME NEW i \in 1..(r + e)
      PROVE  IF i <= older THEN all[i].gen # g
             ELSE all[i].gen = g /\ all[i].n = k + e - (r + e) + i
  <2>1. CASE i <= r
    <3>1. i \in 1..r /\ all[i] = raw[i] /\ k + e - (r + e) + i = k - r + i
      BY <1>3, <2>1
    <3> QED BY <1>4, <3>1
  <2>2. CASE ~(i <= r)
    <3>1. PICK j \in 1..e : j = i - r
      BY <2>2
    <3>2. ~(i <= older) /\ k + e - (r + e) + i = k + j
      BY <2>2, <3>1
    <3>4. all[i] = events[j]
      BY <1>3, <2>2, <3>1
    <3>3. events[j].gen = g /\ events[j].n = k + j
      BY <1>2 DEF OfOne, Runs
    <3> QED BY <3>2, <3>3, <3>4
  <2> QED BY <2>1, <2>2
<1>6. older \in 0..(r + e)
  OBVIOUS
<1>7. ShownTo(all, g, k + e)
  <2>1. older \in 0..Len(all) /\ \A i \in 1..Len(all) :
          IF i <= older THEN all[i].gen # g
          ELSE all[i].gen = g /\ all[i].n = k + e - Len(all) + i
    BY <1>3, <1>5, <1>6
  <2> QED BY <2>1 DEF ShownTo
<1> QED BY <1>2, <1>7 DEF all

LEMMA ShownLast ==
  ASSUME NEW s \in Seq(Event), NEW g, NEW k \in Nat, ShownTo(s, g, k)
  PROVE  ShownTo(LastEvents(s), g, k)
<1> DEFINE t == LastEvents(s)
<1>1. PICK l \in Nat : l = Len(s)
  BY LenProperties
<1>2. PICK d \in 0..l :
        /\ Len(t) = l - d
        /\ \A i \in 1..(l - d) : i + d \in 1..l /\ t[i] = s[i + d]
  BY <1>1, LastEventsTypes
<1>3. PICK older \in 0..l : \A i \in 1..l :
        IF i <= older THEN s[i].gen # g ELSE s[i].gen = g /\ s[i].n = k - l + i
  BY <1>1 DEF ShownTo
<1> HIDE DEF t
<1>4. PICK o \in 0..(l - d) : \A i \in 1..(l - d) : i <= o <=> i + d <= older
  <2> DEFINE o == IF d <= older THEN older - d ELSE 0
  <2>1. o \in 0..(l - d) /\ \A i \in 1..(l - d) : i <= o <=> i + d <= older
    OBVIOUS
  <2> QED BY <2>1
<1>5. ASSUME NEW i \in 1..(l - d)
      PROVE  IF i <= o THEN t[i].gen # g ELSE t[i].gen = g /\ t[i].n = k - (l - d) + i
  <2>1. PICK j \in 1..l : j = i + d /\ t[i] = s[j]
    BY <1>2
  <2>2. i <= o <=> j <= older
    BY <1>4, <2>1
  <2>4. k - l + j = k - (l - d) + i
    BY <2>1
  <2>3. IF j <= older THEN s[j].gen # g ELSE s[j].gen = g /\ s[j].n = k - l + j
    BY <1>3
  <2> QED BY <2>1, <2>2, <2>3, <2>4
<1>6. ShownTo(t, g, k)
  BY <1>2, <1>5 DEF ShownTo
<1> QED BY <1>6 DEF t

\* A line is read: the chain goes on one line further.
LEMMA ChainedRead ==
  ASSUME NEW raw \in Seq(Event), NEW a \in Seq(AppLine), NEW q, NEW rec \in Nat, NEW g,
         Chained(raw, a, q, rec, g), a # <<>>, Accepted(a[1], g) => OfOne(a[1].events, g),
         NEW raw2, raw2 = IF Accepted(a[1], g) THEN LastEvents(raw \o a[1].events) ELSE raw
  PROVE  Chained(raw2, Tail(a), q, rec, g)
<1>1. PICK before : ChainedBy(raw, a, q, rec, g, before)
  BY DEF Chained
<1> DEFINE b == [i \in 1..(Len(Tail(a)) + 1) |-> before[i + 1]]
<1>2. PICK n \in Nat : n = Len(Tail(a)) /\ Len(a) = n + 1
  <2>1. Len(Tail(a)) \in Nat /\ Len(a) \in Nat /\ Len(Tail(a)) = Len(a) - 1
    BY TailAt
  <2>2. Len(a) = Len(Tail(a)) + 1
    BY <2>1
  <2> QED BY <2>1, <2>2
<1>3. \A j \in 1..n : j + 1 \in 1..(n + 1) /\ Tail(a)[j] = a[j + 1]
  BY <1>2, TailAt
<1>4. before \in [1..(n + 2) -> 0..rec]
  <2>1. Len(a) + 1 = n + 2
    BY <1>2
  <2> QED BY <1>1, <2>1 DEF ChainedBy
<1>5. b \in [1..(n + 1) -> 0..rec] /\ \A i \in 1..(n + 1) : b[i] = before[i + 1]
  <2>1. \A i \in 1..(n + 1) : i + 1 \in 1..(n + 2)
    OBVIOUS
  <2> QED BY <1>2, <1>4, <2>1
<1>6. 1 \in 1..Len(a) /\ before[1] \in Nat /\ before[2] \in Nat /\ 1 + 1 = 2 /\ 1 \in 1..(n + 1)
  BY <1>2, <1>4
<1>7. ShownTo(raw2, g, before[2])
  <2>1. ShownTo(raw, g, before[1])
    BY <1>1 DEF ChainedBy
  <2>2. CASE Accepted(a[1], g)
    <3>1. Runs(a[1].events, before[1]) /\ before[2] = before[1] + Len(a[1].events)
      BY <1>1, <1>6, <2>2 DEF ChainedBy, Linked
    <3>2. a[1].events \in Seq(Event)
      BY <1>6, <2>2, ElementOfSeq, AppLineCases DEF Accepted
    <3>3. ShownTo(raw \o a[1].events, g, before[2])
      BY <1>6, <2>1, <2>2, <3>1, <3>2, ShownMore
    <3>4. raw \o a[1].events \in Seq(Event)
      BY <3>2, ConcatProperties
    <3> QED BY <1>6, <2>2, <3>3, <3>4, ShownLast
  <2>3. CASE ~Accepted(a[1], g)
    <3>1. before[2] = before[1]
      BY <1>1, <1>6, <2>3 DEF ChainedBy, Linked
    <3> QED BY <2>1, <2>3, <3>1
  <2> QED BY <2>2, <2>3
<1> HIDE DEF b
<1>8. Linked(Tail(a), g, b)
  <2>1. SUFFICES ASSUME NEW j \in 1..n
                 PROVE  /\ Accepted(Tail(a)[j], g) => /\ Runs(Tail(a)[j].events, b[j])
                                                      /\ b[j + 1] = b[j] + Len(Tail(a)[j].events)
                        /\ ~Accepted(Tail(a)[j], g) => b[j + 1] = b[j]
    BY <1>2 DEF Linked
  <2>2. PICK i \in 1..Len(a) : i = j + 1 /\ Tail(a)[j] = a[i]
    BY <1>2, <1>3
  <2>3. b[j] = before[i] /\ b[j + 1] = before[i + 1]
    <3>1. j \in 1..(n + 1) /\ j + 1 \in 1..(n + 1)
      OBVIOUS
    <3> QED BY <1>5, <2>2, <3>1
  <2> QED BY <1>1, <2>2, <2>3 DEF ChainedBy, Linked
<1>9. b[n + 1] = before[Len(a) + 1]
  <2>1. n + 1 \in 1..(n + 1) /\ n + 1 + 1 = Len(a) + 1
    BY <1>2
  <2> QED BY <1>5, <2>1
<1>10. b[1] = before[2]
  BY <1>5, <1>6
<1>11. ChainedBy(raw2, Tail(a), q, rec, g, b)
  BY <1>1, <1>2, <1>5, <1>7, <1>8, <1>9, <1>10 DEF ChainedBy
<1> QED BY <1>11 DEF Chained

\* A line is sent: either the queue, which is emptied, or a line without events of g.
LEMMA ChainedSend ==
  ASSUME NEW raw, NEW a \in Seq(AppLine), NEW q, Len(q) \in Nat, NEW rec \in Nat, NEW g,
         Chained(raw, a, q, rec, g), NEW m \in AppLine, NEW q2, Len(q2) \in Nat,
         \/ Accepted(m, g) /\ m.events = q /\ q2 = <<>>
         \/ ~Accepted(m, g) /\ q2 = q
  PROVE  Chained(raw, Append(a, m), q2, rec, g)
<1>1. PICK before : ChainedBy(raw, a, q, rec, g, before)
  BY DEF Chained
<1> DEFINE a2 == Append(a, m)
           last == rec - Len(q2)
           b == [i \in 1..(Len(a2) + 1) |-> IF i <= Len(a) + 1 THEN before[i] ELSE last]
<1>2. PICK n \in Nat : n = Len(a)
  BY LenProperties
<1>3. /\ Len(a2) = n + 1 /\ a2[n + 1] = m
      /\ \A j \in 1..n : a2[j] = a[j]
  BY <1>2, AppendProperties
<1>4. /\ before \in [1..(n + 1) -> 0..rec] /\ Runs(q, before[n + 1])
      /\ rec = before[n + 1] + Len(q)
  BY <1>1, <1>2 DEF ChainedBy
<1>5. Len(<<>>) = 0
  BY EmptySeq
<1>6. last \in 0..rec /\ last + Len(q2) = rec
  <2>1. before[n + 1] \in 0..rec
    BY <1>4
  <2>2. CASE q2 = <<>>
    BY <1>5, <2>2
  <2>3. CASE q2 = q
    BY <1>4, <2>1, <2>3
  <2> QED BY <2>2, <2>3
<1> HIDE DEF a2, last
<1>7. b \in [1..(n + 2) -> 0..rec] /\ b[n + 2] = last
      /\ \A i \in 1..(n + 1) : b[i] = before[i]
  <2>1. b = [i \in 1..(n + 2) |-> IF i <= n + 1 THEN before[i] ELSE last]
    <3>1. Len(a2) + 1 = n + 2 /\ Len(a) + 1 = n + 1
      BY <1>2, <1>3
    <3> QED BY <3>1
  <2>2. /\ \A i \in 1..(n + 2) : i <= n + 1 => i \in 1..(n + 1)
        /\ \A i \in 1..(n + 1) : i \in 1..(n + 2) /\ i <= n + 1
        /\ n + 2 \in 1..(n + 2) /\ ~(n + 2 <= n + 1)
    OBVIOUS
  <2> QED BY <1>4, <1>6, <2>1, <2>2
<1> HIDE DEF b
<1>8. Linked(a2, g, b)
  <2>1. SUFFICES ASSUME NEW j \in 1..(n + 1)
                 PROVE  /\ Accepted(a2[j], g) => /\ Runs(a2[j].events, b[j])
                                                 /\ b[j + 1] = b[j] + Len(a2[j].events)
                        /\ ~Accepted(a2[j], g) => b[j + 1] = b[j]
    BY <1>3 DEF Linked
  <2>2. CASE j <= n
    <3>1. j \in 1..n /\ j + 1 \in 1..(n + 1)
      BY <2>2
    <3>2. a2[j] = a[j] /\ b[j] = before[j] /\ b[j + 1] = before[j + 1]
      BY <1>3, <1>7, <3>1
    <3> QED BY <1>1, <1>2, <3>1, <3>2 DEF ChainedBy, Linked
  <2>3. CASE j = n + 1
    <3>1. b[j] = before[n + 1] /\ b[j + 1] = last /\ a2[j] = m
      <4>1. j + 1 = n + 2 /\ n + 1 \in 1..(n + 1)
        BY <2>3
      <4> QED BY <1>3, <1>7, <2>3, <4>1
    <3>2. CASE Accepted(m, g)
      <4>1. m.events = q /\ q2 = <<>>
        BY <3>2
      <4>2. last = rec
        BY <1>5, <4>1 DEF last
      <4> QED BY <1>4, <3>1, <3>2, <4>1, <4>2
    <3>3. CASE ~Accepted(m, g)
      <4>1. q2 = q
        BY <3>3
      <4>2. before[n + 1] \in Nat
        BY <1>4
      <4>3. last = before[n + 1]
        BY <1>4, <4>1, <4>2 DEF last
      <4> QED BY <3>1, <3>3, <4>3
    <3> QED BY <3>2, <3>3
  <2> QED BY <2>2, <2>3
<1>9. Runs(q2, last)
  <2>1. CASE q2 = <<>>
    BY <1>5, <2>1 DEF Runs
  <2>2. CASE q2 = q
    <3>1. before[n + 1] \in Nat
      BY <1>4
    <3>2. last = before[n + 1]
      BY <1>4, <2>2, <3>1 DEF last
    <3> QED BY <1>4, <2>2, <3>2
  <2> QED BY <2>1, <2>2
<1>10. ShownTo(raw, g, b[1])
  <2>1. 1 \in 1..(n + 1)
    OBVIOUS
  <2> QED BY <1>1, <1>7, <2>1 DEF ChainedBy
<1>11. ChainedBy(raw, a2, q2, rec, g, b)
  <2>1. Len(a2) + 1 = n + 2
    BY <1>3
  <2> QED BY <1>6, <1>7, <1>8, <1>9, <1>10, <2>1 DEF ChainedBy
<1> QED BY <1>11 DEF Chained, a2

\* A call is recorded.
LEMMA ChainedRecord ==
  ASSUME NEW raw, NEW a \in Seq(AppLine), NEW q \in Seq(Event), NEW rec \in Nat, NEW g,
         Chained(raw, a, q, rec, g), NEW e \in Event, e.n = rec + 1
  PROVE  Chained(raw, a, Append(q, e), rec + 1, g)
<1>1. PICK before : ChainedBy(raw, a, q, rec, g, before)
  BY DEF Chained
<1>2. PICK k \in 0..rec : k = before[Len(a) + 1]
  <2>1. Len(a) + 1 \in 1..(Len(a) + 1)
    BY LenProperties
  <2> QED BY <1>1, <2>1 DEF ChainedBy
<1>3. rec = k + Len(q) /\ Runs(q, k)
  BY <1>1, <1>2 DEF ChainedBy
<1>4. PICK n \in Nat : n = Len(q)
  BY LenProperties
<1>5. Len(Append(q, e)) = n + 1 /\ Append(q, e)[n + 1] = e /\ \A j \in 1..n : Append(q, e)[j] = q[j]
  BY <1>4, AppendProperties
<1>6. Runs(Append(q, e), k)
  <2>1. SUFFICES ASSUME NEW j \in 1..(n + 1) PROVE Append(q, e)[j].n = k + j
    BY <1>5 DEF Runs
  <2>2. CASE j = n + 1
    BY <1>3, <1>4, <1>5, <2>2
  <2>3. CASE j \in 1..n
    <3>1. q[j].n = k + j
      BY <1>3, <1>4, <2>3 DEF Runs
    <3> QED BY <1>5, <2>3, <3>1
  <2>4. j = n + 1 \/ j \in 1..n
    OBVIOUS
  <2> QED BY <2>2, <2>3, <2>4
<1>7. before \in [1..(Len(a) + 1) -> 0..(rec + 1)]
  <2>1. 0..rec \subseteq 0..(rec + 1)
    OBVIOUS
  <2>2. before \in [1..(Len(a) + 1) -> 0..rec]
    BY <1>1 DEF ChainedBy
  <2> QED BY <2>1, <2>2
<1>8. rec + 1 = k + Len(Append(q, e))
  BY <1>3, <1>4, <1>5
<1>9. ChainedBy(raw, a, Append(q, e), rec + 1, g, before)
  BY <1>1, <1>2, <1>6, <1>7, <1>8 DEF ChainedBy
<1> QED BY <1>9 DEF Chained

\* A recording of a generation that nobody has seen begins.
LEMMA ChainedNew ==
  ASSUME NEW raw, Len(raw) \in Nat, NEW a \in Seq(AppLine), NEW g,
         \A i \in 1..Len(raw) : raw[i].gen # g, \A i \in 1..Len(a) : ~Accepted(a[i], g)
  PROVE  Chained(raw, a, <<>>, 0, g)
<1> DEFINE before == [i \in 1..(Len(a) + 1) |-> 0]
<1>1. Len(a) \in Nat /\ Len(<<>>) = 0
  BY LenProperties, EmptySeq
<1>2. /\ before \in [1..(Len(a) + 1) -> 0..0] /\ before[1] = 0 /\ before[Len(a) + 1] = 0
      /\ \A i \in 1..Len(a) : before[i] = 0 /\ before[i + 1] = 0
  BY <1>1
<1> HIDE DEF before
<1>3. ShownTo(raw, g, before[1])
  BY ShownNone
<1>4. Linked(a, g, before)
  BY <1>2 DEF Linked
<1>5. Runs(<<>>, 0)
  BY <1>1 DEF Runs
<1>6. ChainedBy(raw, a, <<>>, 0, g, before)
  BY <1>1, <1>2, <1>3, <1>4, <1>5 DEF ChainedBy
<1> QED BY <1>6 DEF Chained

OlderEvents(raw, g) == \A i \in 1..Len(raw) : raw[i].gen < g
OlderBatches(a, g) == \A i \in 1..Len(a) : a[i].type = "profile_batch" => a[i].gen < g

\* Generation g is newer than everything shown, under way or recorded.
Newer(g) == OlderEvents(rawEvents, g) /\ OlderBatches(toApp, g) /\ clientSession < g

FreshInv ==
  /\ Newer(startGeneration + 1)
  /\ \A k \in 1..Len(toBridge) : StartLine(toBridge[k]) => Newer(toBridge[k].gen)

LEMMA OlderEventsStep ==
  ASSUME TypeOK, BatchInv, NEW g \in Nat, g > 0, Newer(g), [Next]_vars
  PROVE  OlderEvents(rawEvents', g)
<1>0. OlderEvents(rawEvents, g) /\ OlderBatches(toApp, g)
  BY DEF Newer
<1>1. rawEvents' \in {rawEvents, <<>>} => OlderEvents(rawEvents', g)
  BY <1>0 DEF OlderEvents
<1>2. CASE Load
  BY <1>2 DEF Load, FileEvents, NoGeneration, OlderEvents
<1>3. CASE ReceiveBatch
  <2> DEFINE m == Head(toApp)
             all == rawEvents \o m.events
  <2>1. Receive("profile_batch") /\ m = toApp[1] /\ m \in AppLine /\ 1 \in 1..Len(toApp)
    <3>1. Receive("profile_batch")
      BY <1>3 DEF ReceiveBatch
    <3> QED BY <3>1, ReceiveTypes, TailAt DEF TypeOK, LinkTypes
  <2>2. m.type = "profile_batch" /\ m.events \in Seq(Event) /\ rawEvents \in Seq(Event)
    BY <2>1, AppLineCases DEF Receive, TypeOK, PageTypes
  <2>3. OlderEvents(m.events, g)
    <3>1. OfOne(m.events, m.gen) /\ m.gen < g
      BY <1>0, <2>1, <2>2 DEF BatchInv, UniformBatches, OlderBatches
    <3> QED BY <3>1 DEF OlderEvents, OfOne
  <2>4. /\ all \in Seq(Event) /\ Len(rawEvents) \in Nat /\ Len(m.events) \in Nat
        /\ Len(all) = Len(rawEvents) + Len(m.events)
        /\ \A i \in 1..(Len(rawEvents) + Len(m.events)) :
             all[i] = IF i <= Len(rawEvents) THEN rawEvents[i] ELSE m.events[i - Len(rawEvents)]
    BY <2>2, ConcatProperties, LenProperties
  <2>5. CASE rawEvents' = LastEvents(all)
    <3> HIDE DEF m, all
    <3>1. ASSUME NEW i \in 1..Len(all)
          PROVE  all[i].gen < g
      <4>1. CASE i <= Len(rawEvents)
        BY <1>0, <2>4, <4>1 DEF OlderEvents
      <4>2. CASE ~(i <= Len(rawEvents))
        <5>1. i - Len(rawEvents) \in 1..Len(m.events) /\ all[i] = m.events[i - Len(rawEvents)]
          BY <2>4, <4>2
        <5> QED BY <2>3, <5>1 DEF OlderEvents
      <4> QED BY <4>1, <4>2
    <3>2. PICK d \in 0..Len(all) :
            /\ Len(rawEvents') = Len(all) - d
            /\ \A i \in 1..(Len(all) - d) : i + d \in 1..Len(all) /\ rawEvents'[i] = all[i + d]
      BY <2>4, <2>5, LastEventsTypes
    <3> QED BY <3>1, <3>2 DEF OlderEvents
  <2>6. CASE rawEvents' = rawEvents
    BY <1>1, <2>6
  <2> QED BY <1>3, <2>5, <2>6 DEF ReceiveBatch
<1>4. User => Load \/ rawEvents' \in {rawEvents, <<>>}
  BY DEF User, PressStart, PressStop, Clear, SelectTarget, ExtensionsChanged, PressShortcut, pageVars
<1>5. AppReceives => ReceiveBatch \/ rawEvents' \in {rawEvents, <<>>}
  BY DEF AppReceives, ReceiveToggle, ReceiveRestart, ReceiveStarted, ReceiveStopped
<1>6. BridgeReceives \/ Record \/ Flush \/ UNCHANGED vars => rawEvents' = rawEvents
  BY DEF BridgeReceives, BridgeStarts, BridgeStops, Record, Flush, vars, pageVars
<1>7. Link => rawEvents' \in {rawEvents, <<>>}
  BY DEF Link, Connect, LateWriteReturns, AppSeesEnd, AppDrops, BridgeSeesEnd, BridgeDisabled,
    BridgeDies, BridgeCloses, AppRestarts, PageDisconnected, pageVars
<1> QED BY <1>1, <1>2, <1>3, <1>4, <1>5, <1>6, <1>7 DEF Next

LEMMA OlderEmit ==
  ASSUME TypeOK, NEW g, OlderBatches(toApp, g), NEW ms \in Seq(AppLine), Emit(ms),
         OlderBatches(ms, g)
  PROVE  OlderBatches(toApp', g)
<1>1. toApp \in Seq(AppLine) /\ Len(toApp) \in Nat /\ Len(ms) \in Nat
  BY LenProperties DEF TypeOK, LinkTypes
<1>2. CASE toApp' = toApp \o ms
  <2>1. \A j \in 1..Len(toApp') :
          \/ j \in 1..Len(toApp) /\ toApp'[j] = toApp[j]
          \/ j - Len(toApp) \in 1..Len(ms) /\ toApp'[j] = ms[j - Len(toApp)]
    BY <1>1, <1>2, ConcatProperties
  <2> QED BY <2>1 DEF OlderBatches
<1> QED BY <1>2 DEF Emit

LEMMA OlderBatchesStep ==
  ASSUME TypeOK, NEW g \in Nat, Newer(g), [Next]_vars
  PROVE  OlderBatches(toApp', g)
<1>0. OlderBatches(toApp, g) /\ clientSession < g /\ toApp \in Seq(AppLine)
  BY DEF Newer, TypeOK, LinkTypes
<1>1. toApp' \in {toApp, <<>>} => OlderBatches(toApp', g)
  BY <1>0 DEF OlderBatches
<1>2. ASSUME NEW m \in AppLine, m.type # "profile_batch" \/ m.gen < g, Emit(<<m>>)
      PROVE  OlderBatches(toApp', g)
  <2>1. <<m>> \in Seq(AppLine) /\ OlderBatches(<<m>>, g)
    BY <1>2, OneLine DEF OlderBatches
  <2> QED BY <1>0, <1>2, <2>1, OlderEmit
<1>3. Batch \in Seq(AppLine) /\ OlderBatches(Batch, g)
  <2>1. Batch_(clientSession, eventQueue) \in AppLine
    BY LineTypes DEF TypeOK, BridgeTypes
  <2>2. Batch = <<>> \/ Batch = <<Batch_(clientSession, eventQueue)>>
    BY DEF Batch, Batch_
  <2> QED BY <1>0, <2>1, <2>2, OneLine, BatchTypes DEF OlderBatches, Batch_
<1>4. CASE User
  <2>1. ASSUME NEW k \in Shortcuts, PressShortcut(k)
        PROVE  OlderBatches(toApp', g)
    <3>1. [type |-> k] \in AppLine /\ [type |-> k].type # "profile_batch"
      BY LineTypes DEF Shortcuts
    <3> QED BY <1>2, <2>1, <3>1 DEF PressShortcut
  <2> QED BY <1>1, <1>4, <2>1 DEF User, PressStart, PressStop, Clear, Load, SelectTarget, ExtensionsChanged
<1>5. CASE AppReceives
  <2>1. toApp # <<>> /\ toApp' = Tail(toApp)
    BY <1>5 DEF AppReceives, ReceiveToggle, ReceiveRestart, ReceiveBatch, ReceiveStarted,
      ReceiveStopped, Receive
  <2>2. \A j \in 1..Len(toApp') : j + 1 \in 1..Len(toApp) /\ toApp'[j] = toApp[j + 1]
    BY <1>0, <2>1, TailAt
  <2> QED BY <1>0, <2>2 DEF OlderBatches
<1>6. ASSUME NEW ok \in BOOLEAN, BridgeStarts(ok)
      PROVE  OlderBatches(toApp', g)
  <2> DEFINE m == Head(toBridge)
             ack == Started_(m.uuid, ok, m.gen)
  <2>1. BridgeReceive("start_profiling") /\ Emit(<<ack>>)
    BY <1>6 DEF BridgeStarts, Started_
  <2>2. m.uuid \in Uuids /\ m.gen \in Generation
    BY <2>1, BridgeReceiveTypes, BridgeLineCases
  <2>3. ack \in AppLine /\ ack.type # "profile_batch"
    BY <2>2, LineTypes DEF Started_
  <2> QED BY <1>2, <2>1, <2>3
<1>7. CASE BridgeStops
  <2>1. Append(Batch, Stopped_) \in Seq(AppLine) /\ Stopped_ \in AppLine
    BY StopReplyKinds, LineTypes
  <2>2. \A j \in 1..Len(Append(Batch, Stopped_)) :
          \/ j \in 1..Len(Batch) /\ Append(Batch, Stopped_)[j] = Batch[j]
          \/ Append(Batch, Stopped_)[j] = Stopped_
    BY <1>3, <2>1, AppendAt
  <2>3. OlderBatches(Append(Batch, Stopped_), g)
    BY <1>3, <2>2 DEF OlderBatches, Stopped_
  <2> QED BY <1>0, <1>7, <2>1, <2>3, OlderEmit DEF BridgeStops, Stopped_
<1>8. CASE Record
  <2> DEFINE e == [gen |-> clientSession, n |-> recorded + 1]
             q == Append(eventQueue, e)
             b == Batch_(clientSession, q)
  <2>1. clientSession \in Generation /\ eventQueue \in Seq(Event) /\ e \in Event
    BY DEF Event, TypeOK, BridgeTypes
  <2>2. q \in Seq(Event)
    BY <2>1, AppendProperties
  <2>3. b \in AppLine /\ b.gen = clientSession
    <3>1. b \in AppLine
      BY <2>1, <2>2, LineTypes
    <3> QED BY <3>1 DEF Batch_
  <2>4. UNCHANGED toApp \/ Emit(<<b>>)
    BY <1>8 DEF Record, Batch_
  <2> QED BY <1>0, <1>1, <1>2, <2>3, <2>4
<1>9. CASE Flush \/ BridgeDisabled
  BY <1>0, <1>3, <1>9, OlderEmit DEF Flush, BridgeDisabled
<1>10. CASE Link
  BY <1>1, <1>9, <1>10 DEF Link, Connect, LateWriteReturns, AppSeesEnd, AppDrops, AppCloses,
    BridgeSeesEnd, BridgeDies, AppRestarts
<1>11. CASE UNCHANGED vars
  BY <1>1, <1>11 DEF vars
<1> QED BY <1>4, <1>5, <1>6, <1>7, <1>8, <1>9, <1>10, <1>11 DEF Next, BridgeReceives

LEMMA NewerStep ==
  ASSUME TypeOK, BatchInv, NEW g \in Nat, g > 0, Newer(g), [Next]_vars,
         \A ok \in BOOLEAN : BridgeStarts(ok) => Head(toBridge).gen < g
  PROVE  OlderEvents(rawEvents', g) /\ OlderBatches(toApp', g) /\ clientSession' < g
<1>0. clientSession < g
  BY DEF Newer
<1>1. CASE clientSession' \in {clientSession, NoGeneration}
  BY <1>0, <1>1, OlderEventsStep, OlderBatchesStep DEF NoGeneration
<1>2. ASSUME NEW ok \in BOOLEAN, BridgeStarts(ok)
      PROVE  clientSession' < g
  BY <1>2 DEF BridgeStarts, NoGeneration
<1>3. CASE \E ok \in BOOLEAN : BridgeStarts(ok)
  BY <1>2, <1>3, OlderEventsStep, OlderBatchesStep
<1> QED BY <1>1, <1>3 DEF Next, User, PressStart, PressStop, Clear, Load, SelectTarget,
  ExtensionsChanged, PressShortcut, AppReceives, ReceiveToggle, ReceiveRestart, ReceiveBatch,
  ReceiveStarted, ReceiveStopped, BridgeReceives, BridgeStops, BridgeIdle, Record, Flush, Link,
  Connect, LateWriteReturns, AppSeesEnd, AppDrops, BridgeSeesEnd, BridgeDisabled, BridgeDies,
  BridgeCloses, AppRestarts, vars, bridgeVars

\* The requests on their way are old ones, not the one just taken, or of a new generation.
LEMMA RequestsStep ==
  ASSUME TypeOK, [Next]_vars,
         NEW k \in 1..Len(toBridge'), StartLine(toBridge'[k])
  PROVE  \/ toBridge'[k].gen = startGeneration + 1
         \/ \E h \in 1..Len(toBridge) :
              /\ toBridge'[k] = toBridge[h]
              /\ \A ok \in BOOLEAN : BridgeStarts(ok) => 1 < h
<1>0. toBridge \in Seq(BridgeLine) /\ Len(toBridge) \in Nat /\ 1 < 2
  BY LenProperties DEF TypeOK, LinkTypes
<1>1. CASE BridgeReceives
  <2>1. toBridge # <<>> /\ toBridge' = Tail(toBridge)
    BY <1>1 DEF BridgeReceives, BridgeStarts, BridgeStops, BridgeReceive
  <2>2. k + 1 \in 1..Len(toBridge) /\ 1 < k + 1 /\ toBridge'[k] = toBridge[k + 1]
    BY <1>0, <2>1, TailAt
  <2> QED BY <2>2
<1>2. CASE UNCHANGED toBridge
  <2>1. \A ok \in BOOLEAN : ~BridgeStarts(ok)
    <3>1. Tail(toBridge) # toBridge \/ toBridge = <<>>
      <4>1. CASE toBridge # <<>>
        <5>1. PICK n \in Nat : n = Len(toBridge)
          BY <1>0
        <5>2. Len(Tail(toBridge)) = n - 1
          BY <1>0, <4>1, <5>1, TailAt
        <5> QED BY <5>1, <5>2
      <4> QED BY <4>1
    <3> QED BY <1>2, <3>1 DEF BridgeStarts, BridgeReceive
  <2> QED BY <1>2, <2>1
<1>3. ASSUME NEW m \in BridgeLine, toBridge' = Append(toBridge, m),
             ~StartLine(m) \/ m.gen = startGeneration + 1
      PROVE  \/ toBridge'[k].gen = startGeneration + 1
             \/ \E h \in 1..Len(toBridge) :
                  /\ toBridge'[k] = toBridge[h]
                  /\ \A ok \in BOOLEAN : BridgeStarts(ok) => 1 < h
  <2>1. \A ok \in BOOLEAN : ~BridgeStarts(ok)
    <3>1. toBridge # <<>> => Len(Tail(toBridge)) = Len(toBridge) - 1
      BY <1>0, TailAt
    <3>2. Len(toBridge') = Len(toBridge) + 1
      BY <1>0, <1>3, AppendAt
    <3>3. toBridge # <<>> => toBridge' # Tail(toBridge)
      <4>1. toBridge # <<>> => Len(Tail(toBridge)) # Len(toBridge')
        BY <1>0, <3>1, <3>2
      <4> QED BY <4>1
    <3> QED BY <3>3 DEF BridgeStarts, BridgeReceive
  <2>2. \/ k \in 1..Len(toBridge) /\ toBridge'[k] = toBridge[k]
        \/ toBridge'[k] = m
    BY <1>0, <1>3, AppendAt
  <2> QED BY <1>3, <2>1, <2>2
<1>4. CASE CanStart /\ Start
  <2> DEFINE m == Start_(targetUuid, startGeneration + 1)
  <2>1. toBridge' = Append(toBridge, m)
    BY <1>4 DEF Start, Send, CanStart, Start_
  <2>2. targetUuid \in Uuids /\ startGeneration + 1 \in Generation
    BY <1>4 DEF TypeOK, PageTypes, CanStart, Generation
  <2>3. m \in BridgeLine
    BY <2>2, LineTypes
  <2>4. m.gen = startGeneration + 1
    BY DEF Start_
  <2> HIDE DEF m
  <2> QED BY <1>3, <2>1, <2>3, <2>4
<1>5. CASE SendStop
  <2>1. Stop_ \in BridgeLine /\ ~StartLine(Stop_)
    BY LineTypes DEF StartLine, Stop_
  <2>2. toBridge' = Append(toBridge, Stop_) \/ UNCHANGED toBridge
    BY <1>5 DEF SendStop, Send, Stop_
  <2> QED BY <1>2, <1>3, <2>1, <2>2
<1>6. CASE Link
  <2>1. PICK d \in Nat : \A i \in 1..Len(toBridge') : i + d \in 1..Len(toBridge) /\ toBridge'[i] = toBridge[i + d]
    BY <1>6, LinesLeft DEF Piece
  <2>2. ASSUME NEW ok \in BOOLEAN, BridgeStarts(ok)
        PROVE  FALSE
    <3>1. UNCHANGED <<appUp, bridgeUp, lateWrite, startGeneration>> /\ bridgeUp
      BY <2>2 DEF BridgeStarts, BridgeReceive, linkVars, pageVars
    <3>2. ~AppRestarts
      BY <3>1 DEF AppRestarts, TypeOK, PageTypes, Generation
    <3> QED BY <1>6, <3>1, <3>2 DEF Link, Connect, LateWriteReturns, AppSeesEnd, AppDrops, AppCloses,
      BridgeSeesEnd, BridgeDisabled, BridgeDies, BridgeCloses
  <2> QED BY <2>1, <2>2
<1>7. User \/ AppReceives \/ Record \/ Flush \/ UNCHANGED vars
        => (CanStart /\ Start) \/ SendStop \/ UNCHANGED toBridge
  BY DEF User, PressStart, PressStop, Clear, Load, SelectTarget, ExtensionsChanged, PressShortcut,
    AppReceives, ReceiveToggle, ReceiveRestart, ReceiveBatch, ReceiveStarted, ReceiveStopped,
    Record, Flush, StopIf, vars
<1> QED BY <1>1, <1>2, <1>4, <1>5, <1>6, <1>7 DEF Next

LEMMA FreshStep ==
  ASSUME TypeOK, BatchInv, KnownInv, FreshInv, [Next]_vars
  PROVE  FreshInv'
<1>0. /\ startGeneration \in Nat /\ startGeneration' \in Nat /\ startGeneration <= startGeneration'
      /\ toBridge \in Seq(BridgeLine) /\ clientSession' \in Nat
  <2>1. startGeneration \in Nat /\ toBridge \in Seq(BridgeLine)
    BY DEF TypeOK, PageTypes, LinkTypes, Generation
  <2>2. startGeneration' \in Nat /\ clientSession' \in Nat
    BY TypesStep DEF TypeOK, PageTypes, BridgeTypes, Generation
  <2>3. startGeneration' \in {startGeneration, startGeneration + 1}
    BY DEF Next, User, PressStart, PressStop, Clear, Load, SelectTarget,
      ExtensionsChanged, PressShortcut, AppReceives, ReceiveToggle, ReceiveRestart, ReceiveBatch,
      ReceiveStarted, ReceiveStopped, Start, BridgeReceives, BridgeStarts, BridgeStops, Record, Flush,
      Link, Connect, LateWriteReturns, AppSeesEnd, AppDrops, BridgeSeesEnd, BridgeDisabled, BridgeDies,
      BridgeCloses, AppRestarts, PageDisconnected, vars, pageVars
  <2> QED BY <2>1, <2>2, <2>3
<1>1. ASSUME NEW ok \in BOOLEAN, BridgeStarts(ok)
      PROVE  /\ Head(toBridge) = toBridge[1] /\ StartLine(toBridge[1]) /\ 1 \in 1..Len(toBridge)
             /\ toBridge[1].gen \in 1..startGeneration
  <2>1. BridgeReceive("start_profiling")
    BY <1>1 DEF BridgeStarts
  <2>2. Head(toBridge) = toBridge[1] /\ StartLine(toBridge[1]) /\ 1 \in 1..Len(toBridge)
    BY <1>0, <2>1, BridgeReceiveTypes, TailAt DEF StartLine
  <2> QED BY <2>2 DEF KnownInv, Within
<1>2. /\ OlderEvents(rawEvents', startGeneration + 1) /\ OlderBatches(toApp', startGeneration + 1)
      /\ clientSession' < startGeneration + 1
  <2>1. \A ok \in BOOLEAN : BridgeStarts(ok) => Head(toBridge).gen < startGeneration + 1
    BY <1>0, <1>1
  <2>2. Newer(startGeneration + 1) /\ startGeneration + 1 \in Nat /\ startGeneration + 1 > 0
    BY <1>0 DEF FreshInv
  <2> QED BY <2>1, <2>2, NewerStep
<1>3. Newer(startGeneration + 1)'
  <2>1. \A i \in 1..Len(rawEvents') : rawEvents'[i].gen \in Nat
    <3>1. rawEvents' \in Seq(Event)
      BY TypesStep DEF TypeOK, PageTypes
    <3>2. \A i \in 1..Len(rawEvents') : rawEvents'[i] \in Event
      BY <3>1, ElementOfSeq
    <3> QED BY <3>2 DEF Event, Generation
  <2>2. \A i \in 1..Len(toApp') : toApp'[i].type = "profile_batch" => toApp'[i].gen \in Nat
    <3>1. toApp' \in Seq(AppLine)
      BY TypesStep DEF TypeOK, LinkTypes
    <3>2. \A i \in 1..Len(toApp') : toApp'[i] \in AppLine
      BY <3>1, ElementOfSeq
    <3> QED BY <3>2, AppLineCases DEF Generation
  <2>3. ASSUME NEW x \in Nat, x < startGeneration + 1
        PROVE  x < startGeneration' + 1
    <3>1. PICK n \in Nat : n = startGeneration'
      BY <1>0
    <3>2. startGeneration <= n /\ startGeneration \in Nat
      BY <1>0, <3>1
    <3>3. x < n + 1
      BY <2>3, <3>2
    <3> QED BY <3>1, <3>3
  <2>4. OlderEvents(rawEvents', startGeneration' + 1)
    BY <1>2, <2>1, <2>3 DEF OlderEvents
  <2>5. OlderBatches(toApp', startGeneration' + 1)
    BY <1>2, <2>2, <2>3 DEF OlderBatches
  <2>6. clientSession' < startGeneration' + 1
    BY <1>0, <1>2, <2>3
  <2> QED BY <2>4, <2>5, <2>6 DEF Newer
<1>4. ASSUME NEW k \in 1..Len(toBridge'), StartLine(toBridge'[k])
      PROVE  /\ OlderEvents(rawEvents', toBridge'[k].gen) /\ OlderBatches(toApp', toBridge'[k].gen)
             /\ clientSession' < toBridge'[k].gen
  <2>1. CASE toBridge'[k].gen = startGeneration + 1
    BY <1>2, <2>1
  <2>2. ASSUME NEW h \in 1..Len(toBridge), toBridge'[k] = toBridge[h],
               \A ok \in BOOLEAN : BridgeStarts(ok) => 1 < h
        PROVE  /\ OlderEvents(rawEvents', toBridge'[k].gen) /\ OlderBatches(toApp', toBridge'[k].gen)
               /\ clientSession' < toBridge'[k].gen
    <3>1. StartLine(toBridge[h]) /\ Newer(toBridge[h].gen) /\ toBridge[h].gen \in 1..startGeneration
      BY <1>4, <2>2 DEF FreshInv, KnownInv, Within
    <3>2. \A ok \in BOOLEAN : BridgeStarts(ok) => Head(toBridge).gen < toBridge[h].gen
      BY <1>1, <2>2, <3>1 DEF KnownInv, Rising
    <3>3. toBridge[h].gen \in Nat /\ toBridge[h].gen > 0
      BY <1>0, <3>1
    <3> QED BY <2>2, <3>1, <3>2, <3>3, NewerStep
  <2> QED BY <1>4, <2>1, <2>2, RequestsStep
<1> QED BY <1>3, <1>4 DEF FreshInv, Newer, StartLine, OlderEvents, OlderBatches

LossInv ==
  running /\ clientSession = acceptedEventGeneration /\ appUp /\ bridgeUp =>
    Chained(rawEvents, toApp, eventQueue, recorded, clientSession)

ChainedNow == Chained(rawEvents, toApp, eventQueue, recorded, clientSession)

LEMMA ChainedEmit ==
  ASSUME TypeOK, ChainedNow, appUp, bridgeUp, NEW m \in AppLine, Emit(<<m>>),
         \/ Accepted(m, clientSession) /\ m.events = eventQueue /\ eventQueue' = <<>>
         \/ ~Accepted(m, clientSession) /\ eventQueue' = eventQueue
  PROVE  Chained(rawEvents, toApp', eventQueue', recorded, clientSession)
<1>1. toApp \in Seq(AppLine) /\ eventQueue \in Seq(Event) /\ recorded \in Nat
  BY DEF TypeOK, LinkTypes, BridgeTypes
<1>2. toApp' = Append(toApp, m)
  BY <1>1, AppendIsConcat DEF Emit
<1>3. Len(eventQueue) \in Nat /\ Len(eventQueue') \in Nat
  BY <1>1, LenProperties, EmptySeq
<1> QED BY <1>1, <1>2, <1>3, ChainedSend DEF ChainedNow

LEMMA ChainedAppReceives ==
  ASSUME TypeOK, BatchInv, KnownInv, ChainedNow, AppReceives,
         clientSession = acceptedEventGeneration, ReceiveBatch \/ UNCHANGED rawEvents
  PROVE  Chained(rawEvents', toApp', eventQueue', recorded', clientSession')
<1> DEFINE m == toApp[1]
<1>0. toApp \in Seq(AppLine) /\ rawEvents \in Seq(Event) /\ recorded \in Nat
  BY DEF TypeOK, LinkTypes, PageTypes, BridgeTypes
<1>1. toApp # <<>> /\ toApp' = Tail(toApp) /\ UNCHANGED bridgeVars
  BY DEF AppReceives, ReceiveToggle, ReceiveRestart, ReceiveBatch, ReceiveStarted,
    ReceiveStopped, Receive
<1>2. 1 \in 1..Len(toApp) /\ Head(toApp) = m
  BY <1>0, <1>1, TailAt
<1>3. Accepted(m, clientSession) => OfOne(m.events, clientSession)
  BY <1>2 DEF BatchInv, UniformBatches, Accepted
<1>4. CASE rawEvents' = IF Accepted(m, clientSession) THEN LastEvents(rawEvents \o m.events) ELSE rawEvents
  BY <1>0, <1>1, <1>3, <1>4, ChainedRead DEF ChainedNow, bridgeVars
<1>5. CASE ReceiveBatch
  <2>1. m.type = "profile_batch"
    BY <1>2, <1>5 DEF ReceiveBatch, Receive
  <2>2. Accepted(m, clientSession) <=> Accepts(m)
    BY <2>1 DEF Accepted, Accepts
  <2> QED BY <1>2, <1>4, <1>5, <2>2 DEF ReceiveBatch
<1>6. CASE ReceiveToggle \/ ReceiveStarted \/ ReceiveStopped \/ ReceiveRestart
  <2>1. ~Accepted(m, clientSession)
    BY <1>2, <1>6 DEF ReceiveToggle, ReceiveStarted, ReceiveStopped, ReceiveRestart, Receive, Accepted
  <2> QED BY <1>4, <1>5, <2>1
<1> QED BY <1>5, <1>6 DEF AppReceives

LEMMA LossStep ==
  ASSUME TypeOK, GenInv, BatchInv, KnownInv, KnownInv', FreshInv, LossInv, [Next]_vars
  PROVE  LossInv'
<1> SUFFICES ASSUME running', clientSession' = acceptedEventGeneration', appUp', bridgeUp'
             PROVE  Chained(rawEvents', toApp', eventQueue', recorded', clientSession')
  BY DEF LossInv
<1>0. /\ clientSession' # NoGeneration /\ clientSession \in Nat /\ startGeneration \in Nat
      /\ recorded \in Nat /\ eventQueue \in Seq(Event) /\ toApp \in Seq(AppLine)
      /\ rawEvents \in Seq(Event) /\ clientSession <= startGeneration
      /\ (running => clientSession > 0)
  BY DEF KnownInv, NoGeneration, TypeOK, PageTypes, LinkTypes, BridgeTypes, Generation
<1>1. UNCHANGED clientSession => acceptedEventGeneration' # startGeneration + 1
  BY <1>0
<1>2. ASSUME running, clientSession = acceptedEventGeneration, appUp, bridgeUp
      PROVE  ChainedNow
  BY <1>2 DEF LossInv, ChainedNow
<1>3. ASSUME UNCHANGED <<running, clientSession, acceptedEventGeneration, appUp, bridgeUp, toApp,
                         eventQueue, recorded>>,
             rawEvents' \in {rawEvents, <<>>, FileEvents}
      PROVE  Chained(rawEvents', toApp', eventQueue', recorded', clientSession')
  <2>0. running /\ clientSession = acceptedEventGeneration /\ appUp /\ bridgeUp
    BY <1>3
  <2>1. ChainedNow /\ clientSession # 0
    BY <1>0, <1>2, <2>0
  <2>2. CASE rawEvents' = rawEvents
    BY <1>3, <2>1, <2>2 DEF ChainedNow
  <2>3. CASE rawEvents' = <<>>
    BY <1>3, <2>1, <2>3, ChainedReset, EmptySeq DEF ChainedNow
  <2>4. CASE rawEvents' = FileEvents
    <3>1. Len(FileEvents) \in Nat /\ \A i \in 1..Len(FileEvents) : FileEvents[i].gen # clientSession
      BY <2>1 DEF FileEvents, NoGeneration
    <3> QED BY <1>3, <2>1, <2>4, <3>1, ChainedReset DEF ChainedNow
  <2> QED BY <1>3, <2>2, <2>3, <2>4
<1>4. CASE User
  <2>1. CASE PressStart
    BY <1>1, <2>1 DEF PressStart, Start, bridgeVars
  <2>2. CASE Clear
    <3>1. UNCHANGED acceptedEventGeneration
      BY <1>0, <2>2 DEF Clear
    <3> QED BY <1>3, <2>2, <3>1 DEF Clear, linkVars, bridgeVars
  <2>3. CASE PressStop \/ Load \/ (\E u \in Uuids \cup {NoUuid} : SelectTarget(u))
               \/ (\E E \in SUBSET Uuids : ExtensionsChanged(E))
    BY <1>3, <2>3 DEF PressStop, Load, SelectTarget, ExtensionsChanged, linkVars, bridgeVars
  <2>4. ASSUME NEW k \in Shortcuts, PressShortcut(k)
        PROVE  Chained(rawEvents', toApp', eventQueue', recorded', clientSession')
    <3>1. [type |-> k] \in AppLine /\ [type |-> k].type # "profile_batch"
      BY LineTypes DEF Shortcuts
    <3>2. Emit(<<[type |-> k]>>) /\ UNCHANGED <<rawEvents, acceptedEventGeneration, appUp, bridgeUp>>
          /\ UNCHANGED <<eventQueue, recorded, clientSession, running>>
      BY <2>4 DEF PressShortcut, pageVars, linkVars, bridgeVars
    <3>3. ChainedNow
      BY <1>2, <3>2
    <3>4. ~Accepted([type |-> k], clientSession)
      BY <3>1 DEF Accepted
    <3> QED BY <3>1, <3>2, <3>3, <3>4, ChainedEmit
  <2> QED BY <1>4, <2>1, <2>2, <2>3, <2>4 DEF User
<1>5. CASE AppReceives
  <2>1. UNCHANGED <<appUp, bridgeUp, running, clientSession, eventQueue, recorded>>
    BY <1>5 DEF AppReceives, ReceiveToggle, ReceiveRestart, ReceiveBatch, ReceiveStarted,
      ReceiveStopped, linkVars, bridgeVars
  <2>2. /\ acceptedEventGeneration' \in {acceptedEventGeneration, startGeneration + 1}
        /\ UNCHANGED acceptedEventGeneration => UNCHANGED rawEvents \/ ReceiveBatch
    <3>1. Start => acceptedEventGeneration' = startGeneration + 1
      BY DEF Start
    <3>2. ReceiveRestart => \/ acceptedEventGeneration' = startGeneration + 1
                            \/ UNCHANGED <<acceptedEventGeneration, rawEvents>>
      BY <3>1 DEF ReceiveRestart
    <3>3. ReceiveToggle => \/ acceptedEventGeneration' = startGeneration + 1
                           \/ UNCHANGED <<acceptedEventGeneration, rawEvents>>
      BY <3>1 DEF ReceiveToggle
    <3>4. ReceiveBatch \/ ReceiveStarted \/ ReceiveStopped => UNCHANGED acceptedEventGeneration
      BY DEF ReceiveBatch, ReceiveStarted, ReceiveStopped
    <3>5. ReceiveStarted \/ ReceiveStopped => UNCHANGED rawEvents
      BY DEF ReceiveStarted, ReceiveStopped
    <3>6. startGeneration + 1 = acceptedEventGeneration' => ~(UNCHANGED clientSession)
      BY <1>1
    <3> QED BY <1>5, <2>1, <3>2, <3>3, <3>4, <3>5, <3>6 DEF AppReceives
  <2>3. UNCHANGED acceptedEventGeneration
    BY <1>1, <2>1, <2>2
  <2>4. ChainedNow /\ clientSession = acceptedEventGeneration
    BY <1>2, <2>1, <2>3
  <2> QED BY <1>5, <2>2, <2>3, <2>4, ChainedAppReceives
<1>6. ASSUME NEW ok \in BOOLEAN, BridgeStarts(ok)
      PROVE  Chained(rawEvents', toApp', eventQueue', recorded', clientSession')
  <2> DEFINE m == Head(toBridge)
             ack == Started_(m.uuid, ok, m.gen)
  <2>1. BridgeReceive("start_profiling") /\ Emit(<<ack>>)
        /\ UNCHANGED <<rawEvents, appUp, bridgeUp>>
    BY <1>6 DEF BridgeStarts, Started_, pageVars, linkVars
  <2>2. m.uuid \in Uuids /\ m.gen \in Generation /\ m = toBridge[1] /\ toBridge # <<>>
        /\ m.type = "start_profiling"
    BY <2>1, BridgeReceiveTypes, BridgeLineCases
  <2>3. ack \in AppLine /\ ack.type # "profile_batch"
    BY <2>2, LineTypes DEF Started_
  <2>4. ok /\ clientSession' = m.gen /\ eventQueue' = <<>> /\ recorded' = 0
    BY <1>6 DEF BridgeStarts
  <2>5. Newer(m.gen)
    <3>1. 1 \in 1..Len(toBridge)
      BY <2>2, TailAt DEF TypeOK, LinkTypes
    <3> QED BY <2>1, <2>2, <3>1 DEF FreshInv, StartLine
  <2>6. /\ \A i \in 1..Len(rawEvents) : rawEvents[i].gen # m.gen
        /\ \A i \in 1..Len(toApp) : ~Accepted(toApp[i], m.gen)
    BY <2>2, <2>5 DEF Newer, OlderEvents, OlderBatches, Accepted, Generation
  <2>7. Chained(rawEvents, toApp, <<>>, 0, m.gen)
    BY <1>0, <2>6, ChainedNew, LenProperties
  <2>8. toApp' = Append(toApp, ack)
    BY <1>0, <2>1, <2>3, AppendIsConcat DEF Emit
  <2> HIDE DEF ack, m
  <2>9. Chained(rawEvents, toApp', <<>>, 0, m.gen)
    <3>1. ~Accepted(ack, m.gen) /\ Len(<<>>) \in Nat
      BY <2>3, EmptySeq DEF Accepted
    <3> QED BY <1>0, <2>3, <2>7, <2>8, <3>1, ChainedSend
  <2> QED BY <2>1, <2>4, <2>9
<1>7. CASE BridgeStops
  BY <1>7 DEF BridgeStops, BridgeIdle
<1>8. CASE Record
  <2> DEFINE e == [gen |-> clientSession, n |-> recorded + 1]
             q == Append(eventQueue, e)
             b == Batch_(clientSession, q)
  <2>1. UNCHANGED <<rawEvents, acceptedEventGeneration, appUp, bridgeUp, running, clientSession>>
        /\ recorded' = recorded + 1
    BY <1>8 DEF Record, pageVars, linkVars
  <2>2. ChainedNow
    BY <1>2, <2>1
  <2>3. e \in Event /\ e.n = recorded + 1
    BY <1>0 DEF Event, Generation
  <2>4. Chained(rawEvents, toApp, q, recorded + 1, clientSession)
    BY <1>0, <2>2, <2>3, ChainedRecord DEF ChainedNow
  <2>5. q \in Seq(Event) /\ q # <<>>
    BY <1>0, <2>3, AppendProperties
  <2>6. \/ eventQueue' = q /\ UNCHANGED toApp
        \/ eventQueue' = <<>> /\ Emit(<<b>>)
    BY <1>8 DEF Record, Batch_
  <2>7. b \in AppLine /\ Accepted(b, clientSession) /\ b.events = q
    <3>1. b \in AppLine
      BY <1>0, <2>5, LineTypes DEF Generation
    <3> QED BY <3>1 DEF Batch_, Accepted
  <2> HIDE DEF q, b
  <2>8. CASE eventQueue' = <<>> /\ Emit(<<b>>)
    <3>1. toApp' = Append(toApp, b)
      BY <1>0, <2>1, <2>7, <2>8, AppendIsConcat DEF Emit
    <3>2. Len(q) \in Nat /\ Len(<<>>) \in Nat /\ recorded + 1 \in Nat
      BY <1>0, <2>5, LenProperties, EmptySeq
    <3> QED BY <1>0, <2>1, <2>4, <2>7, <2>8, <3>1, <3>2, ChainedSend
  <2> QED BY <2>1, <2>4, <2>6, <2>8
<1>9. CASE Flush
  <2> DEFINE b == Batch_(clientSession, eventQueue)
  <2>1. UNCHANGED <<rawEvents, acceptedEventGeneration, appUp, bridgeUp, running, clientSession, recorded>>
        /\ eventQueue' = <<>> /\ Emit(<<b>>)
    BY <1>9 DEF Flush, Batch, Batch_, pageVars, linkVars
  <2>2. b \in AppLine /\ Accepted(b, clientSession) /\ b.events = eventQueue
    <3>1. b \in AppLine
      BY <1>0, LineTypes DEF Generation
    <3> QED BY <3>1 DEF Batch_, Accepted
  <2> HIDE DEF b
  <2> QED BY <1>2, <2>1, <2>2, ChainedEmit
<1>10. CASE Link
  <2>1. CASE Connect
    <3>1. acceptedEventGeneration' = NoGeneration
      BY <2>1 DEF Connect, PageDisconnected, GenInv, pageVars
    <3> QED BY <1>0, <3>1
  <2>2. CASE LateWriteReturns
    BY <1>3, <2>2 DEF LateWriteReturns, pageVars, bridgeVars
  <2> QED BY <1>10, <2>1, <2>2 DEF Link, AppSeesEnd, AppDrops, AppRestarts, AppCloses, BridgeSeesEnd,
    BridgeDisabled, BridgeDies, BridgeCloses
<1>11. CASE UNCHANGED vars
  BY <1>3, <1>11 DEF vars, pageVars, linkVars, bridgeVars
<1> QED BY <1>4, <1>5, <1>6, <1>7, <1>8, <1>9, <1>10, <1>11 DEF Next, BridgeReceives

LEMMA ChainedShows ==
  ASSUME TypeOK, ChainedNow, clientSession = acceptedEventGeneration
  PROVE  NothingLost
<1> DEFINE g == acceptedEventGeneration
<1>1. /\ DOMAIN rawEvents = 1..Len(rawEvents) /\ DOMAIN toApp = 1..Len(toApp)
      /\ DOMAIN eventQueue = 1..Len(eventQueue)
      /\ \A i \in 1..Len(toApp) : toApp[i].type = "profile_batch" =>
           DOMAIN toApp[i].events = 1..Len(toApp[i].events)
  <2>1. /\ rawEvents \in Seq(Event) /\ toApp \in Seq(AppLine) /\ eventQueue \in Seq(Event)
        /\ \A i \in 1..Len(toApp) : toApp[i].type = "profile_batch" => toApp[i].events \in Seq(Event)
    <3>1. \A i \in 1..Len(toApp) : toApp[i] \in AppLine
      BY ElementOfSeq DEF TypeOK, LinkTypes
    <3> QED BY <3>1, AppLineCases DEF TypeOK, PageTypes, LinkTypes, BridgeTypes
  <2> QED BY <2>1, LenProperties
<1>2. PICK before : ChainedBy(rawEvents, toApp, eventQueue, recorded, g, before)
  BY DEF ChainedNow, Chained
<1>3. before \in [1..(Len(toApp) + 1) -> 0..recorded]
  BY <1>2 DEF ChainedBy
<1>4. \E older \in 0..Len(rawEvents) : \A i \in DOMAIN rawEvents :
        IF i <= older THEN rawEvents[i].gen # acceptedEventGeneration
        ELSE /\ rawEvents[i].gen = acceptedEventGeneration
             /\ rawEvents[i].n = before[1] - Len(rawEvents) + i
  BY <1>1, <1>2 DEF ChainedBy, ShownTo
<1>5. \A i \in DOMAIN toApp :
        IF toApp[i].type = "profile_batch" /\ Accepts(toApp[i])
        THEN /\ Consecutive(toApp[i].events, before[i])
             /\ before[i + 1] = before[i] + Len(toApp[i].events)
        ELSE before[i + 1] = before[i]
  <2>1. SUFFICES ASSUME NEW i \in 1..Len(toApp)
                 PROVE  IF toApp[i].type = "profile_batch" /\ Accepts(toApp[i])
                        THEN /\ Consecutive(toApp[i].events, before[i])
                             /\ before[i + 1] = before[i] + Len(toApp[i].events)
                        ELSE before[i + 1] = before[i]
    BY <1>1
  <2>2. Accepted(toApp[i], g) <=> toApp[i].type = "profile_batch" /\ Accepts(toApp[i])
    BY DEF Accepted, Accepts
  <2>3. /\ Accepted(toApp[i], g) => /\ Runs(toApp[i].events, before[i])
                                    /\ before[i + 1] = before[i] + Len(toApp[i].events)
        /\ ~Accepted(toApp[i], g) => before[i + 1] = before[i]
    BY <1>2 DEF ChainedBy, Linked
  <2>4. Accepted(toApp[i], g) /\ Runs(toApp[i].events, before[i]) => Consecutive(toApp[i].events, before[i])
    BY <1>1 DEF Accepted, Runs, Consecutive
  <2> QED BY <2>2, <2>3, <2>4
<1>6. Consecutive(eventQueue, before[Len(toApp) + 1]) /\ recorded = before[Len(toApp) + 1] + Len(eventQueue)
  BY <1>1, <1>2 DEF ChainedBy, Runs, Consecutive
<1> QED BY <1>3, <1>4, <1>5, <1>6 DEF NothingLost

KeptInv == GenInv /\ BatchInv /\ KnownInv /\ FreshInv /\ LossInv

\* Of the recording the page accepts no event is lost, doubled or put out of order on its way
\* from the bridge's queue over the connection into the page's window, through full and timed
\* batches, restarts, refusals, Clear, Load and connections that break (_recordEvent,
\* _flushEventQueue, _on_profile_batch).
THEOREM AlwaysNothingLost == Spec => []NothingLost
<1>1. Init => KeptInv
  BY EmptySeq DEF Init, KeptInv, GenInv, BatchInv, KnownInv, FreshInv, LossInv, Newer,
    OlderEvents, OlderBatches, OfOne, UniformBatches, Rising, Within, NoGeneration
<1>2. TypeOK /\ KeptInv /\ [Next]_vars => KeptInv'
  <2>1. SUFFICES ASSUME TypeOK, KeptInv, [Next]_vars PROVE KeptInv'
    OBVIOUS
  <2>2. GenInv' /\ BatchInv' /\ KnownInv'
    BY <2>1, GenStep, BatchStep, KnownStep DEF KeptInv
  <2>3. FreshInv'
    BY <2>1, FreshStep DEF KeptInv
  <2>4. LossInv'
    BY <2>1, <2>2, LossStep DEF KeptInv
  <2> QED BY <2>2, <2>3, <2>4 DEF KeptInv
<1>3. TypeOK /\ KeptInv => NothingLost
  BY ChainedShows DEF KeptInv, LossInv, ChainedNow, NothingLost
<1> QED BY <1>1, <1>2, <1>3, SessionIsTyped, PTL DEF Spec

=============================================================================
