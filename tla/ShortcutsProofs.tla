--------------------------- MODULE ShortcutsProofs ---------------------------
(***************************************************************************)
(* Theorems about the shortcuts of module Shortcuts, for any catalog, any  *)
(* keys, any edits, and any number of lost connections, restarts and       *)
(* writes that fail.                                                       *)
(***************************************************************************)
EXTENDS Shortcuts, FiniteSetTheorems, SequenceTheorems, TLAPS

\* The accelerators chosen for two shortcuts that are live together have no key in common.
Apart(over) ==
  \A a, b \in Local :
    a # b /\ (Kind[a] = "app" \/ Kind[b] = "app" \/ Scope[a] = Scope[b]) =>
      over[a] \cap over[b] = {}

\* What was chosen is apart, and so is what the next start of the app will read.
ApartInv == Apart(overrides) /\ Apart(file)

\* The last report under way is of the settings as they are.  With nothing under way they are in
\* the cache, unless the last lines were lost with a late write.
AgreeInv ==
  /\ ~connected => toBridge = <<>> /\ toApp = <<>> /\ ~available
  /\ connected /\ toBridge = <<>> /\ toApp = <<>> /\ ~lost =>
       IF schema THEN available /\ cache = settings ELSE ~available
  /\ toApp # <<>> => toApp[Len(toApp)] = ReadKeybindings(settings)
  /\ \A i \in 1..Len(toApp) : (toApp[i] = <<>>) = ~schema
  /\ available => schema
  /\ ~unsaved => file = overrides

ShortcutsInv == TypeOK /\ RowsShowAccels /\ ApartInv /\ AgreeInv

-----------------------------------------------------------------------------
(* The catalog and its sequences *)

\* Every action is local or global, and the functions of the catalog are over all actions.
LEMMA Catalog ==
  /\ Actions = Local \cup Global /\ Local \cap Global = {}
  /\ \A a \in Actions : Default[a] \in SUBSET Accels /\ Default[a] # {}
  /\ NoAction \notin Actions
BY ShortcutsAssumption DEF Local, Global

\* SetToSeq lists the global shortcuts, and there is one.
LEMMA GlobalOrder ==
  /\ SetToSeq(Global) \in Seq(Global)
  /\ SetToSeq(Global) # <<>>
<1>1. IsFiniteSet(Global)
  BY ShortcutsAssumption, FS_Subset DEF Global
<1>2. Cardinality(Global) \in Nat /\ ExistsBijection(1..Cardinality(Global), Global)
  BY <1>1, FS_CardinalityType
<1>3. Cardinality(Global) # 0
  BY <1>1, FS_EmptySet, ShortcutsAssumption
<1>4. \E f \in [1..Cardinality(Global) -> Global] : IsInjective(f)
  BY <1>2 DEF ExistsBijection, Bijection, Injection
<1>5. SetToSeq(Global) \in [1..Cardinality(Global) -> Global]
  BY <1>4 DEF SetToSeq
<1>6. SetToSeq(Global) \in Seq(Global) /\ Len(SetToSeq(Global)) = Cardinality(Global)
  BY <1>2, <1>5, IsASeq, LenProperties
<1> QED BY <1>2, <1>3, <1>6, EmptySeq

\* Settings are not the empty report: there is a global shortcut.
LEMMA NotEmptyReport == ASSUME NEW s \in [Global -> SUBSET Accels] PROVE s # <<>>
<1>1. DOMAIN s = Global /\ Global # {}
  BY ShortcutsAssumption
<1>2. DOMAIN <<>> = {}
  OBVIOUS
<1> QED BY <1>1, <1>2

\* What an action's accelerators are is among the keys.
LEMMA AccelsTyped ==
  ASSUME NEW over \in Overrides, NEW glob \in [Global -> SUBSET Accels], NEW a \in Actions
  PROVE  AccelsOf(a, over, glob) \in SUBSET Accels
BY Catalog DEF AccelsOf, Overrides

-----------------------------------------------------------------------------
(* Types *)

LEMMA EmitTypes ==
  ASSUME TypeOK, EmitChanged, overrides' \in Overrides, cache' \in [Global -> SUBSET Accels]
  PROVE  /\ live' \in [Local -> SUBSET Accels] /\ label' \in [Actions -> SUBSET Accels]
         /\ DOMAIN sensitive' = Actions
<1>1. \A a \in Actions : AccelsOf(a, overrides', cache') \in SUBSET Accels
  BY AccelsTyped
<1>2. \A a \in Local : a \in Actions
  BY DEF Local
<1>3. \A a \in Actions : label[a] \in SUBSET Accels
  BY DEF TypeOK, DialogTypes
<1> QED BY <1>1, <1>2, <1>3 DEF EmitChanged

LEMMA RequestTyped ==
  ASSUME NEW a \in Global, NEW accels \in SUBSET Accels
  PROVE  SetMessage(a, accels) \in Request
BY DEF SetMessage, Request

LEMMA SendTypes ==
  ASSUME TypeOK, NEW messages \in Seq(Request), Send(messages)
  PROVE  toBridge' \in Seq(Request)
BY ConcatProperties DEF Send, TypeOK, LinkTypes

LEMMA SendFlags ==
  ASSUME FlagTypes, NEW messages, Send(messages)
  PROVE  lost' \in BOOLEAN
BY DEF Send

LEMMA SetTypes ==
  ASSUME TypeOK, NEW a \in Actions, NEW accels \in SUBSET Accels, SetAccels(a, accels)
  PROVE  ManagerTypes' /\ label' \in [Actions -> SUBSET Accels] /\ DOMAIN sensitive' = Actions
         /\ toBridge' \in Seq(Request)
<1>1. CASE a \in Global
  <2>1. SetMessage(a, accels) \in Request
    BY <1>1, RequestTyped
  <2>2. <<SetMessage(a, accels)>> \in Seq(Request)
    BY <2>1
  <2>3. toBridge' \in Seq(Request)
    BY <1>1, <2>2, SendTypes DEF SetAccels
  <2>4. cache' \in [Global -> SUBSET Accels] /\ overrides' = overrides /\ file' = file
    BY <1>1 DEF SetAccels, TypeOK, ManagerTypes
  <2>5. overrides' \in Overrides /\ file' \in Overrides
    BY <2>4 DEF TypeOK, ManagerTypes
  <2> QED BY <2>3, <2>4, <2>5, EmitTypes DEF SetAccels, ManagerTypes
<1>2. CASE a \notin Global
  <2>1. a \in Local
    BY <1>2, Catalog
  <2>2. overrides' = [overrides EXCEPT ![a] = IF accels = Default[a] THEN {} ELSE accels]
        /\ cache' = cache /\ toBridge' = toBridge /\ Persist
    BY <1>2 DEF SetAccels
  <2>3. overrides' \in Overrides
    BY <2>1, <2>2, Catalog DEF TypeOK, ManagerTypes, Overrides
  <2>4. file' \in Overrides
    BY <2>2, <2>3 DEF Persist, TypeOK, ManagerTypes
  <2>5. cache' \in [Global -> SUBSET Accels] /\ toBridge' \in Seq(Request)
    BY <2>2 DEF TypeOK, ManagerTypes, LinkTypes
  <2> QED BY <2>3, <2>4, <2>5, EmitTypes DEF SetAccels, ManagerTypes
<1> QED BY <1>1, <1>2

\* The requests a reset of all shortcuts makes.
ResetMessages ==
  [i \in DOMAIN SetToSeq(Global) |-> SetMessage(SetToSeq(Global)[i], Default[SetToSeq(Global)[i]])]

LEMMA ResetMessagesTyped == ResetMessages \in Seq(Request) /\ ResetMessages # <<>>
<1> DEFINE order == SetToSeq(Global)
<1>1. order \in Seq(Global) /\ Len(order) \in Nat /\ Len(order) # 0
  BY GlobalOrder, LenProperties, EmptySeq
<1>2. DOMAIN order = 1..Len(order)
  BY <1>1, LenProperties
<1>3. \A i \in 1..Len(order) : order[i] \in Global
  BY <1>1, ElementOfSeq
<1>4. \A i \in 1..Len(order) : SetMessage(order[i], Default[order[i]]) \in Request
  BY <1>3, RequestTyped, Catalog
<1>5. ResetMessages = [i \in 1..Len(order) |-> SetMessage(order[i], Default[order[i]])]
  BY <1>2 DEF ResetMessages
<1> HIDE DEF order
<1>6. ResetMessages \in Seq(Request) /\ Len(ResetMessages) = Len(order)
  BY <1>1, <1>4, <1>5, IsASeq, LenProperties
<1> QED BY <1>1, <1>6, EmptySeq

LEMMA ResetTypes ==
  ASSUME TypeOK, ResetAllAccels
  PROVE  ManagerTypes' /\ label' \in [Actions -> SUBSET Accels] /\ DOMAIN sensitive' = Actions
         /\ toBridge' \in Seq(Request)
<1>1. Send(ResetMessages)
  BY DEF ResetAllAccels, ResetMessages
<1>2. toBridge' \in Seq(Request)
  BY <1>1, ResetMessagesTyped, SendTypes
<1>3. overrides' \in Overrides
  BY Catalog DEF ResetAllAccels, Overrides
<1>4. file' \in Overrides
  BY <1>3 DEF ResetAllAccels, Persist, TypeOK, ManagerTypes
<1>5. cache' \in [Global -> SUBSET Accels]
  BY Catalog DEF ResetAllAccels
<1> QED BY <1>2, <1>3, <1>4, <1>5, EmitTypes DEF ResetAllAccels, ManagerTypes

LEMMA ClickActions ==
  ASSUME NEW a \in Actions, OnCaptureClicked(a) \/ OnResetClicked(a)
  PROVE  dialog /\ UNCHANGED <<dialog, connected, toApp, schema, settings>>
BY DEF OnCaptureClicked, OnResetClicked, managerVars, linkVars, bridgeVars

LEMMA RefreshTypes ==
  ASSUME TypeOK, RefreshRow(capturing)
  PROVE  label' \in [Actions -> SUBSET Accels] /\ DOMAIN sensitive' = Actions
<1>1. capturing \in Actions => GetAccels(capturing) \in SUBSET Accels
  BY AccelsTyped DEF GetAccels, TypeOK, ManagerTypes
<1> QED BY <1>1 DEF RefreshRow, TypeOK, DialogTypes

\* The manager, the editor and the lines between the app and the bridge, but for the flags.
LEMMA DialogStep ==
  ASSUME TypeOK,
         \/ OpenDialog \/ CloseDialog \/ OnEscape \/ OnResetAllClicked
         \/ \E a \in Actions : OnCaptureClicked(a) \/ OnResetClicked(a)
         \/ \E accel \in Accels : OnKeyPressed(accel)
  PROVE  (ManagerTypes /\ DialogTypes /\ LinkTypes)'
<1>0. /\ ManagerTypes /\ DialogTypes /\ LinkTypes
      /\ capturing \in Actions \cup {NoAction}
  BY DEF TypeOK, DialogTypes
<1>1. CASE OpenDialog
  <2>1. \A a \in Actions : GetAccels(a) \in SUBSET Accels
    BY AccelsTyped, <1>0 DEF GetAccels, ManagerTypes
  <2>2. label' \in [Actions -> SUBSET Accels] /\ DOMAIN sensitive' = Actions
    BY <1>1, <2>1 DEF OpenDialog
  <2> QED BY <1>0, <1>1, <2>2
    DEF OpenDialog, managerVars, linkVars, bridgeVars, ManagerTypes, DialogTypes, LinkTypes
<1>2. CASE CloseDialog
  BY <1>0, <1>2 DEF CloseDialog, managerVars, linkVars, bridgeVars, ManagerTypes, DialogTypes, LinkTypes
<1>3. CASE OnEscape
  <2>1. label' \in [Actions -> SUBSET Accels] /\ DOMAIN sensitive' = Actions
    BY <1>3, RefreshTypes DEF OnEscape
  <2> QED BY <1>0, <1>3, <2>1
    DEF OnEscape, managerVars, linkVars, bridgeVars, ManagerTypes, DialogTypes, LinkTypes
<1>4. CASE OnResetAllClicked
  <2>1. ManagerTypes' /\ label' \in [Actions -> SUBSET Accels] /\ DOMAIN sensitive' = Actions
        /\ toBridge' \in Seq(Request)
    BY <1>4, ResetTypes DEF OnResetAllClicked
  <2> QED BY <1>0, <1>4, <2>1 DEF OnResetAllClicked, bridgeVars, DialogTypes, LinkTypes
<1>5. ASSUME NEW a \in Actions, OnCaptureClicked(a)
      PROVE  (ManagerTypes /\ DialogTypes /\ LinkTypes)'
  <2>1. label' \in [Actions -> SUBSET Accels] /\ DOMAIN sensitive' = Actions
    <3>1. CASE capturing = NoAction
      BY <1>0, <1>5, <3>1 DEF OnCaptureClicked, DialogTypes
    <3>2. CASE capturing # NoAction
      BY <1>5, <3>2, RefreshTypes DEF OnCaptureClicked
    <3> QED BY <3>1, <3>2
  <2> QED BY <1>0, <1>5, <2>1
    DEF OnCaptureClicked, managerVars, linkVars, bridgeVars, ManagerTypes, DialogTypes, LinkTypes
<1>6. ASSUME NEW a \in Actions, OnResetClicked(a)
      PROVE  (ManagerTypes /\ DialogTypes /\ LinkTypes)'
  <2>1. Default[a] \in SUBSET Accels
    BY Catalog
  <2>2. ManagerTypes' /\ label' \in [Actions -> SUBSET Accels] /\ DOMAIN sensitive' = Actions
        /\ toBridge' \in Seq(Request)
    BY <1>6, <2>1, SetTypes DEF OnResetClicked
  <2> QED BY <1>0, <1>6, <2>2 DEF OnResetClicked, bridgeVars, DialogTypes, LinkTypes
<1>7. ASSUME NEW accel \in Accels, OnKeyPressed(accel)
      PROVE  (ManagerTypes /\ DialogTypes /\ LinkTypes)'
  <2>1. capturing \in Actions /\ {accel} \in SUBSET Accels /\ SetAccels(capturing, {accel})
    BY <1>0, <1>7 DEF OnKeyPressed
  <2>2. ManagerTypes' /\ label' \in [Actions -> SUBSET Accels] /\ DOMAIN sensitive' = Actions
        /\ toBridge' \in Seq(Request)
    BY <2>1, SetTypes
  <2> QED BY <1>0, <1>7, <2>2 DEF OnKeyPressed, bridgeVars, DialogTypes, LinkTypes
<1> QED BY <1>1, <1>2, <1>3, <1>4, <1>5, <1>6, <1>7

LEMMA ReportTyped ==
  ASSUME NEW values \in [Global -> SUBSET Accels]
  PROVE  ReadKeybindings(values) \in Report
BY DEF ReadKeybindings, Report

LEMMA RestartTypes ==
  ASSUME TypeOK, Restart
  PROVE  (ManagerTypes /\ DialogTypes /\ LinkTypes)'
<1>1. overrides' \in Overrides /\ file' \in Overrides /\ cache' \in [Global -> SUBSET Accels]
  BY DEF Restart, TypeOK, ManagerTypes
<1>2. live' \in [Local -> SUBSET Accels]
  <2>1. \A a \in Local : file[a] \in SUBSET Accels /\ Default[a] \in SUBSET Accels
    BY Catalog DEF TypeOK, ManagerTypes, Overrides
  <2> QED BY <2>1 DEF Restart
<1>3. DialogTypes'
  BY DEF Restart, TypeOK, DialogTypes
<1>4. LinkTypes'
  BY EmptySeq DEF Restart, bridgeVars, TypeOK, LinkTypes
<1> QED BY <1>1, <1>2, <1>3, <1>4 DEF ManagerTypes

\* A connection that goes, or is replaced.
LEMMA DisconnectTypes ==
  ASSUME TypeOK, Disconnect
  PROVE  /\ ManagerTypes' /\ DialogTypes'
         /\ toApp' \in Seq(Report) /\ settings' \in [Global -> SUBSET Accels] /\ lateWrites' \in Nat
<1>0. ManagerTypes /\ DialogTypes /\ LinkTypes
  BY DEF TypeOK
<1>1. overrides' \in Overrides /\ file' \in Overrides /\ cache' \in [Global -> SUBSET Accels]
      /\ capturing' = capturing
  BY <1>0 DEF Disconnect, ManagerTypes
<1>2. live' \in [Local -> SUBSET Accels] /\ label' \in [Actions -> SUBSET Accels]
      /\ DOMAIN sensitive' = Actions
  <2>1. CASE EmitChanged
    BY <2>1, <1>1, EmitTypes
  <2>2. CASE UNCHANGED <<live, label, sensitive>>
    BY <1>0, <2>2 DEF ManagerTypes, DialogTypes
  <2> QED BY <2>1, <2>2 DEF Disconnect
<1>3. toApp' \in Seq(Report) /\ settings' \in [Global -> SUBSET Accels] /\ lateWrites' \in Nat
  BY <1>0, EmptySeq DEF Disconnect, bridgeVars, LinkTypes
<1> QED BY <1>0, <1>1, <1>2, <1>3 DEF ManagerTypes, DialogTypes

\* What is left of the lines to the bridge when the first or the last are gone.
LEMMA PartTyped ==
  ASSUME TypeOK
  PROVE  /\ \A k \in 1..(Len(toBridge) + 1) : SubSeq(toBridge, k, Len(toBridge)) \in Seq(Request)
         /\ \A k \in 0..(Len(toBridge) - 1) : SubSeq(toBridge, 1, k) \in Seq(Request)
<1>1. toBridge \in Seq(Request) /\ Len(toBridge) \in Nat
  BY LenProperties DEF TypeOK, LinkTypes
<1>2. \A i \in 1..Len(toBridge) : toBridge[i] \in Request
  BY <1>1, ElementOfSeq
<1>3. ASSUME NEW k \in 1..(Len(toBridge) + 1)
      PROVE  SubSeq(toBridge, k, Len(toBridge)) \in Seq(Request)
  <2>1. \A i \in k..Len(toBridge) : toBridge[i] \in Request
    BY <1>1, <1>2
  <2> QED BY <1>1, <2>1, SubSeqProperties
<1>4. ASSUME NEW k \in 0..(Len(toBridge) - 1)
      PROVE  SubSeq(toBridge, 1, k) \in Seq(Request)
  <2>1. \A i \in 1..k : toBridge[i] \in Request
    BY <1>1, <1>2
  <2> QED BY <1>1, <2>1, SubSeqProperties
<1> QED BY <1>3, <1>4

\* A connection that replaces another begins with what was kept and asks for the keybindings.
LEMMA ReplacedTypes ==
  ASSUME TypeOK, Replaced
  PROVE  toBridge' \in Seq(Request) /\ toBridge' # <<>>
<1>1. PICK k \in 1..(Len(toBridge) + 1) :
        toBridge' = Append(SubSeq(toBridge, k, Len(toBridge)), [type |-> "get_keybindings"])
  BY DEF Replaced
<1>2. SubSeq(toBridge, k, Len(toBridge)) \in Seq(Request)
  BY PartTyped
<1>3. [type |-> "get_keybindings"] \in Request
  BY DEF Request
<1> QED BY <1>1, <1>2, <1>3, AppendProperties

\* A late write leaves the lines as they are or takes the last.
LEMMA LateWriteTypes ==
  ASSUME TypeOK, LateWriteReturns
  PROVE  toBridge' \in Seq(Request) /\ lateWrites' \in Nat
<1>1. toBridge \in Seq(Request) /\ lateWrites \in Nat
  BY DEF TypeOK, LinkTypes
<1>2. CASE UNCHANGED <<toBridge, lost>>
  BY <1>1, <1>2 DEF LateWriteReturns
<1>3. CASE \E k \in 0..(Len(toBridge) - 1) : toBridge' = SubSeq(toBridge, 1, k)
  BY <1>1, <1>3, PartTyped DEF LateWriteReturns
<1> QED BY <1>2, <1>3 DEF LateWriteReturns

LEMMA LinkStep ==
  ASSUME TypeOK, \/ BridgeAnswers \/ OnKeybindingsMessage \/ OnConnected \/ OnDisconnected
                 \/ Replaced \/ LateWriteReturns \/ Restart
  PROVE  (ManagerTypes /\ DialogTypes /\ LinkTypes)'
<1>0. ManagerTypes /\ DialogTypes /\ LinkTypes
  BY DEF TypeOK
<1>1. CASE BridgeAnswers
  <2>1. Head(toBridge) \in Request /\ Tail(toBridge) \in Seq(Request)
    BY <1>0, <1>1, HeadTailProperties DEF BridgeAnswers, LinkTypes
  <2>2. settings' \in [Global -> SUBSET Accels]
    BY <1>0, <1>1, <2>1 DEF BridgeAnswers, LinkTypes, Request
  <2>3. toApp' \in Seq(Report)
    BY <1>0, <1>1, <2>2, ReportTyped, AppendProperties DEF BridgeAnswers, LinkTypes
  <2> QED BY <1>0, <1>1, <2>1, <2>2, <2>3
    DEF BridgeAnswers, managerVars, dialogVars, ManagerTypes, DialogTypes, LinkTypes
<1>2. CASE OnKeybindingsMessage
  <2>1. Head(toApp) \in Report /\ Tail(toApp) \in Seq(Report)
    BY <1>0, <1>2, HeadTailProperties DEF OnKeybindingsMessage, LinkTypes
  <2>2. cache' \in [Global -> SUBSET Accels] /\ overrides' = overrides /\ file' = file
        /\ capturing' = capturing
    BY <1>0, <1>2, <2>1 DEF OnKeybindingsMessage, ManagerTypes, Report
  <2>3. overrides' \in Overrides /\ file' \in Overrides
    BY <1>0, <2>2 DEF ManagerTypes
  <2>4. live' \in [Local -> SUBSET Accels] /\ label' \in [Actions -> SUBSET Accels]
        /\ DOMAIN sensitive' = Actions
    <3>1. CASE EmitChanged
      BY <3>1, <2>2, <2>3, EmitTypes
    <3>2. CASE UNCHANGED <<live, label, sensitive>>
      BY <1>0, <3>2 DEF ManagerTypes, DialogTypes
    <3> QED BY <1>2, <3>1, <3>2 DEF OnKeybindingsMessage
  <2> QED BY <1>0, <1>2, <2>1, <2>2, <2>3, <2>4
    DEF OnKeybindingsMessage, bridgeVars, ManagerTypes, DialogTypes, LinkTypes
<1>3. CASE OnConnected
  <2>1. [type |-> "get_keybindings"] \in Request
    BY DEF Request
  <2> QED BY <1>0, <1>3, <2>1
    DEF OnConnected, managerVars, dialogVars, bridgeVars, ManagerTypes, DialogTypes, LinkTypes
<1>4. CASE OnDisconnected
  <2>1. Disconnect /\ toBridge' = <<>>
    BY <1>4 DEF OnDisconnected
  <2> QED BY <2>1, DisconnectTypes, EmptySeq DEF LinkTypes
<1>6. CASE Replaced
  <2>1. Disconnect
    BY <1>6 DEF Replaced
  <2> QED BY <1>6, <2>1, DisconnectTypes, ReplacedTypes DEF LinkTypes
<1>7. CASE LateWriteReturns
  BY <1>0, <1>7, LateWriteTypes
    DEF LateWriteReturns, managerVars, dialogVars, bridgeVars, ManagerTypes, DialogTypes, LinkTypes
<1>5. CASE Restart
  BY <1>5, RestartTypes
<1> QED BY <1>1, <1>2, <1>3, <1>4, <1>5, <1>6, <1>7

LEMMA EmitFlags ==
  ASSUME FlagTypes, available' \in BOOLEAN, EmitChanged
  PROVE  \A a \in Actions : sensitive'[a] \in BOOLEAN
<1> SUFFICES ASSUME NEW a \in Actions PROVE sensitive'[a] \in BOOLEAN
  OBVIOUS
<1>1. sensitive'[a] = IF dialog /\ a # capturing' /\ a \in Global THEN available' ELSE sensitive[a]
  BY DEF EmitChanged
<1>2. sensitive[a] \in BOOLEAN
  BY DEF FlagTypes
<1> QED BY <1>1, <1>2

LEMMA PersistFlags == ASSUME FlagTypes, Persist PROVE unsaved' \in BOOLEAN
BY DEF FlagTypes, Persist

LEMMA SetFlags ==
  ASSUME FlagTypes, NEW a, NEW accels, SetAccels(a, accels) \/ ResetAllAccels
  PROVE  /\ \A b \in Actions : sensitive'[b] \in BOOLEAN
         /\ available' \in BOOLEAN /\ unsaved' \in BOOLEAN /\ lost' \in BOOLEAN
<1>1. available' \in BOOLEAN /\ EmitChanged
  BY DEF SetAccels, ResetAllAccels, FlagTypes
<1>2. \A b \in Actions : sensitive'[b] \in BOOLEAN
  BY <1>1, EmitFlags
<1>3. unsaved' \in BOOLEAN
  BY PersistFlags DEF SetAccels, ResetAllAccels, FlagTypes
<1>4. lost' \in BOOLEAN
  BY SendFlags DEF SetAccels, ResetAllAccels, FlagTypes
<1> QED BY <1>1, <1>2, <1>3, <1>4

LEMMA RefreshFlags ==
  ASSUME TypeOK, RefreshRow(capturing)
  PROVE  \A a \in Actions : sensitive'[a] \in BOOLEAN
<1> SUFFICES ASSUME NEW a \in Actions PROVE sensitive'[a] \in BOOLEAN
  OBVIOUS
<1>1. sensitive'[a] = IF a = capturing THEN (capturing \in Global => available) ELSE sensitive[a]
  BY DEF RefreshRow, TypeOK, DialogTypes
<1>2. sensitive[a] \in BOOLEAN
  BY DEF TypeOK, FlagTypes
<1>3. (capturing \in Global => available) \in BOOLEAN
  OBVIOUS
<1> QED BY <1>1, <1>2, <1>3

LEMMA FlagsStep ==
  ASSUME TypeOK, [Next]_vars
  PROVE  FlagTypes'
<1>0. /\ available \in BOOLEAN /\ dialog \in BOOLEAN /\ connected \in BOOLEAN
      /\ schema \in BOOLEAN /\ unsaved \in BOOLEAN /\ lost \in BOOLEAN
      /\ \A a \in Actions : sensitive[a] \in BOOLEAN
      /\ FlagTypes
  BY DEF TypeOK, FlagTypes
<1>1. CASE OpenDialog
  <2>1. \A a \in Actions : sensitive'[a] \in BOOLEAN
    <3> SUFFICES ASSUME NEW a \in Actions PROVE sensitive'[a] \in BOOLEAN
      OBVIOUS
    <3>1. sensitive'[a] = (a \in Global => available)
      BY <1>1 DEF OpenDialog
    <3> QED BY <3>1
  <2>2. dialog' = TRUE /\ UNCHANGED <<available, connected, schema, unsaved, lost>>
    BY <1>1 DEF OpenDialog, managerVars, linkVars, bridgeVars
  <2> QED BY <1>0, <2>1, <2>2 DEF FlagTypes
<1>2. CASE CloseDialog
  <2>1. dialog' = FALSE /\ UNCHANGED <<available, connected, schema, unsaved, lost, sensitive>>
    BY <1>2 DEF CloseDialog, managerVars, linkVars, bridgeVars
  <2> QED BY <1>0, <2>1 DEF FlagTypes
<1>3. CASE OnEscape
  <2>1. UNCHANGED <<available, connected, schema, unsaved, lost, dialog>>
    BY <1>3 DEF OnEscape, managerVars, linkVars, bridgeVars
  <2> QED BY <1>0, <1>3, <2>1, RefreshFlags DEF FlagTypes, OnEscape
<1>4. CASE OnResetAllClicked
  <2>1. UNCHANGED <<connected, schema, dialog>>
    BY <1>4 DEF OnResetAllClicked, bridgeVars
  <2> QED BY <1>0, <1>4, <2>1, SetFlags DEF FlagTypes, OnResetAllClicked
<1>5. ASSUME NEW a \in Actions, OnCaptureClicked(a)
      PROVE  FlagTypes'
  <2>1. UNCHANGED <<available, connected, schema, unsaved, lost, dialog>>
    BY <1>5 DEF OnCaptureClicked, managerVars, linkVars, bridgeVars
  <2>2. \A b \in Actions : sensitive'[b] \in BOOLEAN
    BY <1>0, <1>5, RefreshFlags DEF OnCaptureClicked
  <2> QED BY <1>0, <2>1, <2>2 DEF FlagTypes
<1>6. ASSUME NEW a \in Actions, OnResetClicked(a)
      PROVE  FlagTypes'
  <2>1. UNCHANGED <<connected, schema, dialog>>
    BY <1>6 DEF OnResetClicked, bridgeVars
  <2> QED BY <1>0, <1>6, <2>1, SetFlags DEF FlagTypes, OnResetClicked
<1>7. ASSUME NEW accel \in Accels, OnKeyPressed(accel)
      PROVE  FlagTypes'
  <2>1. UNCHANGED <<connected, schema, dialog>>
    BY <1>7 DEF OnKeyPressed, bridgeVars
  <2> QED BY <1>0, <1>7, <2>1, SetFlags DEF FlagTypes, OnKeyPressed
<1>8. CASE BridgeAnswers \/ UNCHANGED vars
  <2>1. UNCHANGED <<available, connected, schema, unsaved, lost, dialog, sensitive>>
    BY <1>8 DEF BridgeAnswers, vars, managerVars, dialogVars, linkVars, bridgeVars
  <2> QED BY <1>0, <2>1 DEF FlagTypes
<1>9. CASE OnKeybindingsMessage
  <2>1. UNCHANGED <<connected, schema, unsaved, lost, dialog>>
    BY <1>9 DEF OnKeybindingsMessage, bridgeVars
  <2>2. available' = (Head(toApp) # <<>>)
    BY <1>9 DEF OnKeybindingsMessage
  <2>3. available' \in BOOLEAN
    BY <2>2
  <2>4. \A b \in Actions : sensitive'[b] \in BOOLEAN
    BY <1>0, <1>9, <2>3, EmitFlags DEF OnKeybindingsMessage
  <2> QED BY <1>0, <2>1, <2>3, <2>4 DEF FlagTypes
<1>10. CASE OnConnected
  <2>1. connected' = TRUE /\ UNCHANGED <<available, schema, unsaved, lost, dialog, sensitive>>
    BY <1>10 DEF OnConnected, managerVars, dialogVars, bridgeVars
  <2> QED BY <1>0, <2>1 DEF FlagTypes
<1>11. CASE OnDisconnected \/ Replaced
  <2>1. Disconnect /\ connected' \in BOOLEAN
    BY <1>0, <1>11 DEF OnDisconnected, Replaced
  <2>2. available' = FALSE /\ lost' = FALSE /\ UNCHANGED <<schema, unsaved, dialog>>
    BY <2>1 DEF Disconnect, bridgeVars
  <2>3. \A b \in Actions : sensitive'[b] \in BOOLEAN
    BY <1>0, <2>1, <2>2, EmitFlags DEF Disconnect
  <2> QED BY <1>0, <2>1, <2>2, <2>3 DEF FlagTypes
<1>12. CASE Restart
  <2>1. connected' = FALSE /\ available' = FALSE /\ unsaved' = FALSE /\ dialog' = FALSE
        /\ lost' = FALSE /\ UNCHANGED <<schema, sensitive>>
    BY <1>12 DEF Restart, bridgeVars
  <2> QED BY <1>0, <2>1 DEF FlagTypes
<1>13. CASE LateWriteReturns
  <2>1. UNCHANGED <<available, connected, schema, unsaved, dialog, sensitive>>
    BY <1>13 DEF LateWriteReturns, managerVars, dialogVars, bridgeVars
  <2>2. lost' \in BOOLEAN
    <3>1. lost' = lost \/ lost' = (toBridge' = <<>> /\ toApp = <<>>)
      BY <1>13 DEF LateWriteReturns
    <3> QED BY <1>0, <3>1
  <2> QED BY <1>0, <2>1, <2>2 DEF FlagTypes
<1> QED
  BY <1>1, <1>2, <1>3, <1>4, <1>5, <1>6, <1>7, <1>8, <1>9, <1>10, <1>11, <1>12, <1>13 DEF Next

LEMMA TypesInit == Init => TypeOK
<1> SUFFICES ASSUME Init PROVE TypeOK
  OBVIOUS
<1>1. FlagTypes
  BY DEF Init, FlagTypes
<1>2. ManagerTypes
  BY Catalog DEF Init, ManagerTypes, Overrides, Local
<1>3. DialogTypes
  BY ShortcutsAssumption DEF Init, DialogTypes
<1>4. LinkTypes
  <2>1. settings \in [Global -> SUBSET Accels]
    BY Catalog DEF Init
  <2> QED BY <2>1, EmptySeq DEF Init, LinkTypes
<1> QED BY <1>1, <1>2, <1>3, <1>4 DEF TypeOK

LEMMA TypesStep == ASSUME TypeOK, [Next]_vars PROVE TypeOK'
<1>1. FlagTypes'
  BY FlagsStep
<1>2. (ManagerTypes /\ DialogTypes /\ LinkTypes)'
  <2>1. CASE UNCHANGED vars
    BY <2>1 DEF vars, managerVars, dialogVars, linkVars, bridgeVars, TypeOK, ManagerTypes,
      DialogTypes, LinkTypes
  <2> QED BY <2>1, DialogStep, LinkStep DEF Next
<1> QED BY <1>1, <1>2 DEF TypeOK

-----------------------------------------------------------------------------
(* The rows *)

\* Telling the listeners puts the rows right, whatever they showed.
LEMMA EmitRows ==
  ASSUME dialog' = dialog, EmitChanged
  PROVE  RowsShowAccels'
<1>1. live' = [a \in Local |-> GetAccels(a)']
  BY DEF EmitChanged, GetAccels
<1>2. ASSUME dialog', NEW a \in Actions \ {capturing'}
      PROVE  label'[a] = GetAccels(a)' /\ (a \in Global /\ sensitive'[a] => available')
  BY <1>2 DEF EmitChanged, GetAccels
<1> QED BY <1>1, <1>2 DEF RowsShowAccels

\* A capture that is called off puts the row of the key right, the only one that might be wrong.
LEMMA RefreshRows ==
  ASSUME TypeOK, RowsShowAccels, dialog, capturing \in Actions, RefreshRow(capturing),
         UNCHANGED <<managerVars, dialog>>
  PROVE  RowsShowAccels'
<1>1. \A a \in Actions : GetAccels(a)' = GetAccels(a)
  BY DEF GetAccels, managerVars
<1>2. live' = [a \in Local |-> GetAccels(a)']
  BY <1>1 DEF RowsShowAccels, managerVars, Local
<1>3. ASSUME NEW a \in Actions
      PROVE  label'[a] = GetAccels(a)' /\ (a \in Global /\ sensitive'[a] => available')
  <2>1. CASE a = capturing
    BY <1>1, <2>1 DEF RefreshRow, TypeOK, DialogTypes, managerVars
  <2>2. CASE a # capturing
    BY <1>1, <2>2 DEF RefreshRow, TypeOK, DialogTypes, RowsShowAccels, managerVars
  <2> QED BY <2>1, <2>2
<1> QED BY <1>2, <1>3 DEF RowsShowAccels

LEMMA RowsUnchanged ==
  ASSUME RowsShowAccels, UNCHANGED <<overrides, cache, live, label, sensitive, available>>,
         dialog' => dialog /\ (capturing' = capturing \/ capturing = NoAction)
  PROVE  RowsShowAccels'
<1>1. \A a \in Actions : GetAccels(a)' = GetAccels(a)
  BY DEF GetAccels
<1>2. live' = [a \in Local |-> GetAccels(a)']
  BY <1>1 DEF RowsShowAccels, Local
<1>3. ASSUME dialog', NEW a \in Actions \ {capturing'}
      PROVE  label'[a] = GetAccels(a)' /\ (a \in Global /\ sensitive'[a] => available')
  BY <1>1, <1>3, Catalog DEF RowsShowAccels
<1> QED BY <1>2, <1>3 DEF RowsShowAccels

LEMMA RowsStep ==
  ASSUME TypeOK, RowsShowAccels, [Next]_vars
  PROVE  RowsShowAccels'
<1>1. CASE OpenDialog
  <2>1. \A a \in Actions : GetAccels(a)' = GetAccels(a)
    BY <1>1 DEF OpenDialog, GetAccels, managerVars
  <2>2. live' = [a \in Local |-> GetAccels(a)']
    BY <1>1, <2>1 DEF OpenDialog, RowsShowAccels, managerVars, Local
  <2>3. \A a \in Actions : label'[a] = GetAccels(a)' /\ (a \in Global /\ sensitive'[a] => available')
    BY <1>1, <2>1 DEF OpenDialog, managerVars
  <2> QED BY <2>2, <2>3 DEF RowsShowAccels
<1>2. CASE CloseDialog
  BY <1>2, RowsUnchanged DEF CloseDialog, managerVars
<1>3. CASE OnEscape
  BY <1>3, RefreshRows DEF OnEscape, TypeOK, DialogTypes
<1>4. CASE OnResetAllClicked
  BY <1>4, EmitRows DEF OnResetAllClicked, ResetAllAccels
<1>5. ASSUME NEW a \in Actions, OnCaptureClicked(a)
      PROVE  RowsShowAccels'
  <2>1. CASE capturing = NoAction
    BY <1>5, <2>1, RowsUnchanged DEF OnCaptureClicked, managerVars
  <2>2. CASE capturing # NoAction
    BY <1>5, <2>2, RefreshRows DEF OnCaptureClicked, TypeOK, DialogTypes
  <2> QED BY <2>1, <2>2
<1>6. ASSUME NEW a \in Actions, OnResetClicked(a)
      PROVE  RowsShowAccels'
  BY <1>6, EmitRows DEF OnResetClicked, SetAccels
<1>7. ASSUME NEW accel \in Accels, OnKeyPressed(accel)
      PROVE  RowsShowAccels'
  BY <1>7, EmitRows DEF OnKeyPressed, SetAccels
<1>8. CASE BridgeAnswers \/ OnConnected \/ LateWriteReturns \/ UNCHANGED vars
  BY <1>8, RowsUnchanged
    DEF BridgeAnswers, OnConnected, LateWriteReturns, vars, managerVars, dialogVars
<1>9. CASE OnKeybindingsMessage
  <2>1. CASE EmitChanged
    BY <1>9, <2>1, EmitRows DEF OnKeybindingsMessage
  <2>2. CASE UNCHANGED <<live, label, sensitive>> /\ ~EmitChanged
    <3>1. cache' = cache /\ (Head(toApp) # <<>> \/ ~available)
      BY <1>9, <2>2 DEF OnKeybindingsMessage
    <3>2. \A a \in Actions : GetAccels(a)' = GetAccels(a)
      BY <1>9, <3>1 DEF OnKeybindingsMessage, GetAccels
    <3>3. live' = [a \in Local |-> GetAccels(a)']
      BY <2>2, <3>2 DEF RowsShowAccels, Local
    <3>4. available => available'
      BY <1>9, <3>1 DEF OnKeybindingsMessage
    <3>5. ASSUME dialog', NEW a \in Actions \ {capturing'}
          PROVE  label'[a] = GetAccels(a)' /\ (a \in Global /\ sensitive'[a] => available')
      BY <1>9, <2>2, <3>2, <3>4, <3>5 DEF OnKeybindingsMessage, RowsShowAccels
    <3> QED BY <3>3, <3>5 DEF RowsShowAccels
  <2> QED BY <1>9, <2>1, <2>2 DEF OnKeybindingsMessage
<1>10. CASE OnDisconnected \/ Replaced
  <2>0. Disconnect
    BY <1>10 DEF OnDisconnected, Replaced
  <2>1. CASE available
    BY <2>0, <2>1, EmitRows DEF Disconnect
  <2>2. CASE ~available
    <3>1. available' = FALSE /\ available = FALSE
      BY <2>0, <2>2 DEF Disconnect, TypeOK, FlagTypes
    <3> QED BY <2>0, <2>2, <3>1, RowsUnchanged DEF Disconnect
  <2> QED BY <2>1, <2>2
<1>11. CASE Restart
  <2>1. dialog' = FALSE
    BY <1>11 DEF Restart
  <2>2. \A a \in Local : a \notin Global /\ GetAccels(a)' = IF file[a] = {} THEN Default[a] ELSE file[a]
    BY <1>11, Catalog DEF Restart, GetAccels, AccelsOf
  <2>3. live' = [a \in Local |-> GetAccels(a)']
    BY <1>11, <2>2 DEF Restart
  <2> QED BY <2>1, <2>3 DEF RowsShowAccels
<1> QED BY <1>1, <1>2, <1>3, <1>4, <1>5, <1>6, <1>7, <1>8, <1>9, <1>10, <1>11 DEF Next

-----------------------------------------------------------------------------
(* Accelerators the user has chosen *)

\* What find_conflict passed can be chosen.
LEMMA ChosenApart ==
  ASSUME TypeOK, Apart(overrides), NEW a \in Local, NEW accel \in Accels, Conflicts(a, accel) = {}
  PROVE  Apart([overrides EXCEPT ![a] = {accel}])
<1> DEFINE over == [overrides EXCEPT ![a] = {accel}]
<1>0. overrides \in [Local -> SUBSET Accels]
  BY DEF TypeOK, ManagerTypes, Overrides
<1>1. \A b \in Local : over[b] = IF b = a THEN {accel} ELSE overrides[b]
  BY <1>0
<1>2. ASSUME NEW b \in Local, b # a, Kind[a] = "app" \/ Kind[b] = "app" \/ Scope[a] = Scope[b]
      PROVE  accel \notin overrides[b]
  <2>1. Kind[a] = "app" \/ Kind[a] = "tab"
    BY ShortcutsAssumption DEF Local, Global
  <2>2. b \in DomainIds(a)
    BY <1>2, <2>1 DEF DomainIds
  <2>3. accel \notin GetAccels(b)
    BY <1>2, <2>2 DEF Conflicts
  <2>4. b \notin Global
    BY DEF Local
  <2> QED BY <2>3, <2>4 DEF GetAccels, AccelsOf
<1> HIDE DEF over
<1>3. Apart(over)
  <2> SUFFICES ASSUME NEW b \in Local, NEW c \in Local, b # c,
                      Kind[b] = "app" \/ Kind[c] = "app" \/ Scope[b] = Scope[c]
               PROVE  over[b] \cap over[c] = {}
    BY DEF Apart
  <2>1. CASE b = a
    BY <1>1, <1>2, <2>1
  <2>2. CASE c = a
    BY <1>1, <1>2, <2>2
  <2>3. CASE b # a /\ c # a
    BY <1>1, <2>3 DEF Apart
  <2> QED BY <2>1, <2>2, <2>3
<1> QED BY <1>3 DEF over

\* An action may always lose its override.
LEMMA LessApart ==
  ASSUME TypeOK, Apart(overrides), NEW a \in Local
  PROVE  Apart([overrides EXCEPT ![a] = {}])
BY DEF Apart, TypeOK, ManagerTypes, Overrides

LEMMA PersistApart ==
  ASSUME Apart(file), Apart(overrides'), Persist
  PROVE  Apart(file')
BY DEF Persist

LEMMA SetApart ==
  ASSUME TypeOK, ApartInv, NEW a \in Actions, NEW accels, SetAccels(a, accels),
         \/ accels = Default[a]
         \/ \E accel \in Accels : accels = {accel} /\ Conflicts(a, accel) = {}
  PROVE  ApartInv'
<1>1. CASE a \in Global
  BY <1>1 DEF SetAccels, ApartInv
<1>2. CASE a \notin Global
  <2>1. a \in Local
    BY <1>2, Catalog
  <2>2. overrides' = [overrides EXCEPT ![a] = IF accels = Default[a] THEN {} ELSE accels]
        /\ Persist
    BY <1>2 DEF SetAccels
  <2>3. Apart(overrides')
    <3>1. CASE accels = Default[a]
      BY <2>1, <2>2, <3>1, LessApart DEF ApartInv
    <3>2. CASE accels # Default[a]
      BY <2>1, <2>2, <3>2, ChosenApart DEF ApartInv
    <3> QED BY <3>1, <3>2
  <2> QED BY <2>2, <2>3, PersistApart DEF ApartInv
<1> QED BY <1>1, <1>2

LEMMA ApartStep ==
  ASSUME TypeOK, ApartInv, [Next]_vars
  PROVE  ApartInv'
<1>1. CASE OnResetAllClicked
  <2>1. Apart(overrides')
    BY <1>1 DEF OnResetAllClicked, ResetAllAccels, Apart
  <2>2. Persist
    BY <1>1 DEF OnResetAllClicked, ResetAllAccels
  <2> QED BY <2>1, <2>2, PersistApart DEF ApartInv
<1>2. ASSUME NEW a \in Actions, OnResetClicked(a)
      PROVE  ApartInv'
  BY <1>2, SetApart DEF OnResetClicked
<1>3. ASSUME NEW accel \in Accels, OnKeyPressed(accel)
      PROVE  ApartInv'
  <2>1. capturing \in Actions
    BY <1>3 DEF OnKeyPressed, TypeOK, DialogTypes
  <2> QED BY <1>3, <2>1, SetApart DEF OnKeyPressed
<1>4. CASE Restart
  BY <1>4 DEF Restart, ApartInv
<1>5. CASE OpenDialog \/ CloseDialog \/ OnEscape \/ (\E a \in Actions : OnCaptureClicked(a))
           \/ BridgeAnswers \/ OnKeybindingsMessage \/ OnConnected \/ OnDisconnected
           \/ Replaced \/ LateWriteReturns \/ UNCHANGED vars
  <2>1. UNCHANGED <<overrides, file>>
    BY <1>5 DEF OpenDialog, CloseDialog, OnEscape, OnCaptureClicked, BridgeAnswers,
      OnKeybindingsMessage, OnConnected, OnDisconnected, Replaced, Disconnect, LateWriteReturns,
      vars, managerVars
  <2> QED BY <2>1 DEF ApartInv
<1> QED BY <1>1, <1>2, <1>3, <1>4, <1>5 DEF Next

-----------------------------------------------------------------------------
(* The cache and the settings *)

LEMMA AgreeUnchanged ==
  ASSUME AgreeInv, TypeOK,
         UNCHANGED <<connected, toBridge, toApp, lost, available, schema, cache, settings, unsaved,
                     file, overrides>>
  PROVE  AgreeInv'
BY DEF AgreeInv, ReadKeybindings

\* After an edit a request is under way, if there is somebody to take it.
LEMMA AgreeSend ==
  ASSUME AgreeInv, TypeOK, NEW messages \in Seq(Request), messages # <<>>, Send(messages),
         UNCHANGED <<connected, toApp, available, schema, settings>>,
         ~unsaved' => file' = overrides'
  PROVE  AgreeInv'
<1>1. connected => toBridge' # <<>>
  <2>1. connected => toBridge' = toBridge \o messages
    BY DEF Send
  <2>2. toBridge \in Seq(Request)
    BY DEF TypeOK, LinkTypes
  <2> QED BY <2>1, <2>2, ConcatProperties, EmptySeq
<1>2. ~connected => toBridge' = toBridge
  BY DEF Send
<1> QED BY <1>1, <1>2 DEF AgreeInv, ReadKeybindings

LEMMA PersistAgrees == ASSUME Persist PROVE ~unsaved' => file' = overrides'
BY DEF Persist

LEMMA AgreeSet ==
  ASSUME AgreeInv, TypeOK, NEW a \in Actions, NEW accels \in SUBSET Accels, SetAccels(a, accels),
         UNCHANGED <<connected, toApp, schema, settings>>
  PROVE  AgreeInv'
<1>1. CASE a \in Global
  <2>1. <<SetMessage(a, accels)>> \in Seq(Request) /\ <<SetMessage(a, accels)>> # <<>>
    <3>1. SetMessage(a, accels) \in Request
      BY <1>1, RequestTyped
    <3> QED BY <3>1
  <2>2. ~unsaved' => file' = overrides'
    BY <1>1 DEF SetAccels, AgreeInv
  <2> QED BY <1>1, <2>1, <2>2, AgreeSend DEF SetAccels
<1>2. CASE a \notin Global
  <2>1. ~unsaved' => file' = overrides'
    BY <1>2, PersistAgrees DEF SetAccels
  <2>2. UNCHANGED <<cache, toBridge, lost, available>>
    BY <1>2 DEF SetAccels
  <2> QED BY <2>1, <2>2 DEF AgreeInv, ReadKeybindings
<1> QED BY <1>1, <1>2

LEMMA AgreeReset ==
  ASSUME AgreeInv, TypeOK, ResetAllAccels, UNCHANGED <<connected, toApp, schema, settings>>
  PROVE  AgreeInv'
<1>1. Send(ResetMessages) /\ available' = available
  BY DEF ResetAllAccels, ResetMessages
<1>2. ~unsaved' => file' = overrides'
  BY PersistAgrees DEF ResetAllAccels
<1> QED BY <1>1, <1>2, ResetMessagesTyped, AgreeSend

\* The bridge answers each request with its settings as they are then.
LEMMA AgreeAnswer ==
  ASSUME AgreeInv, TypeOK, TypeOK', BridgeAnswers
  PROVE  AgreeInv'
<1> DEFINE r == ReadKeybindings(settings')
<1>1. toApp \in Seq(Report) /\ settings' \in [Global -> SUBSET Accels]
  BY DEF TypeOK, LinkTypes
<1>2. r \in Report /\ toApp' = Append(toApp, r)
  BY <1>1, ReportTyped DEF BridgeAnswers
<1>3. (r = <<>>) = ~schema
  <2>1. settings' # <<>>
    BY <1>1, NotEmptyReport
  <2>2. schema \in BOOLEAN
    BY DEF TypeOK, FlagTypes
  <2>3. CASE schema
    BY <2>1, <2>3 DEF ReadKeybindings
  <2>4. CASE ~schema
    BY <2>4 DEF ReadKeybindings
  <2> QED BY <2>2, <2>3, <2>4
<1>4. UNCHANGED <<connected, schema, available, cache, unsaved, file, overrides>>
  BY DEF BridgeAnswers, managerVars
<1>5. ReadKeybindings(settings)' = r
  BY <1>4 DEF ReadKeybindings
<1> HIDE DEF r
<1>6. PICK n \in Nat : n = Len(toApp)
  BY <1>1, LenProperties
<1>7. /\ Len(toApp') = n + 1 /\ toApp'[n + 1] = r
      /\ \A i \in 1..n : toApp'[i] = toApp[i]
  BY <1>1, <1>2, <1>6, AppendProperties
<1>8. toApp' # <<>> /\ toApp'[Len(toApp')] = r
  BY <1>6, <1>7, EmptySeq
<1>9. \A i \in 1..Len(toApp') : (toApp'[i] = <<>>) = ~schema
  <2> SUFFICES ASSUME NEW i \in 1..(n + 1) PROVE (toApp'[i] = <<>>) = ~schema
    BY <1>7
  <2>1. CASE i = n + 1
    BY <1>3, <1>7, <2>1
  <2>2. CASE i \in 1..n
    BY <1>6, <1>7, <2>2 DEF AgreeInv
  <2> QED BY <1>6, <2>1, <2>2
<1>10. connected
  BY DEF BridgeAnswers, AgreeInv
<1> QED BY <1>4, <1>5, <1>8, <1>9, <1>10 DEF AgreeInv

\* The last report that comes in is the settings.
LEMMA AgreeReport ==
  ASSUME AgreeInv, TypeOK, OnKeybindingsMessage
  PROVE  AgreeInv'
<1>1. PICK n \in Nat : n = Len(toApp)
  BY LenProperties DEF TypeOK, LinkTypes
<1>2. /\ toApp \in Seq(Report) /\ toApp # <<>> /\ n # 0
      /\ Head(toApp) = toApp[1]
      /\ toApp' = Tail(toApp)
  BY <1>1, EmptySeq DEF OnKeybindingsMessage, TypeOK, LinkTypes
<1>3. Len(toApp') = n - 1 /\ toApp' \in Seq(Report) /\ \A i \in 1..(n - 1) : toApp'[i] = toApp[i + 1]
  BY <1>1, <1>2, HeadTailProperties
<1>4. UNCHANGED <<connected, toBridge, schema, settings, unsaved, file, overrides>>
  BY DEF OnKeybindingsMessage, bridgeVars
<1>5. connected /\ schema \in BOOLEAN
  BY <1>2 DEF AgreeInv, TypeOK, FlagTypes
<1>6. (toApp[1] = <<>>) = ~schema
  BY <1>1, <1>2 DEF AgreeInv
<1>7. available' = (toApp[1] # <<>>) /\ cache' = IF toApp[1] = <<>> THEN cache ELSE toApp[1]
  BY <1>2 DEF OnKeybindingsMessage
<1>8. CASE n = 1
  <2>1. toApp' = <<>>
    BY <1>3, <1>8, EmptySeq
  <2>2. toBridge' = <<>> => IF schema THEN available' /\ cache' = settings ELSE ~available'
    <3>1. toApp[1] = ReadKeybindings(settings)
      BY <1>1, <1>2, <1>8 DEF AgreeInv
    <3> QED BY <1>4, <1>5, <1>6, <1>7, <3>1 DEF ReadKeybindings
  <2>3. Len(toApp') = 0
    BY <1>3, <1>8
  <2> QED BY <1>4, <1>5, <1>6, <1>7, <2>1, <2>2, <2>3 DEF AgreeInv
<1>9. CASE n # 1
  <2>1. toApp' # <<>> /\ toApp'[n - 1] = toApp[n]
    <3>1. n - 1 \in 1..(n - 1) /\ (n - 1) + 1 = n
      BY <1>2, <1>9
    <3> QED BY <1>3, <3>1, EmptySeq
  <2>2. toApp'[Len(toApp')] = ReadKeybindings(settings)'
    BY <1>1, <1>2, <1>3, <1>4, <1>5, <2>1 DEF AgreeInv, ReadKeybindings
  <2>3. \A i \in 1..Len(toApp') : (toApp'[i] = <<>>) = ~schema
    <3> SUFFICES ASSUME NEW i \in 1..(n - 1) PROVE (toApp'[i] = <<>>) = ~schema
      BY <1>3
    <3>1. i + 1 \in 1..n
      OBVIOUS
    <3>2. (toApp[i + 1] = <<>>) = ~schema
      BY <1>1, <3>1 DEF AgreeInv
    <3> QED BY <1>3, <3>2
  <2> QED BY <1>4, <1>5, <1>6, <1>7, <2>1, <2>2, <2>3 DEF AgreeInv
<1> QED BY <1>8, <1>9

LEMMA AgreeStep ==
  ASSUME AgreeInv, TypeOK, TypeOK', [Next]_vars
  PROVE  AgreeInv'
<1>1. CASE OpenDialog \/ CloseDialog \/ OnEscape \/ (\E a \in Actions : OnCaptureClicked(a))
           \/ UNCHANGED vars
  <2>1. UNCHANGED <<connected, toBridge, toApp, lost, available, schema, cache, settings, unsaved,
                    file, overrides>>
    BY <1>1 DEF OpenDialog, CloseDialog, OnEscape, OnCaptureClicked, vars, managerVars, linkVars,
      bridgeVars
  <2> QED BY <2>1, AgreeUnchanged
<1>2. CASE OnResetAllClicked
  BY <1>2, AgreeReset DEF OnResetAllClicked, bridgeVars
<1>3. ASSUME NEW a \in Actions, OnResetClicked(a)
      PROVE  AgreeInv'
  BY <1>3, AgreeSet, Catalog DEF OnResetClicked, bridgeVars
<1>4. ASSUME NEW accel \in Accels, OnKeyPressed(accel)
      PROVE  AgreeInv'
  <2>1. capturing \in Actions /\ {accel} \in SUBSET Accels
    BY <1>4 DEF OnKeyPressed, TypeOK, DialogTypes
  <2> QED BY <1>4, <2>1, AgreeSet DEF OnKeyPressed, bridgeVars
<1>5. CASE BridgeAnswers
  BY <1>5, AgreeAnswer
<1>6. CASE OnKeybindingsMessage
  BY <1>6, AgreeReport
<1>7. CASE OnConnected
  <2>1. connected' = TRUE /\ toBridge' # <<>> /\ toApp' = <<>>
        /\ UNCHANGED <<available, schema, cache, settings, unsaved, file, overrides>>
    BY <1>7 DEF OnConnected, managerVars, bridgeVars, AgreeInv
  <2> QED BY <2>1 DEF AgreeInv
<1>8. CASE OnDisconnected
  <2>1. connected' = FALSE /\ toBridge' = <<>> /\ toApp' = <<>> /\ available' = FALSE
        /\ UNCHANGED <<schema, unsaved, file, overrides>>
    BY <1>8 DEF OnDisconnected, Disconnect, bridgeVars
  <2> QED BY <2>1 DEF AgreeInv
<1>9. CASE Restart
  <2>1. connected' = FALSE /\ toBridge' = <<>> /\ toApp' = <<>> /\ available' = FALSE
        /\ schema' = schema /\ file' = overrides'
    BY <1>9 DEF Restart, bridgeVars
  <2> QED BY <2>1 DEF AgreeInv
<1>10. CASE Replaced
  <2>1. toApp' = <<>> /\ available' = FALSE /\ UNCHANGED <<connected, schema, unsaved, file, overrides>>
    BY <1>10 DEF Replaced, Disconnect, bridgeVars
  <2>2. connected /\ toBridge' # <<>>
    BY <1>10, ReplacedTypes DEF Replaced
  <2> QED BY <2>1, <2>2 DEF AgreeInv
<1>11. CASE LateWriteReturns
  <2>1. UNCHANGED <<connected, toApp, available, schema, cache, settings, unsaved, file, overrides>>
    BY <1>11 DEF LateWriteReturns, managerVars, bridgeVars
  <2>2. CASE UNCHANGED <<toBridge, lost>>
    BY <2>1, <2>2, AgreeUnchanged
  <2>3. CASE connected /\ lost' = (toBridge' = <<>> /\ toApp = <<>>)
    BY <2>1, <2>3 DEF AgreeInv, ReadKeybindings
  <2> QED BY <1>11, <2>2, <2>3 DEF LateWriteReturns
<1> QED BY <1>1, <1>2, <1>3, <1>4, <1>5, <1>6, <1>7, <1>8, <1>9, <1>10, <1>11 DEF Next

-----------------------------------------------------------------------------
(* The specification keeps them *)

LEMMA ShortcutsInit == Init => ShortcutsInv
<1> SUFFICES ASSUME Init PROVE ShortcutsInv
  OBVIOUS
<1>1. TypeOK
  BY TypesInit
<1>2. RowsShowAccels
  <2>1. \A a \in Local : GetAccels(a) = Default[a]
    BY Catalog DEF Init, GetAccels, AccelsOf
  <2> QED BY <2>1 DEF Init, RowsShowAccels
<1>3. ApartInv
  BY DEF Init, ApartInv, Apart
<1>4. AgreeInv
  BY DEF Init, AgreeInv
<1> QED BY <1>1, <1>2, <1>3, <1>4 DEF ShortcutsInv

LEMMA ShortcutsStep == ShortcutsInv /\ [Next]_vars => ShortcutsInv'
BY TypesStep, RowsStep, ApartStep, AgreeStep DEF ShortcutsInv

\* The conjunction is inductive: types, rows, choices apart on disk and in memory, and what the
\* last report under way says.
THEOREM ShortcutsInvariant == Spec => []ShortcutsInv
BY ShortcutsInit, ShortcutsStep, PTL DEF Spec

\* The variables of the editor, the manager and the bridge keep their ranges, and no override
\* repeats a default (set_accels drops it).
THEOREM ShortcutsAreTyped == Spec => []TypeOK
<1>1. ShortcutsInv => TypeOK
  BY DEF ShortcutsInv
<1> QED BY <1>1, ShortcutsInvariant, PTL

\* For any catalog and any order of edits, resets, captures, reports and lost connections, the
\* rows of the editor and the keys the app reacts to are the accelerators the manager has
\* (_on_manager_changed, _refresh_row, _apply_app_accels).
THEOREM RowsAlwaysShowAccels == Spec => []RowsShowAccels
<1>1. ShortcutsInv => RowsShowAccels
  BY DEF ShortcutsInv
<1> QED BY <1>1, ShortcutsInvariant, PTL

\* Once nothing is on its way the cache is what the bridge has, however many edits crossed older
\* reports and however many were lost with a connection, or with a late write of an earlier one
\* that left something on its way; and shortcuts.json holds the other overrides unless its last
\* write failed (update_global_from_bridge, _persist).
THEOREM CachesAlwaysAgree == Spec => []CachesAgree
<1>1. ShortcutsInv => CachesAgree
  BY DEF ShortcutsInv, AgreeInv, CachesAgree
<1> QED BY <1>1, ShortcutsInvariant, PTL

\* No two shortcuts live together are ever given one key, also not by a restart that reads a file
\* older than the last edits (find_conflict, _load).
THEOREM OverridesAlwaysApart == Spec => []OverridesApart
<1>1. ShortcutsInv => OverridesApart
  BY DEF ShortcutsInv, ApartInv, Apart, OverridesApart
<1> QED BY <1>1, ShortcutsInvariant, PTL
=====
