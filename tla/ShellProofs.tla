----------------------------- MODULE ShellProofs -----------------------------
(***************************************************************************)
(* Theorems about the extensions as the app sees them (module              *)
(* ShellExtensions), for any extensions, any number of clicks, failing     *)
(* calls, changes by other programs and logins.                            *)
(***************************************************************************)
EXTENDS ShellExtensions, SequenceTheorems, TLAPS

-----------------------------------------------------------------------------
(* Types *)

\* The state of each extension somebody knows.
Partial == UNION {[S -> States] : S \in SUBSET Uuids}

Follows == {"nothing", "uninstall", "bridge"}
Calls == {ListCall} \cup [method : {"enable", "disable"}, uuid : Uuids, follow : Follows]

Signals == [type : {"signal"}, uuid : Uuids, state : States \cup {"UNINSTALLED"}]
Lists == [type : {"list"}, ok : BOOLEAN, states : Partial]
Dones == [type : {"done"}, uuid : Uuids, method : {"enable", "disable"}, ok : BOOLEAN, follow : Follows]
Messages == Signals \cup Lists \cup Dones

KnownTypes == shell \in Partial /\ extensions \in Partial /\ wanted \subseteq Uuids /\ dirs \subseteq Uuids
BusTypes == toShell \in Seq(Calls) /\ fromShell \in Seq(Messages) /\ idleLists \in Nat
PageTypes ==
  /\ selected \in Uuids \cup {NoUuid} /\ detail \in Uuids \cup {NoUuid}
  /\ highlighted \in Uuids \cup {NoUuid}
  /\ favorites \subseteq Uuids /\ saved \subseteq Uuids
FlagTypes == switch \in BOOLEAN /\ sensitive \in BOOLEAN /\ star \in BOOLEAN

TypeOK == KnownTypes /\ BusTypes /\ PageTypes /\ FlagTypes

LEMMA PartialProperties ==
  ASSUME NEW f \in Partial
  PROVE  /\ DOMAIN f \subseteq Uuids /\ \A u \in DOMAIN f : f[u] \in States
         /\ f = [u \in DOMAIN f |-> f[u]]
BY DEF Partial

LEMMA PartialIntro ==
  ASSUME NEW S \in SUBSET Uuids, NEW f \in [S -> States]
  PROVE  f \in Partial
BY DEF Partial

LEMMA NoneKnown == <<>> \in Partial /\ DOMAIN <<>> = {}
<1>1. <<>> \in Seq(States) /\ Len(<<>>) = 0
  BY EmptySeq
<1>2. DOMAIN <<>> = {}
  BY <1>1, LenProperties
<1>3. <<>> \in [{} -> States]
  BY <1>1, <1>2, LenProperties
<1> QED BY <1>2, <1>3, PartialIntro

LEMMA MessageTypes ==
  /\ \A u \in Uuids, state \in States \cup {"UNINSTALLED"} : Signal(u, state) \in Messages
  /\ \A f \in Partial, ok \in BOOLEAN : [type |-> "list", ok |-> ok, states |-> f] \in Messages
  /\ \A c \in Calls, ok \in BOOLEAN : c.method # "list" => DoneReply(c, ok) \in Messages
  /\ ListCall \in Calls
  /\ \A m \in {"enable", "disable"}, u \in Uuids, f \in Follows : Call(m, u, f) \in Calls
<1>1. \A u \in Uuids, state \in States \cup {"UNINSTALLED"} : Signal(u, state) \in Messages
  BY DEF Messages, Signals, Signal
<1>2. \A f \in Partial, ok \in BOOLEAN : [type |-> "list", ok |-> ok, states |-> f] \in Messages
  BY DEF Messages, Lists
<1>3. ASSUME NEW c \in Calls, NEW ok \in BOOLEAN, c.method # "list"
      PROVE  DoneReply(c, ok) \in Messages
  <2>1. c \in [method : {"enable", "disable"}, uuid : Uuids, follow : Follows]
    BY <1>3 DEF Calls, ListCall, Call
  <2>2. c.uuid \in Uuids /\ c.method \in {"enable", "disable"} /\ c.follow \in Follows
    BY <2>1
  <2> QED BY <2>2 DEF DoneReply, Messages, Dones
<1>4. ListCall \in Calls
  BY DEF Calls
<1>5. \A m \in {"enable", "disable"}, u \in Uuids, f \in Follows : Call(m, u, f) \in Calls
  BY DEF Calls, Call
<1> QED BY <1>1, <1>2, <1>3, <1>4, <1>5

LEMMA CallCases ==
  ASSUME NEW c \in Calls
  PROVE  \/ c = ListCall /\ c.method = "list"
         \/ c.method \in {"enable", "disable"} /\ c.uuid \in Uuids /\ c.follow \in Follows
BY DEF Calls, ListCall, Call

LEMMA MessageCases ==
  ASSUME NEW m \in Messages
  PROVE  \/ m.type = "signal" /\ m \in Signals /\ m.uuid \in Uuids /\ m.state \in States \cup {"UNINSTALLED"}
         \/ m.type = "list" /\ m.ok \in BOOLEAN /\ m.states \in Partial
         \/ m.type = "done" /\ m.uuid \in Uuids /\ m.follow \in Follows
BY DEF Messages, Signals, Lists, Dones

LEMMA ListReplyTyped ==
  ASSUME shell \in Partial, NEW ok \in BOOLEAN
  PROVE  /\ ListReply(ok) \in Messages /\ ListReply(ok).type = "list" /\ ListReply(ok).ok = ok
         /\ ok => ListReply(ok).states = shell
<1>1. PICK f \in Partial : f = IF ok THEN shell ELSE <<>>
  BY NoneKnown
<1>2. ListReply(ok) = [type |-> "list", ok |-> ok, states |-> f]
  BY <1>1 DEF ListReply
<1> QED BY <1>1, <1>2, MessageTypes

\* What the shell sends when it takes a call.
LEMMA RepliesTyped ==
  ASSUME TypeOK, toShell # <<>>, NEW c, c = Head(toShell)
  PROVE  /\ c \in Calls /\ Tail(toShell) \in Seq(Calls) /\ 1 \in 1..Len(toShell)
         /\ c = toShell[1]
BY HeadTailProperties, EmptySeq, LenProperties DEF TypeOK, BusTypes

\* A call is answered by one message, but for a disable that is taken, which may be followed by
\* the spurious signal.
LEMMA TakenProperties ==
  ASSUME TypeOK, TakeCall, NEW c, c = Head(toShell)
  PROVE  /\ Begun
         /\ \/ c = ListCall /\ fromShell' = Append(fromShell, ListReply(TRUE)) /\ wanted' = wanted
            \/ /\ c.method # "list" /\ c.uuid \in DOMAIN shell
               /\ wanted' = IF c.method = "enable" THEN wanted \cup {c.uuid} ELSE wanted \ {c.uuid}
               /\ \/ fromShell' = Append(fromShell, DoneReply(c, TRUE))
                  \/ /\ shell[c.uuid] = "ENABLED"
                     /\ fromShell' = Append(Append(fromShell, DoneReply(c, TRUE)),
                                            Signal(c.uuid, "ENABLED"))
            \/ c = ListCall /\ fromShell' = Append(fromShell, ListReply(FALSE)) /\ wanted' = wanted
            \/ /\ c.method # "list" /\ wanted' = wanted
               /\ fromShell' = Append(fromShell, DoneReply(c, FALSE))
            \/ /\ c.method # "list" /\ c.uuid \notin DOMAIN shell /\ wanted' = wanted
               /\ fromShell' = Append(fromShell, DoneReply(c, TRUE))
<1>1. c \in Calls
  BY RepliesTyped DEF TakeCall
<1>2. c.method = "list" => c = ListCall
  BY <1>1, CallCases
<1>3. ASSUME c.method # "list", NEW spurious \in {<<>>, <<Signal(c.uuid, "ENABLED")>>},
             fromShell' = fromShell \o <<DoneReply(c, TRUE)>> \o spurious
      PROVE  \/ spurious = <<>> /\ fromShell' = Append(fromShell, DoneReply(c, TRUE))
             \/ /\ spurious # <<>>
                /\ fromShell' = Append(Append(fromShell, DoneReply(c, TRUE)), Signal(c.uuid, "ENABLED"))
  <2>1. DoneReply(c, TRUE) \in Messages /\ Signal(c.uuid, "ENABLED") \in Messages
    BY <1>1, <1>3, MessageTypes, CallCases DEF States
  <2> DEFINE d == DoneReply(c, TRUE)
             s == Signal(c.uuid, "ENABLED")
  <2> HIDE DEF d, s
  <2>2. fromShell \in Seq(Messages) /\ d \in Messages /\ s \in Messages
    BY <2>1 DEF TypeOK, BusTypes, d, s
  <2>3. fromShell \o <<d>> = Append(fromShell, d) /\ Append(fromShell, d) \in Seq(Messages)
    BY <2>2, AppendIsConcat, AppendProperties
  <2>4. Append(fromShell, d) \o <<>> = Append(fromShell, d)
    BY <2>3, ConcatEmptySeq
  <2>5. Append(fromShell, d) \o <<s>> = Append(Append(fromShell, d), s)
    BY <2>2, <2>3, AppendIsConcat
  <2>6. CASE spurious = <<>>
    BY <1>3, <2>3, <2>4, <2>6 DEF d
  <2>7. CASE spurious = <<s>>
    <3>1. <<s>> # <<>>
      OBVIOUS
    <3> QED BY <1>3, <2>3, <2>5, <2>7, <3>1 DEF d, s
  <2> QED BY <1>3, <2>6, <2>7 DEF s
<1>4. ASSUME c.method # "list", c.uuid \in DOMAIN shell,
             \E spurious \in
                 {<<>>} \cup (IF c.method = "disable" /\ shell[c.uuid] = "ENABLED"
                              THEN {<<Signal(c.uuid, "ENABLED")>>} ELSE {}) :
                 fromShell' = fromShell \o <<DoneReply(c, TRUE)>> \o spurious
      PROVE  \/ fromShell' = Append(fromShell, DoneReply(c, TRUE))
             \/ /\ shell[c.uuid] = "ENABLED"
                /\ fromShell' = Append(Append(fromShell, DoneReply(c, TRUE)), Signal(c.uuid, "ENABLED"))
  BY <1>3, <1>4
<1> QED BY <1>2, <1>4 DEF TakeCall

LEMMA TakeTypes ==
  ASSUME TypeOK, TakeCall
  PROVE  TypeOK'
<1>0. KnownTypes /\ BusTypes /\ PageTypes /\ FlagTypes
  BY DEF TypeOK
<1>1. PICK c : c = Head(toShell)
  OBVIOUS
<1>2. c \in Calls /\ Tail(toShell) \in Seq(Calls)
  BY <1>1, RepliesTyped DEF TakeCall
<1>3. wanted' \subseteq Uuids
  BY <1>0, <1>1, <1>2, TakenProperties, CallCases DEF KnownTypes
<1>4. ListReply(TRUE) \in Messages /\ ListReply(FALSE) \in Messages
  BY <1>0, ListReplyTyped DEF KnownTypes
<1>5. c.method # "list" =>
        /\ DoneReply(c, TRUE) \in Messages /\ DoneReply(c, FALSE) \in Messages
        /\ Signal(c.uuid, "ENABLED") \in Messages
  BY <1>2, MessageTypes, CallCases DEF States
<1>6. fromShell' \in Seq(Messages)
  <2>1. fromShell \in Seq(Messages)
    BY <1>0 DEF BusTypes
  <2>2. \A m \in Messages : Append(fromShell, m) \in Seq(Messages)
    BY <2>1, AppendProperties
  <2>3. \A m, n \in Messages : Append(Append(fromShell, m), n) \in Seq(Messages)
    BY <2>2, AppendProperties
  <2>4. \/ fromShell' = Append(fromShell, ListReply(TRUE))
        \/ fromShell' = Append(fromShell, ListReply(FALSE))
        \/ /\ c.method # "list"
           /\ \/ fromShell' = Append(fromShell, DoneReply(c, TRUE))
              \/ fromShell' = Append(fromShell, DoneReply(c, FALSE))
              \/ fromShell' = Append(Append(fromShell, DoneReply(c, TRUE)), Signal(c.uuid, "ENABLED"))
    BY <1>1, TakenProperties
  <2> QED BY <1>4, <1>5, <2>2, <2>3, <2>4
<1> QED BY <1>0, <1>1, <1>2, <1>3, <1>6 DEF cacheVars, TakeCall, diskVars, detailVars, pageVars, listVars,
      TypeOK, KnownTypes, BusTypes, PageTypes, FlagTypes

LEMMA FollowTypes ==
  ASSUME TypeOK, NEW u \in Uuids, FollowSetting(u)
  PROVE  TypeOK'
<1>0. KnownTypes /\ BusTypes /\ PageTypes /\ FlagTypes
  BY DEF TypeOK
<1>1. PICK state \in States : SetState(u, state)
  BY DEF FollowSetting, States, Transient
<1>2. fromShell' \in Seq(Messages)
  <2>1. Signal(u, state) \in Messages
    BY MessageTypes
  <2> QED BY <1>0, <1>1, <2>1, AppendProperties DEF SetState, BusTypes
<1>3. shell' \in Partial
  BY <1>0, <1>1 DEF SetState, KnownTypes, Partial
<1> QED BY <1>0, <1>2, <1>3 DEF cacheVars, FollowSetting, diskVars, detailVars, pageVars, listVars,
      TypeOK, KnownTypes, BusTypes, PageTypes, FlagTypes

\* What another program does: it switches an extension, removes it or adds it.
LEMMA OutsideProperties ==
  ASSUME TypeOK, NEW u \in Uuids, ChangeOutside(u)
  PROVE  /\ Begun
         /\ UNCHANGED <<toShell, cacheVars, idleLists, selected, pageVars, listLost, listVars>>
         /\ \/ /\ u \in DOMAIN shell /\ shell' = shell /\ fromShell' = fromShell
               /\ wanted' = (wanted \cup {u}) \ (wanted \cap {u})
               /\ disableLost' = \/ disableLost
                                 \/ /\ u = detail /\ pendingDisable
                                    /\ shell[u] \in Transient \/ extensions[u] = "DISABLED"
            \/ /\ u \in DOMAIN shell /\ shell' = [v \in DOMAIN shell \ {u} |-> shell[v]]
               /\ fromShell' = Append(fromShell, Signal(u, "UNINSTALLED"))
               /\ UNCHANGED <<wanted, disableLost>>
            \/ /\ u \notin DOMAIN shell
               /\ shell' = [v \in DOMAIN shell \cup {u} |-> IF v = u THEN "DISABLED" ELSE shell[v]]
               /\ fromShell' = Append(fromShell, Signal(u, "DISABLED"))
               /\ UNCHANGED <<wanted, disableLost>>
         /\ shell' \in Partial /\ wanted' \subseteq Uuids /\ fromShell' \in Seq(Messages)
         /\ dirs' \subseteq Uuids
<1>0. KnownTypes /\ fromShell \in Seq(Messages)
  BY DEF TypeOK, BusTypes
<1>1. Signal(u, "UNINSTALLED") \in Messages /\ Signal(u, "DISABLED") \in Messages
  BY MessageTypes DEF States
<1>2. \A m \in Messages : Append(fromShell, m) \in Seq(Messages)
  BY <1>0, AppendProperties
<1>3. DOMAIN shell \subseteq Uuids /\ \A v \in DOMAIN shell : shell[v] \in States
  BY <1>0, PartialProperties DEF KnownTypes
<1>4. [v \in DOMAIN shell \ {u} |-> shell[v]] \in Partial
  <2>1. [v \in DOMAIN shell \ {u} |-> shell[v]] \in [DOMAIN shell \ {u} -> States]
    BY <1>3
  <2> QED BY <1>3, <2>1, PartialIntro
<1>5. [v \in DOMAIN shell \cup {u} |-> IF v = u THEN "DISABLED" ELSE shell[v]] \in Partial
  <2>1. [v \in DOMAIN shell \cup {u} |-> IF v = u THEN "DISABLED" ELSE shell[v]]
          \in [DOMAIN shell \cup {u} -> States]
    BY <1>3 DEF States
  <2> QED BY <1>3, <2>1, PartialIntro
<1>6. dirs' \subseteq Uuids
  BY <1>0 DEF ChangeOutside, diskVars, KnownTypes
<1>7. CASE /\ u \in DOMAIN shell
           /\ wanted' = SymDiff(wanted, {u})
           /\ disableLost' = \/ disableLost
                             \/ /\ u = detail /\ pendingDisable
                                /\ shell[u] \in Transient \/ extensions[u] = "DISABLED"
           /\ UNCHANGED <<shell, dirs, fromShell>>
  <2>1. wanted' = (wanted \cup {u}) \ (wanted \cap {u})
    BY <1>7 DEF SymDiff
  <2>2. wanted' \subseteq Uuids
    BY <1>0, <2>1 DEF KnownTypes
  <2> QED BY <1>0, <1>6, <1>7, <2>1, <2>2 DEF cacheVars, ChangeOutside, KnownTypes
<1>8. CASE /\ u \in DOMAIN shell \cap Others
           /\ shell' = [v \in DOMAIN shell \ {u} |-> shell[v]]
           /\ fromShell' = Append(fromShell, Signal(u, "UNINSTALLED"))
           /\ UNCHANGED <<wanted, disableLost>>
  BY <1>0, <1>1, <1>2, <1>4, <1>6, <1>8 DEF cacheVars, ChangeOutside, KnownTypes
<1>9. CASE /\ u \in Others \ DOMAIN shell
           /\ shell' = [v \in DOMAIN shell \cup {u} |-> IF v = u THEN "DISABLED" ELSE shell[v]]
           /\ fromShell' = Append(fromShell, Signal(u, "DISABLED"))
           /\ UNCHANGED <<wanted, disableLost>>
  BY <1>0, <1>1, <1>2, <1>5, <1>6, <1>9 DEF cacheVars, ChangeOutside, KnownTypes
<1> QED BY <1>7, <1>8, <1>9 DEF ChangeOutside

LEMMA OutsideTypes ==
  ASSUME TypeOK, NEW u \in Uuids, ChangeOutside(u)
  PROVE  TypeOK'
BY OutsideProperties DEF cacheVars, pageVars, listVars, TypeOK, KnownTypes, BusTypes, PageTypes, FlagTypes

-----------------------------------------------------------------------------
(* What the client hears *)

LEMMA FirstMessage ==
  ASSUME TypeOK, fromShell # <<>>, NEW m, m = Head(fromShell)
  PROVE  /\ m \in Messages /\ Tail(fromShell) \in Seq(Messages)
         /\ 1 \in 1..Len(fromShell) /\ m = fromShell[1]
BY HeadTailProperties, EmptySeq, LenProperties DEF TypeOK, BusTypes

\* What the client has of the extensions once it has taken in a signal or a list.
Learnt(m) ==
  IF m.type = "list" THEN m.states
  ELSE IF m.state = "UNINSTALLED" THEN [u \in DOMAIN extensions \ {m.uuid} |-> extensions[u]]
  ELSE [u \in DOMAIN extensions \cup {m.uuid} |-> IF u = m.uuid THEN m.state ELSE extensions[u]]

Hears == OnSignal \/ (OnListDone /\ Head(fromShell).ok)

\* A list that failed comes in.
ListFails == OnListDone /\ ~Head(fromShell).ok

LEMMA HearsProperties ==
  ASSUME TypeOK, Hears, NEW m, m = Head(fromShell)
  PROVE  /\ fromShell # <<>> /\ m \in Messages
         /\ m.type = "signal" \/ (m.type = "list" /\ m.ok)
         /\ fromShell' = Tail(fromShell)
         /\ extensions' = Learnt(m) /\ extensions' \in Partial
         /\ EmitChanged
         /\ listed' => listed \/ m.type = "list"
         /\ UNCHANGED <<shell, wanted, dirs, idleLists>>
<1>1. /\ fromShell # <<>> /\ (m.type = "signal" \/ (m.type = "list" /\ m.ok))
      /\ fromShell' = Tail(fromShell) /\ EmitChanged
  BY DEF Hears, OnSignal, OnListDone
<1>2. UNCHANGED <<shell, wanted, dirs, idleLists>>
  BY DEF Hears, OnSignal, OnListDone, shellVars, diskVars
<1>3. extensions' = Learnt(m)
  BY DEF Hears, OnSignal, OnListDone, Learnt
<1>4. m \in Messages
  BY <1>1, FirstMessage
<1>5. DOMAIN extensions \subseteq Uuids /\ \A u \in DOMAIN extensions : extensions[u] \in States
  BY PartialProperties DEF TypeOK, KnownTypes
<1>6. listed' => listed \/ m.type = "list"
  BY DEF Hears, OnSignal, OnListDone
<1>7. Learnt(m) \in Partial
  <2>1. CASE m.type = "list"
    BY <1>4, <2>1, MessageCases DEF Learnt
  <2>2. CASE m.type = "signal" /\ m.state = "UNINSTALLED"
    <3>1. [u \in DOMAIN extensions \ {m.uuid} |-> extensions[u]] \in [DOMAIN extensions \ {m.uuid} -> States]
      BY <1>5
    <3> QED BY <1>5, <2>2, <3>1, PartialIntro DEF Learnt
  <2>3. CASE m.type = "signal" /\ m.state # "UNINSTALLED"
    <3>1. m.uuid \in Uuids /\ m.state \in States
      BY <1>4, <2>3, MessageCases
    <3>2. [u \in DOMAIN extensions \cup {m.uuid} |-> IF u = m.uuid THEN m.state ELSE extensions[u]]
            \in [DOMAIN extensions \cup {m.uuid} -> States]
      BY <1>5, <3>1
    <3> QED BY <1>5, <2>3, <3>1, <3>2, PartialIntro DEF Learnt
  <2> QED BY <1>1, <2>1, <2>2, <2>3
<1> QED BY <1>1, <1>2, <1>3, <1>4, <1>6, <1>7

LEMMA ListFailsProperties ==
  ASSUME TypeOK, ListFails, NEW m, m = Head(fromShell)
  PROVE  /\ fromShell # <<>> /\ m \in Messages /\ m.type = "list" /\ ~m.ok
         /\ fromShell' = Tail(fromShell) /\ Tail(fromShell) \in Seq(Messages)
         /\ listLost'
         /\ UNCHANGED <<shell, wanted, dirs, toShell, cacheVars, idleLists, selected, pageVars,
                        disableLost, listVars>>
<1>1. fromShell # <<>>
  BY DEF ListFails, OnListDone
<1>2. m \in Messages /\ Tail(fromShell) \in Seq(Messages)
  BY <1>1, FirstMessage
<1> QED BY <1>1, <1>2 DEF ListFails, OnListDone, shellVars, diskVars

LEMMA ListFailsTypes ==
  ASSUME TypeOK, ListFails
  PROVE  TypeOK'
<1>1. PICK m : m = Head(fromShell)
  OBVIOUS
<1> QED BY <1>1, ListFailsProperties DEF cacheVars, pageVars, listVars,
      TypeOK, KnownTypes, BusTypes, PageTypes, FlagTypes

Gone == selected # NoUuid /\ selected \notin DOMAIN extensions'

LEMMA EmitProperties ==
  ASSUME TypeOK, EmitChanged
  PROVE  /\ toShell' = toShell \/ toShell' = Append(toShell, Call("enable", Bridge, "nothing"))
         /\ toShell' \in Seq(Calls)
         /\ UNCHANGED <<favorites, saved, highlighted, idleRebuild>>
         /\ rows' = Sections(extensions')
         /\ Gone => /\ selected' = NoUuid /\ detail' = NoUuid /\ pendingDisable' = FALSE
                    /\ UNCHANGED <<switch, sensitive, star>>
         /\ ~Gone => RefreshInPlace /\ UNCHANGED <<selected, detail, star, disableLost>>
         /\ selected = NoUuid /\ highlighted \in DOMAIN extensions' =>
              returned' \/ (highlighted \in DOMAIN extensions /\ ~returned)
<1>1. toShell' = toShell \/ toShell' = Append(toShell, Call("enable", Bridge, "nothing"))
  BY DEF EmitChanged, EnsureInstalled
<1>2. toShell' \in Seq(Calls)
  <2>1. Call("enable", Bridge, "nothing") \in Calls
    BY MessageTypes DEF Uuids, Follows
  <2> QED BY <1>1, <2>1, AppendProperties DEF TypeOK, BusTypes
<1>3. /\ UNCHANGED <<favorites, saved, highlighted, idleRebuild>>
      /\ rows' = Sections(extensions')
  BY DEF EmitChanged
<1>4. /\ Gone => /\ selected' = NoUuid /\ detail' = NoUuid /\ pendingDisable' = FALSE
                 /\ UNCHANGED <<switch, sensitive, star>>
      /\ ~Gone => RefreshInPlace /\ UNCHANGED <<selected, detail, star, disableLost>>
  BY DEF EmitChanged, Gone
<1>5. selected = NoUuid /\ highlighted \in DOMAIN extensions' =>
        returned' \/ (highlighted \in DOMAIN extensions /\ ~returned)
  BY DEF EmitChanged
<1> QED BY <1>1, <1>2, <1>3, <1>4, <1>5

LEMMA HearsTypes ==
  ASSUME TypeOK, Hears
  PROVE  TypeOK'
<1>0. KnownTypes /\ BusTypes /\ PageTypes /\ FlagTypes
  BY DEF TypeOK
<1>1. PICK m : m = Head(fromShell)
  OBVIOUS
<1>2. /\ fromShell # <<>> /\ fromShell' = Tail(fromShell) /\ extensions' \in Partial /\ EmitChanged
      /\ UNCHANGED <<shell, wanted, dirs, idleLists>>
  BY <1>1, HearsProperties
<1>3. fromShell' \in Seq(Messages)
  BY <1>1, <1>2, FirstMessage
<1>4. KnownTypes'
  BY <1>0, <1>2 DEF KnownTypes
<1>5. BusTypes'
  BY <1>0, <1>2, <1>3, EmitProperties DEF BusTypes
<1>6. PageTypes'
  BY <1>0, <1>2, EmitProperties DEF PageTypes
<1>7. FlagTypes'
  <2>1. CASE Gone
    BY <1>0, <1>2, <2>1, EmitProperties DEF FlagTypes
  <2>2. CASE ~Gone
    <3>1. RefreshInPlace /\ star' = star
      BY <1>2, <2>2, EmitProperties
    <3>2. switch' \in BOOLEAN
      BY <1>0, <3>1 DEF RefreshInPlace, FlagTypes
    <3>3. sensitive' \in BOOLEAN
      BY <1>0, <3>1 DEF RefreshInPlace, FlagTypes
    <3> QED BY <1>0, <3>1, <3>2, <3>3 DEF FlagTypes
  <2> QED BY <2>1, <2>2
<1> QED BY <1>4, <1>5, <1>6, <1>7 DEF TypeOK

LEMMA ToggleDoneProperties ==
  ASSUME TypeOK, OnToggleDone, NEW m, m = Head(fromShell)
  PROVE  /\ fromShell # <<>> /\ m \in Messages /\ m.type = "done" /\ fromShell' = Tail(fromShell)
         /\ UNCHANGED <<shell, wanted, cacheVars, selected, switch, sensitive, star, listLost, listVars>>
         /\ idleLists' = IF m.ok THEN idleLists ELSE idleLists + 1
         /\ toShell' = toShell \/ toShell' = Append(toShell, ListCall)
         /\ \/ detail' = NoUuid /\ pendingDisable' = FALSE
            \/ /\ UNCHANGED <<detail, pendingDisable>>
               /\ IF m.follow = "nothing"
                  THEN disableLost' = (disableLost \/ (~m.ok /\ pendingDisable /\ m.uuid = detail))
                  ELSE disableLost' = disableLost
         /\ dirs' \in SUBSET Uuids
<1>1. fromShell # <<>> /\ m.type = "done" /\ fromShell' = Tail(fromShell)
  BY DEF OnToggleDone
<1>2. m \in Messages
  BY <1>1, FirstMessage
<1>3. m.follow \in Follows
  BY <1>1, <1>2, MessageCases
<1>4. /\ UNCHANGED <<shell, wanted, cacheVars, selected, switch, sensitive, star, listLost, listVars>>
      /\ idleLists' = IF m.ok THEN idleLists ELSE idleLists + 1
  BY DEF cacheVars, OnToggleDone, shellVars
<1>5. dirs \subseteq Uuids
  BY DEF TypeOK, KnownTypes
<1>6. CASE m.follow = "uninstall"
  <2>1. DoUninstall(m.uuid)
    BY <1>6 DEF OnToggleDone
  <2> QED BY <1>1, <1>2, <1>4, <1>5, <1>6, <2>1 DEF DoUninstall, Removes
<1>7. CASE m.follow = "bridge"
  <2>1. FinishUninstall
    BY <1>7 DEF OnToggleDone
  <2> QED BY <1>1, <1>2, <1>4, <1>5, <1>7, <2>1 DEF FinishUninstall, Removes
<1>8. CASE m.follow = "nothing"
  <2>1. /\ disableLost' = (disableLost \/ (~m.ok /\ pendingDisable /\ m.uuid = detail))
        /\ UNCHANGED <<diskVars, toShell, prompts, detail, pendingDisable, errors>>
    BY <1>8 DEF OnToggleDone
  <2> QED BY <1>1, <1>2, <1>4, <1>5, <1>8, <2>1 DEF diskVars
<1> QED BY <1>3, <1>6, <1>7, <1>8 DEF Follows

LEMMA ToggleDoneTypes ==
  ASSUME TypeOK, OnToggleDone
  PROVE  TypeOK'
<1>0. KnownTypes /\ BusTypes /\ PageTypes /\ FlagTypes
  BY DEF TypeOK
<1>1. PICK m : m = Head(fromShell)
  OBVIOUS
<1>2. /\ fromShell # <<>> /\ m \in Messages /\ fromShell' = Tail(fromShell) /\ dirs' \in SUBSET Uuids
      /\ UNCHANGED <<shell, wanted, cacheVars, selected, switch, sensitive, star, listLost, listVars>>
      /\ idleLists' = IF m.ok THEN idleLists ELSE idleLists + 1
      /\ toShell' = toShell \/ toShell' = Append(toShell, ListCall)
      /\ detail' = NoUuid \/ detail' = detail
  BY <1>1, ToggleDoneProperties
<1>3. fromShell' \in Seq(Messages) /\ toShell' \in Seq(Calls)
  BY <1>0, <1>1, <1>2, FirstMessage, MessageTypes, AppendProperties DEF BusTypes
<1>4. idleLists' \in Nat
  BY <1>0, <1>2 DEF BusTypes
<1> QED BY <1>0, <1>2, <1>3, <1>4 DEF cacheVars, TypeOK, KnownTypes, BusTypes, PageTypes, FlagTypes, listVars

-----------------------------------------------------------------------------
(* What the user does, and a new session *)

\* Clicks that concern only the bridge and the dialogs.
BridgeStep == InstallBridge \/ ReinstallBridge \/ UninstallBridge \/ \E yes \in BOOLEAN : AnswerPrompt(yes)

LEMMA BridgeStepProperties ==
  ASSUME TypeOK, BridgeStep
  PROVE  /\ UNCHANGED <<shell, wanted, fromShell, cacheVars, idleLists, selected, detailVars, listVars>>
         /\ toShell' = toShell \/ toShell' = Append(toShell, Call("disable", Bridge, "bridge"))
         /\ dirs' \subseteq Uuids
<1>0. dirs \subseteq Uuids /\ Bridge \in Uuids
  BY DEF TypeOK, KnownTypes, Uuids
<1>1. CASE InstallBridge \/ ReinstallBridge
  BY <1>0, <1>1 DEF cacheVars, InstallBridge, ReinstallBridge, Click, shellVars
<1>2. CASE UninstallBridge
  <2>1. /\ UNCHANGED <<shellVars, fromShell, cacheVars, idleLists, selected, switch, sensitive, star,
                       listLost, listVars>>
        /\ \/ toShell' = Append(toShell, Call("disable", Bridge, "bridge"))
              /\ UNCHANGED <<diskVars, prompts, detail, pendingDisable, disableLost, errors>>
           \/ FinishUninstall
    BY <1>2 DEF cacheVars, UninstallBridge
  <2> QED BY <1>0, <2>1 DEF cacheVars, FinishUninstall, Removes, shellVars, diskVars, detailVars, pageVars
<1>3. ASSUME NEW yes \in BOOLEAN, AnswerPrompt(yes)
      PROVE  /\ UNCHANGED <<shell, wanted, fromShell, cacheVars, idleLists, selected, detailVars, listVars>>
             /\ toShell' = toShell
             /\ dirs' \subseteq Uuids
  BY <1>0, <1>3 DEF cacheVars, AnswerPrompt, shellVars, busVars, diskVars
<1> QED BY <1>1, <1>2, <1>3 DEF BridgeStep

LEMMA ClickTypes ==
  ASSUME TypeOK,
         \/ \E u \in Uuids : ClickRow(u)
         \/ ToggleSwitch \/ ToggleStar \/ Uninstall \/ BridgeStep \/ RebuildFromCache \/ OnIdleList
  PROVE  TypeOK'
<1>0. KnownTypes /\ BusTypes /\ PageTypes /\ FlagTypes
  BY DEF TypeOK
<1>1. \A c \in Calls : Append(toShell, c) \in Seq(Calls)
  BY <1>0, AppendProperties DEF BusTypes
<1>2. ASSUME NEW u \in Uuids, ClickRow(u)
      PROVE  TypeOK'
  <2>1. FlagTypes'
    BY <1>2 DEF ClickRow, FlagTypes
  <2>2. KnownTypes' /\ BusTypes' /\ PageTypes'
    BY <1>0, <1>2 DEF cacheVars, ClickRow, Click, shellVars, diskVars, KnownTypes, BusTypes, PageTypes
  <2> QED BY <2>1, <2>2 DEF TypeOK
<1>3. CASE ToggleSwitch
  <2>1. FlagTypes'
    BY <1>0, <1>3 DEF ToggleSwitch, FlagTypes
  <2>2. toShell' \in Seq(Calls)
    <3>1. detail \in Uuids
      BY <1>0, <1>3 DEF ToggleSwitch, PageTypes
    <3>2. toShell' = Append(toShell, Call("enable", detail, "nothing"))
          \/ toShell' = Append(toShell, Call("disable", detail, "nothing"))
      BY <1>3 DEF ToggleSwitch
    <3>3. Call("enable", detail, "nothing") \in Calls /\ Call("disable", detail, "nothing") \in Calls
      BY <3>1, MessageTypes DEF Follows
    <3> QED BY <1>1, <3>2, <3>3
  <2>3. KnownTypes' /\ PageTypes' /\ fromShell' = fromShell /\ idleLists' = idleLists
    BY <1>0, <1>3 DEF cacheVars, ToggleSwitch, Click, shellVars, diskVars, listVars, KnownTypes, PageTypes
  <2> QED BY <1>0, <2>1, <2>2, <2>3 DEF TypeOK, BusTypes
<1>4. CASE ToggleStar
  <2>1. FlagTypes'
    BY <1>0, <1>4 DEF ToggleStar, FlagTypes
  <2>2. favorites' \subseteq Uuids /\ saved' = favorites'
    <3>1. selected # NoUuid => SymDiff(favorites, {selected}) \subseteq Uuids
      BY <1>0 DEF PageTypes, SymDiff
    <3> QED BY <1>0, <1>4, <3>1 DEF ToggleStar, PageTypes
  <2>3. KnownTypes' /\ BusTypes' /\ UNCHANGED <<selected, detail, highlighted>>
    BY <1>0, <1>4 DEF cacheVars, ToggleStar, Click, shellVars, diskVars, KnownTypes, BusTypes
  <2> QED BY <1>0, <2>1, <2>2, <2>3 DEF TypeOK, PageTypes
<1>5. CASE Uninstall
  <2>1. detail \in Uuids
    BY <1>0, <1>5, PartialProperties DEF Uninstall, KnownTypes
  <2>2. toShell' \in Seq(Calls)
    BY <1>1, <1>5, <2>1, MessageTypes DEF Uninstall, Follows
  <2>3. KnownTypes' /\ PageTypes' /\ FlagTypes' /\ fromShell' = fromShell /\ idleLists' = idleLists
    BY <1>0, <1>5 DEF cacheVars, Uninstall, Click, shellVars, diskVars, detailVars, pageVars, listVars,
      KnownTypes, PageTypes, FlagTypes
  <2> QED BY <1>0, <2>2, <2>3 DEF TypeOK, BusTypes
<1>6. CASE BridgeStep
  <2>1. Call("disable", Bridge, "bridge") \in Calls
    BY MessageTypes DEF Uuids, Follows
  <2> QED BY <1>0, <1>1, <1>6, <2>1, BridgeStepProperties DEF cacheVars, detailVars, pageVars, listVars,
        TypeOK, KnownTypes, BusTypes, PageTypes, FlagTypes
<1>7. CASE RebuildFromCache
  BY <1>0, <1>7 DEF cacheVars, RebuildFromCache, shellVars, diskVars, busVars, detailVars, pageVars,
    TypeOK, KnownTypes, BusTypes, PageTypes, FlagTypes
<1>8. CASE OnIdleList
  <2>1. toShell' \in Seq(Calls) /\ idleLists' \in Nat
    BY <1>0, <1>1, <1>8, MessageTypes DEF OnIdleList, BusTypes
  <2> QED BY <1>0, <1>8, <2>1 DEF cacheVars, OnIdleList, shellVars, diskVars, detailVars, pageVars, listVars,
        TypeOK, KnownTypes, BusTypes, PageTypes, FlagTypes
<1> QED BY <1>2, <1>3, <1>4, <1>5, <1>6, <1>7, <1>8

LEMMA OneCall == <<ListCall>> \in Seq(Calls) /\ Len(<<ListCall>>) = 1 /\ <<ListCall>>[1] = ListCall
BY MessageTypes, IsASeq

LEMMA SessionTypes ==
  ASSUME TypeOK, NewSession
  PROVE  TypeOK'
<1>1. FlagTypes'
  BY DEF NewSession, FlagTypes
<1>2. shell' \in Partial
  <2>1. dirs \in SUBSET Uuids
    BY DEF TypeOK, KnownTypes
  <2>2. shell' \in [dirs -> States]
    BY DEF NewSession, States
  <2> QED BY <2>1, <2>2, PartialIntro
<1>3. wanted' \subseteq Uuids /\ dirs' = dirs
  BY DEF NewSession, TypeOK, KnownTypes, diskVars
<1>4. extensions' \in Partial
  BY NoneKnown DEF NewSession
<1>5. BusTypes'
  BY OneCall, EmptySeq DEF NewSession, BusTypes
<1> QED BY <1>1, <1>2, <1>3, <1>4, <1>5 DEF NewSession, TypeOK, KnownTypes, PageTypes

LEMMA TypesInit == Init => TypeOK
<1> SUFFICES ASSUME Init PROVE TypeOK
  OBVIOUS
<1>1. FlagTypes
  BY DEF Init, FlagTypes
<1>2. shell \in Partial
  <2>1. dirs \in SUBSET Uuids
    BY DEF Init
  <2>2. shell \in [dirs -> States]
    BY DEF Init, States
  <2> QED BY <2>1, <2>2, PartialIntro
<1>3. BusTypes
  BY OneCall, EmptySeq DEF Init, BusTypes
<1>4. extensions \in Partial
  BY NoneKnown DEF Init
<1> QED BY <1>1, <1>2, <1>3, <1>4 DEF Init, TypeOK, KnownTypes, PageTypes

LEMMA NextCases ==
  ASSUME [Next]_vars
  PROVE  \/ TakeCall
         \/ \E u \in Uuids : FollowSetting(u)
         \/ \E u \in Uuids : ChangeOutside(u)
         \/ \E u \in Uuids : ClickRow(u)
         \/ Hears \/ ListFails \/ OnToggleDone \/ OnIdleList
         \/ ToggleSwitch \/ ToggleStar \/ RebuildFromCache \/ Uninstall
         \/ BridgeStep \/ NewSession
         \/ UNCHANGED vars
BY DEF Next, Hears, ListFails, BridgeStep

LEMMA TypesStep ==
  ASSUME TypeOK, [Next]_vars
  PROVE  TypeOK'
<1>1. CASE UNCHANGED vars
  BY <1>1 DEF cacheVars, vars, shellVars, diskVars, busVars, detailVars, pageVars, listVars,
    TypeOK, KnownTypes, BusTypes, PageTypes, FlagTypes
<1> QED BY <1>1, NextCases, TakeTypes, FollowTypes, OutsideTypes, HearsTypes, ListFailsTypes, ToggleDoneTypes,
      ClickTypes, SessionTypes

-----------------------------------------------------------------------------
(* The window *)

\* The section a row belongs in.
Section(u) == IF u \in favorites THEN "favorites" ELSE IF extensions[u] = "ENABLED" THEN "enabled" ELSE "disabled"

WindowInv ==
  /\ selected = NoUuid => detail = NoUuid /\ (highlighted \in DOMAIN extensions => returned)
  /\ selected # NoUuid => /\ selected \in DOMAIN extensions \ {Bridge} /\ highlighted = selected
                          /\ detail \in {selected, NoUuid}
  /\ detail # NoUuid => (star <=> detail \in favorites)
  /\ DOMAIN rows = DOMAIN extensions \ {Bridge}
  /\ ~idleRebuild => \A u \in DOMAIN rows : rows[u] = Section(u)

LEMMA Rebuilt ==
  ASSUME rows' = Sections(extensions'), favorites' = favorites
  PROVE  /\ DOMAIN rows' = DOMAIN extensions' \ {Bridge}
         /\ \A u \in DOMAIN rows' : rows'[u] = Section(u)'
BY DEF Sections, Section

LEMMA WindowStep ==
  ASSUME TypeOK, WindowInv, [Next]_vars
  PROVE  WindowInv'
<1>0. NoUuid \notin Uuids /\ PageTypes
  BY ShellExtensionsAssumption DEF TypeOK
<1>1. ASSUME UNCHANGED <<cacheVars, selected, detail, star, listVars>>
      PROVE  WindowInv'
  BY <1>1 DEF WindowInv, Section, cacheVars, listVars
<1>2. CASE TakeCall
  BY <1>1, <1>2 DEF cacheVars, TakeCall, detailVars, pageVars
<1>3. ASSUME NEW u \in Uuids, FollowSetting(u) \/ ChangeOutside(u)
      PROVE  WindowInv'
  BY <1>1, <1>3 DEF cacheVars, FollowSetting, ChangeOutside, detailVars, pageVars
<1>4. ASSUME NEW u \in Uuids, ClickRow(u)
      PROVE  WindowInv'
  <2>1. u \in DOMAIN extensions \ {Bridge} /\ u # NoUuid
    BY <1>0, <1>4 DEF ClickRow, WindowInv
  <2>2. /\ highlighted' = u /\ selected' = u /\ detail' = u
        /\ UNCHANGED <<extensions, favorites, rows, idleRebuild>>
    BY <1>4 DEF cacheVars, ClickRow, Click
  <2>3. star' <=> u \in favorites
    BY <1>4 DEF ClickRow
  <2> QED BY <2>1, <2>2, <2>3 DEF WindowInv, Section
<1>5. CASE Hears
  <2>1. PICK m : m = Head(fromShell)
    OBVIOUS
  <2>2. EmitChanged /\ extensions' \in Partial
    BY <1>5, <2>1, HearsProperties
  <2>3. /\ UNCHANGED <<favorites, highlighted, idleRebuild>>
        /\ rows' = Sections(extensions')
    BY <2>2, EmitProperties
  <2>4. CASE Gone
    <3>1. selected' = NoUuid /\ detail' = NoUuid
      BY <2>2, <2>4, EmitProperties
    <3>2. highlighted' \notin DOMAIN extensions'
      BY <2>3, <2>4 DEF Gone, WindowInv
    <3> QED BY <2>3, <3>1, <3>2, Rebuilt DEF WindowInv
  <2>5. CASE ~Gone
    <3>1. UNCHANGED <<selected, detail, star>>
      BY <2>2, <2>5, EmitProperties
    <3>2. selected # NoUuid => selected \in DOMAIN extensions'
      BY <2>5 DEF Gone
    <3>3. /\ DOMAIN rows' = DOMAIN extensions' \ {Bridge}
          /\ \A u \in DOMAIN rows' : rows'[u] = Section(u)'
      BY <2>3, Rebuilt
    <3>4. selected = NoUuid => (highlighted \in DOMAIN extensions' => returned')
      BY <2>2, EmitProperties DEF WindowInv
    <3> QED BY <2>3, <3>1, <3>2, <3>3, <3>4 DEF WindowInv
  <2> QED BY <2>4, <2>5
<1>14. CASE ListFails
  <2>1. PICK m : m = Head(fromShell)
    OBVIOUS
  <2> QED BY <1>1, <1>14, <2>1, ListFailsProperties DEF pageVars
<1>6. CASE OnToggleDone
  <2>1. PICK m : m = Head(fromShell)
    OBVIOUS
  <2>2. UNCHANGED <<cacheVars, selected, star, listVars>> /\ detail' \in {detail, NoUuid}
    BY <1>6, <2>1, ToggleDoneProperties
  <2> QED BY <2>2 DEF WindowInv, Section, cacheVars, listVars
<1>7. CASE OnIdleList \/ Uninstall
  BY <1>1, <1>7 DEF cacheVars, OnIdleList, Uninstall, Click, detailVars, pageVars
<1>8. CASE ToggleSwitch
  BY <1>1, <1>8 DEF cacheVars, ToggleSwitch, Click
<1>9. CASE ToggleStar
  <2>1. detail # NoUuid /\ idleRebuild' = TRUE
        /\ UNCHANGED <<extensions, returned, selected, detail, highlighted, rows>>
    BY <1>9 DEF cacheVars, ToggleStar, Click
  <2>2. selected # NoUuid /\ detail = selected
    BY <2>1 DEF WindowInv
  <2>3. favorites' = (favorites \cup {detail}) \ (favorites \cap {detail})
    BY <1>9, <2>2 DEF ToggleStar, SymDiff
  <2>4. star' <=> ~star
    BY <1>9 DEF ToggleStar
  <2>5. star' <=> detail \in favorites'
    BY <2>1, <2>3, <2>4 DEF WindowInv
  <2> QED BY <2>1, <2>2, <2>5 DEF WindowInv
<1>10. CASE RebuildFromCache
  <2>1. /\ rows' = Sections(extensions')
        /\ UNCHANGED <<extensions, returned, favorites, selected, detail, star, highlighted>>
    BY <1>10 DEF cacheVars, RebuildFromCache, detailVars, pageVars
  <2> QED BY <2>1, Rebuilt DEF WindowInv
<1>11. CASE BridgeStep
  BY <1>1, <1>11, BridgeStepProperties DEF detailVars, pageVars
<1>12. CASE NewSession
  <2>1. selected' = NoUuid /\ detail' = NoUuid /\ extensions' = <<>> /\ rows' = <<>>
    BY <1>12 DEF NewSession
  <2> QED BY <2>1, NoneKnown DEF WindowInv
<1>13. CASE UNCHANGED vars
  BY <1>1, <1>13 DEF cacheVars, vars, detailVars, pageVars
<1> QED BY <1>2, <1>3, <1>4, <1>5, <1>6, <1>7, <1>8, <1>9, <1>10, <1>11, <1>12, <1>13, <1>14, NextCases

LEMMA WindowInit == Init => WindowInv
BY NoneKnown DEF Init, WindowInv

\* The types, as an invariant, whatever the user, the shell and other programs do.
THEOREM ShellIsTyped == Spec => []TypeOK
<1>1. TypeOK /\ [Next]_vars => TypeOK'
  BY TypesStep
<1> QED BY <1>1, TypesInit, PTL DEF Spec

\* The sidebar, the details page and the main window speak of the same extension, or of none unless
\* the one that was selected when it was removed has come back, the star is the
\* one in the favorites, and each row is in its section: _on_row_selected, _on_favorite_toggled,
\* extensions-changed and the rebuild that waits for the idle never get out of step.
THEOREM AlwaysAgreeOnWindow == Spec => []WindowAgrees
<1>1. TypeOK /\ WindowInv /\ [Next]_vars => (TypeOK /\ WindowInv)'
  BY TypesStep, WindowStep
<1>2. TypeOK /\ WindowInv => WindowAgrees
  <2> SUFFICES ASSUME TypeOK, WindowInv PROVE WindowAgrees
    OBVIOUS
  <2>1. star \in BOOLEAN
    BY DEF TypeOK, FlagTypes
  <2>2. detail # NoUuid => star = (detail \in favorites)
    BY <2>1 DEF WindowInv
  <2> QED BY <2>2 DEF WindowInv, WindowAgrees, Section
<1> QED BY <1>1, <1>2, TypesInit, WindowInit, PTL DEF Spec

-----------------------------------------------------------------------------
(* What the client will have heard.  The last message on its way that concerns an extension, a    *)
(* list or a signal of it, tells the state the extension is in; when there is none, the client    *)
(* has the state, or has had no list yet.                                                         *)

SameAt(f, g, u) == (u \in DOMAIN f <=> u \in DOMAIN g) /\ (u \in DOMAIN f => f[u] = g[u])

Concerns(m, u) == (m.type = "list" /\ m.ok) \/ (m.type = "signal" /\ m.uuid = u)

Tells(m, known, u) ==
  IF m.type = "list" THEN SameAt(m.states, known, u)
  ELSE IF m.state = "UNINSTALLED" THEN u \notin DOMAIN known
  ELSE u \in DOMAIN known /\ known[u] = m.state

Silent(q, u) == \A i \in 1..Len(q) : ~Concerns(q[i], u)

LastTells(q, known, u) == \E i \in 1..Len(q) :
  Concerns(q[i], u) /\ Tells(q[i], known, u) /\ \A k \in 1..Len(q) : k > i => ~Concerns(q[k], u)

\* q is on its way to the client; the shell has known, the client has heard, of all there were when
\* it had a list.
Agrees(q, all, known, heard, u) ==
  /\ Silent(q, u) \/ LastTells(q, known, u)
  /\ Silent(q, u) => /\ u \in DOMAIN heard => u \in DOMAIN known /\ heard[u] = known[u]
                     /\ u \notin DOMAIN heard => u \notin DOMAIN known \/ ~all

CacheInv == \A u \in Uuids : Agrees(fromShell, listed, shell, extensions, u)

LEMMA AppendedMessage ==
  ASSUME NEW q \in Seq(Messages), NEW m \in Messages
  PROVE  /\ Append(q, m) \in Seq(Messages) /\ Len(Append(q, m)) = Len(q) + 1 /\ Len(q) \in Nat
         /\ \A i \in 1..Len(q) : Append(q, m)[i] = q[i]
         /\ Append(q, m)[Len(q) + 1] = m
BY AppendProperties, LenProperties

\* A message that tells the state, or does not concern the extension, is sent.
LEMMA AgreesAppend ==
  ASSUME NEW q \in Seq(Messages), NEW m \in Messages, NEW all, NEW known, NEW known2, NEW heard,
         NEW u, Agrees(q, all, known, heard, u),
         Concerns(m, u) => Tells(m, known2, u),
         ~Concerns(m, u) => SameAt(known, known2, u)
  PROVE  Agrees(Append(q, m), all, known2, heard, u)
<1>1. PICK n \in Nat : n = Len(q)
  BY LenProperties
<1>2. PICK p : p = Append(q, m)
  OBVIOUS
<1>3. Len(p) = n + 1 /\ p[n + 1] = m /\ \A i \in 1..n : p[i] = q[i]
  BY <1>1, <1>2, AppendedMessage
<1>4. CASE Concerns(m, u)
  <2>1. LastTells(p, known2, u)
    <3>1. n + 1 \in 1..(n + 1) /\ \A k \in 1..(n + 1) : ~(k > n + 1)
      OBVIOUS
    <3> QED BY <1>3, <1>4, <3>1 DEF LastTells
  <2>2. ~Silent(p, u)
    BY <1>3, <1>4 DEF Silent
  <2> QED BY <1>2, <2>1, <2>2 DEF Agrees
<1>5. CASE ~Concerns(m, u)
  <2>1. ASSUME LastTells(q, known, u)
        PROVE  LastTells(p, known2, u)
    <3>1. PICK i \in 1..n : Concerns(q[i], u) /\ Tells(q[i], known, u)
                            /\ \A k \in 1..n : k > i => ~Concerns(q[k], u)
      BY <1>1, <2>1 DEF LastTells
    <3>2. i \in 1..(n + 1) /\ p[i] = q[i]
      BY <1>3
    <3>3. Tells(p[i], known2, u)
      BY <1>5, <3>1, <3>2 DEF Tells, SameAt
    <3>4. \A k \in 1..(n + 1) : k > i => ~Concerns(p[k], u)
      BY <1>3, <1>5, <3>1
    <3> QED BY <1>3, <3>1, <3>2, <3>3, <3>4 DEF LastTells
  <2>2. Silent(p, u) <=> Silent(q, u)
    BY <1>1, <1>3, <1>5 DEF Silent
  <2> QED BY <1>2, <1>5, <2>1, <2>2 DEF Agrees, SameAt
<1> QED BY <1>4, <1>5

\* The first message is taken.
LEMMA AgreesTail ==
  ASSUME NEW q \in Seq(Messages), q # <<>>, NEW m, m = Head(q), NEW all, NEW all2, NEW known, NEW heard,
         NEW heard2, NEW u, Agrees(q, all, known, heard, u),
         Concerns(m, u) /\ Tells(m, known, u) => SameAt(heard2, known, u),
         ~Concerns(m, u) => SameAt(heard2, heard, u) /\ (all2 => all)
  PROVE  Agrees(Tail(q), all2, known, heard2, u)
<1>1. PICK n \in Nat : n = Len(q) /\ n > 0
  BY LenProperties, EmptySeq
<1>2. PICK p : p = Tail(q)
  OBVIOUS
<1>3. Len(p) = n - 1 /\ m = q[1] /\ \A i \in 1..(n - 1) : p[i] = q[i + 1]
  BY <1>1, <1>2, HeadTailProperties
<1>4. \A k \in 1..n : k > 1 => k - 1 \in 1..(n - 1) /\ p[k - 1] = q[k]
  <2> SUFFICES ASSUME NEW k \in 1..n, k > 1
               PROVE  k - 1 \in 1..(n - 1) /\ p[k - 1] = q[k]
    OBVIOUS
  <2>1. k - 1 \in 1..(n - 1) /\ k = (k - 1) + 1
    BY <1>1
  <2> QED BY <1>3, <2>1
<1>5. ASSUME NEW i \in 1..n, i > 1, Concerns(q[i], u), Tells(q[i], known, u),
             \A k \in 1..n : k > i => ~Concerns(q[k], u)
      PROVE  LastTells(p, known, u)
  <2>1. i - 1 \in 1..(n - 1) /\ p[i - 1] = q[i]
    BY <1>4, <1>5
  <2>2. ASSUME NEW k \in 1..(n - 1), k > i - 1
        PROVE  ~Concerns(p[k], u)
    <3>1. k + 1 \in 1..n /\ k + 1 > i
      BY <1>1, <2>2
    <3> QED BY <1>3, <1>5, <3>1
  <2> QED BY <1>3, <1>5, <2>1, <2>2 DEF LastTells
<1>6. ASSUME \A k \in 1..n : k > 1 => ~Concerns(q[k], u)
      PROVE  Silent(p, u)
  <2> SUFFICES ASSUME NEW k \in 1..(n - 1)
               PROVE  ~Concerns(p[k], u)
    BY <1>3 DEF Silent
  <2>1. k + 1 \in 1..n /\ k + 1 > 1
    BY <1>1
  <2> QED BY <1>3, <1>6, <2>1
<1>7. ASSUME Silent(p, u)
      PROVE  \A k \in 1..n : k > 1 => ~Concerns(q[k], u)
  BY <1>3, <1>4, <1>7 DEF Silent
<1>8. CASE Silent(q, u)
  <2>1. ~Concerns(m, u) /\ Silent(p, u)
    BY <1>1, <1>3, <1>6, <1>8 DEF Silent
  <2> QED BY <1>2, <1>8, <2>1 DEF Agrees, SameAt
<1>9. CASE ~Silent(q, u)
  <2>1. PICK i \in 1..n : Concerns(q[i], u) /\ Tells(q[i], known, u)
                          /\ \A k \in 1..n : k > i => ~Concerns(q[k], u)
    BY <1>1, <1>9 DEF Agrees, LastTells
  <2>2. CASE i = 1
    <3>1. Silent(p, u) /\ SameAt(heard2, known, u)
      BY <1>3, <1>6, <2>1, <2>2
    <3> QED BY <1>2, <3>1 DEF Agrees, SameAt
  <2>3. CASE i > 1
    <3>1. LastTells(p, known, u) /\ ~Silent(p, u)
      BY <1>5, <1>7, <2>1, <2>3
    <3> QED BY <1>2, <3>1 DEF Agrees
  <2> QED BY <1>1, <2>2, <2>3
<1> QED BY <1>8, <1>9

\* Nothing is said or heard.
LEMMA AgreesKept ==
  ASSUME CacheInv, UNCHANGED <<shell, cacheVars, fromShell>>
  PROVE  CacheInv'
BY DEF CacheInv, cacheVars

LEMMA TakeAgrees ==
  ASSUME TypeOK, CacheInv, TakeCall
  PROVE  CacheInv'
<1>1. PICK c : c = Head(toShell)
  OBVIOUS
<1>2. c \in Calls
  BY <1>1, RepliesTyped DEF TakeCall
<1>3. /\ UNCHANGED <<shell, extensions, listed>>
      /\ fromShell \in Seq(Messages) /\ shell \in Partial
  BY DEF TakeCall, cacheVars, TypeOK, BusTypes, KnownTypes
<1> SUFFICES ASSUME NEW u \in Uuids PROVE Agrees(fromShell', listed, shell, extensions, u)
  BY <1>3 DEF CacheInv
<1>5. Agrees(fromShell, listed, shell, extensions, u) /\ SameAt(shell, shell, u)
  BY DEF CacheInv, SameAt
<1>6. ASSUME NEW ok \in BOOLEAN, fromShell' = Append(fromShell, ListReply(ok))
      PROVE  Agrees(fromShell', listed, shell, extensions, u)
  <2>1. PICK m : m = ListReply(ok)
    OBVIOUS
  <2>2. m \in Messages /\ m.type = "list" /\ m.ok = ok /\ (ok => m.states = shell)
    BY <1>3, <2>1, ListReplyTyped
  <2>3. Concerns(m, u) => Tells(m, shell, u)
    BY <1>5, <2>2 DEF Concerns, Tells
  <2>4. fromShell' = Append(fromShell, m)
    BY <1>6, <2>1
  <2> QED BY <1>3, <1>5, <2>2, <2>3, <2>4, AgreesAppend
<1>7. ASSUME c.method # "list"
      PROVE  \A ok \in BOOLEAN : Agrees(Append(fromShell, DoneReply(c, ok)), listed, shell, extensions, u)
  <2> SUFFICES ASSUME NEW ok \in BOOLEAN
               PROVE  Agrees(Append(fromShell, DoneReply(c, ok)), listed, shell, extensions, u)
    OBVIOUS
  <2>1. DoneReply(c, ok) \in Messages /\ ~Concerns(DoneReply(c, ok), u)
    BY <1>2, <1>7, MessageTypes DEF DoneReply, Concerns
  <2> QED BY <1>3, <1>5, <2>1, AgreesAppend
<1>8. ASSUME c.method # "list", c.uuid \in DOMAIN shell, shell[c.uuid] = "ENABLED",
             fromShell' = Append(Append(fromShell, DoneReply(c, TRUE)), Signal(c.uuid, "ENABLED"))
      PROVE  Agrees(fromShell', listed, shell, extensions, u)
  <2>1. PICK q : q = Append(fromShell, DoneReply(c, TRUE))
    OBVIOUS
  <2>2. Agrees(q, listed, shell, extensions, u)
    BY <1>7, <1>8, <2>1
  <2>3. q \in Seq(Messages)
    BY <1>2, <1>3, <1>8, <2>1, MessageTypes, AppendProperties
  <2>4. PICK m : m = Signal(c.uuid, "ENABLED")
    OBVIOUS
  <2>5. m \in Messages /\ (Concerns(m, u) => Tells(m, shell, u))
    BY <1>2, <1>8, <2>4, CallCases, MessageTypes DEF Signal, Concerns, Tells, States
  <2>6. fromShell' = Append(q, m)
    BY <1>8, <2>1, <2>4
  <2> QED BY <1>5, <2>2, <2>3, <2>5, <2>6, AgreesAppend
<1> QED BY <1>1, <1>6, <1>7, <1>8, TakenProperties

LEMMA FollowAgrees ==
  ASSUME TypeOK, CacheInv, NEW v \in Uuids, FollowSetting(v)
  PROVE  CacheInv'
<1>1. PICK state \in States : SetState(v, state)
  BY DEF FollowSetting, States, Transient
<1>2. v \in DOMAIN shell /\ UNCHANGED <<listed, extensions>> /\ fromShell \in Seq(Messages)
  BY DEF FollowSetting, cacheVars, TypeOK, BusTypes
<1>3. DOMAIN shell' = DOMAIN shell /\ shell'[v] = state /\ \A u \in DOMAIN shell \ {v} : shell'[u] = shell[u]
  BY <1>1, <1>2, PartialProperties DEF SetState, TypeOK, KnownTypes
<1> SUFFICES ASSUME NEW u \in Uuids PROVE Agrees(fromShell', listed, shell', extensions, u)
  BY <1>2 DEF CacheInv
<1>4. Agrees(fromShell, listed, shell, extensions, u)
  BY DEF CacheInv
<1>5. PICK m : m = Signal(v, state)
  OBVIOUS
<1>6. m \in Messages /\ fromShell' = Append(fromShell, m)
  BY <1>1, <1>5, MessageTypes DEF SetState
<1>7. Concerns(m, u) => Tells(m, shell', u)
  BY <1>2, <1>3, <1>5 DEF Signal, Concerns, Tells, States, Transient
<1>8. ~Concerns(m, u) => SameAt(shell, shell', u)
  BY <1>3, <1>5 DEF Signal, Concerns, SameAt
<1> QED BY <1>2, <1>4, <1>6, <1>7, <1>8, AgreesAppend

LEMMA OutsideAgrees ==
  ASSUME TypeOK, CacheInv, NEW v \in Uuids, ChangeOutside(v)
  PROVE  CacheInv'
<1>1. UNCHANGED <<listed, extensions>> /\ fromShell \in Seq(Messages)
  BY OutsideProperties DEF cacheVars, TypeOK, BusTypes
<1>2. CASE shell' = shell /\ fromShell' = fromShell
  BY <1>1, <1>2 DEF CacheInv
<1>3. ASSUME NEW state \in {"UNINSTALLED", "DISABLED"}, fromShell' = Append(fromShell, Signal(v, state)),
             state = "UNINSTALLED" => shell' = [w \in DOMAIN shell \ {v} |-> shell[w]],
             state = "DISABLED" =>
               shell' = [w \in DOMAIN shell \cup {v} |-> IF w = v THEN "DISABLED" ELSE shell[w]]
      PROVE  CacheInv'
  <2> SUFFICES ASSUME NEW u \in Uuids PROVE Agrees(fromShell', listed, shell', extensions, u)
    BY <1>1 DEF CacheInv
  <2>1. Agrees(fromShell, listed, shell, extensions, u)
    BY DEF CacheInv
  <2>2. PICK m : m = Signal(v, state)
    OBVIOUS
  <2>3. m \in Messages /\ fromShell' = Append(fromShell, m)
    BY <1>3, <2>2, MessageTypes DEF States
  <2>4. Concerns(m, u) => Tells(m, shell', u)
    BY <1>3, <2>2 DEF Signal, Concerns, Tells
  <2>5. ~Concerns(m, u) => SameAt(shell, shell', u)
    BY <1>3, <2>2 DEF Signal, Concerns, SameAt
  <2> QED BY <1>1, <2>1, <2>3, <2>4, <2>5, AgreesAppend
<1> QED BY <1>2, <1>3, OutsideProperties

LEMMA HearsAgrees ==
  ASSUME TypeOK, CacheInv, Hears
  PROVE  CacheInv'
<1>1. PICK m : m = Head(fromShell)
  OBVIOUS
<1>2. /\ fromShell # <<>> /\ m \in Messages /\ (m.type = "signal" \/ (m.type = "list" /\ m.ok))
      /\ fromShell' = Tail(fromShell) /\ extensions' = Learnt(m) /\ shell' = shell
      /\ listed' => listed \/ m.type = "list"
  BY <1>1, HearsProperties
<1>3. fromShell \in Seq(Messages)
  BY DEF TypeOK, BusTypes
<1> SUFFICES ASSUME NEW u \in Uuids PROVE Agrees(fromShell', listed', shell, extensions', u)
  BY <1>2 DEF CacheInv
<1>5. Agrees(fromShell, listed, shell, extensions, u)
  BY DEF CacheInv
<1>6. Concerns(m, u) /\ Tells(m, shell, u) => SameAt(extensions', shell, u)
  BY <1>2 DEF Concerns, Tells, SameAt, Learnt
<1>7. ~Concerns(m, u) => SameAt(extensions', extensions, u) /\ (listed' => listed)
  BY <1>2 DEF Concerns, SameAt, Learnt
<1> QED BY <1>1, <1>2, <1>3, <1>5, <1>6, <1>7, AgreesTail

\* A reply that tells of no state comes in.
LEMMA RepliedAgrees ==
  ASSUME TypeOK, CacheInv, ListFails \/ OnToggleDone
  PROVE  CacheInv'
<1>1. PICK m : m = Head(fromShell)
  OBVIOUS
<1>2. /\ fromShell # <<>> /\ m \in Messages /\ (m.type = "done" \/ (m.type = "list" /\ ~m.ok))
      /\ fromShell' = Tail(fromShell)
      /\ UNCHANGED <<shell, extensions, listed>>
  BY <1>1, ToggleDoneProperties, ListFailsProperties DEF cacheVars
<1>3. fromShell \in Seq(Messages)
  BY DEF TypeOK, BusTypes
<1> SUFFICES ASSUME NEW u \in Uuids PROVE Agrees(fromShell', listed, shell, extensions, u)
  BY <1>2 DEF CacheInv
<1>5. Agrees(fromShell, listed, shell, extensions, u)
  BY DEF CacheInv
<1>6. ~Concerns(m, u) /\ SameAt(extensions, extensions, u)
  BY <1>2 DEF Concerns, SameAt
<1> QED BY <1>1, <1>2, <1>3, <1>5, <1>6, AgreesTail

\* The app starts: it knows nothing, and has had no list.
LEMMA StartAgrees ==
  ASSUME NEW known, NEW u
  PROVE  Agrees(<<>>, FALSE, known, <<>>, u)
<1>1. Len(<<>>) = 0
  BY EmptySeq
<1> QED BY <1>1, NoneKnown DEF Agrees, LastTells, Silent

LEMMA CacheInit == Init => CacheInv
BY StartAgrees DEF Init, CacheInv

LEMMA CacheStep ==
  ASSUME TypeOK, CacheInv, [Next]_vars
  PROVE  CacheInv'
<1>2. CASE NewSession
  BY <1>2, StartAgrees DEF NewSession, CacheInv
<1>3. CASE \/ OnIdleList \/ RebuildFromCache \/ ToggleStar \/ ToggleSwitch \/ Uninstall
           \/ \E u \in Uuids : ClickRow(u)
  BY <1>3, AgreesKept DEF OnIdleList, RebuildFromCache, ToggleStar, ToggleSwitch, Uninstall, ClickRow,
    Click, shellVars, busVars
<1>6. CASE BridgeStep
  BY <1>6, BridgeStepProperties, AgreesKept
<1>7. CASE UNCHANGED vars
  BY <1>7, AgreesKept DEF vars, shellVars, busVars
<1> QED BY <1>2, <1>3, <1>6, <1>7, NextCases, TakeAgrees, FollowAgrees, OutsideAgrees,
      HearsAgrees, RepliedAgrees

\* When nothing is on its way all the client has is as the shell has it, and it has all once a list
\* has come in: every change is told by a signal sent after any list made before it, and
\* _on_dbus_signal and _on_list_done take them in order, whatever calls and lists fail and whatever
\* other programs do.
THEOREM CacheAlwaysAgrees == Spec => []CacheAgrees
<1>1. TypeOK /\ CacheInv /\ [Next]_vars => (TypeOK /\ CacheInv)'
  BY TypesStep, CacheStep
<1>2. TypeOK /\ CacheInv => CacheAgrees
  <2> SUFFICES ASSUME TypeOK, CacheInv, Quiet
               PROVE  /\ \A u \in DOMAIN extensions : u \in DOMAIN shell /\ extensions[u] = shell[u]
                      /\ listed => DOMAIN extensions = DOMAIN shell
    BY DEF CacheAgrees
  <2>1. fromShell = <<>> /\ Len(<<>>) = 0
    BY EmptySeq DEF Quiet
  <2>2. \A u \in Uuids : Silent(fromShell, u)
    BY <2>1 DEF Silent
  <2>3. \A u \in Uuids : /\ u \in DOMAIN extensions => u \in DOMAIN shell /\ extensions[u] = shell[u]
                         /\ u \notin DOMAIN extensions => u \notin DOMAIN shell \/ ~listed
    BY <2>2 DEF CacheInv, Agrees
  <2>4. DOMAIN shell \subseteq Uuids /\ DOMAIN extensions \subseteq Uuids
    BY PartialProperties DEF TypeOK, KnownTypes
  <2> QED BY <2>3, <2>4
<1> QED BY <1>1, <1>2, TypesInit, CacheInit, PTL DEF Spec

-----------------------------------------------------------------------------
(* The switch of the details page *)

On(q) == {q[i] : i \in 1..Len(q)}

LEMMA OnAppend ==
  ASSUME NEW S, NEW q \in Seq(S), NEW m \in S
  PROVE  On(Append(q, m)) = On(q) \cup {m}
<1>1. PICK n \in Nat : n = Len(q)
  BY LenProperties
<1>2. PICK p : p = Append(q, m)
  OBVIOUS
<1>3. Len(p) = n + 1 /\ p[n + 1] = m /\ \A i \in 1..n : p[i] = q[i]
  BY <1>1, <1>2, AppendProperties
<1>4. 1..(n + 1) = (1..n) \cup {n + 1}
  OBVIOUS
<1>5. On(p) = {p[i] : i \in 1..(n + 1)} /\ On(q) = {q[i] : i \in 1..n}
  BY <1>1, <1>3 DEF On
<1> QED BY <1>2, <1>3, <1>4, <1>5

LEMMA OnTail ==
  ASSUME NEW S, NEW q \in Seq(S), q # <<>>
  PROVE  On(q) = On(Tail(q)) \cup {Head(q)}
<1>1. PICK n \in Nat : n = Len(q) /\ n > 0
  BY LenProperties, EmptySeq
<1>2. PICK p : p = Tail(q)
  OBVIOUS
<1>3. Len(p) = n - 1 /\ Head(q) = q[1] /\ \A i \in 1..(n - 1) : p[i] = q[i + 1]
  BY <1>1, <1>2, HeadTailProperties
<1>4. On(p) = {p[i] : i \in 1..(n - 1)} /\ On(q) = {q[i] : i \in 1..n}
  BY <1>1, <1>3 DEF On
<1>5. \A k \in 1..n : k = 1 \/ (k - 1 \in 1..(n - 1) /\ p[k - 1] = q[k])
  <2> SUFFICES ASSUME NEW k \in 1..n, k # 1
               PROVE  k - 1 \in 1..(n - 1) /\ p[k - 1] = q[k]
    OBVIOUS
  <2>1. k - 1 \in 1..(n - 1) /\ k = (k - 1) + 1
    BY <1>1
  <2> QED BY <1>3, <2>1
<1>6. \A i \in 1..(n - 1) : i + 1 \in 1..n
  BY <1>1
<1>7. On(q) \subseteq On(p) \cup {Head(q)}
  <2> SUFFICES ASSUME NEW k \in 1..n PROVE q[k] \in On(p) \cup {Head(q)}
    BY <1>4
  <2>1. CASE k = 1
    BY <1>3, <2>1
  <2>2. CASE k # 1
    <3>1. k - 1 \in 1..(n - 1) /\ p[k - 1] = q[k]
      BY <1>5, <2>2
    <3> QED BY <1>4, <3>1
  <2> QED BY <2>1, <2>2
<1>8. On(p) \subseteq On(q)
  BY <1>3, <1>4, <1>6
<1>9. Head(q) \in On(q)
  BY <1>1, <1>3, <1>4
<1> QED BY <1>2, <1>7, <1>8, <1>9

LEMMA OnSent == \A q \in Seq(Messages), m \in Messages : On(Append(q, m)) = On(q) \cup {m}
BY OnAppend

LEMMA OnAsked == \A t \in Seq(Calls), c \in Calls : On(Append(t, c)) = On(t) \cup {c}
BY OnAppend

LEMMA OnEmpty == On(<<>>) = {}
BY EmptySeq DEF On

\* Messages after which the page no longer waits for the extension to be disabled.
Clears(m, u) ==
  \/ m.type = "signal" /\ m.uuid = u /\ m.state \in {"DISABLING", "DISABLED", "UNINSTALLED"}
  \/ m.type = "list" /\ m.ok /\ (u \in DOMAIN m.states => m.states[u] \in {"DISABLING", "DISABLED"})

FailedDone(m, u) == m.type = "done" /\ ~m.ok /\ m.uuid = u /\ m.follow = "nothing"

\* Why the page is right to wait: the extension is still to be disabled, or has been, and the news
\* is on its way.
Disabling(u) ==
  \/ Call("disable", u, "nothing") \in On(toShell)
  \/ \E m \in On(fromShell) : FailedDone(m, u) \/ Clears(m, u)
  \/ u \notin wanted

PendingInv == pendingDisable /\ ~disableLost /\ detail # NoUuid => Disabling(detail)

\* A disable is asked for after each call to enable the extension.
DisabledLast(t, u) == \A i \in 1..Len(t) :
  t[i].method = "enable" /\ t[i].uuid = u =>
    \E k \in 1..Len(t) : k > i /\ t[k] = Call("disable", u, "nothing")

LastCallInv == pendingDisable /\ detail # NoUuid => DisabledLast(toShell, detail)

\* The shell has not done what is wanted of the extension.
Unfollowed(u) == u \in DOMAIN shell /\ (shell[u] \in Transient \/ (shell[u] = "ENABLED" <=> u \notin wanted))

\* Something will be heard of the extension yet.
Underway(u) ==
  \/ \E m \in On(fromShell) : m.type = "done" => ~m.ok
  \/ idleLists > 0
  \/ \E c \in On(toShell) : c.method = "list" \/ (c.method = "enable" /\ c.uuid = u)
  \/ Unfollowed(u)

\* The switch shows the state, or is ahead of it: switched on by the user, not yet by the shell, or
\* never, and the list that would have told so failed.
SyncInv == detail # NoUuid =>
  /\ sensitive <=> extensions[detail] \notin Transient
  /\ \/ switch <=> (extensions[detail] = "ENABLED" /\ ~pendingDisable)
     \/ switch /\ ~pendingDisable /\ (Underway(detail) \/ listLost)

SwitchInv == PendingInv /\ LastCallInv /\ SyncInv

\* Everything the proofs of the switch rest on.
PageInv == TypeOK /\ WindowInv /\ CacheInv

LEMMA DetailIsKnown ==
  ASSUME PageInv, detail # NoUuid
  PROVE  detail = selected /\ detail \in DOMAIN extensions /\ detail \in Uuids /\ detail # Bridge
BY DEF PageInv, TypeOK, WindowInv, PageTypes

\* A state the client has not got is on its way.
LEMMA NewsUnderway ==
  ASSUME PageInv, detail # NoUuid, \A m \in On(fromShell) : ~Clears(m, detail)
  PROVE  /\ detail \in DOMAIN shell
         /\ shell[detail] = "DISABLED" => extensions[detail] = "DISABLED"
<1>1. Agrees(fromShell, listed, shell, extensions, detail) /\ detail \in DOMAIN extensions
  BY DetailIsKnown DEF PageInv, CacheInv
<1>2. CASE Silent(fromShell, detail)
  BY <1>1, <1>2 DEF Agrees
<1>3. CASE LastTells(fromShell, shell, detail)
  <2>1. PICK m \in On(fromShell) : Concerns(m, detail) /\ Tells(m, shell, detail)
    BY <1>3 DEF LastTells, On
  <2>2. ~Clears(m, detail)
    BY <2>1
  <2> QED BY <2>1, <2>2 DEF Concerns, Tells, SameAt, Clears
<1> QED BY <1>1, <1>2, <1>3 DEF Agrees

LEMMA DisabledLastAppend ==
  ASSUME NEW t \in Seq(Calls), NEW c \in Calls, NEW u,
         \/ DisabledLast(t, u) /\ ~(c.method = "enable" /\ c.uuid = u)
         \/ c = Call("disable", u, "nothing")
  PROVE  DisabledLast(Append(t, c), u)
<1>1. PICK n \in Nat : n = Len(t)
  BY LenProperties
<1>2. PICK p : p = Append(t, c)
  OBVIOUS
<1>3. Len(p) = n + 1 /\ p[n + 1] = c /\ \A i \in 1..n : p[i] = t[i]
  BY <1>1, <1>2, AppendProperties
<1> SUFFICES ASSUME NEW i \in 1..(n + 1), p[i].method = "enable", p[i].uuid = u
             PROVE  \E k \in 1..(n + 1) : k > i /\ p[k] = Call("disable", u, "nothing")
  BY <1>2, <1>3 DEF DisabledLast
<1>4. CASE c = Call("disable", u, "nothing")
  <2>1. i # n + 1
    BY <1>3, <1>4 DEF Call
  <2>2. n + 1 \in 1..(n + 1) /\ n + 1 > i
    BY <2>1
  <2> QED BY <1>3, <1>4, <2>2
<1>5. CASE DisabledLast(t, u) /\ ~(c.method = "enable" /\ c.uuid = u)
  <2>1. i \in 1..n /\ t[i].method = "enable" /\ t[i].uuid = u
    BY <1>3, <1>5
  <2>2. PICK k \in 1..n : k > i /\ t[k] = Call("disable", u, "nothing")
    BY <1>1, <1>5, <2>1 DEF DisabledLast
  <2> QED BY <1>3, <2>2
<1> QED BY <1>4, <1>5

LEMMA DisabledLastTail ==
  ASSUME NEW t \in Seq(Calls), t # <<>>, NEW u, DisabledLast(t, u)
  PROVE  /\ DisabledLast(Tail(t), u)
         /\ Head(t).method = "enable" /\ Head(t).uuid = u => Call("disable", u, "nothing") \in On(Tail(t))
<1>1. PICK n \in Nat : n = Len(t) /\ n > 0
  BY LenProperties, EmptySeq
<1>2. PICK p : p = Tail(t)
  OBVIOUS
<1>3. Len(p) = n - 1 /\ Head(t) = t[1] /\ \A i \in 1..(n - 1) : p[i] = t[i + 1]
  BY <1>1, <1>2, HeadTailProperties
<1>4. ASSUME NEW k \in 1..n, k > 1
      PROVE  k - 1 \in 1..(n - 1) /\ p[k - 1] = t[k]
  <2>1. k - 1 \in 1..(n - 1) /\ k = (k - 1) + 1
    BY <1>1, <1>4
  <2> QED BY <1>3, <2>1
<1>5. ASSUME NEW i \in 1..(n - 1), p[i].method = "enable", p[i].uuid = u
      PROVE  \E k \in 1..(n - 1) : k > i /\ p[k] = Call("disable", u, "nothing")
  <2>1. i + 1 \in 1..n /\ t[i + 1] = p[i]
    BY <1>1, <1>3
  <2>2. PICK k \in 1..n : k > i + 1 /\ t[k] = Call("disable", u, "nothing")
    BY <1>1, <1>5, <2>1 DEF DisabledLast
  <2>3. k - 1 \in 1..(n - 1) /\ p[k - 1] = t[k] /\ k - 1 > i
    BY <1>4, <2>2
  <2> QED BY <2>2, <2>3
<1>6. ASSUME t[1].method = "enable", t[1].uuid = u
      PROVE  Call("disable", u, "nothing") \in On(p)
  <2>1. PICK k \in 1..n : k > 1 /\ t[k] = Call("disable", u, "nothing")
    BY <1>1, <1>6 DEF DisabledLast
  <2>2. k - 1 \in 1..(n - 1) /\ p[k - 1] = t[k]
    BY <1>4, <2>1
  <2> QED BY <1>3, <2>1, <2>2 DEF On
<1> QED BY <1>2, <1>3, <1>5, <1>6 DEF DisabledLast

\* Nothing changes on the page, and more is on its way to the shell and to the client.
LEMMA SwitchKept ==
  ASSUME PageInv, SwitchInv, UNCHANGED <<detail, switch, sensitive, pendingDisable, disableLost>>,
         UNCHANGED <<listLost, extensions>>,
         UNCHANGED <<wanted, shell>>, On(fromShell) \subseteq On(fromShell'),
         idleLists' = idleLists \/ (idleLists' \in Nat /\ toShell' = Append(toShell, ListCall)),
         \/ toShell' = toShell
         \/ \E c \in Calls : toShell' = Append(toShell, c) /\ ~(c.method = "enable" /\ c.uuid = detail)
  PROVE  SwitchInv'
<1>1. toShell \in Seq(Calls)
  BY DEF PageInv, TypeOK, BusTypes
<1>2. On(toShell) \subseteq On(toShell')
  BY <1>1, OnAsked, MessageTypes
<1>3. PendingInv'
  BY <1>2 DEF SwitchInv, PendingInv, Disabling
<1>4. LastCallInv'
  <2>1. ASSUME NEW c \in Calls, toShell' = Append(toShell, c), ~(c.method = "enable" /\ c.uuid = detail),
               DisabledLast(toShell, detail)
        PROVE  DisabledLast(toShell', detail)
    BY <1>1, <2>1, DisabledLastAppend
  <2>2. DisabledLast(toShell, detail) => DisabledLast(toShell', detail)
    BY <2>1
  <2> QED BY <2>2 DEF SwitchInv, LastCallInv
<1>5. Underway(detail) => Underway(detail)'
  <2>1. CASE idleLists' = idleLists
    BY <1>2, <2>1 DEF Underway, Unfollowed
  <2>2. CASE toShell' = Append(toShell, ListCall)
    <3>1. ListCall \in On(toShell') /\ ListCall.method = "list"
      BY <1>1, <2>2, OnAsked, MessageTypes DEF ListCall, Call
    <3> QED BY <3>1 DEF Underway
  <2> QED BY <2>1, <2>2
<1>6. SyncInv'
  BY <1>5 DEF SwitchInv, SyncInv
<1> QED BY <1>3, <1>4, <1>6 DEF SwitchInv

LEMMA TakePending ==
  ASSUME PageInv, SwitchInv, TakeCall
  PROVE  PendingInv'
<1>1. PICK c : c = Head(toShell)
  OBVIOUS
<1>2. TypeOK /\ c \in Calls /\ toShell # <<>> /\ toShell' = Tail(toShell) /\ toShell \in Seq(Calls)
      /\ fromShell \in Seq(Messages)
      /\ UNCHANGED <<shell, extensions, detail, pendingDisable, disableLost>>
  BY <1>1, RepliesTyped DEF cacheVars, TakeCall, detailVars, pageVars, PageInv, TypeOK, BusTypes
<1>3. On(toShell) = On(toShell') \cup {c}
  BY <1>1, <1>2, OnTail
<1>4. c.method # "list" => \A ok \in BOOLEAN : DoneReply(c, ok) \in Messages
  BY <1>2, MessageTypes
<1>5. On(fromShell) \subseteq On(fromShell')
  <2>1. \A m \in Messages : On(Append(fromShell, m)) = On(fromShell) \cup {m}
    BY <1>2, OnSent
  <2>2. \A m, n \in Messages : On(Append(Append(fromShell, m), n)) = On(fromShell) \cup {m, n}
    <3> SUFFICES ASSUME NEW m \in Messages, NEW n \in Messages
                 PROVE  On(Append(Append(fromShell, m), n)) = On(fromShell) \cup {m, n}
      OBVIOUS
    <3>1. Append(fromShell, m) \in Seq(Messages)
      BY <1>2, AppendProperties
    <3>2. On(Append(Append(fromShell, m), n)) = On(Append(fromShell, m)) \cup {n}
      BY <3>1, OnSent
    <3> QED BY <2>1, <3>2
  <2>3. ListReply(TRUE) \in Messages /\ ListReply(FALSE) \in Messages
    BY ListReplyTyped DEF PageInv, TypeOK, KnownTypes
  <2>4. c.method # "list" => Signal(c.uuid, "ENABLED") \in Messages
    BY <1>2, MessageTypes, CallCases DEF States
  <2>5. \/ fromShell' = Append(fromShell, ListReply(TRUE))
        \/ fromShell' = Append(fromShell, ListReply(FALSE))
        \/ /\ c.method # "list"
           /\ \/ fromShell' = Append(fromShell, DoneReply(c, TRUE))
              \/ fromShell' = Append(fromShell, DoneReply(c, FALSE))
              \/ fromShell' = Append(Append(fromShell, DoneReply(c, TRUE)), Signal(c.uuid, "ENABLED"))
    BY <1>1, <1>2, TakenProperties
  <2>6. c.method # "list" => DoneReply(c, TRUE) \in Messages /\ DoneReply(c, FALSE) \in Messages
    BY <1>4
  <2>7. c.method # "list" =>
          On(Append(Append(fromShell, DoneReply(c, TRUE)), Signal(c.uuid, "ENABLED")))
            = On(fromShell) \cup {DoneReply(c, TRUE), Signal(c.uuid, "ENABLED")}
    BY <2>2, <2>4, <2>6
  <2>8. /\ On(Append(fromShell, ListReply(TRUE))) = On(fromShell) \cup {ListReply(TRUE)}
        /\ On(Append(fromShell, ListReply(FALSE))) = On(fromShell) \cup {ListReply(FALSE)}
        /\ c.method # "list" =>
             /\ On(Append(fromShell, DoneReply(c, TRUE))) = On(fromShell) \cup {DoneReply(c, TRUE)}
             /\ On(Append(fromShell, DoneReply(c, FALSE))) = On(fromShell) \cup {DoneReply(c, FALSE)}
    BY <2>1, <2>3, <2>6
  <2>9. \A S : On(fromShell) \subseteq On(fromShell) \cup S
    OBVIOUS
  <2> QED BY <2>5, <2>7, <2>8, <2>9
<1> SUFFICES ASSUME pendingDisable, ~disableLost, detail # NoUuid
             PROVE  Disabling(detail)'
  BY <1>2 DEF PendingInv
<1>6. CASE c = Call("disable", detail, "nothing")
  <2>1. c.method # "list" /\ c.method # "enable" /\ c.uuid = detail /\ c.follow = "nothing"
    BY <1>6 DEF Call
  <2>2. CASE \E m \in On(fromShell) : Clears(m, detail)
    BY <1>2, <1>5, <2>2 DEF Disabling
  <2>3. CASE \A m \in On(fromShell) : ~Clears(m, detail)
    <3>1. detail \in DOMAIN shell
      BY <2>3, NewsUnderway
    <3>2. CASE wanted' = wanted \ {detail}
      BY <1>2, <3>2 DEF Disabling
    <3>3. CASE fromShell' = Append(fromShell, DoneReply(c, FALSE))
      <4>1. DoneReply(c, FALSE) \in On(fromShell')
        BY <1>2, <1>4, <2>1, <3>3, OnSent
      <4>2. FailedDone(DoneReply(c, FALSE), detail)
        BY <2>1 DEF FailedDone, DoneReply
      <4> QED BY <1>2, <4>1, <4>2 DEF Disabling
    <3>4. c # ListCall
      BY <2>1 DEF ListCall, Call
    <3> QED BY <1>1, <1>2, <2>1, <3>1, <3>2, <3>3, <3>4, TakenProperties
  <2> QED BY <2>2, <2>3
<1>7. CASE c.method = "enable" /\ c.uuid = detail
  <2>1. Call("disable", detail, "nothing") \in On(toShell')
    BY <1>1, <1>2, <1>7, DisabledLastTail DEF SwitchInv, LastCallInv
  <2> QED BY <1>2, <2>1 DEF Disabling
<1>8. CASE c # Call("disable", detail, "nothing") /\ ~(c.method = "enable" /\ c.uuid = detail)
  <2>1. Call("disable", detail, "nothing") \in On(toShell) => Call("disable", detail, "nothing") \in On(toShell')
    BY <1>3, <1>8
  <2>2. detail \notin wanted => detail \notin wanted'
    BY <1>1, <1>2, <1>8, TakenProperties
  <2>3. Disabling(detail)
    BY DEF SwitchInv, PendingInv
  <2> QED BY <1>2, <1>5, <2>1, <2>2, <2>3 DEF Disabling
<1> QED BY <1>6, <1>7, <1>8

LEMMA TakeSync ==
  ASSUME PageInv, SwitchInv, TakeCall
  PROVE  SyncInv'
<1>1. PICK c : c = Head(toShell)
  OBVIOUS
<1>2. TypeOK /\ c \in Calls /\ toShell # <<>> /\ toShell' = Tail(toShell) /\ toShell \in Seq(Calls)
      /\ fromShell \in Seq(Messages)
      /\ UNCHANGED <<shell, extensions, idleLists, detail, switch, sensitive, pendingDisable, listLost>>
  BY <1>1, RepliesTyped DEF cacheVars, TakeCall, detailVars, pageVars, PageInv, TypeOK, BusTypes
<1>3. On(toShell) = On(toShell') \cup {c}
  BY <1>1, <1>2, OnTail
<1>4. c.method # "list" => \A ok \in BOOLEAN : DoneReply(c, ok) \in Messages
  BY <1>2, MessageTypes
<1>5. Begun
  BY <1>1, <1>2, TakenProperties
<1> SUFFICES ASSUME detail # NoUuid, switch, ~pendingDisable, ~listLost, Underway(detail)
             PROVE  \/ extensions[detail] = "ENABLED"
                    \/ Underway(detail)'
  BY <1>2 DEF SwitchInv, SyncInv
<1>6. CASE c = ListCall
  <2>1. c.method = "list"
    BY <1>6 DEF ListCall, Call
  <2>2. PICK ok \in BOOLEAN : fromShell' = Append(fromShell, ListReply(ok))
    BY <1>1, <1>2, <2>1, TakenProperties
  <2>3. ListReply(ok) \in Messages /\ ListReply(ok).type = "list"
    BY <1>2, ListReplyTyped DEF TypeOK, KnownTypes
  <2>4. ListReply(ok) \in On(fromShell')
    BY <1>2, <2>2, <2>3, OnSent
  <2> QED BY <1>2, <2>3, <2>4 DEF Underway
<1>7. ASSUME c.method # "list", fromShell' = Append(fromShell, DoneReply(c, FALSE))
      PROVE  Underway(detail)'
  <2>1. PICK m \in Messages : m = DoneReply(c, FALSE)
    BY <1>4, <1>7
  <2>2. m \in On(fromShell')
    BY <1>2, <1>7, <2>1, OnSent
  <2>3. ~m.ok
    BY <2>1 DEF DoneReply
  <2> QED BY <2>2, <2>3 DEF Underway
<1>8. ASSUME c.method # "list", c.uuid \in DOMAIN shell, shell[c.uuid] = "ENABLED",
             fromShell' = Append(Append(fromShell, DoneReply(c, TRUE)), Signal(c.uuid, "ENABLED"))
      PROVE  Underway(detail)'
  <2>1. PICK q : q = Append(fromShell, DoneReply(c, TRUE))
    OBVIOUS
  <2>2. q \in Seq(Messages) /\ Signal(c.uuid, "ENABLED") \in Messages
    BY <1>2, <1>4, <1>8, <2>1, AppendProperties, MessageTypes, CallCases DEF States
  <2>3. fromShell' = Append(q, Signal(c.uuid, "ENABLED"))
    BY <1>8, <2>1
  <2>4. Signal(c.uuid, "ENABLED") \in On(fromShell') /\ Signal(c.uuid, "ENABLED").type = "signal"
    BY <2>2, <2>3, OnSent DEF Signal
  <2> QED BY <1>2, <2>4 DEF Underway
<1>9. ASSUME c.method # "list", fromShell' = Append(fromShell, DoneReply(c, TRUE)),
             \/ /\ c.uuid \in DOMAIN shell
                /\ wanted' = IF c.method = "enable" THEN wanted \cup {c.uuid} ELSE wanted \ {c.uuid}
             \/ c.uuid \notin DOMAIN shell /\ wanted' = wanted
      PROVE  extensions[detail] = "ENABLED" \/ Underway(detail)'
  <2>1. On(fromShell) \subseteq On(fromShell')
    BY <1>2, <1>4, <1>9, OnSent
  <2>2. CASE \E m \in On(fromShell) : m.type = "done" => ~m.ok
    BY <1>2, <2>1, <2>2 DEF Underway
  <2>3. CASE \A m \in On(fromShell) : m.type = "done" /\ m.ok
    <3>1. Silent(fromShell, detail)
      BY <2>3 DEF Silent, On, Concerns
    <3>2. detail \in DOMAIN extensions /\ detail \in Uuids
      BY DetailIsKnown
    <3>3. detail \in DOMAIN shell /\ extensions[detail] = shell[detail] /\ shell[detail] \in States
      BY <3>1, <3>2, PartialProperties DEF PageInv, CacheInv, Agrees, TypeOK, KnownTypes
    <3>4. CASE c.method = "enable" /\ c.uuid = detail
      BY <1>2, <1>9, <3>3, <3>4 DEF Underway, Unfollowed, States
    <3>5. CASE idleLists > 0 \/ \E d \in On(toShell') : d.method = "list" \/ (d.method = "enable" /\ d.uuid = detail)
      BY <1>2, <3>5 DEF Underway
    <3>6. CASE Unfollowed(detail)
      <4>1. shell[detail] \in Transient
        BY <1>5, <3>3, <3>6 DEF Begun, Unfollowed, States
      <4> QED BY <1>2, <3>3, <4>1 DEF Underway, Unfollowed
    <3> QED BY <1>3, <1>9, <2>3, <3>4, <3>5, <3>6 DEF Underway
  <2> QED BY <2>2, <2>3
<1> QED BY <1>1, <1>2, <1>6, <1>7, <1>8, <1>9, TakenProperties

LEMMA TakeSwitch ==
  ASSUME PageInv, SwitchInv, TakeCall
  PROVE  SwitchInv'
<1>1. LastCallInv'
  <2>1. toShell \in Seq(Calls) /\ toShell # <<>> /\ toShell' = Tail(toShell) /\ UNCHANGED <<detail, pendingDisable>>
    BY DEF TakeCall, detailVars, pageVars, PageInv, TypeOK, BusTypes
  <2> QED BY <2>1, DisabledLastTail DEF SwitchInv, LastCallInv
<1> QED BY <1>1, TakePending, TakeSync DEF SwitchInv

LEMMA FollowSwitch ==
  ASSUME PageInv, SwitchInv, NEW u \in Uuids, FollowSetting(u)
  PROVE  SwitchInv'
<1>1. PICK state \in States : SetState(u, state)
  BY DEF FollowSetting, States, Transient
<1>2. /\ fromShell \in Seq(Messages)
      /\ UNCHANGED <<wanted, toShell, extensions, idleLists, detail, switch, sensitive, pendingDisable,
                     disableLost, listLost>>
  BY DEF cacheVars, FollowSetting, detailVars, pageVars, PageInv, TypeOK, BusTypes
<1>3. PICK m : m = Signal(u, state)
  OBVIOUS
<1>4. On(fromShell') = On(fromShell) \cup {m} /\ m.type = "signal"
  BY <1>1, <1>2, <1>3, OnSent, MessageTypes DEF SetState, Signal
<1>5. PendingInv' /\ LastCallInv'
  BY <1>2, <1>4 DEF SwitchInv, PendingInv, Disabling, LastCallInv
<1>6. SyncInv'
  BY <1>2, <1>4 DEF SwitchInv, SyncInv, Underway
<1> QED BY <1>5, <1>6 DEF SwitchInv

LEMMA OutsideSwitch ==
  ASSUME PageInv, SwitchInv, NEW u \in Uuids, ChangeOutside(u)
  PROVE  SwitchInv'
<1>0. TypeOK
  BY DEF PageInv
<1>1. /\ fromShell \in Seq(Messages) /\ Begun
      /\ UNCHANGED <<toShell, extensions, idleLists, detail, switch, sensitive, pendingDisable, listLost>>
  BY <1>0, OutsideProperties DEF cacheVars, pageVars, TypeOK, BusTypes
<1>2. CASE /\ u \in DOMAIN shell /\ shell' = shell /\ fromShell' = fromShell
           /\ wanted' = (wanted \cup {u}) \ (wanted \cap {u})
           /\ disableLost' = \/ disableLost
                             \/ /\ u = detail /\ pendingDisable
                                /\ shell[u] \in Transient \/ extensions[u] = "DISABLED"
  <2>1. shell[u] \in States
    BY <1>0, <1>2, PartialProperties DEF TypeOK, KnownTypes
  <2>2. PendingInv'
    <3> SUFFICES ASSUME pendingDisable, ~disableLost', detail # NoUuid
                 PROVE  Disabling(detail)'
      BY <1>1 DEF PendingInv
    <3>1. ~disableLost /\ (u = detail => shell[u] \notin Transient /\ extensions[u] # "DISABLED")
      BY <1>2
    <3>2. Disabling(detail)
      BY <3>1 DEF SwitchInv, PendingInv
    <3>3. CASE detail \notin wanted /\ u = detail /\ \A m \in On(fromShell) : ~Clears(m, detail)
      <4>1. shell[detail] # "DISABLED"
        BY <3>1, <3>3, NewsUnderway
      <4>2. shell[detail] = "ENABLED"
        BY <2>1, <3>1, <3>3, <4>1 DEF States
      <4> QED BY <1>1, <1>2, <3>3, <4>2 DEF Begun
    <3> QED BY <1>1, <1>2, <3>2, <3>3 DEF Disabling
  <2>3. Underway(detail) => Underway(detail)'
    <3>1. Unfollowed(detail) => Unfollowed(detail)'
      <4> SUFFICES ASSUME Unfollowed(detail) PROVE Unfollowed(detail)'
        OBVIOUS
      <4>1. u = detail => shell[u] \in Transient
        BY <1>1, <1>2, <2>1 DEF Begun, Unfollowed, States
      <4> QED BY <1>1, <1>2, <4>1 DEF Unfollowed
    <3> QED BY <1>1, <1>2, <3>1 DEF Underway
  <2>4. SyncInv' /\ LastCallInv'
    BY <1>1, <2>3 DEF SwitchInv, SyncInv, LastCallInv
  <2> QED BY <2>2, <2>4 DEF SwitchInv
<1>3. ASSUME NEW state \in {"UNINSTALLED", "DISABLED"}, fromShell' = Append(fromShell, Signal(u, state)),
             UNCHANGED <<wanted, disableLost>>
      PROVE  SwitchInv'
  <2>1. PICK m : m = Signal(u, state)
    OBVIOUS
  <2>2. On(fromShell') = On(fromShell) \cup {m} /\ m.type = "signal"
    BY <1>1, <1>3, <2>1, OnSent, MessageTypes DEF Signal, States
  <2>3. PendingInv' /\ LastCallInv'
    BY <1>1, <1>3, <2>2 DEF SwitchInv, PendingInv, Disabling, LastCallInv
  <2>4. SyncInv'
    BY <1>1, <2>2 DEF SwitchInv, SyncInv, Underway
  <2> QED BY <2>3, <2>4 DEF SwitchInv
<1> QED BY <1>0, <1>2, <1>3, OutsideProperties

LEMMA HearsSwitch ==
  ASSUME PageInv, SwitchInv, PageInv', Hears
  PROVE  SwitchInv'
<1>1. PICK m : m = Head(fromShell)
  OBVIOUS
<1>2. /\ TypeOK /\ fromShell # <<>> /\ m \in Messages /\ (m.type = "signal" \/ (m.type = "list" /\ m.ok))
      /\ fromShell' = Tail(fromShell) /\ extensions' = Learnt(m) /\ EmitChanged
      /\ UNCHANGED <<shell, wanted, idleLists>>
  BY <1>1, HearsProperties DEF PageInv
<1>3. fromShell \in Seq(Messages) /\ toShell \in Seq(Calls)
  BY <1>2 DEF TypeOK, BusTypes
<1>4. CASE detail' = NoUuid
  BY <1>4 DEF SwitchInv, PendingInv, LastCallInv, SyncInv
<1>5. CASE detail' # NoUuid
  <2>1. detail' = detail /\ RefreshInPlace /\ disableLost' = disableLost
    BY <1>2, <1>5, EmitProperties
  <2>2. detail' \in DOMAIN extensions' /\ detail' # Bridge
    BY <1>5, DetailIsKnown DEF PageInv, WindowInv
  <2>3. /\ pendingDisable' <=> pendingDisable /\ extensions'[detail] \notin {"DISABLING", "DISABLED"}
        /\ switch' <=> extensions'[detail] = "ENABLED" /\ ~pendingDisable'
        /\ sensitive' <=> extensions'[detail] \notin Transient
    BY <1>5, <2>1, <2>2 DEF RefreshInPlace
  <2>4. SyncInv'
    BY <2>1, <2>3 DEF SyncInv
  <2>5. PICK c : c = Call("enable", Bridge, "nothing")
    OBVIOUS
  <2>6. c \in Calls /\ c.uuid # detail /\ (toShell' = toShell \/ toShell' = Append(toShell, c))
    <3>1. c \in Calls
      BY <2>5, MessageTypes DEF Uuids, Follows
    <3>2. c.uuid # detail
      BY <2>1, <2>2, <2>5 DEF Call
    <3>3. toShell' = toShell \/ toShell' = Append(toShell, c)
      BY <1>2, <2>5, EmitProperties
    <3> QED BY <3>1, <3>2, <3>3
  <2>7. LastCallInv'
    <3>1. DisabledLast(toShell, detail) => DisabledLast(Append(toShell, c), detail)
      BY <1>3, <2>6, DisabledLastAppend
    <3>2. DisabledLast(toShell, detail) => DisabledLast(toShell', detail)
      BY <2>6, <3>1
    <3> QED BY <1>5, <2>1, <2>3, <3>2 DEF SwitchInv, LastCallInv
  <2>8. PendingInv'
    <3> SUFFICES ASSUME pendingDisable', ~disableLost
                 PROVE  Disabling(detail)'
      BY <2>1 DEF PendingInv
    <3>1. Disabling(detail) /\ extensions'[detail] \notin {"DISABLING", "DISABLED"}
      BY <1>5, <2>1, <2>3 DEF SwitchInv, PendingInv
    <3>2. On(toShell) \subseteq On(toShell')
      BY <1>3, <2>6, OnAsked
    <3>3. On(fromShell) = On(fromShell') \cup {m}
      BY <1>1, <1>2, <1>3, OnTail
    <3>4. ~FailedDone(m, detail)
      BY <1>2 DEF FailedDone
    <3>5. ~Clears(m, detail)
      BY <1>2, <2>1, <2>2, <3>1 DEF Clears, Learnt
    <3> QED BY <1>2, <2>1, <3>1, <3>2, <3>3, <3>4, <3>5 DEF Disabling
  <2> QED BY <2>4, <2>7, <2>8 DEF SwitchInv
<1> QED BY <1>4, <1>5

LEMMA ListFailsSwitch ==
  ASSUME PageInv, SwitchInv, ListFails
  PROVE  SwitchInv'
<1>1. PICK m : m = Head(fromShell)
  OBVIOUS
<1>2. /\ fromShell # <<>> /\ m \in Messages /\ m.type = "list" /\ ~m.ok /\ fromShell' = Tail(fromShell)
      /\ fromShell \in Seq(Messages) /\ listLost'
      /\ UNCHANGED <<wanted, toShell, extensions, detail, switch, sensitive, pendingDisable, disableLost>>
  BY <1>1, ListFailsProperties DEF PageInv, TypeOK, BusTypes, cacheVars, pageVars
<1>3. On(fromShell) = On(fromShell') \cup {m}
  BY <1>1, <1>2, OnTail
<1>4. ~FailedDone(m, detail) /\ ~Clears(m, detail)
  BY <1>2 DEF FailedDone, Clears
<1>5. PendingInv'
  BY <1>2, <1>3, <1>4 DEF SwitchInv, PendingInv, Disabling
<1>6. LastCallInv' /\ SyncInv'
  BY <1>2 DEF SwitchInv, LastCallInv, SyncInv
<1> QED BY <1>5, <1>6 DEF SwitchInv

LEMMA ToggleDoneSwitch ==
  ASSUME PageInv, SwitchInv, OnToggleDone
  PROVE  SwitchInv'
<1>1. PICK m : m = Head(fromShell)
  OBVIOUS
<1>2. /\ TypeOK /\ fromShell # <<>> /\ m \in Messages /\ m.type = "done" /\ fromShell' = Tail(fromShell)
      /\ UNCHANGED <<shell, wanted, extensions, switch, sensitive, listLost>>
      /\ idleLists' = IF m.ok THEN idleLists ELSE idleLists + 1
      /\ toShell' = toShell \/ toShell' = Append(toShell, ListCall)
      /\ \/ detail' = NoUuid /\ pendingDisable' = FALSE
         \/ /\ UNCHANGED <<detail, pendingDisable>>
            /\ IF m.follow = "nothing"
               THEN disableLost' = (disableLost \/ (~m.ok /\ pendingDisable /\ m.uuid = detail))
               ELSE disableLost' = disableLost
  BY <1>1, ToggleDoneProperties DEF cacheVars, PageInv
<1>3. fromShell \in Seq(Messages) /\ toShell \in Seq(Calls) /\ idleLists \in Nat /\ ListCall \in Calls
  BY <1>2, MessageTypes DEF TypeOK, BusTypes
<1>4. CASE detail' = NoUuid
  BY <1>4 DEF SwitchInv, PendingInv, LastCallInv, SyncInv
<1>5. CASE detail' # NoUuid
  <2>1. /\ UNCHANGED <<detail, pendingDisable>> /\ detail # NoUuid
        /\ IF m.follow = "nothing"
           THEN disableLost' = (disableLost \/ (~m.ok /\ pendingDisable /\ m.uuid = detail))
           ELSE disableLost' = disableLost
    BY <1>2, <1>5
  <2>2. On(toShell) \subseteq On(toShell')
    BY <1>2, <1>3, OnAsked
  <2>3. On(fromShell) = On(fromShell') \cup {m}
    BY <1>1, <1>2, <1>3, OnTail
  <2>4. PendingInv'
    <3> SUFFICES ASSUME pendingDisable, ~disableLost'
                 PROVE  Disabling(detail)'
      BY <2>1 DEF PendingInv
    <3>1. ~disableLost /\ ~FailedDone(m, detail)
      BY <2>1 DEF FailedDone
    <3>2. ~Clears(m, detail)
      BY <1>2 DEF Clears
    <3>3. Disabling(detail)
      BY <2>1, <3>1 DEF SwitchInv, PendingInv
    <3> QED BY <1>2, <2>1, <2>2, <2>3, <3>1, <3>2, <3>3 DEF Disabling
  <2>5. LastCallInv'
    <3>1. ListCall.method # "enable"
      BY DEF ListCall, Call
    <3>2. DisabledLast(toShell, detail) => DisabledLast(toShell', detail)
      BY <1>2, <1>3, <3>1, DisabledLastAppend
    <3> QED BY <2>1, <3>2 DEF SwitchInv, LastCallInv
  <2>6. Underway(detail) => Underway(detail)'
    <3>1. CASE m.ok
      BY <1>2, <2>1, <2>2, <2>3, <3>1 DEF Underway, Unfollowed
    <3>2. CASE ~m.ok
      <4>1. idleLists' > 0
        BY <1>2, <1>3, <3>2
      <4> QED BY <4>1 DEF Underway
    <3> QED BY <3>1, <3>2
  <2>7. SyncInv'
    BY <1>2, <2>1, <2>6 DEF SwitchInv, SyncInv
  <2> QED BY <2>4, <2>5, <2>7 DEF SwitchInv
<1> QED BY <1>4, <1>5

LEMMA ToggleSwitchSwitch ==
  ASSUME PageInv, SwitchInv, ToggleSwitch
  PROVE  SwitchInv'
<1>1. /\ detail # NoUuid
      /\ UNCHANGED <<extensions, detail, sensitive>> /\ toShell \in Seq(Calls)
  BY DEF cacheVars, ToggleSwitch, Click, PageInv, TypeOK, BusTypes
<1>2. pendingDisable' <=> ~switch'
  BY DEF ToggleSwitch
<1>3. PICK c : c = Call(IF switch' THEN "enable" ELSE "disable", detail, "nothing")
  OBVIOUS
<1>4. toShell' = Append(toShell, c)
  BY <1>3 DEF ToggleSwitch
<1>5. c \in Calls
  BY <1>1, <1>3, DetailIsKnown, MessageTypes DEF Follows
<1>6. On(toShell') = On(toShell) \cup {c}
  BY <1>1, <1>4, <1>5, OnAsked
<1>7. CASE switch'
  <2>1. c.method = "enable" /\ c.uuid = detail
    BY <1>3, <1>7 DEF Call
  <2>2. Underway(detail)'
    BY <1>1, <1>6, <2>1 DEF Underway
  <2> QED BY <1>1, <1>2, <1>7, <2>2 DEF SwitchInv, PendingInv, LastCallInv, SyncInv
<1>8. CASE ~switch'
  <2>1. c = Call("disable", detail, "nothing")
    BY <1>3, <1>8
  <2>2. Disabling(detail)'
    BY <1>1, <1>6, <2>1 DEF Disabling
  <2>3. DisabledLast(toShell', detail)
    BY <1>1, <1>4, <1>5, <2>1, DisabledLastAppend
  <2> QED BY <1>1, <1>2, <1>8, <2>2, <2>3 DEF SwitchInv, PendingInv, LastCallInv, SyncInv
<1> QED BY <1>7, <1>8

LEMMA SwitchStep ==
  ASSUME PageInv, SwitchInv, PageInv', [Next]_vars
  PROVE  SwitchInv'
<1>1. ListCall \in Calls /\ ListCall.method # "enable"
      /\ \A m \in {"enable", "disable"}, u \in Uuids, f \in Follows : Call(m, u, f) \in Calls
  BY MessageTypes DEF ListCall, Call
<1>2. CASE NewSession
  BY <1>2 DEF NewSession, SwitchInv, PendingInv, LastCallInv, SyncInv
<1>3. ASSUME NEW u \in Uuids, ClickRow(u)
      PROVE  SwitchInv'
  <2>1. detail' = u /\ pendingDisable' = FALSE /\ UNCHANGED <<extensions, rows>> /\ u \in DOMAIN extensions
    BY <1>3 DEF cacheVars, ClickRow, Click, PageInv, WindowInv
  <2>2. /\ switch' <=> (u \in DOMAIN extensions /\ extensions[u] = "ENABLED")
        /\ sensitive' <=> (u \in DOMAIN extensions => extensions[u] \notin Transient)
    BY <1>3 DEF ClickRow
  <2> QED BY <2>1, <2>2 DEF SwitchInv, PendingInv, LastCallInv, SyncInv
<1>4. CASE OnIdleList
  <2>1. idleLists' \in Nat
    BY <1>4 DEF OnIdleList, PageInv, TypeOK, BusTypes
  <2> QED BY <1>1, <1>4, <2>1, SwitchKept DEF cacheVars, OnIdleList, shellVars, detailVars, pageVars
<1>5. CASE RebuildFromCache
  BY <1>5, SwitchKept DEF cacheVars, RebuildFromCache, shellVars, busVars, detailVars, pageVars
<1>6. CASE ToggleStar
  BY <1>6, SwitchKept DEF cacheVars, ToggleStar, Click, shellVars, detailVars, pageVars
<1>7. CASE Uninstall
  <2>1. PICK c : c = Call("disable", detail, "uninstall")
    OBVIOUS
  <2>2. detail \in Uuids
    BY <1>7, PartialProperties DEF Uninstall, PageInv, TypeOK, KnownTypes
  <2>3. c \in Calls /\ c.method # "enable" /\ toShell' = Append(toShell, c)
    BY <1>1, <1>7, <2>1, <2>2 DEF Uninstall, Follows, Call
  <2> QED BY <1>7, <2>3, SwitchKept DEF cacheVars, Uninstall, Click, shellVars, detailVars, pageVars
<1>8. CASE BridgeStep
  <2>1. PICK c : c = Call("disable", Bridge, "bridge")
    OBVIOUS
  <2>2. c \in Calls /\ c.method # "enable"
    BY <1>1, <2>1 DEF Uuids, Follows, Call
  <2>3. /\ UNCHANGED <<shell, wanted, fromShell, extensions, idleLists, detailVars>>
        /\ toShell' = toShell \/ toShell' = Append(toShell, c)
    BY <1>8, <2>1, BridgeStepProperties DEF PageInv, cacheVars
  <2> QED BY <2>2, <2>3, SwitchKept DEF detailVars, pageVars
<1>9. CASE UNCHANGED vars
  BY <1>9, SwitchKept DEF vars, cacheVars, shellVars, busVars, detailVars, pageVars
<1> QED BY <1>2, <1>3, <1>4, <1>5, <1>6, <1>7, <1>8, <1>9, NextCases, TakeSwitch, FollowSwitch,
      OutsideSwitch, HearsSwitch, ListFailsSwitch, ToggleDoneSwitch, ToggleSwitchSwitch

LEMMA SwitchInit == Init => SwitchInv
BY DEF Init, SwitchInv, PendingInv, LastCallInv, SyncInv

\* Once all is quiet and the shell has followed, the switch is the extension's state and can be
\* used, unless the disable or the list it waited for was lost: _refresh_in_place stops waiting for
\* the disable when, and not before, the extension goes down, and an enable that failed is taken
\* back by the list after it, whichever signals are spurious, calls fail and other programs meddle.
THEOREM SwitchAlwaysSettles == Spec => []SwitchSettles
<1>1. PageInv /\ [Next]_vars => PageInv'
  BY TypesStep, WindowStep, CacheStep DEF PageInv
<1>2. PageInv /\ SwitchInv /\ [Next]_vars => (PageInv /\ SwitchInv)'
  BY <1>1, SwitchStep
<1>3. Init => PageInv /\ SwitchInv
  BY TypesInit, WindowInit, CacheInit, SwitchInit DEF PageInv
<1>4. PageInv /\ SwitchInv => SwitchSettles
  <2> SUFFICES ASSUME PageInv, SwitchInv, Quiet, Followed, detail \in DOMAIN extensions,
                      ~disableLost, ~listLost
               PROVE  sensitive /\ switch = (extensions[detail] = "ENABLED")
    BY DEF SwitchSettles
  <2>1. TypeOK /\ On(toShell) = {} /\ On(fromShell) = {} /\ Silent(fromShell, detail) /\ idleLists = 0
    BY OnEmpty, EmptySeq DEF PageInv, Quiet, Silent
  <2>2. detail \in Uuids /\ detail # NoUuid
    BY <2>1, PartialProperties, ShellExtensionsAssumption DEF TypeOK, KnownTypes
  <2>3. detail \in DOMAIN shell /\ extensions[detail] = shell[detail]
    BY <2>1, <2>2 DEF PageInv, CacheInv, Agrees
  <2>4. shell[detail] = IF detail \in wanted THEN "ENABLED" ELSE "DISABLED"
    BY <2>3 DEF Followed
  <2>5. ~Underway(detail)
    BY <2>1, <2>4 DEF Underway, Unfollowed, Transient
  <2>6. sensitive /\ (switch <=> (extensions[detail] = "ENABLED" /\ ~pendingDisable))
    BY <2>2, <2>3, <2>4, <2>5 DEF SwitchInv, SyncInv, Transient
  <2>7. pendingDisable => detail \notin wanted
    BY <2>1, <2>2 DEF SwitchInv, PendingInv, Disabling
  <2>8. switch <=> extensions[detail] = "ENABLED"
    BY <2>3, <2>4, <2>6, <2>7
  <2>9. switch \in BOOLEAN
    BY <2>1 DEF TypeOK, FlagTypes
  <2> QED BY <2>6, <2>8, <2>9
<1> QED BY <1>2, <1>3, <1>4, PTL DEF Spec
====
