---------------------------- MODULE InspectorProofs ----------------------------
(***************************************************************************)
(* Theorems about the inspector and its page (module Inspector), for any   *)
(* objects, however they are linked and change, and any numbers of clicks, *)
(* switches and lost connections.                                          *)
(***************************************************************************)
EXTENDS Inspector, FiniteSetTheorems, SequenceTheorems, WellFoundedInduction, TLAPS

-----------------------------------------------------------------------------
(* Types *)

Names == Keys \cup {Missing}
Segments == [kind : {"property", "map-key"}, key : Keys]
Paths == Seq(Segments)
Labels == [type : Kinds \cup {"primitive", "info"},
           text : Kinds \cup {"value", "[Circular]", "more"}, size : Nat]
Kids == Names \X Labels
Rows == [name : Names, label : Labels, segment : Segments \cup {NoSegment}, children : Seq(Kids)]
RowItems == [depth : {0}, id : Nat, expanded : BOOLEAN, row : Rows]
ChildItems == [depth : {1}, parent : Names, child : Kids]
Items == RowItems \cup ChildItems
Requests == [uuid : Uuids, path : Paths]
Results == [uuid : Uuids \cup {NoUuid}, path : Paths, rows : Seq(Rows)]

WorldTypes ==
  /\ heap \in [Objs -> Nodes]
  /\ running \subseteq Uuids /\ known \subseteq Uuids /\ signals \in Seq(SUBSET Uuids)
LinkTypes ==
  /\ connected \in BOOLEAN
  /\ toBridge \in Seq(Requests) /\ toApp \in Seq(Results) /\ answered \in Results
  /\ lateWrites \in Nat /\ lost \in BOOLEAN
PageTypes ==
  /\ uuid \in Uuids \cup {NoUuid} /\ path \in Paths
  /\ page \in {"no-selection", "disabled", "bridge-offline", "content"}
  /\ status \in {"", "loading", "count", "disconnected"}
  /\ page = "content" <=> uuid \in known /\ connected
TableTypes ==
  store \in Seq(Items) /\ rowsOf \in (Uuids \cup {NoUuid}) \X Paths
TypeInv == WorldTypes /\ LinkTypes /\ PageTypes /\ TableTypes

-----------------------------------------------------------------------------
(* What inspector.js answers is of these types. *)

LEMMA NodeType ==
  ASSUME NEW node \in Nodes
  PROVE  /\ node.kind \in Kinds
         /\ node.entries \in Seq([key : Keys, value : Objs \cup {Prim}])
         /\ Len(node.entries) \in Nat /\ DOMAIN node.entries = 1..Len(node.entries)
         /\ \A i \in 1..Len(node.entries) :
              node.entries[i].key \in Keys /\ node.entries[i].value \in Objs \cup {Prim}
<1>1. node \in [kind : Kinds, entries : Seq([key : Keys, value : Objs \cup {Prim}])]
  BY DEF Nodes
<1>2. PICK entries : entries = node.entries
  OBVIOUS
<1>3. entries \in Seq([key : Keys, value : Objs \cup {Prim}])
  BY <1>1, <1>2
<1>4. Len(entries) \in Nat /\ DOMAIN entries = 1..Len(entries)
  BY <1>3, LenProperties
<1>5. \A i \in 1..Len(entries) : entries[i] \in [key : Keys, value : Objs \cup {Prim}]
  BY <1>3, ElementOfSeq
<1> QED BY <1>1, <1>2, <1>3, <1>4, <1>5

LEMMA LabelType ==
  ASSUME heap \in [Objs -> Nodes], NEW v \in Objs \cup {Prim}, NEW seen \in SUBSET Objs
  PROVE  Label(v, seen) \in Labels
<1>1. CASE v \notin Objs
  <2>1. Label(v, seen) = [type |-> "primitive", text |-> "value", size |-> 0]
    BY <1>1 DEF Label
  <2> QED BY <2>1 DEF Labels
<1>2. CASE v \in Objs /\ v \in seen
  <2>1. Label(v, seen) = [type |-> "object", text |-> "[Circular]", size |-> 0]
    BY <1>2 DEF Label
  <2> QED BY <2>1 DEF Labels, Kinds
<1>3. CASE v \in Objs /\ v \notin seen
  <2>1. heap[v].kind \in Kinds /\ Len(heap[v].entries) \in Nat
    BY <1>3, NodeType
  <2>2. Label(v, seen) = [type |-> heap[v].kind, text |-> heap[v].kind,
                 size |-> IF heap[v].kind = "object" THEN 0 ELSE Len(heap[v].entries)]
    BY <1>3 DEF Label
  <2> QED BY <2>1, <2>2 DEF Labels
<1> QED BY <1>1, <1>2, <1>3

LEMMA InfoType == \A n \in Nat : Info(n) \in Labels
BY DEF Info, Labels

LEMMA LimitedType ==
  ASSUME NEW S, NEW entries \in Seq(S)
  PROVE  /\ Limited(entries) \in Seq(S)
         /\ Len(Limited(entries)) =
              IF Len(entries) < MaxChildren THEN Len(entries) ELSE MaxChildren
         /\ \A i \in 1..Len(Limited(entries)) : i \in 1..Len(entries) /\ Limited(entries)[i] = entries[i]
<1>1. PICK n : n = IF Len(entries) < MaxChildren THEN Len(entries) ELSE MaxChildren
  OBVIOUS
<1>2. Len(entries) \in Nat /\ MaxChildren \in Nat
  BY LenProperties, InspectorAssumption
<1>3. n \in Nat /\ n <= Len(entries)
  BY <1>1, <1>2
<1>4. \A i \in 1..n : entries[i] \in S
  BY <1>2, <1>3, ElementOfSeq
<1>5. Limited(entries) = SubSeq(entries, 1, n)
  BY <1>1 DEF Limited
<1>6. SubSeq(entries, 1, n) \in Seq(S) /\ Len(SubSeq(entries, 1, n)) = n
      /\ \A i \in 1..n : SubSeq(entries, 1, n)[i] = entries[i]
  BY <1>3, <1>4, SubSeqProperties
<1> QED BY <1>1, <1>2, <1>3, <1>5, <1>6

LEMMA ChildrenType ==
  ASSUME heap \in [Objs -> Nodes], NEW v \in Objs \cup {Prim}, NEW seen \in SUBSET Objs
  PROVE  Children(v, seen) \in Seq(Kids)
<1>1. CASE v \notin Objs \/ v \in seen
  BY <1>1, EmptySeq DEF Children
<1>2. CASE v \in Objs /\ v \notin seen
  <2>1. PICK entries : entries = heap[v].entries
    OBVIOUS
  <2>2. entries \in Seq([key : Keys, value : Objs \cup {Prim}]) /\ Len(entries) \in Nat
        /\ \A i \in 1..Len(entries) : entries[i].key \in Keys /\ entries[i].value \in Objs \cup {Prim}
    BY <1>2, <2>1, NodeType
  <2>3. PICK n \in Nat : n = Len(Limited(entries)) /\ n <= Len(entries)
    BY <2>2, LimitedType, InspectorAssumption
  <2>4. PICK kids : kids = [i \in 1..n |-> <<entries[i].key, Label(entries[i].value, seen \cup {v})>>]
    OBVIOUS
  <2>5. \A i \in 1..n : <<entries[i].key, Label(entries[i].value, seen \cup {v})>> \in Kids
    <3> SUFFICES ASSUME NEW i \in 1..n
                 PROVE  <<entries[i].key, Label(entries[i].value, seen \cup {v})>> \in Kids
      OBVIOUS
    <3>1. entries[i].key \in Names /\ entries[i].value \in Objs \cup {Prim}
          /\ seen \cup {v} \in SUBSET Objs
      BY <1>2, <2>2, <2>3 DEF Names
    <3>2. Label(entries[i].value, seen \cup {v}) \in Labels
      BY <3>1, LabelType
    <3> QED BY <3>1, <3>2 DEF Kids
  <2>6. kids \in Seq(Kids)
    <3>1. kids \in [1..n -> Kids]
      BY <2>4, <2>5
    <3> QED BY <3>1, SeqDef
  <2>7. PICK more : more = IF heap[v].kind # "object" /\ Overflow(v) > 0
                           THEN << <<Missing, Info(Overflow(v))>> >> ELSE <<>>
    OBVIOUS
  <2>8. Overflow(v) \in Nat
    BY <2>1, <2>2, InspectorAssumption DEF Overflow
  <2>9. <<Missing, Info(Overflow(v))>> \in Kids
    BY <2>8, InfoType DEF Kids, Names
  <2>10. more \in Seq(Kids)
    BY <2>7, <2>9, EmptySeq
  <2>11. Children(v, seen) = kids \o more
    BY <1>2, <2>1, <2>3, <2>4, <2>7 DEF Children
  <2> QED BY <2>6, <2>10, <2>11, ConcatProperties
<1> QED BY <1>1, <1>2

LEMMA SegmentType ==
  ASSUME NEW kind, NEW key \in Keys
  PROVE  Segment(kind, key) \in Segments \cup {NoSegment}
BY DEF Segment, Segments, Property, MapKey

\* The row of an entry, and the rows of an object.
RowOf(o, e) ==
  [name |-> e.key, label |-> Label(e.value, {o}),
   segment |-> Segment(heap[o].kind, e.key), children |-> Children(e.value, {o})]

Listed(o) == IF heap[o].kind = "object" THEN heap[o].entries ELSE Limited(heap[o].entries)

LEMMA ListedType ==
  ASSUME heap \in [Objs -> Nodes], NEW o \in Objs
  PROVE  /\ Len(Listed(o)) \in Nat /\ Len(Listed(o)) <= Len(heap[o].entries)
         /\ \A i \in 1..Len(Listed(o)) :
              i \in 1..Len(heap[o].entries) /\ Listed(o)[i] = heap[o].entries[i]
<1>1. PICK entries : entries = heap[o].entries
  OBVIOUS
<1>2. entries \in Seq([key : Keys, value : Objs \cup {Prim}]) /\ Len(entries) \in Nat
  BY <1>1, NodeType
<1>3. Len(Limited(entries)) \in Nat /\ Len(Limited(entries)) <= Len(entries)
      /\ \A i \in 1..Len(Limited(entries)) : i \in 1..Len(entries) /\ Limited(entries)[i] = entries[i]
  BY <1>2, LimitedType, InspectorAssumption
<1> QED BY <1>1, <1>2, <1>3 DEF Listed

LEMMA SerializeRows ==
  ASSUME heap \in [Objs -> Nodes], NEW o \in Objs
  PROVE  /\ Serialize(o) \in Seq(Rows)
         /\ Len(Serialize(o)) \in {Len(Listed(o)), Len(Listed(o)) + 1}
         /\ \A i \in 1..Len(Listed(o)) : Serialize(o)[i] = RowOf(o, heap[o].entries[i])
         /\ Len(Serialize(o)) # Len(Listed(o)) =>
              Serialize(o)[Len(Listed(o)) + 1].label.type = "info"
<1>1. PICK n \in Nat : n = Len(Listed(o))
  BY ListedType
<1>2. PICK rows : rows = [i \in 1..n |-> RowOf(o, Listed(o)[i])]
  OBVIOUS
<1>3. \A i \in 1..n : Listed(o)[i] = heap[o].entries[i] /\ RowOf(o, Listed(o)[i]) \in Rows
  <2> SUFFICES ASSUME NEW i \in 1..n
               PROVE  Listed(o)[i] = heap[o].entries[i] /\ RowOf(o, heap[o].entries[i]) \in Rows
    OBVIOUS
  <2>1. PICK e : e = heap[o].entries[i]
    OBVIOUS
  <2>2. Listed(o)[i] = e /\ i \in 1..Len(heap[o].entries)
    BY <1>1, <2>1, ListedType
  <2>3. e.key \in Keys /\ e.value \in Objs \cup {Prim}
    BY <2>1, <2>2, NodeType
  <2>4. Label(e.value, {o}) \in Labels /\ Children(e.value, {o}) \in Seq(Kids)
        /\ Segment(heap[o].kind, e.key) \in Segments \cup {NoSegment}
    BY <2>3, LabelType, ChildrenType, SegmentType
  <2>5. RowOf(o, e) \in Rows
    BY <2>3, <2>4 DEF RowOf, Rows, Names
  <2> QED BY <2>1, <2>2, <2>5
<1>4. rows \in Seq(Rows) /\ Len(rows) = n /\ \A i \in 1..n : rows[i] = RowOf(o, heap[o].entries[i])
  <2>1. rows \in Seq(Rows)
    BY <1>2, <1>3, IsASeq
  <2>2. Len(rows) = n
    BY <1>1, <1>2, <2>1, LenProperties
  <2> QED BY <1>2, <1>3, <2>1, <2>2
<1>5. PICK info : info = [name |-> Missing, label |-> Info(Overflow(o)),
                          segment |-> NoSegment, children |-> <<>>]
  OBVIOUS
<1>6. info \in Rows /\ info.label.type = "info"
  <2>1. Overflow(o) \in Nat
    <3>1. Len(heap[o].entries) \in Nat
      BY NodeType
    <3> QED BY <3>1, InspectorAssumption DEF Overflow
  <2>2. Info(Overflow(o)) \in Labels /\ Info(Overflow(o)).type = "info"
    BY <2>1, InfoType DEF Info
  <2> QED BY <1>5, <2>2, EmptySeq DEF Rows, Names
<1>7. PICK more : more = IF n < Len(heap[o].entries) THEN <<info>> ELSE <<>>
  OBVIOUS
<1>8. Serialize(o) = rows \o more
  BY <1>1, <1>2, <1>5, <1>7 DEF Serialize, Listed, RowOf
<1>9. more \in Seq(Rows) /\ Len(more) \in {0, 1} /\ (Len(more) = 1 => more[1] = info)
  BY <1>6, <1>7, EmptySeq
<1>10. PICK all : all = rows \o more
  OBVIOUS
<1>11. all \in Seq(Rows) /\ Len(all) = n + Len(more)
       /\ \A i \in 1..(n + Len(more)) : all[i] = IF i <= n THEN rows[i] ELSE more[i - n]
  BY <1>4, <1>9, <1>10, ConcatProperties
<1>12. Len(all) # n => all[n + 1].label.type = "info"
  BY <1>6, <1>9, <1>11
<1> QED BY <1>1, <1>4, <1>8, <1>9, <1>10, <1>11, <1>12

LEMMA InspectType ==
  ASSUME heap \in [Objs -> Nodes], NEW u, NEW p
  PROVE  Inspect(u, p) \in Seq(Rows)
BY SerializeRows, EmptySeq DEF Inspect

-----------------------------------------------------------------------------
(* The table *)

\* What the table holds for row i when the rows in X are expanded, and how much behind it.
RowItem(rows, X, i) == [depth |-> 0, id |-> i, expanded |-> i \in X, row |-> rows[i]]
Size(rows, X, i) == IF i \in X THEN Len(rows[i].children) ELSE 0

\* The table s shows the rows, the i-th one at place[i], those in X with their children.
IsTable(s, rows, X, place) ==
  /\ X \subseteq 1..Len(rows)
  /\ place \in [1..Len(rows) -> Nat]
  /\ \A i \in 1..Len(rows) : place[i] >= 1 /\ place[i] + Size(rows, X, i) <= Len(s)
  /\ \A i, j \in 1..Len(rows) : i < j => place[i] + Size(rows, X, i) < place[j]
  /\ \A p \in 1..Len(s) :
       \E i \in 1..Len(rows) : place[i] <= p /\ p <= place[i] + Size(rows, X, i)
  /\ \A i \in 1..Len(rows) : s[place[i]] = RowItem(rows, X, i)
  /\ \A i \in X : \A c \in 1..Len(rows[i].children) :
       s[place[i] + c] = ChildItem(RowItem(rows, X, i), rows[i].children[c])

\* _item_positions has the place of each row.
Knows(pos, rows, place) == \A i \in 1..Len(rows) : pos[i] = place[i]

\* The table shows these rows and _item_positions fits it.
Shows(rows) == \E X, place : IsTable(store, rows, X, place) /\ Knows(positions, rows, place)

\* The size of a row's children, and where a row is.
LEMMA PlaceBounds ==
  ASSUME NEW rows \in Seq(Rows), NEW s \in Seq(Items), NEW X, NEW place, IsTable(s, rows, X, place)
  PROVE  /\ Len(rows) \in Nat /\ Len(s) \in Nat
         /\ \A i \in 1..Len(rows) :
              /\ Len(rows[i].children) \in Nat /\ Size(rows, X, i) \in Nat
              /\ place[i] \in 1..Len(s) /\ place[i] + Size(rows, X, i) \in 1..Len(s)
<1>1. Len(rows) \in Nat /\ Len(s) \in Nat
  BY LenProperties
<1>2. ASSUME NEW i \in 1..Len(rows)
      PROVE  Len(rows[i].children) \in Nat /\ Size(rows, X, i) \in Nat
  <2>1. rows[i] \in Rows
    BY <1>1, ElementOfSeq
  <2>2. rows[i].children \in Seq(Kids)
    BY <2>1 DEF Rows
  <2>3. Len(rows[i].children) \in Nat
    BY <2>2, LenProperties
  <2> QED BY <2>3 DEF Size
<1>3. ASSUME NEW i \in 1..Len(rows)
      PROVE  place[i] \in 1..Len(s) /\ place[i] + Size(rows, X, i) \in 1..Len(s)
  <2>1. place[i] \in Nat /\ place[i] >= 1 /\ place[i] + Size(rows, X, i) <= Len(s)
    BY DEF IsTable
  <2> QED BY <1>1, <1>2, <2>1
<1> QED BY <1>1, <1>2, <1>3

\* A row of the table is the one its id says, where its place is.
LEMMA RowPlace ==
  ASSUME NEW rows \in Seq(Rows), NEW s \in Seq(Items), NEW X, NEW place, IsTable(s, rows, X, place),
         NEW i \in 1..Len(s), s[i].depth = 0
  PROVE  /\ s[i].id \in 1..Len(rows) /\ place[s[i].id] = i
         /\ s[i] = RowItem(rows, X, s[i].id)
<1>1. PICK k \in 1..Len(rows) : place[k] <= i /\ i <= place[k] + Size(rows, X, k)
  BY DEF IsTable
<1>2. place[k] \in 1..Len(s) /\ Size(rows, X, k) \in Nat /\ Len(rows[k].children) \in Nat
  BY PlaceBounds
<1>3. ASSUME place[k] < i
      PROVE  FALSE
  <2>1. i - place[k] \in 1..Size(rows, X, k)
    BY <1>1, <1>2, <1>3
  <2>2. k \in X /\ i - place[k] \in 1..Len(rows[k].children)
    BY <1>2, <2>1 DEF Size
  <2>3. s[place[k] + (i - place[k])] = ChildItem(RowItem(rows, X, k), rows[k].children[i - place[k]])
    BY <2>2 DEF IsTable
  <2>4. place[k] + (i - place[k]) = i
    BY <1>2
  <2> QED BY <2>3, <2>4 DEF ChildItem
<1>4. place[k] = i
  BY <1>1, <1>2, <1>3
<1>5. s[i] = RowItem(rows, X, k)
  BY <1>4 DEF IsTable
<1> QED BY <1>4, <1>5 DEF RowItem

\* _rebuild_item_positions finds them.
LEMMA PositionsKnow ==
  ASSUME NEW rows \in Seq(Rows), NEW s \in Seq(Items), NEW X, NEW place, IsTable(s, rows, X, place)
  PROVE  Knows(RebuildItemPositions(s), rows, place)
<1> SUFFICES ASSUME NEW k \in 1..Len(rows)
             PROVE  RebuildItemPositions(s)[k] = place[k]
  BY DEF Knows
<1>1. DOMAIN s = 1..Len(s)
  BY LenProperties
<1>2. place[k] \in 1..Len(s) /\ s[place[k]] = RowItem(rows, X, k)
  BY PlaceBounds DEF IsTable
<1>3. s[place[k]].depth = 0 /\ s[place[k]].id = k
  BY <1>2 DEF RowItem
<1>4. k \in {s[i].id : i \in {j \in DOMAIN s : s[j].depth = 0}}
  BY <1>1, <1>2, <1>3
<1>5. RebuildItemPositions(s)[k] = CHOOSE i \in DOMAIN s : s[i].depth = 0 /\ s[i].id = k
  BY <1>4 DEF RebuildItemPositions
<1>6. \A i \in DOMAIN s : s[i].depth = 0 /\ s[i].id = k => i = place[k]
  BY <1>1, RowPlace
<1> QED BY <1>1, <1>2, <1>3, <1>5, <1>6

LEMMA RowItemType ==
  ASSUME NEW rows \in Seq(Rows), NEW X, NEW i \in 1..Len(rows)
  PROVE  RowItem(rows, X, i) \in Items
<1>1. rows[i] \in Rows /\ i \in Nat
  BY ElementOfSeq, LenProperties
<1> QED BY <1>1 DEF RowItem, Items, RowItems

LEMMA ChildItemType ==
  ASSUME NEW rows \in Seq(Rows), NEW X, NEW i \in 1..Len(rows), NEW c \in 1..Len(rows[i].children)
  PROVE  ChildItem(RowItem(rows, X, i), rows[i].children[c]) \in Items
<1>1. rows[i] \in Rows
  BY ElementOfSeq
<1>2. rows[i].children \in Seq(Kids) /\ rows[i].name \in Names
  BY <1>1 DEF Rows
<1>3. rows[i].children[c] \in Kids
  BY <1>2, ElementOfSeq
<1>4. RowItem(rows, X, i).row = rows[i]
  BY DEF RowItem
<1> QED BY <1>2, <1>3, <1>4 DEF ChildItem, Items, ChildItems

\* _on_inspect_result's table: the rows one after the other, none expanded.
Fresh(rows) ==
  [i \in 1..Len(rows) |-> [depth |-> 0, id |-> i, expanded |-> FALSE, row |-> rows[i]]]

LEMMA FreshTable ==
  ASSUME NEW rows \in Seq(Rows)
  PROVE  Fresh(rows) \in Seq(Items) /\ \E place : IsTable(Fresh(rows), rows, {}, place)
<1>1. PICK n \in Nat : n = Len(rows)
  BY LenProperties
<1>0. PICK s : s = [i \in 1..Len(rows) |->
                      [depth |-> 0, id |-> i, expanded |-> FALSE, row |-> rows[i]]]
  OBVIOUS
<1>2. \A i \in 1..n : s[i] = RowItem(rows, {}, i) /\ s[i] \in Items
  <2> SUFFICES ASSUME NEW i \in 1..n
               PROVE  s[i] = RowItem(rows, {}, i) /\ s[i] \in Items
    OBVIOUS
  <2>1. s[i] = RowItem(rows, {}, i)
    <3>1. s[i] = [depth |-> 0, id |-> i, expanded |-> FALSE, row |-> rows[i]]
      BY <1>0, <1>1
    <3>2. (i \in {}) = FALSE
      OBVIOUS
    <3> QED BY <3>1, <3>2, Zenon DEF RowItem
  <2> QED BY <1>1, <2>1, RowItemType
<1>3. s \in Seq(Items) /\ Len(s) = n
  <2>1. s \in [1..n -> Items]
    BY <1>0, <1>1, <1>2
  <2>2. s \in Seq(Items)
    BY <2>1, SeqDef
  <2> QED BY <1>1, <2>1, <2>2, LenProperties
<1>4. PICK place : place = [i \in 1..n |-> i]
  OBVIOUS
<1>5. IsTable(s, rows, {}, place)
  <2>1. place \in [1..n -> Nat] /\ \A i \in 1..n : place[i] = i
    BY <1>4
  <2>2. \A i \in 1..n : Size(rows, {}, i) = 0
    BY DEF Size
  <2>3. \A i \in 1..n : place[i] >= 1 /\ place[i] + Size(rows, {}, i) <= Len(s)
    BY <1>3, <2>1, <2>2
  <2>4. \A i, j \in 1..n : i < j => place[i] + Size(rows, {}, i) < place[j]
    BY <2>1, <2>2
  <2>5. \A p \in 1..Len(s) : \E i \in 1..n : place[i] <= p /\ p <= place[i] + Size(rows, {}, i)
    BY <1>3, <2>1, <2>2
  <2>6. \A i \in 1..n : s[place[i]] = RowItem(rows, {}, i)
    BY <1>2, <2>1, Zenon
  <2> QED BY <1>1, <2>1, <2>3, <2>4, <2>5, <2>6 DEF IsTable
<1>6. s = Fresh(rows)
  BY <1>0 DEF Fresh
<1> QED BY <1>3, <1>5, <1>6

\* A table cut in two, with kids in between.
Cut(s, kids, a, b) == SubSeq(s, 1, a) \o kids \o SubSeq(s, b, Len(s))

IsCut(t, s, kids, a, b) ==
  /\ t \in Seq(Items)
  /\ Len(t) = a + Len(kids) + Len(s) + 1 - b
  /\ \A p \in 1..Len(t) :
       t[p] = IF p <= a THEN s[p]
              ELSE IF p <= a + Len(kids) THEN kids[p - a] ELSE s[p - a - Len(kids) + b - 1]

LEMMA Spliced ==
  ASSUME NEW s \in Seq(Items), NEW kids \in Seq(Items), NEW a \in 1..Len(s), NEW b \in (a + 1)..(Len(s) + 1)
  PROVE  IsCut(Cut(s, kids, a, b), s, kids, a, b)
<1>1. PICK n \in Nat : n = Len(s)
  BY LenProperties
<1>2. PICK l \in Nat : l = Len(kids)
  BY LenProperties
<1>3. a \in 1..n /\ b \in (a + 1)..(n + 1)
  BY <1>1
<1>4. \A i \in 1..n : s[i] \in Items
  BY <1>1, ElementOfSeq
<1>5. PICK first : first = SubSeq(s, 1, a)
  OBVIOUS
<1>6. first \in Seq(Items) /\ Len(first) = a /\ \A i \in 1..a : first[i] = s[i]
  <2>1. \A i \in 1..a : s[i] \in Items
    BY <1>3, <1>4
  <2> QED BY <1>3, <1>5, <2>1, SubSeqProperties
<1>7. PICK rest : rest = SubSeq(s, b, n)
  OBVIOUS
<1>8. rest \in Seq(Items) /\ Len(rest) = n + 1 - b /\ \A i \in 1..(n + 1 - b) : rest[i] = s[b + i - 1]
  <2>1. \A i \in b..n : s[i] \in Items
    BY <1>3, <1>4
  <2>2. rest \in Seq(Items) /\ Len(rest) = (IF b <= n THEN n - b + 1 ELSE 0)
        /\ \A i \in 1..(n - b + 1) : rest[i] = s[b + i - 1]
    BY <1>3, <1>7, <2>1, SubSeqProperties
  <2> QED BY <1>3, <2>2
<1>9. PICK both : both = first \o kids
  OBVIOUS
<1>10. both \in Seq(Items) /\ Len(both) = a + l
       /\ \A p \in 1..(a + l) : both[p] = IF p <= a THEN first[p] ELSE kids[p - a]
  BY <1>2, <1>6, <1>9, ConcatProperties
<1>11. PICK z : z = both \o rest
  OBVIOUS
<1>12. z \in Seq(Items) /\ Len(z) = a + l + (n + 1 - b)
       /\ \A p \in 1..Len(z) : z[p] = IF p <= a + l THEN both[p] ELSE rest[p - (a + l)]
  <2>1. z \in Seq(Items) /\ Len(z) = Len(both) + Len(rest)
        /\ \A p \in 1..(Len(both) + Len(rest)) : z[p] = IF p <= Len(both) THEN both[p]
                                                        ELSE rest[p - Len(both)]
    BY <1>8, <1>10, <1>11, ConcatProperties
  <2> QED BY <1>8, <1>10, <2>1
<1>13. ASSUME NEW p \in 1..Len(z)
       PROVE  z[p] = IF p <= a THEN s[p]
                     ELSE IF p <= a + l THEN kids[p - a] ELSE s[p - a - l + b - 1]
  <2>1. CASE p <= a
    <3>1. p \in 1..a /\ p \in 1..(a + l) /\ p <= a + l
      BY <1>3, <1>12, <2>1
    <3>2. z[p] = both[p] /\ both[p] = first[p] /\ first[p] = s[p]
      BY <1>6, <1>10, <1>12, <2>1, <3>1
    <3> QED BY <2>1, <3>2
  <2>2. CASE ~(p <= a) /\ p <= a + l
    BY <1>3, <1>10, <1>12, <2>2
  <2>3. CASE ~(p <= a + l)
    <3>1. p - (a + l) \in 1..(n + 1 - b) /\ b + (p - (a + l)) - 1 = p - a - l + b - 1
      <4>1. PICK len : len = Len(z)
        OBVIOUS
      <4>2. len = a + l + (n + 1 - b) /\ p \in 1..len
        BY <1>12, <4>1
      <4> QED BY <1>3, <2>3, <4>2
    <3>2. rest[p - (a + l)] = s[p - a - l + b - 1]
      BY <1>8, <3>1
    <3>3. p \in 1..Len(z) /\ ~(p <= a + l) /\ ~(p <= a)
      BY <1>3, <2>3
    <3>4. z[p] = rest[p - (a + l)]
      BY <1>12, <3>3
    <3> QED BY <3>2, <3>3, <3>4
  <2> QED BY <2>1, <2>2, <2>3
<1>14. Len(z) = a + l + n + 1 - b
  BY <1>3, <1>12
<1>15. z = Cut(s, kids, a, b)
  BY <1>1, <1>5, <1>7, <1>9, <1>11 DEF Cut
<1>16. IsCut(z, s, kids, a, b)
  BY <1>1, <1>2, <1>12, <1>13, <1>14 DEF IsCut
<1> QED BY <1>15, <1>16

\* X and Y agree on all rows but k.
Alike(X, Y, k, n) == Y \subseteq 1..n /\ \A i \in 1..n : i # k => (i \in X <=> i \in Y)

\* t is s with b items instead of a behind row k, which is at place o.
Resized(t, s, rows, X, Y, o, k, a, b) ==
  /\ a = Size(rows, X, k) /\ b = Size(rows, Y, k)
  /\ Len(t) = Len(s) - a + b
  /\ \A p \in 1..(o - 1) : t[p] = s[p]
  /\ t[o] = RowItem(rows, Y, k)
  /\ k \in Y => \A c \in 1..Len(rows[k].children) :
                  t[o + c] = ChildItem(RowItem(rows, Y, k), rows[k].children[c])
  /\ \A p \in (o + a + 1)..Len(s) : t[p - a + b] = s[p]

\* When row k of a table is opened or closed, the rows behind it move by the difference.
LEMMA ResizedTable ==
  ASSUME NEW rows \in Seq(Rows), NEW s \in Seq(Items), NEW X, NEW place, IsTable(s, rows, X, place),
         NEW k \in 1..Len(rows), NEW Y, Alike(X, Y, k, Len(rows)),
         NEW a \in Nat, NEW b \in Nat,
         NEW t, Resized(t, s, rows, X, Y, place[k], k, a, b)
  PROVE  \E q : IsTable(t, rows, Y, q) /\ \A i \in 1..Len(rows) : q[i] \in Nat
<1>1. PICK n \in Nat : n = Len(rows)
  BY LenProperties
<1>2. PICK m \in Nat : m = Len(s)
  BY LenProperties
<1>3. PICK old : old = [i \in 1..n |-> Size(rows, X, i)]
  OBVIOUS
<1>4. PICK new : new = [i \in 1..n |-> Size(rows, Y, i)]
  OBVIOUS
<1>5. old \in [1..n -> Nat] /\ new \in [1..n -> Nat] /\ old[k] = a /\ new[k] = b
      /\ \A i \in 1..n : i # k => new[i] = old[i] /\ RowItem(rows, Y, i) = RowItem(rows, X, i)
  <2>1. ASSUME NEW i \in 1..n
        PROVE  old[i] \in Nat /\ (i # k => new[i] = old[i] /\ RowItem(rows, Y, i) = RowItem(rows, X, i))
    <3>1. old[i] = Size(rows, X, i) /\ new[i] = Size(rows, Y, i) /\ Size(rows, X, i) \in Nat
      BY <1>1, <1>3, <1>4, PlaceBounds
    <3>2. ASSUME i # k
          PROVE  new[i] = old[i] /\ RowItem(rows, Y, i) = RowItem(rows, X, i)
      <4>1. i \in X <=> i \in Y
        BY <1>1, <3>2 DEF Alike
      <4>2. Size(rows, X, i) = Size(rows, Y, i)
        BY <4>1 DEF Size
      <4>3. (i \in X) = (i \in Y)
        BY <4>1
      <4>4. RowItem(rows, Y, i) = RowItem(rows, X, i)
        BY <4>3, Zenon DEF RowItem
      <4> QED BY <3>1, <4>2, <4>4
    <3> QED BY <3>1, <3>2
  <2>2. old[k] = a /\ new[k] = b
    BY <1>1, <1>3, <1>4 DEF Resized
  <2>3. \A i \in 1..n : new[i] \in Nat
    BY <2>1, <2>2
  <2> QED BY <1>3, <1>4, <2>1, <2>2, <2>3
<1>6. /\ place \in [1..n -> Nat] /\ k \in 1..n /\ X \subseteq 1..n
      /\ \A i \in 1..n : place[i] >= 1 /\ place[i] + old[i] <= m
      /\ \A i, j \in 1..n : i < j => place[i] + old[i] < place[j]
      /\ \A p \in 1..m : \E i \in 1..n : place[i] <= p /\ p <= place[i] + old[i]
      /\ \A i \in 1..n : s[place[i]] = RowItem(rows, X, i)
      /\ \A i \in X : \A c \in 1..Len(rows[i].children) :
           s[place[i] + c] = ChildItem(RowItem(rows, X, i), rows[i].children[c])
  BY <1>1, <1>2, <1>3 DEF IsTable
<1>7. PICK q : q = [i \in 1..n |-> IF i <= k THEN place[i] ELSE place[i] - a + b]
  OBVIOUS
<1>0. PICK o : o = place[k]
  OBVIOUS
<1>8. ASSUME NEW i \in 1..n
      PROVE  /\ place[i] \in Nat /\ place[i] >= 1 /\ old[i] \in Nat /\ place[i] + old[i] <= m
             /\ i < k => q[i] = place[i] /\ new[i] = old[i] /\ place[i] + old[i] < o
             /\ i = k => q[i] = o /\ new[i] = b /\ old[i] = a /\ place[i] = o
             /\ i > k => q[i] = place[i] - a + b /\ new[i] = old[i] /\ o + a < place[i]
  <2>1. place[i] \in Nat /\ place[i] >= 1 /\ old[i] \in Nat /\ place[i] + old[i] <= m
    BY <1>5, <1>6
  <2>2. CASE i < k
    <3>1. q[i] = place[i] /\ new[i] = old[i]
      BY <1>5, <1>6, <1>7, <2>2
    <3>2. place[i] + old[i] < o
      BY <1>0, <1>6, <2>2
    <3> QED BY <1>6, <2>1, <2>2, <3>1, <3>2
  <2>3. CASE i = k
    BY <1>0, <1>5, <1>6, <1>7, <2>1, <2>3
  <2>4. CASE i > k
    <3>1. q[i] = place[i] - a + b /\ new[i] = old[i]
      BY <1>5, <1>6, <1>7, <2>4
    <3>2. o + a < place[i]
      BY <1>0, <1>5, <1>6, <2>4
    <3> QED BY <1>6, <2>1, <2>4, <3>1, <3>2
  <2> QED BY <1>6, <2>2, <2>3, <2>4
<1>9. o \in Nat /\ o >= 1 /\ o + a <= m
  BY <1>0, <1>5, <1>6
<1>10. ASSUME NEW i \in 1..n
       PROVE  q[i] \in Nat /\ q[i] >= 1 /\ q[i] + new[i] <= m - a + b
  <2>1. PICK u : u = place[i]
    OBVIOUS
  <2>2. PICK v : v = old[i]
    OBVIOUS
  <2>3. u \in Nat /\ u >= 1 /\ v \in Nat /\ u + v <= m
    BY <1>8, <2>1, <2>2
  <2>4. CASE i < k
    <3>1. q[i] = u /\ new[i] = v /\ u + v < o
      BY <1>8, <2>1, <2>2, <2>4
    <3>2. u + v <= m - a + b
      BY <1>9, <2>3, <3>1
    <3> QED BY <2>3, <3>1, <3>2
  <2>5. CASE i = k
    <3>1. q[i] = o /\ new[i] = b
      BY <1>8, <2>5
    <3> QED BY <1>9, <3>1
  <2>6. CASE i > k
    <3>1. q[i] = u - a + b /\ new[i] = v /\ o + a < u
      BY <1>8, <2>1, <2>2, <2>6
    <3>2. u - a + b \in Nat /\ u - a + b >= 1 /\ (u - a + b) + v <= m - a + b
      BY <1>9, <2>3, <3>1
    <3> QED BY <3>1, <3>2
  <2> QED BY <1>6, <2>4, <2>5, <2>6
<1>11. ASSUME NEW i \in 1..n, NEW j \in 1..n, i < j
       PROVE  q[i] + new[i] < q[j]
  <2>1. PICK u : u = place[i]
    OBVIOUS
  <2>2. PICK v : v = old[i]
    OBVIOUS
  <2>3. PICK w : w = place[j]
    OBVIOUS
  <2>4. u \in Nat /\ v \in Nat /\ w \in Nat /\ u + v < w
    BY <1>6, <1>8, <1>11, <2>1, <2>2, <2>3
  <2>5. CASE j < k
    <3>1. i < k
      BY <1>6, <1>11, <2>5
    <3>2. q[i] = u /\ new[i] = v /\ q[j] = w
      BY <1>8, <2>1, <2>2, <2>3, <2>5, <3>1
    <3> QED BY <2>4, <3>2
  <2>6. CASE j = k
    <3>1. i < k
      BY <1>11, <2>6
    <3>2. q[i] = u /\ new[i] = v /\ q[j] = w
      BY <1>8, <2>1, <2>2, <2>3, <2>6, <3>1
    <3> QED BY <2>4, <3>2
  <2>7. CASE j > k
    <3>1. q[j] = w - a + b /\ o + a < w
      BY <1>8, <2>3, <2>7
    <3>2. CASE i < k
      <4>1. q[i] = u /\ new[i] = v /\ u + v < o
        BY <1>8, <2>1, <2>2, <3>2
      <4> QED BY <1>9, <2>4, <3>1, <4>1
    <3>3. CASE i = k
      <4>1. q[i] = o /\ new[i] = b
        BY <1>8, <3>3
      <4> QED BY <1>9, <2>4, <3>1, <4>1
    <3>4. CASE i > k
      <4>1. q[i] = u - a + b /\ new[i] = v
        BY <1>8, <2>1, <2>2, <3>4
      <4> QED BY <2>4, <3>1, <4>1
    <3> QED BY <1>6, <3>2, <3>3, <3>4
  <2> QED BY <1>6, <2>5, <2>6, <2>7
<1>12. ASSUME NEW p \in 1..(m - a + b)
       PROVE  \E i \in 1..n : q[i] <= p /\ p <= q[i] + new[i]
  <2>1. CASE p < o
    <3>1. p \in 1..m
      BY <1>9, <2>1
    <3>2. PICK i \in 1..n : place[i] <= p /\ p <= place[i] + old[i]
      BY <1>6, <3>1
    <3>3. i < k
      <4>1. PICK u : u = place[i]
        OBVIOUS
      <4>2. u \in Nat /\ (i > k => o + a < u) /\ (i = k => u = o) /\ u <= p
        BY <1>8, <3>2, <4>1
      <4>3. ~(i > k) /\ i # k
        BY <1>9, <2>1, <4>2
      <4> QED BY <1>6, <4>3
    <3>4. q[i] = place[i] /\ new[i] = old[i]
      BY <1>8, <3>3
    <3> QED BY <3>2, <3>4
  <2>2. CASE o <= p /\ p <= o + b
    <3>1. q[k] = o /\ new[k] = b
      BY <1>6, <1>8
    <3> QED BY <1>6, <2>2, <3>1
  <2>3. CASE o + b < p
    <3>1. p - b + a \in 1..m
      BY <1>9, <2>3
    <3>2. PICK i \in 1..n : place[i] <= p - b + a /\ p - b + a <= place[i] + old[i]
      BY <1>6, <3>1
    <3>3. PICK u : u = place[i]
      OBVIOUS
    <3>4. PICK v : v = old[i]
      OBVIOUS
    <3>5. u \in Nat /\ v \in Nat /\ (i < k => u + v < o) /\ (i = k => u = o /\ v = a)
          /\ u <= p - b + a /\ p - b + a <= u + v
      BY <1>8, <3>2, <3>3, <3>4
    <3>6. ~(i < k) /\ i # k
      BY <1>9, <2>3, <3>5
    <3>7. i > k
      BY <1>6, <3>6
    <3>8. q[i] = u - a + b /\ new[i] = v
      BY <1>8, <3>3, <3>4, <3>7
    <3>9. u - a + b <= p /\ p <= (u - a + b) + v
      BY <3>5
    <3> QED BY <3>8, <3>9
  <2> QED BY <1>9, <2>1, <2>2, <2>3
<1>13. ASSUME NEW i \in 1..n, NEW c \in Nat, c <= old[i], i # k
       PROVE  t[q[i] + c] = s[place[i] + c]
  <2>1. PICK u : u = place[i]
    OBVIOUS
  <2>2. PICK v : v = old[i]
    OBVIOUS
  <2>3. u \in Nat /\ u >= 1 /\ v \in Nat /\ u + v <= m /\ c <= v
    BY <1>8, <1>13, <2>1, <2>2
  <2>4. CASE i < k
    <3>1. q[i] = u /\ u + v < o
      BY <1>8, <2>1, <2>2, <2>4
    <3>2. u + c \in 1..(o - 1)
      BY <1>9, <2>3, <3>1
    <3>3. t[u + c] = s[u + c]
      BY <1>0, <3>2 DEF Resized
    <3> QED BY <2>1, <3>1, <3>3
  <2>5. CASE i > k
    <3>1. q[i] = u - a + b /\ o + a < u
      BY <1>8, <2>1, <2>2, <2>5
    <3>2. u + c \in (o + a + 1)..m /\ (u - a + b) + c = (u + c) - a + b
      BY <1>9, <2>3, <3>1
    <3>3. t[(u + c) - a + b] = s[u + c]
      BY <1>0, <1>2, <3>2 DEF Resized
    <3> QED BY <2>1, <3>1, <3>2, <3>3
  <2> QED BY <1>6, <1>13, <2>4, <2>5
<1>14. \A i \in 1..n : t[q[i]] = RowItem(rows, Y, i)
  <2> SUFFICES ASSUME NEW i \in 1..n
               PROVE  t[q[i]] = RowItem(rows, Y, i)
    OBVIOUS
  <2>1. CASE i = k
    BY <1>0, <1>8, <2>1 DEF Resized
  <2>2. CASE i # k
    <3>1. 0 <= old[i] /\ q[i] + 0 = q[i] /\ place[i] + 0 = place[i]
      <4>1. place[i] \in Nat /\ old[i] \in Nat
        BY <1>8
      <4>2. q[i] \in Nat
        BY <1>10
      <4> QED BY <4>1, <4>2
    <3>2. t[q[i] + 0] = s[place[i] + 0]
      BY <1>13, <2>2, <3>1
    <3>3. s[place[i]] = RowItem(rows, X, i) /\ RowItem(rows, Y, i) = RowItem(rows, X, i)
      BY <1>5, <1>6, <2>2
    <3> QED BY <3>1, <3>2, <3>3
  <2> QED BY <2>1, <2>2
<1>15. \A i \in Y : \A c \in 1..Len(rows[i].children) :
         t[q[i] + c] = ChildItem(RowItem(rows, Y, i), rows[i].children[c])
  <2> SUFFICES ASSUME NEW i \in Y, NEW c \in 1..Len(rows[i].children)
               PROVE  t[q[i] + c] = ChildItem(RowItem(rows, Y, i), rows[i].children[c])
    OBVIOUS
  <2>1. i \in 1..n /\ c \in Nat
    BY <1>1 DEF Alike
  <2>2. CASE i = k
    BY <1>0, <1>8, <2>1, <2>2 DEF Resized
  <2>3. CASE i # k
    <3>1. i \in X
      BY <1>1, <2>1, <2>3 DEF Alike
    <3>2. c <= old[i]
      <4>1. old[i] = Len(rows[i].children) /\ Len(rows[i].children) \in Nat
        BY <1>1, <1>3, <2>1, <3>1, PlaceBounds DEF Size
      <4> QED BY <4>1
    <3>3. t[q[i] + c] = s[place[i] + c]
      BY <1>13, <2>1, <2>3, <3>2
    <3>4. s[place[i] + c] = ChildItem(RowItem(rows, X, i), rows[i].children[c])
          /\ RowItem(rows, Y, i) = RowItem(rows, X, i)
      BY <1>5, <1>6, <2>1, <2>3, <3>1
    <3> QED BY <3>3, <3>4
  <2> QED BY <2>2, <2>3
<1>16. IsTable(t, rows, Y, q)
  <2>1. q \in [1..n -> Nat]
    BY <1>7, <1>10
  <2>2. Len(t) = m - a + b /\ Y \subseteq 1..n
    BY <1>1, <1>2 DEF Resized, Alike
  <2>3. \A i \in 1..n : q[i] >= 1 /\ q[i] + Size(rows, Y, i) <= Len(t)
    BY <1>4, <1>10, <2>2
  <2>4. \A i, j \in 1..n : i < j => q[i] + Size(rows, Y, i) < q[j]
    BY <1>4, <1>11
  <2>5. \A p \in 1..Len(t) : \E i \in 1..n : q[i] <= p /\ p <= q[i] + Size(rows, Y, i)
    <3>1. \A i \in 1..n : Size(rows, Y, i) = new[i]
      BY <1>4
    <3>2. \A p \in 1..Len(t) : \E i \in 1..n : q[i] <= p /\ p <= q[i] + new[i]
      BY <1>12, <2>2
    <3> QED BY <3>1, <3>2
  <2> QED BY <1>1, <1>14, <1>15, <2>1, <2>2, <2>3, <2>4, <2>5, Zenon DEF IsTable
<1> QED BY <1>1, <1>10, <1>16
\* _insert_children: row k is at place i and its children come to stand behind it.
LEMMA InsertedTable ==
  ASSUME NEW rows \in Seq(Rows), store \in Seq(Items), NEW X, NEW place, IsTable(store, rows, X, place),
         Knows(positions, rows, place), NEW i \in DOMAIN store, IsRow(i), ~store[i].expanded,
         InsertChildren(i)
  PROVE  /\ store' \in Seq(Items)
         /\ \E Y, q : IsTable(store', rows, Y, q) /\ Knows(positions', rows, q)
<1> DEFINE item == [store[i] EXCEPT !.expanded = TRUE]
<1> DEFINE items == [store EXCEPT ![i] = item]
<1>0. /\ store' = SubSeq(items, 1, positions[item.id])
                    \o [c \in 1..Len(item.row.children) |-> ChildItem(item, item.row.children[c])]
                    \o SubSeq(items, positions[item.id] + 1, Len(items))
     /\ positions' = RebuildItemPositions(store')
  BY DEF InsertChildren
<1>6. item = [store[i] EXCEPT !.expanded = TRUE] /\ items = [store EXCEPT ![i] = item]
  OBVIOUS
<1> HIDE DEF item, items
<1>1. PICK s \in Seq(Items) : s = store
  OBVIOUS
<1>2. i \in 1..Len(s) /\ s[i].depth = 0 /\ Len(s) \in Nat
  BY <1>1, LenProperties DEF IsRow
<1>3. PICK k \in 1..Len(rows) : k = s[i].id /\ place[k] = i /\ s[i] = RowItem(rows, X, k)
  BY <1>1, <1>2, RowPlace
<1>4. positions[k] = i /\ k \notin X
  <2>1. positions[k] = i
    BY <1>3 DEF Knows
  <2>2. ~RowItem(rows, X, k).expanded
    BY <1>1, <1>3
  <2> QED BY <2>1, <2>2, Zenon DEF RowItem
<1>5. PICK Y : Y = X \cup {k}
  OBVIOUS
<1>7. item = RowItem(rows, Y, k)
  <2>1. item = [RowItem(rows, X, k) EXCEPT !.expanded = TRUE]
    BY <1>1, <1>3, <1>6
  <2>2. (k \in Y) = TRUE
    BY <1>5
  <2> QED BY <2>1, <2>2, Zenon DEF RowItem
<1>9. items \in Seq(Items) /\ Len(items) = Len(s)
      /\ \A p \in 1..Len(s) : items[p] = IF p = i THEN item ELSE s[p]
  <2>1. s[i] \in RowItems
    <3>1. s[i] \in Items
      BY <1>2, ElementOfSeq
    <3> QED BY <1>2, <3>1 DEF Items, ChildItems
  <2>2. item \in Items
    BY <1>1, <1>6, <2>1 DEF RowItems, Items
  <2> QED BY <1>1, <1>2, <1>6, <2>2, ExceptSeq
<1>10. item.row = rows[k] /\ item.id = k
  BY <1>7 DEF RowItem
<1>11. PICK l : l = Len(rows[k].children)
  OBVIOUS
<1>12. l \in Nat
  BY <1>1, <1>11, PlaceBounds
<1>13. PICK kids : kids = [c \in 1..l |-> ChildItem(item, rows[k].children[c])]
  OBVIOUS
<1>14. kids \in Seq(Items) /\ Len(kids) = l
       /\ \A c \in 1..l : kids[c] = ChildItem(RowItem(rows, Y, k), rows[k].children[c])
  <2>1. \A c \in 1..l : ChildItem(item, rows[k].children[c]) \in Items
    BY <1>7, <1>11, ChildItemType
  <2>2. kids \in [1..l -> Items]
    BY <1>13, <2>1
  <2>3. kids \in Seq(Items)
    BY <1>12, <2>2, SeqDef
  <2> QED BY <1>7, <1>12, <1>13, <2>2, <2>3, LenProperties
<1>15. store' = SubSeq(items, 1, i) \o kids \o SubSeq(items, i + 1, Len(items))
       /\ positions' = RebuildItemPositions(store')
  BY <1>0, <1>4, <1>10, <1>11, <1>13
<1>16. PICK t : t = store'
  OBVIOUS
<1>17. /\ t \in Seq(Items) /\ Len(t) = i + l + Len(s) + 1 - (i + 1)
       /\ \A p \in 1..Len(t) :
            t[p] = IF p <= i THEN items[p]
                   ELSE IF p <= i + l THEN kids[p - i] ELSE items[p - i - l + (i + 1) - 1]
  <2>1. i + 1 \in (i + 1)..(Len(items) + 1) /\ i \in 1..Len(items)
    BY <1>2, <1>9
  <2>2. items \in Seq(Items) /\ Len(items) = Len(s) /\ kids \in Seq(Items) /\ Len(kids) = l
    BY <1>9, <1>14
  <2>3. IsCut(Cut(items, kids, i, i + 1), items, kids, i, i + 1)
    BY <2>1, <2>2, Spliced
  <2>4. t = Cut(items, kids, i, i + 1)
    BY <1>15, <1>16 DEF Cut
  <2>5. IsCut(t, items, kids, i, i + 1)
    BY <2>3, <2>4
  <2> QED BY <2>2, <2>5 DEF IsCut
<1>18. Resized(t, s, rows, X, Y, i, k, 0, l)
  <2>1. Size(rows, X, k) = 0 /\ Size(rows, Y, k) = l
    BY <1>4, <1>5, <1>11 DEF Size
  <2>2. Len(t) = Len(s) - 0 + l
    BY <1>2, <1>12, <1>17
  <2>3. ASSUME NEW p \in 1..(i - 1)
        PROVE  t[p] = s[p]
    <3>1. p \in 1..Len(t) /\ p <= i /\ p \in 1..Len(s) /\ p # i
      BY <1>2, <1>12, <2>2
    <3>2. t[p] = items[p]
      BY <1>17, <3>1
    <3> QED BY <1>9, <3>1, <3>2
  <2>4. t[i] = RowItem(rows, Y, k)
    <3>1. i \in 1..Len(t) /\ i <= i
      BY <1>2, <1>12, <2>2
    <3>2. t[i] = items[i]
      BY <1>17, <3>1
    <3> QED BY <1>2, <1>7, <1>9, <3>2
  <2>5. ASSUME NEW c \in 1..l
        PROVE  t[i + c] = ChildItem(RowItem(rows, Y, k), rows[k].children[c])
    <3>1. i + c \in 1..Len(t) /\ ~(i + c <= i) /\ i + c <= i + l /\ (i + c) - i = c
      <4>1. PICK n \in Nat : n = Len(s) /\ Len(t) = n - 0 + l /\ i \in 1..n
        BY <1>2, <2>2
      <4> QED BY <1>12, <4>1
    <3>2. t[i + c] = kids[c]
      BY <1>17, <3>1
    <3> QED BY <1>14, <3>2
  <2>6. ASSUME NEW p \in (i + 0 + 1)..Len(s)
        PROVE  t[p - 0 + l] = s[p]
    <3>1. p - 0 + l \in 1..Len(t) /\ ~(p - 0 + l <= i) /\ ~(p - 0 + l <= i + l)
          /\ (p - 0 + l) - i - l + (i + 1) - 1 = p /\ p \in 1..Len(s) /\ p # i
      <4>1. PICK n \in Nat : n = Len(s) /\ Len(t) = n - 0 + l /\ i \in 1..n /\ p \in (i + 0 + 1)..n
        BY <1>2, <2>2
      <4> QED BY <1>12, <4>1
    <3>2. t[p - 0 + l] = items[p]
      BY <1>17, <3>1
    <3> QED BY <1>9, <3>1, <3>2
  <2> QED BY <1>11, <2>1, <2>2, <2>3, <2>4, <2>5, <2>6, Zenon DEF Resized
<1>19. Alike(X, Y, k, Len(rows))
  BY <1>1, <1>5 DEF Alike, IsTable
<1>20. \E q : IsTable(t, rows, Y, q)
  <2>1. Resized(t, s, rows, X, Y, place[k], k, 0, l) /\ IsTable(s, rows, X, place)
    BY <1>1, <1>3, <1>18
  <2>2. l \in Nat /\ 0 \in Nat
    BY <1>12
  <2> QED BY <1>19, <2>1, <2>2, ResizedTable
<1>21. t \in Seq(Items)
  BY <1>17
<1>22. \E q : IsTable(t, rows, Y, q) /\ Knows(RebuildItemPositions(t), rows, q)
  BY <1>20, <1>21, PositionsKnow
<1>23. t = store' /\ positions' = RebuildItemPositions(t)
  BY <1>15, <1>16
<1>24. \E q : IsTable(store', rows, Y, q) /\ Knows(positions', rows, q)
  BY <1>22, <1>23, Zenon
<1> QED BY <1>21, <1>23, <1>24, Zenon

\* _remove_children: what it drops are the children of row k, which is at place i.
LEMMA RemovedTable ==
  ASSUME NEW rows \in Seq(Rows), store \in Seq(Items), NEW X, NEW place, IsTable(store, rows, X, place),
         Knows(positions, rows, place), NEW i \in DOMAIN store, IsRow(i), store[i].expanded,
         RemoveChildren(i)
  PROVE  /\ store' \in Seq(Items)
         /\ \E Y, q : IsTable(store', rows, Y, q) /\ Knows(positions', rows, q)
<1> DEFINE item == [store[i] EXCEPT !.expanded = FALSE]
<1> DEFINE items == [store EXCEPT ![i] = item]
<1> DEFINE rest == {j \in (positions[item.id] + 1)..Len(items) :
                      items[j].depth = 0 \/ items[j].parent # item.row.name}
<1> DEFINE next == IF rest = {} THEN Len(items) + 1 ELSE CHOOSE j \in rest : \A r \in rest : j <= r
<1>0. /\ store' = SubSeq(items, 1, positions[item.id]) \o SubSeq(items, next, Len(items))
      /\ positions' = RebuildItemPositions(store')
  BY Zenon DEF RemoveChildren
<1>15. /\ rest = {} => next = Len(items) + 1
       /\ rest # {} => next = CHOOSE j \in rest : \A r \in rest : j <= r
  OBVIOUS
<1>16. \A j : j \in rest <=> j \in (positions[item.id] + 1)..Len(items)
                          /\ (items[j].depth = 0 \/ items[j].parent # item.row.name)
  OBVIOUS
<1>6. item = [store[i] EXCEPT !.expanded = FALSE] /\ items = [store EXCEPT ![i] = item]
  OBVIOUS
<1> HIDE DEF item, items, rest, next
<1>1. PICK s \in Seq(Items) : s = store
  OBVIOUS
<1>2. i \in 1..Len(s) /\ s[i].depth = 0 /\ Len(s) \in Nat
  BY <1>1, LenProperties DEF IsRow
<1>3. PICK k \in 1..Len(rows) : k = s[i].id /\ place[k] = i /\ s[i] = RowItem(rows, X, k)
  BY <1>1, <1>2, RowPlace
<1>4. positions[k] = i /\ k \in X
  <2>1. positions[k] = i
    BY <1>3 DEF Knows
  <2>2. RowItem(rows, X, k).expanded
    BY <1>1, <1>3
  <2> QED BY <2>1, <2>2, Zenon DEF RowItem
<1>5. PICK Y : Y = X \ {k}
  OBVIOUS
<1>7. item = RowItem(rows, Y, k)
  <2>1. item = [RowItem(rows, X, k) EXCEPT !.expanded = FALSE]
    BY <1>1, <1>3, <1>6
  <2>2. (k \in Y) = FALSE
    BY <1>5
  <2> QED BY <2>1, <2>2, Zenon DEF RowItem
<1>9. items \in Seq(Items) /\ Len(items) = Len(s)
      /\ \A p \in 1..Len(s) : items[p] = IF p = i THEN item ELSE s[p]
  <2>1. s[i] \in RowItems
    <3>1. s[i] \in Items
      BY <1>2, ElementOfSeq
    <3> QED BY <1>2, <3>1 DEF Items, ChildItems
  <2>2. item \in Items
    BY <1>1, <1>6, <2>1 DEF RowItems, Items
  <2> QED BY <1>1, <1>2, <1>6, <2>2, ExceptSeq
<1>10. item.row = rows[k] /\ item.id = k
  BY <1>7 DEF RowItem
<1>11. PICK l : l = Len(rows[k].children)
  OBVIOUS
<1>12. l \in Nat /\ i + l <= Len(s) /\ Size(rows, X, k) = l
  <2>1. Size(rows, X, k) = l
    BY <1>4, <1>11 DEF Size
  <2>2. l \in Nat /\ place[k] + Size(rows, X, k) \in 1..Len(s)
    BY <1>1, <1>11, PlaceBounds
  <2> QED BY <1>2, <1>3, <2>1, <2>2
<1>13. ASSUME NEW j \in (i + 1)..(i + l)
       PROVE  ~(items[j].depth = 0 \/ items[j].parent # rows[k].name)
  <2>1. j - i \in 1..l /\ i + (j - i) = j /\ j \in 1..Len(s) /\ j # i
    <3>1. PICK n \in Nat : n = Len(s) /\ i \in 1..n /\ l \in Nat /\ i + l <= n
      BY <1>2, <1>12
    <3> QED BY <3>1
  <2>2. PICK c \in 1..l : i + c = j
    BY <2>1
  <2>3. s[i + c] = ChildItem(RowItem(rows, X, k), rows[k].children[c])
    <3>1. \A d \in 1..Len(rows[k].children) :
            s[place[k] + d] = ChildItem(RowItem(rows, X, k), rows[k].children[d])
      BY <1>1, <1>4 DEF IsTable
    <3> QED BY <1>3, <1>11, <3>1
  <2>4. items[j] = s[j]
    BY <1>9, <2>1
  <2> QED BY <2>2, <2>3, <2>4 DEF ChildItem, RowItem
<1>14. i + l + 1 <= Len(s) => items[i + l + 1].depth = 0
  <2> SUFFICES ASSUME i + l + 1 <= Len(s)
               PROVE  items[i + l + 1].depth = 0
    OBVIOUS
  <2>1. i + l + 1 \in 1..Len(s) /\ i + l + 1 # i
    BY <1>2, <1>12
  <2>2. PICK j \in 1..Len(rows) : place[j] <= i + l + 1 /\ i + l + 1 <= place[j] + Size(rows, X, j)
    BY <1>1, <2>1 DEF IsTable
  <2>3. PICK u : u = place[j]
    OBVIOUS
  <2>4. PICK v : v = Size(rows, X, j)
    OBVIOUS
  <2>5. u \in 1..Len(s) /\ v \in Nat /\ Len(rows) \in Nat
    BY <1>1, <2>3, <2>4, PlaceBounds
  <2>6. ~(j < k)
    <3>1. j < k => u + v < i
      BY <1>1, <1>3, <2>3, <2>4 DEF IsTable
    <3> QED BY <1>2, <1>12, <2>2, <2>3, <2>4, <2>5, <3>1
  <2>7. j # k
    BY <1>2, <1>3, <1>12, <2>2, <2>3
  <2>8. i + l < u
    <3>1. k < j
      BY <2>5, <2>6, <2>7
    <3> QED BY <1>1, <1>3, <1>12, <2>3, <3>1 DEF IsTable
  <2>9. u = i + l + 1
    <3>1. u <= i + l + 1
      BY <2>2, <2>3
    <3>2. i \in Nat /\ l \in Nat /\ u \in Nat
      BY <1>2, <1>12, <2>5
    <3>3. \A a, b, c \in Nat : a + b < c /\ c <= a + b + 1 => c = a + b + 1
      OBVIOUS
    <3> QED BY <2>8, <3>1, <3>2, <3>3
  <2>10. s[u] = RowItem(rows, X, j)
    BY <1>1, <2>3 DEF IsTable
  <2>11. items[i + l + 1] = RowItem(rows, X, j)
    BY <1>9, <2>1, <2>9, <2>10
  <2> QED BY <2>11 DEF RowItem
<1>17. next = i + l + 1
  <2>1. ASSUME NEW j \in rest
        PROVE  j \in Nat /\ j >= i + l + 1 /\ j <= Len(s)
    <3>1. j \in (i + 1)..Len(s) /\ (items[j].depth = 0 \/ items[j].parent # rows[k].name)
      BY <1>4, <1>9, <1>10, <1>16
    <3>2. j \notin (i + 1)..(i + l)
      BY <1>13, <3>1
    <3> QED BY <1>2, <1>12, <3>1, <3>2
  <2>2. CASE i + l + 1 <= Len(s)
    <3>1. i + l + 1 \in rest
      <4>1. i + l + 1 \in (i + 1)..Len(items)
        BY <1>2, <1>9, <1>12, <2>2
      <4> QED BY <1>4, <1>10, <1>14, <1>16, <2>2, <4>1
    <3>2. next = CHOOSE j \in rest : \A r \in rest : j <= r
      BY <1>15, <3>1
    <3>3. \A r \in rest : i + l + 1 <= r
      BY <2>1
    <3>4. next \in rest /\ \A r \in rest : next <= r
      BY <3>1, <3>2, <3>3
    <3> QED BY <1>2, <1>12, <2>1, <3>1, <3>4
  <2>3. CASE ~(i + l + 1 <= Len(s))
    <3>1. rest = {}
      BY <1>2, <1>12, <2>1, <2>3
    <3>2. next = Len(s) + 1
      BY <1>9, <1>15, <3>1
    <3>3. Len(s) = i + l
      <4>1. PICK n \in Nat : n = Len(s) /\ i \in 1..n /\ l \in Nat /\ i + l <= n
        BY <1>2, <1>12
      <4>2. n = i + l
        BY <2>3, <4>1
      <4> QED BY <4>1, <4>2
    <3> QED BY <3>2, <3>3
  <2> QED BY <2>2, <2>3
<1>18. store' = SubSeq(items, 1, i) \o SubSeq(items, next, Len(items))
       /\ positions' = RebuildItemPositions(store')
  BY <1>0, <1>4, <1>10
<1>19. store' = SubSeq(items, 1, i) \o <<>> \o SubSeq(items, next, Len(items))
  <2>1. \A j \in 1..i : items[j] \in Items
    <3>1. \A j \in 1..Len(items) : items[j] \in Items
      BY <1>9, ElementOfSeq
    <3> QED BY <1>2, <1>9, <3>1
  <2>2. SubSeq(items, 1, i) \in Seq(Items)
    BY <1>2, <2>1, SubSeqProperties
  <2>3. SubSeq(items, 1, i) \o <<>> = SubSeq(items, 1, i)
    BY <2>2, ConcatEmptySeq
  <2> QED BY <1>18, <2>3
<1>20. PICK t : t = store'
  OBVIOUS
<1>21. /\ t \in Seq(Items) /\ Len(t) = i + 0 + Len(s) + 1 - next
       /\ \A p \in 1..Len(t) :
            t[p] = IF p <= i THEN items[p]
                   ELSE IF p <= i + 0 THEN <<>>[p - i] ELSE items[p - i - 0 + next - 1]
  <2>1. next \in (i + 1)..(Len(items) + 1) /\ i \in 1..Len(items)
    BY <1>2, <1>9, <1>12, <1>17
  <2>2. <<>> \in Seq(Items) /\ Len(<<>>) = 0
    BY EmptySeq
  <2>3. items \in Seq(Items) /\ Len(items) = Len(s)
    BY <1>9
  <2>4. IsCut(Cut(items, <<>>, i, next), items, <<>>, i, next)
    BY <2>1, <2>2, <2>3, Spliced
  <2>5. t = Cut(items, <<>>, i, next)
    BY <1>19, <1>20 DEF Cut
  <2>6. IsCut(t, items, <<>>, i, next)
    BY <2>4, <2>5
  <2> QED BY <2>2, <2>3, <2>6 DEF IsCut
<1>22. Resized(t, s, rows, X, Y, i, k, l, 0)
  <2>1. Size(rows, Y, k) = 0 /\ k \notin Y
    BY <1>5 DEF Size
  <2>2. Len(t) = Len(s) - l + 0
    <3>1. PICK n \in Nat : n = Len(s) /\ Len(t) = i + 0 + n + 1 - next /\ i \in 1..n
      BY <1>2, <1>21
    <3>2. Len(t) = i + 0 + n + 1 - (i + l + 1) /\ l \in Nat
      BY <1>12, <1>17, <3>1
    <3>3. \A a, b, c \in Nat : a + 0 + b + 1 - (a + c + 1) = b - c + 0
      OBVIOUS
    <3>4. i \in Nat
      BY <3>1
    <3> QED BY <3>1, <3>2, <3>3, <3>4
  <2>3. ASSUME NEW p \in 1..(i - 1)
        PROVE  t[p] = s[p]
    <3>1. p \in 1..Len(t) /\ p <= i /\ p \in 1..Len(s) /\ p # i
      BY <1>2, <1>12, <2>2
    <3>2. t[p] = items[p]
      BY <1>21, <3>1
    <3> QED BY <1>9, <3>1, <3>2
  <2>4. t[i] = RowItem(rows, Y, k)
    <3>1. i \in 1..Len(t) /\ i <= i
      BY <1>2, <1>12, <2>2
    <3>2. t[i] = items[i]
      BY <1>21, <3>1
    <3> QED BY <1>2, <1>7, <1>9, <3>2
  <2>5. ASSUME NEW p \in (i + l + 1)..Len(s)
        PROVE  t[p - l + 0] = s[p]
    <3>1. p - l + 0 \in 1..Len(t) /\ ~(p - l + 0 <= i) /\ ~(p - l + 0 <= i + 0)
          /\ (p - l + 0) - i - 0 + next - 1 = p /\ p \in 1..Len(s) /\ p # i
      <4>1. PICK n \in Nat : n = Len(s) /\ Len(t) = n - l + 0 /\ i \in 1..n /\ p \in (i + l + 1)..n
        BY <1>2, <2>2
      <4>2. next = i + l + 1 /\ l \in Nat /\ i + l <= n
        BY <1>12, <1>17, <4>1
      <4> QED BY <4>1, <4>2
    <3>2. t[p - l + 0] = items[p]
      BY <1>21, <3>1
    <3> QED BY <1>9, <3>1, <3>2
  <2> QED BY <1>12, <2>1, <2>2, <2>3, <2>4, <2>5, Zenon DEF Resized
<1>23. Alike(X, Y, k, Len(rows))
  BY <1>1, <1>5 DEF Alike, IsTable
<1>24. \E q : IsTable(t, rows, Y, q)
  <2>1. Resized(t, s, rows, X, Y, place[k], k, l, 0) /\ l \in Nat /\ IsTable(s, rows, X, place)
    BY <1>1, <1>3, <1>12, <1>22
  <2> QED BY <1>23, <2>1, ResizedTable
<1>25. \E q : IsTable(t, rows, Y, q) /\ Knows(RebuildItemPositions(t), rows, q)
  BY <1>21, <1>24, PositionsKnow
<1> QED BY <1>18, <1>20, <1>21, <1>25
-----------------------------------------------------------------------------
(* The table that ShowsLastAnswer describes is one of these.  The library's theorems on induction  *)
(* take an operator, so induction over the natural numbers is taken from the well-foundedness of   *)
(* the subset order on finite sets.                                                                *)

LEMMA LeastNumber ==
  ASSUME NEW T \in SUBSET Nat, T # {}
  PROVE  \E n \in T : \A m \in T : n <= m
<1> DEFINE Starts == {0..n : n \in T}
<1>1. \A n \in T : 0..n \in FiniteSubsetsOf(Nat)
  BY FS_Interval DEF FiniteSubsetsOf
<1>2. Starts \subseteq FiniteSubsetsOf(Nat) /\ Starts # {}
  BY <1>1
<1>3. PICK x \in Starts : \A y \in Starts : ~(<<y, x>> \in StrictSubsetOrdering(Nat))
  BY <1>2, FS_StrictSubsetOrderingWellFounded, WFMin
<1>4. PICK n \in T : x = 0..n
  OBVIOUS
<1>5. ASSUME NEW m \in T, ~(n <= m)
      PROVE  FALSE
  <2>1. 0..m \in Starts /\ 0..m \subseteq 0..n /\ n \in 0..n /\ n \notin 0..m
    BY <1>5
  <2>2. <<0..m, 0..n>> \in StrictSubsetOrdering(Nat)
    BY <2>1 DEF StrictSubsetOrdering
  <2> QED BY <1>3, <1>4, <2>1, <2>2
<1> QED BY <1>5

LEMMA Induction ==
  ASSUME NEW T, 0 \in T, \A n \in Nat : n \in T => n + 1 \in T
  PROVE  \A n \in Nat : n \in T
<1> SUFFICES ASSUME Nat \ T # {} PROVE FALSE
  OBVIOUS
<1>1. PICK n \in Nat \ T : \A m \in Nat \ T : n <= m
  BY LeastNumber
<1>2. n # 0 /\ n - 1 \in Nat /\ (n - 1) + 1 = n /\ ~(n <= n - 1)
  BY <1>1
<1>3. n - 1 \in T
  BY <1>1, <1>2
<1> QED BY <1>1, <1>2, <1>3

\* f puts the first sequences of q one after the other, as the library's FlattenSeq does.
Flattens(f, q, n) == f = [i \in 1..n |-> IF i = 1 THEN q[i] ELSE f[i - 1] \o q[i]]

LEMMA FlattensProperties ==
  ASSUME NEW f, NEW q, NEW n \in Nat, Flattens(f, q, n)
  PROVE  \A i \in 1..n : f[i] = IF i = 1 THEN q[i] ELSE f[i - 1] \o q[i]
<1>1. PICK g : g = f
  OBVIOUS
<1>2. f = [i \in 1..n |-> IF i = 1 THEN q[i] ELSE g[i - 1] \o q[i]]
  BY <1>1 DEF Flattens
<1>3. \A i \in 1..n : f[i] = IF i = 1 THEN q[i] ELSE g[i - 1] \o q[i]
  BY <1>2
<1> QED BY <1>1, <1>3

LEMMA FlattensExists ==
  ASSUME NEW q
  PROVE  \A n \in Nat : \E f : Flattens(f, q, n)
<1> DEFINE T == {n \in Nat : \E f : Flattens(f, q, n)}
<1>1. 0 \in T
  <2>1. PICK f : f = [i \in 1..0 |-> <<>>]
    OBVIOUS
  <2>2. Flattens(f, q, 0)
    BY <2>1 DEF Flattens
  <2> QED BY <2>2
<1>2. ASSUME NEW n \in Nat, n \in T
      PROVE  n + 1 \in T
  <2>1. PICK f : Flattens(f, q, n)
    BY <1>2
  <2>2. PICK next : next = IF n + 1 = 1 THEN q[n + 1] ELSE f[n] \o q[n + 1]
    BY Zenon
  <2>3. PICK g : g = [i \in 1..(n + 1) |-> IF i = n + 1 THEN next ELSE f[i]]
    OBVIOUS
  <2>4. g[n + 1] = next /\ \A i \in 1..n : g[i] = f[i]
    BY <2>3
  <2>5. ASSUME NEW i \in 1..(n + 1)
        PROVE  g[i] = IF i = 1 THEN q[i] ELSE g[i - 1] \o q[i]
    <3>1. CASE i \in 1..n
      <4>1. i # 1 => i - 1 \in 1..n
        BY <3>1
      <4>2. f[i] = IF i = 1 THEN q[i] ELSE f[i - 1] \o q[i]
        BY <2>1, <3>1, FlattensProperties
      <4> QED BY <2>4, <3>1, <4>1, <4>2
    <3>2. CASE i = n + 1
      <4>1. i # 1 => i - 1 = n /\ n \in 1..n
        BY <3>2
      <4> QED BY <2>2, <2>4, <3>2, <4>1
    <3> QED BY <3>1, <3>2
  <2>6. g = [i \in 1..(n + 1) |-> g[i]]
    BY <2>3
  <2>7. Flattens(g, q, n + 1)
    BY <2>5, <2>6 DEF Flattens
  <2> QED BY <2>7
<1>3. PICK K : K = T
  OBVIOUS
<1>4. \A n \in Nat : n \in K
  <2>1. 0 \in K /\ \A n \in Nat : n \in K => n + 1 \in K
    BY <1>1, <1>2, <1>3
  <2> QED BY <2>1, Induction
<1> QED BY <1>3, <1>4

LEMMA FlattenSeqFlattens ==
  ASSUME NEW q, Len(q) \in Nat, Len(q) # 0
  PROVE  \E f : Flattens(f, q, Len(q)) /\ FlattenSeq(q) = f[Len(q)]
<1>1. \E f : Flattens(f, q, Len(q))
  BY FlattensExists
<1> DEFINE f == CHOOSE g : g = [i \in 1..Len(q) |-> IF i = 1 THEN q[i] ELSE g[i - 1] \o q[i]]
<1>2. Flattens(f, q, Len(q))
  BY <1>1, Zenon DEF Flattens
<1>3. FlattenSeq(q) = f[Len(q)]
  BY DEF FlattenSeq
<1> QED BY <1>2, <1>3, Zenon

\* A row and, when it is expanded, its children.
Part(rows, X, i) ==
  <<RowItem(rows, X, i)>>
    \o (IF i \in X THEN [c \in DOMAIN rows[i].children |->
                           ChildItem(RowItem(rows, X, i), rows[i].children[c])]
        ELSE <<>>)

LEMMA PartProperties ==
  ASSUME NEW rows \in Seq(Rows), NEW X, NEW i \in 1..Len(rows)
  PROVE  /\ Part(rows, X, i) \in Seq(Items) /\ Size(rows, X, i) \in Nat
         /\ Len(Part(rows, X, i)) = 1 + Size(rows, X, i)
         /\ Part(rows, X, i)[1] = RowItem(rows, X, i)
         /\ \A c \in 1..Size(rows, X, i) :
              Part(rows, X, i)[1 + c] = ChildItem(RowItem(rows, X, i), rows[i].children[c])
<1>1. PICK l \in Nat : l = Len(rows[i].children) /\ DOMAIN rows[i].children = 1..l
  <2>1. rows[i] \in Rows
    BY ElementOfSeq
  <2>2. rows[i].children \in Seq(Kids)
    BY <2>1 DEF Rows
  <2> QED BY <2>2, LenProperties
<1>2. PICK item \in Items : item = RowItem(rows, X, i)
  BY RowItemType
<1>3. PICK kids : kids = [c \in 1..l |-> ChildItem(item, rows[i].children[c])]
  OBVIOUS
<1>4. kids \in Seq(Items) /\ Len(kids) = l /\ \A c \in 1..l : kids[c] = ChildItem(item, rows[i].children[c])
  <2>1. \A c \in 1..l : ChildItem(item, rows[i].children[c]) \in Items
    BY <1>1, <1>2, ChildItemType
  <2>2. kids \in [1..l -> Items]
    BY <1>3, <2>1
  <2>3. kids \in Seq(Items)
    BY <2>2, SeqDef
  <2> QED BY <1>3, <2>2, <2>3, LenProperties
<1>5. <<item>> \in Seq(Items) /\ Len(<<item>>) = 1 /\ <<item>>[1] = item
  OBVIOUS
<1>6. CASE i \in X
  <2>1. Part(rows, X, i) = <<item>> \o kids /\ Size(rows, X, i) = l
    BY <1>1, <1>2, <1>3, <1>6 DEF Part, Size
  <2>2. PICK p : p = <<item>> \o kids
    OBVIOUS
  <2>3. p \in Seq(Items) /\ Len(p) = 1 + l
        /\ \A j \in 1..(1 + l) : p[j] = IF j <= 1 THEN <<item>>[j] ELSE kids[j - 1]
    BY <1>4, <1>5, <2>2, ConcatProperties
  <2>4. p[1] = item
    BY <1>5, <2>3
  <2>5. ASSUME NEW c \in 1..l
        PROVE  p[1 + c] = ChildItem(item, rows[i].children[c])
    <3>1. 1 + c \in 1..(1 + l) /\ ~(1 + c <= 1) /\ (1 + c) - 1 = c
      OBVIOUS
    <3>2. p[1 + c] = kids[c]
      BY <2>3, <3>1
    <3> QED BY <1>4, <3>2
  <2> QED BY <1>2, <2>1, <2>2, <2>3, <2>4, <2>5
<1>7. CASE i \notin X
  <2>1. Part(rows, X, i) = <<item>> \o <<>> /\ Size(rows, X, i) = 0
    BY <1>2, <1>7 DEF Part, Size
  <2>2. <<item>> \o <<>> = <<item>>
    BY <1>5, ConcatEmptySeq
  <2> QED BY <1>2, <1>5, <2>1, <2>2
<1> QED BY <1>6, <1>7

\* In a table each row follows the one before it and its children; the last ones end it.
LEMMA NextPlace ==
  ASSUME NEW rows \in Seq(Rows), NEW s \in Seq(Items), NEW X, NEW place, IsTable(s, rows, X, place)
  PROVE  /\ Len(rows) = 0 => Len(s) = 0
         /\ Len(rows) > 0 => place[1] = 1
                             /\ place[Len(rows)] + Size(rows, X, Len(rows)) = Len(s)
         /\ \A i \in 1..Len(rows) :
              i + 1 <= Len(rows) => place[i + 1] = place[i] + Size(rows, X, i) + 1
<1>1. PICK n \in Nat : n = Len(rows)
  BY LenProperties
<1>2. PICK m \in Nat : m = Len(s)
  BY LenProperties
<1>3. PICK size : size = [i \in 1..n |-> Size(rows, X, i)]
  OBVIOUS
<1>4. ASSUME NEW i \in 1..n
      PROVE  size[i] \in Nat /\ place[i] \in 1..m /\ place[i] + size[i] \in 1..m
  BY <1>1, <1>2, <1>3, PlaceBounds
<1>5. \A i, j \in 1..n : i < j => place[i] + size[i] < place[j]
  BY <1>1, <1>3 DEF IsTable
<1>6. \A p \in 1..m : \E i \in 1..n : place[i] <= p /\ p <= place[i] + size[i]
  BY <1>1, <1>2, <1>3 DEF IsTable
<1>7. n = 0 => m = 0
  BY <1>6
<1>8. ASSUME n > 0
      PROVE  place[1] = 1
  <2>1. 1 \in 1..n /\ 1 \in 1..m
    <3>1. 1 \in 1..n
      BY <1>8
    <3>2. place[1] \in 1..m
      BY <1>4, <3>1
    <3> QED BY <3>1, <3>2
  <2>2. PICK i \in 1..n : place[i] <= 1
    BY <1>6, <2>1
  <2>3. CASE i = 1
    BY <1>4, <2>2, <2>3
  <2>4. CASE i # 1
    <3>1. place[1] + size[1] < place[i]
      BY <1>5, <2>1, <2>4
    <3>2. PICK u \in Nat : u = place[1] /\ u >= 1
      BY <1>4, <2>1
    <3>3. PICK v \in Nat : v = size[1]
      BY <1>4, <2>1
    <3>4. PICK w \in Nat : w = place[i]
      BY <1>4
    <3> QED BY <2>2, <3>1, <3>2, <3>3, <3>4
  <2> QED BY <2>3, <2>4
<1>9. ASSUME n > 0
      PROVE  place[n] + size[n] = m
  <2>1. n \in 1..n
    BY <1>9
  <2>2. PICK e \in 1..m : e = place[n] + size[n]
    BY <1>4, <2>1
  <2>3. m \in 1..m
    OBVIOUS
  <2>4. PICK i \in 1..n : m <= place[i] + size[i]
    BY <1>6, <2>3
  <2>5. CASE i = n
    BY <2>2, <2>4, <2>5
  <2>6. CASE i # n
    <3>1. place[i] + size[i] < place[n]
      BY <1>5, <2>1, <2>6
    <3>2. PICK w \in 1..m : w = place[n]
      BY <1>4, <2>1
    <3>3. PICK f \in 1..m : f = place[i] + size[i]
      BY <1>4
    <3> QED BY <2>4, <3>1, <3>2, <3>3
  <2> QED BY <2>2, <2>5, <2>6
<1>10. ASSUME NEW i \in 1..n, i + 1 <= n
       PROVE  place[i + 1] = place[i] + size[i] + 1
  <2>1. i + 1 \in 1..n /\ i < i + 1
    BY <1>10
  <2>2. PICK e \in 1..m : e = place[i] + size[i]
    BY <1>4
  <2>3. PICK w \in 1..m : w = place[i + 1]
    BY <1>4, <2>1
  <2>4. e < w
    BY <1>5, <2>1, <2>2, <2>3
  <2>5. e + 1 \in 1..m
    BY <2>4
  <2>6. PICK j \in 1..n : place[j] <= e + 1 /\ e + 1 <= place[j] + size[j]
    BY <1>6, <2>5
  <2>7. PICK u \in 1..m : u = place[j]
    BY <1>4
  <2>8. PICK f \in 1..m : f = place[j] + size[j]
    BY <1>4
  <2>9. ~(j < i)
    <3>1. j < i => f < place[i]
      BY <1>5, <2>8
    <3>2. PICK v \in 1..m : v = place[i]
      BY <1>4
    <3>3. PICK z \in Nat : z = size[i]
      BY <1>4
    <3> QED BY <2>2, <2>6, <2>8, <3>1, <3>2, <3>3
  <2>10. j # i
    BY <2>2, <2>6, <2>8
  <2>11. ~(i + 1 < j)
    <3>1. i + 1 < j => place[i + 1] + size[i + 1] < u
      BY <1>5, <2>1, <2>7
    <3>2. PICK z \in Nat : z = size[i + 1]
      BY <1>4, <2>1
    <3> QED BY <2>3, <2>4, <2>6, <2>7, <3>1, <3>2
  <2>12. j = i + 1
    BY <2>9, <2>10, <2>11
  <2> QED BY <2>2, <2>3, <2>4, <2>6, <2>12
<1>11. \A i \in 1..n : size[i] = Size(rows, X, i)
  BY <1>3
<1> QED BY <1>1, <1>2, <1>7, <1>8, <1>9, <1>10, <1>11

\* The parts of a table, one after the other, are the table.
LEMMA TableIsFlat ==
  ASSUME NEW rows \in Seq(Rows), NEW s \in Seq(Items), NEW X, NEW place, IsTable(s, rows, X, place)
  PROVE  FlattenSeq([i \in DOMAIN rows |-> Part(rows, X, i)]) = s
<1>1. PICK n \in Nat : n = Len(rows) /\ DOMAIN rows = 1..n
  BY LenProperties
<1>2. PICK m \in Nat : m = Len(s)
  BY LenProperties
<1>3. PICK q : q = [i \in 1..n |-> Part(rows, X, i)]
  OBVIOUS
<1>4. ASSUME NEW i \in 1..n
      PROVE  q[i] = Part(rows, X, i) /\ q[i] \in Seq(Items)
  BY <1>1, <1>3, PartProperties
<1>5. q \in Seq(Seq(Items)) /\ Len(q) = n
  <2>1. q \in [1..n -> Seq(Items)]
    BY <1>3, <1>4
  <2>2. q \in Seq(Seq(Items))
    BY <2>1, SeqDef
  <2> QED BY <2>1, <2>2, LenProperties
<1>6. CASE n = 0
  <2>1. m = 0
    BY <1>1, <1>2, <1>6, NextPlace
  <2>2. s = <<>> /\ q = <<>>
    BY <1>2, <1>5, <1>6, <2>1, EmptySeq
  <2>3. FlattenSeq(q) = q
    BY <1>5, <1>6 DEF FlattenSeq
  <2> QED BY <1>1, <1>3, <2>2, <2>3
<1>7. CASE n > 0
  <2>1. PICK f : Flattens(f, q, n) /\ FlattenSeq(q) = f[n]
    BY <1>5, <1>7, FlattenSeqFlattens
  <2>2. PICK size : size = [i \in 1..n |-> Size(rows, X, i)]
    OBVIOUS
  <2>3. /\ place[1] = 1 /\ place[n] + size[n] = m
        /\ \A i \in 1..n : i + 1 <= n => place[i + 1] = place[i] + size[i] + 1
    BY <1>1, <1>2, <1>7, <2>2, NextPlace
  <2>4. ASSUME NEW i \in 1..n
        PROVE  size[i] \in Nat /\ place[i] \in 1..m /\ place[i] + size[i] \in 1..m
    BY <1>1, <1>2, <2>2, PlaceBounds
  <2>5. ASSUME NEW i \in 1..n
        PROVE  /\ Len(q[i]) = 1 + size[i]
               /\ \A j \in 1..(1 + size[i]) : q[i][j] = s[place[i] + j - 1]
    <3>1. PICK part : part = q[i]
      OBVIOUS
    <3>2. PICK l \in Nat : l = size[i] /\ l = Size(rows, X, i)
      BY <2>2, <2>4
    <3>3. Len(part) = 1 + l /\ part[1] = RowItem(rows, X, i)
          /\ \A c \in 1..l : part[1 + c] = ChildItem(RowItem(rows, X, i), rows[i].children[c])
      BY <1>1, <1>4, <3>1, <3>2, PartProperties
    <3>4. PICK u \in 1..m : u = place[i]
      BY <2>4
    <3>5. s[u] = RowItem(rows, X, i)
      BY <1>1, <3>4 DEF IsTable
    <3>6. \A c \in 1..l : s[u + c] = ChildItem(RowItem(rows, X, i), rows[i].children[c])
      <4>1. CASE i \in X
        <5>1. l = Len(rows[i].children)
          BY <3>2, <4>1 DEF Size
        <5> QED BY <3>4, <4>1, <5>1 DEF IsTable
      <4>2. CASE i \notin X
        <5>1. l = 0
          BY <3>2, <4>2 DEF Size
        <5> QED BY <5>1
      <4> QED BY <4>1, <4>2
    <3>7. ASSUME NEW j \in 1..(1 + l)
          PROVE  part[j] = s[u + j - 1]
      <4>1. CASE j = 1
        <5>1. u + j - 1 = u
          BY <4>1
        <5> QED BY <3>3, <3>5, <4>1, <5>1
      <4>2. CASE j # 1
        <5>1. j - 1 \in 1..l /\ 1 + (j - 1) = j /\ u + (j - 1) = u + j - 1
          BY <4>2
        <5>2. part[1 + (j - 1)] = s[u + (j - 1)]
          BY <3>3, <3>6, <5>1
        <5> QED BY <5>1, <5>2
      <4> QED BY <4>1, <4>2
    <3> QED BY <3>1, <3>2, <3>3, <3>4, <3>7
  <2>6. \A i \in 1..m : s[i] \in Items
    BY <1>2, ElementOfSeq
  <2>7. ASSUME NEW e \in 1..m
        PROVE  /\ SubSeq(s, 1, e) \in Seq(Items) /\ Len(SubSeq(s, 1, e)) = e
               /\ \A j \in 1..e : SubSeq(s, 1, e)[j] = s[j]
    <3>1. \A j \in 1..e : s[j] \in Items
      BY <2>6
    <3> QED BY <3>1, SubSeqProperties
  <2>8. f[1] = SubSeq(s, 1, place[1] + size[1])
    <3>1. 1 \in 1..n
      BY <1>7
    <3>2. f[1] = q[1]
      BY <2>1, <3>1, FlattensProperties
    <3>3. PICK e \in 1..m : e = place[1] + size[1] /\ e = 1 + size[1]
      BY <2>3, <2>4, <3>1
    <3>4. q[1] \in Seq(Items) /\ Len(q[1]) = e /\ \A j \in 1..e : q[1][j] = s[1 + j - 1]
      BY <1>4, <2>3, <2>5, <3>1, <3>3
    <3>5. \A j \in 1..e : 1 + j - 1 = j
      OBVIOUS
    <3>6. \A j \in 1..e : q[1][j] = SubSeq(s, 1, e)[j]
      BY <2>7, <3>4, <3>5
    <3>7. q[1] = SubSeq(s, 1, e)
      BY <2>7, <3>4, <3>6, SeqEqual
    <3> QED BY <3>2, <3>3, <3>7
  <2>9. ASSUME NEW i \in 1..n, i + 1 <= n, f[i] = SubSeq(s, 1, place[i] + size[i])
        PROVE  f[i + 1] = SubSeq(s, 1, place[i + 1] + size[i + 1])
    <3>1. i + 1 \in 1..n /\ i + 1 # 1 /\ (i + 1) - 1 = i
      BY <2>9
    <3>2. f[i + 1] = f[i] \o q[i + 1]
      <4>1. PICK k \in 1..n : k = i + 1 /\ k # 1 /\ k - 1 = i
        BY <3>1
      <4>2. f[k] = IF k = 1 THEN q[k] ELSE f[k - 1] \o q[k]
        BY <2>1, FlattensProperties
      <4>3. f[k] = f[k - 1] \o q[k]
        BY <4>1, <4>2
      <4> QED BY <4>1, <4>3
    <3>3. PICK e \in 1..m : e = place[i] + size[i]
      BY <2>4
    <3>4. PICK d \in 1..m : d = place[i + 1] + size[i + 1]
      BY <2>4, <3>1
    <3>5. PICK l \in Nat : l = size[i + 1]
      BY <2>4, <3>1
    <3>6. place[i + 1] = e + 1 /\ d = e + 1 + l
      BY <2>3, <2>9, <3>3, <3>4, <3>5
    <3>7. PICK part : part = q[i + 1]
      OBVIOUS
    <3>8. part \in Seq(Items) /\ Len(part) = 1 + l /\ \A j \in 1..(1 + l) : part[j] = s[e + 1 + j - 1]
      BY <1>4, <2>5, <3>1, <3>5, <3>6, <3>7
    <3>9. PICK first : first = SubSeq(s, 1, e)
      OBVIOUS
    <3>10. first \in Seq(Items) /\ Len(first) = e /\ \A j \in 1..e : first[j] = s[j]
      BY <2>7, <3>9
    <3>11. PICK both : both = first \o part
      OBVIOUS
    <3>12. both \in Seq(Items) /\ Len(both) = e + (1 + l)
           /\ \A j \in 1..(e + (1 + l)) : both[j] = IF j <= e THEN first[j] ELSE part[j - e]
      <4>1. first \in Seq(Items) /\ part \in Seq(Items) /\ Len(first) = e /\ Len(part) = 1 + l
        BY <3>8, <3>10
      <4>2. /\ both \in Seq(Items) /\ Len(both) = Len(first) + Len(part)
            /\ \A j \in 1..(Len(first) + Len(part)) :
                 both[j] = IF j <= Len(first) THEN first[j] ELSE part[j - Len(first)]
        BY <3>11, <4>1, ConcatProperties, Zenon
      <4> QED BY <4>1, <4>2, Zenon
    <3>13. ASSUME NEW j \in 1..d
           PROVE  both[j] = s[j]
      <4>1. CASE j <= e
        <5>1. j \in 1..e /\ j \in 1..(e + (1 + l))
          BY <3>6, <4>1
        <5> QED BY <3>10, <3>12, <4>1, <5>1
      <4>2. CASE ~(j <= e)
        <5>1. j - e \in 1..(1 + l) /\ j \in 1..(e + (1 + l)) /\ e + 1 + (j - e) - 1 = j
          BY <3>6, <4>2
        <5>2. part[j - e] = s[j]
          BY <3>8, <5>1
        <5> QED BY <3>12, <4>2, <5>1, <5>2
      <4> QED BY <4>1, <4>2
    <3>14. Len(both) = d
      BY <3>6, <3>12
    <3>15. \A j \in 1..d : both[j] = SubSeq(s, 1, d)[j]
      BY <2>7, <3>13
    <3>16. both = SubSeq(s, 1, d)
      BY <2>7, <3>12, <3>14, <3>15, SeqEqual
    <3> QED BY <2>9, <3>2, <3>3, <3>4, <3>7, <3>9, <3>11, <3>16
  <2>10. \A i \in 1..n : f[i] = SubSeq(s, 1, place[i] + size[i])
    <3>1. PICK T : T = {i \in Nat : i + 1 \in 1..n => f[i + 1] = SubSeq(s, 1, place[i + 1] + size[i + 1])}
      OBVIOUS
    <3>2. 0 \in T
      <4>1. 0 + 1 = 1
        OBVIOUS
      <4> QED BY <2>8, <3>1, <4>1
    <3>3. ASSUME NEW i \in Nat, i \in T
          PROVE  i + 1 \in T
      <4> SUFFICES ASSUME i + 1 + 1 \in 1..n
                   PROVE  f[i + 1 + 1] = SubSeq(s, 1, place[i + 1 + 1] + size[i + 1 + 1])
        BY <3>1
      <4>1. i + 1 \in 1..n /\ i + 1 + 1 <= n
        OBVIOUS
      <4>2. f[i + 1] = SubSeq(s, 1, place[i + 1] + size[i + 1])
        BY <3>1, <3>3, <4>1
      <4> QED BY <2>9, <4>1, <4>2
    <3>4. \A i \in Nat : i \in T
      BY <3>2, <3>3, Induction
    <3>5. ASSUME NEW i \in 1..n
          PROVE  f[i] = SubSeq(s, 1, place[i] + size[i])
      <4>1. i - 1 \in Nat /\ (i - 1) + 1 = i
        OBVIOUS
      <4>2. i - 1 \in T
        BY <3>4, <4>1
      <4> QED BY <3>1, <4>1, <4>2
    <3> QED BY <3>5
  <2>11. f[n] = SubSeq(s, 1, m)
    BY <1>7, <2>3, <2>10
  <2>12. SubSeq(s, 1, m) = s
    BY <1>2, SubSeqFull
  <2> QED BY <1>1, <1>3, <2>1, <2>11, <2>12
<1> QED BY <1>6, <1>7

LEMMA TableIsShown ==
  ASSUME NEW rows \in Seq(Rows), store \in Seq(Items), NEW X, NEW place, IsTable(store, rows, X, place)
  PROVE  store = TableOf(rows)
<1> DEFINE Expanded(i) == \E j \in DOMAIN store : IsRow(j) /\ store[j].id = i /\ store[j].expanded
           Item(i) == [depth |-> 0, id |-> i, expanded |-> Expanded(i), row |-> rows[i]]
           Both(i) == <<Item(i)>> \o (IF Expanded(i)
                        THEN [c \in DOMAIN rows[i].children |-> ChildItem(Item(i), rows[i].children[c])]
                        ELSE <<>>)
<1>1. TableOf(rows) = FlattenSeq([i \in DOMAIN rows |-> Both(i)])
  BY DEF TableOf
<1>2. ASSUME NEW i \in 1..Len(rows)
      PROVE  Both(i) = Part(rows, X, i)
  <2>1. Expanded(i) <=> i \in X
    <3>1. ASSUME NEW j \in DOMAIN store, IsRow(j), store[j].id = i
          PROVE  store[j].expanded <=> i \in X
      <4>1. j \in 1..Len(store) /\ store[j].depth = 0
        BY <3>1, LenProperties DEF IsRow
      <4>2. store[j] = RowItem(rows, X, i)
        BY <3>1, <4>1, RowPlace
      <4>3. RowItem(rows, X, i).expanded <=> i \in X
        BY Zenon DEF RowItem
      <4> QED BY <4>2, <4>3
    <3>2. place[i] \in DOMAIN store /\ IsRow(place[i]) /\ store[place[i]].id = i
      <4>1. place[i] \in DOMAIN store
        BY PlaceBounds, LenProperties
      <4>2. store[place[i]] = RowItem(rows, X, i)
        BY DEF IsTable
      <4> QED BY <4>1, <4>2 DEF IsRow, RowItem
    <3> QED BY <3>1, <3>2, Zenon
  <2>2. Expanded(i) = (i \in X)
    <3>1. CASE i \in X
      <4>1. Expanded(i)
        BY <2>1, <3>1
      <4> QED BY <3>1, <4>1, Zenon
    <3>2. CASE i \notin X
      <4>1. Expanded(i) = FALSE
        BY <2>1, <3>2
      <4>2. (i \in X) = FALSE
        BY <3>2
      <4> QED BY <4>1, <4>2, Zenon
    <3> QED BY <3>1, <3>2
  <2> HIDE DEF Expanded
  <2>3. Item(i) = RowItem(rows, X, i)
    BY <2>2, Zenon DEF RowItem
  <2> QED BY <2>1, <2>3, Zenon DEF Part
<1>3. DOMAIN rows = 1..Len(rows)
  BY LenProperties
<1> HIDE DEF Both
<1>4. [i \in DOMAIN rows |-> Both(i)] = [i \in DOMAIN rows |-> Part(rows, X, i)]
  BY <1>2, <1>3
<1> QED BY <1>1, <1>4, TableIsFlat

-----------------------------------------------------------------------------
(* Where a path leads, one segment at a time. *)

Walks(f, u, p, n) ==
  f = [k \in 0..n |-> IF k = 0 THEN Root[u]
                      ELSE IF f[k - 1] \in Objs THEN ResolvePathSegment(f[k - 1], p[k]) ELSE Missing]

LEMMA WalksProperties ==
  ASSUME NEW f, NEW u, NEW p, NEW n \in Nat, Walks(f, u, p, n)
  PROVE  /\ f[0] = Root[u]
         /\ \A k \in 1..n :
              f[k] = IF f[k - 1] \in Objs THEN ResolvePathSegment(f[k - 1], p[k]) ELSE Missing
<1>1. PICK g : g = f
  OBVIOUS
<1>2. f = [k \in 0..n |-> IF k = 0 THEN Root[u]
                          ELSE IF g[k - 1] \in Objs THEN ResolvePathSegment(g[k - 1], p[k])
                               ELSE Missing]
  BY <1>1 DEF Walks
<1>3. f[0] = Root[u]
  BY <1>2
<1>4. ASSUME NEW k \in 1..n
      PROVE  f[k] = IF f[k - 1] \in Objs THEN ResolvePathSegment(f[k - 1], p[k]) ELSE Missing
  <2>1. k \in 0..n /\ k # 0
    OBVIOUS
  <2>2. f[k] = IF g[k - 1] \in Objs THEN ResolvePathSegment(g[k - 1], p[k]) ELSE Missing
    BY <1>2, <2>1
  <2> QED BY <1>1, <2>2
<1> QED BY <1>3, <1>4

LEMMA WalksExists ==
  ASSUME NEW u, NEW p
  PROVE  \A n \in Nat : \E f : Walks(f, u, p, n)
<1> DEFINE T == {n \in Nat : \E f : Walks(f, u, p, n)}
<1>1. 0 \in T
  <2>1. PICK f : f = [k \in 0..0 |-> Root[u]]
    OBVIOUS
  <2>2. Walks(f, u, p, 0)
    BY <2>1 DEF Walks
  <2> QED BY <2>2
<1>2. ASSUME NEW n \in Nat, n \in T
      PROVE  n + 1 \in T
  <2>1. PICK f : Walks(f, u, p, n)
    BY <1>2
  <2>2. PICK next : next = IF f[n] \in Objs THEN ResolvePathSegment(f[n], p[n + 1]) ELSE Missing
    OBVIOUS
  <2>3. PICK g : g = [k \in 0..(n + 1) |-> IF k = n + 1 THEN next ELSE f[k]]
    OBVIOUS
  <2>4. g[n + 1] = next /\ \A k \in 0..n : g[k] = f[k]
    BY <2>3
  <2>5. ASSUME NEW k \in 0..(n + 1)
        PROVE  g[k] = IF k = 0 THEN Root[u]
                      ELSE IF g[k - 1] \in Objs THEN ResolvePathSegment(g[k - 1], p[k]) ELSE Missing
    <3>1. CASE k = 0
      BY <2>1, <2>4, <3>1, WalksProperties
    <3>2. CASE k \in 1..n
      <4>1. k - 1 \in 0..n /\ k \in 0..n /\ k # 0
        BY <3>2
      <4> QED BY <2>1, <2>4, <3>2, <4>1, WalksProperties
    <3>3. CASE k = n + 1
      <4>1. k - 1 = n /\ n \in 0..n /\ k # 0
        BY <3>3
      <4> QED BY <2>2, <2>4, <3>3, <4>1
    <3> QED BY <3>1, <3>2, <3>3
  <2>6. g = [k \in 0..(n + 1) |-> g[k]]
    BY <2>3
  <2>7. Walks(g, u, p, n + 1)
    BY <2>5, <2>6 DEF Walks
  <2> QED BY <2>7
<1>3. PICK K : K = T
  OBVIOUS
<1>4. \A n \in Nat : n \in K
  <2>1. 0 \in K /\ \A n \in Nat : n \in K => n + 1 \in K
    BY <1>1, <1>2, <1>3
  <2> QED BY <2>1, Induction
<1> QED BY <1>3, <1>4

LEMMA ResolveWalks ==
  ASSUME NEW u, NEW p, Len(p) \in Nat
  PROVE  \E f : Walks(f, u, p, Len(p)) /\ Resolve(u, p) = f[Len(p)]
<1>1. \E f : Walks(f, u, p, Len(p))
  BY WalksExists
<1> DEFINE f == CHOOSE g : g = [k \in 0..Len(p) |->
                  IF k = 0 THEN Root[u]
                  ELSE IF g[k - 1] \in Objs THEN ResolvePathSegment(g[k - 1], p[k]) ELSE Missing]
<1>2. Walks(f, u, p, Len(p))
  BY <1>1 DEF Walks
<1>3. Resolve(u, p) = f[Len(p)]
  BY DEF Resolve
<1> QED BY <1>2, <1>3

\* One more segment leads on from where the path leads.
LEMMA ResolveAppended ==
  ASSUME NEW u, NEW p \in Paths, NEW g \in Segments, Resolve(u, p) \in Objs
  PROVE  Resolve(u, Append(p, g)) = ResolvePathSegment(Resolve(u, p), g)
<1>1. PICK n \in Nat : n = Len(p)
  BY LenProperties DEF Paths
<1>2. PICK q : q = Append(p, g)
  OBVIOUS
<1>3. Len(q) = n + 1 /\ q[n + 1] = g /\ \A k \in 1..n : q[k] = p[k]
  BY <1>1, <1>2, AppendProperties DEF Paths
<1>4. PICK f : Walks(f, u, p, n) /\ Resolve(u, p) = f[n]
  BY <1>1, ResolveWalks
<1>5. PICK h : Walks(h, u, q, n + 1) /\ Resolve(u, q) = h[n + 1]
  <2>1. Len(q) \in Nat
    BY <1>3
  <2> QED BY <1>3, <2>1, ResolveWalks
<1>6. h[n] = f[n]
  <2>1. PICK T : T = {k \in Nat : k \in 0..n => h[k] = f[k]}
    OBVIOUS
  <2>2. 0 \in T
    BY <1>4, <1>5, <2>1, WalksProperties
  <2>3. ASSUME NEW k \in Nat, k \in T
        PROVE  k + 1 \in T
    <3> SUFFICES ASSUME k + 1 \in 0..n
                 PROVE  h[k + 1] = f[k + 1]
      BY <2>1
    <3>1. PICK j \in 1..n : j = k + 1 /\ j - 1 = k
      OBVIOUS
    <3>2. h[j - 1] = f[j - 1]
      BY <2>1, <2>3, <3>1
    <3>3. f[j] = IF f[j - 1] \in Objs THEN ResolvePathSegment(f[j - 1], p[j]) ELSE Missing
      BY <1>4, WalksProperties
    <3>4. h[j] = IF h[j - 1] \in Objs THEN ResolvePathSegment(h[j - 1], q[j]) ELSE Missing
      <4>1. j \in 1..(n + 1) /\ n + 1 \in Nat
        OBVIOUS
      <4> QED BY <1>5, <4>1, WalksProperties
    <3>5. q[j] = p[j]
      BY <1>3
    <3> QED BY <3>1, <3>2, <3>3, <3>4, <3>5
  <2>4. n \in T
    BY <2>2, <2>3, Induction
  <2> QED BY <2>1, <2>4
<1>7. h[n + 1] = ResolvePathSegment(h[n], q[n + 1])
  <2>1. PICK j \in 1..(n + 1) : j = n + 1 /\ j - 1 = n
    OBVIOUS
  <2>2. h[j] = IF h[j - 1] \in Objs THEN ResolvePathSegment(h[j - 1], q[j]) ELSE Missing
    BY <1>5, WalksProperties
  <2>3. h[n] \in Objs
    BY <1>4, <1>6
  <2> QED BY <2>1, <2>2, <2>3
<1> QED BY <1>2, <1>3, <1>4, <1>5, <1>6, <1>7

\* The segment of an entry's row finds the entry's value again.
LEMMA SegmentFinds ==
  ASSUME heap \in [Objs -> Nodes], NEW o \in Objs, NEW i \in 1..Len(heap[o].entries),
         Segment(heap[o].kind, heap[o].entries[i].key) # NoSegment
  PROVE  ResolvePathSegment(o, Segment(heap[o].kind, heap[o].entries[i].key)) = heap[o].entries[i].value
<1>1. PICK node \in Nodes : node = heap[o]
  OBVIOUS
<1>2. PICK e : e = node.entries[i]
  OBVIOUS
<1>3. PICK g : g = Segment(node.kind, e.key)
  OBVIOUS
<1>4. g.key = e.key /\ g.kind = (IF node.kind = "map" THEN "map-key" ELSE "property")
  BY <1>1, <1>2, <1>3 DEF Segment, Property, MapKey
<1>5. PICK found : found = {x \in Range(node.entries) : x.key = g.key}
  OBVIOUS
<1>6. DOMAIN node.entries = 1..Len(node.entries)
  BY NodeType
<1>7. e \in found
  BY <1>1, <1>2, <1>4, <1>5, <1>6 DEF Range
<1>8. ASSUME NEW x \in found
      PROVE  x = e
  <2>1. PICK j \in DOMAIN node.entries : x = node.entries[j] /\ x.key = g.key
    BY <1>5, <1>8 DEF Range
  <2>2. i \in DOMAIN node.entries
    BY <1>1, <1>6
  <2>3. i = j
    BY <1>2, <1>4, <2>1, <2>2 DEF Nodes
  <2> QED BY <1>2, <2>1, <2>3
<1>9. (CHOOSE x \in found : TRUE) = e
  BY <1>7, <1>8
<1>10. ResolvePathSegment(o, g) = (CHOOSE x \in found : TRUE).value
  BY <1>1, <1>4, <1>5, <1>7 DEF ResolvePathSegment
<1> QED BY <1>1, <1>2, <1>3, <1>9, <1>10

\* What a label says of a value that can be drilled into.
LEMMA LabelTells ==
  ASSUME heap \in [Objs -> Nodes], NEW v, NEW o \in Objs, Label(v, {o}).type \in Kinds
  PROVE  /\ v \in Objs
         /\ IF Label(v, {o}).text = "[Circular]" THEN v = o ELSE heap[v].kind = Label(v, {o}).type
<1>1. CASE v \notin Objs
  <2>1. Label(v, {o}) = [type |-> "primitive", text |-> "value", size |-> 0]
    BY <1>1 DEF Label
  <2> QED BY <2>1 DEF Kinds
<1>2. CASE v = o
  <2>1. Label(v, {o}) = [type |-> "object", text |-> "[Circular]", size |-> 0]
    BY <1>2 DEF Label
  <2> QED BY <1>2, <2>1
<1>3. CASE v \in Objs /\ v # o
  <2>1. Label(v, {o}) = [type |-> heap[v].kind, text |-> heap[v].kind,
                         size |-> IF heap[v].kind = "object" THEN 0 ELSE Len(heap[v].entries)]
    BY <1>3 DEF Label
  <2>2. heap[v].kind \in Kinds
    BY <1>3, NodeType
  <2> QED BY <1>3, <2>1, <2>2 DEF Kinds
<1> QED BY <1>1, <1>2, <1>3

-----------------------------------------------------------------------------
(* The inductive invariant: rows of one result are in the table, they are those of the selected    *)
(* extension and, once counted, of the path; and whenever the page shows properties the last       *)
(* request, the last result or the table is about what is selected, unless requests were lost.     *)

TableInv == \E rows \in Seq(Rows) : Shows(rows)

MatchInv ==
  /\ store # <<>> => rowsOf[1] = uuid
  /\ status = "count" => rowsOf = <<uuid, path>>

Asks(q, u, p) == q # <<>> /\ Last(q) = [uuid |-> u, path |-> p]

AskInv ==
  page = "content" /\ ~lost =>
    \/ Asks(toBridge, uuid, path)
    \/ /\ toBridge = <<>> /\ answered.uuid = uuid /\ answered.path = path
       /\ \/ toApp # <<>> /\ Last(toApp) = answered
          \/ toApp = <<>> /\ status = "count" /\ Shows(answered.rows)

Inv == TypeInv /\ TableInv /\ MatchInv /\ AskInv

\* Requests and results come and go at the two ends of a sequence.
LEMMA LastAppended ==
  ASSUME NEW S, NEW q \in Seq(S), NEW e \in S
  PROVE  Append(q, e) \in Seq(S) /\ Append(q, e) # <<>> /\ Last(Append(q, e)) = e
BY AppendProperties DEF Last

LEMMA LastOfTail ==
  ASSUME NEW S, NEW q \in Seq(S), q # <<>>
  PROVE  /\ Head(q) \in S /\ Tail(q) \in Seq(S)
         /\ Tail(q) # <<>> => Last(Tail(q)) = Last(q)
         /\ Tail(q) = <<>> => Head(q) = Last(q)
<1>1. PICK n \in Nat : n = Len(q)
  BY LenProperties
<1>2. n >= 1
  BY <1>1, EmptySeq
<1>3. PICK t : t = Tail(q)
  OBVIOUS
<1>4. t \in Seq(S) /\ Len(t) = n - 1 /\ \A i \in 1..(n - 1) : t[i] = q[i + 1]
  BY <1>1, <1>2, <1>3, HeadTailProperties
<1>5. Head(q) \in S /\ Head(q) = q[1]
  BY HeadTailProperties
<1>6. ASSUME t # <<>>
      PROVE  Last(t) = Last(q)
  <2>1. n - 1 \in 1..(n - 1) /\ (n - 1) + 1 = n
    <3>1. Len(t) # 0
      BY <1>4, <1>6, EmptySeq
    <3> QED BY <1>2, <1>4, <3>1
  <2>2. t[n - 1] = q[n]
    BY <1>4, <2>1
  <2> QED BY <1>1, <1>4, <2>2 DEF Last
<1>7. ASSUME t = <<>>
      PROVE  Head(q) = Last(q)
  <2>1. n = 1
    BY <1>2, <1>4, <1>7, EmptySeq
  <2> QED BY <1>1, <1>5, <2>1 DEF Last
<1> QED BY <1>3, <1>4, <1>5, <1>6, <1>7

\* _path_segment_token tells segments apart, so equal tokens are equal paths.
LEMMA EqualPaths ==
  ASSUME NEW p \in Paths, NEW q \in Paths, PathsEqual(p, q)
  PROVE  p = q
<1>1. p \in Seq(Segments) /\ q \in Seq(Segments) /\ Len(p) = Len(q)
  BY DEF Paths, PathsEqual
<1>2. ASSUME NEW i \in 1..Len(p)
      PROVE  p[i] = q[i]
  <2>1. i \in DOMAIN p /\ p[i] \in Segments /\ q[i] \in Segments
    BY <1>1, ElementOfSeq, LenProperties
  <2>2. Token(p[i]) = Token(q[i])
    BY <2>1 DEF PathsEqual
  <2>3. p[i].kind = q[i].kind /\ p[i].key.type = q[i].key.type /\ p[i].key.id = q[i].key.id
    BY <2>2 DEF Token
  <2>4. p[i].key = q[i].key
    BY <2>1, <2>3, InspectorAssumption DEF Segments
  <2> QED BY <2>1, <2>3, <2>4 DEF Segments
<1> QED BY <1>1, <1>2, SeqEqual

LEMMA SendAsks ==
  ASSUME TypeInv, connected' \in BOOLEAN, NEW u \in Uuids, NEW p \in Paths, Send(u, p)
  PROVE  /\ toBridge' \in Seq(Requests) /\ toApp' = toApp /\ answered' = answered
         /\ lateWrites' = lateWrites /\ lost' \in BOOLEAN
         /\ connected' => Asks(toBridge', u, p)
<1>1. toBridge \in Seq(Requests)
  BY DEF TypeInv, LinkTypes
<1>2. [uuid |-> u, path |-> p] \in Requests
  BY DEF Requests
<1>3. Append(toBridge, [uuid |-> u, path |-> p]) \in Seq(Requests)
      /\ Asks(Append(toBridge, [uuid |-> u, path |-> p]), u, p)
  BY <1>1, <1>2, LastAppended DEF Asks
<1> QED BY <1>1, <1>3 DEF Send

\* _update_visible_child shows properties when they can be had, and asks for them or shows those
\* it showed before.
LEMMA VisibleChild ==
  ASSUME TypeInv, uuid' \in Uuids \cup {NoUuid}, path' \in Paths, known' \subseteq Uuids,
         connected' \in BOOLEAN, NEW force \in BOOLEAN,
         NEW fallback \in {"", "loading", "count", "disconnected"},
         UpdateVisibleChild(force, fallback)
  PROVE  /\ PageTypes'
         /\ toBridge' \in Seq(Requests) /\ toApp' = toApp /\ answered' = answered
         /\ lateWrites' = lateWrites /\ lost' \in BOOLEAN
         /\ status' \in {"loading", fallback}
         /\ page' = "content" =>
              \/ Asks(toBridge', uuid', path')
              \/ /\ page = "content" /\ ~force /\ toBridge' = toBridge /\ status' = fallback
                 /\ lost' = lost
<1>1. page' = CASE uuid' = NoUuid -> "no-selection"
                [] uuid' # NoUuid /\ uuid' \notin known' -> "disabled"
                [] uuid' \in known' /\ ~connected' -> "bridge-offline"
                [] OTHER -> "content"
  BY Zenon DEF UpdateVisibleChild
<1>2. NoUuid \notin known'
  BY InspectorAssumption, Zenon
<1>3. /\ page' \in {"no-selection", "disabled", "bridge-offline", "content"}
      /\ page' = "content" <=> uuid' \in known' /\ connected'
  <2>1. CASE uuid' = NoUuid
    BY <1>1, <1>2, <2>1, Zenon
  <2>2. CASE uuid' # NoUuid /\ uuid' \notin known'
    BY <1>1, <2>2, Zenon
  <2>3. CASE uuid' # NoUuid /\ uuid' \in known' /\ ~connected'
    BY <1>1, <2>3, Zenon
  <2>4. CASE uuid' # NoUuid /\ uuid' \in known' /\ connected'
    BY <1>1, <2>4, Zenon
  <2> QED BY <2>1, <2>2, <2>3, <2>4, Zenon
<1>4. CASE page' = "content" /\ (page # "content" \/ force)
  <2>1. Send(uuid', path') /\ status' = "loading"
    BY <1>4, Zenon DEF UpdateVisibleChild
  <2>2. uuid' \in Uuids /\ connected'
    BY <1>3, <1>4, Zenon
  <2>3. toBridge' \in Seq(Requests) /\ toApp' = toApp /\ answered' = answered
        /\ lateWrites' = lateWrites /\ lost' \in BOOLEAN
        /\ Asks(toBridge', uuid', path')
    BY <2>1, <2>2, SendAsks, Zenon
  <2>4. PageTypes'
    BY <1>3, <2>1, Zenon DEF PageTypes
  <2> QED BY <2>1, <2>3, <2>4, Zenon
<1>5. CASE ~(page' = "content" /\ (page # "content" \/ force))
  <2>1. Quietly /\ status' = fallback
    BY <1>5, Zenon DEF UpdateVisibleChild
  <2>2. toBridge' = toBridge /\ toApp' = toApp /\ answered' = answered
        /\ lateWrites' = lateWrites /\ lost' = lost
    BY <2>1, Zenon DEF Quietly
  <2>3. PageTypes'
    BY <1>3, <2>1, Zenon DEF PageTypes
  <2> QED BY <1>5, <2>1, <2>2, <2>3, Zenon DEF TypeInv, LinkTypes
<1> QED BY <1>4, <1>5, Zenon

\* What an event that leaves the table alone must still show.
LEMMA TableStays ==
  ASSUME TypeInv, TableInv, UNCHANGED tableVars
  PROVE  /\ TableTypes' /\ TableInv' /\ store' = store /\ rowsOf' = rowsOf
         /\ Shows(answered.rows) /\ answered' = answered => Shows(answered.rows)'
<1>1. store' = store /\ positions' = positions /\ rowsOf' = rowsOf
  BY DEF tableVars
<1>2. TableTypes'
  BY <1>1 DEF TypeInv, TableTypes
<1>3. ASSUME NEW rows, Shows(rows)
      PROVE  \E X, place : IsTable(store', rows, X, place) /\ Knows(positions', rows, place)
  BY <1>1, <1>3 DEF Shows
<1>4. TableInv'
  BY <1>3 DEF TableInv, Shows
<1>5. Shows(answered.rows) /\ answered' = answered => Shows(answered.rows)'
  BY <1>3 DEF Shows
<1> QED BY <1>1, <1>2, <1>4, <1>5

\* The table before anything was asked for.
LEMMA EmptyTable == \E rows \in Seq(Rows) : \E X, place : IsTable(<<>>, rows, X, place) /\ Knows(<<>>, rows, place)
<1>1. PICK rows \in Seq(Rows) : rows = <<>>
  BY EmptySeq
<1>2. Len(rows) = 0 /\ Len(<<>>) = 0 /\ 1..0 = {}
  BY <1>1
<1>3. PICK place : place = [i \in 1..0 |-> 0]
  OBVIOUS
<1>4. IsTable(<<>>, rows, {}, place) /\ Knows(<<>>, rows, place)
  BY <1>2, <1>3 DEF IsTable, Knows
<1> QED BY <1>4

LEMMA InvInit == Init => Inv
<1> SUFFICES ASSUME Init PROVE Inv
  OBVIOUS
<1>1. \A S : <<>> \in Seq(S)
  BY EmptySeq
<1>2. TypeInv
  <2>1. WorldTypes
    BY <1>1, InspectorAssumption, Zenon DEF Init, WorldTypes
  <2>2. LinkTypes
    BY <1>1, Zenon DEF Init, LinkTypes, Results, Paths
  <2>3. PageTypes
    BY <1>1, InspectorAssumption, Zenon DEF Init, PageTypes, Paths
  <2>4. TableTypes
    BY <1>1, Zenon DEF Init, TableTypes, Paths
  <2> QED BY <2>1, <2>2, <2>3, <2>4 DEF TypeInv
<1>3. TableInv
  BY EmptyTable, Zenon DEF Init, TableInv, Shows
<1>4. MatchInv
  BY Zenon DEF Init, MatchInv
<1>5. AskInv
  BY Zenon DEF Init, AskInv
<1> QED BY <1>2, <1>3, <1>4, <1>5 DEF Inv

\* An event that makes the page look again at what it can show of the same extension and path.
LEMMA UpdateKeeps ==
  ASSUME Inv, uuid' = uuid, path' = path, UNCHANGED tableVars, WorldTypes', connected' \in BOOLEAN,
         NEW force \in BOOLEAN, UpdateVisibleChild(force, status)
  PROVE  Inv'
<1>1. path' \in Paths /\ status \in {"", "loading", "count", "disconnected"}
      /\ uuid' \in Uuids \cup {NoUuid} /\ known' \subseteq Uuids /\ TypeInv
  BY Zenon DEF Inv, TypeInv, PageTypes, WorldTypes
<1>2. /\ PageTypes'
      /\ toBridge' \in Seq(Requests) /\ toApp' = toApp /\ answered' = answered
      /\ lateWrites' = lateWrites /\ lost' \in BOOLEAN
      /\ status' \in {"loading", status}
      /\ page' = "content" =>
           \/ Asks(toBridge', uuid', path')
           \/ /\ page = "content" /\ ~force /\ toBridge' = toBridge /\ status' = status
              /\ lost' = lost
  BY <1>1, VisibleChild, Zenon
<1>3. TableTypes' /\ TableInv' /\ store' = store /\ rowsOf' = rowsOf
      /\ (Shows(answered.rows) => Shows(answered.rows)')
  BY <1>2, TableStays DEF Inv
<1>4. LinkTypes'
  BY <1>2 DEF Inv, TypeInv, LinkTypes
<1>5. MatchInv'
  BY <1>2, <1>3 DEF Inv, MatchInv
<1>6. AskInv'
  <2> SUFFICES ASSUME page' = "content", ~lost', ~Asks(toBridge', uuid', path')
               PROVE  /\ toBridge' = <<>> /\ answered'.uuid = uuid' /\ answered'.path = path'
                      /\ \/ toApp' # <<>> /\ Last(toApp') = answered'
                         \/ toApp' = <<>> /\ status' = "count" /\ Shows(answered.rows)'
    BY DEF AskInv
  <2>1. page = "content" /\ ~lost /\ toBridge' = toBridge /\ status' = status
    BY <1>2
  <2>2. ~Asks(toBridge, uuid, path)
    BY <2>1
  <2>3. /\ toBridge = <<>> /\ answered.uuid = uuid /\ answered.path = path
        /\ \/ toApp # <<>> /\ Last(toApp) = answered
           \/ toApp = <<>> /\ status = "count" /\ Shows(answered.rows)
    BY <2>1, <2>2 DEF Inv, AskInv
  <2> QED BY <1>2, <1>3, <2>1, <2>3
<1> QED BY <1>2, <1>3, <1>4, <1>5, <1>6 DEF Inv, TypeInv

\* set_target_extension: another selection empties the table, the same one may show it again.
LEMMA SelectKeeps ==
  ASSUME Inv, NEW u \in Uuids \cup {NoUuid}, Select(u)
  PROVE  Inv'
<1>1. uuid' = u /\ heap' = heap /\ running' = running /\ known' = known /\ signals' = signals
      /\ connected' = connected
  BY Zenon DEF Select, worldVars
<1>2. WorldTypes' /\ known' \subseteq Uuids /\ connected' \in BOOLEAN
  BY <1>1 DEF Inv, TypeInv, WorldTypes, LinkTypes
<1>3. CASE u # uuid /\ path' = <<>> /\ store' = <<>> /\ positions' = <<>>
           /\ UpdateVisibleChild(TRUE, "") /\ rowsOf' = rowsOf
  <2>1. path' \in Paths /\ <<>> \in Seq(Items) /\ <<>> \in Seq(Rows)
    BY <1>3, EmptySeq, Zenon DEF Paths
  <2>2. /\ PageTypes'
        /\ toBridge' \in Seq(Requests) /\ toApp' = toApp /\ answered' = answered
        /\ lateWrites' = lateWrites /\ lost' \in BOOLEAN
        /\ status' \in {"loading", ""}
        /\ page' = "content" => Asks(toBridge', uuid', path')
    BY <1>1, <1>2, <1>3, <2>1, VisibleChild, Zenon DEF Inv
  <2>3. LinkTypes' /\ TableTypes'
    BY <1>2, <1>3, <2>1, <2>2, Zenon DEF Inv, TypeInv, LinkTypes, TableTypes
  <2>4. TableInv'
    BY <1>3, EmptyTable, Zenon DEF TableInv, Shows
  <2>5. MatchInv'
    BY <1>3, <2>2, Zenon DEF MatchInv
  <2>6. AskInv'
    BY <2>2, Zenon DEF AskInv
  <2> QED BY <1>2, <2>2, <2>3, <2>4, <2>5, <2>6, Zenon DEF Inv, TypeInv
<1>4. CASE u = uuid /\ path' = path /\ UNCHANGED tableVars /\ UpdateVisibleChild(FALSE, status)
  <2>1. uuid' = uuid /\ FALSE \in BOOLEAN
    BY <1>1, <1>4
  <2> QED BY <1>2, <1>4, <2>1, UpdateKeeps
<1> QED BY <1>3, <1>4, Zenon DEF Select

\* _fetch: the path asked for is the one the page now has, and the table stays meanwhile.
LEMMA AskingKeeps ==
  ASSUME Inv, NEW p \in Paths, page = "content", path' = p,
         UNCHANGED <<worldVars, known, signals, connected, uuid, page, tableVars>>,
         Send(uuid, p), status' = "loading"
  PROVE  Inv'
<1>1. heap' = heap /\ running' = running /\ known' = known /\ signals' = signals
      /\ connected' = connected /\ uuid' = uuid /\ page' = page /\ UNCHANGED tableVars
  BY DEF worldVars, tableVars
<1>2. TypeInv /\ uuid \in Uuids /\ connected' \in BOOLEAN /\ connected'
  <2>1. TypeInv /\ known \subseteq Uuids /\ connected \in BOOLEAN
    BY DEF Inv, TypeInv, WorldTypes, LinkTypes
  <2>2. uuid \in known /\ connected
    BY Zenon DEF Inv, TypeInv, PageTypes
  <2> QED BY <1>1, <2>1, <2>2
<1>3. toBridge' \in Seq(Requests) /\ toApp' = toApp /\ answered' = answered
      /\ lateWrites' = lateWrites /\ lost' \in BOOLEAN
      /\ Asks(toBridge', uuid', path')
  BY <1>1, <1>2, SendAsks
<1>4. TableTypes' /\ TableInv' /\ store' = store /\ rowsOf' = rowsOf
  BY <1>1, <1>2, TableStays DEF Inv
<1>5. TypeInv'
  <2>1. WorldTypes' /\ LinkTypes'
    BY <1>1, <1>2, <1>3 DEF Inv, TypeInv, WorldTypes, LinkTypes
  <2>2. PageTypes'
    <3>1. PageTypes
      BY <1>2 DEF TypeInv
    <3>2. uuid \in known
      BY <3>1, Zenon DEF PageTypes
    <3>3. page' = "content" /\ uuid' \in known' /\ connected'
      BY <1>1, <1>2, <3>2
    <3> QED BY <1>1, <3>1, <3>3, Zenon DEF PageTypes
  <2> QED BY <1>4, <2>1, <2>2 DEF TypeInv
<1>6. MatchInv'
  BY <1>1, <1>4 DEF Inv, MatchInv
<1>7. AskInv'
  BY <1>3 DEF AskInv
<1> QED BY <1>4, <1>5, <1>6, <1>7 DEF Inv

LEMMA NavigateKeeps ==
  ASSUME Inv, NEW p \in Paths, NavigateTo(p)
  PROVE  Inv'
BY AskingKeeps DEF NavigateTo

LEMMA DrillInKeeps ==
  ASSUME Inv, NEW i \in DOMAIN store, DrillIn(i)
  PROVE  Inv'
<1>1. store \in Seq(Items) /\ path \in Seq(Segments)
  BY Zenon DEF Inv, TypeInv, TableTypes, PageTypes, Paths
<1>2. store[i] \in Items /\ store[i].depth = 0 /\ store[i].row.segment # NoSegment
  BY <1>1, LenProperties, ElementOfSeq DEF DrillIn, IsRow, Drillable
<1>3. store[i].row \in Rows
  BY <1>2 DEF Items, RowItems, ChildItems
<1>4. store[i].row.segment \in Segments
  BY <1>2, <1>3 DEF Rows
<1>5. Append(path, store[i].row.segment) \in Paths
  BY <1>1, <1>4, AppendProperties DEF Paths
<1> QED BY <1>5, NavigateKeeps DEF DrillIn

LEMMA GoUpKeeps ==
  ASSUME Inv, NEW n, GoUp(n)
  PROVE  Inv'
<1>1. path \in Seq(Segments) /\ n \in 0..(Len(path) - 1)
  BY Zenon DEF Inv, TypeInv, PageTypes, Paths, GoUp
<1>2. \A i \in 1..n : path[i] \in Segments
  <2>1. \A i \in 1..Len(path) : path[i] \in Segments
    BY <1>1, ElementOfSeq
  <2>2. Len(path) \in Nat
    BY <1>1, LenProperties
  <2> QED BY <1>1, <2>1, <2>2
<1>3. SubSeq(path, 1, n) \in Paths
  BY <1>1, <1>2, SubSeqProperties DEF Paths
<1> QED BY <1>3, NavigateKeeps DEF GoUp

LEMMA RefreshKeeps ==
  ASSUME Inv, Refresh
  PROVE  Inv'
<1>1. path \in Paths /\ path' = path
  BY Zenon DEF Inv, TypeInv, PageTypes, Refresh
<1>2. UNCHANGED <<worldVars, known, signals, connected, uuid, page, tableVars>>
      /\ page = "content" /\ Send(uuid, path) /\ status' = "loading"
  BY DEF Refresh
<1> QED BY <1>1, <1>2, AskingKeeps

\* A table with a row opened or closed is a table of the same rows.
LEMMA ToggleShows ==
  ASSUME TypeInv, NEW rows \in Seq(Rows), Shows(rows), NEW i \in DOMAIN store, ToggleExpand(i)
  PROVE  store' \in Seq(Items) /\ Shows(rows)'
<1>1. PICK X, place : IsTable(store, rows, X, place) /\ Knows(positions, rows, place)
  BY DEF Shows
<1>2. store \in Seq(Items) /\ IsRow(i)
  BY DEF TypeInv, TableTypes, ToggleExpand
<1>3. CASE store[i].expanded /\ RemoveChildren(i)
  BY <1>1, <1>2, <1>3, RemovedTable DEF Shows
<1>4. CASE ~store[i].expanded /\ InsertChildren(i)
  BY <1>1, <1>2, <1>4, InsertedTable DEF Shows
<1> QED BY <1>3, <1>4 DEF ToggleExpand

LEMMA ToggleKeeps ==
  ASSUME Inv, NEW i \in DOMAIN store, ToggleExpand(i)
  PROVE  Inv'
<1>1. /\ heap' = heap /\ running' = running /\ known' = known /\ signals' = signals
      /\ connected' = connected /\ toBridge' = toBridge /\ toApp' = toApp /\ answered' = answered
      /\ uuid' = uuid /\ path' = path /\ page' = page /\ status' = status /\ rowsOf' = rowsOf
      /\ lateWrites' = lateWrites /\ lost' = lost
  BY DEF ToggleExpand, worldVars, linkVars, pageVars
<1>2. TypeInv
  BY DEF Inv
<1>3. PICK rows \in Seq(Rows) : Shows(rows)
  BY DEF Inv, TableInv
<1>4. store' \in Seq(Items) /\ Shows(rows)'
  BY <1>2, <1>3, ToggleShows
<1>5. TableInv'
  BY <1>4 DEF TableInv, Shows
<1>6. TypeInv'
  <2>1. WorldTypes' /\ LinkTypes' /\ PageTypes'
    BY <1>1, <1>2, Zenon DEF TypeInv, WorldTypes, LinkTypes, PageTypes
  <2>2. TableTypes'
    BY <1>1, <1>2, <1>4 DEF TypeInv, TableTypes
  <2> QED BY <2>1, <2>2 DEF TypeInv
<1>7. store # <<>>
  <2>1. store[i] = store[i] /\ DOMAIN <<>> = {}
    OBVIOUS
  <2> QED BY <2>1
<1>8. MatchInv'
  BY <1>1, <1>7 DEF Inv, MatchInv
<1>9. AskInv'
  <2>1. answered.rows \in Seq(Rows)
    BY <1>2 DEF TypeInv, LinkTypes, Results
  <2>2. Shows(answered.rows) => Shows(answered.rows)'
    <3> SUFFICES ASSUME Shows(answered.rows)
                 PROVE  Shows(answered.rows)'
      OBVIOUS
    <3>1. PICK r \in Seq(Rows) : r = answered.rows /\ r = answered'.rows
      BY <1>1, <2>1
    <3>2. Shows(r)
      BY <3>1
    <3>3. Shows(r)'
      BY <1>2, <3>2, ToggleShows
    <3> QED BY <3>1, <3>3 DEF Shows
  <2>3. AskInv
    BY DEF Inv
  <2> QED BY <1>1, <2>2, <2>3 DEF AskInv
<1> QED BY <1>5, <1>6, <1>8, <1>9 DEF Inv

\* _onMessage answers the oldest request; its result joins those on their way.
LEMMA AnswerKeeps ==
  ASSUME Inv, Answer
  PROVE  Inv'
<1>1. /\ heap' = heap /\ running' = running /\ known' = known /\ signals' = signals
      /\ connected' = connected /\ uuid' = uuid /\ path' = path /\ page' = page /\ status' = status
      /\ UNCHANGED tableVars /\ lateWrites' = lateWrites /\ lost' = lost
  BY DEF Answer, worldVars, pageVars
<1>2. TypeInv /\ TableInv /\ AskInv /\ MatchInv
  BY DEF Inv
<1>3. toBridge \in Seq(Requests) /\ toApp \in Seq(Results) /\ toBridge # <<>>
  BY <1>2 DEF TypeInv, LinkTypes, Answer
<1>4. PICK ask : ask = Head(toBridge)
  OBVIOUS
<1>5. PICK result : result = [uuid |-> ask.uuid, path |-> ask.path, rows |-> Inspect(ask.uuid, ask.path)]
  OBVIOUS
<1>6. toBridge' = Tail(toBridge) /\ toApp' = Append(toApp, result) /\ answered' = result
  BY <1>4, <1>5 DEF Answer
<1>7. ask \in Requests /\ toBridge' \in Seq(Requests)
      /\ (toBridge' # <<>> => Last(toBridge') = Last(toBridge))
      /\ (toBridge' = <<>> => ask = Last(toBridge))
  BY <1>3, <1>4, <1>6, LastOfTail
<1>8. result \in Results
  <2>1. Inspect(ask.uuid, ask.path) \in Seq(Rows)
    BY <1>2, InspectType DEF TypeInv, WorldTypes
  <2> QED BY <1>5, <1>7, <2>1 DEF Results, Requests
<1>9. toApp' \in Seq(Results) /\ toApp' # <<>> /\ Last(toApp') = result
  BY <1>3, <1>6, <1>8, LastAppended
<1>10. TableTypes' /\ TableInv' /\ store' = store /\ rowsOf' = rowsOf
  BY <1>1, <1>2, TableStays
<1>11. TypeInv'
  <2>1. WorldTypes' /\ LinkTypes' /\ PageTypes'
    BY <1>1, <1>2, <1>6, <1>7, <1>8, <1>9, Zenon DEF TypeInv, WorldTypes, LinkTypes, PageTypes
  <2> QED BY <1>10, <2>1 DEF TypeInv
<1>12. MatchInv'
  BY <1>1, <1>2, <1>10 DEF MatchInv
<1>13. AskInv'
  <2> SUFFICES ASSUME page = "content", ~lost
               PROVE  \/ Asks(toBridge', uuid, path)
                      \/ toBridge' = <<>> /\ result.uuid = uuid /\ result.path = path
    BY <1>1, <1>6, <1>9 DEF AskInv
  <2>1. Last(toBridge) = [uuid |-> uuid, path |-> path]
    BY <1>2, <1>3 DEF AskInv, Asks
  <2>2. CASE toBridge' # <<>>
    BY <1>7, <2>1, <2>2 DEF Asks
  <2>3. CASE toBridge' = <<>>
    BY <1>5, <1>7, <2>1, <2>3
  <2> QED BY <2>2, <2>3
<1> QED BY <1>10, <1>11, <1>12, <1>13 DEF Inv

\* _on_inspect_result shows a result for what is selected and drops every other.
LEMMA InspectResultKeeps ==
  ASSUME Inv, OnInspectResult
  PROVE  Inv'
<1>1. /\ heap' = heap /\ running' = running /\ known' = known /\ signals' = signals
      /\ connected' = connected /\ uuid' = uuid /\ path' = path /\ page' = page
      /\ toBridge' = toBridge /\ answered' = answered
      /\ lateWrites' = lateWrites /\ lost' = lost
  BY DEF OnInspectResult, worldVars
<1>2. TypeInv /\ TableInv /\ AskInv /\ MatchInv
  BY DEF Inv
<1>3. toApp \in Seq(Results) /\ toApp # <<>>
  BY <1>2 DEF TypeInv, LinkTypes, OnInspectResult
<1>4. PICK result : result = Head(toApp)
  OBVIOUS
<1>5. toApp' = Tail(toApp)
  BY DEF OnInspectResult
<1>6. result \in Results /\ toApp' \in Seq(Results)
      /\ (toApp' # <<>> => Last(toApp') = Last(toApp))
      /\ (toApp' = <<>> => result = Last(toApp))
  BY <1>3, <1>4, <1>5, LastOfTail
<1>7. path \in Paths /\ result.path \in Paths /\ result.rows \in Seq(Rows)
      /\ result.uuid \in Uuids \cup {NoUuid}
  BY <1>2, <1>6, Zenon DEF TypeInv, PageTypes, Results
<1>8. CASE result.uuid = uuid /\ PathsEqual(result.path, path)
  <2>1. ShowRows(result)
    BY <1>4, <1>8 DEF OnInspectResult
  <2>2. result.path = path
    BY <1>7, <1>8, EqualPaths
  <2>3. rowsOf' = <<uuid, path>> /\ status' = "count" /\ positions' = RebuildItemPositions(store')
    BY <1>8, <2>1, <2>2 DEF ShowRows
  <2>4. PICK rows \in Seq(Rows) : rows = result.rows
    BY <1>7
  <2>5. store' = Fresh(rows)
    BY <2>1, <2>4 DEF ShowRows, Fresh
  <2>6. store' \in Seq(Items) /\ \E place : IsTable(store', rows, {}, place)
    BY <2>5, FreshTable
  <2>7. Shows(rows)'
    BY <2>3, <2>6, PositionsKnow DEF Shows
  <2>8. TableInv'
    BY <2>7 DEF TableInv, Shows
  <2>9. TypeInv'
    <3>1. WorldTypes' /\ LinkTypes'
      BY <1>1, <1>2, <1>6 DEF TypeInv, WorldTypes, LinkTypes
    <3>2. PageTypes'
      BY <1>1, <1>2, <2>3, Zenon DEF TypeInv, PageTypes
    <3>3. TableTypes'
      BY <1>2, <1>7, <2>3, <2>6, Zenon DEF TypeInv, TableTypes, PageTypes
    <3> QED BY <3>1, <3>2, <3>3 DEF TypeInv
  <2>10. MatchInv'
    BY <1>1, <2>3 DEF MatchInv
  <2>11. AskInv'
    <3> SUFFICES ASSUME page = "content", ~lost, ~Asks(toBridge, uuid, path)
                 PROVE  /\ toBridge = <<>> /\ answered.uuid = uuid /\ answered.path = path
                        /\ \/ toApp' # <<>> /\ Last(toApp') = answered
                           \/ toApp' = <<>> /\ status' = "count" /\ Shows(answered.rows)'
      BY <1>1 DEF AskInv
    <3>1. toBridge = <<>> /\ answered.uuid = uuid /\ answered.path = path /\ Last(toApp) = answered
      BY <1>2, <1>3 DEF AskInv
    <3>2. CASE toApp' # <<>>
      BY <1>6, <3>1, <3>2
    <3>3. CASE toApp' = <<>>
      <4>1. answered'.rows = rows
        BY <1>1, <1>6, <2>4, <3>1, <3>3
      <4>2. Shows(answered.rows)'
        BY <2>7, <4>1 DEF Shows
      <4> QED BY <2>3, <3>1, <3>3, <4>2
    <3> QED BY <3>2, <3>3
  <2> QED BY <2>8, <2>9, <2>10, <2>11 DEF Inv
<1>9. CASE ~(result.uuid = uuid /\ PathsEqual(result.path, path))
  <2>1. UNCHANGED tableVars /\ status' = status
    BY <1>4, <1>9 DEF OnInspectResult
  <2>2. TableTypes' /\ TableInv' /\ store' = store /\ rowsOf' = rowsOf
    BY <1>2, <2>1, TableStays
  <2>3. TypeInv'
    <3>1. WorldTypes' /\ LinkTypes' /\ PageTypes'
      BY <1>1, <1>2, <1>6, <2>1, Zenon DEF TypeInv, WorldTypes, LinkTypes, PageTypes
    <3> QED BY <2>2, <3>1 DEF TypeInv
  <2>4. MatchInv'
    BY <1>1, <1>2, <2>1, <2>2 DEF MatchInv
  <2>5. AskInv'
    <3> SUFFICES ASSUME page = "content", ~lost, ~Asks(toBridge, uuid, path)
                 PROVE  /\ toBridge = <<>> /\ answered.uuid = uuid /\ answered.path = path
                        /\ toApp' # <<>> /\ Last(toApp') = answered
      BY <1>1 DEF AskInv
    <3>1. toBridge = <<>> /\ answered.uuid = uuid /\ answered.path = path /\ Last(toApp) = answered
      BY <1>2, <1>3 DEF AskInv
    <3>2. toApp' # <<>>
      <4> SUFFICES ASSUME toApp' = <<>> PROVE FALSE
        OBVIOUS
      <4>1. result = answered
        BY <1>6, <3>1
      <4>2. PathsEqual(path, path)
        BY DEF PathsEqual
      <4> QED BY <1>9, <3>1, <4>1, <4>2
    <3> QED BY <1>6, <3>1, <3>2
  <2> QED BY <2>2, <2>3, <2>4, <2>5 DEF Inv
<1> QED BY <1>8, <1>9

LEMMA ExtensionsChangedKeeps ==
  ASSUME Inv, OnExtensionsChanged
  PROVE  Inv'
<1>1. /\ heap' = heap /\ running' = running /\ connected' = connected /\ uuid' = uuid /\ path' = path
      /\ UNCHANGED tableVars /\ signals # <<>> /\ signals' = Tail(signals) /\ known' = Head(signals)
  BY DEF OnExtensionsChanged, worldVars
<1>2. TypeInv /\ TableInv /\ AskInv /\ MatchInv
  BY DEF Inv
<1>3. WorldTypes' /\ connected' \in BOOLEAN
  <2>1. signals \in Seq(SUBSET Uuids)
    BY <1>2 DEF TypeInv, WorldTypes
  <2>2. known' \in SUBSET Uuids /\ signals' \in Seq(SUBSET Uuids)
    BY <1>1, <2>1, LastOfTail
  <2> QED BY <1>1, <1>2, <2>2 DEF TypeInv, WorldTypes, LinkTypes
<1>4. CASE uuid = NoUuid /\ Quietly /\ page' = page /\ status' = status
  <2>1. toBridge' = toBridge /\ toApp' = toApp /\ answered' = answered
        /\ lateWrites' = lateWrites /\ lost' = lost
    BY <1>4 DEF Quietly
  <2>2. TableTypes' /\ TableInv' /\ store' = store /\ rowsOf' = rowsOf
    BY <1>1, <1>2, TableStays
  <2>3. page # "content"
    <3>1. NoUuid \notin known
      BY <1>2, InspectorAssumption DEF TypeInv, WorldTypes
    <3> QED BY <1>2, <1>4, <3>1, Zenon DEF TypeInv, PageTypes
  <2>4. TypeInv'
    <3>1. LinkTypes'
      BY <1>1, <1>2, <2>1 DEF TypeInv, LinkTypes
    <3>2. NoUuid \notin known'
      BY <1>3, InspectorAssumption DEF WorldTypes
    <3>3. PageTypes'
      BY <1>1, <1>2, <1>4, <2>3, <3>2, Zenon DEF TypeInv, PageTypes
    <3> QED BY <1>3, <2>2, <3>1, <3>3 DEF TypeInv
  <2>5. MatchInv'
    BY <1>1, <1>2, <1>4, <2>2 DEF MatchInv
  <2>6. AskInv'
    BY <1>4, <2>3 DEF AskInv
  <2> QED BY <2>2, <2>4, <2>5, <2>6 DEF Inv
<1>5. CASE UpdateVisibleChild(FALSE, status)
  <2>1. FALSE \in BOOLEAN
    OBVIOUS
  <2> QED BY <1>1, <1>3, <1>5, <2>1, UpdateKeeps
<1> QED BY <1>4, <1>5 DEF OnExtensionsChanged

LEMMA ClientConnectedKeeps ==
  ASSUME Inv, OnClientConnected
  PROVE  Inv'
<1>1. /\ heap' = heap /\ running' = running /\ known' = known /\ signals' = signals
      /\ uuid' = uuid /\ path' = path /\ UNCHANGED tableVars /\ connected' = TRUE
  BY DEF OnClientConnected, worldVars
<1>2. TypeInv /\ TableInv /\ AskInv /\ MatchInv
  BY DEF Inv
<1>3. WorldTypes' /\ connected' \in BOOLEAN
  BY <1>1, <1>2 DEF TypeInv, WorldTypes
<1>4. CASE uuid = NoUuid /\ Quietly /\ page' = page /\ status' = status
  <2>1. toBridge' = toBridge /\ toApp' = toApp /\ answered' = answered
        /\ lateWrites' = lateWrites /\ lost' = lost
    BY <1>4 DEF Quietly
  <2>2. TableTypes' /\ TableInv' /\ store' = store /\ rowsOf' = rowsOf
    BY <1>1, <1>2, TableStays
  <2>3. page # "content" /\ NoUuid \notin known
    <3>1. NoUuid \notin known
      BY <1>2, InspectorAssumption DEF TypeInv, WorldTypes
    <3> QED BY <1>2, <1>4, <3>1, Zenon DEF TypeInv, PageTypes
  <2>4. TypeInv'
    <3>1. LinkTypes'
      BY <1>3, <1>2, <2>1 DEF TypeInv, LinkTypes
    <3>2. PageTypes'
      BY <1>1, <1>2, <1>4, <2>3, Zenon DEF TypeInv, PageTypes
    <3> QED BY <1>3, <2>2, <3>1, <3>2 DEF TypeInv
  <2>5. MatchInv'
    BY <1>1, <1>2, <1>4, <2>2 DEF MatchInv
  <2>6. AskInv'
    BY <1>4, <2>3 DEF AskInv
  <2> QED BY <2>2, <2>4, <2>5, <2>6 DEF Inv
<1>5. CASE UpdateVisibleChild(TRUE, status)
  <2>1. TRUE \in BOOLEAN
    OBVIOUS
  <2> QED BY <1>1, <1>3, <1>5, <2>1, UpdateKeeps
<1> QED BY <1>4, <1>5, Zenon DEF OnClientConnected

\* Late writes are counted up and down, never below zero.
LEMMA LateWriteCounted ==
  ASSUME TypeInv, \/ lateWrites' \in {lateWrites, lateWrites + 1}
                  \/ lateWrites > 0 /\ lateWrites' = lateWrites - 1
  PROVE  lateWrites' \in Nat
<1>1. lateWrites \in Nat
  BY Zenon DEF TypeInv, LinkTypes
<1> QED BY <1>1

LEMMA DisconnectedKeeps ==
  ASSUME Inv, OnDisconnected
  PROVE  Inv'
<1>1. /\ heap' = heap /\ running' = running /\ known' = known /\ signals' = signals
      /\ uuid' = uuid /\ path' = path /\ UNCHANGED tableVars /\ connected' = FALSE
      /\ toBridge' = <<>> /\ toApp' = <<>> /\ answered' = answered /\ status' = "disconnected"
      /\ lateWrites' \in {lateWrites, lateWrites + 1} /\ lost' = FALSE
      /\ page' \in {"no-selection", "disabled", "bridge-offline"}
  BY DEF OnDisconnected, WriteMayBeLate, worldVars
<1>2. TypeInv /\ TableInv /\ MatchInv
  BY DEF Inv
<1>3. TableTypes' /\ TableInv' /\ store' = store /\ rowsOf' = rowsOf
  BY <1>1, <1>2, TableStays
<1>4. TypeInv'
  <2>1. lateWrites' \in Nat
    BY <1>1, <1>2, LateWriteCounted
  <2>2. \A S : <<>> \in Seq(S)
    BY EmptySeq
  <2>3. WorldTypes' /\ LinkTypes'
    BY <1>1, <1>2, <2>1, <2>2, Zenon DEF TypeInv, WorldTypes, LinkTypes
  <2>4. PageTypes'
    BY <1>1, <1>2, Zenon DEF TypeInv, PageTypes
  <2> QED BY <1>3, <2>3, <2>4 DEF TypeInv
<1>5. MatchInv'
  BY <1>1, <1>2, <1>3 DEF MatchInv
<1>6. AskInv'
  BY <1>1 DEF AskInv
<1> QED BY <1>3, <1>4, <1>5, <1>6 DEF Inv

\* A replaced connection: what the page shows stays, and when those are properties it asks again.
LEMMA ReplacedKeeps ==
  ASSUME Inv, Replaced
  PROVE  Inv'
<1>1. /\ heap' = heap /\ running' = running /\ known' = known /\ signals' = signals
      /\ uuid' = uuid /\ path' = path /\ page' = page /\ connected' = connected
      /\ UNCHANGED tableVars /\ connected
      /\ toApp' = <<>> /\ answered' = answered /\ lost' = FALSE
      /\ lateWrites' \in {lateWrites, lateWrites + 1}
      /\ status' \in {"loading", "disconnected"}
  BY DEF Replaced, WriteMayBeLate, worldVars
<1>2. TypeInv /\ TableInv /\ MatchInv
  BY DEF Inv
<1>3. PICK k \in 1..(Len(toBridge) + 1) :
        toBridge' = IF page = "content"
                    THEN Append(SubSeq(toBridge, k, Len(toBridge)), [uuid |-> uuid, path |-> path])
                    ELSE SubSeq(toBridge, k, Len(toBridge))
  BY DEF Replaced
<1>4. SubSeq(toBridge, k, Len(toBridge)) \in Seq(Requests)
  <2>1. toBridge \in Seq(Requests) /\ Len(toBridge) \in Nat
    BY <1>2, LenProperties DEF TypeInv, LinkTypes
  <2>2. \A i \in k..Len(toBridge) : toBridge[i] \in Requests
    BY <2>1, ElementOfSeq
  <2> QED BY <2>1, <2>2, SubSeqProperties
<1>5. ASSUME page = "content"
      PROVE  toBridge' \in Seq(Requests) /\ Asks(toBridge', uuid, path)
  <2>1. uuid \in known /\ path \in Paths /\ known \subseteq Uuids
    BY <1>2, <1>5, Zenon DEF TypeInv, PageTypes, WorldTypes
  <2>2. [uuid |-> uuid, path |-> path] \in Requests
    BY <2>1 DEF Requests
  <2>3. toBridge' = Append(SubSeq(toBridge, k, Len(toBridge)), [uuid |-> uuid, path |-> path])
    BY <1>3, <1>5
  <2>4. toBridge' \in Seq(Requests) /\ toBridge' # <<>>
        /\ Last(toBridge') = [uuid |-> uuid, path |-> path]
    BY <1>4, <2>2, <2>3, LastAppended
  <2>5. Asks(toBridge', uuid, path)
    BY <2>4, Zenon DEF Asks
  <2> QED BY <2>4, <2>5
<1>6. toBridge' \in Seq(Requests) /\ (page = "content" => Asks(toBridge', uuid, path))
  <2>1. CASE page # "content"
    BY <1>3, <1>4, <2>1
  <2> QED BY <1>5, <2>1, Zenon
<1>7. TableTypes' /\ TableInv' /\ store' = store /\ rowsOf' = rowsOf
  BY <1>1, <1>2, TableStays
<1>8. TypeInv'
  <2>1. lateWrites' \in Nat
    BY <1>1, <1>2, LateWriteCounted
  <2>2. \A S : <<>> \in Seq(S)
    BY EmptySeq
  <2>3. WorldTypes' /\ LinkTypes'
    BY <1>1, <1>2, <1>6, <2>1, <2>2, Zenon DEF TypeInv, WorldTypes, LinkTypes
  <2>4. PageTypes'
    BY <1>1, <1>2, Zenon DEF TypeInv, PageTypes
  <2> QED BY <1>7, <2>3, <2>4 DEF TypeInv
<1>9. MatchInv'
  BY <1>1, <1>2, <1>7 DEF MatchInv
<1>10. AskInv'
  BY <1>1, <1>6 DEF AskInv
<1> QED BY <1>7, <1>8, <1>9, <1>10 DEF Inv

\* A late write that fails takes requests with it, which `lost' remembers.
LEMMA LateWriteKeeps ==
  ASSUME Inv, LateWriteReturns
  PROVE  Inv'
<1>1. /\ heap' = heap /\ running' = running /\ known' = known /\ signals' = signals
      /\ uuid' = uuid /\ path' = path /\ page' = page /\ connected' = connected
      /\ status' = status /\ UNCHANGED tableVars /\ toApp' = toApp /\ answered' = answered
      /\ lateWrites > 0 /\ lateWrites' = lateWrites - 1
  BY DEF LateWriteReturns, worldVars, pageVars
<1>2. TypeInv /\ TableInv /\ MatchInv /\ AskInv
  BY DEF Inv
<1>3. TableTypes' /\ TableInv' /\ store' = store /\ rowsOf' = rowsOf
      /\ (Shows(answered.rows) => Shows(answered.rows)')
  BY <1>1, <1>2, TableStays
<1>4. toBridge' \in Seq(Requests)
      /\ (lost' = TRUE \/ (lost' = lost /\ toBridge' = toBridge))
  <2>1. toBridge \in Seq(Requests) /\ Len(toBridge) \in Nat
    BY <1>2, LenProperties DEF TypeInv, LinkTypes
  <2>2. CASE UNCHANGED <<toBridge, lost>>
    BY <2>1, <2>2
  <2>3. CASE lost' = TRUE /\ \E k \in 0..(Len(toBridge) - 1) : toBridge' = SubSeq(toBridge, 1, k)
    <3>1. PICK k \in 0..(Len(toBridge) - 1) : toBridge' = SubSeq(toBridge, 1, k)
      BY <2>3
    <3>2. \A i \in 1..k : toBridge[i] \in Requests
      BY <2>1, ElementOfSeq
    <3>3. SubSeq(toBridge, 1, k) \in Seq(Requests)
      BY <2>1, <3>2, SubSeqProperties
    <3> QED BY <2>3, <3>1, <3>3
  <2> QED BY <2>2, <2>3 DEF LateWriteReturns
<1>5. TypeInv'
  <2>1. lateWrites' \in Nat
    BY <1>1, <1>2, LateWriteCounted
  <2>2. lost' \in BOOLEAN
    BY <1>2, <1>4, Zenon DEF TypeInv, LinkTypes
  <2>3. WorldTypes' /\ LinkTypes'
    BY <1>1, <1>2, <1>4, <2>1, <2>2, Zenon DEF TypeInv, WorldTypes, LinkTypes
  <2>4. PageTypes'
    BY <1>1, <1>2, Zenon DEF TypeInv, PageTypes
  <2> QED BY <1>3, <2>3, <2>4 DEF TypeInv
<1>6. MatchInv'
  BY <1>1, <1>2, <1>3 DEF MatchInv
<1>7. AskInv'
  BY <1>1, <1>2, <1>3, <1>4 DEF AskInv
<1> QED BY <1>3, <1>5, <1>6, <1>7 DEF Inv

\* What happens in the shell is not on the page before it is told.
LEMMA ShellKeeps ==
  ASSUME Inv, \/ \E u \in Uuids : Switch(u)
              \/ \E o \in Objs : ChangeObject(o)
              \/ UNCHANGED vars
  PROVE  Inv'
<1>1. /\ known' = known /\ connected' = connected /\ toBridge' = toBridge /\ toApp' = toApp
      /\ answered' = answered /\ uuid' = uuid /\ path' = path /\ page' = page /\ status' = status
      /\ UNCHANGED tableVars /\ lateWrites' = lateWrites /\ lost' = lost
  BY DEF Switch, ChangeObject, vars, worldVars, linkVars, tableVars, pageVars
<1>2. TypeInv /\ TableInv /\ AskInv /\ MatchInv
  BY DEF Inv
<1>3. TableTypes' /\ TableInv' /\ store' = store /\ rowsOf' = rowsOf
      /\ (Shows(answered.rows) => Shows(answered.rows)')
  BY <1>1, <1>2, TableStays
<1>4. WorldTypes'
  <2>1. heap \in [Objs -> Nodes] /\ running \subseteq Uuids /\ known \subseteq Uuids
        /\ signals \in Seq(SUBSET Uuids)
    BY <1>2 DEF TypeInv, WorldTypes
  <2>2. CASE \E u \in Uuids : Switch(u)
    <3>1. PICK u \in Uuids : Switch(u)
      BY <2>2
    <3>2. running' = SymDiff(running, {u}) /\ signals' = Append(signals, running') /\ heap' = heap
      BY <3>1 DEF Switch
    <3>3. running' \in SUBSET Uuids
      BY <2>1, <3>2 DEF SymDiff
    <3>4. signals' \in Seq(SUBSET Uuids)
      BY <2>1, <3>2, <3>3, AppendProperties
    <3> QED BY <1>1, <2>1, <3>2, <3>3, <3>4 DEF WorldTypes
  <2>3. CASE \E o \in Objs : ChangeObject(o)
    <3>1. PICK o \in Objs : ChangeObject(o)
      BY <2>3
    <3>2. PICK content \in Contents : heap' = [heap EXCEPT ![o] = content]
      BY <3>1 DEF ChangeObject
    <3>3. content \in Nodes
      BY InspectorAssumption
    <3>4. heap' \in [Objs -> Nodes]
      BY <2>1, <3>2, <3>3
    <3>5. running' = running /\ signals' = signals
      BY <3>1 DEF ChangeObject
    <3> QED BY <1>1, <2>1, <3>4, <3>5 DEF WorldTypes
  <2>4. CASE UNCHANGED vars
    <3>1. heap' = heap /\ running' = running /\ signals' = signals
      BY <2>4 DEF vars, worldVars
    <3> QED BY <1>1, <2>1, <3>1 DEF WorldTypes
  <2> QED BY <2>2, <2>3, <2>4
<1>5. TypeInv'
  <2>1. LinkTypes' /\ PageTypes'
    BY <1>1, <1>2, Zenon DEF TypeInv, LinkTypes, PageTypes
  <2> QED BY <1>3, <1>4, <2>1 DEF TypeInv
<1>6. MatchInv'
  BY <1>1, <1>2, <1>3 DEF MatchInv
<1>7. AskInv'
  BY <1>1, <1>2, <1>3 DEF AskInv
<1> QED BY <1>3, <1>5, <1>6, <1>7 DEF Inv

LEMMA InvKeeps == Inv /\ [Next]_vars => Inv'
<1> SUFFICES ASSUME Inv, [Next]_vars PROVE Inv'
  OBVIOUS
<1>1. CASE \E u \in Uuids \cup {NoUuid} : Select(u)
  BY <1>1, SelectKeeps
<1>2. CASE \E i \in DOMAIN store : DrillIn(i) \/ ToggleExpand(i)
  BY <1>2, DrillInKeeps, ToggleKeeps
<1>3. CASE \E n \in 0..MaxClicks : GoUp(n)
  BY <1>3, GoUpKeeps
<1>4. CASE Refresh
  BY <1>4, RefreshKeeps
<1>5. CASE Answer \/ OnInspectResult
  BY <1>5, AnswerKeeps, InspectResultKeeps
<1>6. CASE \/ OnExtensionsChanged \/ OnClientConnected \/ OnDisconnected
           \/ Replaced \/ LateWriteReturns
  BY <1>6, ExtensionsChangedKeeps, ClientConnectedKeeps, DisconnectedKeeps, ReplacedKeeps,
     LateWriteKeeps
<1>7. CASE \/ \E u \in Uuids : Switch(u)
           \/ \E o \in Objs : ChangeObject(o)
           \/ UNCHANGED vars
  BY <1>7, ShellKeeps
<1> QED BY <1>1, <1>2, <1>3, <1>4, <1>5, <1>6, <1>7 DEF Next

\* What inspector.js answers and what the page keeps of it agree in every reachable state: the
\* invariant that the theorems below follow from.
THEOREM InvHolds == Spec => []Inv
BY InvInit, InvKeeps, PTL DEF Spec

-----------------------------------------------------------------------------
(* Theorems *)

\* The ranges of the variables: the page shows properties exactly when the selected extension is
\* known to be enabled and the bridge can be reached.
THEOREM InspectorIsTyped == Spec => []TypeOK
<1>1. Inv => TypeOK
  <2> SUFFICES ASSUME Inv PROVE TypeOK
    OBVIOUS
  <2>1. WorldTypes /\ PageTypes /\ TableTypes /\ LinkTypes
    BY DEF Inv, TypeInv
  <2>2. \A i \in DOMAIN path : path[i].kind \in {"property", "map-key"}
    <3>1. path \in Seq(Segments)
      BY <2>1, Zenon DEF PageTypes, Paths
    <3>2. \A i \in DOMAIN path : path[i] \in Segments
      BY <3>1, ElementOfSeq, LenProperties
    <3> QED BY <3>2 DEF Segments
  <2>3. \A i \in DOMAIN store : store[i].depth \in 0..1
    <3>1. store \in Seq(Items)
      BY <2>1 DEF TableTypes
    <3>2. \A i \in DOMAIN store : store[i] \in Items
      BY <3>1, ElementOfSeq, LenProperties
    <3> QED BY <3>2 DEF Items, RowItems, ChildItems
  <2> QED BY <2>1, <2>2, <2>3, Zenon DEF WorldTypes, PageTypes, LinkTypes, TypeOK
<1> QED BY <1>1, InvHolds, PTL

\* The rows in the table are of the selected extension, and the status counts properties only of
\* the path in the breadcrumb bar: a result that comes late is dropped.
THEOREM ResultsAreMatched == Spec => []RowsMatchPath
<1>1. Inv => RowsMatchPath
  BY DEF Inv, MatchInv, RowsMatchPath
<1> QED BY <1>1, InvHolds, PTL

\* A page with nothing on its way shows the last result the bridge made, its rows in order and
\* behind each row that is expanded its children: the page has asked whenever it became visible,
\* and rows are found where _item_positions says however they were opened and closed.  The one
\* exception is a request that a late failing write of an earlier connection took with it, until
\* the next one.
THEOREM LastAnswerIsShown == Spec => []ShowsLastAnswer
<1>1. Inv => ShowsLastAnswer
  <2> SUFFICES ASSUME Inv, page = "content", toBridge = <<>>, toApp = <<>>, ~lost
               PROVE  /\ status = "count"
                      /\ rowsOf = <<answered.uuid, answered.path>>
                      /\ store = TableOf(answered.rows)
    BY DEF ShowsLastAnswer
  <2>1. status = "count" /\ answered.uuid = uuid /\ answered.path = path /\ Shows(answered.rows)
    BY DEF Inv, AskInv, Asks
  <2>2. rowsOf = <<uuid, path>>
    BY <2>1 DEF Inv, MatchInv
  <2>3. PICK rows \in Seq(Rows) : rows = answered.rows
    BY DEF Inv, TypeInv, LinkTypes, Results
  <2>4. PICK X, place : IsTable(store, rows, X, place)
    BY <2>1, <2>3 DEF Shows
  <2>5. store \in Seq(Items)
    BY DEF Inv, TypeInv, TableTypes
  <2>6. store = TableOf(rows)
    BY <2>4, <2>5, TableIsShown
  <2> QED BY <2>1, <2>2, <2>3, <2>6
<1> QED BY <1>1, InvHolds, PTL

\* Drilling into a row leads to the object the row describes, and from a row that says
\* "[Circular]" back to the object on display, however the extension's objects are linked: the
\* segments that inspector.js sends find what it serialized.
THEOREM DrillingReaches == Spec => []DrillReaches
<1>1. Inv => DrillReaches
  <2> SUFFICES ASSUME Inv, uuid # NoUuid, NEW i \in DOMAIN Inspect(uuid, path),
                      Drillable(Inspect(uuid, path)[i])
               PROVE  LET row == Inspect(uuid, path)[i]
                          target == Resolve(uuid, Append(path, row.segment))
                      IN  /\ target \in Objs
                          /\ IF row.label.text = "[Circular]" THEN target = Resolve(uuid, path)
                             ELSE heap[target].kind = row.label.type
    BY DEF DrillReaches
  <2>1. heap \in [Objs -> Nodes] /\ path \in Paths
    BY Zenon DEF Inv, TypeInv, WorldTypes, PageTypes
  <2>2. PICK o \in Objs : o = Resolve(uuid, path) /\ Inspect(uuid, path) = Serialize(o)
    <3>1. Inspect(uuid, path) # <<>>
      OBVIOUS
    <3> QED BY <3>1 DEF Inspect
  <2>3. PICK rows \in Seq(Rows) : rows = Serialize(o)
    BY <2>1, SerializeRows
  <2>4. i \in 1..Len(rows) /\ Drillable(rows[i])
    BY <2>2, <2>3, LenProperties
  <2>5. PICK n \in Nat : n = Len(Listed(o))
    BY <2>1, ListedType
  <2>6. i \in 1..n
    <3>1. Len(rows) \in {n, n + 1} /\ (Len(rows) # n => rows[n + 1].label.type = "info")
      BY <2>1, <2>3, <2>5, SerializeRows
    <3>2. rows[i].label.type # "info"
      BY <2>4 DEF Drillable, Kinds
    <3>3. ~(Len(rows) # n /\ i = n + 1)
      BY <3>1, <3>2
    <3> QED BY <2>4, <3>1, <3>3
  <2>7. i \in 1..Len(heap[o].entries)
    BY <2>1, <2>5, <2>6, ListedType
  <2>8. PICK e : e = heap[o].entries[i]
    OBVIOUS
  <2>9. rows[i] = RowOf(o, e)
    BY <2>1, <2>3, <2>5, <2>6, <2>8, SerializeRows
  <2>10. rows[i].segment = Segment(heap[o].kind, e.key) /\ rows[i].label = Label(e.value, {o})
    BY <2>9 DEF RowOf
  <2>11. rows[i].segment # NoSegment /\ rows[i].label.type \in Kinds
    BY <2>4 DEF Drillable
  <2>12. rows[i].segment \in Segments
    <3>1. e.key \in Keys
      BY <2>1, <2>7, <2>8, NodeType
    <3> QED BY <2>10, <2>11, <3>1, SegmentType
  <2>13. Resolve(uuid, Append(path, rows[i].segment)) = e.value
    <3>1. Resolve(uuid, Append(path, rows[i].segment)) = ResolvePathSegment(o, rows[i].segment)
      BY <2>1, <2>2, <2>12, ResolveAppended
    <3>2. ResolvePathSegment(o, rows[i].segment) = e.value
      BY <2>1, <2>7, <2>8, <2>10, <2>11, SegmentFinds
    <3> QED BY <3>1, <3>2
  <2>14. /\ e.value \in Objs
         /\ IF rows[i].label.text = "[Circular]" THEN e.value = o
            ELSE heap[e.value].kind = rows[i].label.type
    BY <2>1, <2>10, <2>11, LabelTells
  <2> QED BY <2>2, <2>3, <2>13, <2>14
<1> QED BY <1>1, InvHolds, PTL

=============================================================================
