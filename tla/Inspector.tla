----------------------------- MODULE Inspector -----------------------------
(***************************************************************************)
(* The Inspector: bridge-extension/inspector.js, which lists the           *)
(* properties of a live object of an extension, and the page               *)
(* app/ui/inspector_view.py that asks it over the bridge connection.       *)
(*                                                                         *)
(* The extension's objects form a graph that may have cycles and that the  *)
(* extension changes as it runs.  An object has a kind and a sequence of   *)
(* entries, each a key and a value: another object or Prim, which stands   *)
(* for numbers, strings, functions and the like.  A key is a string        *)
(* (property names are), a number, or one a message cannot carry.          *)
(***************************************************************************)
EXTENDS Integers, Sequences, FiniteSets, SequencesExt

CONSTANTS
  Uuids, NoUuid,
  Objs, Prim, Missing,
  Root,          \* the stateObj of each extension
  Keys,          \* records of type ("string", "number", "unsafe") and id
  FirstHeap,     \* the objects when the app starts
  Contents,      \* what an extension may turn one of its objects into
  MaxChildren,   \* _MAX_CHILDREN
  MaxClicks,     \* bound: what the user does
  MaxChanges,    \* bound: changes of objects
  MaxSwitches,   \* bound: extensions switched on or off
  MaxLosses      \* bound: connections lost

Kinds == {"object", "array", "map"}

\* What an object is.  Of several properties with one key, or entries of a Map, there is one.
Nodes ==
  {node \in [kind : Kinds, entries : Seq([key : Keys, value : Objs \cup {Prim}])] :
     \A i, j \in DOMAIN node.entries : node.entries[i].key = node.entries[j].key => i = j}

ASSUME InspectorAssumption ==
  /\ NoUuid \notin Uuids
  /\ Prim \notin Objs /\ Missing \notin Objs \cup {Prim}
  /\ Root \in [Uuids -> Objs]
  /\ \A k, l \in Keys : k.type = l.type /\ k.id = l.id => k = l
  /\ FirstHeap \in [Objs -> Nodes] /\ Contents \subseteq Nodes
  /\ MaxChildren \in Nat \ {0} /\ MaxClicks \in Nat /\ MaxChanges \in Nat
  /\ MaxSwitches \in Nat /\ MaxLosses \in Nat

VARIABLES
  heap,               \* the extensions' objects
  running,            \* extensions that have a stateObj in the shell
  known,              \* those the D-Bus client has as enabled
  signals,            \* state changes on their way to the D-Bus client
  connected,          \* is_client_connected
  toBridge, toApp,    \* inspect requests and their results
  uuid, path,         \* _current_uuid, _current_path
  page,               \* the visible child
  status,             \* _status_lbl
  store,              \* _store: rows and, behind a row that is expanded, its children
  positions,          \* _item_positions, for the rows
  rowsOf,             \* history: the extension and path whose result the rows come from
  answered,           \* history: the last result the bridge made on this connection
  lateWrites,         \* writes of connections that have ended that have not returned yet
  lost,               \* history: a late write took requests with it, and none was made since
  clicks, changes, switches, losses

worldVars == <<heap, running>>
linkVars == <<connected, toBridge, toApp, answered, lateWrites, lost>>
tableVars == <<store, positions, rowsOf>>
pageVars == <<uuid, path, page, status>>
boundVars == <<clicks, changes, switches, losses>>
vars == <<worldVars, known, signals, linkVars, tableVars, pageVars, boundVars>>

-----------------------------------------------------------------------------
(* inspector.js *)

NoSegment == [kind |-> "none", key |-> Missing]
Property(key) == [kind |-> "property", key |-> key]
MapKey(key) == [kind |-> "map-key", key |-> key]

\* _resolvePathSegment: a Map is asked for its key, everything else for its property.  What a
\* property segment finds on a Map is a method of its prototype, which is no object.
ResolvePathSegment(o, segment) ==
  LET found == {e \in Range(heap[o].entries) : e.key = segment.key}
      fits == segment.kind = (IF heap[o].kind = "map" THEN "map-key" ELSE "property")
  IN  IF fits /\ found # {} THEN (CHOOSE e \in found : TRUE).value ELSE Missing

Resolve(u, p) ==
  LET at[n \in 0..Len(p)] ==
        IF n = 0 THEN Root[u]
        ELSE IF at[n - 1] \in Objs THEN ResolvePathSegment(at[n - 1], p[n]) ELSE Missing
  IN  at[Len(p)]

\* _describeValue: the label of a value, "[Circular]" when it is being described already.
Label(v, seen) ==
  CASE v \notin Objs -> [type |-> "primitive", text |-> "value", size |-> 0]
    [] v \in seen -> [type |-> "object", text |-> "[Circular]", size |-> 0]
    [] OTHER -> [type |-> heap[v].kind, text |-> heap[v].kind,
                 size |-> IF heap[v].kind = "object" THEN 0 ELSE Len(heap[v].entries)]

Info(n) == [type |-> "info", text |-> "more", size |-> n]

Limited(entries) == SubSeq(entries, 1, IF Len(entries) < MaxChildren THEN Len(entries)
                                       ELSE MaxChildren)

\* Entries that were left out get a row of their own, except below a plain object.
Overflow(o) ==
  IF Len(heap[o].entries) > MaxChildren THEN Len(heap[o].entries) - MaxChildren ELSE 0

\* The children of a row, which the page shows when the row is expanded.
Children(v, seen) ==
  IF v \notin Objs \/ v \in seen THEN <<>>
  ELSE [i \in 1..Len(Limited(heap[v].entries)) |->
          <<heap[v].entries[i].key, Label(heap[v].entries[i].value, seen \cup {v})>>]
       \o (IF heap[v].kind # "object" /\ Overflow(v) > 0
           THEN << <<Missing, Info(Overflow(v))>> >> ELSE <<>>)

\* Map entries given property segments, as they had before typed paths.
SegmentOfProperty(kind, key) == Property(key)

\* _describeMapKey, and the segments of _serializeArray and _serializeProp
Segment(kind, key) ==
  IF kind # "map" THEN Property(key)
  ELSE IF key.type = "unsafe" THEN NoSegment ELSE MapKey(key)

\* _serializeObject, _serializeArray, _serializeMap
Serialize(o) ==
  LET listed == IF heap[o].kind = "object" THEN heap[o].entries ELSE Limited(heap[o].entries)
      Row(e) == [name |-> e.key, label |-> Label(e.value, {o}),
                 segment |-> Segment(heap[o].kind, e.key), children |-> Children(e.value, {o})]
      info == [name |-> Missing, label |-> Info(Overflow(o)),
               segment |-> NoSegment, children |-> <<>>]
  IN  [i \in 1..Len(listed) |-> Row(listed[i])]
      \o (IF Len(listed) < Len(heap[o].entries) THEN <<info>> ELSE <<>>)

Inspect(u, p) ==
  IF u \in running /\ Resolve(u, p) \in Objs THEN Serialize(Resolve(u, p)) ELSE <<>>

\* The "inspect" case of _onMessage: requests are answered in the order they come.
Answer ==
  /\ toBridge # <<>>
  /\ LET ask == Head(toBridge)
         result == [uuid |-> ask.uuid, path |-> ask.path, rows |-> Inspect(ask.uuid, ask.path)]
     IN  toApp' = Append(toApp, result) /\ answered' = result
  /\ toBridge' = Tail(toBridge)
  /\ UNCHANGED <<worldVars, known, signals, connected, lateWrites, lost, tableVars, pageVars,
                 boundVars>>

-----------------------------------------------------------------------------
(* inspector_view.py: asking *)

Click == clicks < MaxClicks /\ clicks' = clicks + 1 /\ UNCHANGED <<changes, switches, losses>>

Send(u, p) ==
  /\ toBridge' = IF connected' THEN Append(toBridge, [uuid |-> u, path |-> p]) ELSE toBridge
  /\ lost' = (lost /\ ~connected')
  /\ UNCHANGED <<toApp, answered, lateWrites>>

Quietly == UNCHANGED <<toBridge, toApp, answered, lateWrites, lost>>

\* _update_visible_child that asks only when another extension is selected.
UpdateVisibleChildQuietly(force, fallback) ==
  /\ page' = CASE uuid' = NoUuid -> "no-selection"
               [] uuid' # NoUuid /\ uuid' \notin known' -> "disabled"
               [] uuid' \in known' /\ ~connected' -> "bridge-offline"
               [] OTHER -> "content"
  /\ IF page' = "content" /\ force
     THEN Send(uuid', path') /\ status' = "loading"
     ELSE Quietly /\ status' = fallback

\* _update_visible_child, for what is selected, known to be enabled and connected once the
\* event at hand has been taken in.  fallback: the status when nothing is asked for.
UpdateVisibleChild(force, fallback) ==
  /\ page' = CASE uuid' = NoUuid -> "no-selection"
               [] uuid' # NoUuid /\ uuid' \notin known' -> "disabled"
               [] uuid' \in known' /\ ~connected' -> "bridge-offline"
               [] OTHER -> "content"
  /\ IF page' = "content" /\ (page # "content" \/ force)
     THEN Send(uuid', path') /\ status' = "loading"
     ELSE Quietly /\ status' = fallback

\* set_target_extension
Select(u) ==
  /\ Click
  /\ uuid' = u
  /\ UNCHANGED <<worldVars, known, signals, connected>>
  /\ \/ /\ u # uuid
        /\ path' = <<>> /\ store' = <<>> /\ positions' = <<>>
        /\ UpdateVisibleChild(TRUE, "")
        /\ UNCHANGED rowsOf
     \/ /\ u = uuid
        /\ UNCHANGED <<path, tableVars>>
        /\ UpdateVisibleChild(FALSE, status)

NavigateTo(p) ==
  /\ Click
  /\ page = "content"
  /\ path' = p
  /\ UNCHANGED <<worldVars, known, signals, connected, uuid, page, tableVars>>
  /\ Send(uuid, p)
  /\ status' = "loading"

Drillable(row) == row.label.type \in Kinds /\ row.segment # NoSegment

IsRow(i) == i \in DOMAIN store /\ store[i].depth = 0

\* _on_drill_in and _on_row_activate: the segment of the row that is clicked is added to the
\* path of the page, which need not be the path the row comes from.
DrillIn(i) ==
  IsRow(i) /\ Drillable(store[i].row) /\ NavigateTo(Append(path, store[i].row.segment))

\* _on_back and the labels of the breadcrumb bar
GoUp(n) == n \in 0..(Len(path) - 1) /\ NavigateTo(SubSeq(path, 1, n))

Refresh ==
  /\ Click
  /\ page = "content"
  /\ UNCHANGED <<worldVars, known, signals, connected, uuid, path, page, tableVars>>
  /\ Send(uuid, path)
  /\ status' = "loading"

-----------------------------------------------------------------------------
(* inspector_view.py: the table *)

\* _rebuild_item_positions: each row's place in the table.
RebuildItemPositions(items) ==
  [n \in {items[i].id : i \in {j \in DOMAIN items : items[j].depth = 0}} |->
     CHOOSE i \in DOMAIN items : items[i].depth = 0 /\ items[i].id = n]

ChildItem(parent, child) == [depth |-> 1, parent |-> parent.row.name, child |-> child]

\* _on_expand_clicked, _insert_children
InsertChildren(i) ==
  LET item == [store[i] EXCEPT !.expanded = TRUE]
      at == positions[item.id]
      children == [c \in 1..Len(item.row.children) |-> ChildItem(item, item.row.children[c])]
      items == [store EXCEPT ![i] = item]
  IN  /\ store' = SubSeq(items, 1, at) \o children \o SubSeq(items, at + 1, Len(items))
      /\ positions' = RebuildItemPositions(store')

\* _remove_children: what follows the row and carries its name, up to the next row.
RemoveChildren(i) ==
  LET item == [store[i] EXCEPT !.expanded = FALSE]
      at == positions[item.id]
      items == [store EXCEPT ![i] = item]
      rest == {j \in (at + 1)..Len(items) : items[j].depth = 0 \/ items[j].parent # item.row.name}
      next == IF rest = {} THEN Len(items) + 1
              ELSE CHOOSE j \in rest : \A k \in rest : j <= k
  IN  /\ store' = SubSeq(items, 1, at) \o SubSeq(items, next, Len(items))
      /\ positions' = RebuildItemPositions(store')

ToggleExpand(i) ==
  /\ Click
  /\ page = "content" /\ IsRow(i) /\ store[i].row.children # <<>>
  /\ IF store[i].expanded THEN RemoveChildren(i) ELSE InsertChildren(i)
  /\ UNCHANGED <<worldVars, known, signals, linkVars, pageVars, rowsOf>>

\* _path_segment_token without the type of a key.
TokenWithoutType(segment) == <<segment.kind, segment.key.id>>

\* _path_segment_token: a Map key is told apart by its type as well.
Token(segment) == <<segment.kind, segment.key.type, segment.key.id>>

PathsEqual(left, right) ==
  /\ Len(left) = Len(right)
  /\ \A i \in DOMAIN left : Token(left[i]) = Token(right[i])

ShowRows(result) ==
  /\ store' = [i \in 1..Len(result.rows) |->
                 [depth |-> 0, id |-> i, expanded |-> FALSE, row |-> result.rows[i]]]
  /\ positions' = RebuildItemPositions(store')
  /\ rowsOf' = <<result.uuid, result.path>>
  /\ status' = "count"

\* _on_inspect_result: a result for another extension or path is dropped.
OnInspectResult ==
  /\ toApp # <<>>
  /\ toApp' = Tail(toApp)
  /\ LET result == Head(toApp)
     IN  IF result.uuid = uuid /\ PathsEqual(result.path, path)
         THEN ShowRows(result) ELSE UNCHANGED <<tableVars, status>>
  /\ UNCHANGED <<worldVars, known, signals, connected, toBridge, answered, lateWrites, lost, uuid,
                 path, page, boundVars>>

-----------------------------------------------------------------------------
(* inspector_view.py: what it is told *)

OnExtensionsChanged ==
  /\ signals # <<>>
  /\ signals' = Tail(signals)
  /\ known' = Head(signals)
  /\ UNCHANGED <<worldVars, connected, uuid, path, tableVars, boundVars>>
  /\ IF uuid = NoUuid THEN Quietly /\ UNCHANGED <<page, status>>
     ELSE UpdateVisibleChild(FALSE, status)

OnClientConnected ==
  /\ ~connected /\ connected' = TRUE
  /\ UNCHANGED <<worldVars, known, signals, uuid, path, tableVars, boundVars>>
  /\ IF uuid = NoUuid THEN Quietly /\ UNCHANGED <<page, status>>
     ELSE UpdateVisibleChild(TRUE, status)

Lose == losses < MaxLosses /\ losses' = losses + 1 /\ UNCHANGED <<clicks, changes, switches>>

\* A connection ends with its own write still under way, or not: every connection has had one,
\* since the application asks for the keybindings on each.
WriteMayBeLate == lateWrites' \in {lateWrites, lateWrites + 1}

\* _on_disconnected.  What was on its way is lost.
OnDisconnected ==
  /\ connected /\ connected' = FALSE
  /\ Lose
  /\ WriteMayBeLate
  /\ toBridge' = <<>> /\ toApp' = <<>> /\ lost' = FALSE /\ UNCHANGED answered
  /\ status' = "disconnected"
  /\ page' = CASE uuid = NoUuid -> "no-selection"
               [] uuid # NoUuid /\ uuid \notin known -> "disabled"
               [] OTHER -> "bridge-offline"
  /\ UNCHANGED <<worldVars, known, signals, uuid, path, tableVars>>

\* A new connection replaces one whose end was not read (_on_incoming).  The page is told that
\* the bridge went and came, while it can be reached throughout: it shows what it showed and, when
\* those are properties, asks again.  What waits behind a write of the old connection that has not
\* returned goes to the new one.
Replaced ==
  /\ connected
  /\ Lose
  /\ WriteMayBeLate
  /\ \E k \in 1..(Len(toBridge) + 1) :
       LET kept == SubSeq(toBridge, k, Len(toBridge))
       IN  /\ kept # <<>> => lateWrites' = lateWrites + 1
           /\ toBridge' = IF page = "content" THEN Append(kept, [uuid |-> uuid, path |-> path])
                          ELSE kept
  /\ toApp' = <<>> /\ lost' = FALSE
  /\ status' = IF page = "content" THEN "loading" ELSE "disconnected"
  /\ UNCHANGED <<worldVars, known, signals, connected, answered, uuid, path, page, tableVars>>

\* _on_write_done of a write made on an earlier connection: a failed one clears the lines of the
\* present connection that are still queued, which may be any number of the last.
LateWriteReturns ==
  /\ lateWrites > 0 /\ lateWrites' = lateWrites - 1
  /\ \/ UNCHANGED <<toBridge, lost>>
     \/ /\ connected
        /\ lost' = TRUE
        /\ \E k \in 0..(Len(toBridge) - 1) : toBridge' = SubSeq(toBridge, 1, k)
  /\ UNCHANGED <<worldVars, known, signals, connected, toApp, answered, tableVars, pageVars,
                 boundVars>>

-----------------------------------------------------------------------------
(* The shell and its extensions *)

\* An extension is switched on or off; the shell tells the D-Bus client.
Switch(u) ==
  /\ switches < MaxSwitches /\ switches' = switches + 1
  /\ running' = SymDiff(running, {u})
  /\ signals' = Append(signals, running')
  /\ UNCHANGED <<heap, known, linkVars, tableVars, pageVars, clicks, changes, losses>>

ChangeObject(o) ==
  /\ changes < MaxChanges /\ changes' = changes + 1
  /\ \E content \in Contents : heap' = [heap EXCEPT ![o] = content]
  /\ UNCHANGED <<running, known, signals, linkVars, tableVars, pageVars, clicks, switches, losses>>

-----------------------------------------------------------------------------
Init ==
  /\ heap = FirstHeap
  /\ running \in SUBSET Uuids /\ known = running /\ signals = <<>>
  /\ connected = FALSE /\ toBridge = <<>> /\ toApp = <<>>
  /\ answered = [uuid |-> NoUuid, path |-> <<>>, rows |-> <<>>]
  /\ lateWrites = 0 /\ lost = FALSE
  /\ uuid = NoUuid /\ path = <<>> /\ page = "no-selection" /\ status = ""
  /\ store = <<>> /\ positions = <<>> /\ rowsOf = <<NoUuid, <<>>>>
  /\ clicks = 0 /\ changes = 0 /\ switches = 0 /\ losses = 0

Next ==
  \/ \E u \in Uuids \cup {NoUuid} : Select(u)
  \/ \E i \in DOMAIN store : DrillIn(i) \/ ToggleExpand(i)
  \/ \E n \in 0..MaxClicks : GoUp(n)
  \/ Refresh
  \/ Answer \/ OnInspectResult
  \/ OnExtensionsChanged \/ OnClientConnected \/ OnDisconnected
  \/ Replaced \/ LateWriteReturns
  \/ \E u \in Uuids : Switch(u)
  \/ \E o \in Objs : ChangeObject(o)

Spec == Init /\ [][Next]_vars

-----------------------------------------------------------------------------
(* Properties *)

\* The ranges of the variables; the page shows properties only of an extension that is selected,
\* known to be enabled and reachable.
TypeOK ==
  /\ running \subseteq Uuids /\ known \subseteq Uuids
  /\ uuid \in Uuids \cup {NoUuid}
  /\ \A i \in DOMAIN path : path[i].kind \in {"property", "map-key"}
  /\ page \in {"no-selection", "disabled", "bridge-offline", "content"}
  /\ status \in {"", "loading", "count", "disconnected"}
  /\ page = "content" <=> uuid \in known /\ connected
  /\ \A i \in DOMAIN store : store[i].depth \in 0..1
  /\ lateWrites \in Nat /\ lost \in BOOLEAN

\* Rows of another extension are never shown, and once the status counts properties they are
\* those of the path in the breadcrumb bar: results of requests the user has since navigated away
\* from arrive late and must be dropped, also when two Map keys look alike (_on_inspect_result).
RowsMatchPath ==
  /\ store # <<>> => rowsOf[1] = uuid
  /\ status = "count" /\ uuid # NoUuid /\ page = "content" => rowsOf = <<uuid, path>>

\* The table that shows a result: its rows in order, each followed by its children when it is
\* expanded and by nothing otherwise.
TableOf(rows) ==
  LET Expanded(i) == \E j \in DOMAIN store : IsRow(j) /\ store[j].id = i /\ store[j].expanded
      Item(i) == [depth |-> 0, id |-> i, expanded |-> Expanded(i), row |-> rows[i]]
  IN  FlattenSeq([i \in DOMAIN rows |->
        <<Item(i)>> \o (IF Expanded(i)
                        THEN [c \in DOMAIN rows[i].children |-> ChildItem(Item(i), rows[i].children[c])]
                        ELSE <<>>)])

\* When no request and no result is on its way the page shows the last result the bridge made,
\* and not "Loading..." or older rows: whenever the page becomes visible, after a lost or a
\* replaced connection, an extension switched off and on, or another selection, it has asked
\* again.  Rows that were expanded and collapsed since, in whatever order, have their children
\* behind them (_insert_children and _remove_children look a row's place up in _item_positions).
\* The exception is what the code does not recover from: when a write of an earlier connection
\* fails late, _on_write_done clears the requests queued for the present one, and the page stays
\* at "Loading..." until it asks for something else.
ShowsLastAnswer ==
  page = "content" /\ toBridge = <<>> /\ toApp = <<>> /\ ~lost =>
    /\ status = "count"
    /\ rowsOf = <<answered.uuid, answered.path>>
    /\ store = TableOf(answered.rows)

\* A row that offers to be drilled into leads to the object it describes, of the kind it names,
\* and a row that says "[Circular]" leads back to the object on display: the segments inspector.js
\* sends resolve to what it serialized, while the object stays as it was.
DrillReaches ==
  uuid # NoUuid =>
    LET rows == Inspect(uuid, path)
    IN  \A i \in DOMAIN rows :
      LET row == rows[i]
          target == Resolve(uuid, Append(path, row.segment))
      IN  Drillable(row) =>
            /\ target \in Objs
            /\ IF row.label.text = "[Circular]" THEN target = Resolve(uuid, path)
               ELSE heap[target].kind = row.label.type

=============================================================================
