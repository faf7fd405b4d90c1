----------------------------- MODULE MCDiscovery -----------------------------
(***************************************************************************)
(* Discovery for TLC: every graph of a family of three objects and two     *)
(* prototypes, with cycles, shared objects, a collection, hidden and       *)
(* inherited methods, an object that is another one's prototype, locked    *)
(* properties, a sealed object, and objects and properties that throw when *)
(* they are read.                                                          *)
(***************************************************************************)
EXTENDS Discovery

CONSTANTS root, a, b, pa, pq, idx, run, fetch

MCObjects == {root, a, b, pa, pq}
MCNames == {idx, run, fetch}
MCIndexNames == {idx}

Fn(o, n) == Property(o, n, "function", FALSE, NoObject)
LockedFn(o, n) == Property(o, n, "function", TRUE, NoObject)
Getter(o, n) == Property(o, n, "accessor", FALSE, NoObject)
Obj(o, n, v) == Property(o, n, "object", FALSE, v)
Thrower(o, n) == Property(o, n, "unreadable", FALSE, NoObject)

Node(kind, own, entries, proto, sealed) ==
  [kind |-> kind, own |-> own, entries |-> entries, proto |-> proto, sealed |-> sealed, listed |-> TRUE]

Unlistable(node) == [node EXCEPT !.listed = FALSE]

UpTo2(X, Y) == {<<>>} \cup {<<x>> : x \in X} \cup {<<x, y>> : x \in X, y \in Y}

RootOwn == UpTo2({Fn(root, idx), Obj(root, idx, a), Obj(root, idx, b), Thrower(root, idx)},
                 {Fn(root, run), LockedFn(root, run), Obj(root, run, b)})

RootNodes ==
  {Node(k, own, <<>>, NoObject, FALSE) : k \in {"plain", "array"}, own \in RootOwn}
  \cup {Node("map", own, entries, NoObject, FALSE) :
          own \in {<<>>, <<Obj(root, idx, a)>>, <<Obj(root, idx, b), Fn(root, run)>>},
          entries \in {<<a, b>>, <<b, NoObject>>}}

ANodes ==
  {Node("plain", own, <<>>, proto, FALSE) : proto \in {NoObject, pa},
     own \in UpTo2({Fn(a, run), Getter(a, run), Obj(a, run, root)},
                   {Fn(a, fetch), Obj(a, fetch, b), Obj(a, fetch, pa)})}
  \cup {Unlistable(Node("plain", <<Fn(a, run), Obj(a, fetch, b)>>, <<>>, pa, FALSE))}

BNodes ==
  {Node("set", own, <<>>, proto, FALSE) : proto \in {NoObject, pa, a},
     own \in {<<>>, <<Fn(b, run)>>, <<Getter(b, run)>>, <<Thrower(b, run)>>}}
  \cup {Node("set", <<Fn(b, run)>>, <<>>, proto, TRUE) : proto \in {pa, a}}

PNodes ==
  {Node("plain", own, <<>>, pq, FALSE) : own \in {<<Fn(pa, run)>>, <<Getter(pa, fetch), Fn(pa, run)>>}}
  \cup {Unlistable(Node("plain", <<Fn(pa, run)>>, <<>>, pq, FALSE))}

QNode == Node("plain", <<Fn(pq, run), Fn(pq, fetch)>>, <<>>, NoObject, FALSE)

MCGraphs ==
  {(root :> r) @@ (a :> x) @@ (b :> y) @@ (pa :> z) @@ (pq :> QNode) :
     r \in RootNodes, x \in ANodes, y \in BNodes, z \in PNodes}

Limits(depth, objects, entries, properties, functions) ==
  [maxDepth |-> depth, maxVisitedObjects |-> objects, maxCollectionEntries |-> entries,
   maxPropertiesPerObject |-> properties, maxPatchedFunctions |-> functions]

MCLimitSets == {Limits(2, 4, 2, 4, 8), Limits(1, 4, 1, 2, 8), Limits(3, 3, 2, 3, 2), Limits(2, 4, 2, 1, 8)}

=============================================================================
