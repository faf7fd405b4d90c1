---------------------------- MODULE MCInspector ----------------------------
(* A small instance of Inspector: an object, a Map and an array, linked in a cycle. *)
EXTENDS Inspector

CONSTANTS e1, e2, obj, map, arr

Name == [type |-> "string", id |-> "one"]
Other == [type |-> "string", id |-> "two"]
Number == [type |-> "number", id |-> "one"]
Unsafe == [type |-> "unsafe", id |-> "three"]

Entry(key, value) == [key |-> key, value |-> value]

MCUuids == {e1, e2}
MCObjs == {obj, map, arr}
MCRoot == e1 :> obj @@ e2 :> map
MCKeys == {Name, Other, Number, Unsafe}

MCFirstHeap ==
  obj :> [kind |-> "object", entries |-> <<Entry(Name, map), Entry(Other, Prim)>>]
  @@ map :> [kind |-> "map", entries |-> <<Entry(Number, arr), Entry(Name, obj),
                                          Entry(Unsafe, arr)>>]
  @@ arr :> [kind |-> "array", entries |-> <<Entry(Name, arr), Entry(Other, map),
                                            Entry(Number, Prim), Entry(Unsafe, Prim)>>]

MCContents == {[kind |-> "object", entries |-> <<Entry(Other, obj)>>]}
=============================================================================
