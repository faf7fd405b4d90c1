------------------------------ MODULE Discovery ------------------------------
(***************************************************************************)
(* How the bridge's profiler finds and wraps the methods of an extension   *)
(* (bridge-extension/profiler.js, #patchGraph): a breadth-first scan of    *)
(* the objects reachable through own data properties and collection        *)
(* entries, under limits.  Profiler starts where this ends.                *)
(*                                                                         *)
(* The scan runs to its end before anything else does, and calls no code   *)
(* of the extension: accessors are not read.  A proxy may throw when its   *)
(* names, a property or its prototype are read; the scan then goes on, and *)
(* says nothing of it.                                                     *)
(***************************************************************************)
EXTENDS Integers, Sequences, FiniteSets, SequencesExt, FiniteSetsExt

CONSTANTS
  Objects, NoObject,  \* objects and prototypes; what is no object, or a prototype that is
                      \* native or cannot be read
  Root,               \* stateObj
  Names, IndexNames,  \* of properties other than constructor; those that are array indices
  Graphs,             \* the object graphs a scan may find
  LimitSets           \* the limits it may be given

\* A data property with a function or an object, an accessor, or one whose descriptor throws when
\* it is read.  A function that is a wrapper has the function it wraps.
Property(o, n, kind, locked, value) ==
  [name |-> n, kind |-> kind, locked |-> locked, value |-> value, from |-> o, wraps |-> 0]

Properties ==
  [name : Names, kind : {"function", "object", "accessor", "unreadable"}, locked : BOOLEAN,
   value : Objects \cup {NoObject}, from : Objects, wraps : Nat]

Kinds == {"plain", "array", "map", "set"}

\* Of the own properties with one name there is one.  The names of an object that is not listed
\* cannot be read.
Nodes ==
  {node \in [kind : Kinds, own : Seq(Properties), entries : Seq(Objects \cup {NoObject}),
             proto : Objects \cup {NoObject}, sealed : BOOLEAN, listed : BOOLEAN] :
     /\ \A i, j \in DOMAIN node.own : node.own[i].name = node.own[j].name => i = j
     /\ node.kind \in {"plain", "array"} => node.entries = <<>>}

\* o and the prototypes whose methods count as the extension's, nearest first.
Chain(g, o) ==
  LET up[n \in 0..Cardinality(Objects)] ==
        IF n = 0 THEN <<o>>
        ELSE IF g[Last(up[n - 1])].proto = NoObject THEN up[n - 1]
        ELSE Append(up[n - 1], g[Last(up[n - 1])].proto)
  IN  up[Cardinality(Objects)]

ASSUME DiscoveryAssumption ==
  /\ IsFiniteSet(Objects) /\ Root \in Objects /\ NoObject \notin Objects
  /\ IndexNames \subseteq Names /\ Graphs \subseteq [Objects -> Nodes]
  /\ \A g \in Graphs, o \in Objects : g[Last(Chain(g, o))].proto = NoObject  \* no cycle
  /\ \A l \in LimitSets :
       /\ l.maxDepth \in Nat /\ l.maxVisitedObjects \in Nat \ {0}
       /\ l.maxCollectionEntries \in Nat \ {0} /\ l.maxPropertiesPerObject \in Nat \ {0}
       /\ l.maxPatchedFunctions \in Nat \ {0}

VARIABLES
  limits,
  before,   \* history: the graph as the scan found it
  graph,    \* the graph with wrappers
  queue, head, visited,
  patched,  \* #patchedMembers: <<holder, name>>
  stats,    \* #stats
  discoveryStopped,
  finished  \* #patchGraph has returned

scanVars == <<limits, before, graph, queue, head, visited, patched, stats, discoveryStopped, finished>>

Has(g, o, n) == \E i \in DOMAIN g[o].own : g[o].own[i].name = n

-----------------------------------------------------------------------------
(* Patching.  s is what the scan has so far: [graph, patched, stats, stopped]. *)

\* #boundedOwnPropertyNames: none, and no word of it, where reading the names throws.
BoundedProperties(node) ==
  IF node.listed THEN SubSeq(node.own, 1, Min({Len(node.own), limits.maxPropertiesPerObject}))
  ELSE <<>>

TooMany(node) == node.listed /\ Len(node.own) > limits.maxPropertiesPerObject

Truncates(s, c) == [s EXCEPT !.stats.truncated = @ \/ c]

Wrapped(p) == [p EXCEPT !.wraps = @ + 1, !.locked = FALSE]

\* The end of #patchObject's loop: what defineProperty refuses is counted.
Define(s, holder, source, p) ==
  LET own == s.graph[holder].own
      i == CHOOSE j \in DOMAIN own : own[j].name = p.name
  IN  IF IF source = holder THEN p.locked ELSE s.graph[holder].sealed
      THEN [s EXCEPT !.stats.skippedFunctions = @ + 1]
      ELSE [s EXCEPT !.graph[holder].own =
                       IF source = holder THEN [@ EXCEPT ![i] = Wrapped(p)] ELSE Append(@, Wrapped(p)),
                     !.patched = @ \cup {<<holder, p.name>>},
                     !.stats.patchedFunctions = @ + 1]

\* One turn of #patchObject's loop that does not look for an own property.
PatchOneShadowing(s, holder, source, p) ==
  IF s.stopped \/ <<holder, p.name>> \in s.patched \/ p.kind # "function"
  THEN s
  ELSE IF s.stats.patchedFunctions >= limits.maxPatchedFunctions
  THEN [Truncates(s, TRUE) EXCEPT !.stopped = TRUE]
  ELSE Define(s, holder, source, p)

\* One turn of #patchObject's loop: an own property hides an inherited one.
PatchOne(s, holder, source, p) ==
  IF \/ s.stopped \/ <<holder, p.name>> \in s.patched
     \/ source # holder /\ Has(s.graph, holder, p.name)
     \/ p.kind # "function"
  THEN s
  ELSE IF s.stats.patchedFunctions >= limits.maxPatchedFunctions
  THEN [Truncates(s, TRUE) EXCEPT !.stopped = TRUE]
  ELSE Define(s, holder, source, p)

PatchObject(s, holder, source) ==
  LET properties == BoundedProperties(s.graph[source])
      done[i \in 0..Len(properties)] ==
        IF i = 0 THEN Truncates(s, TooMany(s.graph[source]))
        ELSE PatchOne(done[i - 1], holder, source, properties[i])
  IN  IF s.stopped THEN s ELSE done[Len(properties)]

\* #visitObject, its first half: own methods, then those of the prototypes.
PatchChain(s, o) ==
  LET chain == Chain(s.graph, o)
      done[i \in 0..Len(chain)] == IF i = 0 THEN s ELSE PatchObject(done[i - 1], o, chain[i])
  IN  done[Len(chain)]

-----------------------------------------------------------------------------
(* Children.  q is [queue, visited, truncated]. *)

First(n, s) == SubSeq(s, 1, Min({n, Len(s)}))

\* #walkMap, #walkSet, #walkArray, then #walkOwnObjectProperties for what is not an array's entry.
\* Names that are array indices come first among an object's own; an entry that cannot be read
\* does not count.
Children(node) ==
  LET properties == BoundedProperties(node)
      entries == {i \in DOMAIN properties : node.kind = "array" /\ properties[i].name \in IndexNames}
      Beyond(i) ==
        /\ i \in entries
        /\ Cardinality({j \in entries : j < i /\ properties[j].kind # "unreadable"})
             >= limits.maxCollectionEntries
  IN  [values |-> First(limits.maxCollectionEntries, node.entries)
                  \o [i \in DOMAIN properties |->
                        IF properties[i].kind = "object" /\ ~Beyond(i) THEN properties[i].value
                        ELSE NoObject],
       truncated |-> \/ TooMany(node)
                     \/ Len(node.entries) > limits.maxCollectionEntries
                     \/ \E i \in entries : Beyond(i)]

\* enqueue that puts the new object in front of those that wait.
EnqueueNext(q, value, depth) ==
  IF value = NoObject \/ value \in q.visited THEN q
  ELSE IF depth > limits.maxDepth THEN [q EXCEPT !.truncated = TRUE]
  ELSE [queue |-> InsertAt(q.queue, head + 1, [obj |-> value, depth |-> depth]),
        visited |-> q.visited \cup {value}, truncated |-> q.truncated]

\* enqueue that leaves out what is too deep without saying so.
EnqueueQuietly(q, value, depth) ==
  IF value = NoObject \/ value \in q.visited \/ depth > limits.maxDepth THEN q
  ELSE [queue |-> Append(q.queue, [obj |-> value, depth |-> depth]),
        visited |-> q.visited \cup {value}, truncated |-> q.truncated]

\* enqueue: an object is claimed when it is queued.
Enqueue(q, value, depth) ==
  IF value = NoObject \/ value \in q.visited THEN q
  ELSE IF depth > limits.maxDepth THEN [q EXCEPT !.truncated = TRUE]
  ELSE [queue |-> Append(q.queue, [obj |-> value, depth |-> depth]),
        visited |-> q.visited \cup {value}, truncated |-> q.truncated]

EnqueueAll(q, values, depth) ==
  LET done[i \in 0..Len(values)] == IF i = 0 THEN q ELSE Enqueue(done[i - 1], values[i], depth)
  IN  done[Len(values)]

-----------------------------------------------------------------------------
(* #patchGraph *)

MayVisit ==
  /\ head <= Len(queue) /\ ~discoveryStopped
  /\ stats.visitedObjects < limits.maxVisitedObjects

\* One turn of the loop: #visitObject
Visit ==
  /\ ~finished /\ MayVisit
  /\ LET item == queue[head]
         s == PatchChain([graph |-> graph, patched |-> patched, stopped |-> FALSE,
                          stats |-> [stats EXCEPT !.visitedObjects = @ + 1]], item.obj)
         children == Children(s.graph[item.obj])
         q == EnqueueAll([queue |-> queue, visited |-> visited, truncated |-> children.truncated],
                         children.values, item.depth + 1)
     IN  /\ graph' = s.graph /\ patched' = s.patched /\ discoveryStopped' = s.stopped
         /\ IF s.stopped
            THEN stats' = s.stats /\ UNCHANGED <<queue, visited>>
            ELSE /\ stats' = [s.stats EXCEPT !.truncated = @ \/ q.truncated]
                 /\ queue' = q.queue /\ visited' = q.visited
  /\ head' = head + 1
  /\ UNCHANGED <<limits, before, finished>>

\* The loop ends; objects may be left.
Finish ==
  /\ ~finished /\ ~MayVisit
  /\ finished' = TRUE
  /\ stats' = [stats EXCEPT !.truncated = @ \/ head <= Len(queue)]
  /\ UNCHANGED <<limits, before, graph, queue, head, visited, patched, discoveryStopped>>

ScanInit ==
  /\ limits \in LimitSets /\ before \in Graphs /\ graph = before
  /\ queue = <<[obj |-> Root, depth |-> 0]>> /\ head = 1 /\ visited = {Root}
  /\ patched = {}
  /\ stats = [patchedFunctions |-> 0, visitedObjects |-> 0, skippedFunctions |-> 0,
              truncated |-> FALSE]
  /\ discoveryStopped = FALSE /\ finished = FALSE

ScanNext == Visit \/ Finish

ScanSpec == ScanInit /\ [][ScanNext]_scanVars
-----------------------------------------------------------------------------
(* Properties *)

\* What property n of o was when the scan began: o's own or that of the nearest prototype.
Seen(o, n) ==
  LET chain == Chain(before, o)
      at == {i \in DOMAIN chain : Has(before, chain[i], n)}
      own == before[chain[Min(at)]].own
  IN  IF at = {} THEN [kind |-> "nothing"]
      ELSE own[CHOOSE j \in DOMAIN own : own[j].name = n]

\* And what it is now, on o itself.
Now(o, n) ==
  LET own == graph[o].own IN own[CHOOSE j \in DOMAIN own : own[j].name = n]

\* The objects a node holds where they can be read.
ValuesOf(node) ==
  (ToSet(node.entries)
     \cup {node.own[i].value :
             i \in {i \in DOMAIN node.own : node.listed /\ node.own[i].kind = "object"}}) \ {NoObject}

\* The nearest object that has n, o or a prototype of its, does not let its names be read.
Unlisted(o, n) ==
  LET chain == Chain(before, o)
  IN  \E i \in DOMAIN chain : /\ Has(before, chain[i], n) /\ ~before[chain[i]].listed
                              /\ \A j \in 1..i - 1 : ~Has(before, chain[j], n)

\* The objects within n steps of the root.
Within(n, Steps) ==
  LET near[d \in 0..Cardinality(Objects)] ==
        IF d = 0 THEN {Root} ELSE near[d - 1] \cup UNION {Steps[o] : o \in near[d - 1]}
  IN  near[n]

Scanned == {queue[i].obj : i \in 1..head - 1}

\* A scan that does not say it was cut short has instrumented everything that can be read: each
\* object that can be reached over readable properties was visited, and each method seen on it,
\* under a name that can be listed, is wrapped or counted as skipped.  An object that throws hides
\* what is behind it and nothing else; of that loss neither truncated nor skippedFunctions tells.
ScanIsComplete ==
  finished /\ ~stats.truncated =>
    /\ Scanned = Within(Cardinality(Objects), [o \in Objects |-> ValuesOf(before[o])])
    /\ Cardinality({slot \in Scanned \X Names : /\ Seen(slot[1], slot[2]).kind = "function"
                                               /\ ~Unlisted(slot[1], slot[2])} \ patched)
         <= stats.skippedFunctions

\* No scan wraps anything but what was seen under that name: an own property that is no function is
\* never overwritten, an inherited method never taken for the one that hides it; unless the
\* hiding one is among the properties of a prototype that are too many to look at, or that
\* cannot be listed.
WrapsWhatWasSeen ==
  \A slot \in patched :
    LET o == slot[1]
        n == slot[2]
        chain == Chain(before, o)
    IN  /\ Has(before, o, n) => Seen(o, n).kind = "function"
        /\ Seen(o, n).kind = "function"
             /\ (\A i \in DOMAIN chain : before[chain[i]].listed /\ ~TooMany(before[chain[i]]))
             => Now(o, n).from = Seen(o, n).from

\* The budget goes to shallow objects first: when one is scanned, all that are nearer to the root
\* have been, so that a limit cuts off the deep end ("truncates the deep data instead").
ShallowFirst ==
  head > 1 =>
    LET Steps == [o \in Objects |-> ToSet(Children(before[o]).values) \ {NoObject}]
    IN  \A d \in 0..queue[head - 1].depth - 1 : Within(d, Steps) \subseteq Scanned

=============================================================================
