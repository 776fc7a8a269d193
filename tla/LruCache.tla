------------------------------ MODULE LruCache ------------------------------
(***************************************************************************)
(* LRUCache of lru_cache/lru_cache.hpp: a list of key-value pairs, the     *)
(* most recently used first, and a map from keys to iterators, that is to  *)
(* nodes of the list.  A node keeps its identity when it is spliced to the *)
(* front, and must not be referred to after it was popped.                 *)
(***************************************************************************)
EXTENDS Integers, FiniteSets, SequencesExt

CONSTANTS
    Keys, Values,
    Capacities,    \* arguments of the constructor
    NoValue        \* the end() iterator, or std::out_of_range

ASSUME CapacitiesAssumption == Capacities \subseteq Nat /\ NoValue \notin Values

VARIABLES
    capacity_,
    items_,     \* the list: nodes, front first
    cell,       \* what the live nodes hold
    map_,       \* the map: from a key to a node
    out,        \* what the last find() or at() gave
    last,       \* ghost: the value stored last under each key
    refreshed   \* ghost: keys by their last emplace() or at(), newest first

cache == <<items_, cell, map_>>
vars == <<capacity_, cache, out, last, refreshed>>

Init ==
    /\ \E c \in Capacities : capacity_ = IF c > 0 THEN c ELSE 1
    /\ items_ = <<>>
    /\ cell = <<>>
    /\ map_ = <<>>
    /\ out = NoValue
    /\ last = [k \in Keys |-> NoValue]
    /\ refreshed = <<>>

-----------------------------------------------------------------------------
Cached == DOMAIN map_
ToFront(x, s) == <<x>> \o RemoveFirst(s, x)
Without(f, x) == [y \in DOMAIN f \ {x} |-> f[y]]
With(f, x, v) == [y \in DOMAIN f \cup {x} |-> IF y = x THEN v ELSE f[y]]

Refresh(k) == refreshed' = ToFront(k, refreshed)

Find(k) ==
    /\ out' = IF k \in Cached THEN cell[map_[k]].value ELSE NoValue
    /\ UNCHANGED <<capacity_, cache, last, refreshed>>

\* Defect: the node is not moved to the front.
EmplaceHitInPlace(k, v) ==
    /\ k \in Cached
    /\ cell' = [cell EXCEPT ![map_[k]].value = v]
    /\ last' = [last EXCEPT ![k] = v]
    /\ Refresh(k)
    /\ UNCHANGED <<capacity_, items_, map_, out>>

\* emplace() of a key that is there: splice its node and replace the value.
EmplaceHit(k, v) ==
    /\ k \in Cached
    /\ items_' = ToFront(map_[k], items_)
    /\ cell' = [cell EXCEPT ![map_[k]].value = v]
    /\ last' = [last EXCEPT ![k] = v]
    /\ Refresh(k)
    /\ UNCHANGED <<capacity_, map_, out>>

\* A node of the list not in use; list nodes are allocated and freed.
FreshNode == CHOOSE n \in 1 .. capacity_ + 1 : n \notin DOMAIN cell

\* What is left after the last node had to make room.
Evicting == Len(items_) >= capacity_
Kept ==
    IF Evicting
    THEN LET victim == Last(items_) IN
         [items |-> Front(items_), cell |-> Without(cell, victim),
          map |-> Without(map_, cell[victim].key)]
    ELSE [items |-> items_, cell |-> cell, map |-> map_]

EmplaceMiss(k, v) ==
    /\ k \notin Cached
    /\ items_' = <<FreshNode>> \o Kept.items
    /\ cell' = With(Kept.cell, FreshNode, [key |-> k, value |-> v])
    /\ map_' = With(Kept.map, k, FreshNode)
    /\ last' = [last EXCEPT ![k] = v]
    /\ Refresh(k)
    /\ UNCHANGED <<capacity_, out>>

At(k) ==
    /\ IF k \in Cached
       THEN /\ items_' = ToFront(map_[k], items_)
            /\ out' = cell[map_[k]].value
            /\ Refresh(k)
       ELSE /\ out' = NoValue
            /\ UNCHANGED <<items_, refreshed>>
    /\ UNCHANGED <<capacity_, cell, map_, last>>

Clear ==
    /\ items_' = <<>>
    /\ cell' = <<>>
    /\ map_' = <<>>
    /\ refreshed' = <<>>
    /\ UNCHANGED <<capacity_, out, last>>

Emplace(k, v) == EmplaceHit(k, v) \/ EmplaceMiss(k, v)

Next ==
    \/ \E k \in Keys : Find(k) \/ At(k) \/ \E v \in Values : Emplace(k, v)
    \/ Clear

Spec == Init /\ [][Next]_vars

-----------------------------------------------------------------------------
KeysOf(nodes) == [i \in DOMAIN nodes |-> cell[nodes[i]].key]

\* The live nodes are those of the list, once each, and every key leads to the
\* node that holds it, so that no iterator dangles.
MapMatchesList ==
    /\ IsInjective(items_) /\ Len(items_) <= capacity_
    /\ DOMAIN cell = ToSet(items_)
    /\ Cardinality(Cached) = Len(items_)
    /\ \A k \in Cached : map_[k] \in DOMAIN cell /\ cell[map_[k]].key = k

(* The map and the list never drift apart, and the cache keeps exactly the *)
(* keys stored or read with at() most recently (a lookup with find() does  *)
(* not count), each with the value stored last, and evicts the key for     *)
(* which that was longest ago.                                             *)
KeepsMostRecent ==
    /\ MapMatchesList
    /\ KeysOf(items_) = SubSeq(refreshed, 1, Len(items_))
    /\ Len(items_) < capacity_ => Len(refreshed) = Len(items_)
    /\ \A k \in Cached : cell[map_[k]].value = last[k]
=============================================================================
