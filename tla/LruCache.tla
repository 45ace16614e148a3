------------------------------ MODULE LruCache ------------------------------
(***************************************************************************)
(* src/uvm-core/src/base/uvm_lru_cache.svh and uvm_cache.svh: a hash of    *)
(* nodes that are also linked from the most recently used one to the least *)
(* recently used one.  The functions are operators from a cache to the     *)
(* cache they leave.                                                       *)
(***************************************************************************)
EXTENDS Integers, SequencesExt

CONSTANTS
  Nodes,   \* the objects there is memory for
  None     \* a null reference

ASSUME NodesAssumption == None \notin Nodes

\* hash: the node of every key in the cache; node: the objects there are, with
\* what they refer to; begin, end: m_begin and m_end; max: m_max_size, 0 for
\* no limit; broken: TRUE after a null reference was followed, or in a loop
\* that does not end.
NewCache(max) ==
  [hash |-> <<>>, node |-> <<>>, begin |-> None, end |-> None, max |-> max, broken |-> FALSE]

keys(c) == DOMAIN c.hash
size(c) == Cardinality(keys(c))
exists(c, k) == k \in keys(c)

\* Mutant: what was used last instead of what is asked for.
DataOfFirst(c, k) == IF c.begin = None THEN None ELSE c.node[c.begin].data

DataOf(c, k) == c.node[c.hash[k]].data

\* A new object.
FreshNode(c) == CHOOSE n \in Nodes : n \notin DOMAIN c.node

\* The language forgets the objects that no reference leads to: what is kept
\* is in every set that has the known ones and all that its own refer to.
Collected(c) ==
  LET known == {c.begin, c.end} \cup {c.hash[k] : k \in keys(c)}
      Closed(ns) ==
        \A n \in ns : {c.node[n].prev, c.node[n].next} \subseteq ns \cup {None}
      kept == {n \in DOMAIN c.node :
                 \A ns \in SUBSET DOMAIN c.node :
                   known \subseteq ns \cup {None} /\ Closed(ns) => n \in ns}
  IN  [c EXCEPT !.node = [n \in kept |-> c.node[n]]]

Broken(c) == [c EXCEPT !.broken = TRUE]

\* c with a field of a node assigned, where a null reference is skipped.
SetPrev(c, n, to) == IF n = None THEN c ELSE [c EXCEPT !.node[n].prev = to]
SetNext(c, n, to) == IF n = None THEN c ELSE [c EXCEPT !.node[n].next = to]

\* Mutant: the node behind keeps its reference to the node that moved.
m_updateForward(c, n) ==
  LET prev == c.node[n].prev
      linked == SetPrev(SetNext(SetNext(c, prev, c.node[n].next), n, c.begin), c.begin, n)
  IN
  CASE c.begin = n -> c
    [] c.begin # n /\ None \in {prev, c.begin} -> Broken(c)
    [] OTHER -> [SetPrev(linked, n, None) EXCEPT !.begin = n]

\* Makes the node the first.  m_end is left as it was.
m_update(c, n) ==
  LET prev == c.node[n].prev
      next == c.node[n].next
      unlinked == SetPrev(SetNext(c, prev, next), next, prev)
      linked == SetPrev(SetNext(unlinked, n, c.begin), c.begin, n)
  IN
  CASE c.begin = n -> c
    [] c.begin # n /\ None \in {prev, c.begin} -> Broken(c)
    [] OTHER -> [SetPrev(linked, n, None) EXCEPT !.begin = n]

\* get, of a key that is in the cache.
get(c, k) == m_update(c, c.hash[k])

put(c, k, data) ==
  LET n == FreshNode(c)
      new == [key |-> k, data |-> data, prev |-> None, next |-> c.begin]
      behind == SetPrev(c, c.begin, n)
      linked == [behind EXCEPT
                   !.node = [x \in DOMAIN @ \cup {n} |-> IF x = n THEN new ELSE @[x]],
                   !.begin = n]
  IN
  IF exists(c, k)
    THEN [m_update(c, c.hash[k]) EXCEPT !.node[c.hash[k]].data = data]
    ELSE [linked EXCEPT
            !.hash = [x \in keys(c) \cup {k} |-> IF x = k THEN n ELSE c.hash[x]],
            !.end = IF c.begin = None THEN n ELSE @]

\* Nothing reads the data of a node that was evicted, but its key and its
\* references are left.  Once the cache is broken no round of a loop follows.
evict(c, k) ==
  LET n == c.hash[k]
      prev == c.node[n].prev
      next == c.node[n].next
      ahead == IF c.begin = n THEN [c EXCEPT !.begin = next]
               ELSE SetNext(c, prev, next)
      behind == IF c.end = n THEN [ahead EXCEPT !.end = prev]
                ELSE SetPrev(ahead, next, prev)
  IN
  CASE c.broken \/ ~exists(c, k) -> c
    [] /\ ~c.broken /\ exists(c, k)
       /\ \/ c.begin # n /\ prev = None
          \/ c.end # n /\ next = None -> Broken(c)
    [] OTHER -> [behind EXCEPT !.hash = [x \in keys(c) \ {k} |-> c.hash[x]],
                               !.node[n].data = None]

\* One round of evict_to_max.  A last node whose key is no longer in the cache
\* is not evicted, and every further round is the same.
EvictLast(c) ==
  CASE c.broken -> c
    [] ~c.broken /\ (c.end = None \/ ~exists(c, c.node[c.end].key)) -> Broken(c)
    [] OTHER -> evict(c, c.node[c.end].key)

evict_to_max(c) ==
  LET rounds == IF c.max = 0 \/ size(c) <= c.max THEN 0 ELSE size(c) - c.max
      after[i \in 0..rounds] == IF i = 0 THEN c ELSE EvictLast(after[i - 1])
  IN  after[rounds]

set_max_size(c, max) == evict_to_max([c EXCEPT !.max = max])

\* Evicts the keys in the order in which keys returns them.
flush(c, order) ==
  LET after[i \in 0..Len(order)] ==
        IF i = 0 THEN c ELSE evict(after[i - 1], order[i])
  IN  after[Len(order)]

\* The nodes of the cache are linked in this order from the first one on.
Leads(c, order) ==
  /\ order \in SetToSeqs({c.hash[k] : k \in keys(c)})
  /\ c.begin = IF order = <<>> THEN None ELSE order[1]
  /\ \A i \in DOMAIN order :
       c.node[order[i]].next = IF i = Len(order) THEN None ELSE order[i + 1]

\* And back from the last one.
LeadsBack(c, order) ==
  /\ c.end = IF order = <<>> THEN None ELSE order[Len(order)]
  /\ \A i \in DOMAIN order :
       c.node[order[i]].prev = IF i = 1 THEN None ELSE order[i - 1]
=============================================================================
