-------------------------- MODULE RegexMatchProofs --------------------------
(***************************************************************************)
(* Proofs about the cache of compiled expressions: that it owns what it    *)
(* holds, and that its nodes and references are a list of recently used    *)
(* keys until the code loses track of the last one.                        *)
(***************************************************************************)
EXTENDS RegexMatch, FiniteSetTheorems, WellFoundedInduction, TLAPS

-----------------------------------------------------------------------------
(* Caches                                                                  *)

\* The caches of the keys H whose nodes are N.
NodesOf(K, N) ==
  [key : K, data : Handles \cup {None}, prev : N \cup {None}, next : N \cup {None}]
Caches(K, H, N) ==
  [hash : [H -> N], node : [N -> NodesOf(K, N)],
   begin : N \cup {None}, end : N \cup {None}, max : Nat, broken : BOOLEAN]

\* Every key has a node of its own, with a handle.
Sound(c, K) ==
  /\ c \in Caches(K, keys(c), DOMAIN c.node)
  /\ DOMAIN c.node \subseteq Nodes
  /\ IsFiniteSet(keys(c))
  /\ \A k \in keys(c) : c.node[c.hash[k]].key = k /\ DataOf(c, k) \in Handles

\* d is c but for references.
SameKeys(c, d) ==
  /\ d.hash = c.hash /\ d.max = c.max
  /\ DOMAIN d.node = DOMAIN c.node
  /\ \A x \in DOMAIN c.node :
       d.node[x].key = c.node[x].key /\ d.node[x].data = c.node[x].data

\* d is c with one reference of a node assigned.
PrevIs(N, c, d, n, to) ==
  /\ d.hash = c.hash /\ d.begin = c.begin /\ d.end = c.end
  /\ d.max = c.max /\ d.broken = c.broken
  /\ \A x \in N :
       /\ d.node[x].key = c.node[x].key /\ d.node[x].data = c.node[x].data
       /\ d.node[x].next = c.node[x].next
       /\ d.node[x].prev = IF x = n THEN to ELSE c.node[x].prev
NextIs(N, c, d, n, to) ==
  /\ d.hash = c.hash /\ d.begin = c.begin /\ d.end = c.end
  /\ d.max = c.max /\ d.broken = c.broken
  /\ \A x \in N :
       /\ d.node[x].key = c.node[x].key /\ d.node[x].data = c.node[x].data
       /\ d.node[x].prev = c.node[x].prev
       /\ d.node[x].next = IF x = n THEN to ELSE c.node[x].next

\* Assigning one reference of a node.
LEMMA SetPrevLemma ==
  ASSUME NEW K, NEW H, NEW N, N \subseteq Nodes, NEW c \in Caches(K, H, N),
         NEW n \in N \cup {None}, NEW to \in N \cup {None}
  PROVE  /\ SetPrev(c, n, to) \in Caches(K, H, N)
         /\ PrevIs(N, c, SetPrev(c, n, to), n, to)
<1>1. None \notin N
  BY NodesAssumption
<1>2. CASE n = None
  BY <1>1, <1>2 DEF SetPrev, PrevIs
<1>3. CASE n # None
  <2> DEFINE new == [c.node[n] EXCEPT !.prev = to]
             node == [c.node EXCEPT ![n] = new]
             d == [c EXCEPT !.node = node]
  <2>1. SetPrev(c, n, to) = d
    BY <1>3 DEF SetPrev
  <2>2. c.node \in [N -> NodesOf(K, N)] /\ c.node[n] \in NodesOf(K, N) /\ n \in N
    BY <1>3 DEF Caches
  <2>3. /\ new \in NodesOf(K, N)
        /\ new.key = c.node[n].key /\ new.data = c.node[n].data
        /\ new.next = c.node[n].next /\ new.prev = to
    BY <2>2 DEF NodesOf
  <2> HIDE DEF new
  <2>4. /\ node \in [N -> NodesOf(K, N)]
        /\ \A x \in N : node[x] = IF x = n THEN new ELSE c.node[x]
    BY <2>2, <2>3
  <2> HIDE DEF node
  <2>5. /\ d \in Caches(K, H, N)
        /\ d.hash = c.hash /\ d.begin = c.begin /\ d.end = c.end
        /\ d.max = c.max /\ d.broken = c.broken /\ d.node = node
    BY <2>4 DEF Caches
  <2> HIDE DEF d
  <2> QED BY <2>1, <2>3, <2>4, <2>5 DEF PrevIs
<1> QED BY <1>2, <1>3

LEMMA SetNextLemma ==
  ASSUME NEW K, NEW H, NEW N, N \subseteq Nodes, NEW c \in Caches(K, H, N),
         NEW n \in N \cup {None}, NEW to \in N \cup {None}
  PROVE  /\ SetNext(c, n, to) \in Caches(K, H, N)
         /\ NextIs(N, c, SetNext(c, n, to), n, to)
<1>1. None \notin N
  BY NodesAssumption
<1>2. CASE n = None
  BY <1>1, <1>2 DEF SetNext, NextIs
<1>3. CASE n # None
  <2> DEFINE new == [c.node[n] EXCEPT !.next = to]
             node == [c.node EXCEPT ![n] = new]
             d == [c EXCEPT !.node = node]
  <2>1. SetNext(c, n, to) = d
    BY <1>3 DEF SetNext
  <2>2. c.node \in [N -> NodesOf(K, N)] /\ c.node[n] \in NodesOf(K, N) /\ n \in N
    BY <1>3 DEF Caches
  <2>3. /\ new \in NodesOf(K, N)
        /\ new.key = c.node[n].key /\ new.data = c.node[n].data
        /\ new.prev = c.node[n].prev /\ new.next = to
    BY <2>2 DEF NodesOf
  <2> HIDE DEF new
  <2>4. /\ node \in [N -> NodesOf(K, N)]
        /\ \A x \in N : node[x] = IF x = n THEN new ELSE c.node[x]
    BY <2>2, <2>3
  <2> HIDE DEF node
  <2>5. /\ d \in Caches(K, H, N)
        /\ d.hash = c.hash /\ d.begin = c.begin /\ d.end = c.end
        /\ d.max = c.max /\ d.broken = c.broken /\ d.node = node
    BY <2>4 DEF Caches
  <2> HIDE DEF d
  <2> QED BY <2>1, <2>3, <2>4, <2>5 DEF NextIs
<1> QED BY <1>2, <1>3

\* Following a null reference leaves the rest as it was.
LEMMA BrokenLemma ==
  ASSUME NEW K, NEW H, NEW N, NEW c \in Caches(K, H, N)
  PROVE  /\ Broken(c) \in Caches(K, H, N)
         /\ Broken(c).hash = c.hash /\ Broken(c).node = c.node
         /\ Broken(c).begin = c.begin /\ Broken(c).end = c.end
         /\ Broken(c).max = c.max /\ Broken(c).broken
BY DEF Broken, Caches

\* d is c after a node that is not the first was made the first.
Moved(N, c, d, n) ==
  /\ d.broken = c.broken /\ d.begin = n
  /\ \A x \in N :
       /\ d.node[x].next = IF x = n THEN c.begin
                           ELSE IF x = c.node[n].prev THEN c.node[n].next
                           ELSE c.node[x].next
       /\ d.node[x].prev = IF x = n THEN None
                           ELSE IF x = c.begin THEN n
                           ELSE IF x = c.node[n].next THEN c.node[n].prev
                           ELSE c.node[x].prev

LEMMA UpdateLemma ==
  ASSUME NEW K, NEW H, NEW N, N \subseteq Nodes, NEW c \in Caches(K, H, N),
         NEW n \in N
  PROVE  /\ m_update(c, n) \in Caches(K, H, N)
         /\ SameKeys(c, m_update(c, n))
         /\ m_update(c, n).end = c.end
         /\ c.begin = n => m_update(c, n) = c
         /\ (c.begin # n /\ c.node[n].prev # None /\ c.begin # None) =>
              Moved(N, c, m_update(c, n), n)
<1>0. DOMAIN c.node = N
  BY DEF Caches
<1> DEFINE prev == c.node[n].prev
           next == c.node[n].next
           c1 == SetNext(c, prev, next)
           c2 == SetPrev(c1, next, prev)
           c3 == SetNext(c2, n, c.begin)
           c4 == SetPrev(c3, c.begin, n)
           c5 == SetPrev(c4, n, None)
           c6 == [c5 EXCEPT !.begin = n]
<1>1. /\ prev \in N \cup {None} /\ next \in N \cup {None}
      /\ n \in N \cup {None} /\ c.begin \in N \cup {None} /\ None \in N \cup {None}
  BY DEF Caches, NodesOf
<1>2. CASE c.begin = n
  <2>1. m_update(c, n) = c
    BY <1>2 DEF m_update
  <2> QED BY <1>2, <2>1 DEF SameKeys
<1>3. CASE c.begin # n /\ None \in {prev, c.begin}
  <2>1. m_update(c, n) = Broken(c)
    BY <1>3 DEF m_update
  <2>2. /\ Broken(c) \in Caches(K, H, N) /\ Broken(c).end = c.end
        /\ Broken(c).hash = c.hash /\ Broken(c).node = c.node /\ Broken(c).max = c.max
    BY BrokenLemma
  <2>3. SameKeys(c, Broken(c))
    BY <2>2 DEF SameKeys
  <2>4. ~(c.begin # n /\ prev # None /\ c.begin # None)
    BY <1>3
  <2> QED BY <1>3, <2>1, <2>2, <2>3, <2>4
<1>4. CASE c.begin # n /\ None \notin {prev, c.begin}
  <2>1. m_update(c, n) = c6
    BY <1>4 DEF m_update
  <2> HIDE DEF prev, next
  <2>2. c1 \in Caches(K, H, N) /\ NextIs(N, c, c1, prev, next)
    BY <1>1, SetNextLemma
  <2> HIDE DEF c1
  <2>3. c2 \in Caches(K, H, N) /\ PrevIs(N, c1, c2, next, prev)
    BY <1>1, <2>2, SetPrevLemma
  <2> HIDE DEF c2
  <2>4. c3 \in Caches(K, H, N) /\ NextIs(N, c2, c3, n, c.begin)
    BY <1>1, <2>3, SetNextLemma
  <2> HIDE DEF c3
  <2>5. c4 \in Caches(K, H, N) /\ PrevIs(N, c3, c4, c.begin, n)
    BY <1>1, <2>4, SetPrevLemma
  <2> HIDE DEF c4
  <2>6. c5 \in Caches(K, H, N) /\ PrevIs(N, c4, c5, n, None)
    BY <1>1, <2>5, SetPrevLemma
  <2> HIDE DEF c5
  <2>7. /\ c6 \in Caches(K, H, N)
        /\ c6.hash = c.hash /\ c6.begin = n /\ c6.end = c.end
        /\ c6.max = c.max /\ c6.broken = c.broken /\ c6.node = c5.node
    <3>1. c5 \in Caches(K, H, N)
      BY <2>6
    <3>2. /\ c5.hash = c.hash /\ c5.end = c.end
          /\ c5.max = c.max /\ c5.broken = c.broken
      BY <2>2, <2>3, <2>4, <2>5, <2>6 DEF PrevIs, NextIs
    <3> QED BY <3>1, <3>2 DEF Caches
  <2> HIDE DEF c6
  <2>8. \A x \in N :
          /\ c6.node[x].key = c.node[x].key /\ c6.node[x].data = c.node[x].data
          /\ c6.node[x].next = IF x = n THEN c.begin
                               ELSE IF x = prev THEN next
                               ELSE c.node[x].next
          /\ c6.node[x].prev = IF x = n THEN None
                               ELSE IF x = c.begin THEN n
                               ELSE IF x = next THEN prev
                               ELSE c.node[x].prev
    BY <2>2, <2>3, <2>4, <2>5, <2>6, <2>7 DEF PrevIs, NextIs
  <2>9. DOMAIN c6.node = N
    BY <2>7 DEF Caches
  <2>10. SameKeys(c, c6)
    BY <1>0, <2>7, <2>8, <2>9 DEF SameKeys
  <2>11. Moved(N, c, c6, n)
    BY <2>7, <2>8 DEF Moved, prev, next
  <2> QED BY <1>4, <2>1, <2>7, <2>10, <2>11 DEF prev
<1> QED BY <1>2, <1>3, <1>4

\* d is c with a new node n for a new key k in front.
Added(c, d, n, k, data) ==
  /\ d.hash = [x \in keys(c) \cup {k} |-> IF x = k THEN n ELSE c.hash[x]]
  /\ d.begin = n /\ d.end = (IF c.begin = None THEN n ELSE c.end)
  /\ d.max = c.max /\ d.broken = c.broken
  /\ DOMAIN d.node = DOMAIN c.node \cup {n}
  /\ d.node[n] = [key |-> k, data |-> data, prev |-> None, next |-> c.begin]
  /\ \A x \in DOMAIN c.node :
       /\ d.node[x].key = c.node[x].key /\ d.node[x].data = c.node[x].data
       /\ d.node[x].next = c.node[x].next
       /\ d.node[x].prev = IF x = c.begin THEN n ELSE c.node[x].prev

LEMMA PutLemma ==
  ASSUME NEW K, NEW H, NEW N, N \subseteq Nodes, N # Nodes, NEW c \in Caches(K, H, N),
         NEW k \in K \ H, NEW data \in Handles
  PROVE  /\ FreshNode(c) \in Nodes \ N
         /\ put(c, k, data) \in Caches(K, H \cup {k}, N \cup {FreshNode(c)})
         /\ Added(c, put(c, k, data), FreshNode(c), k, data)
<1> DEFINE n == FreshNode(c)
           new == [key |-> k, data |-> data, prev |-> None, next |-> c.begin]
           behind == SetPrev(c, c.begin, n)
           node == [x \in DOMAIN behind.node \cup {n} |-> IF x = n THEN new ELSE behind.node[x]]
           linked == [behind EXCEPT !.node = node, !.begin = n]
           hash == [x \in keys(c) \cup {k} |-> IF x = k THEN n ELSE c.hash[x]]
           d == [linked EXCEPT !.hash = hash, !.end = IF c.begin = None THEN n ELSE linked.end]
           M == N \cup {n}
<1>1. /\ DOMAIN c.node = N /\ keys(c) = H /\ c.begin \in N \cup {None}
      /\ c.node \in [N -> NodesOf(K, N)] /\ c.hash \in [H -> N]
      /\ c.end \in N \cup {None} /\ c.max \in Nat /\ c.broken \in BOOLEAN
  BY DEF Caches, keys
<1>2. n \in Nodes \ N
  BY <1>1 DEF FreshNode
<1>3. None \notin N /\ n # None
  BY <1>2, NodesAssumption
<1>4. put(c, k, data) = d
  BY <1>1 DEF put, exists
<1> HIDE DEF n
<1>5. /\ behind = [hash |-> c.hash, node |-> behind.node, begin |-> c.begin,
                   end |-> c.end, max |-> c.max, broken |-> c.broken]
      /\ DOMAIN behind.node = N
      /\ \A x \in N :
           /\ behind.node[x] \in NodesOf(K, M)
           /\ behind.node[x].key = c.node[x].key /\ behind.node[x].data = c.node[x].data
           /\ behind.node[x].next = c.node[x].next
           /\ behind.node[x].prev = IF x = c.begin THEN n ELSE c.node[x].prev
  <2>0. c = [hash |-> c.hash, node |-> c.node, begin |-> c.begin,
             end |-> c.end, max |-> c.max, broken |-> c.broken]
    BY DEF Caches
  <2>a. \A x \in N : c.node[x] \in NodesOf(K, M)
    BY <1>1 DEF NodesOf
  <2>1. CASE c.begin = None
    <3>1. behind = c
      BY <2>1 DEF SetPrev
    <3> QED BY <1>1, <1>3, <2>0, <2>1, <2>a, <3>1
  <2>2. CASE c.begin # None
    <3> DEFINE first == [c.node[c.begin] EXCEPT !.prev = n]
               front == [c.node EXCEPT ![c.begin] = first]
    <3>1. behind = [c EXCEPT !.node = front]
      BY <2>2 DEF SetPrev
    <3>2. c.begin \in N
      BY <1>1, <2>2
    <3>3. /\ first \in NodesOf(K, M) /\ first.key = c.node[c.begin].key
          /\ first.data = c.node[c.begin].data
          /\ first.next = c.node[c.begin].next /\ first.prev = n
      BY <1>1, <3>2 DEF NodesOf
    <3> HIDE DEF first
    <3>4. /\ DOMAIN front = N
          /\ \A x \in N : front[x] = IF x = c.begin THEN first ELSE c.node[x]
      BY <1>1, <3>2
    <3> HIDE DEF front
    <3>5. behind = [hash |-> c.hash, node |-> front, begin |-> c.begin,
                    end |-> c.end, max |-> c.max, broken |-> c.broken]
      BY <2>0, <3>1
    <3> HIDE DEF behind
    <3>6. behind.node = front
      BY <3>5
    <3> QED BY <2>a, <3>3, <3>4, <3>5, <3>6
  <2> QED BY <2>1, <2>2
<1> HIDE DEF behind
<1>6. new \in NodesOf(K, M)
  BY <1>1 DEF NodesOf
<1>7. DOMAIN node = M /\ node[n] = new /\ \A x \in N : node[x] = behind.node[x]
  BY <1>2, <1>5
<1>8. node \in [M -> NodesOf(K, M)]
  BY <1>5, <1>6
<1>9. hash \in [H \cup {k} -> M]
  BY <1>1
<1> HIDE DEF new, node, hash
<1>10. linked = [hash |-> c.hash, node |-> node, begin |-> n,
                 end |-> c.end, max |-> c.max, broken |-> c.broken]
  <2> DEFINE nodes == behind.node
  <2>0. behind = [hash |-> c.hash, node |-> nodes, begin |-> c.begin,
                  end |-> c.end, max |-> c.max, broken |-> c.broken]
    BY <1>5
  <2> HIDE DEF nodes
  <2>1. linked \in [hash : {c.hash}, node : {node}, begin : {n},
                    end : {c.end}, max : {c.max}, broken : {c.broken}]
    BY <2>0
  <2> HIDE DEF linked
  <2> QED BY <2>1
<1> HIDE DEF linked
<1>11. d = [hash |-> hash, node |-> node, begin |-> n,
            end |-> IF c.begin = None THEN n ELSE c.end,
            max |-> c.max, broken |-> c.broken]
  <2>1. linked.end = c.end
    BY <1>10
  <2> DEFINE end == IF c.begin = None THEN n ELSE c.end
  <2>2. end = IF c.begin = None THEN n ELSE linked.end
    BY <2>1
  <2> HIDE DEF end
  <2>3. d \in [hash : {hash}, node : {node}, begin : {n},
               end : {end}, max : {c.max}, broken : {c.broken}]
    BY <1>10, <2>2
  <2> HIDE DEF d
  <2> QED BY <2>3 DEF end
<1> HIDE DEF d
<1>12. d \in Caches(K, H \cup {k}, M)
  BY <1>1, <1>8, <1>9, <1>11 DEF Caches
<1>13. Added(c, d, n, k, data)
  BY <1>1, <1>5, <1>7, <1>11 DEF Added, new, hash
<1> QED BY <1>2, <1>4, <1>12, <1>13 DEF n

\* d is c without the key k, whose node had both the neighbours it needs.
Dangling(c, n) ==
  \/ c.begin # n /\ c.node[n].prev = None
  \/ c.end # n /\ c.node[n].next = None

Removed(N, c, d, k) ==
  LET n == c.hash[k]
      prev == c.node[n].prev
      next == c.node[n].next
  IN
  /\ d.hash = [x \in keys(c) \ {k} |-> c.hash[x]]
  /\ d.max = c.max /\ d.broken = c.broken
  /\ d.begin = (IF c.begin = n THEN next ELSE c.begin)
  /\ d.end = (IF c.end = n THEN prev ELSE c.end)
  /\ \A x \in N :
       /\ d.node[x].key = c.node[x].key
       /\ d.node[x].data = IF x = n THEN None ELSE c.node[x].data
       /\ d.node[x].next = IF c.begin # n /\ x = prev THEN next ELSE c.node[x].next
       /\ d.node[x].prev = IF c.end # n /\ x = next THEN prev ELSE c.node[x].prev

LEMMA RemoveLemma ==
  ASSUME NEW K, NEW H, NEW N, N \subseteq Nodes, NEW c \in Caches(K, H, N),
         NEW k \in H, ~c.broken, ~Dangling(c, c.hash[k])
  PROVE  /\ evict(c, k) \in Caches(K, H \ {k}, N)
         /\ Removed(N, c, evict(c, k), k)
<1> DEFINE n == c.hash[k]
           prev == c.node[n].prev
           next == c.node[n].next
           ahead == IF c.begin = n THEN [c EXCEPT !.begin = next]
                    ELSE SetNext(c, prev, next)
           behind == IF c.end = n THEN [ahead EXCEPT !.end = prev]
                     ELSE SetPrev(ahead, next, prev)
           hash == [x \in keys(c) \ {k} |-> c.hash[x]]
           d == [behind EXCEPT !.hash = hash, !.node[n].data = None]
<1>1. /\ DOMAIN c.node = N /\ keys(c) = H /\ n \in N
      /\ c.node \in [N -> NodesOf(K, N)] /\ c.hash \in [H -> N]
      /\ prev \in N \cup {None} /\ next \in N \cup {None}
  BY SMTT(40) DEF Caches, NodesOf, keys
<1>2. evict(c, k) = d
  BY <1>1 DEF evict, exists, Dangling
<1>3. /\ ahead \in Caches(K, H, N)
      /\ ahead.hash = c.hash /\ ahead.end = c.end /\ ahead.max = c.max
      /\ ahead.broken = c.broken /\ ahead.begin = IF c.begin = n THEN next ELSE c.begin
      /\ \A x \in N :
           /\ ahead.node[x].key = c.node[x].key /\ ahead.node[x].data = c.node[x].data
           /\ ahead.node[x].prev = c.node[x].prev
           /\ ahead.node[x].next = IF c.begin # n /\ x = prev THEN next ELSE c.node[x].next
  <2> HIDE DEF n, prev, next
  <2>1. CASE c.begin = n
    <3> DEFINE e == [c EXCEPT !.begin = next]
    <3>1. ahead = e
      BY <2>1
    <3>2. /\ e \in Caches(K, H, N) /\ e.hash = c.hash /\ e.end = c.end /\ e.max = c.max
          /\ e.broken = c.broken /\ e.begin = next /\ e.node = c.node
      BY <1>1 DEF Caches
    <3> HIDE DEF e, ahead
    <3> QED BY <2>1, <3>1, <3>2
  <2>2. CASE c.begin # n
    <3>1. ahead = SetNext(c, prev, next)
      BY <2>2
    <3> HIDE DEF ahead
    <3>3. prev \in N \cup {None} /\ next \in N \cup {None}
      BY <1>1
    <3>4. /\ SetNext(c, prev, next) \in Caches(K, H, N)
          /\ NextIs(N, c, SetNext(c, prev, next), prev, next)
      BY <3>3, SetNextLemma
    <3>2. ahead \in Caches(K, H, N) /\ NextIs(N, c, ahead, prev, next)
      BY <3>1, <3>4
    <3> QED BY <2>2, <3>2 DEF NextIs
  <2> QED BY <2>1, <2>2
<1> HIDE DEF ahead
<1>4. /\ behind \in Caches(K, H, N)
      /\ behind.hash = c.hash /\ behind.max = c.max /\ behind.broken = c.broken
      /\ behind.begin = ahead.begin
      /\ behind.end = IF c.end = n THEN prev ELSE c.end
      /\ \A x \in N :
           /\ behind.node[x].key = c.node[x].key /\ behind.node[x].data = c.node[x].data
           /\ behind.node[x].next = ahead.node[x].next
           /\ behind.node[x].prev = IF c.end # n /\ x = next THEN prev ELSE c.node[x].prev
  <2> HIDE DEF n, prev, next
  <2>1. CASE c.end = n
    <3> DEFINE e == [ahead EXCEPT !.end = prev]
    <3>1. behind = e
      BY <2>1
    <3>2. /\ e \in Caches(K, H, N) /\ e.hash = ahead.hash /\ e.end = prev
          /\ e.max = ahead.max
          /\ e.broken = ahead.broken /\ e.begin = ahead.begin /\ e.node = ahead.node
      BY <1>1, <1>3 DEF Caches
    <3> HIDE DEF e, behind
    <3> QED BY <1>3, <2>1, <3>1, <3>2
  <2>2. CASE c.end # n
    <3>1. behind = SetPrev(ahead, next, prev)
      BY <2>2
    <3> HIDE DEF behind
    <3>3. prev \in N \cup {None} /\ next \in N \cup {None}
      BY <1>1
    <3>4. /\ SetPrev(ahead, next, prev) \in Caches(K, H, N)
          /\ PrevIs(N, ahead, SetPrev(ahead, next, prev), next, prev)
      BY <1>3, <3>3, SetPrevLemma
    <3>2. behind \in Caches(K, H, N) /\ PrevIs(N, ahead, behind, next, prev)
      BY <3>1, <3>4
    <3> QED BY <1>3, <2>2, <3>2 DEF PrevIs
  <2> QED BY <2>1, <2>2
<1> HIDE DEF behind
<1> DEFINE gone == [behind.node[n] EXCEPT !.data = None]
           node == [behind.node EXCEPT ![n] = gone]
<1>5. /\ gone \in NodesOf(K, N) /\ gone.data = None /\ gone.key = behind.node[n].key
      /\ gone.next = behind.node[n].next /\ gone.prev = behind.node[n].prev
  <2>1. behind.node[n] \in NodesOf(K, N)
    BY <1>1, <1>4 DEF Caches
  <2> QED BY <2>1 DEF NodesOf
<1>6. /\ node \in [N -> NodesOf(K, N)]
      /\ \A x \in N : node[x] = IF x = n THEN gone ELSE behind.node[x]
  <2>1. behind.node \in [N -> NodesOf(K, N)]
    BY <1>4 DEF Caches
  <2> HIDE DEF gone, n
  <2> QED BY <1>1, <1>5, <2>1
<1>7. hash \in [H \ {k} -> N]
  BY <1>1
<1>8. d = [[behind EXCEPT !.hash = hash] EXCEPT !.node = node]
  <2>1. behind \in Caches(K, H, N)
    BY <1>4
  <2> HIDE DEF n, hash
  <2> QED BY <2>1 DEF Caches
<1> HIDE DEF gone, node, hash, d
<1>9. /\ d \in Caches(K, H \ {k}, N)
      /\ d.hash = hash /\ d.node = node /\ d.max = behind.max /\ d.broken = behind.broken
      /\ d.begin = behind.begin /\ d.end = behind.end
  <2>1. behind \in Caches(K, H, N)
    BY <1>4
  <2> QED BY <1>6, <1>7, <1>8, <2>1 DEF Caches
<1>10. Removed(N, c, d, k)
  <2> HIDE DEF n, prev, next
  <2>1. /\ d.hash = hash
        /\ d.max = c.max /\ d.broken = c.broken
        /\ d.begin = (IF c.begin = n THEN next ELSE c.begin)
        /\ d.end = (IF c.end = n THEN prev ELSE c.end)
    BY <1>3, <1>4, <1>9
  <2>2. \A x \in N :
          /\ d.node[x].key = c.node[x].key
          /\ d.node[x].data = IF x = n THEN None ELSE c.node[x].data
          /\ d.node[x].next = IF c.begin # n /\ x = prev THEN next ELSE c.node[x].next
          /\ d.node[x].prev = IF c.end # n /\ x = next THEN prev ELSE c.node[x].prev
    BY <1>3, <1>4, <1>5, <1>6, <1>9
  <2> QED BY <2>1, <2>2, Zenon DEF Removed, hash, n, prev, next
<1> QED BY <1>2, <1>9, <1>10

-----------------------------------------------------------------------------
(* Soundness                                                               *)

LEMMA SoundProperties ==
  ASSUME NEW K, NEW c, Sound(c, K)
  PROVE  /\ c.hash \in [keys(c) -> DOMAIN c.node]
         /\ c.node \in [DOMAIN c.node -> NodesOf(K, DOMAIN c.node)]
         /\ \A n \in DOMAIN c.node :
              {c.node[n].prev, c.node[n].next} \subseteq DOMAIN c.node \cup {None}
         /\ {c.begin, c.end} \subseteq DOMAIN c.node \cup {None}
         /\ c.max \in Nat /\ c.broken \in BOOLEAN
         /\ keys(c) \subseteq K
         /\ None \notin DOMAIN c.node
         /\ \A j, k \in keys(c) : c.hash[j] = c.hash[k] => j = k
<1>1. /\ c.hash \in [keys(c) -> DOMAIN c.node]
      /\ c.node \in [DOMAIN c.node -> NodesOf(K, DOMAIN c.node)]
      /\ {c.begin, c.end} \subseteq DOMAIN c.node \cup {None}
      /\ c.max \in Nat /\ c.broken \in BOOLEAN
  BY DEF Sound, Caches
<1>2. \A n \in DOMAIN c.node :
        {c.node[n].prev, c.node[n].next} \subseteq DOMAIN c.node \cup {None}
  BY <1>1 DEF NodesOf
<1>3. keys(c) \subseteq K
  BY <1>1 DEF Sound, NodesOf
<1> QED BY <1>1, <1>2, <1>3, NodesAssumption DEF Sound

LEMMA NewLemma ==
  ASSUME NEW K, NEW max \in Nat
  PROVE  /\ Sound(NewCache(max), K) /\ keys(NewCache(max)) = {}
         /\ NewCache(max).begin = None /\ NewCache(max).end = None
         /\ NewCache(max).max = max /\ ~NewCache(max).broken
<1>1. DOMAIN <<>> = {} /\ \A S : <<>> \in [{} -> S]
  OBVIOUS
<1>2. keys(NewCache(max)) = {} /\ DOMAIN NewCache(max).node = {}
  BY <1>1 DEF keys, NewCache
<1>3. NewCache(max) \in Caches(K, {}, {})
  BY <1>1 DEF NewCache, Caches
<1> QED BY <1>2, <1>3, FS_EmptySet DEF Sound, NewCache

\* What is not collected is as it was.
Collects(c, d) ==
  /\ d.hash = c.hash /\ d.begin = c.begin /\ d.end = c.end
  /\ d.max = c.max /\ d.broken = c.broken
  /\ DOMAIN d.node \subseteq DOMAIN c.node
  /\ \A x \in DOMAIN d.node : d.node[x] = c.node[x]

LEMMA CollectedLemma ==
  ASSUME NEW K, NEW c, Sound(c, K)
  PROVE  Sound(Collected(c), K) /\ Collects(c, Collected(c))
<1> DEFINE known == {c.begin, c.end} \cup {c.hash[k] : k \in keys(c)}
           Closed(ns) == \A n \in ns : {c.node[n].prev, c.node[n].next} \subseteq ns \cup {None}
           Good(ns) == known \subseteq ns \cup {None} /\ Closed(ns)
           N == DOMAIN c.node
           kept == {n \in N : \A ns \in SUBSET N : Good(ns) => n \in ns}
           node == [n \in kept |-> c.node[n]]
           d == [c EXCEPT !.node = node]
<1>1. Collected(c) = d
  BY DEF Collected
<1>2. /\ c \in Caches(K, keys(c), N) /\ N \subseteq Nodes /\ None \notin N
      /\ c.node \in [N -> NodesOf(K, N)] /\ c.hash \in [keys(c) -> N]
      /\ \A n \in N : {c.node[n].prev, c.node[n].next} \subseteq N \cup {None}
      /\ {c.begin, c.end} \subseteq N \cup {None}
  BY SoundProperties DEF Sound
<1>3. kept \subseteq N /\ None \notin kept
  BY <1>2
<1>4. \A k \in keys(c) : c.hash[k] \in kept
  <2> TAKE k \in keys(c)
  <2>1. c.hash[k] \in N /\ c.hash[k] # None /\ c.hash[k] \in known
    BY <1>2
  <2> HIDE DEF known, Closed
  <2> QED BY <2>1
<1>5. {c.begin, c.end} \subseteq kept \cup {None}
  <2>1. \A n \in {c.begin, c.end} : n \in N \cup {None} /\ n \in known
    BY <1>2
  <2> HIDE DEF known, Closed
  <2> QED BY <2>1
<1>6. \A n \in kept : {c.node[n].prev, c.node[n].next} \subseteq kept \cup {None}
  <2> SUFFICES ASSUME NEW n \in kept, NEW m \in {c.node[n].prev, c.node[n].next}, m # None
               PROVE  m \in kept
    OBVIOUS
  <2>1. n \in N /\ m \in N
    BY <1>2
  <2>2. ASSUME NEW ns \in SUBSET N, Good(ns) PROVE m \in ns
    <3>1. n \in ns
      BY <2>2
    <3>2. {c.node[n].prev, c.node[n].next} \subseteq ns \cup {None}
      BY <2>2, <3>1
    <3> QED BY <3>2
  <2> HIDE DEF Good
  <2> QED BY <2>1, <2>2
<1> HIDE DEF kept
<1>7. node \in [kept -> NodesOf(K, kept)]
  <2> SUFFICES ASSUME NEW n \in kept PROVE c.node[n] \in NodesOf(K, kept)
    OBVIOUS
  <2>1. c.node[n] \in NodesOf(K, N)
    BY <1>2, <1>3
  <2>2. /\ c.node[n].prev \in kept \cup {None}
        /\ c.node[n].next \in kept \cup {None}
    BY <1>6
  <2> QED BY <2>1, <2>2 DEF NodesOf
<1>8. DOMAIN node = kept /\ \A n \in kept : node[n] = c.node[n]
  OBVIOUS
<1> HIDE DEF node
<1>9. c.hash \in [keys(c) -> kept]
  BY <1>2, <1>4
<1>10. /\ d.hash = c.hash /\ d.node = node /\ d.begin = c.begin /\ d.end = c.end
       /\ d.max = c.max /\ d.broken = c.broken
       /\ d \in Caches(K, keys(c), kept)
  BY <1>2, <1>5, <1>7, <1>9 DEF Caches
<1> HIDE DEF d
<1>11. Collects(c, d)
  BY <1>3, <1>8, <1>10 DEF Collects
<1>12. Sound(d, K)
  <2>1. keys(d) = keys(c) /\ DOMAIN d.node = kept
    BY <1>8, <1>10 DEF keys
  <2>2. \A k \in keys(c) : d.node[d.hash[k]] = c.node[c.hash[k]]
    BY <1>4, <1>8, <1>10
  <2> QED BY <1>2, <1>3, <1>10, <2>1, <2>2 DEF Sound, DataOf
<1> QED BY <1>1, <1>11, <1>12

LEMMA SoundUpdate ==
  ASSUME NEW K, NEW c, Sound(c, K), NEW n \in DOMAIN c.node
  PROVE  Sound(m_update(c, n), K) /\ SameKeys(c, m_update(c, n))
<1> DEFINE d == m_update(c, n)
           N == DOMAIN c.node
<1>1. d \in Caches(K, keys(c), N) /\ SameKeys(c, d) /\ N \subseteq Nodes
  BY UpdateLemma DEF Sound
<1>2. c.hash \in [keys(c) -> N]
  BY SoundProperties
<1> HIDE DEF d
<1>3. keys(d) = keys(c) /\ DOMAIN d.node = N /\ d.hash = c.hash
  BY <1>1 DEF SameKeys, keys
<1>4. \A k \in keys(c) : d.node[d.hash[k]].key = k /\ DataOf(d, k) \in Handles
  BY <1>1, <1>2, <1>3 DEF SameKeys, Sound, DataOf
<1> QED BY <1>1, <1>3, <1>4 DEF Sound, d

LEMMA SoundPut ==
  ASSUME NEW K, NEW c, Sound(c, K), NEW k \in K \ keys(c), NEW data \in Handles,
         DOMAIN c.node # Nodes
  PROVE  Sound(put(c, k, data), K) /\ Added(c, put(c, k, data), FreshNode(c), k, data)
<1> DEFINE d == put(c, k, data)
           n == FreshNode(c)
           N == DOMAIN c.node
<1>1. /\ n \in Nodes \ N /\ d \in Caches(K, keys(c) \cup {k}, N \cup {n})
      /\ Added(c, d, n, k, data) /\ N \subseteq Nodes
  <2>1. c \in Caches(K, keys(c), N) /\ N \subseteq Nodes /\ N # Nodes
    BY DEF Sound
  <2> HIDE DEF N
  <2> QED BY <2>1, PutLemma
<1>2. c.hash \in [keys(c) -> N]
  BY SoundProperties
<1> HIDE DEF d, n
<1>3. keys(d) = keys(c) \cup {k} /\ DOMAIN d.node = N \cup {n}
  BY <1>1 DEF Added, keys
<1>4. \A j \in keys(d) : d.node[d.hash[j]].key = j /\ DataOf(d, j) \in Handles
  <2> TAKE j \in keys(d)
  <2>1. CASE j = k
    <3>1. d.hash[j] = n /\ d.node[n].key = k /\ d.node[n].data = data
      BY <1>1, <2>1 DEF Added
    <3> QED BY <2>1, <3>1 DEF DataOf
  <2>2. CASE j # k
    <3>1. j \in keys(c) /\ d.hash[j] = c.hash[j] /\ c.hash[j] \in N
      BY <1>1, <1>2, <1>3, <2>2 DEF Added
    <3>2. c.node[c.hash[j]].key = j /\ c.node[c.hash[j]].data \in Handles
      BY <3>1 DEF Sound, DataOf
    <3> QED BY <1>1, <3>1, <3>2 DEF Added, DataOf
  <2> QED BY <2>1, <2>2
<1>5. IsFiniteSet(keys(d))
  BY <1>3, FS_AddElement DEF Sound
<1> QED BY <1>1, <1>3, <1>4, <1>5 DEF Sound, d, n

\* d has some of the keys of c, and their data.
Sheds(c, d) ==
  /\ keys(d) \subseteq keys(c) /\ d.max = c.max
  /\ \A k \in keys(d) : d.hash[k] = c.hash[k] /\ DataOf(d, k) = DataOf(c, k)

LEMMA SoundEvict ==
  ASSUME NEW K, NEW c, Sound(c, K), NEW k
  PROVE  Sound(evict(c, k), K) /\ Sheds(c, evict(c, k))
<1> DEFINE d == evict(c, k)
           N == DOMAIN c.node
<1>0. N \subseteq Nodes /\ c \in Caches(K, keys(c), N)
  BY DEF Sound
<1>1. CASE c.broken \/ k \notin keys(c)
  <2>1. d = c
    BY <1>1, Zenon DEF evict, exists
  <2> QED BY <2>1, SMTT(40) DEF Sheds
<1>2. CASE ~c.broken /\ k \in keys(c) /\ Dangling(c, c.hash[k])
  <2>1. d = Broken(c)
    BY <1>2 DEF evict, exists, Dangling
  <2>2. /\ Broken(c) \in Caches(K, keys(c), N)
        /\ Broken(c).hash = c.hash /\ Broken(c).node = c.node /\ Broken(c).max = c.max
    BY <1>0, BrokenLemma
  <2> HIDE DEF d
  <2>3. keys(d) = keys(c) /\ d.hash = c.hash /\ d.node = c.node /\ d.max = c.max
    BY <2>1, <2>2 DEF keys
  <2>4. \A j \in keys(c) : DataOf(d, j) = DataOf(c, j)
    BY <2>3 DEF DataOf
  <2> QED BY <2>1, <2>2, <2>3, <2>4, SMTT(40) DEF Sound, Sheds, d
<1>3. CASE ~c.broken /\ k \in keys(c) /\ ~Dangling(c, c.hash[k])
  <2>1. d \in Caches(K, keys(c) \ {k}, N) /\ Removed(N, c, d, k)
    BY <1>0, <1>3, RemoveLemma
  <2> HIDE DEF d
  <2>2. keys(d) = keys(c) \ {k} /\ DOMAIN d.node = N
    BY <2>1 DEF keys, Removed, Caches
  <2>3. ASSUME NEW j \in keys(d)
        PROVE  /\ d.hash[j] = c.hash[j] /\ d.node[d.hash[j]].key = j
               /\ DataOf(d, j) = DataOf(c, j) /\ DataOf(d, j) \in Handles
    <3>1. /\ d.hash[j] = c.hash[j] /\ j \in keys(c) /\ c.hash[j] \in N
          /\ c.hash[j] # c.hash[k]
      BY <1>3, <2>1, <2>2, SoundProperties DEF Removed
    <3>2. /\ d.node[c.hash[j]].key = c.node[c.hash[j]].key
          /\ d.node[c.hash[j]].data = c.node[c.hash[j]].data
      BY <2>1, <3>1 DEF Removed
    <3> QED BY <3>1, <3>2 DEF DataOf, Sound
  <2>4. IsFiniteSet(keys(d))
    BY <2>2, FS_RemoveElement DEF Sound
  <2>5. d.max = c.max
    BY <2>1 DEF Removed
  <2>6. Sound(d, K)
    BY <1>0, <2>1, <2>2, <2>3, <2>4 DEF Sound
  <2>7. Sheds(c, d)
    BY <2>2, <2>3, <2>5 DEF Sheds
  <2> QED BY <2>6, <2>7 DEF d
<1> QED BY <1>1, <1>2, <1>3

LEMMA SoundEvictLast ==
  ASSUME NEW K, NEW c, Sound(c, K)
  PROVE  Sound(EvictLast(c), K) /\ Sheds(c, EvictLast(c))
<1>1. CASE c.broken
  BY <1>1 DEF EvictLast, Sheds
<1>2. CASE ~c.broken /\ (c.end = None \/ ~exists(c, c.node[c.end].key))
  <2>1. EvictLast(c) = Broken(c)
    BY <1>2 DEF EvictLast
  <2>2. /\ Broken(c) \in Caches(K, keys(c), DOMAIN c.node)
        /\ Broken(c).hash = c.hash /\ Broken(c).node = c.node /\ Broken(c).max = c.max
    BY BrokenLemma DEF Sound
  <2>3. keys(Broken(c)) = keys(c) /\ \A j \in keys(c) : DataOf(Broken(c), j) = DataOf(c, j)
    BY <2>2 DEF DataOf, keys
  <2> QED BY <2>1, <2>2, <2>3 DEF Sound, Sheds
<1>3. CASE ~c.broken /\ ~(c.end = None \/ ~exists(c, c.node[c.end].key))
  <2>1. EvictLast(c) = evict(c, c.node[c.end].key)
    BY <1>3 DEF EvictLast
  <2> QED BY <2>1, SoundEvict
<1> QED BY <1>1, <1>2, <1>3

-----------------------------------------------------------------------------
(* The loops                                                               *)

\* A set of naturals that is not empty has a least element.
LEMMA LeastNatural ==
  ASSUME NEW T \in SUBSET Nat, T # {}
  PROVE  \E m \in T : \A k \in T : m <= k
<1> DEFINE R == {p \in Nat \X Nat : p[1] < p[2]}
<1>1. IsWellFoundedOn(R, Nat)
  BY NatLessThanWellFounded DEF OpToRel
<1>2. \A m, k \in T : <<k, m>> \notin R => m <= k
  BY SMT
<1> HIDE DEF R
<1>3. \E m \in T : \A k \in T : <<k, m>> \notin R
  BY <1>1, WFMin
<1> QED BY <1>2, <1>3

\* The rounds of evict_to_max.
Rounds(c) == IF c.max = 0 \/ size(c) <= c.max THEN 0 ELSE size(c) - c.max
IsRounds(g, c, n) ==
  /\ g[0] = c
  /\ \A i \in 1..n : g[i] = EvictLast(g[i - 1])

LEMMA RoundsExist ==
  ASSUME NEW c, Rounds(c) \in Nat
  PROVE  \E g : IsRounds(g, c, Rounds(c)) /\ evict_to_max(c) = g[Rounds(c)]
<1> DEFINE n == Rounds(c)
           Upto(g, m) == g = [i \in 0..m |-> g[i]] /\ IsRounds(g, c, m)
           T == {m \in 0..n : ~ \E g : Upto(g, m)}
           Rec(g) == g = [i \in 0..n |-> IF i = 0 THEN c ELSE EvictLast(g[i - 1])]
<1>0. n \in Nat
  OBVIOUS
<1>1. evict_to_max(c) = (CHOOSE g : Rec(g))[n]
  BY DEF evict_to_max, Rounds
<1> HIDE DEF n
<1>2. T = {}
  <2> SUFFICES ASSUME T # {} PROVE FALSE
    OBVIOUS
  <2>1. PICK m \in T : \A k \in T : m <= k
    <3> HIDE DEF Upto
    <3>1. T \in SUBSET Nat
      BY <1>0
    <3> HIDE DEF T
    <3> QED BY <3>1, LeastNatural
  <2>2. m # 0
    <3>1. Upto([i \in 0..0 |-> c], 0)
      BY DEF IsRounds
    <3> QED BY <3>1
  <2>3. m - 1 \in 0..n /\ m - 1 \notin T
    BY <1>0, <2>1, <2>2
  <2>4. PICK g : Upto(g, m - 1)
    BY <2>3
  <2> DEFINE h == [i \in 0..m |-> IF i = m THEN EvictLast(g[m - 1]) ELSE g[i]]
  <2>5. Upto(h, m)
    <3>1. h = [i \in 0..m |-> h[i]] /\ h[0] = c
      BY <1>0, <2>2, <2>4 DEF IsRounds
    <3>2. ASSUME NEW i \in 1..m PROVE h[i] = EvictLast(h[i - 1])
      <4>1. i \in 0..m /\ i - 1 \in 0..m /\ i - 1 # m
        BY <1>0
      <4>2. h[i - 1] = g[i - 1]
        BY <4>1
      <4>3. CASE i = m
        BY <4>1, <4>2, <4>3
      <4>4. CASE i # m
        <5>1. i \in 1..(m - 1)
          BY <1>0, <4>4
        <5> QED BY <2>4, <4>1, <4>2, <4>4, <5>1 DEF IsRounds
      <4> QED BY <4>3, <4>4
    <3> HIDE DEF h
    <3> QED BY <3>1, <3>2 DEF IsRounds
  <2> QED BY <2>1, <2>5
<1>3. PICK g : Upto(g, n)
  <2>1. n \in 0..n /\ n \notin T
    BY <1>0, <1>2
  <2> HIDE DEF Upto
  <2> QED BY <2>1, Zenon
<1>4. Rec(g)
  <2>1. \A i \in 0..n : g[i] = IF i = 0 THEN c ELSE EvictLast(g[i - 1])
    <3>1. \A i \in 0..n : i = 0 \/ i \in 1..n
      BY <1>0
    <3>2. \A i \in 1..n : i # 0
      OBVIOUS
    <3>3. g[0] = c /\ \A i \in 1..n : g[i] = EvictLast(g[i - 1])
      BY <1>3 DEF IsRounds
    <3> QED BY <3>1, <3>2, <3>3, Zenon
  <2> QED BY <1>3, <2>1
<1> DEFINE f == CHOOSE f : Rec(f)
<1>5. Rec(f)
  BY <1>4
<1>6. evict_to_max(c) = f[n]
  BY <1>1
<1> HIDE DEF f
<1>7. IsRounds(f, c, n)
  <2>1. \A i \in 1..n : i # 0 /\ i \in 0..n
    BY <1>0
  <2>2. 0 \in 0..n
    BY <1>0
  <2>3. \A i \in 0..n : f[i] = IF i = 0 THEN c ELSE EvictLast(f[i - 1])
    BY <1>5, Zenon
  <2> QED BY <2>1, <2>2, <2>3, Zenon DEF IsRounds
<1> QED BY <1>6, <1>7 DEF n

\* The keys that flush evicts one after the other.
IsFlushing(g, c, order) ==
  /\ g[0] = c
  /\ \A i \in 1..Len(order) : g[i] = evict(g[i - 1], order[i])

LEMMA FlushingExists ==
  ASSUME NEW c, NEW S, NEW order \in Seq(S)
  PROVE  \E g : IsFlushing(g, c, order) /\ flush(c, order) = g[Len(order)]
<1> DEFINE n == Len(order)
           Steps(g, m) == /\ g[0] = c
                          /\ \A i \in 1..m : g[i] = evict(g[i - 1], order[i])
           Upto(g, m) == g = [i \in 0..m |-> g[i]] /\ Steps(g, m)
           T == {m \in 0..n : ~ \E g : Upto(g, m)}
           Rec(g) == g = [i \in 0..n |-> IF i = 0 THEN c ELSE evict(g[i - 1], order[i])]
<1>0. n \in Nat
  OBVIOUS
<1>1. flush(c, order) = (CHOOSE g : Rec(g))[n]
  BY DEF flush
<1> HIDE DEF n
<1>2. T = {}
  <2> SUFFICES ASSUME T # {} PROVE FALSE
    OBVIOUS
  <2>1. PICK m \in T : \A k \in T : m <= k
    <3> HIDE DEF Upto
    <3>1. T \in SUBSET Nat
      BY <1>0
    <3> HIDE DEF T
    <3> QED BY <3>1, LeastNatural
  <2>2. m # 0
    <3>1. Upto([i \in 0..0 |-> c], 0)
      OBVIOUS
    <3> QED BY <3>1
  <2>3. m - 1 \in 0..n /\ m - 1 \notin T
    BY <1>0, <2>1, <2>2
  <2>4. PICK g : Upto(g, m - 1)
    BY <2>3
  <2> DEFINE h == [i \in 0..m |-> IF i = m THEN evict(g[m - 1], order[m]) ELSE g[i]]
  <2>5. Upto(h, m)
    <3>1. h = [i \in 0..m |-> h[i]] /\ h[0] = c
      BY <1>0, <2>2, <2>4
    <3>2. ASSUME NEW i \in 1..m PROVE h[i] = evict(h[i - 1], order[i])
      <4>1. i \in 0..m /\ i - 1 \in 0..m /\ i - 1 # m
        BY <1>0
      <4>2. h[i - 1] = g[i - 1]
        BY <4>1
      <4>3. CASE i = m
        BY <4>1, <4>2, <4>3
      <4>4. CASE i # m
        <5>1. i \in 1..(m - 1)
          BY <1>0, <4>4
        <5> QED BY <2>4, <4>1, <4>2, <4>4, <5>1
      <4> QED BY <4>3, <4>4
    <3> HIDE DEF h
    <3> QED BY <3>1, <3>2
  <2> QED BY <2>1, <2>5
<1>3. PICK g : Upto(g, n)
  <2>1. n \in 0..n /\ n \notin T
    BY <1>0, <1>2
  <2> HIDE DEF Upto
  <2> QED BY <2>1, Zenon
<1>4. Rec(g)
  <2>1. \A i \in 0..n : g[i] = IF i = 0 THEN c ELSE evict(g[i - 1], order[i])
    <3>1. \A i \in 0..n : i = 0 \/ i \in 1..n
      BY <1>0
    <3>2. \A i \in 1..n : i # 0
      OBVIOUS
    <3>3. g[0] = c /\ \A i \in 1..n : g[i] = evict(g[i - 1], order[i])
      BY <1>3
    <3> QED BY <3>1, <3>2, <3>3, Zenon
  <2> QED BY <1>3, <2>1
<1> DEFINE f == CHOOSE f : Rec(f)
<1>5. Rec(f)
  BY <1>4
<1>6. flush(c, order) = f[n]
  BY <1>1
<1> HIDE DEF f
<1>7. Steps(f, n)
  <2>1. \A i \in 1..n : i # 0 /\ i \in 0..n
    BY <1>0
  <2>2. 0 \in 0..n
    BY <1>0
  <2>3. \A i \in 0..n : f[i] = IF i = 0 THEN c ELSE evict(f[i - 1], order[i])
    BY <1>5, Zenon
  <2> QED BY <2>1, <2>2, <2>3, Zenon
<1> QED BY <1>6, <1>7, Zenon DEF n, IsFlushing

LEMMA ShedsTransitive ==
  ASSUME NEW b, NEW c, NEW d, Sheds(b, c), Sheds(c, d)
  PROVE  Sheds(b, d)
BY DEF Sheds

LEMMA RoundsInNat ==
  ASSUME NEW K, NEW c, Sound(c, K)
  PROVE  Rounds(c) \in Nat /\ size(c) \in Nat
<1>1. size(c) \in Nat
  BY FS_CardinalityType DEF Sound, size
<1>2. c.max \in Nat
  BY SoundProperties
<1> QED BY <1>1, <1>2 DEF Rounds

LEMMA SoundRounds ==
  ASSUME NEW K, NEW c, Sound(c, K), NEW n \in Nat, NEW g, IsRounds(g, c, n)
  PROVE  \A i \in 0..n : Sound(g[i], K) /\ Sheds(c, g[i])
<1> DEFINE T == {i \in 0..n : ~(Sound(g[i], K) /\ Sheds(c, g[i]))}
<1> SUFFICES ASSUME T # {} PROVE FALSE
  OBVIOUS
<1>1. PICK m \in T : \A k \in T : m <= k
  <2>1. T \in SUBSET Nat
    OBVIOUS
  <2> HIDE DEF T
  <2> QED BY <2>1, LeastNatural
<1>2. m # 0
  BY DEF IsRounds, Sheds
<1>3. m \in 1..n /\ m - 1 \in 0..n /\ m - 1 \notin T
  BY <1>1, <1>2
<1>4. Sound(g[m - 1], K) /\ Sheds(c, g[m - 1])
  BY <1>3
<1>5. g[m] = EvictLast(g[m - 1])
  BY <1>3 DEF IsRounds
<1>6. Sound(g[m], K) /\ Sheds(c, g[m])
  BY <1>4, <1>5, SoundEvictLast, ShedsTransitive
<1> QED BY <1>1, <1>6

LEMMA SoundFlushing ==
  ASSUME NEW K, NEW c, Sound(c, K), NEW S, NEW order \in Seq(S), NEW g,
         IsFlushing(g, c, order)
  PROVE  \A i \in 0..Len(order) : Sound(g[i], K) /\ Sheds(c, g[i])
<1> DEFINE n == Len(order)
           T == {i \in 0..n : ~(Sound(g[i], K) /\ Sheds(c, g[i]))}
<1>0. n \in Nat
  OBVIOUS
<1> SUFFICES ASSUME T # {} PROVE FALSE
  OBVIOUS
<1>a. g[0] = c /\ \A i \in 1..n : g[i] = evict(g[i - 1], order[i])
  BY DEF IsFlushing
<1> HIDE DEF n
<1>1. PICK m \in T : \A k \in T : m <= k
  <2>1. T \in SUBSET Nat
    BY <1>0
  <2> HIDE DEF T
  <2> QED BY <2>1, LeastNatural
<1>2. m # 0
  BY <1>a DEF Sheds
<1>3. m \in 1..n /\ m - 1 \in 0..n /\ m - 1 \notin T
  BY <1>0, <1>1, <1>2
<1>4. Sound(g[m - 1], K) /\ Sheds(c, g[m - 1])
  BY <1>3
<1>5. g[m] = evict(g[m - 1], order[m])
  BY <1>3, <1>a
<1>6. Sound(g[m], K) /\ Sheds(c, g[m])
  BY <1>4, <1>5, SoundEvict, ShedsTransitive
<1> QED BY <1>1, <1>6

LEMMA ResizedLemma ==
  ASSUME NEW K, NEW c, Sound(c, K), NEW max \in Nat
  PROVE  LET d == [c EXCEPT !.max = max] IN
         /\ Sound(d, K) /\ d.max = max
         /\ d.hash = c.hash /\ d.node = c.node /\ d.begin = c.begin
         /\ d.end = c.end /\ d.broken = c.broken
<1> DEFINE d == [c EXCEPT !.max = max]
<1>1. c \in Caches(K, keys(c), DOMAIN c.node)
  BY DEF Sound
<1>2. /\ d \in Caches(K, keys(c), DOMAIN c.node) /\ d.max = max
      /\ d.hash = c.hash /\ d.node = c.node /\ d.begin = c.begin
      /\ d.end = c.end /\ d.broken = c.broken
  BY <1>1 DEF Caches
<1> HIDE DEF d
<1>3. Sound(d, K)
  <2>1. keys(d) = keys(c) /\ \A k \in keys(c) : DataOf(d, k) = DataOf(c, k)
    BY <1>2 DEF keys, DataOf
  <2> QED BY <1>2, <2>1 DEF Sound
<1> QED BY <1>2, <1>3 DEF d

\* d has some of the keys of c, and their data.
Spares(c, d) ==
  /\ keys(d) \subseteq keys(c)
  /\ \A k \in keys(d) : DataOf(d, k) = DataOf(c, k)

LEMMA SoundSetMaxSize ==
  ASSUME NEW K, NEW c, Sound(c, K), NEW max \in Nat
  PROVE  /\ Sound(set_max_size(c, max), K) /\ Spares(c, set_max_size(c, max))
         /\ set_max_size(c, max).max = max
<1> DEFINE b == [c EXCEPT !.max = max]
           n == Rounds(b)
<1>1. /\ Sound(b, K) /\ b.max = max /\ b.hash = c.hash /\ b.node = c.node
  BY ResizedLemma
<1>2. set_max_size(c, max) = evict_to_max(b)
  BY DEF set_max_size
<1> HIDE DEF b
<1>3. n \in Nat
  BY <1>1, RoundsInNat
<1>4. PICK g : IsRounds(g, b, n) /\ evict_to_max(b) = g[n]
  BY <1>3, RoundsExist
<1>5. Sound(g[n], K) /\ Sheds(b, g[n])
  BY <1>1, <1>3, <1>4, SoundRounds
<1>6. Spares(c, g[n]) /\ g[n].max = max
  BY <1>1, <1>5 DEF Sheds, Spares, keys, DataOf
<1> QED BY <1>2, <1>4, <1>5, <1>6

LEMMA SoundFlush ==
  ASSUME NEW K, NEW c, Sound(c, K), NEW S, NEW order \in Seq(S)
  PROVE  /\ Sound(flush(c, order), K) /\ Spares(c, flush(c, order))
         /\ flush(c, order).max = c.max
<1>1. PICK g : IsFlushing(g, c, order) /\ flush(c, order) = g[Len(order)]
  BY FlushingExists
<1>2. Len(order) \in 0..Len(order)
  OBVIOUS
<1>3. Sound(g[Len(order)], K) /\ Sheds(c, g[Len(order)])
  BY <1>1, <1>2, SoundFlushing
<1> QED BY <1>1, <1>3 DEF Sheds, Spares

-----------------------------------------------------------------------------
(* What the cache owns                                                     *)

Used == {Re(u) : u \in uses}

Inv ==
  /\ simulation \in Simulations
  /\ Sound(cache, Used)
  /\ live \subseteq Handles
  /\ DOMAIN compiled = Handles
  /\ answer # <<>> => answer[1].retval \in {0, REG_NOMATCH}
  /\ CacheOwnsHandles

LEMMA InvTypeOK == Inv => TypeOK
<1> SUFFICES ASSUME Inv PROVE TypeOK
  OBVIOUS
<1>1. Sound(cache, Used)
  BY DEF Inv
<1>2. /\ cache.hash \in [keys(cache) -> DOMAIN cache.node]
      /\ {cache.begin, cache.end} \subseteq DOMAIN cache.node \cup {None}
      /\ cache.max \in Nat
  BY <1>1, SoundProperties
<1>3. \A k \in keys(cache) :
        cache.hash[k] \in DOMAIN cache.node /\ DataOf(cache, k) \in Handles
  BY <1>1, <1>2 DEF Sound
<1> QED BY <1>2, <1>3 DEF Inv, TypeOK

LEMMA RegexecAnswers ==
  \A expression, str : regexec(expression, str) \in {0, REG_NOMATCH}
BY DEF regexec

LEMMA InitInv == Init => Inv
<1> SUFFICES ASSUME Init PROVE Inv
  OBVIOUS
<1>1. Sound(cache, Used) /\ keys(cache) = {}
  BY NewLemma DEF Init
<1>2. CacheOwnsHandles
  BY <1>1 DEF Init, CacheOwnsHandles
<1> QED BY <1>1, <1>2 DEF Init, Inv

LEMMA UncachedInv ==
  ASSUME Inv, NEW u \in uses, NEW str, uvm_re_match(u, str)
  PROVE  Inv'
<1>1. UNCHANGED <<live, compiled, simulation, cache>>
  BY DEF uvm_re_match, uvm_re_compexecfree
<1>2. PICK retval \in {0, REG_NOMATCH}, success \in BOOLEAN :
        Answer(u, str, retval, ~success)
  BY DEF uvm_re_match
<1>3. answer'[1].retval = retval
  BY <1>2 DEF Answer
<1>4. answer'[1].retval \in {0, REG_NOMATCH}
  BY <1>3
<1>5. uses' = uses /\ Used' = Used
  BY <1>1 DEF uses, Used, Re
<1>6. CacheOwnsHandles'
  BY <1>1, <1>5 DEF Inv, CacheOwnsHandles
<1>7. REG_NOMATCH' = REG_NOMATCH
  BY DEF REG_NOMATCH
<1> QED BY <1>1, <1>4, <1>5, <1>6, <1>7 DEF Inv

\* A cache with the same keys and data owns the same.
LEMMA SameOwned ==
  ASSUME Inv, UNCHANGED <<live, compiled, simulation>>, Sound(cache', Used),
         cache'.hash = cache.hash,
         \A k \in keys(cache) : DataOf(cache, k)' = DataOf(cache, k),
         answer' # <<>> => answer'[1].retval \in {0, REG_NOMATCH}
  PROVE  Inv'
<1>1. uses' = uses /\ Used' = Used /\ keys(cache)' = keys(cache)
  BY DEF uses, Used, Re, keys
<1>2. \A k \in keys(cache) : DataOf(cache', k) = DataOf(cache, k)
  BY DEF DataOf
<1>3. CacheOwnsHandles'
  BY <1>1, <1>2 DEF Inv, CacheOwnsHandles
<1>4. REG_NOMATCH' = REG_NOMATCH
  BY DEF REG_NOMATCH
<1> QED BY <1>1, <1>3, <1>4 DEF Inv

LEMMA HitInv ==
  ASSUME Inv, NEW u \in uses, NEW str, uvm_re_match_hit(u, str)
  PROVE  Inv'
<1> DEFINE k == Re(u)
           n == cache.hash[k]
           d == m_update(cache, n)
<1>1. /\ k \in keys(cache) /\ cache' = Collected(d)
      /\ UNCHANGED <<live, compiled, simulation>>
  BY DEF uvm_re_match_hit, exists, get, dpiVars
<1>2. Sound(cache, Used) /\ n \in DOMAIN cache.node
  BY <1>1, SoundProperties DEF Inv
<1> HIDE DEF n
<1>3. Sound(d, Used) /\ SameKeys(cache, d)
  BY <1>2, SoundUpdate
<1> HIDE DEF d
<1>4. Sound(cache', Used) /\ Collects(d, cache')
  BY <1>1, <1>3, CollectedLemma
<1>5. cache'.hash = cache.hash
  BY <1>3, <1>4 DEF SameKeys, Collects
<1>6. \A j \in keys(cache) : DataOf(cache, j)' = DataOf(cache, j)
  <2> TAKE j \in keys(cache)
  <2>1. cache.hash[j] \in DOMAIN cache.node /\ cache'.hash[j] = cache.hash[j]
    BY <1>2, <1>5, SoundProperties
  <2>2. cache'.hash[j] \in DOMAIN cache'.node
    BY <1>4, <1>5, SoundProperties DEF keys
  <2> QED BY <1>3, <1>4, <2>1, <2>2 DEF SameKeys, Collects, DataOf
<1>7. answer'[1].retval \in {0, REG_NOMATCH}
  <2>1. PICK x : x \in {0, REG_NOMATCH} /\ Answer(u, str, x, FALSE)
    BY RegexecAnswers DEF uvm_re_match_hit, uvm_re_exec
  <2> QED BY <2>1 DEF Answer
<1> QED BY <1>1, <1>4, <1>5, <1>6, <1>7, SameOwned

LEMMA MissInv ==
  ASSUME Inv, NEW u \in uses, NEW str, uvm_re_match_miss(u, str)
  PROVE  Inv'
<1> DEFINE k == Re(u)
           n == FreshNode(cache)
<1>1. /\ k \notin keys(cache) /\ DOMAIN cache.node # Nodes /\ caching
      /\ UNCHANGED simulation
  BY DEF uvm_re_match_miss, exists
<1>2. PICK rexp \in Handles \cup {Null}, retval \in {0, REG_NOMATCH} :
        /\ uvm_re_compexec(k, str, Deglob(u), rexp, retval)
        /\ cache' = Stored(k, rexp)
        /\ Answer(u, str, retval, rexp = Null)
  BY DEF uvm_re_match_miss
<1>3. answer'[1].retval \in {0, REG_NOMATCH}
  BY <1>2 DEF Answer
<1>4. uvm_re_comp(k, Deglob(u), rexp)
  BY <1>2 DEF uvm_re_compexec
<1>5. CASE rexp = Null
  <2>1. UNCHANGED <<live, compiled, cache>>
    BY <1>2, <1>4, <1>5, HandlesAssumption DEF uvm_re_comp, Stored
  <2>2. \A j \in keys(cache) : DataOf(cache, j)' = DataOf(cache, j)
    BY <2>1 DEF DataOf
  <2> QED BY <1>1, <1>3, <2>1, <2>2, SameOwned DEF Inv
<1>6. CASE rexp # Null
  <2> DEFINE d == put(cache, k, rexp)
  <2>1. /\ rexp \in Handles \ live /\ live' = live \cup {rexp}
        /\ compiled' = [compiled EXCEPT ![rexp] = Expression(k, Deglob(u))]
        /\ cache' = Collected(d)
    BY <1>2, <1>4, <1>6 DEF uvm_re_comp, Stored
  <2>2. Sound(cache, Used) /\ k \in Used
    BY DEF Inv, Used
  <2>3. Sound(d, Used) /\ Added(cache, d, n, k, rexp) /\ n \in Nodes \ DOMAIN cache.node
    <3>1. Sound(d, Used) /\ Added(cache, d, n, k, rexp)
      BY <1>1, <2>1, <2>2, SoundPut
    <3>2. DOMAIN cache.node \subseteq Nodes
      BY <2>2 DEF Sound
    <3> QED BY <1>1, <3>1, <3>2 DEF FreshNode
  <2> HIDE DEF d, n
  <2>4. Sound(cache', Used) /\ Collects(d, cache')
    BY <2>1, <2>3, CollectedLemma
  <2>5. keys(cache') = keys(cache) \cup {k}
    BY <2>3, <2>4 DEF Added, Collects, keys
  <2>6. \A j \in keys(cache') : DataOf(cache', j) = IF j = k THEN rexp ELSE DataOf(cache, j)
    <3> TAKE j \in keys(cache')
    <3>1. /\ cache'.hash[j] \in DOMAIN cache'.node
          /\ cache'.node[cache'.hash[j]] = d.node[d.hash[j]] /\ d.hash = cache'.hash
      BY <2>4, SoundProperties DEF Collects
    <3>2. CASE j = k
      BY <2>3, <3>1, <3>2 DEF Added, DataOf
    <3>3. CASE j # k
      <4>1. j \in keys(cache) /\ cache.hash[j] \in DOMAIN cache.node
        BY <2>2, <2>5, <3>3, SoundProperties
      <4>2. d.hash[j] = cache.hash[j] /\ d.node[cache.hash[j]].data = cache.node[cache.hash[j]].data
        BY <2>3, <3>3, <4>1 DEF Added
      <4> QED BY <3>1, <3>3, <4>2 DEF DataOf
    <3> QED BY <3>2, <3>3
  <2>7. uses' = uses /\ Used' = Used
    BY <1>1 DEF uses, Used, Re
  <2>8. /\ live = {DataOf(cache, j) : j \in keys(cache)}
        /\ \A i, j \in keys(cache) : DataOf(cache, i) = DataOf(cache, j) => i = j
        /\ \A j \in keys(cache) : \E w \in uses :
             Re(w) = j /\ compiled[DataOf(cache, j)] = Expression(j, Deglob(w))
    BY DEF Inv, CacheOwnsHandles
  <2>9. live' = {DataOf(cache', j) : j \in keys(cache')}
    BY <1>1, <2>1, <2>5, <2>6, <2>8
  <2>10. \A i, j \in keys(cache') : DataOf(cache', i) = DataOf(cache', j) => i = j
    BY <2>1, <2>5, <2>6, <2>8
  <2>11. ASSUME NEW j \in keys(cache')
         PROVE  \E w \in uses :
                  Re(w) = j /\ compiled'[DataOf(cache', j)] = Expression(j, Deglob(w))
    <3>1. DOMAIN compiled = Handles
      BY DEF Inv
    <3>2. CASE j = k
      <4>1. compiled'[rexp] = Expression(k, Deglob(u))
        BY <2>1, <3>1
      <4> QED BY <2>6, <3>2, <4>1
    <3>3. CASE j # k
      <4>1. j \in keys(cache) /\ DataOf(cache', j) = DataOf(cache, j)
        BY <2>5, <2>6, <3>3
      <4>2. DataOf(cache, j) \in live /\ DataOf(cache, j) # rexp
        BY <2>1, <2>8, <4>1
      <4>3. compiled'[DataOf(cache, j)] = compiled[DataOf(cache, j)]
        BY <2>1, <3>1, <4>2
      <4> QED BY <2>8, <4>1, <4>3
    <3> QED BY <3>2, <3>3
  <2>12. CacheOwnsHandles'
    <3>1. \A j \in keys(cache') : \E w \in uses :
            Re(w) = j /\ compiled'[DataOf(cache', j)] = Expression(j, Deglob(w))
      BY <2>11
    <3> QED BY <2>7, <2>9, <2>10, <3>1 DEF CacheOwnsHandles
  <2>13. live' \subseteq Handles /\ DOMAIN compiled' = Handles
    BY <2>1 DEF Inv
  <2>14. REG_NOMATCH' = REG_NOMATCH
    BY DEF REG_NOMATCH
  <2> QED BY <1>1, <1>3, <2>4, <2>7, <2>12, <2>13, <2>14 DEF Inv
<1> QED BY <1>5, <1>6

LEMMA EvictingInv ==
  ASSUME Inv, NEW c, Sound(c, Used), Spares(cache, c), Evicting(c)
  PROVE  Inv'
<1>1. /\ cache' = Collected(c) /\ answer' = <<>> /\ UNCHANGED simulation
      /\ uvm_re_free({DataOf(cache, k) : k \in keys(cache) \ keys(c)})
  BY DEF Evicting
<1>2. Sound(cache', Used) /\ Collects(c, cache')
  BY <1>1, CollectedLemma
<1>3. keys(cache') = keys(c) /\ \A k \in keys(c) : DataOf(cache', k) = DataOf(cache, k)
  <2>1. keys(cache') = keys(c) /\ cache'.hash = c.hash
    BY <1>2 DEF Collects, keys
  <2>2. \A k \in keys(c) : cache'.hash[k] \in DOMAIN cache'.node
    BY <1>2, <2>1, SoundProperties
  <2> QED BY <1>2, <2>1, <2>2 DEF Collects, Spares, DataOf
<1>4. keys(c) \subseteq keys(cache)
  BY DEF Spares
<1> DEFINE gone == {DataOf(cache, k) : k \in keys(cache) \ keys(c)}
<1>5. live' = live \ gone /\ compiled' = [h \in Handles |-> IF h \in gone THEN <<>> ELSE compiled[h]]
  BY <1>1 DEF uvm_re_free
<1>6. /\ live = {DataOf(cache, j) : j \in keys(cache)}
      /\ \A i, j \in keys(cache) : DataOf(cache, i) = DataOf(cache, j) => i = j
      /\ \A j \in keys(cache) : \E w \in uses :
           Re(w) = j /\ compiled[DataOf(cache, j)] = Expression(j, Deglob(w))
      /\ live \subseteq Handles
  BY DEF Inv, CacheOwnsHandles
<1>7. \A k \in keys(c) : DataOf(cache, k) \notin gone
  BY <1>4, <1>6
<1>8. live' = {DataOf(cache', j) : j \in keys(cache')}
  <2>1. live' = {DataOf(cache, j) : j \in keys(c)}
    BY <1>4, <1>5, <1>6, <1>7
  <2> HIDE DEF gone
  <2> QED BY <1>3, <2>1
<1> HIDE DEF gone
<1>9. \A i, j \in keys(cache') : DataOf(cache', i) = DataOf(cache', j) => i = j
  BY <1>3, <1>4, <1>6
<1>10. uses' = uses /\ Used' = Used
  BY <1>1 DEF uses, Used, Re
<1>11. \A j \in keys(cache') : \E w \in uses :
         Re(w) = j /\ compiled'[DataOf(cache', j)] = Expression(j, Deglob(w))
  <2> TAKE j \in keys(cache')
  <2>1. /\ j \in keys(cache) /\ DataOf(cache', j) = DataOf(cache, j)
        /\ DataOf(cache, j) \notin gone /\ DataOf(cache, j) \in Handles
    BY <1>3, <1>4, <1>6, <1>7
  <2> QED BY <1>5, <1>6, <2>1
<1>12. CacheOwnsHandles'
  BY <1>8, <1>9, <1>10, <1>11 DEF CacheOwnsHandles
<1>13. live' \subseteq Handles /\ DOMAIN compiled' = Handles
  BY <1>5, <1>6
<1> QED BY <1>1, <1>2, <1>10, <1>12, <1>13 DEF Inv

LEMMA NextInv == Inv /\ [Next]_vars => Inv'
<1> SUFFICES ASSUME Inv, [Next]_vars PROVE Inv'
  OBVIOUS
<1>0. Sound(cache, Used)
  BY DEF Inv
<1>1. ASSUME NEW u \in uses, NEW str, uvm_re_match(u, str) PROVE Inv'
  BY <1>1, UncachedInv
<1>2. ASSUME NEW u \in uses, NEW str, uvm_re_match_hit(u, str) PROVE Inv'
  BY <1>2, HitInv
<1>3. ASSUME NEW u \in uses, NEW str, uvm_re_match_miss(u, str) PROVE Inv'
  BY <1>3, MissInv
<1>4. CASE Evict
  <2>1. PICK k \in keys(cache) : Evicting(evict(cache, k))
    BY <1>4 DEF Evict
  <2>2. Sound(evict(cache, k), Used) /\ Sheds(cache, evict(cache, k))
    BY <1>0, SoundEvict
  <2>3. Spares(cache, evict(cache, k))
    BY <2>2 DEF Sheds, Spares
  <2> QED BY <2>1, <2>2, <2>3, EvictingInv
<1>5. CASE SetMaxSize
  <2>1. PICK max \in Sizes : Evicting(set_max_size(cache, max))
    BY <1>5 DEF SetMaxSize
  <2>2. max \in Nat
    BY RegexAssumption
  <2> QED BY <1>0, <2>1, <2>2, SoundSetMaxSize, EvictingInv
<1>6. CASE Flush
  <2>1. PICK order \in SetToSeqs(keys(cache)) : Evicting(flush(cache, order))
    BY <1>6 DEF Flush
  <2>2. order \in Seq(keys(cache))
    <3>1. Cardinality(keys(cache)) \in Nat
      BY <1>0, FS_CardinalityType DEF Sound
    <3> QED BY <3>1 DEF SetToSeqs
  <2> QED BY <1>0, <2>1, <2>2, SoundFlush, EvictingInv
<1>7. CASE UNCHANGED vars
  <2>1. UNCHANGED <<live, compiled, simulation, cache, answer>>
    BY <1>7 DEF vars, dpiVars
  <2>2. \A j \in keys(cache) : DataOf(cache, j)' = DataOf(cache, j)
    BY <2>1 DEF DataOf
  <2>3. answer' # <<>> => answer'[1].retval \in {0, REG_NOMATCH}
    BY <2>1 DEF Inv
  <2> QED BY <1>0, <2>1, <2>2, <2>3, SameOwned
<1> QED BY <1>1, <1>2, <1>3, <1>4, <1>5, <1>6, <1>7 DEF Next

LEMMA InvHolds == Spec => []Inv
<1>1. Init => Inv
  BY InitInv
<1>2. Inv /\ [Next]_vars => Inv'
  BY NextInv
<1> QED BY <1>1, <1>2, PTL DEF Spec

\* The cache of compiled expressions stays a hash of existing nodes with
\* handles, and its ends are nodes or null, however keys were matched, evicted,
\* limited and flushed.
THEOREM CacheTypeCorrect == Spec => []TypeOK
BY InvHolds, InvTypeOK, PTL

\* The handles that are allocated are those in the cache, one for each key and
\* compiled from it, for every set of uses, handles and sizes.
THEOREM HandlesAreOwned == Spec => []CacheOwnsHandles
<1>1. Inv => CacheOwnsHandles
  BY DEF Inv
<1> QED BY <1>1, InvHolds, PTL

-----------------------------------------------------------------------------
(* What the cache answers                                                  *)

\* What a call answers without a cache.
Uncached(u, str, reported) ==
  IF reported THEN REG_NOMATCH ELSE regexec(Expression(Re(u), Deglob(u)), str)

\* One answer says it all.
LEMMA OneAnswer ==
  ASSUME NEW u, NEW str, NEW retval, NEW reported, Answer(u, str, retval, reported),
         UNCHANGED simulation, Unmixed(u) => retval = Uncached(u, str, reported)
  PROVE  CacheIsTransparent'
<1>1. answer' = <<[use |-> u, str |-> str, retval |-> retval, reported |-> reported]>>
  BY DEF Answer
<1>2. DOMAIN answer' = {1}
  BY <1>1
<1>3. /\ answer'[1].use = u /\ answer'[1].str = str
      /\ answer'[1].retval = retval /\ answer'[1].reported = reported
  BY <1>1
<1>4. Unmixed(u)' <=> Unmixed(u)
  BY DEF Unmixed, uses, caching, Re, Deglob, Expression
<1> HIDE DEF REG_NOMATCH
<1> QED BY <1>2, <1>3, <1>4
        DEF CacheIsTransparent, AnswersAfresh, Uncached, Re, Deglob, REG_NOMATCH

LEMMA UncachedTransparent ==
  ASSUME NEW u, NEW str, uvm_re_match(u, str)
  PROVE  CacheIsTransparent'
<1>1. PICK retval \in {0, REG_NOMATCH}, success \in BOOLEAN :
        /\ uvm_re_compexecfree(Re(u), str, Deglob(u), retval, success)
        /\ Answer(u, str, retval, ~success)
  BY DEF uvm_re_match
<1>2. retval = Uncached(u, str, ~success)
  BY <1>1 DEF uvm_re_compexecfree, Uncached
<1>3. UNCHANGED simulation
  BY DEF uvm_re_match
<1> QED BY <1>1, <1>2, <1>3, OneAnswer

\* A hit executes what was compiled for the key when it was missed.
LEMMA HitTransparent ==
  ASSUME Inv, NEW u \in uses, NEW str, uvm_re_match_hit(u, str)
  PROVE  CacheIsTransparent'
<1>1. Re(u) \in keys(cache) /\ caching /\ UNCHANGED simulation
  BY DEF uvm_re_match_hit, exists
<1>2. PICK w \in uses :
        /\ Re(w) = Re(u)
        /\ compiled[DataOf(cache, Re(u))] = Expression(Re(u), Deglob(w))
  BY <1>1 DEF Inv, CacheOwnsHandles
<1>3. Answer(u, str, uvm_re_exec(DataOf(cache, Re(u)), str), FALSE)
  BY DEF uvm_re_match_hit
<1>4. ASSUME Unmixed(u)
      PROVE  uvm_re_exec(DataOf(cache, Re(u)), str) = Uncached(u, str, FALSE)
  <2>1. Expression(Re(w), Deglob(w)) = Expression(Re(u), Deglob(u))
    BY <1>1, <1>2, <1>4 DEF Unmixed
  <2>2. compiled[DataOf(cache, Re(u))] = Expression(Re(u), Deglob(u))
    BY <1>2, <2>1
  <2> QED BY <2>2 DEF uvm_re_exec, Uncached
<1> QED BY <1>1, <1>3, <1>4, OneAnswer

LEMMA MissTransparent ==
  ASSUME Inv, NEW u \in uses, NEW str, uvm_re_match_miss(u, str)
  PROVE  CacheIsTransparent'
<1>1. PICK rexp \in Handles \cup {Null}, retval \in {0, REG_NOMATCH} :
        /\ uvm_re_compexec(Re(u), str, Deglob(u), rexp, retval)
        /\ Answer(u, str, retval, rexp = Null)
  BY DEF uvm_re_match_miss
<1>2. retval = IF rexp = Null THEN REG_NOMATCH ELSE regexec(compiled'[rexp], str)
  BY <1>1 DEF uvm_re_compexec
<1>3. ASSUME rexp # Null
      PROVE  compiled'[rexp] = Expression(Re(u), Deglob(u))
  <2>1. /\ rexp \in Handles
        /\ compiled' = [compiled EXCEPT ![rexp] = Expression(Re(u), Deglob(u))]
    BY <1>1, <1>3 DEF uvm_re_compexec, uvm_re_comp
  <2>2. DOMAIN compiled = Handles
    BY DEF Inv
  <2> QED BY <2>1, <2>2
<1>4. retval = Uncached(u, str, rexp = Null)
  BY <1>2, <1>3 DEF Uncached
<1>5. UNCHANGED simulation
  BY DEF uvm_re_match_miss
<1> QED BY <1>1, <1>4, <1>5, OneAnswer

\* For a use whose text nobody uses in another way, no answer depends on what
\* was matched, evicted or flushed before it: a hit gives the answer that
\* compiling afresh would give.
THEOREM AnswersAreUncached == Spec => []CacheIsTransparent
<1>1. Init => CacheIsTransparent
  BY DEF Init, CacheIsTransparent
<1>2. Inv /\ CacheIsTransparent /\ [Next]_vars => CacheIsTransparent'
  <2> SUFFICES ASSUME Inv, CacheIsTransparent, [Next]_vars
               PROVE  CacheIsTransparent'
    OBVIOUS
  <2>1. ASSUME NEW c, Evicting(c)
        PROVE  CacheIsTransparent'
    BY <2>1 DEF Evicting, CacheIsTransparent
  <2>2. ASSUME NEW u \in uses, NEW str, uvm_re_match(u, str)
        PROVE  CacheIsTransparent'
    BY <2>2, UncachedTransparent
  <2>3. ASSUME NEW u \in uses, NEW str, uvm_re_match_hit(u, str)
        PROVE  CacheIsTransparent'
    BY <2>3, HitTransparent
  <2>4. ASSUME NEW u \in uses, NEW str, uvm_re_match_miss(u, str)
        PROVE  CacheIsTransparent'
    BY <2>4, MissTransparent
  <2>5. CASE UNCHANGED vars
    <3>1. UNCHANGED <<answer, simulation>>
      BY <2>5 DEF vars
    <3>2. \A u : Unmixed(u)' <=> Unmixed(u)
      BY <3>1 DEF Unmixed, uses, caching, Re, Deglob, Expression
    <3>3. \A a : AnswersAfresh(a)' <=> AnswersAfresh(a)
      BY DEF AnswersAfresh, Re, Deglob, REG_NOMATCH
    <3> QED BY <3>1, <3>2, <3>3 DEF CacheIsTransparent
  <2> QED BY <2>1, <2>2, <2>3, <2>4, <2>5 DEF Next, Evict, SetMaxSize, Flush
<1> QED BY <1>1, <1>2, InvHolds, PTL DEF Spec

-----------------------------------------------------------------------------
(* The order of the nodes                                                  *)

\* The m nodes of the cache, each once, linked from the first one on and back
\* from the last one.
IsOrder(c, s, m) ==
  /\ m \in Nat /\ s \in [1..m -> DOMAIN c.node]
  /\ \A i, j \in 1..m : s[i] = s[j] => i = j
  /\ \A i \in 1..m : \E k \in keys(c) : s[i] = c.hash[k]
  /\ \A k \in keys(c) : \E i \in 1..m : s[i] = c.hash[k]

Forth(c, s, m) ==
  /\ IsOrder(c, s, m)
  /\ c.begin = IF m = 0 THEN None ELSE s[1]
  /\ \A i \in 1..m : c.node[s[i]].next = IF i = m THEN None ELSE s[i + 1]

Back(c, s, m) ==
  /\ c.end = IF m = 0 THEN None ELSE s[m]
  /\ \A i \in 1..m : c.node[s[i]].prev = IF i = 1 THEN None ELSE s[i - 1]

LEMMA ListLemma ==
  ASSUME NEW S, NEW m \in Nat, NEW s \in [1..m -> S]
  PROVE  /\ s \in Seq(S) /\ Len(s) = m /\ DOMAIN s = 1..m
         /\ s = <<>> <=> m = 0
<1>1. s \in Seq(S) /\ Len(s) = m /\ DOMAIN s = 1..m
  OBVIOUS
<1>2. s = <<>> => m = 0
  BY <1>1
<1>3. m = 0 => s = <<>>
  BY <1>1
<1> QED BY <1>1, <1>2, <1>3

\* There are as many nodes as keys.
LEMMA LinkedLemma ==
  ASSUME NEW K, NEW c, Sound(c, K)
  PROVE  LET linked == {c.hash[k] : k \in keys(c)} IN
         /\ IsFiniteSet(linked) /\ Cardinality(linked) = size(c)
         /\ linked \subseteq DOMAIN c.node
<1> DEFINE linked == {c.hash[k] : k \in keys(c)}
<1>1. /\ c.hash \in [keys(c) -> DOMAIN c.node]
      /\ \A j, k \in keys(c) : c.hash[j] = c.hash[k] => j = k
  BY SoundProperties
<1>2. c.hash \in Bijection(keys(c), linked)
  <2>1. c.hash \in [keys(c) -> linked]
    BY <1>1
  <2>2. \A x \in linked : \E k \in keys(c) : c.hash[k] = x
    OBVIOUS
  <2> QED BY <1>1, <2>1, <2>2 DEF Bijection, Injection, Surjection, IsInjective
<1>3. linked \subseteq DOMAIN c.node
  BY <1>1
<1> HIDE DEF linked
<1>4. ExistsBijection(keys(c), linked)
  BY <1>2 DEF ExistsBijection
<1>5. IsFiniteSet(keys(c))
  BY DEF Sound
<1>6. IsFiniteSet(linked) /\ Cardinality(linked) = Cardinality(keys(c))
  BY <1>4, <1>5, FS_Bijection
<1> QED BY <1>3, <1>6 DEF size, linked

LEMMA OrderSize ==
  ASSUME NEW K, NEW c, Sound(c, K), NEW s, NEW m, IsOrder(c, s, m)
  PROVE  /\ m = size(c)
         /\ s \in SetToSeqs({c.hash[k] : k \in keys(c)})
<1> DEFINE linked == {c.hash[k] : k \in keys(c)}
<1>1. m \in Nat /\ s \in [1..m -> linked]
  BY DEF IsOrder
<1>2. s \in Bijection(1..m, linked)
  <2>1. \A x \in linked : \E i \in 1..m : s[i] = x
    BY DEF IsOrder
  <2>2. \A i, j \in 1..m : s[i] = s[j] => i = j
    BY DEF IsOrder
  <2> HIDE DEF linked
  <2> QED BY <1>1, <2>1, <2>2 DEF Bijection, Injection, Surjection, IsInjective
<1>3. Cardinality(linked) = size(c)
  BY LinkedLemma
<1> HIDE DEF linked
<1>4. Cardinality(linked) = m
  BY <1>1, <1>2, FS_CountingElements DEF ExistsBijection
<1>5. \A i, j \in 1..m : i # j => s[i] # s[j]
  BY DEF IsOrder
<1>6. s \in SetToSeqs(linked)
  BY <1>1, <1>4, <1>5 DEF SetToSeqs
<1> QED BY <1>3, <1>4, <1>6 DEF linked

LEMMA SequenceIsOrder ==
  ASSUME NEW K, NEW c, Sound(c, K), NEW s \in SetToSeqs({c.hash[k] : k \in keys(c)})
  PROVE  IsOrder(c, s, size(c))
<1> DEFINE linked == {c.hash[k] : k \in keys(c)}
           m == size(c)
<1>1. IsFiniteSet(linked) /\ Cardinality(linked) = m /\ linked \subseteq DOMAIN c.node
  BY LinkedLemma
<1>2. m \in Nat
  BY RoundsInNat
<1>3. s \in SetToSeqs(linked)
  OBVIOUS
<1>4. \A x \in linked : \E k \in keys(c) : x = c.hash[k]
  OBVIOUS
<1>5. \A k \in keys(c) : c.hash[k] \in linked
  OBVIOUS
<1> HIDE DEF linked, m
<1>6. s \in [1..m -> linked] /\ \A i, j \in 1..m : s[i] = s[j] => i = j
  BY <1>1, <1>3 DEF SetToSeqs
<1>7. s \in Injection(1..m, linked)
  BY <1>6 DEF Injection, IsInjective
<1>8. IsFiniteSet(1..m) /\ Cardinality(1..m) = m
  BY <1>2, FS_Interval
<1>9. s \in Surjection(1..m, linked)
  BY <1>1, <1>7, <1>8, FS_Injection
<1>10. \A x \in linked : \E i \in 1..m : s[i] = x
  BY <1>9 DEF Surjection
<1>11. IsOrder(c, s, m)
  BY <1>1, <1>2, <1>4, <1>5, <1>6, <1>10 DEF IsOrder
<1> QED BY <1>11 DEF m

LEMMA LeadsIsForth ==
  ASSUME NEW K, NEW c, Sound(c, K), NEW s
  PROVE  /\ Leads(c, s) <=> Forth(c, s, size(c))
         /\ Leads(c, s) => (LeadsBack(c, s) <=> Back(c, s, size(c)))
<1> DEFINE m == size(c)
<1>1. ASSUME IsOrder(c, s, m)
      PROVE  Len(s) = m /\ DOMAIN s = 1..m /\ (s = <<>> <=> m = 0)
    BY <1>1, ListLemma DEF IsOrder
<1>2. Leads(c, s) => IsOrder(c, s, m)
  BY SequenceIsOrder DEF Leads
<1>3. Forth(c, s, m) => IsOrder(c, s, m)
  BY DEF Forth
<1> HIDE DEF m
<1>4. Leads(c, s) => Forth(c, s, m)
  BY <1>1, <1>2 DEF Leads, Forth
<1>5. Forth(c, s, m) => Leads(c, s)
  <2> SUFFICES ASSUME Forth(c, s, m) PROVE Leads(c, s)
    OBVIOUS
  <2>1. s \in SetToSeqs({c.hash[k] : k \in keys(c)})
    BY <1>3, OrderSize
  <2> QED BY <1>1, <1>3, <2>1 DEF Leads, Forth
<1>6. ASSUME IsOrder(c, s, m) PROVE LeadsBack(c, s) <=> Back(c, s, m)
  BY <1>1, <1>6 DEF LeadsBack, Back
<1> QED BY <1>2, <1>4, <1>5, <1>6 DEF m

\* There is at most one order.
LEMMA OrderIsUnique ==
  ASSUME NEW c, NEW m, NEW s, NEW t, Forth(c, s, m), Forth(c, t, m)
  PROVE  s = t
<1> DEFINE T == {i \in 1..m : s[i] # t[i]}
<1>1. m \in Nat /\ s = [i \in 1..m |-> s[i]] /\ t = [i \in 1..m |-> t[i]]
  BY DEF Forth, IsOrder
<1>2. T = {}
  <2> SUFFICES ASSUME T # {} PROVE FALSE
    OBVIOUS
  <2>1. PICK i \in T : \A j \in T : i <= j
    <3>1. T \in SUBSET Nat
      BY <1>1
    <3> HIDE DEF T
    <3> QED BY <3>1, LeastNatural
  <2>2. i # 1
    BY <1>1, <2>1 DEF Forth
  <2>3. i - 1 \in 1..m /\ i - 1 # m /\ (i - 1) + 1 = i /\ i - 1 \notin T
    BY <1>1, <2>1, <2>2
  <2>4. s[i] = c.node[s[i - 1]].next /\ t[i] = c.node[t[i - 1]].next
    BY <2>3 DEF Forth
  <2> QED BY <2>1, <2>3, <2>4
<1> QED BY <1>1, <1>2

\* What the refinement mapping says of a cache whose order is known.
KeysOf(c, s, m) == [i \in 1..m |-> c.node[s[i]].key]

LEMMA RecentKeysLemma ==
  ASSUME NEW K, NEW c, Sound(c, K), NEW s, NEW m, Forth(c, s, m)
  PROVE  /\ m = size(c)
         /\ RecentKeys(c) = KeysOf(c, s, m)
         /\ WellLinked(c) <=> Back(c, s, m)
<1>1. m = size(c)
  BY OrderSize DEF Forth
<1>2. Leads(c, s)
  BY <1>1, LeadsIsForth
<1>3. \A t : t \in Orders(c) <=> t = s
  <2>1. \A t \in Orders(c) : t = s
    <3> TAKE t \in Orders(c)
    <3>1. Leads(c, t)
      BY DEF Orders
    <3> QED BY <1>1, <3>1, LeadsIsForth, OrderIsUnique
  <2>2. s \in Orders(c)
    BY <1>2 DEF Orders, Leads
  <2> QED BY <2>1, <2>2
<1>4. DOMAIN s = 1..m
  BY DEF Forth, IsOrder
<1>5. RecentKeys(c) = KeysOf(c, s, m)
  <2>1. (CHOOSE order \in Orders(c) : TRUE) = s
    BY <1>3
  <2>2. Orders(c) # {}
    BY <1>3
  <2> QED BY <1>4, <2>1, <2>2 DEF RecentKeys, KeysOf
<1>6. WellLinked(c) <=> LeadsBack(c, s)
  BY <1>3 DEF WellLinked
<1> QED BY <1>1, <1>2, <1>5, <1>6, LeadsIsForth

LEMMA WellLinkedOrder ==
  ASSUME NEW K, NEW c, Sound(c, K), WellLinked(c)
  PROVE  \E s : Forth(c, s, size(c)) /\ Back(c, s, size(c))
BY LeadsIsForth DEF WellLinked, Orders

-----------------------------------------------------------------------------
(* What the operations do to the order                                     *)

LEMMA CollectedOrder ==
  ASSUME NEW K, NEW c, NEW d, Sound(c, K), Sound(d, K), Collects(c, d),
         NEW s, NEW m, Forth(c, s, m)
  PROVE  /\ Forth(d, s, m) /\ (Back(c, s, m) => Back(d, s, m))
         /\ KeysOf(d, s, m) = KeysOf(c, s, m)
<1>1. keys(d) = keys(c) /\ d.hash = c.hash
  BY DEF Collects, keys
<1>2. \A i \in 1..m : s[i] \in DOMAIN d.node
  <2> TAKE i \in 1..m
  <2>1. PICK k \in keys(c) : s[i] = c.hash[k]
    BY DEF Forth, IsOrder
  <2> QED BY <1>1, <2>1, SoundProperties
<1>3. \A i \in 1..m : d.node[s[i]] = c.node[s[i]]
  BY <1>2 DEF Collects
<1>4. IsOrder(d, s, m)
  <2>1. s \in [1..m -> DOMAIN d.node]
    BY <1>2 DEF Forth, IsOrder
  <2> QED BY <1>1, <2>1 DEF Forth, IsOrder
<1>5. Forth(d, s, m)
  BY <1>3, <1>4 DEF Forth, Collects
<1>6. Back(c, s, m) => Back(d, s, m)
  BY <1>3 DEF Back, Collects
<1>7. KeysOf(d, s, m) = KeysOf(c, s, m)
  BY <1>3 DEF KeysOf
<1> QED BY <1>5, <1>6, <1>7

\* The i-th of s moved to the front, x put in front, the i-th dropped.
Fronted(s, i, m) ==
  [j \in 1..m |-> IF j = 1 THEN s[i] ELSE IF j <= i THEN s[j - 1] ELSE s[j]]
Pushed(x, s, m) == [j \in 1..(m + 1) |-> IF j = 1 THEN x ELSE s[j - 1]]
Dropped(s, i, m) == [j \in 1..(m - 1) |-> IF j < i THEN s[j] ELSE s[j + 1]]

LEMMA UpdateOrder ==
  ASSUME NEW K, NEW c, Sound(c, K), NEW s, NEW m, Forth(c, s, m), Back(c, s, m),
         NEW i \in 1..m
  PROVE  /\ Forth(m_update(c, s[i]), Fronted(s, i, m), m)
         /\ (i # m \/ i = 1) => Back(m_update(c, s[i]), Fronted(s, i, m), m)
         /\ KeysOf(m_update(c, s[i]), Fronted(s, i, m), m) = Fronted(KeysOf(c, s, m), i, m)
         /\ m_update(c, s[i]).broken = c.broken
<1> DEFINE n == s[i]
           d == m_update(c, n)
           t == Fronted(s, i, m)
           N == DOMAIN c.node
<1>1. /\ m \in Nat /\ i \in 1..m /\ s \in [1..m -> N]
      /\ \A j, k \in 1..m : s[j] = s[k] => j = k
      /\ \A j \in 1..m : \E k \in keys(c) : s[j] = c.hash[k]
      /\ \A k \in keys(c) : \E j \in 1..m : s[j] = c.hash[k]
  BY DEF Forth, IsOrder
<1>a. m \in Nat /\ i \in 1..m /\ \A j \in 1..m : s[j] \in N
  BY <1>1
<1>b. \A j, k \in 1..m : s[j] = s[k] => j = k
  BY <1>1
<1>2. c \in Caches(K, keys(c), N) /\ N \subseteq Nodes /\ None \notin N /\ n \in N
  BY <1>1, SoundProperties DEF Sound
<1>3. /\ SameKeys(c, d) /\ d.end = c.end
      /\ c.begin = n => d = c
      /\ (c.begin # n /\ c.node[n].prev # None /\ c.begin # None) => Moved(N, c, d, n)
  <2> HIDE DEF N, n
  <2> QED BY <1>2, UpdateLemma
<1>4. /\ c.begin = s[1]
      /\ \A j \in 1..m : c.node[s[j]].next = IF j = m THEN None ELSE s[j + 1]
      /\ c.end = s[m]
      /\ \A j \in 1..m : c.node[s[j]].prev = IF j = 1 THEN None ELSE s[j - 1]
  BY <1>1, SMTT(40) DEF Forth, Back
<1>5. CASE i = 1
  <2>1. t = s
    <3>1. \A j \in 1..m : (IF j = 1 THEN s[i] ELSE IF j <= i THEN s[j - 1] ELSE s[j]) = s[j]
      BY <1>5
    <3>2. s = [j \in 1..m |-> s[j]]
      BY <1>1
    <3> QED BY <3>1, <3>2 DEF Fronted
  <2>2. d = c
    BY <1>3, <1>4, <1>5
  <2>3. Fronted(KeysOf(c, s, m), i, m) = KeysOf(c, s, m)
    <3> DEFINE ks == KeysOf(c, s, m)
    <3>1. ks = [j \in 1..m |-> ks[j]]
      BY DEF KeysOf
    <3> HIDE DEF ks
    <3>2. \A j \in 1..m : (IF j = 1 THEN ks[i] ELSE IF j <= i THEN ks[j - 1] ELSE ks[j]) = ks[j]
      BY <1>5
    <3>3. Fronted(ks, i, m) = ks
      BY <3>1, <3>2 DEF Fronted
    <3> QED BY <3>3 DEF ks
  <2> QED BY <2>1, <2>2, <2>3
<1>6. CASE i # 1
  <2>1. /\ i \in 2..m /\ i - 1 \in 1..m /\ 1 \in 1..m /\ m \in 1..m
    BY <1>1, <1>6
  <2>2. c.node[n].prev = s[i - 1] /\ c.node[n].next = IF i = m THEN None ELSE s[i + 1]
    BY <1>1, <1>4, <1>6
  <2>n. n = s[i]
    OBVIOUS
  <2>3. c.begin # n /\ c.node[n].prev # None /\ c.begin # None
    <3>1. c.begin = s[1] /\ s[1] # s[i] /\ s[1] \in N /\ s[i - 1] \in N
      BY <1>a, <1>b, <1>4, <1>6, <2>1
    <3> HIDE DEF n, N
    <3> QED BY <1>2, <2>2, <2>n, <3>1
  <2>4. Moved(N, c, d, n) /\ SameKeys(c, d)
    BY <1>3, <2>3
  <2> HIDE DEF d, n, N
  <2>5. /\ d.begin = n /\ d.broken = c.broken /\ d.end = s[m]
        /\ \A x \in N :
             /\ d.node[x].next = IF x = n THEN s[1]
                                 ELSE IF x = s[i - 1]
                                   THEN IF i = m THEN None ELSE s[i + 1]
                                 ELSE c.node[x].next
             /\ d.node[x].prev = IF x = n THEN None
                                 ELSE IF x = s[1] THEN n
                                 ELSE IF i # m /\ x = s[i + 1] THEN s[i - 1]
                                 ELSE c.node[x].prev
    <3>1. /\ d.begin = n /\ d.broken = c.broken /\ d.end = s[m]
      BY <1>3, <1>4, <2>4 DEF Moved
    <3>2. c.begin = s[1] /\ c.node[n].prev = s[i - 1]
          /\ c.node[n].next = IF i = m THEN None ELSE s[i + 1]
      BY <1>4, <2>2
    <3>3. \A x \in N :
             /\ d.node[x].next = IF x = n THEN c.begin
                                 ELSE IF x = c.node[n].prev THEN c.node[n].next
                                 ELSE c.node[x].next
             /\ d.node[x].prev = IF x = n THEN None
                                 ELSE IF x = c.begin THEN n
                                 ELSE IF x = c.node[n].next THEN c.node[n].prev
                                 ELSE c.node[x].prev
      BY <2>4 DEF Moved
    <3> QED BY <1>2, <3>1, <3>2, <3>3
  <2>6. /\ DOMAIN t = 1..m /\ t[1] = s[i]
        /\ \A j \in 2..m : t[j] = IF j <= i THEN s[j - 1] ELSE s[j]
    BY <1>a DEF Fronted
  <2> HIDE DEF t
  <2>7. IsOrder(d, t, m)
    <3>1. DOMAIN d.node = N /\ keys(d) = keys(c) /\ d.hash = c.hash
      BY <2>4 DEF SameKeys, keys, N
    <3>2. \A j \in 1..m : j = 1 \/ j \in 2..m
      BY <1>1
    <3>3. \A j \in 1..m : \E k \in 1..m : t[j] = s[k]
      BY <1>a, <2>1, <2>6, <3>2
    <3>4. t \in [1..m -> N]
      <4>1. t = [j \in 1..m |-> t[j]]
        BY <2>6 DEF t, Fronted
      <4>2. \A j \in 1..m : t[j] \in N
        BY <1>1, <3>3
      <4> QED BY <4>1, <4>2
    <3>5. ASSUME NEW j \in 1..m, NEW k \in 1..m, t[j] = t[k] PROVE j = k
      BY <1>a, <1>b, <2>1, <2>6, <3>2, <3>5
    <3>6. \A k \in 1..m : \E j \in 1..m : s[k] = t[j]
      <4> TAKE k \in 1..m
      <4>1. CASE k = i
        <5>1. 1 \in 1..m
          BY <2>1
        <5> QED BY <2>6, <4>1, <5>1
      <4>2. CASE k < i
        <5>1. k + 1 \in 2..m /\ k + 1 <= i /\ k + 1 \in 1..m /\ (k + 1) - 1 = k
          BY <1>1, <4>2
        <5> QED BY <2>6, <5>1
      <4>3. CASE k > i
        <5>1. k \in 2..m /\ ~(k <= i)
          BY <1>1, <4>3
        <5> QED BY <2>6, <5>1
      <4> QED BY <1>1, <4>1, <4>2, <4>3
    <3>7. \A j \in 1..m : \E k \in keys(d) : t[j] = d.hash[k]
      <4> TAKE j \in 1..m
      <4>1. PICK k \in 1..m : t[j] = s[k]
        BY <3>3
      <4>2. \E x \in keys(c) : s[k] = c.hash[x]
        BY <1>1
      <4> QED BY <3>1, <4>1, <4>2
    <3>8. \A x \in keys(d) : \E j \in 1..m : t[j] = d.hash[x]
      <4> TAKE x \in keys(d)
      <4>1. PICK k \in 1..m : s[k] = c.hash[x]
        BY <1>1, <3>1
      <4>2. \E j \in 1..m : s[k] = t[j]
        BY <3>6
      <4> QED BY <3>1, <4>1, <4>2
    <3>9. m \in Nat /\ t \in [1..m -> DOMAIN d.node]
      BY <1>a, <3>1, <3>4
    <3>10. \A j, k \in 1..m : t[j] = t[k] => j = k
      BY <3>5
    <3> QED BY <3>7, <3>8, <3>9, <3>10 DEF IsOrder
  <2>8. \A j \in 1..m : d.node[t[j]].next = IF j = m THEN None ELSE t[j + 1]
    <3> TAKE j \in 1..m
    <3>1. CASE j = 1
      <4>1. t[2] = s[1] /\ m # 1
        BY <1>a, <1>b, <2>n, <1>6, <2>1, <2>6
      <4> QED BY <1>2, <2>5, <2>6, <2>n, <3>1, <4>1
    <3>2. CASE j # 1 /\ j <= i
      <4>1. t[j] = s[j - 1] /\ j - 1 \in 1..m /\ j - 1 # i /\ s[j - 1] \in N /\ s[j - 1] # n
        BY <1>a, <1>b, <2>n, <2>1, <2>6, <3>2
      <4>2. CASE j = i
        <5>1. d.node[t[j]].next = IF i = m THEN None ELSE s[i + 1]
          BY <2>5, <4>1, <4>2
        <5>2. i # m => t[i + 1] = s[i + 1]
          BY <1>a, <1>b, <2>n, <2>1, <2>6
        <5> QED BY <4>2, <5>1, <5>2
      <4>3. CASE j # i
        <5>1. s[j - 1] # s[i - 1] /\ j # m /\ j - 1 # m /\ (j - 1) + 1 = j
          BY <1>a, <1>b, <2>n, <2>1, <3>2, <4>1, <4>3
        <5>2. d.node[t[j]].next = s[j]
          BY <1>4, <2>5, <4>1, <5>1
        <5>3. t[j + 1] = s[j]
          BY <1>a, <1>b, <2>n, <2>1, <2>6, <3>2, <4>3
        <5> QED BY <5>1, <5>2, <5>3
      <4> QED BY <4>2, <4>3
    <3>3. CASE j > i
      <4>1. t[j] = s[j] /\ s[j] \in N /\ s[j] # n /\ s[j] # s[i - 1]
        BY <1>a, <1>b, <2>n, <2>1, <2>6, <3>3
      <4>2. d.node[t[j]].next = IF j = m THEN None ELSE s[j + 1]
        BY <1>4, <2>5, <4>1
      <4>3. j # m => t[j + 1] = s[j + 1]
        BY <1>a, <1>b, <2>n, <2>1, <2>6, <3>3
      <4> QED BY <4>2, <4>3
    <3> QED BY <1>a, <1>b, <2>n, <3>1, <3>2, <3>3
  <2>9. Forth(d, t, m)
    BY <1>a, <2>1, <2>5, <2>6, <2>7, <2>8, <2>n DEF Forth
  <2>10. ASSUME i # m PROVE Back(d, t, m)
    <3>1. ASSUME NEW j \in 1..m
          PROVE  d.node[t[j]].prev = IF j = 1 THEN None ELSE t[j - 1]
      <4>1. CASE j = 1
        BY <1>2, <2>5, <2>6, <2>n, <4>1
      <4>2. CASE j # 1 /\ j <= i
        <5>1. t[j] = s[j - 1] /\ j - 1 \in 1..m /\ j - 1 # i /\ s[j - 1] \in N /\ s[j - 1] # n
          BY <1>a, <1>b, <2>n, <2>1, <2>6, <4>2
        <5>2. CASE j = 2
          <6>1. j - 1 = 1 /\ t[j] = s[1]
            BY <5>1, <5>2
          <6>2. d.node[s[1]].prev = n
            BY <2>5, <5>1, <6>1
          <6> QED BY <2>6, <2>n, <5>2, <6>1, <6>2
        <5>3. CASE j # 2
          <6>1. /\ j - 1 # 1 /\ s[j - 1] # s[1] /\ s[j - 1] # s[i + 1]
                /\ (j - 1) - 1 = j - 2 /\ j - 1 \in 2..m /\ j - 1 <= i
            BY <1>a, <1>b, <2>n, <2>1, <2>10, <4>2, <5>1, <5>3
          <6>2. d.node[t[j]].prev = s[j - 2]
            BY <1>4, <2>5, <5>1, <6>1
          <6>3. t[j - 1] = s[j - 2]
            BY <2>6, <6>1
          <6> QED BY <4>2, <6>2, <6>3
        <5> QED BY <5>2, <5>3
      <4>3. CASE j = i + 1
        <5>1. /\ t[j] = s[i + 1] /\ s[j] \in N /\ s[j] # n /\ s[j] # s[1] /\ t[i] = s[i - 1]
              /\ j - 1 = i
          BY <1>a, <1>b, <2>n, <2>1, <2>6, <2>10, <4>3
        <5>2. d.node[s[i + 1]].prev = s[i - 1]
          BY <2>5, <2>10, <4>3, <5>1
        <5> QED BY <1>a, <1>b, <2>n, <4>3, <5>1, <5>2
      <4>4. CASE j > i + 1
        <5>1. /\ t[j] = s[j] /\ s[j] \in N /\ s[j] # n /\ s[j] # s[1] /\ s[j] # s[i + 1]
              /\ t[j - 1] = s[j - 1] /\ j # 1
          BY <1>a, <1>b, <2>n, <2>1, <2>6, <2>10, <4>4
        <5> QED BY <1>4, <2>5, <5>1
      <4> QED BY <1>a, <1>b, <2>n, <4>1, <4>2, <4>3, <4>4
    <3>2. d.end = t[m]
      BY <1>a, <1>b, <2>n, <2>1, <2>5, <2>6, <2>10
    <3> QED BY <1>a, <1>b, <2>n, <3>1, <3>2 DEF Back
  <2>k. \A x \in N : d.node[x].key = c.node[x].key
    BY <2>4 DEF SameKeys, N
  <2>11. KeysOf(d, t, m) = Fronted(KeysOf(c, s, m), i, m)
    <3> DEFINE ks == KeysOf(c, s, m)
    <3>1. \A j \in 1..m : ks[j] = c.node[s[j]].key
      BY DEF KeysOf
    <3> HIDE DEF ks
    <3>2. ASSUME NEW j \in 1..m
          PROVE  d.node[t[j]].key = IF j = 1 THEN ks[i] ELSE IF j <= i THEN ks[j - 1] ELSE ks[j]
      <4>1. CASE j = 1
        BY <1>a, <1>b, <2>n, <1>2, <2>k, <2>6, <3>1, <4>1
      <4>2. CASE j # 1 /\ j <= i
        <5>1. j - 1 \in 1..m /\ t[j] = s[j - 1] /\ s[j - 1] \in N
          BY <1>a, <1>b, <2>n, <2>1, <2>6, <4>2
        <5> QED BY <2>k, <3>1, <4>2, <5>1
      <4>3. CASE j > i
        <5>1. t[j] = s[j] /\ s[j] \in N /\ j # 1 /\ ~(j <= i)
          BY <1>a, <1>b, <2>n, <2>1, <2>6, <4>3
        <5> QED BY <2>k, <3>1, <5>1
      <4> QED BY <1>a, <1>b, <2>n, <4>1, <4>2, <4>3
    <3>3. KeysOf(d, t, m) = Fronted(ks, i, m)
      BY <3>2 DEF KeysOf, Fronted
    <3> QED BY <3>3 DEF ks
  <2>12. (i # m \/ i = 1) => Back(d, t, m)
    BY <1>6, <2>10
  <2> QED BY <2>5, <2>9, <2>11, <2>12, Zenon DEF d, t, n
<1> QED BY <1>5, <1>6

LEMMA PutOrder ==
  ASSUME NEW K, NEW c, NEW d, NEW n, NEW k, NEW data, Sound(c, K), k \notin keys(c),
         n \notin DOMAIN c.node, n # None, Added(c, d, n, k, data),
         NEW s, NEW m, Forth(c, s, m), Back(c, s, m)
  PROVE  /\ Forth(d, Pushed(n, s, m), m + 1) /\ Back(d, Pushed(n, s, m), m + 1)
         /\ KeysOf(d, Pushed(n, s, m), m + 1) = Pushed(k, KeysOf(c, s, m), m)
         /\ \A i \in 1..m : KeysOf(c, s, m)[i] # k
<1> DEFINE t == Pushed(n, s, m)
           N == DOMAIN c.node
<1>1. /\ m \in Nat /\ s \in [1..m -> N]
      /\ \A i, j \in 1..m : s[i] = s[j] => i = j
      /\ \A j \in 1..m : \E x \in keys(c) : s[j] = c.hash[x]
      /\ \A x \in keys(c) : \E j \in 1..m : s[j] = c.hash[x]
  BY DEF Forth, IsOrder
<1>a. m \in Nat /\ \A j \in 1..m : s[j] \in N
  BY <1>1
<1>b. \A i, j \in 1..m : s[i] = s[j] => i = j
  BY <1>1
<1>c. n \notin N /\ N = DOMAIN c.node /\ \A j \in 1..m : s[j] # n /\ s[j] # None
  BY <1>a, SoundProperties
<1>2. /\ keys(d) = keys(c) \cup {k} /\ DOMAIN d.node = N \cup {n}
      /\ d.hash[k] = n /\ \A x \in keys(c) : d.hash[x] = c.hash[x]
  BY DEF Added, keys
<1>3. /\ d.begin = n /\ d.end = (IF c.begin = None THEN n ELSE c.end)
      /\ d.node[n].key = k /\ d.node[n].prev = None /\ d.node[n].next = c.begin
      /\ \A x \in N :
           /\ d.node[x].key = c.node[x].key
           /\ d.node[x].next = c.node[x].next
           /\ d.node[x].prev = IF x = c.begin THEN n ELSE c.node[x].prev
  BY DEF Added
<1>4. /\ c.begin = IF m = 0 THEN None ELSE s[1]
      /\ \A j \in 1..m : c.node[s[j]].next = IF j = m THEN None ELSE s[j + 1]
      /\ c.end = IF m = 0 THEN None ELSE s[m]
      /\ \A j \in 1..m : c.node[s[j]].prev = IF j = 1 THEN None ELSE s[j - 1]
  BY DEF Forth, Back
<1>5. /\ DOMAIN t = 1..(m + 1) /\ t[1] = n
      /\ \A j \in 2..(m + 1) : t[j] = s[j - 1]
      /\ t = [j \in 1..(m + 1) |-> t[j]]
  BY <1>a DEF Pushed
<1> HIDE DEF t, N
<1>d. \A j \in 1..(m + 1) : j # 1 => j \in 2..(m + 1) /\ j - 1 \in 1..m /\ t[j] = s[j - 1]
  <2> TAKE j \in 1..(m + 1)
  <2>1. j # 1 => j \in 2..(m + 1) /\ j - 1 \in 1..m
    BY <1>a
  <2> QED BY <1>5, <2>1
<1>e. 1 \in 1..(m + 1) /\ m + 1 \in 1..(m + 1) /\ m + 1 \in Nat
  BY <1>a
<1>f. \A j \in 1..m : j + 1 \in 1..(m + 1) /\ t[j + 1] = s[j]
  <2> TAKE j \in 1..m
  <2>1. j + 1 \in 2..(m + 1) /\ (j + 1) - 1 = j /\ j + 1 \in 1..(m + 1)
    BY <1>a
  <2>2. t[j + 1] = s[(j + 1) - 1]
    BY <1>5, <2>1
  <2> QED BY <2>1, <2>2
<1>7. IsOrder(d, t, m + 1)
  <2>1. \A j \in 1..(m + 1) :
          \/ j = 1 /\ t[j] = n
          \/ j # 1 /\ j - 1 \in 1..m /\ t[j] = s[j - 1]
    BY <1>5, <1>d, <1>e, <1>f
  <2>2. \A j \in 1..(m + 1) : t[j] \in N \cup {n}
    BY <1>a, <2>1
  <2>3. t \in [1..(m + 1) -> DOMAIN d.node]
    BY <1>2, <1>5, <2>2
  <2>4. \A i, j \in 1..(m + 1) : t[i] = t[j] => i = j
    <3> TAKE i, j \in 1..(m + 1)
    <3>1. i \in Int /\ j \in Int
      OBVIOUS
    <3> QED BY <1>b, <1>c, <2>1, <3>1
  <2>5. \A j \in 1..(m + 1) : \E x \in keys(d) : t[j] = d.hash[x]
    <3> TAKE j \in 1..(m + 1)
    <3>1. CASE j = 1
      BY <1>2, <1>5, <3>1
    <3>2. CASE j # 1
      <4>1. PICK x \in keys(c) : s[j - 1] = c.hash[x]
        BY <1>1, <2>1, <3>2
      <4> QED BY <1>2, <2>1, <3>2, <4>1
    <3> QED BY <3>1, <3>2
  <2>6. \A x \in keys(d) : \E j \in 1..(m + 1) : t[j] = d.hash[x]
    <3> TAKE x \in keys(d)
    <3>1. CASE x = k
      BY <1>2, <1>5, <1>d, <1>e, <1>f, <3>1
    <3>2. CASE x # k
      <4>1. PICK j \in 1..m : s[j] = c.hash[x]
        BY <1>1, <1>2, <3>2
      <4>2. j + 1 \in 1..(m + 1) /\ t[j + 1] = s[j]
        BY <1>a, <1>d, <1>e, <1>f
      <4> QED BY <1>2, <3>2, <4>1, <4>2
    <3> QED BY <3>1, <3>2
  <2>7. m + 1 \in Nat
    BY <1>a
  <2> QED BY <2>3, <2>4, <2>5, <2>6, <2>7 DEF IsOrder
<1>8. ASSUME NEW j \in 1..(m + 1)
      PROVE  d.node[t[j]].next = IF j = m + 1 THEN None ELSE t[j + 1]
  <2>1. CASE j = 1
    <3>1. d.node[t[j]].next = c.begin
      BY <1>3, <1>5, <2>1
    <3>2. m # 0 => t[2] = s[1]
      BY <1>a, <1>5
    <3>3. CASE m = 0
      BY <1>4, <2>1, <3>1, <3>3
    <3>4. CASE m # 0
      <4>1. j # m + 1 /\ t[j + 1] = s[1]
        BY <1>a, <2>1, <3>2, <3>4
      <4> QED BY <1>4, <3>1, <3>4, <4>1
    <3> QED BY <3>3, <3>4
  <2>2. CASE j # 1
    <3>1. j - 1 \in 1..m /\ t[j] = s[j - 1] /\ s[j - 1] \in N
      BY <1>a, <1>5, <1>d, <1>e, <1>f, <2>2
    <3>2. d.node[t[j]].next = IF j - 1 = m THEN None ELSE s[(j - 1) + 1]
      BY <1>3, <1>4, <3>1
    <3>3. j # m + 1 => j - 1 # m /\ t[j + 1] = s[(j - 1) + 1]
      <4> HAVE j # m + 1
      <4>1. j \in 1..m /\ (j - 1) + 1 = j /\ j - 1 # m
        BY <1>a
      <4> QED BY <1>f, <4>1
    <3>4. j = m + 1 => j - 1 = m
      BY <1>a
    <3> QED BY <3>2, <3>3, <3>4
  <2> QED BY <2>1, <2>2
<1>9. Forth(d, t, m + 1)
  <2>1. m + 1 # 0 /\ d.begin = t[1]
    BY <1>3, <1>5, <1>a
  <2> QED BY <1>7, <1>8, <2>1 DEF Forth
<1>10. ASSUME NEW j \in 1..(m + 1)
       PROVE  d.node[t[j]].prev = IF j = 1 THEN None ELSE t[j - 1]
  <2>1. CASE j = 1
    BY <1>3, <1>5, <2>1
  <2>2. CASE j = 2
    <3>1. t[j] = s[1] /\ 1 \in 1..m /\ s[1] \in N /\ c.begin = s[1]
      <4>1. m # 0 /\ 1 \in 1..m /\ j - 1 = 1
      BY <1>a, <2>2
    <4> QED BY <1>4, <1>a, <1>d, <2>2, <4>1
    <3>2. d.node[s[1]].prev = n
      BY <1>3, <3>1
    <3> QED BY <1>5, <2>2, <3>1, <3>2
  <2>3. CASE j # 1 /\ j # 2
    <3>1. /\ j - 1 \in 1..m /\ j - 1 # 1 /\ t[j] = s[j - 1] /\ s[j - 1] \in N
          /\ 1 \in 1..m /\ c.begin = s[1] /\ t[j - 1] = s[(j - 1) - 1]
      <4>1. /\ m # 0 /\ 1 \in 1..m /\ j - 1 \in 1..m /\ j - 1 # 1
            /\ j - 1 \in 1..(m + 1)
        BY <1>a, <2>3
      <4> QED BY <1>4, <1>a, <1>d, <2>3, <4>1
    <3>2. s[j - 1] # c.begin
      BY <1>b, <3>1
    <3>3. d.node[s[j - 1]].prev = s[(j - 1) - 1]
      BY <1>3, <1>4, <3>1, <3>2
    <3> QED BY <2>3, <3>1, <3>3
  <2> QED BY <2>1, <2>2, <2>3
<1>11. Back(d, t, m + 1)
  <2>1. d.end = t[m + 1]
    <3>1. CASE m = 0
      BY <1>3, <1>4, <1>5, <3>1
    <3>2. CASE m # 0
      <4>1. 1 \in 1..m /\ m \in 1..m /\ t[m + 1] = s[m]
        BY <1>a, <1>d, <1>e, <1>f, <3>2
      <4> QED BY <1>3, <1>4, <1>c, <3>2, <4>1
    <3> QED BY <3>1, <3>2
  <2> QED BY <1>10, <1>a, <2>1 DEF Back
<1> DEFINE ks == KeysOf(c, s, m)
<1>12. \A j \in 1..m : ks[j] = c.node[s[j]].key
  BY DEF KeysOf
<1>13. \A j \in 1..m : ks[j] # k
  <2> TAKE j \in 1..m
  <2>1. PICK x \in keys(c) : s[j] = c.hash[x]
    BY <1>1
  <2>2. ks[j] = x
    BY <1>12, <2>1 DEF Sound
  <2> QED BY <2>2
<1> HIDE DEF ks
<1>14. KeysOf(d, t, m + 1) = Pushed(k, ks, m)
  <2>1. ASSUME NEW j \in 1..(m + 1)
        PROVE  d.node[t[j]].key = IF j = 1 THEN k ELSE ks[j - 1]
    <3>1. CASE j = 1
      BY <1>3, <1>5, <3>1
    <3>2. CASE j # 1
      <4>1. j - 1 \in 1..m /\ t[j] = s[j - 1] /\ s[j - 1] \in N
        BY <1>a, <1>5, <1>d, <1>e, <1>f, <3>2
      <4> QED BY <1>3, <1>12, <3>2, <4>1
    <3> QED BY <3>1, <3>2
  <2> QED BY <2>1 DEF KeysOf, Pushed
<1> QED BY <1>9, <1>11, <1>13, <1>14, Zenon DEF t, ks

LEMMA EvictOrder ==
  ASSUME NEW K, NEW c, Sound(c, K), ~c.broken, NEW s, NEW m, Forth(c, s, m), Back(c, s, m),
         NEW i \in 1..m, NEW k \in keys(c), s[i] = c.hash[k]
  PROVE  /\ Forth(evict(c, k), Dropped(s, i, m), m - 1)
         /\ Back(evict(c, k), Dropped(s, i, m), m - 1)
         /\ KeysOf(evict(c, k), Dropped(s, i, m), m - 1) = Dropped(KeysOf(c, s, m), i, m)
         /\ ~evict(c, k).broken /\ keys(evict(c, k)) = keys(c) \ {k}
<1> DEFINE n == s[i]
           d == evict(c, k)
           t == Dropped(s, i, m)
           N == DOMAIN c.node
<1>1. /\ m \in Nat /\ s \in [1..m -> N]
      /\ \A l, j \in 1..m : s[l] = s[j] => l = j
      /\ \A j \in 1..m : \E x \in keys(c) : s[j] = c.hash[x]
      /\ \A x \in keys(c) : \E j \in 1..m : s[j] = c.hash[x]
  BY DEF Forth, IsOrder
<1>a. m \in Nat /\ i \in 1..m /\ m - 1 \in Nat /\ \A j \in 1..m : s[j] \in N
  BY <1>1
<1>b. \A l, j \in 1..m : s[l] = s[j] => l = j
  BY <1>1
<1>c. /\ \A j \in 1..m : s[j] # None
      /\ c \in Caches(K, keys(c), N) /\ N \subseteq Nodes
      /\ \A x, y \in keys(c) : c.hash[x] = c.hash[y] => x = y
  BY <1>a, SoundProperties DEF Sound
<1>n. n = s[i] /\ n = c.hash[k] /\ n \in N
  BY <1>a
<1>2. /\ c.begin = s[1]
      /\ \A j \in 1..m : c.node[s[j]].next = IF j = m THEN None ELSE s[j + 1]
      /\ c.end = s[m]
      /\ \A j \in 1..m : c.node[s[j]].prev = IF j = 1 THEN None ELSE s[j - 1]
  BY <1>a DEF Forth, Back
<1> HIDE DEF n
<1>3. /\ c.begin = n <=> i = 1
      /\ c.end = n <=> i = m
      /\ i # 1 => i - 1 \in 1..m /\ c.node[n].prev = s[i - 1]
      /\ i # m => i + 1 \in 1..m /\ c.node[n].next = s[i + 1]
      /\ i = 1 => c.node[n].prev = None
      /\ i = m => c.node[n].next = None
  BY <1>a, <1>b, <1>2, <1>n
<1>4. ~Dangling(c, n)
  BY <1>3, <1>c DEF Dangling
<1>5. Removed(N, c, d, k)
  <2> HIDE DEF N, d
  <2>1. Removed(N, c, evict(c, k), k)
    BY <1>4, <1>c, <1>n, RemoveLemma
  <2> QED BY <2>1 DEF d
<1>6. DOMAIN d.node = N
  <2>1. d \in Caches(K, keys(c) \ {k}, N)
    <3> HIDE DEF N, d
    <3>1. evict(c, k) \in Caches(K, keys(c) \ {k}, N)
      BY <1>4, <1>c, <1>n, RemoveLemma, SMTT(40)
    <3> QED BY <3>1 DEF d
  <2> HIDE DEF d
  <2> QED BY <2>1 DEF Caches
<1> HIDE DEF d, N
<1>7. /\ keys(d) = keys(c) \ {k} /\ \A x \in keys(d) : d.hash[x] = c.hash[x]
      /\ d.broken = c.broken
      /\ d.begin = (IF i = 1 THEN c.node[n].next ELSE s[1])
      /\ d.end = (IF i = m THEN c.node[n].prev ELSE s[m])
      /\ \A x \in N : d.node[x].key = c.node[x].key
      /\ \A x \in N : d.node[x].next = IF i # 1 /\ x = c.node[n].prev
                                       THEN c.node[n].next ELSE c.node[x].next
      /\ \A x \in N : d.node[x].prev = IF i # m /\ x = c.node[n].next
                                       THEN c.node[n].prev ELSE c.node[x].prev
  BY <1>2, <1>3, <1>5, <1>n DEF Removed, keys
<1>8. /\ \A j \in 1..(m - 1) : t[j] = IF j < i THEN s[j] ELSE s[j + 1]
      /\ t = [j \in 1..(m - 1) |-> t[j]]
  BY DEF Dropped
<1> HIDE DEF t
<1>9. \A j \in 1..(m - 1) :
        /\ j \in 1..m /\ j + 1 \in 1..m /\ j \in Int
        /\ j < i => t[j] = s[j]
        /\ ~(j < i) => t[j] = s[j + 1] /\ j >= i
  BY <1>a, <1>8
<1>10. IsOrder(d, t, m - 1)
  <2>1. \A j \in 1..(m - 1) : t[j] \in N /\ t[j] # n
    BY <1>a, <1>b, <1>9, <1>n
  <2>2. t \in [1..(m - 1) -> DOMAIN d.node]
    BY <1>6, <1>8, <2>1
  <2>3. \A l, j \in 1..(m - 1) : t[l] = t[j] => l = j
    <3> TAKE l, j \in 1..(m - 1)
    <3>1. CASE l < i /\ j < i
      BY <1>b, <1>9, <3>1
    <3>2. CASE l < i /\ ~(j < i)
      BY <1>a, <1>b, <1>9, <3>2
    <3>3. CASE ~(l < i) /\ j < i
      BY <1>a, <1>b, <1>9, <3>3
    <3>4. CASE ~(l < i) /\ ~(j < i)
      <4>1. t[l] = t[j] => l + 1 = j + 1
        BY <1>b, <1>9, <3>4
      <4> QED BY <1>9, <4>1
    <3> QED BY <3>1, <3>2, <3>3, <3>4
  <2>4. \A j \in 1..(m - 1) : \E x \in keys(d) : t[j] = d.hash[x]
    <3> TAKE j \in 1..(m - 1)
    <3>1. \E l \in 1..m : t[j] = s[l]
      BY <1>9
    <3>2. PICK x \in keys(c) : t[j] = c.hash[x]
      BY <1>1, <3>1
    <3>3. x # k
      BY <1>n, <2>1, <3>2
    <3> QED BY <1>7, <3>2, <3>3
  <2>5. \A x \in keys(d) : \E j \in 1..(m - 1) : t[j] = d.hash[x]
    <3> TAKE x \in keys(d)
    <3>1. PICK j \in 1..m : s[j] = c.hash[x]
      BY <1>1, <1>7
    <3>2. j # i
      BY <1>7, <1>c, <1>n, <3>1
    <3>3. CASE j < i
      <4>1. j \in 1..(m - 1)
        BY <1>a, <3>3
      <4> QED BY <1>7, <1>9, <3>1, <3>3, <4>1
    <3>4. CASE j > i
      <4>1. j - 1 \in 1..(m - 1) /\ ~(j - 1 < i) /\ (j - 1) + 1 = j
        BY <1>a, <3>4
      <4>2. t[j - 1] = s[j]
        BY <1>9, <4>1
      <4> QED BY <1>7, <3>1, <4>1, <4>2
    <3> QED BY <1>a, <3>2, <3>3, <3>4
  <2> QED BY <1>a, <2>2, <2>3, <2>4, <2>5 DEF IsOrder
<1>11. ASSUME NEW j \in 1..(m - 1)
       PROVE  d.node[t[j]].next = IF j = m - 1 THEN None ELSE t[j + 1]
  <2>0. j # m - 1 => j + 1 \in 1..(m - 1)
    BY <1>a
  <2>1. CASE j < i /\ j # i - 1
    <3>1. t[j] = s[j] /\ s[j] \in N /\ j # m - 1 /\ j # m /\ t[j + 1] = s[j + 1]
      BY <1>a, <1>9, <2>0, <2>1
    <3>2. i # 1 => s[j] # c.node[n].prev
      BY <1>3, <1>9, <1>b, <2>1
    <3> QED BY <1>2, <1>7, <1>9, <3>1, <3>2
  <2>2. CASE j = i - 1
    <3>1. t[j] = s[i - 1] /\ s[j] \in N /\ i # 1
      BY <1>a, <1>9, <2>2
    <3>2. d.node[t[j]].next = c.node[n].next
      BY <1>3, <1>7, <2>2, <3>1
    <3>3. CASE i = m
      BY <1>3, <2>2, <3>2, <3>3
    <3>4. CASE i # m
      <4>1. j # m - 1 /\ t[j + 1] = s[i + 1]
        <5>1. j + 1 = i /\ ~(i < i) /\ j # m - 1
          BY <1>a, <2>2, <3>4
        <5> QED BY <1>9, <2>0, <5>1
      <4> QED BY <1>3, <3>2, <3>4, <4>1
    <3> QED BY <3>3, <3>4
  <2>3. CASE ~(j < i)
    <3>1. t[j] = s[j + 1] /\ s[j + 1] \in N /\ j + 1 \in 1..m /\ j \in Int
      BY <1>a, <1>9, <2>3
    <3>2. i # 1 => s[j + 1] # c.node[n].prev
      BY <1>3, <1>a, <1>b, <2>3, <3>1
    <3>3. d.node[t[j]].next = IF j + 1 = m THEN None ELSE s[(j + 1) + 1]
      BY <1>2, <1>7, <3>1, <3>2
    <3>4. j # m - 1 => j + 1 # m /\ t[j + 1] = s[(j + 1) + 1]
      <4>1. ~(j + 1 < i)
        BY <1>a, <2>3, <3>1
      <4> QED BY <1>a, <1>9, <2>0, <4>1
    <3> QED BY <1>a, <3>3, <3>4
  <2> QED BY <1>a, <2>1, <2>2, <2>3
<1>12. ASSUME NEW j \in 1..(m - 1)
       PROVE  d.node[t[j]].prev = IF j = 1 THEN None ELSE t[j - 1]
  <2>0. j # 1 => j - 1 \in 1..(m - 1)
    BY <1>a
  <2>1. CASE j < i
    <3>1. t[j] = s[j] /\ s[j] \in N /\ j \in 1..m
      BY <1>a, <1>9, <2>1
    <3>2. i # m => s[j] # c.node[n].next
      BY <1>3, <1>9, <1>a, <1>b, <2>1
    <3>3. d.node[t[j]].prev = IF j = 1 THEN None ELSE s[j - 1]
      BY <1>2, <1>7, <3>1, <3>2
    <3>4. j # 1 => t[j - 1] = s[j - 1]
      <4>1. j - 1 < i
        BY <1>a, <2>1
      <4> QED BY <1>9, <2>0, <4>1
    <3> QED BY <3>3, <3>4
  <2>2. CASE j = i
    <3>1. t[j] = s[i + 1] /\ s[i + 1] \in N /\ i # m
      BY <1>a, <1>9, <2>2
    <3>2. d.node[t[j]].prev = c.node[n].prev
      BY <1>3, <1>7, <3>1
    <3>3. CASE i = 1
      BY <1>3, <2>2, <3>2, <3>3
    <3>4. CASE i # 1
      <4>1. t[j - 1] = s[i - 1]
        <5>1. i - 1 < i
          BY <1>a
        <5> QED BY <1>9, <2>0, <2>2, <3>4, <5>1
      <4> QED BY <1>3, <2>2, <3>2, <3>4, <4>1
    <3> QED BY <3>3, <3>4
  <2>3. CASE j > i
    <3>1. /\ t[j] = s[j + 1] /\ s[j + 1] \in N /\ j + 1 \in 1..m /\ j # 1 /\ i # m
          /\ ~(j - 1 < i) /\ j + 1 # i + 1 /\ (j - 1) + 1 = j /\ (j + 1) - 1 = j /\ j + 1 # 1
      BY <1>a, <1>9, <2>3
    <3>2. s[j + 1] # c.node[n].next
      BY <1>3, <1>b, <3>1
    <3>3. d.node[t[j]].prev = s[j]
      BY <1>2, <1>7, <3>1, <3>2
    <3>4. t[j - 1] = s[j]
      BY <1>9, <2>0, <3>1
    <3> QED BY <3>1, <3>3, <3>4
  <2> QED BY <1>a, <2>1, <2>2, <2>3
<1>13. d.begin = IF m - 1 = 0 THEN None ELSE t[1]
  <2>1. CASE m = 1
    BY <1>3, <1>7, <1>a, <2>1
  <2>2. CASE m # 1 /\ i = 1
    <3>1. 1 \in 1..(m - 1) /\ ~(1 < i)
      BY <1>a, <2>2
    <3>2. t[1] = s[1 + 1] /\ 1 + 1 = i + 1
      BY <1>9, <2>2, <3>1
    <3> QED BY <1>3, <1>7, <1>a, <2>2, <3>2
  <2>3. CASE m # 1 /\ i # 1
    <3>1. 1 \in 1..(m - 1) /\ 1 < i
      BY <1>a, <2>3
    <3> QED BY <1>7, <1>9, <1>a, <2>3, <3>1
  <2> QED BY <2>1, <2>2, <2>3
<1>14. d.end = IF m - 1 = 0 THEN None ELSE t[m - 1]
  <2>1. CASE m = 1
    BY <1>3, <1>7, <1>a, <2>1
  <2>2. CASE m # 1 /\ i = m
    <3>1. m - 1 \in 1..(m - 1) /\ m - 1 < i /\ i # 1
      BY <1>a, <2>2
    <3> QED BY <1>3, <1>7, <1>9, <1>a, <2>2, <3>1
  <2>3. CASE m # 1 /\ i # m
    <3>1. m - 1 \in 1..(m - 1) /\ ~(m - 1 < i) /\ (m - 1) + 1 = m
      BY <1>a, <2>3
    <3> QED BY <1>7, <1>9, <1>a, <2>3, <3>1
  <2> QED BY <2>1, <2>2, <2>3
<1>15. Forth(d, t, m - 1) /\ Back(d, t, m - 1)
  BY <1>10, <1>11, <1>12, <1>13, <1>14 DEF Forth, Back
<1> DEFINE ks == KeysOf(c, s, m)
<1>16. \A j \in 1..m : ks[j] = c.node[s[j]].key
  BY DEF KeysOf
<1> HIDE DEF ks
<1>17. KeysOf(d, t, m - 1) = Dropped(ks, i, m)
  <2>1. ASSUME NEW j \in 1..(m - 1)
        PROVE  d.node[t[j]].key = IF j < i THEN ks[j] ELSE ks[j + 1]
    BY <1>7, <1>9, <1>16, <1>a
  <2> QED BY <2>1 DEF KeysOf, Dropped
<1> QED BY <1>7, <1>15, <1>17, Zenon DEF d, t, ks

\* Every node of the order is that of a key.
LEMMA OrderKeys ==
  ASSUME NEW K, NEW c, Sound(c, K), NEW s, NEW m, Forth(c, s, m), NEW i \in 1..m
  PROVE  /\ c.node[s[i]].key \in keys(c) /\ c.hash[c.node[s[i]].key] = s[i]
         /\ s[i] \in DOMAIN c.node /\ s[i] # None
<1>1. PICK k \in keys(c) : s[i] = c.hash[k]
  BY DEF Forth, IsOrder
<1>2. c.node[c.hash[k]].key = k
  BY DEF Sound
<1>3. s[i] \in DOMAIN c.node
  BY DEF Forth, IsOrder
<1> QED BY <1>1, <1>2, <1>3, SoundProperties

FirstOf(s, m) == [j \in 1..m |-> s[j]]

LEMMA EvictLastOrder ==
  ASSUME NEW K, NEW c, Sound(c, K), ~c.broken, NEW s, NEW m, m # 0,
         Forth(c, s, m), Back(c, s, m)
  PROVE  /\ Forth(EvictLast(c), FirstOf(s, m - 1), m - 1)
         /\ Back(EvictLast(c), FirstOf(s, m - 1), m - 1)
         /\ KeysOf(EvictLast(c), FirstOf(s, m - 1), m - 1) = FirstOf(KeysOf(c, s, m), m - 1)
         /\ ~EvictLast(c).broken
<1> DEFINE k == c.node[s[m]].key
<1>1. m \in Nat /\ m \in 1..m /\ c.end = s[m]
  BY DEF Forth, Back, IsOrder
<1>2. k \in keys(c) /\ c.hash[k] = s[m] /\ s[m] # None
  BY <1>1, OrderKeys
<1>3. EvictLast(c) = evict(c, k)
  BY <1>1, <1>2 DEF EvictLast, exists
<1> HIDE DEF k
<1>4. /\ Forth(evict(c, k), Dropped(s, m, m), m - 1)
      /\ Back(evict(c, k), Dropped(s, m, m), m - 1)
      /\ KeysOf(evict(c, k), Dropped(s, m, m), m - 1) = Dropped(KeysOf(c, s, m), m, m)
      /\ ~evict(c, k).broken
  BY <1>1, <1>2, EvictOrder
<1>5. \A f : Dropped(f, m, m) = FirstOf(f, m - 1)
  <2> TAKE f
  <2>1. \A j \in 1..(m - 1) : (IF j < m THEN f[j] ELSE f[j + 1]) = f[j]
    BY <1>1
  <2> QED BY <2>1 DEF Dropped, FirstOf
<1> QED BY <1>3, <1>4, <1>5

LEMMA RoundsOrder ==
  ASSUME NEW K, NEW c, Sound(c, K), ~c.broken, NEW s, NEW m,
         Forth(c, s, m), Back(c, s, m), NEW n \in 0..m, NEW g, IsRounds(g, c, n)
  PROVE  /\ Forth(g[n], FirstOf(s, m - n), m - n)
         /\ Back(g[n], FirstOf(s, m - n), m - n)
         /\ KeysOf(g[n], FirstOf(s, m - n), m - n) = FirstOf(KeysOf(c, s, m), m - n)
         /\ ~g[n].broken
<1> DEFINE ks == KeysOf(c, s, m)
           Good(i) == /\ Forth(g[i], FirstOf(s, m - i), m - i)
                      /\ Back(g[i], FirstOf(s, m - i), m - i)
                      /\ KeysOf(g[i], FirstOf(s, m - i), m - i) = FirstOf(ks, m - i)
                      /\ ~g[i].broken
           T == {i \in 0..n : ~Good(i)}
<1>1. m \in Nat /\ n \in Nat /\ n <= m /\ s = [j \in 1..m |-> s[j]]
  BY DEF Forth, IsOrder
<1>2. Good(0)
  <2>1. m - 0 = m /\ g[0] = c
    BY <1>1 DEF IsRounds
  <2>2. FirstOf(s, m) = s
    BY <1>1 DEF FirstOf
  <2>3. FirstOf(ks, m) = ks
    BY DEF FirstOf, KeysOf
  <2> QED BY <2>1, <2>2, <2>3
<1>3. T = {}
  <2> SUFFICES ASSUME T # {} PROVE FALSE
    OBVIOUS
  <2>1. PICK i \in T : \A j \in T : i <= j
    <3> HIDE DEF Good
    <3>1. T \in SUBSET Nat
      BY <1>1
    <3> HIDE DEF T
    <3> QED BY <3>1, LeastNatural
  <2>2. i # 0 /\ i \in 0..n
    BY <1>2, <2>1
  <2> HIDE DEF Good
  <2>3. i \in 1..n /\ i - 1 \in 0..n /\ i - 1 \notin T
    BY <1>1, <2>1, <2>2
  <2>4. Good(i - 1)
    BY <2>3
  <2> DEFINE l == m - (i - 1)
             b == g[i - 1]
  <2>5. Sound(b, K) /\ g[i] = EvictLast(b)
    BY <1>1, <2>3, SoundRounds DEF IsRounds
  <2>6. l \in Nat /\ l # 0 /\ l - 1 = m - i
    BY <1>1, <2>3
  <2> HIDE DEF l, b
  <2>7. /\ Forth(b, FirstOf(s, l), l) /\ Back(b, FirstOf(s, l), l)
        /\ KeysOf(b, FirstOf(s, l), l) = FirstOf(ks, l) /\ ~b.broken
    BY <2>4 DEF Good, l, b
  <2>8. /\ Forth(EvictLast(b), FirstOf(FirstOf(s, l), l - 1), l - 1)
        /\ Back(EvictLast(b), FirstOf(FirstOf(s, l), l - 1), l - 1)
        /\ KeysOf(EvictLast(b), FirstOf(FirstOf(s, l), l - 1), l - 1)
             = FirstOf(KeysOf(b, FirstOf(s, l), l), l - 1)
        /\ ~EvictLast(b).broken
    BY <2>5, <2>6, <2>7, EvictLastOrder
  <2>9. \A f : FirstOf(FirstOf(f, l), l - 1) = FirstOf(f, l - 1)
    <3> TAKE f
    <3>1. \A j \in 1..(l - 1) : FirstOf(f, l)[j] = f[j]
      BY <2>6 DEF FirstOf
    <3> QED BY <3>1 DEF FirstOf
  <2>10. Good(i)
    BY <2>5, <2>6, <2>7, <2>8, <2>9 DEF Good
  <2> QED BY <2>1, <2>10
<1>4. n \in 0..n
  BY <1>1
<1>5. Good(n)
  <2> HIDE DEF Good
  <2> QED BY <1>3, <1>4
<1> QED BY <1>5

LEMMA FlushOrder ==
  ASSUME NEW K, NEW c, Sound(c, K), ~c.broken, NEW s, NEW m,
         Forth(c, s, m), Back(c, s, m), NEW order \in SetToSeqs(keys(c))
  PROVE  /\ ~flush(c, order).broken /\ keys(flush(c, order)) = {}
         /\ Forth(flush(c, order), <<>>, 0) /\ Back(flush(c, order), <<>>, 0)
<1> DEFINE n == Cardinality(keys(c))
<1>1. n \in Nat /\ IsFiniteSet(keys(c))
  BY FS_CardinalityType DEF Sound
<1>2. order \in [1..n -> keys(c)] /\ \A i, j \in 1..n : i # j => order[i] # order[j]
  BY DEF SetToSeqs
<1>3. \A k \in keys(c) : \E i \in 1..n : order[i] = k
  <2>1. order \in Injection(1..n, keys(c))
    BY <1>2 DEF Injection, IsInjective
  <2>2. IsFiniteSet(1..n) /\ Cardinality(1..n) = n
    BY <1>1, FS_Interval
  <2>3. order \in Surjection(1..n, keys(c))
    BY <1>1, <2>1, <2>2, FS_Injection
  <2> QED BY <2>3 DEF Surjection
<1> HIDE DEF n
<1>4. order \in Seq(keys(c)) /\ Len(order) = n
  BY <1>1, <1>2, ListLemma
<1>5. PICK g : IsFlushing(g, c, order) /\ flush(c, order) = g[n]
  BY <1>4, FlushingExists
<1>6. \A i \in 0..n : Sound(g[i], K)
  BY <1>4, <1>5, SoundFlushing
<1>7. g[0] = c /\ \A i \in 1..n : g[i] = evict(g[i - 1], order[i])
  BY <1>4, <1>5 DEF IsFlushing
<1> DEFINE Good(i) == /\ ~g[i].broken
                      /\ keys(g[i]) = {k \in keys(c) : \A j \in 1..i : order[j] # k}
                      /\ \E t, l : Forth(g[i], t, l) /\ Back(g[i], t, l)
           T == {i \in 0..n : ~Good(i)}
<1>8. Good(0)
  BY <1>7
<1>9. T = {}
  <2> SUFFICES ASSUME T # {} PROVE FALSE
    OBVIOUS
  <2>1. PICK i \in T : \A j \in T : i <= j
    <3> HIDE DEF Good
    <3>1. T \in SUBSET Nat
      BY <1>1
    <3> HIDE DEF T
    <3> QED BY <3>1, LeastNatural
  <2>2. i # 0 /\ i \in 0..n
    BY <1>8, <2>1
  <2> HIDE DEF Good
  <2>3. i \in 1..n /\ i - 1 \in 0..n /\ i - 1 \notin T
    BY <1>1, <2>1, <2>2
  <2>4. Good(i - 1)
    BY <2>3
  <2> DEFINE b == g[i - 1]
             k == order[i]
             d == g[i]
  <2>5. Sound(b, K) /\ d = evict(b, k)
    BY <1>6, <1>7, <2>3
  <2>6. /\ ~b.broken /\ keys(b) = {x \in keys(c) : \A j \in 1..(i - 1) : order[j] # x}
        /\ \E t, l : Forth(b, t, l) /\ Back(b, t, l)
    BY <2>4 DEF Good
  <2>7. keys(b) \ {k} = {x \in keys(c) : \A j \in 1..i : order[j] # x}
    <3>1. \A j \in 1..i : j = i \/ j \in 1..(i - 1)
      BY <2>3
    <3>2. i \in 1..i /\ \A j \in 1..(i - 1) : j \in 1..i
      BY <2>3
    <3> QED BY <2>6, <3>1, <3>2
  <2> HIDE DEF b, k, d
  <2>8. /\ ~d.broken /\ keys(d) = keys(b) \ {k}
        /\ \E t, l : Forth(d, t, l) /\ Back(d, t, l)
    <3>1. CASE k \notin keys(b)
      <4>1. d = b
        BY <2>5, <3>1, Zenon DEF evict, exists
      <4> QED BY <2>6, <3>1, <4>1, SMTT(40)
    <3>2. CASE k \in keys(b)
      <4>1. PICK t, l : Forth(b, t, l) /\ Back(b, t, l)
        BY <2>6
      <4>2. PICK j \in 1..l : t[j] = b.hash[k]
        BY <3>2, <4>1 DEF Forth, IsOrder
      <4>3. /\ Forth(evict(b, k), Dropped(t, j, l), l - 1)
            /\ Back(evict(b, k), Dropped(t, j, l), l - 1)
            /\ ~evict(b, k).broken /\ keys(evict(b, k)) = keys(b) \ {k}
        BY <2>5, <2>6, <3>2, <4>1, <4>2, EvictOrder
      <4> QED BY <2>5, <4>3
    <3> QED BY <3>1, <3>2
  <2>9. Good(i)
    BY <2>7, <2>8 DEF Good, d
  <2> QED BY <2>1, <2>9
<1>10. Good(n)
  <2>1. n \in 0..n
    BY <1>1
  <2> HIDE DEF Good
  <2> QED BY <1>9, <2>1
<1>11. keys(g[n]) = {} /\ ~g[n].broken
  BY <1>3, <1>10
<1>12. PICK t, l : Forth(g[n], t, l) /\ Back(g[n], t, l)
  BY <1>10
<1>13. l = 0 /\ t = <<>>
  <2>1. l \in Nat /\ \A j \in 1..l : \E k \in keys(g[n]) : t[j] = g[n].hash[k]
    BY <1>12 DEF Forth, IsOrder
  <2>2. 1 \notin 1..l
    BY <1>11, <2>1
  <2>3. l = 0
    BY <2>1, <2>2
  <2> QED BY <1>12, <2>1, <2>3, ListLemma DEF Forth, IsOrder
<1> QED BY <1>5, <1>11, <1>12, <1>13

-----------------------------------------------------------------------------
(* The refinement                                                          *)

\* The lists of RecentlyUsed, by position.
LEMMA RemoveAtLemma ==
  ASSUME NEW S, NEW m \in Nat, NEW s \in [1..m -> S], NEW i \in 1..m
  PROVE  Lru!RemoveAt(s, i) = Dropped(s, i, m)
<1>1. s \in Seq(S) /\ Len(s) = m
  BY ListLemma
<1> DEFINE a == SubSeq(s, 1, i - 1)
           b == SubSeq(s, i + 1, m)
<1>2. a = [k \in 1..(i - 1) |-> s[k]] /\ a \in Seq(S) /\ Len(a) = i - 1
  <2>1. i - 1 \in Nat /\ 1..(i - 1) \subseteq 1..m
    OBVIOUS
  <2>2. a = [k \in 1..(i - 1) |-> s[k]]
    BY <1>1, <2>1
  <2>3. a \in [1..(i - 1) -> S]
    BY <2>1, <2>2
  <2> QED BY <2>1, <2>2, <2>3, ListLemma
<1>3. b = [k \in 1..(m - i) |-> s[k + i]] /\ b \in Seq(S) /\ Len(b) = m - i
  <2>1. m - i \in Nat /\ \A k \in 1..(m - i) : k + i \in 1..m
    OBVIOUS
  <2>2. b = [k \in 1..(m - i) |-> s[k + i]]
    BY <1>1, <2>1
  <2>3. b \in [1..(m - i) -> S]
    BY <2>1, <2>2
  <2> QED BY <2>1, <2>2, <2>3, ListLemma
<1>4. Lru!RemoveAt(s, i) = a \o b
  BY <1>1 DEF Lru!RemoveAt
<1> HIDE DEF a, b
<1>5. a \o b = [k \in 1..(m - 1) |-> IF k <= i - 1 THEN a[k] ELSE b[k - (i - 1)]]
  <2>1. Len(a) + Len(b) = m - 1
    BY <1>2, <1>3
  <2> QED BY <1>2, <1>3, <2>1
<1>6. ASSUME NEW k \in 1..(m - 1)
      PROVE  (IF k <= i - 1 THEN a[k] ELSE b[k - (i - 1)]) = IF k < i THEN s[k] ELSE s[k + 1]
  <2>1. CASE k < i
    <3>1. k \in 1..(i - 1) /\ k <= i - 1
      BY <2>1
    <3> QED BY <1>2, <2>1, <3>1
  <2>2. CASE ~(k < i)
    <3>1. /\ k - (i - 1) \in 1..(m - i)
          /\ ~(k <= i - 1)
          /\ (k - (i - 1)) + i = k + 1
      BY <2>2
    <3> QED BY <1>3, <2>2, <3>1
  <2> QED BY <2>1, <2>2
<1> QED BY <1>4, <1>5, <1>6 DEF Dropped

LEMMA ConsLemma ==
  ASSUME NEW S, NEW m \in Nat, NEW s \in [1..m -> S], NEW x \in S
  PROVE  <<x>> \o s = Pushed(x, s, m)
<1>1. s \in Seq(S) /\ Len(s) = m
  BY ListLemma
<1>2. <<x>> \in Seq(S) /\ Len(<<x>>) = 1 /\ <<x>>[1] = x
  OBVIOUS
<1>3. <<x>> \o s = [k \in 1..(m + 1) |-> IF k <= 1 THEN <<x>>[k] ELSE s[k - 1]]
  <2>1. Len(<<x>>) + Len(s) = m + 1
    BY <1>1, <1>2
  <2> QED BY <1>1, <1>2, <2>1
<1>4. ASSUME NEW k \in 1..(m + 1)
      PROVE  (IF k <= 1 THEN <<x>>[k] ELSE s[k - 1]) = IF k = 1 THEN x ELSE s[k - 1]
  BY <1>2
<1> QED BY <1>3, <1>4 DEF Pushed

LEMMA FrontedLemma ==
  ASSUME NEW S, NEW m \in Nat, NEW s \in [1..m -> S], NEW i \in 1..m
  PROVE  <<s[i]>> \o Lru!RemoveAt(s, i) = Fronted(s, i, m)
<1> DEFINE r == Dropped(s, i, m)
<1>1. /\ m - 1 \in Nat /\ (m - 1) + 1 = m /\ s[i] \in S
  OBVIOUS
<1>2. \A k \in 1..(m - 1) : r[k] = IF k < i THEN s[k] ELSE s[k + 1]
  BY DEF Dropped
<1>3. r \in [1..(m - 1) -> S]
  <2>1. \A k \in 1..(m - 1) : (IF k < i THEN s[k] ELSE s[k + 1]) \in S
    <3> TAKE k \in 1..(m - 1)
    <3>1. k \in 1..m /\ k + 1 \in 1..m
      OBVIOUS
    <3> QED BY <3>1
  <2> QED BY <2>1 DEF Dropped
<1>4. Lru!RemoveAt(s, i) = r
  BY RemoveAtLemma
<1> HIDE DEF r
<1>5. <<s[i]>> \o r = Pushed(s[i], r, m - 1)
  BY <1>1, <1>3, ConsLemma
<1>6. ASSUME NEW k \in 1..m
      PROVE  (IF k = 1 THEN s[i] ELSE r[k - 1])
               = IF k = 1 THEN s[i] ELSE IF k <= i THEN s[k - 1] ELSE s[k]
  <2>1. CASE k = 1
    BY <2>1
  <2>2. CASE k # 1
    <3>1. k - 1 \in 1..(m - 1) /\ (k - 1) + 1 = k /\ (k - 1 < i <=> k <= i)
      BY <2>2
    <3> QED BY <1>2, <2>2, <3>1
  <2> QED BY <2>1, <2>2
<1> QED BY <1>1, <1>4, <1>5, <1>6 DEF Pushed, Fronted

LEMMA KeysOfLemma ==
  ASSUME NEW K, NEW c, Sound(c, K), NEW s, NEW m, Forth(c, s, m)
  PROVE  m \in Nat /\ KeysOf(c, s, m) \in [1..m -> keys(c)]
<1>1. \A i \in 1..m : c.node[s[i]].key \in keys(c)
  BY OrderKeys
<1> QED BY <1>1 DEF KeysOf, Forth, IsOrder

\* The mapping of a cache that is well linked.
Mapped(c, ks, m) ==
  /\ m \in Nat /\ ks \in [1..m -> keys(c)] /\ m = size(c)
  /\ RecentKeys(c) = ks /\ WellLinked(c)

LEMMA MappedLemma ==
  ASSUME NEW K, NEW c, Sound(c, K), NEW s, NEW m, Forth(c, s, m), Back(c, s, m)
  PROVE  Mapped(c, KeysOf(c, s, m), m)
BY KeysOfLemma, RecentKeysLemma DEF Mapped

LEMMA CollectedMapped ==
  ASSUME NEW K, NEW c, Sound(c, K), NEW s, NEW m, Forth(c, s, m), Back(c, s, m)
  PROVE  /\ Mapped(Collected(c), KeysOf(c, s, m), m)
         /\ Collected(c).max = c.max /\ Collected(c).broken = c.broken
<1>1. Sound(Collected(c), K) /\ Collects(c, Collected(c))
  BY CollectedLemma
<1> DEFINE d == Collected(c)
<1> HIDE DEF d
<1>2. Sound(d, K) /\ Collects(c, d)
  BY <1>1 DEF d
<1>3. Forth(d, s, m) /\ Back(d, s, m) /\ KeysOf(d, s, m) = KeysOf(c, s, m)
  BY <1>2, CollectedOrder
<1>4. Mapped(d, KeysOf(c, s, m), m)
  BY <1>2, <1>3, MappedLemma
<1>5. d.max = c.max /\ d.broken = c.broken
  BY <1>2 DEF Collects
<1> QED BY <1>4, <1>5 DEF d

LEMMA EmptyOrder ==
  ASSUME NEW c, keys(c) = {}, c.begin = None, c.end = None
  PROVE  Forth(c, <<>>, 0) /\ Back(c, <<>>, 0) /\ KeysOf(c, <<>>, 0) = <<>>
<1>1. 1..0 = {} /\ \A S : <<>> \in [{} -> S]
  OBVIOUS
<1>2. IsOrder(c, <<>>, 0)
  BY <1>1 DEF IsOrder
<1>3. KeysOf(c, <<>>, 0) = <<>>
  BY <1>1 DEF KeysOf
<1> QED BY <1>1, <1>2, <1>3 DEF Forth, Back

LEMMA LruInit == Init => Lru!Init
<1> SUFFICES ASSUME Init PROVE Lru!Init
  OBVIOUS
<1>1. /\ Sound(cache, Used) /\ keys(cache) = {} /\ cache.begin = None /\ cache.end = None
      /\ cache.max = 256 /\ ~cache.broken
  <2>1. cache = NewCache(256) /\ 256 \in Nat
    BY DEF Init
  <2> QED BY <2>1, NewLemma
<1>2. Mapped(cache, <<>>, 0)
  <2>1. Mapped(cache, KeysOf(cache, <<>>, 0), 0)
    BY <1>1, EmptyOrder, MappedLemma
  <2> QED BY <1>1, <2>1, EmptyOrder
<1> QED BY <1>1, <1>2 DEF Lru!Init, Mapped

LEMMA LruHit ==
  ASSUME Inv, NEW u \in uses, NEW str, uvm_re_match_hit(u, str), WellLinked(cache)
  PROVE  Lru!Next /\ cache'.broken = cache.broken /\ (WellLinked(cache') \/ HitsLast)
<1> DEFINE k == Re(u)
           n == cache.hash[k]
           m == size(cache)
<1>1. k \in keys(cache) /\ ~cache.broken /\ cache' = Collected(m_update(cache, n))
  BY DEF uvm_re_match_hit, exists, get
<1>2. Sound(cache, Used)
  BY DEF Inv
<1> HIDE DEF k, m
<1>3. PICK s : Forth(cache, s, m) /\ Back(cache, s, m)
  BY <1>2, WellLinkedOrder DEF m
<1>4. PICK i \in 1..m : s[i] = n
  BY <1>1, <1>3 DEF Forth, IsOrder
<1> DEFINE d == m_update(cache, n)
           t == Fronted(s, i, m)
           ks == KeysOf(cache, s, m)
<1>5. /\ Forth(d, t, m) /\ (i # m \/ i = 1 => Back(d, t, m))
      /\ KeysOf(d, t, m) = Fronted(ks, i, m) /\ d.broken = cache.broken
  BY <1>2, <1>3, <1>4, UpdateOrder
<1>6. Sound(d, Used) /\ d.max = cache.max
  <2>1. n \in DOMAIN cache.node
    BY <1>1, <1>2, SoundProperties
  <2> QED BY <1>2, <2>1, SoundUpdate DEF SameKeys
<1>7. Mapped(cache, ks, m)
  BY <1>2, <1>3, MappedLemma
<1> HIDE DEF d, t, ks
<1>8. Sound(cache', Used) /\ Collects(d, cache')
  <2>1. cache' = Collected(d)
    BY <1>1 DEF d
  <2> QED BY <1>6, <2>1, CollectedLemma
<1>9. /\ Forth(cache', t, m) /\ (Back(d, t, m) => Back(cache', t, m))
      /\ KeysOf(cache', t, m) = Fronted(ks, i, m)
  BY <1>5, <1>6, <1>8, CollectedOrder
<1>10. /\ RecentKeys(cache') = Fronted(ks, i, m)
       /\ WellLinked(cache') <=> Back(cache', t, m)
  BY <1>8, <1>9, RecentKeysLemma
<1>11. cache'.max = cache.max /\ cache'.broken = cache.broken
  BY <1>5, <1>6, <1>8 DEF Collects
<1>12. <<ks[i]>> \o Lru!RemoveAt(ks, i) = Fronted(ks, i, m)
  BY <1>7, FrontedLemma DEF Mapped
<1>13. DOMAIN ks = 1..m /\ Len(ks) = m /\ m \in Nat
  BY <1>7, ListLemma DEF Mapped
<1>14. ~WellLinked(cache') => Len(ks) > 1 /\ i = Len(ks)
  BY <1>5, <1>9, <1>10, <1>13
<1>15. RecentKeys(cache) = ks
  BY <1>7 DEF Mapped
<1>16. Lru!Use
  <2>1. i \in DOMAIN RecentKeys(cache)
    BY <1>13, <1>15
  <2>2. RecentKeys(cache') = <<RecentKeys(cache)[i]>> \o Lru!RemoveAt(RecentKeys(cache), i)
    BY <1>10, <1>12, <1>15
  <2> QED BY <1>11, <2>1, <2>2 DEF Lru!Use
<1>17. WellLinked(cache') \/ HitsLast
  <2>1. Fronted(ks, i, m)[1] = ks[i]
    BY <1>13 DEF Fronted
  <2> QED BY <1>10, <1>14, <1>15, <2>1 DEF HitsLast
<1> QED BY <1>11, <1>16, <1>17 DEF Lru!Next

LEMMA LruMiss ==
  ASSUME Inv, NEW u \in uses, NEW str, uvm_re_match_miss(u, str), WellLinked(cache),
         cache' # cache, ~AddsBeyondLimit
  PROVE  Lru!Next /\ cache'.broken = cache.broken /\ WellLinked(cache')
<1> DEFINE k == Re(u)
           n == FreshNode(cache)
           m == size(cache)
<1>1. k \notin keys(cache) /\ ~cache.broken /\ DOMAIN cache.node # Nodes /\ k \in Used
  BY DEF uvm_re_match_miss, exists, Used
<1>2. PICK rexp \in Handles : cache' = Collected(put(cache, k, rexp))
  BY DEF uvm_re_match_miss, Stored
<1>3. Sound(cache, Used)
  BY DEF Inv
<1> HIDE DEF k, m
<1>4. PICK s : Forth(cache, s, m) /\ Back(cache, s, m)
  BY <1>3, WellLinkedOrder DEF m
<1> DEFINE d == put(cache, k, rexp)
           t == Pushed(n, s, m)
           ks == KeysOf(cache, s, m)
<1>5. Sound(d, Used) /\ Added(cache, d, n, k, rexp)
  BY <1>1, <1>3, SoundPut
<1>6. n \notin DOMAIN cache.node /\ n # None
  <2>1. DOMAIN cache.node \subseteq Nodes
    BY <1>3 DEF Sound
  <2> QED BY <1>1, <2>1, NodesAssumption DEF FreshNode
<1>7. Mapped(cache, ks, m)
  BY <1>3, <1>4, MappedLemma
<1> HIDE DEF d, n
<1>8. /\ Forth(d, t, m + 1) /\ Back(d, t, m + 1)
      /\ KeysOf(d, t, m + 1) = Pushed(k, ks, m) /\ \A i \in 1..m : ks[i] # k
  BY <1>1, <1>3, <1>4, <1>5, <1>6, PutOrder
<1> HIDE DEF ks, t
<1>9. cache' = Collected(d)
  BY <1>2 DEF d
<1>10. /\ Mapped(cache', Pushed(k, ks, m), m + 1)
       /\ cache'.max = cache.max /\ cache'.broken = cache.broken
  BY <1>5, <1>8, <1>9, CollectedMapped DEF Added
<1>11. Pushed(k, ks, m) = <<k>> \o ks /\ m \in Nat /\ DOMAIN ks = 1..m
  <2>1. ks \in [1..m -> Used] /\ m \in Nat
    BY <1>3, <1>7, SoundProperties DEF Mapped
  <2> QED BY <1>1, <2>1, ConsLemma
<1>12. Pushed(k, ks, m)[1] = k /\ Pushed(k, ks, m) # <<>>
  <2>1. 1 \in 1..(m + 1)
    BY <1>11
  <2>3. Pushed(k, ks, m) # <<>>
    <3>1. m + 1 \in Nat /\ m + 1 # 0 /\ Pushed(k, ks, m) \in [1..(m + 1) -> keys(cache')]
      BY <1>10, <1>11 DEF Mapped
    <3> QED BY <3>1, ListLemma
  <2> QED BY <2>1, <2>3 DEF Pushed
<1>13. /\ RecentKeys(cache) = ks /\ RecentKeys(cache') = Pushed(k, ks, m)
       /\ WellLinked(cache')
  BY <1>7, <1>10 DEF Mapped
<1>14. cache.max = 0 \/ m < cache.max
  <2>1. k \in keys(cache') \ keys(cache)
    <3>1. 1 \in 1..(m + 1) /\ Pushed(k, ks, m) \in [1..(m + 1) -> keys(cache')]
      BY <1>10, <1>11 DEF Mapped
    <3> QED BY <1>1, <1>12, <3>1
  <2>2. cache.max \in Nat
    BY <1>3, SoundProperties
  <2> QED BY <1>11, <2>1, <2>2 DEF AddsBeyondLimit, m
<1>15. Lru!Limited(Pushed(k, ks, m), cache.max) = Pushed(k, ks, m)
  <2>1. Len(Pushed(k, ks, m)) = m + 1
    BY <1>10, ListLemma DEF Mapped
  <2>2. cache.max \in Nat
    BY <1>3, SoundProperties
  <2> QED BY <1>11, <1>14, <2>1, <2>2 DEF Lru!Limited
<1>16. Lru!Use
  <2>1. RecentKeys(cache') # <<>> /\ RecentKeys(cache')[1] = k
    BY <1>12, <1>13
  <2>2. \A i \in DOMAIN RecentKeys(cache) : RecentKeys(cache)[i] # RecentKeys(cache')[1]
    BY <1>8, <1>11, <1>13, <2>1
  <2>3. RecentKeys(cache') = Lru!Limited(<<RecentKeys(cache')[1]>> \o RecentKeys(cache), cache.max)
    BY <1>11, <1>13, <1>15, <2>1
  <2> QED BY <1>10, <2>1, <2>2, <2>3 DEF Lru!Use
<1> QED BY <1>10, <1>13, <1>16 DEF Lru!Next

LEMMA LruEvict ==
  ASSUME Inv, NEW k \in keys(cache), Evicting(evict(cache, k)), WellLinked(cache)
  PROVE  Lru!Next /\ cache'.broken = cache.broken /\ WellLinked(cache')
<1> DEFINE m == size(cache)
           d == evict(cache, k)
<1>1. ~cache.broken /\ cache' = Collected(d)
  BY DEF Evicting
<1>2. Sound(cache, Used)
  BY DEF Inv
<1>3. Sound(d, Used) /\ d.max = cache.max
  BY <1>2, SoundEvict DEF Sheds
<1> HIDE DEF m
<1>4. PICK s : Forth(cache, s, m) /\ Back(cache, s, m)
  BY <1>2, WellLinkedOrder DEF m
<1>5. PICK i \in 1..m : s[i] = cache.hash[k]
  BY <1>4 DEF Forth, IsOrder
<1> DEFINE t == Dropped(s, i, m)
           ks == KeysOf(cache, s, m)
<1>6. /\ Forth(d, t, m - 1) /\ Back(d, t, m - 1)
      /\ KeysOf(d, t, m - 1) = Dropped(ks, i, m) /\ ~d.broken
  BY <1>1, <1>2, <1>4, <1>5, EvictOrder
<1>7. Mapped(cache, ks, m)
  BY <1>2, <1>4, MappedLemma
<1> HIDE DEF d, t, ks
<1>8. /\ Mapped(cache', Dropped(ks, i, m), m - 1)
      /\ cache'.max = cache.max /\ ~cache'.broken
  BY <1>1, <1>3, <1>6, CollectedMapped
<1>9. Lru!RemoveAt(ks, i) = Dropped(ks, i, m) /\ DOMAIN ks = 1..m
  BY <1>7, RemoveAtLemma DEF Mapped
<1>10. /\ RecentKeys(cache) = ks /\ RecentKeys(cache') = Dropped(ks, i, m)
       /\ WellLinked(cache')
  BY <1>7, <1>8 DEF Mapped
<1>11. cache'.broken = cache.broken
  <2>1. cache.broken \in BOOLEAN /\ cache'.broken \in BOOLEAN
    <3>1. Sound(cache', Used)
      BY <1>1, <1>3, CollectedLemma
    <3> QED BY <1>2, <3>1, SoundProperties
  <2> QED BY <1>1, <1>8, <2>1
<1>12. Lru!Drop
  <2>1. i \in DOMAIN RecentKeys(cache)
    BY <1>9, <1>10
  <2>2. RecentKeys(cache') = Lru!RemoveAt(RecentKeys(cache), i)
    BY <1>9, <1>10
  <2> QED BY <1>8, <1>10, <2>1, <2>2 DEF Lru!Drop
<1> QED BY <1>10, <1>11, <1>12 DEF Lru!Next

LEMMA SubSeqLemma ==
  ASSUME NEW S, NEW m \in Nat, NEW s \in [1..m -> S], NEW l \in 0..m
  PROVE  SubSeq(s, 1, l) = FirstOf(s, l) /\ (l = m => FirstOf(s, l) = s)
<1>1. s \in Seq(S) /\ Len(s) = m
  BY ListLemma
<1>2. SubSeq(s, 1, l) = [j \in 1..l |-> s[j]]
  BY <1>1
<1>3. s = [j \in 1..m |-> s[j]]
  OBVIOUS
<1> QED BY <1>2, <1>3 DEF FirstOf

LEMMA LruResize ==
  ASSUME Inv, NEW max \in Sizes, Evicting(set_max_size(cache, max)), WellLinked(cache)
  PROVE  Lru!Next /\ cache'.broken = cache.broken /\ WellLinked(cache')
<1> DEFINE m == size(cache)
           b == [cache EXCEPT !.max = max]
           n == Rounds(b)
           d == set_max_size(cache, max)
<1>1. ~cache.broken /\ cache' = Collected(d) /\ max \in Nat
  BY RegexAssumption DEF Evicting
<1>2. Sound(cache, Used)
  BY DEF Inv
<1>3. Sound(d, Used) /\ d.max = max
  BY <1>1, <1>2, SoundSetMaxSize
<1>4. /\ Sound(b, Used) /\ b.max = max /\ b.hash = cache.hash /\ b.node = cache.node
      /\ b.begin = cache.begin /\ b.end = cache.end /\ b.broken = cache.broken
  BY <1>1, <1>2, ResizedLemma
<1>5. d = evict_to_max(b)
  BY DEF set_max_size
<1>6. n \in Nat /\ m \in Nat
  BY <1>2, <1>4, RoundsInNat
<1> HIDE DEF b, d, m
<1>7. PICK s : Forth(cache, s, m) /\ Back(cache, s, m)
  BY <1>2, WellLinkedOrder DEF m
<1> DEFINE ks == KeysOf(cache, s, m)
<1>8. Forth(b, s, m) /\ Back(b, s, m) /\ KeysOf(b, s, m) = ks
  <2>1. keys(b) = keys(cache)
    BY <1>4 DEF keys
  <2> QED BY <1>4, <1>7, <2>1 DEF Forth, Back, IsOrder, KeysOf
<1>9. size(b) = m
  BY <1>4 DEF size, keys, m
<1>10. /\ n = IF max = 0 \/ m <= max THEN 0 ELSE m - max
       /\ n \in 0..m
  <2>1. n = IF max = 0 \/ m <= max THEN 0 ELSE m - max
    BY <1>4, <1>9 DEF Rounds
  <2> HIDE DEF n
  <2> QED BY <1>1, <1>6, <2>1
<1>11. PICK g : IsRounds(g, b, n) /\ evict_to_max(b) = g[n]
  BY <1>6, RoundsExist
<1> HIDE DEF n, ks
<1>12. /\ Forth(d, FirstOf(s, m - n), m - n) /\ Back(d, FirstOf(s, m - n), m - n)
       /\ KeysOf(d, FirstOf(s, m - n), m - n) = FirstOf(ks, m - n)
       /\ ~d.broken
  BY <1>1, <1>4, <1>5, <1>8, <1>10, <1>11, RoundsOrder
<1>13. /\ Mapped(cache', FirstOf(ks, m - n), m - n)
       /\ cache'.max = max /\ ~cache'.broken
  BY <1>1, <1>3, <1>12, CollectedMapped
<1>14. Mapped(cache, ks, m)
  BY <1>2, <1>7, MappedLemma DEF ks
<1>15. /\ RecentKeys(cache) = ks /\ RecentKeys(cache') = FirstOf(ks, m - n)
       /\ WellLinked(cache') /\ Len(ks) = m
  BY <1>13, <1>14, ListLemma DEF Mapped
<1>16. FirstOf(ks, m - n) = IF max = 0 \/ m <= max THEN ks ELSE SubSeq(ks, 1, max)
  <2>1. ks \in [1..m -> keys(cache)]
    BY <1>14 DEF Mapped
  <2>2. CASE max = 0 \/ m <= max
    <3>1. m - n = m /\ m \in 0..m
      BY <1>6, <1>10, <2>2
    <3>2. FirstOf(ks, m) = ks
      BY <1>6, <2>1, <3>1, SubSeqLemma
    <3> QED BY <2>2, <3>1, <3>2
  <2>3. CASE ~(max = 0 \/ m <= max)
    <3>1. m - n = max /\ max \in 0..m
      BY <1>1, <1>6, <1>10, <2>3
    <3>2. SubSeq(ks, 1, max) = FirstOf(ks, max)
      BY <1>6, <2>1, <3>1, SubSeqLemma, SMTT(40)
    <3> QED BY <2>3, <3>1, <3>2
  <2> QED BY <2>2, <2>3
<1>17. cache'.broken = cache.broken
  <2>1. cache.broken \in BOOLEAN /\ cache'.broken \in BOOLEAN
    <3>1. Sound(cache', Used)
      BY <1>1, <1>3, CollectedLemma
    <3> QED BY <1>2, <3>1, SoundProperties
  <2> QED BY <1>1, <1>13, <2>1
<1>18. Lru!Resize
  <2>1. RecentKeys(cache') = Lru!Limited(RecentKeys(cache), cache'.max)
    BY <1>13, <1>15, <1>16 DEF Lru!Limited
  <2> QED BY <1>1, <1>13, <2>1 DEF Lru!Resize
<1> QED BY <1>15, <1>17, <1>18 DEF Lru!Next

LEMMA LruFlush ==
  ASSUME Inv, NEW order \in SetToSeqs(keys(cache)), Evicting(flush(cache, order)),
         WellLinked(cache)
  PROVE  Lru!Next /\ cache'.broken = cache.broken /\ WellLinked(cache')
<1> DEFINE m == size(cache)
           d == flush(cache, order)
<1>1. ~cache.broken /\ cache' = Collected(d)
  BY DEF Evicting
<1>2. Sound(cache, Used)
  BY DEF Inv
<1>3. Sound(d, Used) /\ d.max = cache.max
  <2>1. order \in Seq(keys(cache))
    <3>1. Cardinality(keys(cache)) \in Nat
      BY <1>2, FS_CardinalityType DEF Sound
    <3> QED BY <3>1 DEF SetToSeqs
  <2> QED BY <1>2, <2>1, SoundFlush
<1> HIDE DEF m
<1>4. PICK s : Forth(cache, s, m) /\ Back(cache, s, m)
  BY <1>2, WellLinkedOrder DEF m
<1>5. ~d.broken /\ keys(d) = {} /\ Forth(d, <<>>, 0) /\ Back(d, <<>>, 0)
  BY <1>1, <1>2, <1>4, FlushOrder
<1> HIDE DEF d
<1>6. KeysOf(d, <<>>, 0) = <<>>
  <2>1. 1..0 = {} /\ \A S : <<>> \in [{} -> S]
    OBVIOUS
  <2> QED BY <2>1 DEF KeysOf
<1>7. Mapped(cache', <<>>, 0) /\ cache'.max = cache.max /\ ~cache'.broken
  BY <1>1, <1>3, <1>5, <1>6, CollectedMapped
<1>8. cache'.broken = cache.broken
  <2>1. cache.broken \in BOOLEAN /\ cache'.broken \in BOOLEAN
    <3>1. Sound(cache', Used)
      BY <1>1, <1>3, CollectedLemma
    <3> QED BY <1>2, <3>1, SoundProperties
  <2> QED BY <1>1, <1>7, <2>1
<1>9. Lru!Drop
  BY <1>7 DEF Lru!Drop, Mapped
<1> QED BY <1>7, <1>8, <1>9 DEF Lru!Next, Mapped

\* What OrderIsKept says of one step.
KeepsOrder ==
  WellLinked(cache) /\ ~AddsBeyondLimit =>
    /\ Lru!Next \/ UNCHANGED Lru!vars
    /\ cache'.broken = cache.broken
    /\ WellLinked(cache') \/ HitsLast

LEMMA LruStep == Inv /\ [Next]_vars => KeepsOrder
<1> SUFFICES ASSUME Inv, [Next]_vars, WellLinked(cache), ~AddsBeyondLimit PROVE KeepsOrder
  BY DEF KeepsOrder
<1>1. CASE cache' = cache
  BY <1>1 DEF KeepsOrder, Lru!vars
<1>2. CASE cache' # cache
  <2>1. ASSUME NEW u \in uses, NEW str, uvm_re_match(u, str) PROVE FALSE
    BY <1>2, <2>1 DEF uvm_re_match
  <2>2. ASSUME NEW u \in uses, NEW str, uvm_re_match_hit(u, str) PROVE KeepsOrder
    BY <2>2, LruHit DEF KeepsOrder
  <2>3. ASSUME NEW u \in uses, NEW str, uvm_re_match_miss(u, str) PROVE KeepsOrder
    BY <1>2, <2>3, LruMiss DEF KeepsOrder
  <2>4. CASE Evict
    BY <2>4, LruEvict DEF Evict, KeepsOrder
  <2>5. CASE SetMaxSize
    BY <2>5, LruResize DEF SetMaxSize, KeepsOrder
  <2>6. CASE Flush
    BY <2>6, LruFlush DEF Flush, KeepsOrder
  <2>7. CASE UNCHANGED vars
    BY <1>2, <2>7 DEF vars
  <2> QED BY <2>1, <2>2, <2>3, <2>4, <2>5, <2>6, <2>7 DEF Next
<1> QED BY <1>1, <1>2

\* Every operation on a list of nodes in order, the loops of evict_to_max and
\* flush included, is one of the documented cache and leaves a list in order,
\* but for a put beyond the limit and a hit on the least recently used of
\* several keys, whatever the keys, nodes, sizes and handles.
THEOREM CacheIsRecentlyUsed == Spec => OrderIsKept
<1>1. Inv /\ [Next]_vars => KeepsOrder
  BY LruStep
<1> QED BY <1>1, InvHolds, PTL DEF Spec, OrderIsKept, KeepsOrder
=============================================================================
