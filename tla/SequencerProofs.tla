-------------------------- MODULE SequencerProofs --------------------------
(***************************************************************************)
(* The safety of the sequencer for any number of sequences, items, locks   *)
(* and kills.  The lists come first: what appending, pushing, removing and *)
(* scanning do to a list (the scan by induction on its length, from the    *)
(* least element of a set of naturals), then what they do to a queue in    *)
(* which no sequence has two requests.  The invariant says that the queue, *)
(* the grants and the places of the sequences agree, that the locks have   *)
(* one owner, and who is where in the exchange of an item; each action     *)
(* keeps it, and the properties follow from it.  The last part shows that  *)
(* the sequencer implements ItemExchange: what a sequence is in the middle *)
(* of is its stage, and a call of grant_queued_locks is a Grant because a  *)
(* sequence that waits for a lock has its request in the queue.            *)
(***************************************************************************)
EXTENDS SequencerClients, WellFoundedInduction, TLAPS

-----------------------------------------------------------------------------
(* Numbers and lists *)

\* Every set of naturals that is not empty has a least element, which is
\* what induction rests on here.
LEMMA LeastNatural ==
  ASSUME NEW T \in SUBSET Nat, T # {}
  PROVE  \E m \in T : \A k \in T : m <= k
<1> DEFINE R == {p \in Nat \X Nat : p[1] < p[2]}
<1>1. IsWellFoundedOn(R, Nat)
  BY NatLessThanWellFounded DEF OpToRel
<1>2. \A m, k \in T : <<k, m>> \notin R => m <= k
  BY SMT
<1> HIDE DEF R
<1>3. \E m \in T : \A k \in T : <<k, m>> \notin R
  BY <1>1, WFMin
<1> QED BY <1>2, <1>3

LEMMA MinIsMember ==
  ASSUME NEW T \in SUBSET Nat, T # {}
  PROVE  Min(T) \in T
BY LeastNatural DEF Min

Members(s) == {s[i] : i \in DOMAIN s}

LEMMA ListProperties ==
  ASSUME NEW S, NEW s \in Seq(S)
  PROVE  /\ Len(s) \in Nat
         /\ DOMAIN s = 1..Len(s)
         /\ \A i \in DOMAIN s : s[i] \in S
         /\ Members(s) \subseteq S
BY SMT DEF Members

LEMMA AppendLemma ==
  ASSUME NEW S, NEW s \in Seq(S), NEW e \in S
  PROVE  /\ Append(s, e) \in Seq(S)
         /\ Len(Append(s, e)) = Len(s) + 1
         /\ \A i \in 1..(Len(s) + 1) :
              Append(s, e)[i] = IF i <= Len(s) THEN s[i] ELSE e
BY SMT

LEMMA ConcatLemma ==
  ASSUME NEW S, NEW a \in Seq(S), NEW b \in Seq(S)
  PROVE  /\ a \o b \in Seq(S)
         /\ Len(a \o b) = Len(a) + Len(b)
         /\ \A k \in 1..(Len(a) + Len(b)) :
              (a \o b)[k] = IF k <= Len(a) THEN a[k] ELSE b[k - Len(a)]
BY SMT

LEMMA SingletonLemma ==
  ASSUME NEW S, NEW s \in Seq(S), Len(s) <= 1, s # <<>>
  PROVE  s = <<Head(s)>> /\ Head(s) \in S
<1>1. Len(s) = 1 /\ Head(s) = s[1] /\ s[1] \in S
  BY SMT
<1>2. /\ <<Head(s)>> \in Seq(S)
      /\ Len(<<Head(s)>>) = 1
      /\ <<Head(s)>>[1] = s[1]
  BY <1>1
<1>3. s = <<Head(s)>>
  BY <1>1, <1>2, SMT
<1> QED BY <1>1, <1>3

LEMMA RemoveAtLemma ==
  ASSUME NEW S, NEW s \in Seq(S), NEW i \in 1..Len(s)
  PROVE  /\ RemoveAt(s, i) \in Seq(S)
         /\ Len(RemoveAt(s, i)) = Len(s) - 1
         /\ \A k \in 1..(Len(s) - 1) :
              RemoveAt(s, i)[k] = IF k < i THEN s[k] ELSE s[k + 1]
<1> DEFINE a == SubSeq(s, 1, i - 1)
           b == SubSeq(s, i + 1, Len(s))
<1>1. Len(s) \in Nat /\ \A k \in 1..Len(s) : s[k] \in S
  BY SMT
<1>2. a \in Seq(S) /\ Len(a) = i - 1 /\ \A k \in 1..(i - 1) : a[k] = s[k]
  BY <1>1, SMT
<1>3. /\ b \in Seq(S)
      /\ Len(b) = Len(s) - i
      /\ \A k \in 1..(Len(s) - i) : b[k] = s[k + i]
  BY <1>1, SMT
<1>4. RemoveAt(s, i) = a \o b
  BY DEF RemoveAt
<1> HIDE DEF a, b
<1>5. /\ a \o b \in Seq(S)
      /\ Len(a \o b) = Len(a) + Len(b)
      /\ \A k \in 1..(Len(a) + Len(b)) :
           (a \o b)[k] = IF k <= Len(a) THEN a[k] ELSE b[k - Len(a)]
  BY <1>2, <1>3, ConcatLemma
<1>6. Len(a) + Len(b) = Len(s) - 1
  BY <1>1, <1>2, <1>3
<1>7. ASSUME NEW k \in 1..(Len(s) - 1)
      PROVE  (a \o b)[k] = IF k < i THEN s[k] ELSE s[k + 1]
  <2>1. CASE k < i
    <3>1. k \in 1..(i - 1) /\ k <= Len(a)
      BY <1>1, <1>2, <2>1
    <3> QED BY <1>2, <1>5, <1>6, <2>1, <3>1
  <2>2. CASE ~(k < i)
    <3>1. /\ k - (i - 1) \in 1..(Len(s) - i)
          /\ ~(k <= Len(a))
          /\ (k - (i - 1)) + i = k + 1
      BY <1>1, <1>2, <2>2
    <3> QED BY <1>2, <1>3, <1>5, <1>6, <2>2, <3>1
  <2> QED BY <2>1, <2>2
<1> QED BY <1>4, <1>5, <1>6, <1>7

\* The scan visits every index once: it is a function on 0..Len(q).
KeptStep(q, keep, before, n) ==
  IF q[n] \in keep THEN Append(before, q[n]) ELSE before

LEMMA KeptExists ==
  ASSUME NEW S, NEW q \in Seq(S), NEW keep
  PROVE  \E g : /\ Kept(q, keep) = g[Len(q)]
                /\ g[0] = <<>>
                /\ \A n \in 1..Len(q) : g[n] = KeptStep(q, keep, g[n - 1], n)
<1> DEFINE Upto(g, n) ==
             /\ g = [i \in 0..n |-> g[i]]
             /\ g[0] = <<>>
             /\ \A i \in 1..n : g[i] = KeptStep(q, keep, g[i - 1], i)
           T == {n \in 0..Len(q) : ~ \E g : Upto(g, n)}
           Rec(g) == g = [n \in 0..Len(q) |->
                            IF n = 0 THEN <<>>
                            ELSE IF q[n] \in keep THEN Append(g[n - 1], q[n])
                                 ELSE g[n - 1]]
<1>1. Len(q) \in Nat
  BY ListProperties
<1>2. T = {}
  <2> SUFFICES ASSUME T # {} PROVE FALSE
    OBVIOUS
  <2>1. PICK m \in T : \A k \in T : m <= k
    <3> HIDE DEF Upto
    <3>1. T \in SUBSET Nat
      BY <1>1
    <3> HIDE DEF T
    <3> QED BY <3>1, LeastNatural
  <2>2. m # 0
    <3>1. Upto([i \in 0..0 |-> <<>>], 0)
      OBVIOUS
    <3> QED BY <3>1
  <2>3. m - 1 \in 0..Len(q) /\ m - 1 \notin T
    BY <1>1, <2>1, <2>2
  <2>4. PICK g : Upto(g, m - 1)
    BY <2>3
  <2> DEFINE h == [i \in 0..m |-> IF i = m THEN KeptStep(q, keep, g[m - 1], m)
                                  ELSE g[i]]
  <2>5. Upto(h, m)
    <3>1. h = [i \in 0..m |-> h[i]] /\ h[0] = <<>>
      BY <1>1, <2>2, <2>4
    <3>2. ASSUME NEW i \in 1..m PROVE h[i] = KeptStep(q, keep, h[i - 1], i)
      <4>1. i \in 0..m /\ i - 1 \in 0..m /\ i - 1 # m
        BY <1>1
      <4>2. h[i - 1] = g[i - 1]
        BY <4>1
      <4>3. CASE i = m
        BY <4>1, <4>2, <4>3
      <4>4. CASE i # m
        <5>1. i \in 1..(m - 1)
          BY <1>1, <4>4
        <5> QED BY <2>4, <4>1, <4>2, <4>4, <5>1
      <4> QED BY <4>3, <4>4
    <3> QED BY <3>1, <3>2
  <2> QED BY <2>1, <2>5
<1>3. PICK g : Upto(g, Len(q))
  BY <1>1, <1>2
<1>4. Rec(g)
  <2>1. \A n \in 0..Len(q) : g[n] = IF n = 0 THEN <<>>
                            ELSE IF q[n] \in keep THEN Append(g[n - 1], q[n])
                                 ELSE g[n - 1]
    <3>1. \A n \in 0..Len(q) : n = 0 \/ n \in 1..Len(q)
      BY <1>1
    <3>2. \A n \in 1..Len(q) : n # 0
      OBVIOUS
    <3>3. /\ g[0] = <<>>
          /\ \A n \in 1..Len(q) : g[n] = KeptStep(q, keep, g[n - 1], n)
      BY <1>3
    <3> QED BY <3>1, <3>2, <3>3, Zenon DEF KeptStep
  <2> QED BY <1>3, <2>1
<1> DEFINE f == CHOOSE f : Rec(f)
<1>5. Rec(f)
  BY <1>4
<1>6. Kept(q, keep) = f[Len(q)]
  BY DEF Kept
<1> HIDE DEF f
<1>7. f[0] = <<>> /\ \A n \in 1..Len(q) : f[n] = KeptStep(q, keep, f[n - 1], n)
  <2>1. \A n \in 1..Len(q) : n # 0 /\ n \in 0..Len(q)
    BY <1>1
  <2>2. 0 \in 0..Len(q)
    BY <1>1
  <2>3. \A n \in 0..Len(q) : f[n] = IF n = 0 THEN <<>>
                            ELSE IF q[n] \in keep THEN Append(f[n - 1], q[n])
                                 ELSE f[n - 1]
    BY <1>5, Zenon
  <2> QED BY <2>1, <2>2, <2>3, Zenon DEF KeptStep
<1> QED BY <1>6, <1>7

\* The list r picks members of the first n of q, in order and each once.
Picks(r, f, q, n) ==
  /\ f \in [1..Len(r) -> 1..n]
  /\ \A k \in 1..Len(r) : r[k] = q[f[k]]
  /\ \A j, k \in 1..Len(r) : f[j] = f[k] => j = k

LEMMA KeptLemma ==
  ASSUME NEW S, NEW q \in Seq(S), NEW keep
  PROVE  /\ Kept(q, keep) \in Seq(S)
         /\ Members(Kept(q, keep)) = Members(q) \cap keep
         /\ \E f : Picks(Kept(q, keep), f, q, Len(q))
<1>1. PICK g : /\ Kept(q, keep) = g[Len(q)]
               /\ g[0] = <<>>
               /\ \A n \in 1..Len(q) : g[n] = KeptStep(q, keep, g[n - 1], n)
  BY KeptExists
<1>2. /\ Len(q) \in Nat
      /\ DOMAIN q = 1..Len(q)
      /\ \A i \in 1..Len(q) : q[i] \in S
  BY ListProperties
<1> DEFINE Good(n) == /\ g[n] \in Seq(S)
                      /\ Members(g[n]) = {q[i] : i \in 1..n} \cap keep
                      /\ \E f : Picks(g[n], f, q, n)
           T == {n \in 0..Len(q) : ~Good(n)}
<1>3. Good(0)
  <2>1. g[0] \in Seq(S) /\ Len(g[0]) = 0 /\ DOMAIN g[0] = {}
    BY <1>1
  <2>2. Members(g[0]) = {q[i] : i \in 1..0} \cap keep
    BY <2>1 DEF Members
  <2>3. Picks(g[0], [k \in 1..0 |-> 1], q, 0)
    BY <2>1 DEF Picks
  <2> QED BY <2>1, <2>2, <2>3
<1>4. ASSUME NEW n \in 1..Len(q), Good(n - 1) PROVE Good(n)
  <2> DEFINE r == g[n - 1]
  <2>1. r \in Seq(S) /\ Len(r) \in Nat /\ DOMAIN r = 1..Len(r)
    BY <1>4, ListProperties
  <2>2. PICK f : Picks(r, f, q, n - 1)
    BY <1>4
  <2>3. 1..n = (1..(n - 1)) \cup {n} /\ n \in 1..Len(q) /\ n \in Int
    BY <1>2
  <2>4. {q[i] : i \in 1..n} = {q[i] : i \in 1..(n - 1)} \cup {q[n]}
    BY <2>3
  <2>5. g[n] = KeptStep(q, keep, r, n)
    BY <1>1
  <2>6. Members(r) = {q[i] : i \in 1..(n - 1)} \cap keep
    BY <1>4
  <2> HIDE DEF r
  <2>7. CASE q[n] \in keep
    <3> DEFINE p == [k \in 1..(Len(r) + 1) |-> IF k <= Len(r) THEN f[k] ELSE n]
    <3>1. g[n] = Append(r, q[n])
      BY <2>5, <2>7 DEF KeptStep
    <3>2. /\ g[n] \in Seq(S)
          /\ Len(g[n]) = Len(r) + 1
          /\ \A k \in 1..(Len(r) + 1) :
               g[n][k] = IF k <= Len(r) THEN r[k] ELSE q[n]
          /\ DOMAIN g[n] = 1..(Len(r) + 1)
      BY <1>2, <2>1, <3>1, AppendLemma, ListProperties
    <3>3. Members(g[n]) = Members(r) \cup {q[n]}
      <4>1. \A k \in 1..(Len(r) + 1) : k \in 1..Len(r) \/ k = Len(r) + 1
        BY <2>1
      <4>2. \A k \in 1..Len(r) : k \in 1..(Len(r) + 1) /\ g[n][k] = r[k]
        BY <2>1, <3>2
      <4>3. Len(r) + 1 \in 1..(Len(r) + 1) /\ g[n][Len(r) + 1] = q[n]
        BY <2>1, <3>2
      <4> QED BY <2>1, <3>2, <4>1, <4>2, <4>3 DEF Members
    <3>4. Picks(g[n], p, q, n)
      <4>1. /\ \A k \in 1..Len(r) : f[k] \in 1..(n - 1)
            /\ \A k \in 1..Len(r) : r[k] = q[f[k]]
            /\ \A j, k \in 1..Len(r) : f[j] = f[k] => j = k
        BY <2>2 DEF Picks
      <4>2. \A k \in 1..(Len(r) + 1) :
              \/ k \in 1..Len(r) /\ p[k] = f[k] /\ p[k] \in 1..n /\ p[k] # n
              \/ k = Len(r) + 1 /\ p[k] = n
        BY <2>1, <2>3, <4>1
      <4>3. p \in [1..(Len(r) + 1) -> 1..n]
        BY <2>3, <4>2
      <4>4. \A k \in 1..(Len(r) + 1) : g[n][k] = q[p[k]]
        <5> SUFFICES ASSUME NEW k \in 1..(Len(r) + 1) PROVE g[n][k] = q[p[k]]
          OBVIOUS
        <5> HIDE DEF p
        <5>1. CASE k \in 1..Len(r) /\ p[k] = f[k]
          BY <2>1, <3>2, <4>1, <5>1
        <5>2. CASE k = Len(r) + 1 /\ p[k] = n
          BY <2>1, <3>2, <5>2
        <5> QED BY <4>2, <5>1, <5>2
      <4>5. \A j, k \in 1..(Len(r) + 1) : p[j] = p[k] => j = k
        BY <4>1, <4>2
      <4> HIDE DEF p
      <4> QED BY <3>2, <4>3, <4>4, <4>5 DEF Picks
    <3> QED BY <2>4, <2>6, <2>7, <3>2, <3>3, <3>4
  <2>8. CASE q[n] \notin keep
    <3>1. g[n] = r
      BY <2>5, <2>8 DEF KeptStep
    <3>2. Picks(r, f, q, n)
      BY <2>2, <2>3 DEF Picks
    <3> QED BY <2>1, <2>4, <2>6, <2>8, <3>1, <3>2
  <2> QED BY <2>7, <2>8
<1> HIDE DEF Good
<1>5. T = {}
  <2> SUFFICES ASSUME T # {} PROVE FALSE
    OBVIOUS
  <2>1. PICK m \in T : \A k \in T : m <= k
    <3>1. T \in SUBSET Nat
      BY <1>2
    <3> HIDE DEF T
    <3> QED BY <3>1, LeastNatural
  <2>2. m \in 1..Len(q) /\ m - 1 \in 0..Len(q) /\ ~(m <= m - 1)
    BY <1>2, <1>3, <2>1
  <2> QED BY <1>4, <2>1, <2>2
<1>6. Good(Len(q))
  BY <1>2, <1>5
<1> QED BY <1>1, <1>2, <1>6 DEF Good, Members

-----------------------------------------------------------------------------
(* Queues of requests *)

\* No sequence has two requests in q.
Distinct(q) == \A i, j \in DOMAIN q : q[i].seq = q[j].seq => i = j

LEMMA RequestProperties ==
  ASSUME NEW q \in Seq(ArbRequest)
  PROVE  \A r \in Members(q) : r \in ArbRequest /\ r.seq \in Seqs
<1>1. \A r \in Members(q) : r \in ArbRequest
  BY ListProperties
<1> QED BY <1>1 DEF ArbRequest

LEMMA AppendRequest ==
  ASSUME NEW q \in Seq(ArbRequest), Distinct(q),
         NEW r \in ArbRequest, \A t \in Members(q) : t.seq # r.seq
  PROVE  /\ Append(q, r) \in Seq(ArbRequest)
         /\ Distinct(Append(q, r))
         /\ Members(Append(q, r)) = Members(q) \cup {r}
<1> DEFINE p == Append(q, r)
<1>1. /\ Len(q) \in Nat
      /\ DOMAIN q = 1..Len(q)
      /\ \A i \in 1..Len(q) : q[i].seq # r.seq
  BY ListProperties DEF Members
<1>2. /\ p \in Seq(ArbRequest)
      /\ DOMAIN p = 1..(Len(q) + 1)
      /\ \A i \in 1..(Len(q) + 1) : p[i] = IF i <= Len(q) THEN q[i] ELSE r
  BY AppendLemma, ListProperties
<1>3. /\ \A i \in DOMAIN p : \/ i \in 1..Len(q) /\ p[i] = q[i]
                             \/ i = Len(q) + 1 /\ p[i] = r
      /\ \A i \in 1..Len(q) : i \in DOMAIN p /\ p[i] = q[i]
      /\ Len(q) + 1 \in DOMAIN p /\ p[Len(q) + 1] = r
  BY <1>1, <1>2
<1> HIDE DEF p
<1>4. Distinct(p)
  BY <1>1, <1>3 DEF Distinct
<1>5. Members(p) = Members(q) \cup {r}
  BY <1>1, <1>3 DEF Members
<1> QED BY <1>2, <1>4, <1>5 DEF p

LEMMA PushRequest ==
  ASSUME NEW q \in Seq(ArbRequest), Distinct(q),
         NEW r \in ArbRequest, \A t \in Members(q) : t.seq # r.seq
  PROVE  /\ <<r>> \o q \in Seq(ArbRequest)
         /\ Distinct(<<r>> \o q)
         /\ Members(<<r>> \o q) = Members(q) \cup {r}
<1> DEFINE p == <<r>> \o q
<1>1. /\ Len(q) \in Nat
      /\ DOMAIN q = 1..Len(q)
      /\ \A i \in 1..Len(q) : q[i].seq # r.seq
  BY ListProperties DEF Members
<1>2. <<r>> \in Seq(ArbRequest) /\ Len(<<r>>) = 1 /\ <<r>>[1] = r
  OBVIOUS
<1>3. /\ p \in Seq(ArbRequest)
      /\ Len(p) = 1 + Len(q)
      /\ \A i \in 1..(1 + Len(q)) : p[i] = IF i <= 1 THEN <<r>>[i] ELSE q[i - 1]
  BY <1>2, ConcatLemma
<1>4. DOMAIN p = 1..(1 + Len(q))
  BY <1>3, ListProperties
<1> HIDE DEF p
<1>5. /\ \A i \in DOMAIN p : \/ i - 1 \in 1..Len(q) /\ p[i] = q[i - 1]
                             \/ i = 1 /\ p[i] = r
      /\ \A i \in 1..Len(q) : i + 1 \in DOMAIN p /\ p[i + 1] = q[i]
      /\ 1 \in DOMAIN p /\ p[1] = r
  BY <1>1, <1>2, <1>3, <1>4, SMTT(40)
<1>6. Distinct(p)
  <2> SUFFICES ASSUME NEW i \in DOMAIN p, NEW j \in DOMAIN p, p[i].seq = p[j].seq
               PROVE  i = j
    BY DEF Distinct
  <2>1. i \in Int /\ j \in Int
    BY <1>1, <1>4
  <2>2. CASE i - 1 \in 1..Len(q) /\ p[i] = q[i - 1]
    <3>1. j - 1 \in 1..Len(q) /\ p[j] = q[j - 1]
      BY <1>1, <1>5, <2>2
    <3>2. i - 1 = j - 1
      BY <1>1, <2>2, <3>1 DEF Distinct
    <3> QED BY <2>1, <3>2
  <2>3. CASE i = 1 /\ p[i] = r
    <3>1. j = 1
      BY <1>1, <1>5, <2>3
    <3> QED BY <2>3, <3>1
  <2> QED BY <1>5, <2>2, <2>3
<1>7. Members(p) = Members(q) \cup {r}
  <2>1. \A x \in Members(p) : x \in Members(q) \cup {r}
    BY <1>1, <1>5 DEF Members
  <2>2. \A x \in Members(q) : x \in Members(p)
    BY <1>1, <1>5 DEF Members
  <2>3. r \in Members(p)
    BY <1>5 DEF Members
  <2> QED BY <2>1, <2>2, <2>3
<1> QED BY <1>3, <1>6, <1>7 DEF p

LEMMA RemoveRequest ==
  ASSUME NEW q \in Seq(ArbRequest), Distinct(q), NEW i \in DOMAIN q
  PROVE  /\ RemoveAt(q, i) \in Seq(ArbRequest)
         /\ Distinct(RemoveAt(q, i))
         /\ Members(RemoveAt(q, i)) = Members(q) \ {q[i]}
<1> DEFINE p == RemoveAt(q, i)
<1>1. /\ Len(q) \in Nat
      /\ DOMAIN q = 1..Len(q)
      /\ i \in 1..Len(q)
  BY ListProperties, SMTT(40)
<1>2. /\ p \in Seq(ArbRequest)
      /\ Len(p) = Len(q) - 1
      /\ \A k \in 1..(Len(q) - 1) : p[k] = IF k < i THEN q[k] ELSE q[k + 1]
  BY <1>1, RemoveAtLemma
<1>3. DOMAIN p = 1..(Len(q) - 1)
  BY <1>2, ListProperties
<1> DEFINE from(k) == IF k < i THEN k ELSE k + 1
<1>4. \A k \in DOMAIN p : /\ from(k) \in DOMAIN q
                          /\ from(k) # i
                          /\ p[k] = q[from(k)]
  BY <1>1, <1>2, <1>3
<1>5. \A j, k \in DOMAIN p : from(j) = from(k) => j = k
  BY <1>1, <1>3
<1>6. \A j \in DOMAIN q : j # i => \E k \in DOMAIN p : p[k] = q[j]
  <2> SUFFICES ASSUME NEW j \in DOMAIN q, j # i
               PROVE  \E k \in DOMAIN p : p[k] = q[j]
    OBVIOUS
  <2>1. CASE j < i
    <3>1. j \in DOMAIN p /\ p[j] = q[j]
      BY <1>1, <1>2, <1>3, <2>1
    <3> QED BY <3>1
  <2>2. CASE ~(j < i)
    <3>1. j - 1 \in DOMAIN p /\ ~(j - 1 < i) /\ (j - 1) + 1 = j
      BY <1>1, <1>3, <2>2
    <3>2. p[j - 1] = q[j]
      BY <1>2, <1>3, <3>1
    <3> QED BY <3>1, <3>2
  <2> QED BY <2>1, <2>2
<1> HIDE DEF p, from
<1>7. Distinct(p)
  BY <1>4, <1>5 DEF Distinct
<1>8. Members(p) = Members(q) \ {q[i]}
  <2>1. \A j \in DOMAIN q : q[j] = q[i] => j = i
    BY DEF Distinct
  <2> QED BY <1>4, <1>6, <2>1 DEF Members
<1> QED BY <1>2, <1>7, <1>8 DEF p

LEMMA KeptRequests ==
  ASSUME NEW q \in Seq(ArbRequest), Distinct(q), NEW keep
  PROVE  /\ Kept(q, keep) \in Seq(ArbRequest)
         /\ Distinct(Kept(q, keep))
         /\ Members(Kept(q, keep)) = Members(q) \cap keep
<1> DEFINE p == Kept(q, keep)
<1>1. p \in Seq(ArbRequest) /\ Members(p) = Members(q) \cap keep
  BY KeptLemma
<1>2. PICK f : Picks(p, f, q, Len(q))
  BY KeptLemma
<1>3. DOMAIN p = 1..Len(p) /\ DOMAIN q = 1..Len(q)
  BY <1>1, ListProperties
<1> HIDE DEF p
<1>4. Distinct(p)
  BY <1>2, <1>3 DEF Distinct, Picks
<1> QED BY <1>1, <1>4 DEF p

LEMMA AppendMember ==
  ASSUME NEW S, NEW s \in Seq(S), NEW e \in S
  PROVE  Append(s, e) \in Seq(S) /\ Members(Append(s, e)) = Members(s) \cup {e}
<1>1. /\ Append(s, e) \in Seq(S)
      /\ Len(s) \in Nat
      /\ DOMAIN s = 1..Len(s)
      /\ DOMAIN Append(s, e) = 1..(Len(s) + 1)
      /\ \A i \in 1..(Len(s) + 1) :
           Append(s, e)[i] = IF i <= Len(s) THEN s[i] ELSE e
  BY AppendLemma, ListProperties
<1>2. /\ \A i \in 1..Len(s) : /\ i \in 1..(Len(s) + 1)
                              /\ Append(s, e)[i] = s[i]
      /\ Len(s) + 1 \in 1..(Len(s) + 1)
      /\ Append(s, e)[Len(s) + 1] = e
      /\ \A i \in 1..(Len(s) + 1) : i \in 1..Len(s) \/ i = Len(s) + 1
  BY <1>1
<1> QED BY <1>1, <1>2 DEF Members

LEMMA RemoveMember ==
  ASSUME NEW S, NEW s \in Seq(S), NEW i \in DOMAIN s
  PROVE  RemoveAt(s, i) \in Seq(S) /\ Members(RemoveAt(s, i)) \subseteq Members(s)
<1>1. Len(s) \in Nat /\ DOMAIN s = 1..Len(s) /\ i \in 1..Len(s)
  BY ListProperties, SMTT(40)
<1>2. /\ RemoveAt(s, i) \in Seq(S)
      /\ Len(RemoveAt(s, i)) = Len(s) - 1
      /\ \A k \in 1..(Len(s) - 1) :
           RemoveAt(s, i)[k] = IF k < i THEN s[k] ELSE s[k + 1]
  BY <1>1, RemoveAtLemma
<1>3. DOMAIN RemoveAt(s, i) = 1..(Len(s) - 1)
  BY <1>2, ListProperties
<1>4. \A k \in 1..(Len(s) - 1) : k \in DOMAIN s /\ k + 1 \in DOMAIN s
  BY <1>1
<1>5. \A k \in DOMAIN RemoveAt(s, i) : RemoveAt(s, i)[k] \in Members(s)
  BY <1>2, <1>3, <1>4, SMTT(40) DEF Members
<1> QED BY <1>2, <1>5 DEF Members

-----------------------------------------------------------------------------
(* The invariant *)

\* The queue, the grants not yet taken and the place of each sequence agree:
\* a sequence has one request at most, the one it waits for, and a sequence
\* that waits is in the queue or granted, unless it was killed.
QueueOK(q, done, at) ==
  /\ q \in Seq(ArbRequest)
  /\ done \subseteq Seqs
  /\ Distinct(q)
  /\ \A r \in Members(q) :
       /\ r.seq \notin done
       /\ at[r.seq] = IF r.request = "SEQ_TYPE_REQ"
                      THEN "wait_for_grant" ELSE "wait_for_lock"
  /\ \A s \in done : at[s] \in {"wait_for_grant", "wait_for_lock", "killed"}
  /\ \A s \in Seqs : at[s] \in {"wait_for_grant", "wait_for_lock"} =>
       s \in done \/ \E r \in Members(q) : r.seq = s

Exclusive(locks) ==
  /\ locks \in Seq(Seqs)
  /\ \A x, y \in Members(locks) : x = y

\* Sequence s has been granted an item that it has not sent.
Promised(s, done, at) ==
  \/ at[s] = "granted"
  \/ at[s] = "wait_for_grant" /\ s \in done

Items == [seq : Seqs, item : Nat]

Places == {"created", "body", "wait_for_grant", "granted",
           "wait_for_item_done", "wait_for_lock", "finished", "killed"}

CallCounts == [item : Nat, lock : Nat, grab : Nat, wait : Nat]

Types ==
  /\ m_req_fifo \in Seq(Items) /\ Len(m_req_fifo) <= 1
  /\ m_wait_for_item_sequence_id \in Seqs \cup {Null}
  /\ get_next_item_called \in BOOLEAN
  /\ seq_at \in [Seqs -> Places]
  /\ driver_at \in {"clock", "choose", "peek", "return"}
  /\ selected \in Seqs \cup {Null}
  /\ next_item \in Items \cup {Null}
  /\ asleep \subseteq Seqs
  /\ calls \in [Seqs -> CallCounts]
  /\ delivered \in [Seqs -> Nat]

\* Who is where in the exchange of an item.
Exchange ==
  /\ \A s \in Seqs : Promised(s, arb_completed, seq_at) =>
       driver_at = "peek" /\ selected = s /\ m_req_fifo = <<>>
  /\ driver_at = "peek" =>
       /\ selected \in Seqs
       /\ \/ m_req_fifo = <<>> /\ Promised(selected, arb_completed, seq_at)
          \/ m_req_fifo = <<>> /\ seq_at[selected] = "killed"
          \/ m_req_fifo # <<>>
  /\ driver_at \in {"choose", "peek"} => next_item = Null
  /\ driver_at = "return" /\ next_item # Null => m_req_fifo = <<next_item>>
  /\ m_req_fifo # <<>> =>
       /\ driver_at = "peek" \/ (driver_at = "return" /\ next_item # Null)
       /\ m_wait_for_item_sequence_id = Null
       /\ seq_at[m_req_fifo[1].seq] \in {"wait_for_item_done", "killed"}
  /\ \A s \in Seqs : seq_at[s] = "wait_for_item_done" =>
       \/ m_req_fifo # <<>> /\ m_req_fifo[1].seq = s
       \/ driver_at = "clock" /\ m_wait_for_item_sequence_id = s
  /\ \A s \in asleep : seq_at[s] \in {"body", "killed"}

\* What was sent and what was driven.
Accounts ==
  /\ \A s \in Seqs :
       /\ seq_at[s] \in {"created", "body", "wait_for_lock", "finished"} =>
            calls[s].item = delivered[s]
       /\ seq_at[s] \in {"wait_for_grant", "granted"} =>
            calls[s].item = delivered[s] + 1
       /\ seq_at[s] = "wait_for_item_done" =>
            calls[s].item = IF m_wait_for_item_sequence_id = s
                            THEN delivered[s] ELSE delivered[s] + 1
  /\ m_req_fifo # <<>> =>
       m_req_fifo[1].item = delivered[m_req_fifo[1].seq] + 1

Inv ==
  /\ Types
  /\ QueueOK(arb_sequence_q, arb_completed, seq_at)
  /\ Exclusive(lock_list)
  /\ Exchange
  /\ Accounts
  /\ HandshakeIsClean

-----------------------------------------------------------------------------
(* Arbitration *)

Arbiters == [q : Seq(ArbRequest), locks : Seq(Seqs), done : SUBSET Seqs]

LEMMA UnblockedLemma ==
  ASSUME NEW arb \in Arbiters, NEW kind, Unblocked(arb, kind) # {}
  PROVE  LET i == Min(Unblocked(arb, kind))
         IN  /\ i \in DOMAIN arb.q
             /\ arb.q[i] \in Members(arb.q)
             /\ arb.q[i] \in ArbRequest
             /\ arb.q[i].request = kind
             /\ \A x \in Members(arb.locks) : x = arb.q[i].seq
<1> DEFINE U == Unblocked(arb, kind)
<1>1. DOMAIN arb.q \in SUBSET Nat /\ \A i \in DOMAIN arb.q : arb.q[i] \in ArbRequest
  BY ListProperties DEF Arbiters
<1>2. Min(U) \in U
  <2>1. U \in SUBSET Nat
    BY <1>1 DEF Unblocked
  <2> QED BY <2>1, MinIsMember
<1> QED BY <1>1, <1>2 DEF Unblocked, IsBlocked, Members

\* A request that is granted leaves the queue and is noted.
LEMMA GrantRequest ==
  ASSUME NEW q, NEW done, NEW at, QueueOK(q, done, at), NEW i \in DOMAIN q
  PROVE  QueueOK(RemoveAt(q, i), done \cup {q[i].seq}, at)
<1>1. /\ RemoveAt(q, i) \in Seq(ArbRequest)
      /\ Distinct(RemoveAt(q, i))
      /\ Members(RemoveAt(q, i)) = Members(q) \ {q[i]}
  BY RemoveRequest DEF QueueOK
<1>2. \A r \in Members(q) : r.seq = q[i].seq => r = q[i]
  BY DEF QueueOK, Distinct, Members
<1>3. q[i] \in Members(q) /\ q[i] \in ArbRequest
  BY ListProperties DEF QueueOK, Members
<1>4. q[i].seq \in Seqs
  BY <1>3 DEF ArbRequest
<1>5. at[q[i].seq] \in {"wait_for_grant", "wait_for_lock"}
  BY <1>3 DEF QueueOK
<1>6. \A r \in Members(RemoveAt(q, i)) :
        /\ r.seq \notin done \cup {q[i].seq}
        /\ at[r.seq] = IF r.request = "SEQ_TYPE_REQ"
                       THEN "wait_for_grant" ELSE "wait_for_lock"
  BY <1>1, <1>2 DEF QueueOK
<1>7. \A s \in Seqs : at[s] \in {"wait_for_grant", "wait_for_lock"} =>
        s \in done \cup {q[i].seq} \/ \E r \in Members(RemoveAt(q, i)) : r.seq = s
  BY <1>1 DEF QueueOK
<1> QED BY <1>1, <1>4, <1>5, <1>6, <1>7 DEF QueueOK

\* Granting a lock keeps the queue in order and the lock exclusive, and
\* promises nobody an item.
LEMMA GrantLemma ==
  ASSUME NEW arb \in Arbiters, NEW at,
         QueueOK(arb.q, arb.done, at), Exclusive(arb.locks)
  PROVE  LET new == GrantQueuedLocks(arb)
         IN  /\ new \in Arbiters
             /\ QueueOK(new.q, new.done, at)
             /\ Exclusive(new.locks)
             /\ \A s \in Seqs : Promised(s, new.done, at) <=> Promised(s, arb.done, at)
<1> DEFINE new == GrantQueuedLocks(arb)
           U   == Unblocked(arb, "SEQ_TYPE_LOCK")
           i   == Min(U)
           r   == arb.q[i]
<1>1. CASE U = {}
  <2>1. new = arb
    BY <1>1 DEF GrantQueuedLocks
  <2> QED BY <2>1
<1>2. CASE U # {}
  <2>1. /\ i \in DOMAIN arb.q
        /\ r \in Members(arb.q)
        /\ r \in ArbRequest
        /\ r.request = "SEQ_TYPE_LOCK"
        /\ \A x \in Members(arb.locks) : x = r.seq
    BY <1>2, UnblockedLemma
  <2>2. new = [q     |-> RemoveAt(arb.q, i),
               locks |-> Append(arb.locks, r.seq),
               done  |-> arb.done \cup {r.seq}]
    BY <1>2 DEF GrantQueuedLocks
  <2> HIDE DEF i, new
  <2>3. QueueOK(RemoveAt(arb.q, i), arb.done \cup {r.seq}, at)
    BY <2>1, GrantRequest
  <2>4. r.seq \in Seqs
    BY <2>1 DEF ArbRequest
  <2>5. /\ Append(arb.locks, r.seq) \in Seq(Seqs)
        /\ Members(Append(arb.locks, r.seq)) = Members(arb.locks) \cup {r.seq}
    BY <2>4, AppendMember DEF Arbiters
  <2>6. at[r.seq] = "wait_for_lock"
    BY <2>1 DEF QueueOK
  <2>7. \A s \in Seqs : Promised(s, arb.done \cup {r.seq}, at)
                          <=> Promised(s, arb.done, at)
    BY <2>6 DEF Promised
  <2>8. new \in Arbiters
    BY <2>2, <2>3, <2>5 DEF Arbiters, QueueOK
  <2>9. Exclusive(new.locks)
    BY <2>1, <2>2, <2>5 DEF Exclusive
  <2>10. /\ QueueOK(new.q, new.done, at)
         /\ \A s \in Seqs : Promised(s, new.done, at) <=> Promised(s, arb.done, at)
    BY <2>2, <2>3, <2>7
  <2> QED BY <2>8, <2>9, <2>10 DEF new
<1> QED BY <1>1, <1>2

\* Choosing keeps the queue in order, promises an item to the sequence it
\* chooses and to nobody else, and chooses nobody behind a lock.
LEMMA ChooseLemma ==
  ASSUME NEW before \in Arbiters,
         QueueOK(before.q, before.done, seq_at), Exclusive(before.locks),
         \A s \in Seqs : ~Promised(s, before.done, seq_at),
         ChooseNextRequest(before)
  PROVE  /\ QueueOK(arb_sequence_q', arb_completed', seq_at)
         /\ Exclusive(lock_list')
         /\ \/ /\ selected' = Null
               /\ driver_at' = "return"
               /\ get_next_item_called' = get_next_item_called
               /\ \A s \in Seqs : ~Promised(s, arb_completed', seq_at)
            \/ /\ selected' \in Seqs
               /\ driver_at' = "peek"
               /\ get_next_item_called' = TRUE
               /\ \A s \in Seqs : Promised(s, arb_completed', seq_at) <=> s = selected'
               /\ \A x \in Members(lock_list') : x = selected'
<1> DEFINE arb == GrantQueuedLocks(before)
           U   == Unblocked(arb, "SEQ_TYPE_REQ")
           i   == Min(U)
           r   == arb.q[i]
<1>1. /\ arb \in Arbiters
      /\ QueueOK(arb.q, arb.done, seq_at)
      /\ Exclusive(arb.locks)
      /\ \A s \in Seqs : ~Promised(s, arb.done, seq_at)
  BY GrantLemma
<1>2. \/ /\ U = {}
         /\ SetArbiter(arb)
         /\ selected' = Null
         /\ driver_at' = "return"
         /\ UNCHANGED get_next_item_called
      \/ /\ U # {}
         /\ SetArbiter([arb EXCEPT !.q = RemoveAt(@, i), !.done = @ \cup {r.seq}])
         /\ selected' = r.seq
         /\ driver_at' = "peek"
         /\ get_next_item_called' = TRUE
  BY DEF ChooseNextRequest
<1> HIDE DEF arb
<1>3. CASE /\ U = {}
           /\ SetArbiter(arb)
           /\ selected' = Null
           /\ driver_at' = "return"
           /\ UNCHANGED get_next_item_called
  <2>1. arb_sequence_q' = arb.q /\ lock_list' = arb.locks /\ arb_completed' = arb.done
    BY <1>3 DEF SetArbiter
  <2> QED BY <1>1, <1>3, <2>1
<1>4. CASE /\ U # {}
           /\ SetArbiter([arb EXCEPT !.q = RemoveAt(@, i), !.done = @ \cup {r.seq}])
           /\ selected' = r.seq
           /\ driver_at' = "peek"
           /\ get_next_item_called' = TRUE
  <2>1. /\ i \in DOMAIN arb.q
        /\ r \in Members(arb.q)
        /\ r \in ArbRequest
        /\ r.request = "SEQ_TYPE_REQ"
        /\ \A x \in Members(arb.locks) : x = r.seq
    BY <1>1, <1>4, UnblockedLemma
  <2>2. /\ arb_sequence_q' = RemoveAt(arb.q, i)
        /\ lock_list' = arb.locks
        /\ arb_completed' = arb.done \cup {r.seq}
    BY <1>1, <1>4 DEF SetArbiter, Arbiters
  <2> HIDE DEF i
  <2>3. QueueOK(arb_sequence_q', arb_completed', seq_at)
    BY <1>1, <2>1, <2>2, GrantRequest
  <2>4. r.seq \in Seqs /\ seq_at[r.seq] = "wait_for_grant"
    BY <1>1, <2>1 DEF ArbRequest, QueueOK
  <2>5. \A s \in Seqs : Promised(s, arb_completed', seq_at) <=> s = r.seq
    BY <1>1, <2>2, <2>4 DEF Promised
  <2> QED BY <1>1, <1>4, <2>1, <2>2, <2>3, <2>4, <2>5
<1> QED BY <1>2, <1>3, <1>4

-----------------------------------------------------------------------------
(* The queue when a sequence moves *)

LEMMA LocksShrink ==
  ASSUME NEW l, Exclusive(l), NEW m \in Seq(Seqs), Members(m) \subseteq Members(l)
  PROVE  Exclusive(m)
BY DEF Exclusive

\* A sequence that waits for no grant goes where it waits for none either.
LEMMA MoveLemma ==
  ASSUME NEW q, NEW done, NEW at \in [Seqs -> Places], QueueOK(q, done, at),
         NEW s \in Seqs, NEW p \in Places \ {"wait_for_grant", "wait_for_lock"},
         at[s] \notin {"wait_for_grant", "wait_for_lock", "killed"}
  PROVE  QueueOK(q, done, [at EXCEPT ![s] = p])
<1> DEFINE new == [at EXCEPT ![s] = p]
<1>1. new[s] = p /\ \A t \in Seqs : t # s => new[t] = at[t]
  OBVIOUS
<1>2. s \notin done /\ \A r \in Members(q) : r.seq # s
  BY DEF QueueOK
<1>3. \A r \in Members(q) : r.seq \in Seqs
  BY RequestProperties DEF QueueOK
<1> HIDE DEF new
<1>4. \A r \in Members(q) : new[r.seq] = at[r.seq]
  BY <1>1, <1>2, <1>3
<1>5. \A t \in done : new[t] = at[t]
  BY <1>1, <1>2 DEF QueueOK
<1>6. \A t \in Seqs : new[t] \in {"wait_for_grant", "wait_for_lock"} =>
        t \in done \/ \E r \in Members(q) : r.seq = t
  BY <1>1 DEF QueueOK
<1>7. QueueOK(q, done, new)
  BY <1>4, <1>5, <1>6 DEF QueueOK
<1> QED BY <1>7 DEF new

\* A sequence that takes its grant.
LEMMA ResumeLemma ==
  ASSUME NEW q, NEW done, NEW at \in [Seqs -> Places], QueueOK(q, done, at),
         NEW s \in done, NEW p \in Places \ {"wait_for_grant", "wait_for_lock"}
  PROVE  QueueOK(q, done \ {s}, [at EXCEPT ![s] = p])
<1> DEFINE new == [at EXCEPT ![s] = p]
<1>1. s \in Seqs
  BY DEF QueueOK
<1>2. new[s] = p /\ \A t \in Seqs : t # s => new[t] = at[t]
  BY <1>1
<1>3. \A r \in Members(q) : r.seq \in Seqs /\ r.seq # s
  BY RequestProperties DEF QueueOK
<1> HIDE DEF new
<1>4. \A r \in Members(q) : new[r.seq] = at[r.seq]
  BY <1>2, <1>3
<1>5. \A t \in done \ {s} : new[t] = at[t]
  BY <1>2 DEF QueueOK
<1>6. \A t \in Seqs : new[t] \in {"wait_for_grant", "wait_for_lock"} =>
        t \in done \ {s} \/ \E r \in Members(q) : r.seq = t
  BY <1>2 DEF QueueOK
<1>7. QueueOK(q, done \ {s}, new)
  BY <1>4, <1>5, <1>6 DEF QueueOK
<1> QED BY <1>7 DEF new

\* A sequence that makes a request and waits for its grant.
LEMMA RequestLemma ==
  ASSUME NEW q, NEW done, NEW at \in [Seqs -> Places], QueueOK(q, done, at),
         NEW r \in ArbRequest, at[r.seq] = "body",
         NEW new \in Seq(ArbRequest), Distinct(new),
         Members(new) = Members(q) \cup {r}
  PROVE  QueueOK(new, done, [at EXCEPT ![r.seq] =
           IF r.request = "SEQ_TYPE_REQ" THEN "wait_for_grant" ELSE "wait_for_lock"])
<1> DEFINE p   == IF r.request = "SEQ_TYPE_REQ"
                  THEN "wait_for_grant" ELSE "wait_for_lock"
           nat == [at EXCEPT ![r.seq] = p]
<1>1. r.seq \in Seqs
  BY DEF ArbRequest
<1>2. nat[r.seq] = p /\ \A t \in Seqs : t # r.seq => nat[t] = at[t]
  BY <1>1
<1>3. r.seq \notin done /\ \A t \in Members(q) : t.seq # r.seq /\ t.seq \in Seqs
  BY RequestProperties DEF QueueOK
<1> HIDE DEF nat
<1>4. \A t \in Members(q) : nat[t.seq] = at[t.seq]
  BY <1>2, <1>3
<1>5. \A t \in done : nat[t] = at[t]
  BY <1>2, <1>3 DEF QueueOK
<1>6. \A t \in Seqs : nat[t] \in {"wait_for_grant", "wait_for_lock"} =>
        t \in done \/ \E x \in Members(new) : x.seq = t
  BY <1>2 DEF QueueOK
<1>7. QueueOK(new, done, nat)
  BY <1>2, <1>3, <1>4, <1>5, <1>6 DEF QueueOK
<1> QED BY <1>7 DEF nat

\* A sequence that leaves: what it waits for is forgotten.
LEMMA LeaveLemma ==
  ASSUME NEW q, NEW done, NEW at \in [Seqs -> Places], QueueOK(q, done, at),
         NEW s \in Seqs, NEW p,
         p = "killed" \/ (p = "finished" /\ at[s] = "body")
  PROVE  QueueOK(Kept(q, {r \in ArbRequest : r.seq # s}), done,
                 [at EXCEPT ![s] = p])
<1> DEFINE keep == {r \in ArbRequest : r.seq # s}
           k    == Kept(q, keep)
           new  == [at EXCEPT ![s] = p]
<1>1. new[s] = p /\ \A t \in Seqs : t # s => new[t] = at[t]
  OBVIOUS
<1>2. /\ k \in Seq(ArbRequest)
      /\ Distinct(k)
      /\ Members(k) = Members(q) \cap keep
  BY KeptRequests DEF QueueOK
<1>3. \A r \in Members(q) : r \in ArbRequest /\ r.seq \in Seqs
  BY RequestProperties DEF QueueOK
<1>4. \A r \in Members(k) : r \in Members(q) /\ r.seq # s
  BY <1>2
<1>5. \A r \in Members(q) : r.seq # s => r \in Members(k)
  BY <1>2, <1>3
<1> HIDE DEF new, k, keep
<1>6. \A r \in Members(k) : new[r.seq] = at[r.seq]
  BY <1>1, <1>3, <1>4
<1>7. \A t \in done : new[t] \in {"wait_for_grant", "wait_for_lock", "killed"}
  BY <1>1 DEF QueueOK
<1>8. \A t \in Seqs : new[t] \in {"wait_for_grant", "wait_for_lock"} =>
        t \in done \/ \E r \in Members(k) : r.seq = t
  BY <1>1, <1>5 DEF QueueOK
<1>9. QueueOK(k, done, new)
  BY <1>2, <1>4, <1>6, <1>7, <1>8 DEF QueueOK
<1> QED BY <1>9 DEF new, k, keep

LEMMA CountLemma ==
  ASSUME calls \in [Seqs -> CallCounts], NEW s \in Seqs, NEW max,
         NEW call \in {"item", "lock", "grab", "wait"}, Count(s, call, max)
  PROVE  /\ calls' \in [Seqs -> CallCounts]
         /\ calls'[s].item = IF call = "item" THEN calls[s].item + 1
                             ELSE calls[s].item
         /\ \A t \in Seqs : t # s => calls'[t] = calls[t]
<1>1. CASE call = "item"
  BY <1>1 DEF Count, CallCounts
<1>2. CASE call = "lock"
  BY <1>2 DEF Count, CallCounts
<1>3. CASE call = "grab"
  BY <1>3 DEF Count, CallCounts
<1>4. CASE call = "wait"
  BY <1>4 DEF Count, CallCounts
<1> QED BY <1>1, <1>2, <1>3, <1>4

-----------------------------------------------------------------------------
(* The invariant holds at first and is kept by every step *)

LEMMA ArbiterLemma ==
  ASSUME QueueOK(arb_sequence_q, arb_completed, seq_at), Exclusive(lock_list),
         NEW q \in Seq(ArbRequest)
  PROVE  /\ Arbiter(q) \in Arbiters
         /\ Arbiter(q).q = q
         /\ Arbiter(q).locks = lock_list
         /\ Arbiter(q).done = arb_completed
BY DEF Arbiter, Arbiters, QueueOK, Exclusive

LEMMA SetGrantedLemma ==
  ASSUME NEW arb \in Arbiters, NEW at,
         QueueOK(arb.q, arb.done, at), Exclusive(arb.locks),
         SetArbiter(GrantQueuedLocks(arb))
  PROVE  /\ QueueOK(arb_sequence_q', arb_completed', at)
         /\ Exclusive(lock_list')
         /\ \A s \in Seqs : Promised(s, arb_completed', at) <=> Promised(s, arb.done, at)
<1>1. /\ QueueOK(GrantQueuedLocks(arb).q, GrantQueuedLocks(arb).done, at)
      /\ Exclusive(GrantQueuedLocks(arb).locks)
      /\ \A s \in Seqs : Promised(s, GrantQueuedLocks(arb).done, at)
                           <=> Promised(s, arb.done, at)
  BY GrantLemma
<1> QED BY <1>1 DEF SetArbiter

LEMMA InitInv == ClientsInit => Inv
<1> SUFFICES ASSUME ClientsInit PROVE Inv
  OBVIOUS
<1> USE DEF ClientsInit, SequencerInit
<1>1. Types
  <2>1. m_req_fifo \in Seq(Items) /\ Len(m_req_fifo) <= 1
    OBVIOUS
  <2>2. seq_at \in [Seqs -> Places] /\ delivered \in [Seqs -> Nat]
    BY DEF Places
  <2>3. calls \in [Seqs -> CallCounts]
    BY DEF CallCounts
  <2> QED BY <2>1, <2>2, <2>3 DEF Types
<1>2. QueueOK(arb_sequence_q, arb_completed, seq_at)
  <2>1. /\ <<>> \in Seq(ArbRequest)
        /\ Distinct(<<>>)
        /\ Members(<<>>) = {}
    BY DEF Distinct, Members
  <2> QED BY <2>1 DEF QueueOK
<1>3. Exclusive(lock_list)
  BY DEF Exclusive, Members
<1>4. Exchange
  BY DEF Exchange, Promised
<1>5. Accounts
  BY DEF Accounts
<1>6. HandshakeIsClean
  BY DEF HandshakeIsClean
<1> QED BY <1>1, <1>2, <1>3, <1>4, <1>5, <1>6 DEF Inv

LEMMA BeginInv == ASSUME Inv, NEW s \in Seqs, Begin(s) PROVE Inv'
<1> USE DEF Begin, StartSequence, Goto, arbitration, handshake, driver, clients
<1>1. Types'
  BY DEF Inv, Types, Places
<1>2. QueueOK(arb_sequence_q, arb_completed, seq_at)'
  <2>1. QueueOK(arb_sequence_q, arb_completed, [seq_at EXCEPT ![s] = "body"])
    BY MoveLemma DEF Inv, Types, Places
  <2> QED BY <2>1
<1>3. Exclusive(lock_list)'
  BY DEF Inv, Exclusive
<1>4. Exchange'
  BY DEF Inv, Types, Exchange, Promised
<1>5. Accounts'
  BY DEF Inv, Types, Accounts
<1>6. HandshakeIsClean'
  BY DEF Inv, HandshakeIsClean
<1> QED BY <1>1, <1>2, <1>3, <1>4, <1>5, <1>6 DEF Inv

LEMMA StartItemInv ==
  ASSUME Inv, NEW s \in Seqs, StartItem(s), Count(s, "item", MaxItems),
         s \notin asleep, UNCHANGED <<asleep, delivered>>
  PROVE  Inv'
<1> DEFINE r == [request |-> "SEQ_TYPE_REQ", seq |-> s]
<1>1. /\ seq_at[s] = "body"
      /\ seq_at' = [seq_at EXCEPT ![s] = "wait_for_grant"]
      /\ seq_at \in [Seqs -> Places]
      /\ arb_sequence_q' = Append(arb_sequence_q, r)
      /\ UNCHANGED <<arb_completed, lock_list, m_req_fifo, reports,
                     m_wait_for_item_sequence_id, get_next_item_called,
                     driver_at, selected, next_item, asleep, delivered>>
  BY DEF StartItem, Goto, handshake, driver, Inv, Types
<1>2. /\ calls' \in [Seqs -> CallCounts]
      /\ calls'[s].item = calls[s].item + 1
      /\ \A t \in Seqs : t # s => calls'[t] = calls[t]
  BY CountLemma DEF Inv, Types
<1>3. r \in ArbRequest
  BY DEF ArbRequest
<1>4. QueueOK(arb_sequence_q, arb_completed, seq_at)
  BY DEF Inv
<1>5. \A t \in Members(arb_sequence_q) : t.seq # s
  BY <1>1, <1>4 DEF QueueOK
<1>6. Types'
  BY <1>1, <1>2 DEF Inv, Types, Places
<1>7. QueueOK(arb_sequence_q, arb_completed, seq_at)'
  <2> DEFINE p == Append(arb_sequence_q, r)
  <2>1. /\ p \in Seq(ArbRequest)
        /\ Distinct(p)
        /\ Members(p) = Members(arb_sequence_q) \cup {r}
    BY <1>3, <1>4, <1>5, AppendRequest DEF QueueOK
  <2>2. /\ r.seq = s /\ r.request = "SEQ_TYPE_REQ" /\ seq_at[r.seq] = "body"
        /\ seq_at \in [Seqs -> Places]
    BY <1>1
  <2>3. arb_sequence_q' = p
    BY <1>1
  <2> HIDE DEF r, p
  <2>4. QueueOK(p, arb_completed, [seq_at EXCEPT ![r.seq] =
          IF r.request = "SEQ_TYPE_REQ" THEN "wait_for_grant" ELSE "wait_for_lock"])
    BY <1>3, <1>4, <2>1, <2>2, RequestLemma
  <2> QED BY <1>1, <2>2, <2>3, <2>4
<1>8. Exclusive(lock_list)'
  BY <1>1 DEF Inv, Exclusive
<1>9. Exchange'
  <2>1. s \notin arb_completed
    BY <1>1, <1>4 DEF QueueOK
  <2> QED BY <1>1, <2>1 DEF Inv, Types, Exchange, Promised
<1>10. Accounts'
  BY <1>1, <1>2 DEF Inv, Types, Accounts
<1>11. HandshakeIsClean'
  BY <1>1 DEF Inv, HandshakeIsClean
<1> QED BY <1>6, <1>7, <1>8, <1>9, <1>10, <1>11 DEF Inv

\* lock and grab differ in where the request goes.
LEMMA LockedQueue ==
  ASSUME Inv, NEW s \in Seqs, NEW q \in Seq(ArbRequest), RequestLock(s, q),
         Distinct(q), Members(q) = Members(arb_sequence_q) \cup {LockRequest(s)}
  PROVE  QueueOK(q, arb_completed, seq_at')
<1> DEFINE r == LockRequest(s)
<1>1. /\ seq_at[s] = "body"
      /\ seq_at' = [seq_at EXCEPT ![s] = "wait_for_lock"]
      /\ seq_at \in [Seqs -> Places]
      /\ QueueOK(arb_sequence_q, arb_completed, seq_at)
  BY DEF RequestLock, Goto, Inv, Types
<1>2. r \in ArbRequest /\ r.seq = s /\ r.request = "SEQ_TYPE_LOCK"
  BY DEF ArbRequest, LockRequest
<1> HIDE DEF r
<1>3. Members(q) = Members(arb_sequence_q) \cup {r}
  BY DEF r
<1>4. QueueOK(q, arb_completed, [seq_at EXCEPT ![r.seq] =
        IF r.request = "SEQ_TYPE_REQ" THEN "wait_for_grant" ELSE "wait_for_lock"])
  BY <1>1, <1>2, <1>3, RequestLemma
<1> QED BY <1>1, <1>2, <1>4

LEMMA RequestLockInv ==
  ASSUME Inv, NEW s \in Seqs, NEW q \in Seq(ArbRequest), RequestLock(s, q),
         Distinct(q), Members(q) = Members(arb_sequence_q) \cup {LockRequest(s)},
         calls' \in [Seqs -> CallCounts],
         \A t \in Seqs : calls'[t].item = calls[t].item,
         s \notin asleep, UNCHANGED <<asleep, delivered>>
  PROVE  Inv'
<1>1. /\ seq_at[s] = "body"
      /\ seq_at' = [seq_at EXCEPT ![s] = "wait_for_lock"]
      /\ seq_at \in [Seqs -> Places]
      /\ SetArbiter(GrantQueuedLocks(Arbiter(q)))
      /\ UNCHANGED <<m_req_fifo, reports, m_wait_for_item_sequence_id,
                     get_next_item_called, driver_at, selected, next_item,
                     asleep, delivered>>
  BY DEF RequestLock, Goto, handshake, driver, Inv, Types
<1>2. QueueOK(arb_sequence_q, arb_completed, seq_at) /\ Exclusive(lock_list)
  BY DEF Inv
<1>3. s \notin arb_completed
  BY <1>1, <1>2 DEF QueueOK
<1>4. QueueOK(q, arb_completed, seq_at')
  BY LockedQueue
<1>5. /\ QueueOK(arb_sequence_q', arb_completed', seq_at')
      /\ Exclusive(lock_list')
      /\ \A t \in Seqs : Promised(t, arb_completed', seq_at')
                           <=> Promised(t, arb_completed, seq_at')
  <2> DEFINE arb == Arbiter(q)
  <2>1. arb \in Arbiters /\ arb.q = q /\ arb.locks = lock_list
        /\ arb.done = arb_completed
    BY <1>2, ArbiterLemma
  <2> HIDE DEF arb
  <2>2. SetArbiter(GrantQueuedLocks(arb))
    BY <1>1 DEF arb
  <2> QED BY <1>2, <1>4, <2>1, <2>2, SetGrantedLemma
<1>6. Types'
  BY <1>1 DEF Inv, Types, Places
<1>7. Exchange'
  BY <1>1, <1>3, <1>5 DEF Inv, Types, Exchange, Promised
<1>8. Accounts'
  BY <1>1 DEF Inv, Types, Accounts
<1>9. HandshakeIsClean'
  BY <1>1 DEF Inv, HandshakeIsClean
<1> QED BY <1>5, <1>6, <1>7, <1>8, <1>9 DEF Inv

LEMMA LockOrGrab ==
  ASSUME Inv, NEW s \in Seqs, Lock(s) \/ Grab(s)
  PROVE  \E q \in Seq(ArbRequest) :
           /\ RequestLock(s, q)
           /\ Distinct(q)
           /\ Members(q) = Members(arb_sequence_q) \cup {LockRequest(s)}
<1> DEFINE r == LockRequest(s)
<1>1. r \in ArbRequest /\ r.seq = s
  BY DEF LockRequest, ArbRequest
<1>2. seq_at[s] = "body"
  BY DEF Lock, Grab, RequestLock
<1>3. \A t \in Members(arb_sequence_q) : t.seq # r.seq
  BY <1>1, <1>2 DEF Inv, QueueOK
<1>4. arb_sequence_q \in Seq(ArbRequest) /\ Distinct(arb_sequence_q)
  BY DEF Inv, QueueOK
<1> HIDE DEF r
<1>5. CASE Lock(s)
  <2>1. RequestLock(s, Append(arb_sequence_q, r))
    BY <1>5 DEF Lock, r
  <2>2. /\ Append(arb_sequence_q, r) \in Seq(ArbRequest)
        /\ Distinct(Append(arb_sequence_q, r))
        /\ Members(Append(arb_sequence_q, r)) = Members(arb_sequence_q) \cup {r}
    BY <1>1, <1>3, <1>4, AppendRequest
  <2> QED BY <2>1, <2>2 DEF r
<1>6. CASE Grab(s)
  <2>1. RequestLock(s, <<r>> \o arb_sequence_q)
    BY <1>6 DEF Grab, r
  <2>2. /\ <<r>> \o arb_sequence_q \in Seq(ArbRequest)
        /\ Distinct(<<r>> \o arb_sequence_q)
        /\ Members(<<r>> \o arb_sequence_q) = Members(arb_sequence_q) \cup {r}
    BY <1>1, <1>3, <1>4, PushRequest
  <2> QED BY <2>1, <2>2 DEF r
<1> QED BY <1>5, <1>6

LEMMA LockInv ==
  ASSUME Inv, NEW s \in Seqs,
         \/ Lock(s) /\ Count(s, "lock", MaxLocks)
         \/ Grab(s) /\ Count(s, "grab", MaxGrabs),
         s \notin asleep, UNCHANGED <<asleep, delivered>>
  PROVE  Inv'
<1>1. /\ calls' \in [Seqs -> CallCounts]
      /\ \A t \in Seqs : calls'[t].item = calls[t].item
  BY CountLemma DEF Inv, Types
<1>2. PICK q \in Seq(ArbRequest) :
        /\ RequestLock(s, q)
        /\ Distinct(q)
        /\ Members(q) = Members(arb_sequence_q) \cup {LockRequest(s)}
  BY LockOrGrab
<1> QED BY <1>1, <1>2, RequestLockInv

LEMMA FinishItemInv ==
  ASSUME Inv, NEW s \in Seqs, FinishItem(s, calls[s].item),
         s \notin asleep, UNCHANGED <<calls, asleep, delivered>>
  PROVE  Inv'
<1> DEFINE x == [seq |-> s, item |-> calls[s].item]
<1>1. /\ seq_at[s] = "granted"
      /\ seq_at' = [seq_at EXCEPT ![s] = "wait_for_item_done"]
      /\ seq_at \in [Seqs -> Places]
      /\ SetArbiter(GrantQueuedLocks(Arbiter(arb_sequence_q)))
      /\ m_wait_for_item_sequence_id' = Null
      /\ UNCHANGED <<get_next_item_called, driver_at, selected, next_item,
                     calls, asleep, delivered>>
  BY DEF FinishItem, Goto, driver, Inv, Types
<1>2. driver_at = "peek" /\ selected = s /\ m_req_fifo = <<>>
  BY <1>1 DEF Inv, Exchange, Promised
<1>3. m_req_fifo' = <<x>> /\ UNCHANGED reports
  BY <1>2 DEF FinishItem
<1>4. x \in Items /\ x.seq = s /\ x.item = calls[s].item
  BY DEF Items, Inv, Types, CallCounts
<1> HIDE DEF x
<1>5. /\ m_req_fifo' \in Seq(Items)
      /\ Len(m_req_fifo') = 1
      /\ m_req_fifo' # <<>>
      /\ m_req_fifo'[1] = x
  BY <1>3, <1>4
<1>6. QueueOK(arb_sequence_q, arb_completed, seq_at) /\ Exclusive(lock_list)
  BY DEF Inv
<1>7. s \notin arb_completed
  BY <1>1, <1>6 DEF QueueOK
<1>8. QueueOK(arb_sequence_q, arb_completed, seq_at')
  <2>1. QueueOK(arb_sequence_q, arb_completed,
                [seq_at EXCEPT ![s] = "wait_for_item_done"])
    BY <1>1, <1>6, MoveLemma DEF Places
  <2> QED BY <1>1, <2>1
<1>9. /\ QueueOK(arb_sequence_q', arb_completed', seq_at')
      /\ Exclusive(lock_list')
      /\ \A t \in Seqs : Promised(t, arb_completed', seq_at')
                           <=> Promised(t, arb_completed, seq_at')
  <2> DEFINE arb == Arbiter(arb_sequence_q)
  <2>1. /\ arb \in Arbiters /\ arb.q = arb_sequence_q
        /\ arb.locks = lock_list /\ arb.done = arb_completed
    BY <1>6, ArbiterLemma DEF QueueOK
  <2> HIDE DEF arb
  <2>2. SetArbiter(GrantQueuedLocks(arb))
    BY <1>1 DEF arb
  <2> QED BY <1>6, <1>8, <2>1, <2>2, SetGrantedLemma
<1>10. Types'
  BY <1>1, <1>5 DEF Inv, Types, Places
<1>11. \A t \in Seqs : ~Promised(t, arb_completed', seq_at')
  <2>1. \A t \in Seqs : Promised(t, arb_completed, seq_at) => t = s
    BY <1>2 DEF Inv, Exchange
  <2> QED BY <1>1, <1>7, <1>9, <2>1 DEF Promised
<1>12. Exchange'
  <2>1. \A t \in Seqs : t # s => seq_at[t] # "wait_for_item_done"
    BY <1>2 DEF Inv, Exchange
  <2> QED BY <1>1, <1>2, <1>4, <1>5, <1>11, <2>1 DEF Inv, Types, Exchange
<1>13. Accounts'
  <2>1. calls[s].item = delivered[s] + 1
    BY <1>1 DEF Inv, Accounts
  <2>2. \A t \in Seqs : t # s => seq_at[t] # "wait_for_item_done"
    BY <1>2 DEF Inv, Exchange
  <2>3. s # Null
    BY SequencerAssumption
  <2> QED BY <1>1, <1>4, <1>5, <2>1, <2>2, <2>3 DEF Inv, Types, Accounts
<1>14. HandshakeIsClean'
  BY <1>3 DEF Inv, HandshakeIsClean
<1> QED BY <1>9, <1>10, <1>12, <1>13, <1>14 DEF Inv

LEMMA ResumeInv ==
  ASSUME Inv, NEW s \in Seqs, ItemGranted(s) \/ LockGranted(s),
         s \notin asleep, UNCHANGED <<calls, asleep, delivered>>
  PROVE  Inv'
<1>1. PICK p \in {"granted", "body"} :
        /\ seq_at[s] = IF p = "granted" THEN "wait_for_grant" ELSE "wait_for_lock"
        /\ seq_at' = [seq_at EXCEPT ![s] = p]
        /\ s \in arb_completed
        /\ arb_completed' = arb_completed \ {s}
        /\ UNCHANGED <<arb_sequence_q, lock_list, m_req_fifo, reports,
                       m_wait_for_item_sequence_id, get_next_item_called,
                       driver_at, selected, next_item, calls, asleep, delivered>>
  BY DEF ItemGranted, LockGranted, Goto, handshake, driver
<1>2. seq_at \in [Seqs -> Places]
  BY DEF Inv, Types
<1>3. Types'
  BY <1>1 DEF Inv, Types, Places
<1>4. QueueOK(arb_sequence_q, arb_completed, seq_at)'
  <2>1. QueueOK(arb_sequence_q, arb_completed \ {s}, [seq_at EXCEPT ![s] = p])
    BY <1>1, <1>2, ResumeLemma DEF Inv, Places
  <2> QED BY <1>1, <2>1
<1>5. Exclusive(lock_list)'
  BY <1>1 DEF Inv, Exclusive
<1>6. Exchange'
  BY <1>1, <1>2 DEF Inv, Types, Exchange, Promised
<1>7. Accounts'
  BY <1>1, <1>2 DEF Inv, Types, Accounts
<1>8. HandshakeIsClean'
  BY <1>1 DEF Inv, HandshakeIsClean
<1> QED BY <1>3, <1>4, <1>5, <1>6, <1>7, <1>8 DEF Inv

LEMMA ItemFinishedInv ==
  ASSUME Inv, NEW s \in Seqs, ItemFinished(s),
         s \notin asleep, UNCHANGED <<calls, asleep, delivered>>
  PROVE  Inv'
<1> USE DEF ItemFinished, Goto, arbitration, handshake, driver
<1>1. Types'
  BY DEF Inv, Types, Places
<1>2. QueueOK(arb_sequence_q, arb_completed, seq_at)'
  <2>1. QueueOK(arb_sequence_q, arb_completed, [seq_at EXCEPT ![s] = "body"])
    BY MoveLemma DEF Inv, Types, Places
  <2> QED BY <2>1
<1>3. Exclusive(lock_list)'
  BY DEF Inv, Exclusive
<1>4. Exchange'
  <2>1. s # Null
    BY SequencerAssumption
  <2> QED BY <2>1 DEF Inv, Types, Exchange, Promised
<1>5. Accounts'
  BY DEF Inv, Types, Accounts
<1>6. HandshakeIsClean'
  BY DEF Inv, HandshakeIsClean
<1> QED BY <1>1, <1>2, <1>3, <1>4, <1>5, <1>6 DEF Inv

\* unlock takes one lock of the sequence away.
LEMMA UnlockedLocks ==
  ASSUME Inv, NEW s \in Seqs, Unlock(s)
  PROVE  \E arb \in Arbiters :
           /\ arb.q = arb_sequence_q /\ arb.done = arb_completed
           /\ s \in Members(lock_list)
           /\ Members(arb.locks) \subseteq Members(lock_list)
           /\ Len(arb.locks) = Len(lock_list) - 1
           /\ Exclusive(arb.locks)
           /\ SetArbiter(GrantQueuedLocks(arb))
<1> DEFINE held == {i \in DOMAIN lock_list : lock_list[i] = s}
           arb  == [Arbiter(arb_sequence_q) EXCEPT !.locks = RemoveAt(@, Min(held))]
<1>1. held # {} /\ SetArbiter(GrantQueuedLocks(arb))
  BY DEF Unlock
<1>2. QueueOK(arb_sequence_q, arb_completed, seq_at) /\ Exclusive(lock_list)
  BY DEF Inv
<1>3. /\ RemoveAt(lock_list, Min(held)) \in Seq(Seqs)
      /\ Members(RemoveAt(lock_list, Min(held))) \subseteq Members(lock_list)
      /\ Len(RemoveAt(lock_list, Min(held))) = Len(lock_list) - 1
  <2>1. held \in SUBSET Nat
    BY <1>2, ListProperties DEF Exclusive
  <2>2. Min(held) \in held
    BY <1>1, <2>1, MinIsMember
  <2>3. Min(held) \in DOMAIN lock_list
    BY <2>2
  <2> HIDE DEF held
  <2>4. Min(held) \in 1..Len(lock_list)
    BY <1>2, <2>3, ListProperties DEF Exclusive
  <2> QED BY <1>2, <2>3, <2>4, RemoveMember, RemoveAtLemma DEF Exclusive
<1>4. s \in Members(lock_list)
  BY <1>1 DEF Members
<1>5. /\ arb \in Arbiters
      /\ arb.q = arb_sequence_q
      /\ arb.locks = RemoveAt(lock_list, Min(held))
      /\ arb.done = arb_completed
  <2> HIDE DEF held
  <2> QED BY <1>2, <1>3 DEF Arbiter, Arbiters, QueueOK
<1> HIDE DEF arb, held
<1>6. Exclusive(arb.locks)
  BY <1>2, <1>3, <1>5, LocksShrink
<1> QED BY <1>1, <1>3, <1>4, <1>5, <1>6

LEMMA UnlockInv ==
  ASSUME Inv, NEW s \in Seqs, Unlock(s), UNCHANGED <<calls, asleep, delivered>>
  PROVE  Inv'
<1>1. UNCHANGED <<m_req_fifo, reports, m_wait_for_item_sequence_id,
                  get_next_item_called, seq_at, driver_at, selected,
                  next_item, calls, asleep, delivered>>
  BY DEF Unlock, handshake, driver
<1>2. QueueOK(arb_sequence_q, arb_completed, seq_at) /\ Exclusive(lock_list)
  BY DEF Inv
<1>3. PICK arb \in Arbiters :
        /\ arb.q = arb_sequence_q /\ arb.done = arb_completed
        /\ Exclusive(arb.locks)
        /\ SetArbiter(GrantQueuedLocks(arb))
  BY UnlockedLocks
<1>4. /\ QueueOK(arb_sequence_q', arb_completed', seq_at)
      /\ Exclusive(lock_list')
      /\ \A t \in Seqs : Promised(t, arb_completed', seq_at)
                           <=> Promised(t, arb_completed, seq_at)
  BY <1>2, <1>3, SetGrantedLemma
<1>5. Types'
  BY <1>1 DEF Inv, Types
<1>6. Exchange'
  BY <1>1, <1>4 DEF Inv, Types, Exchange
<1>7. Accounts'
  BY <1>1 DEF Inv, Accounts
<1>8. HandshakeIsClean'
  BY <1>1 DEF Inv, HandshakeIsClean
<1> QED BY <1>1, <1>4, <1>5, <1>6, <1>7, <1>8 DEF Inv

\* body returns, or the sequence is killed.
LEMMA LeaveInv ==
  ASSUME Inv, NEW s \in Seqs, FinishSequence(s) \/ Kill(s),
         FinishSequence(s) => s \notin asleep,
         UNCHANGED <<calls, asleep, delivered>>
  PROVE  Inv'
<1>1. PICK p \in {"finished", "killed"} :
        /\ p = "finished" => seq_at[s] = "body" /\ s \notin asleep
        /\ seq_at' = [seq_at EXCEPT ![s] = p]
        /\ arb_sequence_q' = Kept(arb_sequence_q, {r \in ArbRequest : r.seq # s})
        /\ lock_list' = Kept(lock_list, Seqs \ {s})
        /\ reports' = reports \/ reports' = reports \cup {"SEQFINERR"}
        /\ UNCHANGED <<arb_completed, m_req_fifo, m_wait_for_item_sequence_id,
                       get_next_item_called, driver_at, selected, next_item,
                       calls, asleep, delivered>>
  BY DEF FinishSequence, Kill, RemoveFromQueues, Goto, handshake, driver
<1>2. seq_at \in [Seqs -> Places] /\ QueueOK(arb_sequence_q, arb_completed, seq_at)
  BY DEF Inv, Types
<1>3. Types'
  BY <1>1 DEF Inv, Types, Places
<1>4. QueueOK(arb_sequence_q, arb_completed, seq_at)'
  <2>1. QueueOK(Kept(arb_sequence_q, {r \in ArbRequest : r.seq # s}),
                arb_completed, [seq_at EXCEPT ![s] = p])
    BY <1>1, <1>2, LeaveLemma
  <2> QED BY <1>1, <2>1
<1>5. Exclusive(lock_list)'
  <2>1. /\ Kept(lock_list, Seqs \ {s}) \in Seq(Seqs)
        /\ Members(Kept(lock_list, Seqs \ {s})) \subseteq Members(lock_list)
    BY KeptLemma DEF Inv, Exclusive
  <2> QED BY <1>1, <2>1, LocksShrink DEF Inv
<1>6. Exchange'
  BY <1>1, <1>2 DEF Inv, Types, Exchange, Promised
<1>7. Accounts'
  BY <1>1, <1>2 DEF Inv, Types, Accounts
<1>8. HandshakeIsClean'
  BY <1>1 DEF Inv, HandshakeIsClean
<1> QED BY <1>3, <1>4, <1>5, <1>6, <1>7, <1>8 DEF Inv

LEMMA WaitInv == ASSUME Inv, NEW s \in Seqs, Wait(s) PROVE Inv'
<1>1. /\ seq_at[s] = "body"
      /\ asleep' = asleep \cup {s}
      /\ UNCHANGED <<arb_sequence_q, arb_completed, lock_list, m_req_fifo,
                     m_wait_for_item_sequence_id, get_next_item_called, seq_at,
                     driver_at, selected, next_item, reports, delivered>>
  BY DEF Wait, sequencer, arbitration, handshake, driver
<1>2. /\ calls' \in [Seqs -> CallCounts]
      /\ \A t \in Seqs : calls'[t].item = calls[t].item
  BY CountLemma DEF Wait, Inv, Types
<1>3. Types'
  BY <1>1, <1>2 DEF Inv, Types
<1>4. QueueOK(arb_sequence_q, arb_completed, seq_at)' /\ Exclusive(lock_list)'
  BY <1>1 DEF Inv
<1>5. Exchange'
  BY <1>1 DEF Inv, Exchange
<1>6. Accounts'
  BY <1>1, <1>2 DEF Inv, Accounts
<1>7. HandshakeIsClean'
  BY <1>1 DEF Inv, HandshakeIsClean
<1> QED BY <1>3, <1>4, <1>5, <1>6, <1>7 DEF Inv

LEMMA ClockEdgeInv == ASSUME Inv, ClockEdge PROVE Inv'
<1>1. /\ driver_at = "clock"
      /\ next_item' = Null
      /\ selected' = Null
      /\ driver_at' \in {"choose", "return"}
      /\ \/ reports' = reports
         \/ reports' = reports \cup {"called twice without item_done"}
      /\ asleep' = {}
      /\ \A s \in Seqs : ~Awake(s)
      /\ UNCHANGED <<arb_sequence_q, arb_completed, lock_list, m_req_fifo,
                     m_wait_for_item_sequence_id, get_next_item_called, seq_at,
                     calls, delivered>>
  BY DEF ClockEdge, TryNextItem, Settled, arbitration, handshake
<1>2. Types'
  BY <1>1 DEF Inv, Types
<1>3. QueueOK(arb_sequence_q, arb_completed, seq_at)' /\ Exclusive(lock_list)'
  BY <1>1 DEF Inv
<1>4. Exchange'
  <2>1. m_req_fifo = <<>>
    BY <1>1 DEF Inv, Exchange
  <2>2. \A s \in Seqs : seq_at[s] # "wait_for_item_done"
    BY <1>1, <2>1 DEF Inv, Exchange, Awake, SequenceRunnable
  <2> QED BY <1>1, <2>1, <2>2 DEF Inv, Exchange, Promised
<1>5. Accounts'
  BY <1>1 DEF Inv, Accounts
<1>6. HandshakeIsClean'
  BY <1>1 DEF Inv, HandshakeIsClean
<1> QED BY <1>2, <1>3, <1>4, <1>5, <1>6 DEF Inv

\* try_next_item chooses for the first time, or again after a kill; in both
\* cases nobody has been promised an item.
LEMMA ChooseStart ==
  ASSUME Inv, ChooseRequest \/ ChooseAgain
  PROVE  /\ next_item = Null /\ m_req_fifo = <<>>
         /\ UNCHANGED <<m_req_fifo, m_wait_for_item_sequence_id, seq_at,
                        next_item, reports>>
         /\ driver_at \in {"choose", "peek"}
         /\ driver_at = "peek" => selected \in Seqs /\ seq_at[selected] = "killed"
         /\ \E before \in Arbiters :
              /\ before.q = arb_sequence_q /\ before.locks = lock_list
              /\ \/ before.done = arb_completed
                 \/ driver_at = "peek" /\ before.done = arb_completed \ {selected}
              /\ QueueOK(before.q, before.done, seq_at)
              /\ \A s \in Seqs : ~Promised(s, before.done, seq_at)
              /\ ChooseNextRequest(before)
<1>1. PICK done \in {arb_completed, arb_completed \ {selected}} :
        /\ ChooseNextRequest([q |-> arb_sequence_q, locks |-> lock_list, done |-> done])
        /\ \/ driver_at = "choose" /\ done = arb_completed
           \/ /\ driver_at = "peek" /\ m_req_fifo = <<>>
              /\ SelectedIsDead /\ done = arb_completed \ {selected}
        /\ UNCHANGED <<m_req_fifo, m_wait_for_item_sequence_id, seq_at,
                       next_item, reports>>
  <2>1. CASE ChooseRequest
    BY <2>1 DEF ChooseRequest, Arbiter
  <2>2. CASE ChooseAgain
    <3>1. [Arbiter(arb_sequence_q) EXCEPT !.done = @ \ {selected}] =
            [q |-> arb_sequence_q, locks |-> lock_list, done |-> arb_completed \ {selected}]
      BY DEF Arbiter
    <3> QED BY <2>2, <3>1 DEF ChooseAgain
  <2> QED BY <2>1, <2>2
<1>2. QueueOK(arb_sequence_q, arb_completed, seq_at) /\ Exclusive(lock_list)
  BY DEF Inv
<1>3. /\ next_item = Null
      /\ m_req_fifo = <<>>
      /\ \A s \in Seqs : ~Promised(s, arb_completed, seq_at)
      /\ driver_at = "peek" => selected \in Seqs /\ seq_at[selected] = "killed"
  BY <1>1 DEF Inv, Exchange, Promised, SelectedIsDead
<1>4. QueueOK(arb_sequence_q, done, seq_at)
  BY <1>1, <1>2, <1>3 DEF QueueOK
<1> DEFINE before == [q |-> arb_sequence_q, locks |-> lock_list, done |-> done]
<1>5. /\ before \in Arbiters
      /\ before.q = arb_sequence_q
      /\ before.locks = lock_list
      /\ before.done = done
  BY <1>2, <1>4 DEF Arbiters, QueueOK, Exclusive
<1>6. \A s \in Seqs : ~Promised(s, done, seq_at)
  BY <1>1, <1>3 DEF Promised
<1>7. ChooseNextRequest(before)
  BY <1>1
<1> HIDE DEF before
<1>8. QueueOK(before.q, before.done, seq_at)
  BY <1>4, <1>5
<1> QED BY <1>1, <1>3, <1>5, <1>6, <1>7, <1>8

LEMMA ChooseInv ==
  ASSUME Inv, ChooseRequest \/ ChooseAgain, UNCHANGED clients
  PROVE  /\ Inv'
         /\ selected' # Null => \A x \in Members(lock_list') : x = selected'
<1>1. /\ next_item = Null /\ m_req_fifo = <<>>
      /\ driver_at = "peek" => selected \in Seqs /\ seq_at[selected] = "killed"
      /\ driver_at \in {"choose", "peek"}
      /\ UNCHANGED <<m_req_fifo, m_wait_for_item_sequence_id, seq_at,
                     next_item, reports, asleep, calls, delivered>>
  BY ChooseStart DEF clients
<1>2. PICK before \in Arbiters :
        /\ before.locks = lock_list
        /\ QueueOK(before.q, before.done, seq_at)
        /\ \A s \in Seqs : ~Promised(s, before.done, seq_at)
        /\ ChooseNextRequest(before)
  BY ChooseStart
<1>3. Exclusive(before.locks)
  BY <1>2 DEF Inv
<1>4. /\ QueueOK(arb_sequence_q', arb_completed', seq_at)
      /\ Exclusive(lock_list')
      /\ \/ /\ selected' = Null
            /\ driver_at' = "return"
            /\ get_next_item_called' = get_next_item_called
            /\ \A s \in Seqs : ~Promised(s, arb_completed', seq_at)
         \/ /\ selected' \in Seqs
            /\ driver_at' = "peek"
            /\ get_next_item_called' = TRUE
            /\ \A s \in Seqs : Promised(s, arb_completed', seq_at) <=> s = selected'
            /\ \A x \in Members(lock_list') : x = selected'
  BY <1>2, <1>3, ChooseLemma
<1>5. Types'
  BY <1>1, <1>4 DEF Inv, Types
<1>6. QueueOK(arb_sequence_q, arb_completed, seq_at)'
  BY <1>1, <1>4
<1>7. Exchange'
  <2>1. \A s \in Seqs : seq_at[s] # "wait_for_item_done"
    BY <1>1 DEF Inv, Exchange
  <2> QED BY <1>1, <1>4, <2>1 DEF Inv, Exchange
<1>8. Accounts'
  BY <1>1 DEF Inv, Accounts
<1>9. HandshakeIsClean'
  BY <1>1 DEF Inv, HandshakeIsClean
<1> QED BY <1>4, <1>5, <1>6, <1>7, <1>8, <1>9 DEF Inv

\* No process can run without waiting, so the sequence chosen has sent its
\* item, unless it was killed before.
LEMMA SentWhenPeeked ==
  ASSUME Inv, Settled, PeekItem
  PROVE  driver_at = "peek" /\ selected \in Seqs /\ m_req_fifo # <<>>
<1>1. driver_at = "peek" /\ selected \in Seqs
  BY DEF PeekItem, Inv, Exchange
<1>2. m_req_fifo # <<>>
  <2> SUFFICES ASSUME m_req_fifo = <<>> PROVE FALSE
    OBVIOUS
  <2>1. seq_at[selected] # "killed"
    BY DEF PeekItem, SelectedIsDead
  <2>2. Promised(selected, arb_completed, seq_at)
    BY <1>1, <2>1 DEF Inv, Exchange
  <2>3. selected \notin asleep
    BY <1>1, <2>2 DEF Promised, Inv, Exchange
  <2>4. Awake(selected)
    BY <2>2, <2>3 DEF Promised, Awake, SequenceRunnable
  <2> QED BY <1>1, <2>4 DEF Settled
<1> QED BY <1>1, <1>2

LEMMA PeekItemInv ==
  ASSUME Inv, Settled, PeekItem, UNCHANGED clients PROVE Inv'
<1>1. driver_at = "peek" /\ driver_at' = "return"
  BY DEF PeekItem
<1>2. m_req_fifo # <<>>
  BY SentWhenPeeked
<1>3. /\ next_item' = Head(m_req_fifo)
      /\ UNCHANGED <<arb_sequence_q, arb_completed, lock_list, m_req_fifo,
                     m_wait_for_item_sequence_id, get_next_item_called, seq_at,
                     selected, reports, asleep, calls, delivered>>
  BY <1>2 DEF PeekItem, arbitration, handshake, clients
<1>4. m_req_fifo = <<Head(m_req_fifo)>> /\ Head(m_req_fifo) \in Items
  BY <1>2, SingletonLemma DEF Inv, Types
<1>5. Head(m_req_fifo) # Null
  BY <1>4, ClientsAssumption DEF Items
<1>6. Types'
  BY <1>1, <1>3, <1>4 DEF Inv, Types
<1>7. QueueOK(arb_sequence_q, arb_completed, seq_at)' /\ Exclusive(lock_list)'
  BY <1>3 DEF Inv
<1>8. Exchange'
  <2>1. \A s \in Seqs : ~Promised(s, arb_completed, seq_at)
    BY <1>2 DEF Inv, Exchange
  <2>2. \A s \in Seqs : seq_at[s] = "wait_for_item_done" => m_req_fifo[1].seq = s
    BY <1>1 DEF Inv, Exchange
  <2> QED BY <1>1, <1>2, <1>3, <1>4, <1>5, <2>1, <2>2 DEF Inv, Exchange, Promised
<1>9. Accounts'
  BY <1>3 DEF Inv, Accounts
<1>10. HandshakeIsClean'
  BY <1>3 DEF Inv, HandshakeIsClean
<1> QED BY <1>6, <1>7, <1>8, <1>9, <1>10 DEF Inv

LEMMA ItemDoneInv ==
  ASSUME Inv, ItemDone,
         delivered' = [delivered EXCEPT ![next_item.seq] = @ + 1],
         UNCHANGED <<asleep, calls>>
  PROVE  Inv'
<1>1. /\ driver_at = "return" /\ next_item # Null
      /\ m_req_fifo' = <<>>
      /\ get_next_item_called' = FALSE
      /\ SetArbiter(GrantQueuedLocks(Arbiter(arb_sequence_q)))
      /\ driver_at' = "clock"
      /\ UNCHANGED <<selected, next_item, seq_at, asleep, calls>>
  BY DEF ItemDone
<1>2. m_req_fifo = <<next_item>> /\ next_item \in Items
  BY <1>1 DEF Inv, Exchange, Types
<1>3. /\ m_wait_for_item_sequence_id' = next_item.seq
      /\ UNCHANGED reports
  BY <1>2 DEF ItemDone
<1>4. next_item.seq \in Seqs /\ m_req_fifo[1] = next_item /\ m_req_fifo # <<>>
  BY <1>2 DEF Items
<1>5. QueueOK(arb_sequence_q, arb_completed, seq_at) /\ Exclusive(lock_list)
  BY DEF Inv
<1>6. /\ QueueOK(arb_sequence_q', arb_completed', seq_at)
      /\ Exclusive(lock_list')
      /\ \A t \in Seqs : Promised(t, arb_completed', seq_at)
                           <=> Promised(t, arb_completed, seq_at)
  <2> DEFINE arb == Arbiter(arb_sequence_q)
  <2>1. /\ arb \in Arbiters /\ arb.q = arb_sequence_q
        /\ arb.locks = lock_list /\ arb.done = arb_completed
    BY <1>5, ArbiterLemma DEF QueueOK
  <2> HIDE DEF arb
  <2>2. SetArbiter(GrantQueuedLocks(arb))
    BY <1>1 DEF arb
  <2> QED BY <1>5, <2>1, <2>2, SetGrantedLemma
<1>7. Types'
  <2>1. m_req_fifo' \in Seq(Items) /\ Len(m_req_fifo') <= 1
    BY <1>1
  <2>2. delivered \in [Seqs -> Nat]
    BY DEF Inv, Types
  <2>3. delivered' \in [Seqs -> Nat]
    BY <1>4, <2>2
  <2> QED BY <1>1, <1>3, <1>4, <2>1, <2>3 DEF Inv, Types
<1>8. QueueOK(arb_sequence_q, arb_completed, seq_at)'
  BY <1>1, <1>6
<1>9. Exchange'
  <2>1. \A s \in Seqs : ~Promised(s, arb_completed', seq_at)
    BY <1>1, <1>6 DEF Inv, Exchange
  <2>2. \A s \in Seqs : seq_at[s] = "wait_for_item_done" => next_item.seq = s
    BY <1>1, <1>4 DEF Inv, Exchange
  <2> QED BY <1>1, <1>3, <2>1, <2>2 DEF Inv, Exchange
<1>10. Accounts'
  <2>1. /\ seq_at[next_item.seq] \in {"wait_for_item_done", "killed"}
        /\ m_wait_for_item_sequence_id = Null
    BY <1>4 DEF Inv, Exchange
  <2>2. \A s \in Seqs : seq_at[s] = "wait_for_item_done" => next_item.seq = s
    BY <1>1, <1>4 DEF Inv, Exchange
  <2>3. next_item.seq # Null
    BY <1>4, SequencerAssumption
  <2>4. /\ delivered'[next_item.seq] = delivered[next_item.seq] + 1
        /\ \A s \in Seqs : s # next_item.seq => delivered'[s] = delivered[s]
    BY <1>4 DEF Inv, Types
  <2> QED BY <1>1, <1>3, <1>4, <2>1, <2>2, <2>3, <2>4 DEF Inv, Accounts
<1>11. HandshakeIsClean'
  BY <1>3 DEF Inv, HandshakeIsClean
<1> QED BY <1>6, <1>7, <1>8, <1>9, <1>10, <1>11 DEF Inv

LEMMA NoItemInv == ASSUME Inv, NoItem, UNCHANGED clients PROVE Inv'
<1>1. /\ driver_at = "return" /\ next_item = Null /\ driver_at' = "clock"
      /\ UNCHANGED <<arb_sequence_q, arb_completed, lock_list, m_req_fifo,
                     m_wait_for_item_sequence_id, get_next_item_called, seq_at,
                     selected, next_item, reports, asleep, calls, delivered>>
  BY DEF NoItem, arbitration, handshake, clients
<1>2. Types'
  BY <1>1 DEF Inv, Types
<1>3. QueueOK(arb_sequence_q, arb_completed, seq_at)' /\ Exclusive(lock_list)'
  BY <1>1 DEF Inv
<1>4. Exchange'
  <2>1. m_req_fifo = <<>>
    BY <1>1 DEF Inv, Exchange
  <2> QED BY <1>1, <2>1 DEF Inv, Exchange, Promised
<1>5. Accounts'
  BY <1>1 DEF Inv, Accounts
<1>6. HandshakeIsClean'
  BY <1>1 DEF Inv, HandshakeIsClean
<1> QED BY <1>2, <1>3, <1>4, <1>5, <1>6 DEF Inv

LEMMA NextInv == Inv /\ [ClientsNext]_ClientsVars => Inv'
<1> SUFFICES ASSUME Inv, [ClientsNext]_ClientsVars PROVE Inv'
  OBVIOUS
<1>1. ASSUME NEW s \in Seqs, Begin(s) PROVE Inv'
  BY <1>1, BeginInv
<1>2. ASSUME NEW s \in Seqs, RunClient(s) PROVE Inv'
  <2>1. ClientStep(s) /\ s \notin asleep /\ UNCHANGED <<asleep, delivered>>
    BY <1>2 DEF RunClient
  <2>2. CASE StartItem(s) /\ Count(s, "item", MaxItems)
    BY <2>1, <2>2, StartItemInv
  <2>3. CASE \/ Lock(s) /\ Count(s, "lock", MaxLocks)
             \/ Grab(s) /\ Count(s, "grab", MaxGrabs)
    BY <2>1, <2>3, LockInv
  <2>4. CASE FinishItem(s, calls[s].item) /\ UNCHANGED calls
    BY <2>1, <2>4, FinishItemInv
  <2>5. CASE (ItemGranted(s) \/ LockGranted(s)) /\ UNCHANGED calls
    BY <2>1, <2>5, ResumeInv
  <2>6. CASE ItemFinished(s) /\ UNCHANGED calls
    BY <2>1, <2>6, ItemFinishedInv
  <2>7. CASE Unlock(s) /\ UNCHANGED calls
    BY <2>1, <2>7, UnlockInv
  <2>8. CASE FinishSequence(s) /\ UNCHANGED calls
    BY <2>1, <2>8, LeaveInv
  <2> QED BY <2>1, <2>2, <2>3, <2>4, <2>5, <2>6, <2>7, <2>8 DEF ClientStep
<1>3. ASSUME NEW s \in Seqs, Wait(s) PROVE Inv'
  BY <1>3, WaitInv
<1>4. ASSUME NEW s \in Seqs, Die(s) PROVE Inv'
  <2>1. /\ seq_at[s] # "finished"
        /\ Kill(s) /\ UNCHANGED <<calls, asleep, delivered>>
    BY <1>4 DEF Die, Kill, clients
  <2>2. FinishSequence(s) => s \notin asleep
    BY <2>1 DEF Kill, FinishSequence, Goto, Inv, Types
  <2> QED BY <2>1, <2>2, LeaveInv
<1>5. CASE ClockEdge
  BY <1>5, ClockEdgeInv
<1>6. CASE RunDriver
  <2>1. CASE (ChooseRequest \/ ChooseAgain) /\ UNCHANGED clients
    BY <2>1, ChooseInv
  <2>2. CASE Settled /\ PeekItem /\ UNCHANGED clients
    BY <2>2, PeekItemInv
  <2>3. CASE /\ ItemDone
             /\ delivered' = [delivered EXCEPT ![next_item.seq] = @ + 1]
             /\ UNCHANGED <<asleep, calls>>
    BY <2>3, ItemDoneInv
  <2>4. CASE NoItem /\ UNCHANGED clients
    BY <2>4, NoItemInv
  <2> QED BY <1>6, <2>1, <2>2, <2>3, <2>4 DEF RunDriver
<1>7. CASE UNCHANGED ClientsVars
  <2>1. UNCHANGED <<arb_sequence_q, arb_completed, lock_list, m_req_fifo,
                    m_wait_for_item_sequence_id, get_next_item_called, seq_at,
                    driver_at, selected, next_item, reports, asleep, calls,
                    delivered>>
    BY <1>7 DEF ClientsVars, sequencer, arbitration, handshake, driver, clients
  <2> QED BY <2>1 DEF Inv, Types, Exchange, Accounts, HandshakeIsClean
<1> QED BY <1>1, <1>2, <1>3, <1>4, <1>5, <1>6, <1>7 DEF ClientsNext

LEMMA AlwaysInv == ClientsSpec => []Inv
BY InitInv, NextInv, PTL DEF ClientsSpec

-----------------------------------------------------------------------------
(* The theorems, for any number of sequences, items, locks and kills *)

\* The state of the sequencer and its clients keeps its types.
THEOREM SequencerTypeCorrect == ClientsSpec => []SequencerTypeOK
<1>1. Inv => SequencerTypeOK
  <2> SUFFICES ASSUME Inv PROVE SequencerTypeOK
    OBVIOUS
  <2>1. \A i \in DOMAIN m_req_fifo : m_req_fifo[i].seq \in Seqs
    <3>1. \A i \in DOMAIN m_req_fifo : m_req_fifo[i] \in Items
      BY ListProperties DEF Inv, Types
    <3> QED BY <3>1 DEF Items
  <2> QED BY <2>1 DEF Inv, Types, QueueOK, Exclusive, SequencerTypeOK, Places
<1> QED BY <1>1, AlwaysInv, PTL

\* At most one sequence holds locks, whoever locks, grabs, unlocks or dies.
THEOREM LocksAreExclusive == ClientsSpec => []LockIsExclusive
<1>1. Inv => LockIsExclusive
  BY DEF Inv, Exclusive, Members, LockIsExclusive
<1> QED BY <1>1, AlwaysInv, PTL

\* Every item is driven exactly once, in order, before finish_item returns.
THEOREM ItemsAreDrivenOnce == ClientsSpec => []ItemsDrivenOnce
<1>1. Inv => ItemsDrivenOnce
  <2> SUFFICES ASSUME Inv PROVE ItemsDrivenOnce
    OBVIOUS
  <2>1. ASSUME driver_at = "return", next_item # Null
        PROVE  next_item.item = delivered[next_item.seq] + 1
    <3>1. m_req_fifo = <<next_item>>
      BY <2>1 DEF Inv, Exchange
    <3>2. m_req_fifo # <<>> /\ m_req_fifo[1] = next_item
      BY <3>1
    <3> QED BY <3>2 DEF Inv, Accounts
  <2>2. \A s \in Seqs : seq_at[s] \in {"body", "finished"} =>
          delivered[s] = calls[s].item
    BY DEF Inv, Accounts
  <2> QED BY <2>1, <2>2 DEF ItemsDrivenOnce
<1> QED BY <1>1, AlwaysInv, PTL

\* The sequencer never reports a broken handshake to clients that keep it,
\* whichever sequences are killed and when.
THEOREM HandshakeStaysClean == ClientsSpec => []HandshakeIsClean
<1>1. Inv => HandshakeIsClean
  BY DEF Inv
<1> QED BY <1>1, AlwaysInv, PTL

\* Nobody but the holder of a lock is chosen.
THEOREM LocksExcludeOthers == ClientsSpec => HolderIsAlone
<1> DEFINE Alone == selected' \notin {selected, Null} =>
                      \A i \in DOMAIN lock_list' : lock_list'[i] = selected'
<1>1. Inv /\ [ClientsNext]_ClientsVars => [Alone]_ClientsVars
  <2> SUFFICES ASSUME Inv, ClientsNext, selected' \notin {selected, Null}
               PROVE  \A i \in DOMAIN lock_list' : lock_list'[i] = selected'
    BY DEF ClientsVars, sequencer, driver
  <2>1. (ChooseRequest \/ ChooseAgain) /\ UNCHANGED clients
    <3>1. \A s \in Seqs : ~Begin(s)
      BY DEF Begin, StartSequence, driver
    <3>2. \A s \in Seqs : ~RunClient(s)
      BY DEF RunClient, ClientStep, StartItem, Lock, Grab, RequestLock,
             FinishItem, ItemGranted, ItemFinished, LockGranted, Unlock,
             FinishSequence, driver
    <3>3. \A s \in Seqs : ~Wait(s) /\ ~Die(s)
      BY DEF Wait, Die, Kill, sequencer, driver
    <3>4. ~ClockEdge
      BY DEF ClockEdge, TryNextItem
    <3>5. ~PeekItem /\ ~ItemDone /\ ~NoItem
      BY DEF PeekItem, ItemDone, NoItem
    <3> QED BY <3>1, <3>2, <3>3, <3>4, <3>5 DEF ClientsNext, RunDriver
  <2>2. \A x \in Members(lock_list') : x = selected'
    BY <2>1, ChooseInv
  <2> QED BY <2>2 DEF Members
<1>2. ClientsSpec => [][Alone]_ClientsVars
  BY <1>1, AlwaysInv, PTL DEF ClientsSpec
<1> QED BY <1>2 DEF HolderIsAlone

-----------------------------------------------------------------------------
(* The refinement of ItemExchange *)

HolderOf(locks) == IF locks = <<>> THEN Null ELSE locks[1]
Stages(at, done) == [s \in Seqs |-> StageOf(s, at, done)]
Idle(stages, t) == [r \in Seqs |-> IF r = t THEN "idle" ELSE stages[r]]

LEMMA SameStage ==
  ASSUME NEW at, NEW done, NEW new, NEW now, NEW t,
         new[t] = at[t], t \in now <=> t \in done
  PROVE  StageOf(t, new, now) = StageOf(t, at, done)
<1>1. CASE t \in done
  BY <1>1 DEF StageOf
<1>2. CASE t \notin done
  BY <1>2 DEF StageOf
<1> QED BY <1>1, <1>2

LEMMA StageFacts ==
  ASSUME NEW at \in [Seqs -> Places], NEW done, NEW t \in Seqs
  PROVE  /\ Stages(at, done)[t] = "locking" <=>
              at[t] = "wait_for_lock" /\ t \notin done
         /\ Stages(at, done)[t] = "asking" <=>
              at[t] = "wait_for_grant" /\ t \notin done
         /\ Stages(at, done)[t] = "promised" <=> Promised(t, done, at)
         /\ Stages(at, done)[t] = "gone" <=> at[t] \in {"finished", "killed"}
         /\ Stages(at, done)[t] = "sending" <=> at[t] = "wait_for_item_done"
         /\ Stages(at, done)[t] = "idle" <=>
              \/ at[t] \in {"created", "body"}
              \/ at[t] = "wait_for_lock" /\ t \in done
<1>1. at[t] \in Places
  OBVIOUS
<1>2. Stages(at, done)[t] = StageOf(t, at, done)
  BY DEF Stages
<1> QED BY <1>1, <1>2 DEF StageOf, Places, Promised

\* Who holds a list of locks with one owner.
LEMMA HolderLemma ==
  ASSUME NEW locks, Exclusive(locks), NEW t \in Seqs
  PROVE  /\ HolderOf(locks) = t <=> t \in Members(locks)
         /\ HolderOf(locks) = Null <=> Members(locks) = {}
         /\ HolderOf(locks) \in {Null, t} <=> \A x \in Members(locks) : x = t
<1>1. locks \in Seq(Seqs) /\ DOMAIN locks = 1..Len(locks) /\ Len(locks) \in Nat
  BY ListProperties DEF Exclusive
<1>2. Null \notin Seqs
  BY SequencerAssumption
<1>3. CASE locks = <<>>
  <2>1. Members(locks) = {} /\ HolderOf(locks) = Null
    BY <1>3 DEF Members, HolderOf
  <2> QED BY <1>2, <2>1
<1>4. CASE locks # <<>>
  <2>1. 1 \in DOMAIN locks
    BY <1>1, <1>4
  <2>2. locks[1] \in Members(locks) /\ HolderOf(locks) = locks[1]
    BY <1>4, <2>1 DEF Members, HolderOf
  <2>3. locks[1] \in Seqs
    BY <1>1, <2>2, ListProperties
  <2>4. \A x \in Members(locks) : x = locks[1]
    BY <2>2 DEF Exclusive
  <2> QED BY <1>2, <2>2, <2>3, <2>4
<1> QED BY <1>3, <1>4

\* What grant_queued_locks does, seen from outside.
LEMMA GrantSeen ==
  ASSUME NEW arb \in Arbiters, NEW at \in [Seqs -> Places],
         QueueOK(arb.q, arb.done, at), Exclusive(arb.locks)
  PROVE  LET new   == GrantQueuedLocks(arb)
             lucky == Promise!Grantable(HolderOf(arb.locks), Stages(at, arb.done))
         IN  \/ \E t \in lucky :
                  /\ HolderOf(new.locks) = t
                  /\ Len(new.locks) = Len(arb.locks) + 1
                  /\ new.done = arb.done \cup {t}
                  /\ Stages(at, new.done) = Idle(Stages(at, arb.done), t)
             \/ lucky = {} /\ new = arb
<1> DEFINE new   == GrantQueuedLocks(arb)
           lucky == Promise!Grantable(HolderOf(arb.locks), Stages(at, arb.done))
           U     == Unblocked(arb, "SEQ_TYPE_LOCK")
           i     == Min(U)
           r     == arb.q[i]
<1>1. \A t \in Seqs : t \in lucky <=> /\ at[t] = "wait_for_lock"
                                      /\ t \notin arb.done
                                      /\ \A x \in Members(arb.locks) : x = t
  BY StageFacts, HolderLemma DEF Promise!Grantable
<1>2. lucky \subseteq Seqs
  BY DEF Promise!Grantable
<1>3. CASE U = {}
  <2>1. new = arb
    BY <1>3 DEF GrantQueuedLocks
  <2>2. ASSUME NEW t \in lucky PROVE FALSE
    <3>1. /\ at[t] = "wait_for_lock" /\ t \notin arb.done /\ t \in Seqs
          /\ \A x \in Members(arb.locks) : x = t
      BY <1>1, <1>2, <2>2
    <3>2. PICK x \in Members(arb.q) : x.seq = t
      BY <3>1 DEF QueueOK
    <3>3. x.request = "SEQ_TYPE_LOCK"
      BY <3>1, <3>2, RequestProperties DEF QueueOK, ArbRequest
    <3>4. PICK k \in DOMAIN arb.q : arb.q[k] = x
      BY DEF Members
    <3>5. k \in U
      BY <3>1, <3>2, <3>3, <3>4 DEF Unblocked, IsBlocked, Members
    <3> QED BY <1>3, <3>5
  <2> QED BY <2>1, <2>2
<1>4. CASE U # {}
  <2>1. /\ i \in DOMAIN arb.q
        /\ r \in Members(arb.q)
        /\ r \in ArbRequest
        /\ r.request = "SEQ_TYPE_LOCK"
        /\ \A x \in Members(arb.locks) : x = r.seq
    BY <1>4, UnblockedLemma
  <2>2. new = [q     |-> RemoveAt(arb.q, i),
               locks |-> Append(arb.locks, r.seq),
               done  |-> arb.done \cup {r.seq}]
    BY <1>4 DEF GrantQueuedLocks
  <2> HIDE DEF i, new
  <2>3. /\ new.locks = Append(arb.locks, r.seq)
        /\ new.done = arb.done \cup {r.seq}
    BY <2>2
  <2>4. r.seq \in Seqs /\ at[r.seq] = "wait_for_lock" /\ r.seq \notin arb.done
    BY <2>1 DEF ArbRequest, QueueOK
  <2>5. r.seq \in lucky
    BY <1>1, <2>1, <2>4
  <2>6. /\ Len(new.locks) = Len(arb.locks) + 1
        /\ Members(new.locks) = Members(arb.locks) \cup {r.seq}
        /\ Exclusive(new.locks)
    <3>1. /\ new.locks \in Seq(Seqs)
          /\ Members(new.locks) = Members(arb.locks) \cup {r.seq}
      BY <2>3, <2>4, AppendMember DEF Arbiters
    <3>2. Len(new.locks) = Len(arb.locks) + 1
      BY <2>3, <2>4, AppendLemma DEF Arbiters
    <3> QED BY <2>1, <3>1, <3>2 DEF Exclusive
  <2>7. HolderOf(new.locks) = r.seq
    BY <2>4, <2>6, HolderLemma
  <2>8. Stages(at, new.done) = Idle(Stages(at, arb.done), r.seq)
    <3>1. \A t \in Seqs : t # r.seq => (t \in new.done <=> t \in arb.done)
      BY <2>3
    <3>2. StageOf(r.seq, at, new.done) = "idle"
      <4> HIDE DEF r, lucky, U
      <4>1. r.seq \in Seqs /\ at[r.seq] = "wait_for_lock" /\ r.seq \in new.done
        BY <2>3, <2>4
      <4>2. Stages(at, new.done)[r.seq] = "idle"
        BY <4>1, StageFacts
      <4> QED BY <4>1, <4>2 DEF Stages
    <3>3. \A t \in Seqs : StageOf(t, at, new.done) =
            IF t = r.seq THEN "idle" ELSE StageOf(t, at, arb.done)
      BY <3>1, <3>2, SameStage
    <3> QED BY <3>3, Zenon DEF Stages, Idle
  <2> QED BY <2>3, <2>5, <2>6, <2>7, <2>8 DEF new
<1> QED BY <1>3, <1>4

\* A call of grant_queued_locks at which the sequences have gone to at.
LEMMA GrantKept ==
  ASSUME NEW arb \in Arbiters, seq_at' \in [Seqs -> Places],
         QueueOK(arb.q, arb.done, seq_at'), Exclusive(arb.locks),
         SetArbiter(GrantQueuedLocks(arb)),
         NEW h, h = HolderOf(arb.locks), NEW d, d = Len(arb.locks),
         NEW st, st = Stages(seq_at', arb.done)
  PROVE  Promise!Grant(h, d, st)
<1> DEFINE new   == GrantQueuedLocks(arb)
           lucky == Promise!Grantable(h, st)
<1>1. \/ \E t \in lucky :
           /\ HolderOf(new.locks) = t
           /\ Len(new.locks) = Len(arb.locks) + 1
           /\ Stages(seq_at', new.done) = Idle(Stages(seq_at', arb.done), t)
      \/ lucky = {} /\ new = arb
  BY GrantSeen
<1>2. lock_list' = new.locks /\ arb_completed' = new.done
  BY DEF SetArbiter
<1> HIDE DEF new, lucky
<1>3. CASE lucky = {} /\ new = arb
  BY <1>2, <1>3 DEF Promise!Grant, Holder, HolderOf, Stages, lucky
<1>4. ASSUME NEW t \in lucky,
             HolderOf(new.locks) = t,
             Len(new.locks) = Len(arb.locks) + 1,
             Stages(seq_at', new.done) = Idle(Stages(seq_at', arb.done), t)
      PROVE  Promise!Grant(h, d, st)
  <2>1. Holder' = t /\ Len(lock_list') = d + 1
    BY <1>2, <1>4 DEF Holder, HolderOf
  <2>2. Stages(seq_at', arb_completed') = Idle(st, t)
    BY <1>2, <1>4
  <2> QED BY <2>1, <2>2 DEF Promise!Grant, Stages, Idle, lucky
<1> QED BY <1>1, <1>3, <1>4

\* The same, of the queue as it stands.
LEMMA GrantHere ==
  ASSUME seq_at' \in [Seqs -> Places],
         QueueOK(arb_sequence_q, arb_completed, seq_at'), Exclusive(lock_list),
         SetArbiter(GrantQueuedLocks(Arbiter(arb_sequence_q)))
  PROVE  Promise!Grant(Holder, Len(lock_list), Stages(seq_at', arb_completed))
<1> DEFINE arb == Arbiter(arb_sequence_q)
<1>1. /\ arb \in Arbiters /\ arb.q = arb_sequence_q
      /\ arb.locks = lock_list /\ arb.done = arb_completed
  BY DEF Arbiter, Arbiters, QueueOK, Exclusive
<1> HIDE DEF arb
<1>2. SetArbiter(GrantQueuedLocks(arb))
  BY DEF arb
<1>3. Holder = HolderOf(arb.locks) /\ Len(lock_list) = Len(arb.locks)
  BY <1>1 DEF Holder, HolderOf
<1> QED BY <1>1, <1>2, <1>3, GrantKept

OthersStay(s, at, done, new, now) ==
  \A t \in Seqs : t # s => new[t] = at[t] /\ (t \in now <=> t \in done)

\* When one sequence moves, its stage is all that may change.
LEMMA StageMove ==
  ASSUME NEW at, NEW done, NEW new, NEW now, NEW s \in Seqs,
         OthersStay(s, at, done, new, now),
         NEW label, Stages(new, now)[s] = label
  PROVE  Stages(new, now) = [Stages(at, done) EXCEPT ![s] = label]
<1>1. label = StageOf(s, new, now)
  BY DEF Stages
<1>2. \A t \in Seqs : t # s => StageOf(t, new, now) = StageOf(t, at, done)
  BY SameStage DEF OthersStay
<1>3. \A t \in Seqs : StageOf(t, new, now) =
        IF t = s THEN label ELSE StageOf(t, at, done)
  BY <1>1, <1>2
<1>4. Stages(new, now) =
        [t \in Seqs |-> IF t = s THEN label ELSE StageOf(t, at, done)]
  BY <1>3, Zenon DEF Stages
<1>5. [Stages(at, done) EXCEPT ![s] = label] =
        [t \in Seqs |-> IF t = s THEN label ELSE StageOf(t, at, done)]
  BY DEF Stages
<1> QED BY <1>4, <1>5

LEMMA StageStays ==
  ASSUME NEW at, NEW done, NEW new, NEW now, NEW s \in Seqs,
         OthersStay(s, at, done, new, now),
         Stages(new, now)[s] = Stages(at, done)[s]
  PROVE  Stages(new, now) = Stages(at, done)
<1>1. StageOf(s, new, now) = StageOf(s, at, done)
  BY DEF Stages
<1>2. \A t \in Seqs : StageOf(t, new, now) = StageOf(t, at, done)
  BY <1>1, SameStage DEF OthersStay
<1> QED BY <1>2, Zenon DEF Stages

LEMMA SameHolder ==
  ASSUME NEW a, Exclusive(a), NEW b, Exclusive(b), Members(a) = Members(b)
  PROVE  HolderOf(a) = HolderOf(b)
<1>1. HolderOf(a) = Null <=> HolderOf(b) = Null
  <2>1. CASE Seqs = {}
    BY <2>1, ListProperties DEF Exclusive, HolderOf
  <2>2. CASE Seqs # {}
    BY <2>2, HolderLemma
  <2> QED BY <2>1, <2>2
<1>2. \A t \in Seqs : HolderOf(a) = t <=> HolderOf(b) = t
  BY HolderLemma
<1>3. HolderOf(a) \in Seqs \cup {Null}
  BY ListProperties DEF Exclusive, HolderOf
<1> QED BY <1>1, <1>2, <1>3

\* A scan that keeps everything keeps the length.
LEMMA KeptWhole ==
  ASSUME NEW S, NEW q \in Seq(S), NEW keep, Members(q) \subseteq keep
  PROVE  Len(Kept(q, keep)) = Len(q)
<1>1. PICK g : /\ Kept(q, keep) = g[Len(q)]
               /\ g[0] = <<>>
               /\ \A n \in 1..Len(q) : g[n] = KeptStep(q, keep, g[n - 1], n)
  BY KeptExists
<1>2. Len(q) \in Nat /\ \A n \in 1..Len(q) : q[n] \in S /\ q[n] \in keep
  BY ListProperties DEF Members
<1> DEFINE Good(n) == g[n] \in Seq(S) /\ Len(g[n]) = n
           T == {n \in 0..Len(q) : ~Good(n)}
<1>3. Good(0)
  BY <1>1
<1>4. ASSUME NEW n \in 1..Len(q), Good(n - 1) PROVE Good(n)
  <2>1. g[n] = Append(g[n - 1], q[n]) /\ q[n] \in S
    BY <1>1, <1>2 DEF KeptStep
  <2>2. g[n] \in Seq(S) /\ Len(g[n]) = (n - 1) + 1
    BY <1>4, <2>1, AppendLemma
  <2> QED BY <1>2, <2>2
<1> HIDE DEF Good
<1>5. T = {}
  <2> SUFFICES ASSUME T # {} PROVE FALSE
    OBVIOUS
  <2>1. PICK m \in T : \A k \in T : m <= k
    <3>1. T \in SUBSET Nat
      BY <1>2
    <3> HIDE DEF T
    <3> QED BY <3>1, LeastNatural
  <2>2. m \in 1..Len(q) /\ m - 1 \in 0..Len(q) /\ ~(m <= m - 1)
    BY <1>2, <1>3, <2>1
  <2> QED BY <1>4, <2>1, <2>2
<1>6. Good(Len(q))
  BY <1>2, <1>5
<1> QED BY <1>1, <1>6 DEF Good

\* A sequence that leaves takes its locks with it and nobody else's.
LEMMA HolderLeaves ==
  ASSUME NEW locks, Exclusive(locks), NEW s \in Seqs
  PROVE  LET left == Kept(locks, Seqs \ {s})
         IN  /\ HolderOf(locks) = s => HolderOf(left) = Null /\ Len(left) = 0
             /\ HolderOf(locks) # s => /\ HolderOf(left) = HolderOf(locks)
                                       /\ Len(left) = Len(locks)
<1> DEFINE left == Kept(locks, Seqs \ {s})
<1>1. /\ left \in Seq(Seqs)
      /\ Members(left) = Members(locks) \cap (Seqs \ {s})
      /\ locks \in Seq(Seqs)
      /\ Members(locks) \subseteq Seqs
  BY KeptLemma, ListProperties DEF Exclusive
<1>2. Exclusive(left)
  BY <1>1 DEF Exclusive
<1>3. CASE HolderOf(locks) = s
  <2>1. \A x \in Members(locks) : x = s
    BY <1>3, HolderLemma DEF Exclusive
  <2>2. Members(left) = {}
    BY <1>1, <2>1
  <2> HIDE DEF left
  <2>3. left = <<>>
    <3>1. DOMAIN left = 1..Len(left) /\ Len(left) \in Nat
      BY <1>1, ListProperties
    <3>2. DOMAIN left = {}
      BY <2>2 DEF Members
    <3>3. Len(left) = 0
      BY <3>1, <3>2, SMTT(30)
    <3> QED BY <1>1, <3>3
  <2>4. HolderOf(left) = Null /\ Len(left) = 0
    BY <2>3 DEF HolderOf
  <2> QED BY <1>3, <2>4, SequencerAssumption DEF left
<1>4. CASE HolderOf(locks) # s
  <2>1. s \notin Members(locks)
    BY <1>4, HolderLemma
  <2>2. Members(left) = Members(locks) /\ Members(locks) \subseteq Seqs \ {s}
    BY <1>1, <2>1
  <2>3. Len(left) = Len(locks)
    BY <1>1, <2>2, KeptWhole
  <2>4. HolderOf(left) = HolderOf(locks)
    BY <1>2, <2>2, SameHolder
  <2> QED BY <1>4, <2>3, <2>4
<1> QED BY <1>3, <1>4

-----------------------------------------------------------------------------
(* Each step keeps the promise, or is not seen *)

Seen == <<Stages(seq_at, arb_completed), Holder, Len(lock_list), Turn, SentItem,
          Driving, delivered>>

LEMMA SeenIsAll == UNCHANGED Seen => UNCHANGED Promise!exchange
BY DEF Seen, Promise!exchange, Stages

LEMMA PromiseInit == ClientsInit => Promise!ExchangeInit
<1> SUFFICES ASSUME ClientsInit PROVE Promise!ExchangeInit
  OBVIOUS
<1>1. /\ seq_at = [s \in Seqs |-> "created"] /\ arb_completed = {}
      /\ lock_list = <<>> /\ m_req_fifo = <<>> /\ driver_at = "clock"
      /\ delivered = [s \in Seqs |-> 0]
  BY DEF ClientsInit, SequencerInit
<1>2. [s \in Seqs |-> StageOf(s, seq_at, arb_completed)] =
        [s \in Seqs |-> "idle"]
  BY <1>1 DEF StageOf
<1>3. /\ Holder = Null /\ Len(lock_list) = 0 /\ SentItem = Null
      /\ Driving = Null /\ Turn = Null
  BY <1>1 DEF Holder, SentItem, Driving, Turn
<1> QED BY <1>1, <1>2, <1>3 DEF Promise!ExchangeInit

LEMMA BeginUnseen == ASSUME Inv, NEW s \in Seqs, Begin(s) PROVE UNCHANGED Seen
<1>1. /\ seq_at[s] = "created"
      /\ seq_at' = [seq_at EXCEPT ![s] = "body"]
      /\ seq_at \in [Seqs -> Places]
      /\ UNCHANGED <<arb_completed, lock_list, m_req_fifo, driver_at, selected,
                     next_item, delivered>>
  BY DEF Begin, StartSequence, Goto, arbitration, handshake, driver, clients,
         Inv, Types
<1>2. seq_at' \in [Seqs -> Places] /\ seq_at'[s] = "body"
  BY <1>1 DEF Places
<1>3. OthersStay(s, seq_at, arb_completed, seq_at', arb_completed')
  BY <1>1 DEF OthersStay
<1>4. Stages(seq_at, arb_completed)[s] = "idle"
  BY <1>1, StageFacts
<1>5. Stages(seq_at', arb_completed')[s] = "idle"
  BY <1>2, StageFacts
<1>6. Stages(seq_at', arb_completed')[s] = Stages(seq_at, arb_completed)[s]
  BY <1>4, <1>5
<1>7. Stages(seq_at', arb_completed') = Stages(seq_at, arb_completed)
  BY <1>3, <1>6, StageStays
<1> QED BY <1>1, <1>7 DEF Seen, Holder, Turn, SentItem, Driving

LEMMA ResumeUnseen ==
  ASSUME Inv, NEW s \in Seqs, ItemGranted(s) \/ LockGranted(s),
         UNCHANGED delivered
  PROVE  UNCHANGED Seen
<1>1. PICK p \in {"granted", "body"} :
        /\ seq_at[s] = IF p = "granted" THEN "wait_for_grant" ELSE "wait_for_lock"
        /\ seq_at' = [seq_at EXCEPT ![s] = p]
        /\ s \in arb_completed
        /\ arb_completed' = arb_completed \ {s}
        /\ seq_at \in [Seqs -> Places]
        /\ UNCHANGED <<lock_list, m_req_fifo, driver_at, selected, next_item,
                       delivered>>
  BY DEF ItemGranted, LockGranted, Goto, handshake, driver, Inv, Types
<1>2. seq_at' \in [Seqs -> Places] /\ seq_at'[s] = p /\ s \notin arb_completed'
  BY <1>1 DEF Places
<1>3. OthersStay(s, seq_at, arb_completed, seq_at', arb_completed')
  BY <1>1 DEF OthersStay
<1>4. Stages(seq_at', arb_completed')[s] = Stages(seq_at, arb_completed)[s]
  <2>1. CASE p = "granted"
    <3>1. Promised(s, arb_completed', seq_at') /\ Promised(s, arb_completed, seq_at)
      BY <1>1, <1>2, <2>1 DEF Promised
    <3>2. Stages(seq_at', arb_completed')[s] = "promised"
      BY <1>2, <3>1, StageFacts
    <3>3. Stages(seq_at, arb_completed)[s] = "promised"
      BY <1>1, <3>1, StageFacts
    <3> QED BY <3>2, <3>3
  <2>2. CASE p = "body"
    <3>1. seq_at[s] = "wait_for_lock" /\ seq_at'[s] = "body"
      BY <1>1, <1>2, <2>2
    <3>2. Stages(seq_at', arb_completed')[s] = "idle"
      BY <1>2, <3>1, StageFacts
    <3>3. Stages(seq_at, arb_completed)[s] = "idle"
      BY <1>1, <3>1, StageFacts
    <3> QED BY <3>2, <3>3
  <2> QED BY <2>1, <2>2
<1>5. Stages(seq_at', arb_completed') = Stages(seq_at, arb_completed)
  BY <1>3, <1>4, StageStays
<1> QED BY <1>1, <1>5 DEF Seen, Holder, Turn, SentItem, Driving

LEMMA ClockEdgeUnseen == ASSUME Inv, ClockEdge PROVE UNCHANGED Seen
<1>1. /\ driver_at = "clock" /\ driver_at' \in {"choose", "return"}
      /\ next_item' = Null
      /\ UNCHANGED <<seq_at, arb_completed, lock_list, m_req_fifo, delivered>>
  BY DEF ClockEdge, TryNextItem, arbitration, handshake
<1> QED BY <1>1 DEF Seen, Holder, Turn, SentItem, Driving, Stages

LEMMA NoItemUnseen == ASSUME NoItem, UNCHANGED clients PROVE UNCHANGED Seen
<1>1. /\ driver_at = "return" /\ next_item = Null /\ driver_at' = "clock"
      /\ UNCHANGED <<seq_at, arb_completed, lock_list, m_req_fifo, selected,
                     next_item, delivered>>
  BY DEF NoItem, arbitration, handshake, clients
<1> QED BY <1>1 DEF Seen, Holder, Turn, SentItem, Driving, Stages

LEMMA SleepUnseen ==
  ASSUME UNCHANGED <<sequencer, delivered>> PROVE UNCHANGED Seen
BY DEF sequencer, arbitration, handshake, driver, Seen, Holder, Turn, SentItem,
       Driving, Stages

LEMMA AskSeen ==
  ASSUME Inv, NEW s \in Seqs, StartItem(s), UNCHANGED delivered
  PROVE  Promise!Ask(s)
<1>1. /\ seq_at[s] = "body"
      /\ seq_at' = [seq_at EXCEPT ![s] = "wait_for_grant"]
      /\ seq_at \in [Seqs -> Places]
      /\ UNCHANGED <<arb_completed, lock_list, m_req_fifo, driver_at, selected,
                     next_item, delivered>>
  BY DEF StartItem, Goto, handshake, driver, Inv, Types
<1>2. s \notin arb_completed
  BY <1>1 DEF Inv, QueueOK
<1>3. seq_at' \in [Seqs -> Places] /\ seq_at'[s] = "wait_for_grant"
  BY <1>1 DEF Places
<1>4. Stages(seq_at, arb_completed)[s] = "idle"
  BY <1>1, StageFacts
<1>5. Stages(seq_at', arb_completed)[s] = "asking"
  BY <1>2, <1>3, StageFacts
<1>6. Stages(seq_at', arb_completed) =
        [Stages(seq_at, arb_completed) EXCEPT ![s] = "asking"]
  <2>1. OthersStay(s, seq_at, arb_completed, seq_at', arb_completed)
    BY <1>1 DEF OthersStay
  <2> QED BY <1>5, <2>1, StageMove
<1> QED BY <1>1, <1>4, <1>6
        DEF Promise!Ask, Promise!At, Stages, Holder, Turn, SentItem, Driving

LEMMA LockSeen ==
  ASSUME Inv, NEW s \in Seqs, Lock(s) \/ Grab(s), UNCHANGED delivered
  PROVE  Promise!RequestLock(s)
<1>1. PICK q \in Seq(ArbRequest) :
        /\ RequestLock(s, q)
        /\ Distinct(q)
        /\ Members(q) = Members(arb_sequence_q) \cup {LockRequest(s)}
  BY LockOrGrab
<1>2. /\ seq_at[s] = "body"
      /\ seq_at' = [seq_at EXCEPT ![s] = "wait_for_lock"]
      /\ seq_at \in [Seqs -> Places]
      /\ SetArbiter(GrantQueuedLocks(Arbiter(q)))
      /\ UNCHANGED <<m_req_fifo, driver_at, selected, next_item, delivered>>
  BY <1>1 DEF RequestLock, Goto, handshake, driver, Inv, Types
<1>3. /\ QueueOK(arb_sequence_q, arb_completed, seq_at)
      /\ Exclusive(lock_list)
      /\ s \notin arb_completed
  BY <1>2 DEF Inv, QueueOK
<1>4. QueueOK(q, arb_completed, seq_at')
  BY <1>1, LockedQueue
<1>5. seq_at' \in [Seqs -> Places] /\ seq_at'[s] = "wait_for_lock"
  BY <1>2 DEF Places
<1>6. Stages(seq_at, arb_completed)[s] = "idle"
  BY <1>2, StageFacts
<1>7. Stages(seq_at', arb_completed)[s] = "locking"
  BY <1>3, <1>5, StageFacts
<1>8. Stages(seq_at', arb_completed) =
        [Stages(seq_at, arb_completed) EXCEPT ![s] = "locking"]
  <2>1. OthersStay(s, seq_at, arb_completed, seq_at', arb_completed)
    BY <1>2 DEF OthersStay
  <2> QED BY <1>7, <2>1, StageMove
<1>9. Promise!Grant(Holder, Len(lock_list), Stages(seq_at', arb_completed))
  <2> DEFINE arb == Arbiter(q)
  <2>1. arb \in Arbiters /\ arb.q = q /\ arb.locks = lock_list
        /\ arb.done = arb_completed
    BY <1>3, ArbiterLemma
  <2> HIDE DEF arb
  <2>2. SetArbiter(GrantQueuedLocks(arb))
    BY <1>2 DEF arb
  <2>3. QueueOK(arb.q, arb.done, seq_at') /\ Exclusive(arb.locks)
    BY <1>3, <1>4, <2>1
  <2>4. Holder = HolderOf(arb.locks) /\ Len(lock_list) = Len(arb.locks)
    BY <2>1 DEF Holder, HolderOf
  <2> QED BY <1>5, <2>1, <2>2, <2>3, <2>4, GrantKept
<1>10. UNCHANGED <<Turn, SentItem, Driving, delivered>>
  BY <1>2 DEF Turn, SentItem, Driving
<1> QED BY <1>6, <1>8, <1>9, <1>10 DEF Promise!RequestLock, Promise!At, Stages

LEMMA SendSeen ==
  ASSUME Inv, NEW s \in Seqs, FinishItem(s, calls[s].item), UNCHANGED delivered
  PROVE  Promise!Send(s)
<1>1. /\ seq_at[s] = "granted"
      /\ seq_at' = [seq_at EXCEPT ![s] = "wait_for_item_done"]
      /\ seq_at \in [Seqs -> Places]
      /\ SetArbiter(GrantQueuedLocks(Arbiter(arb_sequence_q)))
      /\ UNCHANGED <<driver_at, selected, next_item, delivered>>
  BY DEF FinishItem, Goto, driver, Inv, Types
<1>2. /\ Promised(s, arb_completed, seq_at)
      /\ driver_at = "peek" /\ selected = s /\ m_req_fifo = <<>>
      /\ next_item = Null
  BY <1>1 DEF Inv, Exchange, Promised
<1>3. m_req_fifo' = <<[seq |-> s, item |-> delivered[s] + 1]>>
  <2>1. calls[s].item = delivered[s] + 1
    BY <1>1 DEF Inv, Accounts
  <2> QED BY <1>2, <2>1 DEF FinishItem
<1>4. /\ QueueOK(arb_sequence_q, arb_completed, seq_at)
      /\ Exclusive(lock_list)
  BY DEF Inv
<1>5. QueueOK(arb_sequence_q, arb_completed, seq_at')
  <2>1. QueueOK(arb_sequence_q, arb_completed,
                [seq_at EXCEPT ![s] = "wait_for_item_done"])
    BY <1>1, <1>4, MoveLemma DEF Places
  <2> QED BY <1>1, <2>1
<1>6. seq_at' \in [Seqs -> Places] /\ seq_at'[s] = "wait_for_item_done"
  BY <1>1 DEF Places
<1>7. Stages(seq_at, arb_completed)[s] = "promised"
  BY <1>1, <1>2, StageFacts
<1>8. Stages(seq_at', arb_completed)[s] = "sending"
  BY <1>6, StageFacts
<1>9. Stages(seq_at', arb_completed) =
        [Stages(seq_at, arb_completed) EXCEPT ![s] = "sending"]
  <2>1. OthersStay(s, seq_at, arb_completed, seq_at', arb_completed)
    BY <1>1 DEF OthersStay
  <2> QED BY <1>8, <2>1, StageMove
<1>10. Promise!Grant(Holder, Len(lock_list), Stages(seq_at', arb_completed))
  BY <1>1, <1>4, <1>5, <1>6, GrantHere
<1>11. /\ Turn = s /\ SentItem = Null
       /\ SentItem' = [seq |-> s, item |-> delivered[s] + 1]
       /\ UNCHANGED <<Turn, Driving, delivered>>
  BY <1>1, <1>2, <1>3 DEF Turn, SentItem, Driving
<1> QED BY <1>7, <1>9, <1>10, <1>11 DEF Promise!Send, Promise!At, Stages

LEMMA ReturnSeen ==
  ASSUME Inv, NEW s \in Seqs, ItemFinished(s), UNCHANGED delivered
  PROVE  Promise!Return(s)
<1>1. /\ seq_at[s] = "wait_for_item_done"
      /\ m_wait_for_item_sequence_id = s
      /\ seq_at' = [seq_at EXCEPT ![s] = "body"]
      /\ seq_at \in [Seqs -> Places]
      /\ UNCHANGED <<arb_completed, lock_list, m_req_fifo, driver_at, selected,
                     next_item, delivered>>
  BY DEF ItemFinished, Goto, arbitration, handshake, driver, Inv, Types
<1>2. SentItem = Null
  BY <1>1, SequencerAssumption DEF Inv, Exchange, SentItem
<1>3. seq_at' \in [Seqs -> Places] /\ seq_at'[s] = "body"
  BY <1>1 DEF Places
<1>4. Stages(seq_at, arb_completed)[s] = "sending"
  BY <1>1, StageFacts
<1>5. Stages(seq_at', arb_completed)[s] = "idle"
  BY <1>3, StageFacts
<1>6. Stages(seq_at', arb_completed) =
        [Stages(seq_at, arb_completed) EXCEPT ![s] = "idle"]
  <2>1. OthersStay(s, seq_at, arb_completed, seq_at', arb_completed)
    BY <1>1 DEF OthersStay
  <2> QED BY <1>5, <2>1, StageMove
<1>7. UNCHANGED <<Holder, Len(lock_list), Turn, SentItem, Driving, delivered,
                  arb_completed>>
  BY <1>1 DEF Holder, Turn, SentItem, Driving
<1> QED BY <1>2, <1>4, <1>6, <1>7 DEF Promise!Return, Promise!At, Stages

LEMMA ReleaseSeen ==
  ASSUME Inv, NEW s \in Seqs, Unlock(s), UNCHANGED delivered
  PROVE  Promise!Release(s)
<1>1. /\ seq_at[s] = "body"
      /\ seq_at \in [Seqs -> Places]
      /\ UNCHANGED <<m_req_fifo, seq_at, driver_at, selected, next_item, delivered>>
  BY DEF Unlock, handshake, driver, Inv, Types
<1>2. PICK arb \in Arbiters :
        /\ arb.q = arb_sequence_q /\ arb.done = arb_completed
        /\ s \in Members(lock_list)
        /\ Members(arb.locks) \subseteq Members(lock_list)
        /\ Len(arb.locks) = Len(lock_list) - 1
        /\ Exclusive(arb.locks)
        /\ SetArbiter(GrantQueuedLocks(arb))
  BY UnlockedLocks
<1>3. QueueOK(arb.q, arb.done, seq_at') /\ Exclusive(lock_list)
  BY <1>1, <1>2 DEF Inv
<1>4. Holder = s
  <2>1. HolderOf(lock_list) = s
    BY <1>2, <1>3, HolderLemma
  <2> QED BY <2>1 DEF Holder, HolderOf
<1>5. HolderOf(arb.locks) = IF Len(lock_list) = 1 THEN Null ELSE s
  <2>1. arb.locks \in Seq(Seqs) /\ lock_list \in Seq(Seqs)
    BY <1>2, <1>3 DEF Exclusive
  <2>2. Len(lock_list) \in Nat /\ Len(arb.locks) \in Nat
    BY <2>1, ListProperties
  <2>3. DOMAIN arb.locks = 1..Len(arb.locks)
    BY <2>1, ListProperties
  <2>4. arb.locks = <<>> <=> Len(lock_list) = 1
    <3>1. arb.locks = <<>> <=> Len(arb.locks) = 0
      BY <2>1
    <3> QED BY <1>2, <2>2, <3>1
  <2>5. CASE arb.locks = <<>>
    BY <2>4, <2>5 DEF HolderOf
  <2>6. CASE arb.locks # <<>>
    <3>1. Len(arb.locks) # 0
      BY <1>2, <2>2, <2>4, <2>6
    <3>2. 1 \in DOMAIN arb.locks
      BY <2>2, <2>3, <3>1
    <3>3. arb.locks[1] \in Members(lock_list)
      BY <1>2, <3>2 DEF Members
    <3>4. arb.locks[1] = s
      BY <1>2, <1>3, <3>3 DEF Exclusive
    <3> QED BY <2>4, <2>6, <3>4 DEF HolderOf
  <2> QED BY <2>5, <2>6
<1>6. Stages(seq_at, arb_completed)[s] = "idle"
  BY <1>1, StageFacts
<1>7. /\ seq_at' \in [Seqs -> Places]
      /\ Stages(seq_at', arb.done) = Stages(seq_at, arb_completed)
  BY <1>1, <1>2
<1>8. Promise!Grant(IF Len(lock_list) = 1 THEN Null ELSE s, Len(lock_list) - 1,
                    Stages(seq_at, arb_completed))
  <2> DEFINE h == IF Len(lock_list) = 1 THEN Null ELSE s
             d == Len(lock_list) - 1
             st == Stages(seq_at, arb_completed)
  <2>1. /\ h = HolderOf(arb.locks) /\ d = Len(arb.locks)
        /\ st = Stages(seq_at', arb.done)
    BY <1>2, <1>5, <1>7
  <2> HIDE DEF h, d, st
  <2>2. Promise!Grant(h, d, st)
    BY <1>2, <1>3, <1>7, <2>1, GrantKept
  <2> QED BY <2>2 DEF h, d, st
<1>9. UNCHANGED <<Turn, SentItem, Driving, delivered>>
  BY <1>1 DEF Turn, SentItem, Driving
<1> QED BY <1>4, <1>6, <1>8, <1>9 DEF Promise!Release, Stages

LEMMA LeaveSeen ==
  ASSUME Inv, NEW s \in Seqs, FinishSequence(s) \/ Kill(s), UNCHANGED delivered
  PROVE  Promise!Leave(s)
<1>1. PICK p \in {"finished", "killed"} :
        /\ seq_at' = [seq_at EXCEPT ![s] = p]
        /\ seq_at \in [Seqs -> Places]
        /\ lock_list' = Kept(lock_list, Seqs \ {s})
        /\ UNCHANGED <<arb_completed, m_req_fifo, driver_at, selected,
                       next_item, delivered>>
  BY DEF FinishSequence, Kill, RemoveFromQueues, Goto, handshake, driver, Inv, Types
<1>2. seq_at' \in [Seqs -> Places] /\ seq_at'[s] \in {"finished", "killed"}
  BY <1>1 DEF Places
<1>3. Stages(seq_at', arb_completed)[s] = "gone"
  BY <1>2, StageFacts
<1>4. Stages(seq_at', arb_completed) =
        [Stages(seq_at, arb_completed) EXCEPT ![s] = "gone"]
  <2>1. OthersStay(s, seq_at, arb_completed, seq_at', arb_completed)
    BY <1>1 DEF OthersStay
  <2> QED BY <1>3, <2>1, StageMove
<1>5. /\ Holder = s => Holder' = Null /\ Len(lock_list') = 0
      /\ Holder # s => Holder' = Holder /\ Len(lock_list') = Len(lock_list)
  <2>1. Exclusive(lock_list)
    BY DEF Inv
  <2>2. Holder = HolderOf(lock_list) /\ Holder' = HolderOf(lock_list')
    BY DEF Holder, HolderOf
  <2> QED BY <1>1, <2>1, <2>2, HolderLeaves
<1>6. UNCHANGED <<Turn, SentItem, Driving, delivered, arb_completed>>
  BY <1>1 DEF Turn, SentItem, Driving
<1> QED BY <1>4, <1>5, <1>6 DEF Promise!Leave, Promise!At, Stages

LEMMA DriveSeen ==
  ASSUME Inv, Settled, PeekItem, UNCHANGED delivered
  PROVE  Promise!Drive
<1>1. driver_at = "peek" /\ selected \in Seqs /\ m_req_fifo # <<>>
  BY SentWhenPeeked
<1>2. /\ driver_at' = "return" /\ next_item' = Head(m_req_fifo)
      /\ UNCHANGED <<seq_at, arb_completed, lock_list, m_req_fifo, selected,
                     delivered>>
  BY <1>1 DEF PeekItem, arbitration, handshake
<1>3. /\ m_req_fifo = <<Head(m_req_fifo)>> /\ Head(m_req_fifo) \in Items
      /\ m_req_fifo[1] = Head(m_req_fifo)
  BY <1>1, SingletonLemma DEF Inv, Types
<1>4. Head(m_req_fifo) # Null /\ selected # Null
  BY <1>1, <1>3, ClientsAssumption, SequencerAssumption DEF Items
<1>5. /\ Turn = selected /\ Driving = Null /\ SentItem = Head(m_req_fifo)
      /\ Driving' = Head(m_req_fifo) /\ Turn' = selected
  BY <1>1, <1>2, <1>3, <1>4 DEF Turn, Driving, SentItem
<1>6. UNCHANGED <<Stages(seq_at, arb_completed), Holder, SentItem>>
  BY <1>2 DEF Stages, Holder, SentItem
<1> QED BY <1>2, <1>4, <1>5, <1>6 DEF Promise!Drive, Stages

LEMMA DoneSeen ==
  ASSUME Inv, ItemDone,
         delivered' = [delivered EXCEPT ![next_item.seq] = @ + 1]
  PROVE  Promise!Done
<1>1. /\ driver_at = "return" /\ next_item # Null
      /\ m_req_fifo' = <<>>
      /\ SetArbiter(GrantQueuedLocks(Arbiter(arb_sequence_q)))
      /\ driver_at' = "clock"
      /\ seq_at' = seq_at /\ seq_at \in [Seqs -> Places]
  BY DEF ItemDone, Inv, Types
<1>2. m_req_fifo = <<next_item>>
  BY <1>1 DEF Inv, Exchange
<1>3. m_req_fifo # <<>> /\ m_req_fifo[1] = next_item
  BY <1>2
<1>4. next_item.item = delivered[next_item.seq] + 1
  BY <1>3 DEF Inv, Accounts
<1>5. delivered' = [delivered EXCEPT ![next_item.seq] = next_item.item]
  BY <1>4
<1>6. /\ Driving = next_item /\ SentItem = next_item
      /\ Turn' = Null /\ SentItem' = Null /\ Driving' = Null
  BY <1>1, <1>3 DEF Driving, SentItem, Turn
<1>7. Promise!Grant(Holder, Len(lock_list), Stages(seq_at', arb_completed))
  <2>1. QueueOK(arb_sequence_q, arb_completed, seq_at') /\ Exclusive(lock_list)
    BY <1>1 DEF Inv
  <2>2. seq_at' \in [Seqs -> Places]
    BY <1>1
  <2> QED BY <1>1, <2>1, <2>2, GrantHere
<1>8. Promise!Grant(Holder, Len(lock_list), Stages(seq_at, arb_completed))
  BY <1>1, <1>7
<1> QED BY <1>1, <1>5, <1>6, <1>8 DEF Promise!Done, Stages

\* The outcome of m_choose_next_request once the locks have been looked at.
LEMMA ChosenOrNobody ==
  ASSUME NEW before \in Arbiters,
         QueueOK(before.q, before.done, seq_at), Exclusive(before.locks),
         ChooseNextRequest(before)
  PROVE  LET arb == GrantQueuedLocks(before)
             Free(s) == \A x \in Members(arb.locks) : x = s
         IN  /\ lock_list' = arb.locks
             /\ \/ /\ selected' = Null /\ driver_at' = "return"
                   /\ SetArbiter(arb)
                   /\ \A s \in Seqs : seq_at[s] = "wait_for_grant" /\ s \notin arb.done
                        => ~Free(s)
                \/ /\ selected' \in Seqs /\ driver_at' = "peek"
                   /\ seq_at[selected'] = "wait_for_grant"
                   /\ selected' \notin arb.done
                   /\ arb_completed' = arb.done \cup {selected'}
                   /\ Free(selected')
<1> DEFINE arb == GrantQueuedLocks(before)
           U   == Unblocked(arb, "SEQ_TYPE_REQ")
           i   == Min(U)
           r   == arb.q[i]
<1>1. /\ arb \in Arbiters
      /\ QueueOK(arb.q, arb.done, seq_at)
      /\ Exclusive(arb.locks)
  BY GrantLemma
<1>2. \/ /\ U = {}
         /\ SetArbiter(arb)
         /\ selected' = Null
         /\ driver_at' = "return"
      \/ /\ U # {}
         /\ SetArbiter([arb EXCEPT !.q = RemoveAt(@, i), !.done = @ \cup {r.seq}])
         /\ selected' = r.seq
         /\ driver_at' = "peek"
  BY DEF ChooseNextRequest
<1> HIDE DEF arb
<1>3. CASE /\ U = {}
           /\ SetArbiter(arb)
           /\ selected' = Null
           /\ driver_at' = "return"
  <2>1. lock_list' = arb.locks /\ arb_completed' = arb.done
    BY <1>3 DEF SetArbiter
  <2>2. ASSUME NEW s \in Seqs, seq_at[s] = "wait_for_grant", s \notin arb.done,
               \A x \in Members(arb.locks) : x = s
        PROVE  FALSE
    <3>1. PICK x \in Members(arb.q) : x.seq = s
      BY <1>1, <2>2 DEF QueueOK
    <3>2. x.request = "SEQ_TYPE_REQ"
      BY <1>1, <2>2, <3>1, RequestProperties DEF QueueOK, ArbRequest
    <3>3. PICK k \in DOMAIN arb.q : arb.q[k] = x
      BY DEF Members
    <3>4. k \in U
      BY <2>2, <3>1, <3>2, <3>3 DEF Unblocked, IsBlocked, Members
    <3> QED BY <1>3, <3>4
  <2> QED BY <1>3, <2>1, <2>2 DEF arb
<1>4. CASE /\ U # {}
           /\ SetArbiter([arb EXCEPT !.q = RemoveAt(@, i), !.done = @ \cup {r.seq}])
           /\ selected' = r.seq
           /\ driver_at' = "peek"
  <2>1. /\ i \in DOMAIN arb.q
        /\ r \in Members(arb.q)
        /\ r \in ArbRequest
        /\ r.request = "SEQ_TYPE_REQ"
        /\ \A x \in Members(arb.locks) : x = r.seq
    BY <1>1, <1>4, UnblockedLemma
  <2>2. lock_list' = arb.locks /\ arb_completed' = arb.done \cup {r.seq}
    BY <1>1, <1>4 DEF SetArbiter, Arbiters
  <2> HIDE DEF i
  <2>3. /\ r.seq \in Seqs /\ seq_at[r.seq] = "wait_for_grant"
        /\ r.seq \notin arb.done
    BY <1>1, <2>1 DEF ArbRequest, QueueOK
  <2> QED BY <1>4, <2>1, <2>2, <2>3 DEF arb
<1> QED BY <1>2, <1>3, <1>4

\* The turn is free when try_next_item chooses, and what it starts from
\* looks as it did before.
LEMMA ChooseFree ==
  ASSUME Inv, ChooseRequest \/ ChooseAgain
  PROVE  /\ Promise!TurnIsFree
         /\ UNCHANGED <<seq_at, SentItem, next_item>> /\ next_item = Null
         /\ \E before \in Arbiters :
              /\ before.locks = lock_list
              /\ Stages(seq_at, before.done) = Stages(seq_at, arb_completed)
              /\ QueueOK(before.q, before.done, seq_at)
              /\ ChooseNextRequest(before)
<1>1. /\ next_item = Null /\ m_req_fifo = <<>>
      /\ UNCHANGED <<m_req_fifo, seq_at, next_item>>
      /\ driver_at \in {"choose", "peek"}
      /\ driver_at = "peek" => selected \in Seqs /\ seq_at[selected] = "killed"
  BY ChooseStart
<1>2. PICK before \in Arbiters :
        /\ before.locks = lock_list
        /\ \/ before.done = arb_completed
           \/ driver_at = "peek" /\ before.done = arb_completed \ {selected}
        /\ QueueOK(before.q, before.done, seq_at)
        /\ ChooseNextRequest(before)
  BY ChooseStart
<1>3. seq_at \in [Seqs -> Places]
  BY DEF Inv, Types
<1>4. driver_at = "peek" => Stages(seq_at, arb_completed)[selected] = "gone"
  BY <1>1, <1>3, StageFacts
<1>5. Stages(seq_at, before.done) = Stages(seq_at, arb_completed)
  <2>1. CASE before.done = arb_completed
    BY <2>1
  <2>2. CASE driver_at = "peek" /\ before.done = arb_completed \ {selected}
    <3>1. selected \in Seqs /\ seq_at[selected] = "killed"
      BY <1>1, <2>2
    <3>2. OthersStay(selected, seq_at, arb_completed, seq_at, before.done)
      BY <2>2 DEF OthersStay
    <3>3. Stages(seq_at, before.done)[selected] = "gone"
      BY <1>3, <3>1, StageFacts
    <3>4. Stages(seq_at, before.done)[selected] =
            Stages(seq_at, arb_completed)[selected]
      BY <1>4, <2>2, <3>3
    <3> QED BY <3>1, <3>2, <3>4, StageStays
  <2> QED BY <1>2, <2>1, <2>2
<1>6. Promise!TurnIsFree
  <2>1. SentItem = Null
    BY <1>1 DEF SentItem
  <2>2. Turn = Null \/ (driver_at = "peek" /\ Turn = selected)
    BY <1>1 DEF Turn, Driving
  <2> QED BY <1>4, <2>1, <2>2 DEF Promise!TurnIsFree, Stages
<1>7. UNCHANGED SentItem
  BY <1>1 DEF SentItem
<1> QED BY <1>1, <1>2, <1>5, <1>6, <1>7

\* A lock granted does not depend on who is chosen after it.
LEMMA GrantThenChoose ==
  ASSUME NEW arb \in Arbiters, NEW at \in [Seqs -> Places],
         QueueOK(arb.q, arb.done, at), Exclusive(arb.locks),
         NEW c \in Seqs,
         LET new == GrantQueuedLocks(arb)
         IN  /\ at[c] = "wait_for_grant" /\ c \notin new.done
             /\ seq_at' = at
             /\ lock_list' = new.locks
             /\ arb_completed' = new.done \cup {c},
         NEW h, h = HolderOf(arb.locks), NEW d, d = Len(arb.locks),
         NEW st, st = Stages(at, arb.done)
  PROVE  /\ st[c] = "asking"
         /\ Promise!Grant(h, d, [st EXCEPT ![c] = "promised"])
<1> DEFINE new   == GrantQueuedLocks(arb)
           lucky == Promise!Grantable(h, st)
           chosen == [st EXCEPT ![c] = "promised"]
<1> SUFFICES st[c] = "asking" /\ Promise!Grant(h, d, chosen)
  OBVIOUS
<1>1. \/ \E t \in lucky :
           /\ HolderOf(new.locks) = t
           /\ Len(new.locks) = Len(arb.locks) + 1
           /\ Stages(at, new.done) = Idle(st, t)
      \/ lucky = {} /\ new = arb
  BY GrantSeen
<1>2. /\ at[c] = "wait_for_grant" /\ c \notin new.done
      /\ seq_at' = at
      /\ lock_list' = new.locks
      /\ arb_completed' = new.done \cup {c}
  OBVIOUS
<1> HIDE DEF new
<1>3. Stages(at, new.done)[c] = "asking"
  BY <1>2, StageFacts
<1>4. Stages(seq_at', arb_completed')[c] = "promised"
  <2>1. Promised(c, arb_completed', seq_at')
    BY <1>2 DEF Promised
  <2>2. seq_at' \in [Seqs -> Places]
    BY <1>2
  <2> QED BY <2>1, <2>2, StageFacts
<1>5. Stages(seq_at', arb_completed') =
        [Stages(at, new.done) EXCEPT ![c] = "promised"]
  <2>1. OthersStay(c, at, new.done, seq_at', arb_completed')
    BY <1>2 DEF OthersStay
  <2> QED BY <1>4, <2>1, StageMove
<1>6. /\ st = [s \in Seqs |-> st[s]]
      /\ chosen = [s \in Seqs |-> IF s = c THEN "promised" ELSE st[s]]
  BY DEF Stages
<1>7. lucky \subseteq Seqs /\ \A t \in lucky : st[t] = "locking"
  BY DEF Promise!Grantable
<1>8. Holder' = HolderOf(new.locks) /\ Len(lock_list') = Len(new.locks)
  BY <1>2 DEF Holder, HolderOf
<1>9. CASE lucky = {} /\ new = arb
  <2>1. st[c] = "asking"
    BY <1>3, <1>9
  <2>2. Promise!Grantable(h, chosen) = {}
    BY <1>6, <1>9, <2>1 DEF Promise!Grantable
  <2>3. Holder' = h /\ Len(lock_list') = d /\ Stages(seq_at', arb_completed') = chosen
    BY <1>5, <1>8, <1>9
  <2> HIDE DEF chosen
  <2>4. Promise!Grant(h, d, chosen)
    BY <2>2, <2>3 DEF Promise!Grant, Stages
  <2> QED BY <2>1, <2>4 DEF chosen
<1>10. ASSUME NEW t \in lucky,
              HolderOf(new.locks) = t,
              Len(new.locks) = Len(arb.locks) + 1,
              Stages(at, new.done) = Idle(st, t)
       PROVE  st[c] = "asking" /\ Promise!Grant(h, d, chosen)
  <2>1. st[c] = "asking" /\ t # c
    BY <1>3, <1>7, <1>10 DEF Idle
  <2>2. t \in Promise!Grantable(h, chosen)
    BY <1>6, <1>7, <2>1 DEF Promise!Grantable
  <2>3. [Idle(st, t) EXCEPT ![c] = "promised"] = Idle(chosen, t)
    BY <1>6, <2>1 DEF Idle
  <2>4. /\ Holder' = t /\ Len(lock_list') = d + 1
        /\ Stages(seq_at', arb_completed') = Idle(chosen, t)
    BY <1>5, <1>8, <1>10, <2>3
  <2> HIDE DEF chosen
  <2>5. Promise!Grant(h, d, chosen)
    BY <2>2, <2>4 DEF Promise!Grant, Stages, Idle
  <2> QED BY <2>1, <2>5
<1> HIDE DEF lucky, chosen
<1> QED BY <1>1, <1>9, <1>10

LEMMA ChooseSeen ==
  ASSUME Inv, ChooseRequest \/ ChooseAgain, UNCHANGED delivered
  PROVE  Promise!ChooseNobody \/ \E s \in Seqs : Promise!Choose(s)
<1>1. PICK before \in Arbiters :
        /\ before.locks = lock_list
        /\ Stages(seq_at, before.done) = Stages(seq_at, arb_completed)
        /\ QueueOK(before.q, before.done, seq_at)
        /\ ChooseNextRequest(before)
  BY ChooseFree
<1>2. /\ Promise!TurnIsFree
      /\ UNCHANGED <<seq_at, SentItem, next_item>> /\ next_item = Null
  BY ChooseFree
<1> DEFINE arb == GrantQueuedLocks(before)
           Free(s) == \A x \in Members(arb.locks) : x = s
           st == Stages(seq_at, arb_completed)
<1>3. /\ seq_at \in [Seqs -> Places] /\ seq_at' \in [Seqs -> Places]
      /\ Exclusive(before.locks)
  BY <1>1, <1>2 DEF Inv, Types
<1>4. /\ Holder = HolderOf(before.locks) /\ Len(lock_list) = Len(before.locks)
      /\ st = Stages(seq_at, before.done)
  BY <1>1 DEF Holder, HolderOf
<1>5. /\ Exclusive(arb.locks)
      /\ \A s \in Seqs : Free(s) <=> HolderOf(arb.locks) \in {Null, s}
  <2>1. Exclusive(arb.locks)
    BY <1>1, <1>3, GrantLemma
  <2> HIDE DEF arb
  <2> QED BY <2>1, HolderLemma
<1>6. /\ lock_list' = arb.locks
      /\ \/ /\ selected' = Null /\ driver_at' = "return"
            /\ SetArbiter(arb)
            /\ \A s \in Seqs : seq_at[s] = "wait_for_grant" /\ s \notin arb.done
                 => ~Free(s)
         \/ /\ selected' \in Seqs /\ driver_at' = "peek"
            /\ seq_at[selected'] = "wait_for_grant"
            /\ selected' \notin arb.done
            /\ arb_completed' = arb.done \cup {selected'}
            /\ Free(selected')
  BY <1>1, <1>3, ChosenOrNobody
<1>7. Holder' = HolderOf(arb.locks)
  BY <1>6 DEF Holder, HolderOf
<1>8. Driving = Null /\ Driving' = Null
  BY <1>2, <1>6 DEF Driving, ChooseRequest, ChooseAgain
<1>9. CASE /\ selected' = Null /\ driver_at' = "return"
           /\ SetArbiter(arb)
           /\ \A s \in Seqs : seq_at[s] = "wait_for_grant" /\ s \notin arb.done
                => ~Free(s)
  <2>1. Promise!Grant(Holder, Len(lock_list), st)
    <3>1. Promise!Grant(Holder, Len(lock_list), Stages(seq_at', before.done))
      <4>1. QueueOK(before.q, before.done, seq_at')
        BY <1>1, <1>2
      <4> QED BY <1>3, <1>4, <1>9, <4>1, GrantKept
    <3> QED BY <1>2, <1>4, <3>1
  <2>2. ASSUME NEW s \in Seqs, st[s] = "asking" PROVE Holder' \notin {Null, s}
    <3>1. seq_at[s] = "wait_for_grant" /\ s \notin before.done
      <4>1. Stages(seq_at, before.done)[s] = "asking"
        BY <1>4, <2>2
      <4> HIDE DEF st
      <4> QED BY <1>3, <4>1, StageFacts
    <3>2. Promised(s, arb.done, seq_at) <=> Promised(s, before.done, seq_at)
      BY <1>1, <1>3, GrantLemma
    <3>3. s \notin arb.done
      <4> HIDE DEF arb
      <4> QED BY <3>1, <3>2 DEF Promised
    <3> QED BY <1>5, <1>7, <1>9, <3>1, <3>3
  <2>3. Turn' = Null
    BY <1>8, <1>9 DEF Turn
  <2>4. UNCHANGED <<SentItem, Driving, delivered>>
    BY <1>2, <1>8
  <2> QED BY <1>2, <2>1, <2>2, <2>3, <2>4 DEF Promise!ChooseNobody, Stages
<1>10. CASE /\ selected' \in Seqs /\ driver_at' = "peek"
            /\ seq_at[selected'] = "wait_for_grant"
            /\ selected' \notin arb.done
            /\ arb_completed' = arb.done \cup {selected'}
            /\ Free(selected')
  <2> DEFINE c == selected'
  <2>1. /\ c \in Seqs /\ seq_at[c] = "wait_for_grant" /\ c \notin arb.done
        /\ seq_at' = seq_at /\ lock_list' = arb.locks
        /\ arb_completed' = arb.done \cup {c}
    BY <1>2, <1>6, <1>10
  <2>2. /\ st[c] = "asking"
        /\ Promise!Grant(Holder, Len(lock_list), [st EXCEPT ![c] = "promised"])
    <3> HIDE DEF c, st
    <3> QED BY <1>1, <1>3, <1>4, <2>1, GrantThenChoose
  <2>3. Holder' \in {Null, c}
    BY <1>5, <1>7, <1>10
  <2>4. Turn' = c
    BY <1>10 DEF Turn
  <2>5. Promise!Choose(c)
    <3> HIDE DEF c
    <3> QED BY <1>2, <1>8, <2>2, <2>3, <2>4 DEF Promise!Choose, Promise!At, Stages
  <2> QED BY <1>10, <2>5
<1> QED BY <1>6, <1>9, <1>10

\* Every step of the clients is a step of the promise or is not seen.
LEMMA NextSeen ==
  Inv /\ [ClientsNext]_ClientsVars => [Promise!ExchangeNext]_(Promise!exchange)
<1> SUFFICES ASSUME Inv, [ClientsNext]_ClientsVars
             PROVE  Promise!ExchangeNext \/ UNCHANGED Seen
  BY SeenIsAll
<1>1. ASSUME NEW s \in Seqs, Begin(s) PROVE UNCHANGED Seen
  BY <1>1, BeginUnseen
<1>2. ASSUME NEW s \in Seqs, RunClient(s)
      PROVE  Promise!ExchangeNext \/ UNCHANGED Seen
  <2>1. ClientStep(s) /\ UNCHANGED delivered
    BY <1>2 DEF RunClient
  <2>2. CASE StartItem(s)
    BY <2>1, <2>2, AskSeen DEF Promise!ExchangeNext
  <2>3. CASE Lock(s) \/ Grab(s)
    BY <2>1, <2>3, LockSeen DEF Promise!ExchangeNext
  <2>4. CASE FinishItem(s, calls[s].item)
    BY <2>1, <2>4, SendSeen DEF Promise!ExchangeNext
  <2>5. CASE ItemGranted(s) \/ LockGranted(s)
    BY <2>1, <2>5, ResumeUnseen
  <2>6. CASE ItemFinished(s)
    BY <2>1, <2>6, ReturnSeen DEF Promise!ExchangeNext
  <2>7. CASE Unlock(s)
    BY <2>1, <2>7, ReleaseSeen DEF Promise!ExchangeNext
  <2>8. CASE FinishSequence(s)
    BY <2>1, <2>8, LeaveSeen DEF Promise!ExchangeNext
  <2> QED BY <2>1, <2>2, <2>3, <2>4, <2>5, <2>6, <2>7, <2>8 DEF ClientStep
<1>3. ASSUME NEW s \in Seqs, Wait(s) PROVE UNCHANGED Seen
  BY <1>3, SleepUnseen DEF Wait
<1>4. ASSUME NEW s \in Seqs, Die(s) PROVE Promise!ExchangeNext
  BY <1>4, LeaveSeen DEF Die, clients, Promise!ExchangeNext
<1>5. CASE ClockEdge
  BY <1>5, ClockEdgeUnseen
<1>6. CASE RunDriver
  <2>1. CASE (ChooseRequest \/ ChooseAgain) /\ UNCHANGED clients
    BY <2>1, ChooseSeen DEF clients, Promise!ExchangeNext
  <2>2. CASE Settled /\ PeekItem /\ UNCHANGED clients
    BY <2>2, DriveSeen DEF clients, Promise!ExchangeNext
  <2>3. CASE /\ ItemDone
             /\ delivered' = [delivered EXCEPT ![next_item.seq] = @ + 1]
    BY <2>3, DoneSeen DEF Promise!ExchangeNext
  <2>4. CASE NoItem /\ UNCHANGED clients
    BY <2>4, NoItemUnseen
  <2> QED BY <1>6, <2>1, <2>2, <2>3, <2>4 DEF RunDriver
<1>7. CASE UNCHANGED ClientsVars
  BY <1>7, SleepUnseen DEF ClientsVars, clients
<1> QED BY <1>1, <1>2, <1>3, <1>4, <1>5, <1>6, <1>7 DEF ClientsNext

-----------------------------------------------------------------------------
\* The sequencer of uvm-core keeps the promise of ItemExchange, for any
\* number of sequences, items, locks and kills.
THEOREM ExchangeIsKept == ClientsSpec => ImplementsExchange
<1>1. ClientsInit => Promise!ExchangeInit
  BY PromiseInit
<1>2. Inv /\ [ClientsNext]_ClientsVars
        => [Promise!ExchangeNext]_(Promise!exchange)
  BY NextSeen
<1> QED BY <1>1, <1>2, AlwaysInv, PTL
        DEF ClientsSpec, Promise!ExchangeSpec, ImplementsExchange
=============================================================================
