----------------------------- MODULE GlobProofs -----------------------------
(***************************************************************************)
(* Proofs about what a glob matches: that the expression uvm_re_deglobbed  *)
(* writes for it, as regcomp reads it and regexec applies it, matches what *)
(* the glob does, and with it that the answers of uvm_re_match are right.  *)
(***************************************************************************)
EXTENDS RegexMatchProofs

-----------------------------------------------------------------------------
(* Folds                                                                   *)

\* Induction up to n.
LEMMA Upward ==
  ASSUME NEW n \in Nat, NEW T, 0 \in T, \A i \in 1..n : i - 1 \in T => i \in T
  PROVE  \A i \in 0..n : i \in T
<1> DEFINE R == {i \in 0..n : i \notin T}
<1> SUFFICES ASSUME R # {} PROVE FALSE
  OBVIOUS
<1>1. PICK m \in R : \A k \in R : m <= k
  <2>1. R \in SUBSET Nat
    OBVIOUS
  <2> HIDE DEF R
  <2> QED BY <2>1, LeastNatural
<1>2. m \in 1..n
  OBVIOUS
<1>3. m - 1 \in 0..n /\ m - 1 \notin R
  BY <1>1, <1>2
<1> QED BY <1>2, <1>3

\* g is what a fold of e with step has after each of its members.
IsFold(g, step, b, e, n) ==
  /\ g[0] = b
  /\ \A i \in 1..n : g[i] = step[<<g[i - 1], e[i]>>]

LEMMA FoldExists ==
  ASSUME NEW S, NEW C, NEW step \in [S \X C -> S], NEW b \in S, NEW e \in Seq(C)
  PROVE  \E g \in [0..Len(e) -> S] : IsFold(g, step, b, e, Len(e))
<1> DEFINE n == Len(e)
           T == {m \in 0..n : \E g \in [0..m -> S] : IsFold(g, step, b, e, m)}
<1>0. n \in Nat /\ \A i \in 1..n : e[i] \in C
  OBVIOUS
<1>1. 0 \in T
  <2>1. [i \in 0..0 |-> b] \in [0..0 -> S] /\ IsFold([i \in 0..0 |-> b], step, b, e, 0)
    BY DEF IsFold
  <2> QED BY <1>0, <2>1
<1>2. ASSUME NEW m \in 1..n, m - 1 \in T PROVE m \in T
  <2>1. PICK g \in [0..(m - 1) -> S] : IsFold(g, step, b, e, m - 1)
    BY <1>2
  <2> DEFINE h == [i \in 0..m |-> IF i = m THEN step[<<g[m - 1], e[m]>>] ELSE g[i]]
  <2>2. h \in [0..m -> S]
    <3>1. step[<<g[m - 1], e[m]>>] \in S
      <4>1. g[m - 1] \in S /\ e[m] \in C
        BY <1>0
      <4> QED BY <4>1
    <3> QED BY <3>1
  <2>3. IsFold(h, step, b, e, m)
    <3>1. h[0] = b
      BY <2>1 DEF IsFold
    <3>2. ASSUME NEW i \in 1..m PROVE h[i] = step[<<h[i - 1], e[i]>>]
      <4>1. i \in 0..m /\ i - 1 \in 0..m /\ i - 1 # m
        OBVIOUS
      <4>2. h[i - 1] = g[i - 1]
        BY <4>1
      <4>3. CASE i = m
        BY <4>1, <4>2, <4>3
      <4>4. CASE i # m
        <5>1. i \in 1..(m - 1)
          BY <4>4
        <5> QED BY <2>1, <4>1, <4>2, <4>4, <5>1 DEF IsFold
      <4> QED BY <4>3, <4>4
    <3> HIDE DEF h
    <3> QED BY <3>1, <3>2 DEF IsFold
  <2> HIDE DEF h
  <2> QED BY <2>2, <2>3
<1> HIDE DEF T
<1>3. \A i \in 0..n : i \in T
  BY <1>0, <1>1, <1>2, Upward
<1>4. n \in T
  BY <1>0, <1>3
<1> QED BY <1>4 DEF T

\* Folds of sequences that begin alike.
LEMMA FoldsAgree ==
  ASSUME NEW n \in Nat, NEW step, NEW b, NEW e, NEW f, NEW g, NEW h,
         IsFold(g, step, b, e, n), IsFold(h, step, b, f, n),
         \A i \in 1..n : e[i] = f[i]
  PROVE  \A i \in 0..n : g[i] = h[i]
<1> DEFINE T == {i \in 0..n : g[i] = h[i]}
<1>1. 0 \in T
  BY DEF IsFold
<1>2. ASSUME NEW i \in 1..n, i - 1 \in T PROVE i \in T
  <2>1. g[i] = step[<<g[i - 1], e[i]>>] /\ h[i] = step[<<h[i - 1], f[i]>>]
    BY DEF IsFold
  <2> QED BY <1>2, <2>1
<1> HIDE DEF T
<1>3. \A i \in 0..n : i \in T
  BY <1>1, <1>2, Upward
<1> QED BY <1>3 DEF T
-----------------------------------------------------------------------------
(* Reading an expression                                                   *)

Whats == Characters \cup {"anything", "start", "end"}
Elements == [what : Whats, times : {"once", "any", "some"}]
Readings == [elements : Seq(Elements), escaped : BOOLEAN, valid : BOOLEAN]
Unread == [elements |-> <<>>, escaped |-> FALSE, valid |-> TRUE]
Reading == [x \in Readings \X Characters |-> ReadOn(x[1], x[2])]

LEMMA Append1Type ==
  ASSUME NEW r \in Readings, NEW w \in Whats
  PROVE  Append1(r, w) \in Readings
<1>1. [what |-> w, times |-> "once"] \in Elements
  BY DEF Elements
<1>2. Append(r.elements, [what |-> w, times |-> "once"]) \in Seq(Elements)
  BY <1>1 DEF Readings
<1> QED BY <1>2 DEF Append1, Readings

LEMMA RepeatLemma ==
  ASSUME NEW r \in Readings, NEW t \in {"any", "some"}, r.elements # <<>>
  PROVE  Repeat(r, t) =
           [r EXCEPT !.elements = [r.elements EXCEPT ![Len(r.elements)].times = t]]
BY DEF Repeat, Readings

LEMMA RepeatType ==
  ASSUME NEW r \in Readings, NEW t \in {"any", "some"}
  PROVE  Repeat(r, t) \in Readings
<1> DEFINE n == Len(r.elements)
           repeated == [r.elements EXCEPT ![n].times = t]
<1>0. r.elements \in Seq(Elements)
  BY DEF Readings
<1>1. CASE r.elements = <<>>
  BY <1>1 DEF Repeat, Readings
<1>2. CASE r.elements # <<>>
  <2>1. n \in 1..Len(r.elements)
    BY <1>0, <1>2
  <2>2. [r.elements[n] EXCEPT !.times = t] \in Elements
    <3>1. r.elements[n] \in Elements
      BY <1>0, <2>1
    <3>2. \A x \in Elements : [x EXCEPT !.times = t] \in Elements
      BY DEF Elements
    <3> QED BY <3>1, <3>2
  <2>3. repeated \in Seq(Elements)
    BY <1>0, <2>1, <2>2
  <2>4. Repeat(r, t) = [r EXCEPT !.elements = repeated]
    BY <1>2, RepeatLemma
  <2> QED BY <2>3, <2>4 DEF Readings
<1> QED BY <1>1, <1>2

LEMMA ReadOnType ==
  ASSUME NEW r \in Readings, NEW c \in Characters
  PROVE  ReadOn(r, c) \in Readings
<1>1. \A w \in Whats : Append1(r, w) \in Readings
  BY Append1Type
<1>2. \A t \in {"any", "some"} : Repeat(r, t) \in Readings
  BY RepeatType
<1>3. {c, "anything", "start", "end"} \subseteq Whats
  BY DEF Whats
<1>4. [r EXCEPT !.escaped = TRUE] \in Readings /\ [r EXCEPT !.valid = FALSE] \in Readings
  BY DEF Readings
<1> HIDE DEF Readings
<1> QED BY <1>1, <1>2, <1>3, <1>4 DEF ReadOn

\* Parsed is the fold of an expression with ReadOn.
LEMMA ParsedFold ==
  ASSUME NEW e \in Seq(Characters)
  PROVE  \E g \in [0..Len(e) -> Readings] :
           IsFold(g, Reading, Unread, e, Len(e)) /\ Parsed(e) = g[Len(e)]
<1> DEFINE n == Len(e)
           Rec(g) == g = [i \in 0..n |-> IF i = 0 THEN Unread ELSE ReadOn(g[i - 1], e[i])]
           f == CHOOSE f : Rec(f)
<1>0. n \in Nat /\ \A i \in 1..n : e[i] \in Characters
  OBVIOUS
<1>1. Unread \in Readings
  BY DEF Unread, Readings
<1>2. Reading \in [Readings \X Characters -> Readings]
  BY ReadOnType DEF Reading
<1>3. PICK g \in [0..n -> Readings] : IsFold(g, Reading, Unread, e, n)
  <2> HIDE DEF Rec
  <2> QED BY <1>1, <1>2, FoldExists, Zenon
<1>4. Rec(g)
  <2>1. \A i \in 1..n : i # 0 /\ i - 1 \in 0..n
    BY <1>0
  <2>2. \A i \in 1..n : g[i] = ReadOn(g[i - 1], e[i])
    BY <1>0, <1>3, <2>1 DEF IsFold, Reading
  <2>3. \A i \in 0..n : i = 0 \/ i \in 1..n
    BY <1>0
  <2>4. \A i \in 0..n : g[i] = IF i = 0 THEN Unread ELSE ReadOn(g[i - 1], e[i])
    BY <1>3, <2>1, <2>2, <2>3, Zenon DEF IsFold
  <2>5. g = [i \in 0..n |-> g[i]]
    BY <1>3
  <2> QED BY <2>4, <2>5
<1>5. Rec(f)
  BY <1>4
<1>6. Parsed(e) = f[n]
  BY DEF Parsed, Unread
<1> HIDE DEF f
<1>7. f \in [0..n -> Readings] /\ IsFold(f, Reading, Unread, e, n)
  <2> DEFINE T == {i \in 0..n : f[i] = g[i]}
  <2>0. \A i \in 0..n : f[i] = IF i = 0 THEN Unread ELSE ReadOn(f[i - 1], e[i])
    BY <1>5, Zenon
  <2>1. \A i \in 1..n : i # 0 /\ i \in 0..n /\ i - 1 \in 0..n
    BY <1>0
  <2>2. 0 \in T
    BY <1>0, <1>4, <2>0
  <2>3. ASSUME NEW i \in 1..n, i - 1 \in T PROVE i \in T
    BY <1>4, <2>0, <2>1, <2>3
  <2> HIDE DEF T
  <2>4. \A i \in 0..n : i \in T
    BY <1>0, <2>2, <2>3, Upward
  <2>5. f = g
    <3>1. \A i \in 0..n : f[i] = g[i]
      BY <2>4 DEF T
    <3>2. f = [i \in 0..n |-> f[i]]
      BY <1>5
    <3>3. g = [i \in 0..n |-> g[i]]
      BY <1>3
    <3> HIDE DEF Rec
    <3> QED BY <3>1, <3>2, <3>3
  <2> QED BY <1>3, <2>5
<1> HIDE DEF n, Rec
<1> QED BY <1>6, <1>7 DEF n

LEMMA ParsedEmpty == Parsed(<<>>) = Unread
<1>1. <<>> \in Seq(Characters) /\ Len(<<>>) = 0
  OBVIOUS
<1> QED BY <1>1, ParsedFold DEF IsFold

\* One character further.
LEMMA ParsedAppend ==
  ASSUME NEW e \in Seq(Characters), NEW c \in Characters
  PROVE  Parsed(e) \in Readings /\ Parsed(Append(e, c)) = ReadOn(Parsed(e), c)
<1> DEFINE d == Append(e, c)
           n == Len(e)
<1>0. d \in Seq(Characters) /\ Len(d) = n + 1 /\ n \in Nat /\ d[n + 1] = c
      /\ \A i \in 1..n : e[i] = d[i]
  OBVIOUS
<1>1. PICK g \in [0..n -> Readings] : IsFold(g, Reading, Unread, e, n) /\ Parsed(e) = g[n]
  BY ParsedFold
<1> HIDE DEF d
<1>2. PICK h \in [0..(n + 1) -> Readings] :
        IsFold(h, Reading, Unread, d, n + 1) /\ Parsed(d) = h[n + 1]
  BY <1>0, ParsedFold
<1>3. IsFold(h, Reading, Unread, d, n)
  BY <1>0, <1>2 DEF IsFold
<1> HIDE DEF n
<1>4. g[n] = h[n]
  <2>1. \A i \in 0..n : g[i] = h[i]
    BY <1>0, <1>1, <1>3, FoldsAgree
  <2> QED BY <1>0, <2>1
<1>5. h[n + 1] = ReadOn(h[n], c)
  <2>1. n + 1 \in 1..(n + 1) /\ n \in 0..n /\ (n + 1) - 1 = n
    BY <1>0
  <2>2. h[n] \in Readings
    BY <1>1, <1>4, <2>1
  <2>3. h[n + 1] = Reading[<<h[n], c>>]
    BY <1>0, <1>2, <2>1 DEF IsFold
  <2> QED BY <2>2, <2>3 DEF Reading
<1>6. g[n] \in Readings
  BY <1>0, <1>1
<1> QED BY <1>1, <1>2, <1>4, <1>5, <1>6 DEF d
-----------------------------------------------------------------------------
(* Matching a string                                                       *)

Beyonds(str) ==
  [x \in (SUBSET (0..Len(str))) \X Elements |-> Beyond(x[2], str, x[1])]

LEMMA BeyondsType ==
  ASSUME NEW str
  PROVE  Beyonds(str) \in [(SUBSET (0..Len(str))) \X Elements -> SUBSET (0..Len(str))]
<1>1. ASSUME NEW from \in SUBSET (0..Len(str)), NEW el \in Elements
      PROVE  Beyond(el, str, from) \subseteq 0..Len(str)
  BY Zenon DEF Beyond
<1> QED BY <1>1 DEF Beyonds

\* Standing is the fold of the elements with Beyond.
LEMMA StandingFold ==
  ASSUME NEW els \in Seq(Elements), NEW str
  PROVE  \E g \in [0..Len(els) -> SUBSET (0..Len(str))] :
           IsFold(g, Beyonds(str), 0..Len(str), els, Len(els)) /\ Standing(els, str) = g[Len(els)]
<1> DEFINE n == Len(els)
           P == SUBSET (0..Len(str))
           all == 0..Len(str)
           Rec(g) == g = [i \in 0..n |-> IF i = 0 THEN all ELSE Beyond(els[i], str, g[i - 1])]
           f == CHOOSE f : Rec(f)
<1>0. n \in Nat /\ \A i \in 1..n : els[i] \in Elements
  OBVIOUS
<1>1. all \in P
  OBVIOUS
<1>2. Beyonds(str) \in [P \X Elements -> P]
  BY BeyondsType
<1>6. Standing(els, str) = f[n]
  BY DEF Standing
<1> HIDE DEF all, P
<1>3. PICK g \in [0..n -> P] : IsFold(g, Beyonds(str), all, els, n)
  <2> HIDE DEF Rec
  <2> QED BY <1>1, <1>2, FoldExists, Zenon
<1>4. Rec(g)
  <2>1. \A i \in 1..n : i # 0 /\ i - 1 \in 0..n
    BY <1>0
  <2>2. ASSUME NEW i \in 1..n PROVE g[i] = Beyond(els[i], str, g[i - 1])
    <3>1. g[i - 1] \in P /\ els[i] \in Elements
      BY <1>0, <1>3, <2>1
    <3>2. g[i] = Beyonds(str)[<<g[i - 1], els[i]>>]
      BY <1>3 DEF IsFold
    <3>3. \A x \in P, el \in Elements : Beyonds(str)[<<x, el>>] = Beyond(el, str, x)
      BY DEF Beyonds, P
    <3> QED BY <3>1, <3>2, <3>3, Zenon
  <2>3. \A i \in 0..n : i = 0 \/ i \in 1..n
    BY <1>0
  <2>4. \A i \in 0..n : g[i] = IF i = 0 THEN all ELSE Beyond(els[i], str, g[i - 1])
    BY <1>3, <2>1, <2>2, <2>3, Zenon DEF IsFold
  <2>5. g = [i \in 0..n |-> g[i]]
    BY <1>3
  <2> QED BY <2>4, <2>5, Zenon
<1>5. Rec(f)
  BY <1>4, Zenon
<1> HIDE DEF f
<1>7. f = g
  <2> DEFINE T == {i \in 0..n : f[i] = g[i]}
  <2>0. /\ \A i \in 0..n : f[i] = IF i = 0 THEN all ELSE Beyond(els[i], str, f[i - 1])
        /\ \A i \in 0..n : g[i] = IF i = 0 THEN all ELSE Beyond(els[i], str, g[i - 1])
    <3>1. \A h : Rec(h) =>
            \A i \in 0..n : h[i] = IF i = 0 THEN all ELSE Beyond(els[i], str, h[i - 1])
      BY Zenon
    <3> HIDE DEF Rec
    <3> QED BY <1>4, <1>5, <3>1, Zenon
  <2>1. \A i \in 1..n : i # 0 /\ i \in 0..n /\ i - 1 \in 0..n
    BY <1>0
  <2>2. 0 \in T
    <3>1. 0 \in 0..n
      BY <1>0
    <3> QED BY <2>0, <3>1, Zenon
  <2>3. ASSUME NEW i \in 1..n, i - 1 \in T PROVE i \in T
    BY <2>0, <2>1, <2>3, Zenon
  <2> HIDE DEF T
  <2>4. \A i \in 0..n : i \in T
    BY <1>0, <2>2, <2>3, Upward
  <2>5. \A i \in 0..n : f[i] = g[i]
    BY <2>4 DEF T
  <2>6. f = [i \in 0..n |-> f[i]] /\ g = [i \in 0..n |-> g[i]]
    <3>1. \A h : Rec(h) => h = [i \in 0..n |-> h[i]]
      OBVIOUS
    <3> HIDE DEF Rec
    <3> QED BY <1>4, <1>5, <3>1, Zenon
  <2> HIDE DEF Rec
  <2> QED BY <2>5, <2>6
<1> HIDE DEF n, Rec
<1> QED BY <1>3, <1>6, <1>7 DEF n, all, P

LEMMA StandingEmpty ==
  ASSUME NEW str
  PROVE  Standing(<<>>, str) = 0..Len(str)
<1>1. <<>> \in Seq(Elements) /\ Len(<<>>) = 0
  OBVIOUS
<1>2. PICK g \in [0..0 -> SUBSET (0..Len(str))] :
        IsFold(g, Beyonds(str), 0..Len(str), <<>>, 0) /\ Standing(<<>>, str) = g[0]
  <2> HIDE DEF Elements
  <2> QED BY <1>1, StandingFold
<1> QED BY <1>2 DEF IsFold

\* One element further.
LEMMA StandingAppend ==
  ASSUME NEW els \in Seq(Elements), NEW el \in Elements, NEW str
  PROVE  Standing(Append(els, el), str) = Beyond(el, str, Standing(els, str))
<1> DEFINE d == Append(els, el)
           n == Len(els)
           all == 0..Len(str)
           step == Beyonds(str)
<1>0. d \in Seq(Elements) /\ Len(d) = n + 1 /\ n \in Nat /\ d[n + 1] = el
      /\ \A i \in 1..n : els[i] = d[i]
  OBVIOUS
<1> HIDE DEF all
<1>1. PICK g \in [0..n -> SUBSET all] :
        IsFold(g, step, all, els, n) /\ Standing(els, str) = g[n]
  BY StandingFold DEF all
<1> HIDE DEF d
<1>2. PICK h \in [0..(n + 1) -> SUBSET all] :
        IsFold(h, step, all, d, n + 1) /\ Standing(d, str) = h[n + 1]
  BY <1>0, StandingFold DEF all
<1>3. IsFold(h, step, all, d, n)
  BY <1>0, <1>2 DEF IsFold
<1> HIDE DEF n, step
<1>4. g[n] = h[n]
  <2>1. \A i \in 0..n : g[i] = h[i]
    <3>1. /\ n \in Nat /\ \A i \in 1..n : els[i] = d[i]
          /\ IsFold(g, step, all, els, n) /\ IsFold(h, step, all, d, n)
      BY <1>0, <1>1, <1>3
    <3> QED BY <3>1, FoldsAgree
  <2> QED BY <1>0, <2>1
<1>5. h[n + 1] = Beyond(el, str, h[n])
  <2>1. n + 1 \in 1..(n + 1) /\ n \in 0..n /\ (n + 1) - 1 = n
    BY <1>0
  <2>2. h[n] \in SUBSET all
    BY <1>1, <1>4, <2>1
  <2>3. h[n + 1] = Beyonds(str)[<<h[n], el>>]
    BY <1>0, <1>2, <2>1 DEF IsFold, step
  <2>4. \A x \in SUBSET all : Beyonds(str)[<<x, el>>] = Beyond(el, str, x)
    BY DEF Beyonds, all
  <2> QED BY <2>2, <2>3, <2>4
<1> QED BY <1>1, <1>2, <1>4, <1>5 DEF d

-----------------------------------------------------------------------------
(* Writing an expression                                                   *)

\* FlattenSeq, one sequence further.
LEMMA FlattenLemma ==
  ASSUME NEW S, NEW n \in Nat, NEW s \in [1..n -> Seq(S)]
  PROVE  \E g \in [0..n -> Seq(S)] :
           /\ g[0] = <<>> /\ \A i \in 1..n : g[i] = g[i - 1] \o s[i]
           /\ FlattenSeq(s) = g[n]
<1> DEFINE Joining == [x \in Seq(S) \X Seq(S) |-> x[1] \o x[2]]
           Rec(f) == f = [i \in 1..n |-> IF i = 1 THEN s[i] ELSE f[i - 1] \o s[i]]
           f == CHOOSE f : Rec(f)
<1>0. s \in Seq(Seq(S)) /\ Len(s) = n
  OBVIOUS
<1>1. PICK g \in [0..n -> Seq(S)] : IsFold(g, Joining, <<>>, s, n)
  <2>1. Joining \in [Seq(S) \X Seq(S) -> Seq(S)] /\ <<>> \in Seq(S)
    OBVIOUS
  <2> HIDE DEF Joining, Rec
  <2> QED BY <1>0, <2>1, FoldExists
<1>2. g[0] = <<>> /\ \A i \in 1..n : g[i] = g[i - 1] \o s[i]
  <2>1. ASSUME NEW i \in 1..n PROVE g[i] = g[i - 1] \o s[i]
    <3>1. g[i - 1] \in Seq(S) /\ s[i] \in Seq(S)
      OBVIOUS
    <3>2. g[i] = Joining[<<g[i - 1], s[i]>>]
      BY <1>1 DEF IsFold
    <3> QED BY <3>1, <3>2
  <2> QED BY <1>1, <2>1 DEF IsFold
<1>3. CASE n = 0
  <2>1. FlattenSeq(s) = s /\ s = <<>>
    BY <1>0, <1>3 DEF FlattenSeq
  <2> QED BY <1>2, <1>3, <2>1
<1>5. ASSUME 1 \in 1..n PROVE g[1] = s[1]
  <2>1. g[1] = g[1 - 1] \o s[1]
    BY <1>2, <1>5, Zenon
  <2>2. 1 - 1 = 0 /\ g[0] = <<>>
    BY <1>2
  <2>3. s[1] \in Seq(S)
    BY <1>5
  <2>4. \A x \in Seq(S) : <<>> \o x = x
    OBVIOUS
  <2>5. g[1] = <<>> \o s[1]
    BY <2>1, <2>2, Zenon
  <2> QED BY <2>3, <2>4, <2>5, Zenon
<1>4. CASE n # 0
  <2> DEFINE h == [i \in 1..n |-> g[i]]
  <2>1. Rec(h)
    <3>1. ASSUME NEW i \in 1..n PROVE g[i] = IF i = 1 THEN s[i] ELSE h[i - 1] \o s[i]
      <4>1. CASE i = 1
        BY <1>5, <4>1
      <4>2. CASE i # 1
        <5>1. i - 1 \in 1..n /\ h[i - 1] = g[i - 1]
          BY <4>2
        <5> QED BY <1>2, <4>2, <5>1
      <4> QED BY <4>1, <4>2
    <3> QED BY <3>1
  <2> HIDE DEF h
  <2>2. Rec(f)
    BY <2>1
  <2>3. FlattenSeq(s) = f[n]
    BY <1>0, <1>4 DEF FlattenSeq
  <2> HIDE DEF f
  <2> DEFINE T == {i \in 0..n : i # 0 => f[i] = g[i]}
  <2>4. 0 \in T
    OBVIOUS
  <2>5. ASSUME NEW i \in 1..n, i - 1 \in T PROVE i \in T
    <3>1. f[i] = IF i = 1 THEN s[i] ELSE f[i - 1] \o s[i]
      BY <2>2, Zenon
    <3>2. CASE i = 1
      <4>1. f[i] = g[i]
        BY <1>5, <3>1, <3>2, Zenon
      <4> QED BY <4>1 DEF T
    <3>3. CASE i # 1
      <4>1. f[i - 1] = g[i - 1]
        BY <2>5, <3>3 DEF T
      <4>2. g[i] = g[i - 1] \o s[i]
        BY <1>2, Zenon
      <4>3. f[i] = g[i]
        BY <3>1, <3>3, <4>1, <4>2, Zenon
      <4> QED BY <4>3 DEF T
    <3> QED BY <3>2, <3>3
  <2> HIDE DEF T
  <2>6. \A i \in 0..n : i \in T
    BY <2>4, <2>5, Upward
  <2>7. f[n] = g[n]
    BY <1>4, <2>6 DEF T
  <2> QED BY <1>2, <2>3, <2>7
<1> QED BY <1>3, <1>4
-----------------------------------------------------------------------------
(* Globs                                                                   *)

\* The characters that are not special in globs, or only there.
Plain == Characters \ {"^", "$", "\\", "{", "}", "|"}

\* What the expansion of a character is read as.
ElementOf(c) ==
  [what |-> IF c \in {"*", "+", "?"} THEN "anything" ELSE c,
   times |-> CASE c = "*" -> "any" [] c = "+" -> "some" [] OTHER -> "once"]

ReadAs(els) == [elements |-> els, escaped |-> FALSE, valid |-> TRUE]

LEMMA ElementOfType ==
  ASSUME NEW c \in Characters
  PROVE  ElementOf(c) \in Elements
BY DEF ElementOf, Elements, Whats

LEMMA ExpansionType ==
  ASSUME NEW c \in Characters
  PROVE  Expansion(c) \in Seq(Characters) /\ Len(Expansion(c)) \in {1, 2}
<1>1. {".", "\\", c} \subseteq Characters
  BY CharactersAssumption
<1>2. \/ Expansion(c) = <<".", c>> \/ Expansion(c) = <<"\\", c>>
      \/ Expansion(c) = <<".">> \/ Expansion(c) = <<c>>
  BY DEF Expansion
<1>3. \A x, y \in Characters :
        /\ <<x, y>> \in Seq(Characters) /\ Len(<<x, y>>) = 2
        /\ <<x>> \in Seq(Characters) /\ Len(<<x>>) = 1
  OBVIOUS
<1> QED BY <1>1, <1>2, <1>3

\* A character that is no operator is read as an element.
LEMMA ReadCharacter ==
  ASSUME NEW els \in Seq(Elements), NEW c \in Plain \ {".", "*", "+", "("}
  PROVE  ReadOn(ReadAs(els), c) = ReadAs(Append(els, [what |-> c, times |-> "once"]))
BY DEF ReadOn, ReadAs, Append1, Plain

LEMMA ReadDot ==
  ASSUME NEW els \in Seq(Elements)
  PROVE  ReadOn(ReadAs(els), ".") = ReadAs(Append(els, [what |-> "anything", times |-> "once"]))
BY DEF ReadOn, ReadAs, Append1

LEMMA ReadEnds ==
  ASSUME NEW els \in Seq(Elements)
  PROVE  /\ ReadOn(ReadAs(els), "^") = ReadAs(Append(els, [what |-> "start", times |-> "once"]))
         /\ ReadOn(ReadAs(els), "$") = ReadAs(Append(els, [what |-> "end", times |-> "once"]))
BY DEF ReadOn, ReadAs, Append1

LEMMA ReadEscaped ==
  ASSUME NEW els \in Seq(Elements), NEW c \in Characters
  PROVE  ReadOn(ReadOn(ReadAs(els), "\\"), c)
           = ReadAs(Append(els, [what |-> c, times |-> "once"]))
<1>1. ReadOn(ReadAs(els), "\\") = [ReadAs(els) EXCEPT !.escaped = TRUE]
  BY DEF ReadOn, ReadAs
<1>2. ReadOn([ReadAs(els) EXCEPT !.escaped = TRUE], c)
        = Append1([ReadAs(els) EXCEPT !.escaped = TRUE], c)
  BY DEF ReadOn, ReadAs
<1> QED BY <1>1, <1>2 DEF Append1, ReadAs

LEMMA ReadRepeat ==
  ASSUME NEW els \in Seq(Elements), NEW el \in Elements, NEW times \in {"any", "some"}
  PROVE  Repeat(ReadAs(Append(els, el)), times)
           = ReadAs(Append(els, [what |-> el.what, times |-> times]))
<1> DEFINE s == Append(els, el)
           n == Len(els)
           new == [what |-> el.what, times |-> times]
<1>1. s \in Seq(Elements) /\ Len(s) = n + 1 /\ s # <<>> /\ s[n + 1] = el /\ n \in Nat
      /\ n + 1 \in DOMAIN s
  OBVIOUS
<1>2. [el EXCEPT !.times = times] = new
  BY DEF Elements
<1>3. [s EXCEPT ![n + 1] = new] = Append(els, new)
  <2> DEFINE a == [s EXCEPT ![n + 1] = new]
             b == Append(els, new)
  <2>1. a = [i \in 1..(n + 1) |-> a[i]]
    BY <1>1
  <2>2. b = [i \in 1..(n + 1) |-> b[i]]
    OBVIOUS
  <2>3. ASSUME NEW i \in 1..(n + 1) PROVE a[i] = b[i]
    <3>1. b[i] = IF i = n + 1 THEN new ELSE els[i]
      OBVIOUS
    <3>2. s[i] = IF i = n + 1 THEN el ELSE els[i]
      OBVIOUS
    <3>3. a[i] = IF i = n + 1 THEN new ELSE s[i]
      <4>1. DOMAIN s = 1..(n + 1)
        BY <1>1
      <4> HIDE DEF s, n, new
      <4> QED BY <4>1
    <3> QED BY <3>1, <3>2, <3>3
  <2> HIDE DEF a, b
  <2>4. a = b
    BY <2>1, <2>2, <2>3
  <2> QED BY <2>4 DEF a, b
<1>4. [s EXCEPT ![n + 1].times = times] = [s EXCEPT ![n + 1] = new]
  BY <1>1, <1>2
<1> HIDE DEF s, new
<1>5. ReadAs(s) \in Readings /\ ReadAs(s).elements = s
  BY <1>1 DEF ReadAs, Readings
<1>6. Repeat(ReadAs(s), times) = [ReadAs(s) EXCEPT !.elements = [s EXCEPT ![n + 1].times = times]]
  BY <1>1, <1>5, RepeatLemma
<1>7. \A x : [ReadAs(s) EXCEPT !.elements = x] = ReadAs(x)
  <2> TAKE x
  <2> DEFINE Only == [elements : {x}, escaped : {FALSE}, valid : {TRUE}]
  <2>1. [ReadAs(s) EXCEPT !.elements = x] \in Only
    BY DEF ReadAs
  <2>2. ASSUME NEW y \in Only PROVE y = ReadAs(x)
    <3>1. y = [elements |-> y.elements, escaped |-> y.escaped, valid |-> y.valid]
      OBVIOUS
    <3>2. y.elements = x /\ y.escaped = FALSE /\ y.valid = TRUE
      OBVIOUS
    <3> QED BY <3>1, <3>2, Zenon DEF ReadAs
  <2> QED BY <2>1, <2>2, Zenon
<1> QED BY <1>3, <1>4, <1>6, <1>7 DEF s, new

\* The expansion of a character is read as its element.
LEMMA ReadExpansion ==
  ASSUME NEW e \in Seq(Characters), NEW c \in Plain, NEW els \in Seq(Elements),
         Parsed(e) = ReadAs(els)
  PROVE  Parsed(e \o Expansion(c)) = ReadAs(Append(els, ElementOf(c)))
<1>0. c \in Characters /\ "." \in Characters /\ "\\" \in Characters
  BY CharactersAssumption DEF Plain
<1>1. \A x \in Characters :
        /\ e \o <<x>> = Append(e, x)
        /\ Append(e, x) \in Seq(Characters)
        /\ Parsed(Append(e, x)) = ReadOn(ReadAs(els), x)
  BY ParsedAppend
<1>2. \A x, y \in Characters :
        /\ e \o <<x, y>> = Append(Append(e, x), y)
        /\ Parsed(Append(Append(e, x), y)) = ReadOn(ReadOn(ReadAs(els), x), y)
  <2> TAKE x, y \in Characters
  <2>1. e \o <<x, y>> = Append(Append(e, x), y)
    OBVIOUS
  <2>2. Parsed(Append(Append(e, x), y)) = ReadOn(Parsed(Append(e, x)), y)
    BY <1>1, ParsedAppend
  <2> QED BY <1>1, <2>1, <2>2
<1> DEFINE anything == [what |-> "anything", times |-> "once"]
<1>3. anything \in Elements
  BY DEF Elements, Whats
<1>4. CASE c \in {"*", "+"}
  <2> DEFINE times == IF c = "*" THEN "any" ELSE "some"
  <2>1. Expansion(c) = <<".", c>>
    BY <1>4 DEF Expansion
  <2>2. ReadOn(ReadAs(els), ".") = ReadAs(Append(els, anything))
    BY ReadDot
  <2>3. ReadOn(ReadAs(Append(els, anything)), c) = Repeat(ReadAs(Append(els, anything)), times)
    BY <1>4 DEF ReadOn, ReadAs
  <2>4. Repeat(ReadAs(Append(els, anything)), times)
          = ReadAs(Append(els, [what |-> anything.what, times |-> times]))
    BY <1>3, ReadRepeat
  <2>5. [what |-> anything.what, times |-> times] = ElementOf(c)
    BY <1>4 DEF ElementOf
  <2> HIDE DEF anything, times
  <2>6. Parsed(e \o <<".", c>>) = ReadOn(ReadOn(ReadAs(els), "."), c)
    BY <1>0, <1>2
  <2> QED BY <2>1, <2>2, <2>3, <2>4, <2>5, <2>6
<1>5. CASE c \in {".", "[", "]", "(", ")"}
  <2>1. Expansion(c) = <<"\\", c>>
    BY <1>5 DEF Expansion
  <2>2. [what |-> c, times |-> "once"] = ElementOf(c)
    BY <1>5 DEF ElementOf
  <2>3. Parsed(e \o <<"\\", c>>) = ReadOn(ReadOn(ReadAs(els), "\\"), c)
    BY <1>0, <1>2
  <2> QED BY <1>0, <2>1, <2>2, <2>3, ReadEscaped
<1>6. CASE c = "?"
  <2>1. Expansion(c) = <<".">>
    BY <1>6 DEF Expansion
  <2>2. anything = ElementOf(c)
    BY <1>6 DEF ElementOf
  <2>3. Parsed(e \o <<".">>) = ReadOn(ReadAs(els), ".")
    BY <1>0, <1>1
  <2> QED BY <2>1, <2>2, <2>3, ReadDot
<1>7. CASE c \notin {"*", "+", ".", "[", "]", "(", ")", "?"}
  <2>1. Expansion(c) = <<c>>
    BY <1>7 DEF Expansion
  <2>2. [what |-> c, times |-> "once"] = ElementOf(c)
    BY <1>7 DEF ElementOf
  <2>3. Parsed(e \o <<c>>) = ReadOn(ReadAs(els), c)
    BY <1>0, <1>1
  <2>4. c \in Plain \ {".", "*", "+", "("}
    BY <1>7
  <2> QED BY <2>1, <2>2, <2>3, <2>4, ReadCharacter
<1> QED BY <1>4, <1>5, <1>6, <1>7
\* An element stands for what its character fits.
LEMMA BeyondFits ==
  ASSUME NEW c \in Plain, NEW str \in Seq(Characters), NEW from \in SUBSET (0..Len(str))
  PROVE  Beyond(ElementOf(c), str, from)
           = {q \in 0..Len(str) : \E p \in from : Fits(c, str, p, q)}
<1> DEFINE el == ElementOf(c)
<1>0. el.what \notin {"start", "end"}
  BY CharactersAssumption DEF ElementOf, Plain
<1>1. Beyond(el, str, from)
        = {q \in 0..Len(str) : \E p \in from :
            /\ p <= q
            /\ \A i \in (p + 1)..q : el.what \in {"anything", str[i]}
            /\ el.times = "once" => q = p + 1
            /\ el.times = "some" => q > p}
  BY <1>0 DEF Beyond
<1>2. ASSUME NEW p \in 0..Len(str), NEW q \in 0..Len(str)
      PROVE  Fits(c, str, p, q) <=>
               /\ p <= q
               /\ \A i \in (p + 1)..q : el.what \in {"anything", str[i]}
               /\ el.times = "once" => q = p + 1
               /\ el.times = "some" => q > p
  <2>1. CASE c = "*"
    BY <2>1 DEF Fits, ElementOf
  <2>2. CASE c = "+"
    BY <2>2 DEF Fits, ElementOf
  <2>3. CASE c = "?"
    BY <2>3 DEF Fits, ElementOf
  <2>4. CASE c \notin {"*", "+", "?"}
    <3>1. el.what = c /\ el.times = "once" /\ c # "anything"
      BY <2>4, CharactersAssumption DEF ElementOf, Plain
    <3>2. Fits(c, str, p, q) <=> p + 1 = q /\ c = str[q]
      BY <2>4 DEF Fits
    <3> HIDE DEF el
    <3>3. (p + 1 = q) => ((\A i \in (p + 1)..q : c \in {"anything", str[i]}) <=> c = str[q])
      BY <3>1
    <3> QED BY <3>1, <3>2, <3>3
  <2> QED BY <2>1, <2>2, <2>3, <2>4
<1> HIDE DEF el
<1> QED BY <1>1, <1>2 DEF el

\* Where in str the first k characters of glob may end.
IsCut(cut, glob, str, k) ==
  /\ cut[0] = 0
  /\ \A i \in 1..k : Fits(glob[i], str, cut[i - 1], cut[i])
Ends(glob, str, k) ==
  {q \in 0..Len(str) : \E cut \in [0..k -> 0..Len(str)] : IsCut(cut, glob, str, k) /\ cut[k] = q}

LEMMA EndsFirst ==
  ASSUME NEW glob, NEW str \in Seq(Characters)
  PROVE  Ends(glob, str, 0) = {0}
<1>1. Ends(glob, str, 0) \subseteq {0}
  BY DEF Ends, IsCut
<1>2. 0 \in Ends(glob, str, 0)
  <2>1. [i \in 0..0 |-> 0] \in [0..0 -> 0..Len(str)] /\ 0 \in 0..Len(str)
    OBVIOUS
  <2>2. IsCut([i \in 0..0 |-> 0], glob, str, 0)
    BY DEF IsCut
  <2> QED BY <2>1, <2>2 DEF Ends
<1> QED BY <1>1, <1>2

EndsFollow(glob, str, k) ==
  Ends(glob, str, k)
    = {q \in 0..Len(str) : \E p \in Ends(glob, str, k - 1) : Fits(glob[k], str, p, q)}

LEMMA EndsStep ==
  ASSUME NEW n \in Nat, NEW glob, NEW str \in Seq(Characters), NEW k \in 1..n
  PROVE  EndsFollow(glob, str, k)
<1> DEFINE all == 0..Len(str)
<1>1. ASSUME NEW q \in all, NEW cut \in [0..k -> all], IsCut(cut, glob, str, k), cut[k] = q
      PROVE  \E p \in Ends(glob, str, k - 1) : Fits(glob[k], str, p, q)
  <2> DEFINE c == [i \in 0..(k - 1) |-> cut[i]]
  <2>1. c \in [0..(k - 1) -> all] /\ c[k - 1] = cut[k - 1] /\ c[k - 1] \in all
    OBVIOUS
  <2>2. IsCut(c, glob, str, k - 1)
    <3>1. c[0] = 0
      BY <1>1 DEF IsCut
    <3>2. ASSUME NEW i \in 1..(k - 1) PROVE Fits(glob[i], str, c[i - 1], c[i])
      <4>1. i \in 1..k /\ c[i] = cut[i] /\ c[i - 1] = cut[i - 1]
        OBVIOUS
      <4> QED BY <1>1, <4>1 DEF IsCut
    <3> HIDE DEF c
    <3> QED BY <3>1, <3>2 DEF IsCut
  <2>3. cut[k - 1] \in Ends(glob, str, k - 1)
    <3> HIDE DEF c
    <3> QED BY <2>1, <2>2 DEF Ends
  <2>4. Fits(glob[k], str, cut[k - 1], q)
    BY <1>1 DEF IsCut
  <2> QED BY <2>3, <2>4
<1>2. ASSUME NEW q \in all, NEW p \in Ends(glob, str, k - 1), Fits(glob[k], str, p, q)
      PROVE  q \in Ends(glob, str, k)
  <2>1. PICK cut \in [0..(k - 1) -> all] : IsCut(cut, glob, str, k - 1) /\ cut[k - 1] = p
    BY DEF Ends
  <2> DEFINE c == [i \in 0..k |-> IF i = k THEN q ELSE cut[i]]
  <2>2. c \in [0..k -> all] /\ c[k] = q
    OBVIOUS
  <2>3. IsCut(c, glob, str, k)
    <3>1. c[0] = 0
      BY <2>1 DEF IsCut
    <3>2. ASSUME NEW i \in 1..k PROVE Fits(glob[i], str, c[i - 1], c[i])
      <4>1. c[i - 1] = cut[i - 1]
        OBVIOUS
      <4>2. CASE i = k
        BY <1>2, <2>1, <2>2, <4>1, <4>2
      <4>3. CASE i # k
        <5>1. i \in 1..(k - 1) /\ c[i] = cut[i]
          BY <4>3
        <5> QED BY <2>1, <4>1, <5>1 DEF IsCut
      <4> QED BY <4>2, <4>3
    <3> HIDE DEF c
    <3> QED BY <3>1, <3>2 DEF IsCut
  <2> HIDE DEF c
  <2> QED BY <2>2, <2>3 DEF Ends
<1>3. \A q \in all : q \in Ends(glob, str, k) <=>
        \E p \in Ends(glob, str, k - 1) : Fits(glob[k], str, p, q)
  <2> TAKE q \in all
  <2>1. ASSUME q \in Ends(glob, str, k)
        PROVE  \E p \in Ends(glob, str, k - 1) : Fits(glob[k], str, p, q)
    <3>1. PICK cut \in [0..k -> all] : IsCut(cut, glob, str, k) /\ cut[k] = q
      BY <2>1 DEF Ends
    <3> QED BY <1>1, <3>1
  <2> QED BY <1>2, <2>1
<1>4. Ends(glob, str, k) \subseteq all
  BY DEF Ends
<1> HIDE DEF all
<1>5. Ends(glob, str, k)
        = {q \in all : \E p \in Ends(glob, str, k - 1) : Fits(glob[k], str, p, q)}
  BY <1>3, <1>4
<1> QED BY <1>5 DEF all, EndsFollow
Expansions(glob) == [i \in DOMAIN glob |-> Expansion(glob[i])]
Body(glob) == FlattenSeq(Expansions(glob))

\* b is what is written for the first k characters of glob.
Writes(b, glob, k) ==
  /\ Len(b) <= 2 * k
  /\ k # 0 => Len(b) # 0 /\ b[Len(b)] # "$"
  /\ \E els \in Seq(Elements) :
       /\ Parsed(<<"^">> \o b) = ReadAs(els)
       /\ \A str \in Seq(Characters) : Standing(els, str) = Ends(glob, str, k)

LEMMA WritesNothing ==
  ASSUME NEW glob
  PROVE  Writes(<<>>, glob, 0)
<1> DEFINE start == [what |-> "start", times |-> "once"]
<1>1. start \in Elements /\ "^" \in Characters /\ <<>> \in Seq(Characters) /\ <<>> \in Seq(Elements)
  BY CharactersAssumption DEF Elements, Whats
<1>2. <<"^">> \o <<>> = Append(<<>>, "^")
  OBVIOUS
<1>3. Parsed(Append(<<>>, "^")) = ReadOn(Parsed(<<>>), "^")
  BY <1>1, ParsedAppend
<1>4. Unread = ReadAs(<<>>)
  BY DEF Unread, ReadAs
<1>5. ReadOn(ReadAs(<<>>), "^") = ReadAs(Append(<<>>, start))
  BY <1>1, ReadEnds
<1>6. ASSUME NEW str \in Seq(Characters)
      PROVE  Standing(Append(<<>>, start), str) = Ends(glob, str, 0)
  <2>1. Standing(Append(<<>>, start), str) = Beyond(start, str, 0..Len(str))
    <3> HIDE DEF start
    <3> QED BY <1>1, StandingEmpty, StandingAppend
  <2>2. Beyond(start, str, 0..Len(str)) = (0..Len(str)) \cap {0}
    BY DEF Beyond
  <2>3. (0..Len(str)) \cap {0} = {0}
    OBVIOUS
  <2> QED BY <2>1, <2>2, <2>3, EndsFirst
<1>7. Append(<<>>, start) \in Seq(Elements)
  BY <1>1
<1>8. Len(<<>>) = 0
  OBVIOUS
<1> HIDE DEF start
<1>9. Parsed(<<"^">> \o <<>>) = ReadAs(Append(<<>>, start))
  BY <1>2, <1>3, <1>4, <1>5, ParsedEmpty
<1>10. \E els \in Seq(Elements) :
         /\ Parsed(<<"^">> \o <<>>) = ReadAs(els)
         /\ \A str \in Seq(Characters) : Standing(els, str) = Ends(glob, str, 0)
  BY <1>6, <1>7, <1>9
<1>11. Len(<<>>) <= 2 * 0
  BY <1>8
<1> QED BY <1>10, <1>11, Zenon DEF Writes

LEMMA WritesOn ==
  ASSUME NEW glob \in Seq(Plain), NEW k \in 1..Len(glob), NEW b \in Seq(Characters),
         Writes(b, glob, k - 1)
  PROVE  Writes(b \o Expansion(glob[k]), glob, k)
<1> DEFINE c == glob[k]
           x == Expansion(c)
           d == b \o x
<1>1. c \in Plain /\ c \in Characters /\ "^" \in Characters
  <2>1. c \in Plain
    OBVIOUS
  <2> HIDE DEF c
  <2> QED BY <2>1, CharactersAssumption DEF Plain
<1>2. x \in Seq(Characters) /\ Len(x) \in {1, 2}
  BY <1>1, ExpansionType
<1>3. x[Len(x)] # "$"
  <2>1. c # "$"
    BY <1>1 DEF Plain
  <2>2. x = <<".", c>> \/ x = <<"\\", c>> \/ x = <<".">> \/ x = <<c>>
    BY DEF Expansion
  <2>3. /\ <<".", c>>[Len(<<".", c>>)] = c /\ <<"\\", c>>[Len(<<"\\", c>>)] = c
        /\ <<".">>[Len(<<".">>)] = "." /\ <<c>>[Len(<<c>>)] = c
    OBVIOUS
  <2> HIDE DEF c, x
  <2>4. x[Len(x)] = c \/ x[Len(x)] = "."
    BY <2>2, <2>3, Zenon
  <2> QED BY <2>1, <2>4
<1> HIDE DEF c, x
<1>4. d \in Seq(Characters) /\ Len(d) = Len(b) + Len(x) /\ Len(d) # 0 /\ d[Len(d)] = x[Len(x)]
  <2>1. Len(b) \in Nat /\ d \in Seq(Characters) /\ Len(d) = Len(b) + Len(x)
    BY <1>2
  <2>2. \A i \in 1..(Len(b) + Len(x)) : d[i] = IF i <= Len(b) THEN b[i] ELSE x[i - Len(b)]
    BY <1>2
  <2>3. /\ Len(b) + Len(x) \in 1..(Len(b) + Len(x)) /\ ~(Len(b) + Len(x) <= Len(b))
        /\ (Len(b) + Len(x)) - Len(b) = Len(x) /\ Len(b) + Len(x) # 0
    <3>1. \A m \in Nat, l \in {1, 2} :
            m + l \in 1..(m + l) /\ ~(m + l <= m) /\ (m + l) - m = l /\ m + l # 0
      OBVIOUS
    <3> QED BY <1>2, <2>1, <3>1, Zenon
  <2> HIDE DEF d
  <2>4. d[Len(b) + Len(x)] = x[Len(x)]
    BY <2>2, <2>3, Zenon
  <2> QED BY <2>1, <2>3, <2>4
<1>5. Len(d) <= 2 * k
  BY <1>2, <1>4 DEF Writes
<1>6. PICK els \in Seq(Elements) :
        /\ Parsed(<<"^">> \o b) = ReadAs(els)
        /\ \A str \in Seq(Characters) : Standing(els, str) = Ends(glob, str, k - 1)
  BY DEF Writes
<1>7. <<"^">> \o d = (<<"^">> \o b) \o x /\ <<"^">> \o b \in Seq(Characters)
  BY <1>1, <1>2
<1>8. Parsed(<<"^">> \o d) = ReadAs(Append(els, ElementOf(c)))
  BY <1>1, <1>6, <1>7, ReadExpansion DEF x
<1>9. ElementOf(c) \in Elements
  BY <1>1, ElementOfType
<1>10. Append(els, ElementOf(c)) \in Seq(Elements)
  BY <1>9
<1>11. ASSUME NEW str \in Seq(Characters)
       PROVE  Standing(Append(els, ElementOf(c)), str) = Ends(glob, str, k)
  <2> DEFINE from == Ends(glob, str, k - 1)
  <2>1. Standing(Append(els, ElementOf(c)), str) = Beyond(ElementOf(c), str, from)
    BY <1>6, <1>9, StandingAppend
  <2>2. from \in SUBSET (0..Len(str))
    BY DEF Ends
  <2> HIDE DEF from
  <2>3. Beyond(ElementOf(c), str, from)
          = {q \in 0..Len(str) : \E p \in from : Fits(c, str, p, q)}
    BY <1>1, <2>2, BeyondFits
  <2>4. Len(glob) \in Nat
    OBVIOUS
  <2>5. EndsFollow(glob, str, k)
    BY <2>4, EndsStep
  <2> QED BY <2>1, <2>3, <2>5 DEF from, c, EndsFollow
<1> HIDE DEF d
<1>12. Writes(d, glob, k)
  BY <1>3, <1>4, <1>5, <1>8, <1>10, <1>11 DEF Writes
<1> QED BY <1>12 DEF d, x, c

LEMMA BodyLemma ==
  ASSUME NEW glob \in Seq(Plain)
  PROVE  Body(glob) \in Seq(Characters) /\ Writes(Body(glob), glob, Len(glob))
<1> DEFINE n == Len(glob)
           s == Expansions(glob)
<1>1. n \in Nat /\ \A i \in 1..n : glob[i] \in Plain /\ glob[i] \in Characters
  <2>1. n \in Nat /\ \A i \in 1..n : glob[i] \in Plain
    OBVIOUS
  <2> QED BY <2>1 DEF Plain
<1>2. s \in [1..n -> Seq(Characters)] /\ \A i \in 1..n : s[i] = Expansion(glob[i])
  BY <1>1, ExpansionType DEF Expansions
<1> HIDE DEF n, s
<1>3. PICK g \in [0..n -> Seq(Characters)] :
        /\ g[0] = <<>> /\ \A i \in 1..n : g[i] = g[i - 1] \o s[i]
        /\ FlattenSeq(s) = g[n]
  BY <1>1, <1>2, FlattenLemma
<1> DEFINE T == {i \in 0..n : Writes(g[i], glob, i)}
<1>4. 0 \in T
  BY <1>1, <1>3, WritesNothing
<1>5. ASSUME NEW i \in 1..n, i - 1 \in T PROVE i \in T
  <2>1. g[i - 1] \in Seq(Characters) /\ Writes(g[i - 1], glob, i - 1) /\ i \in 0..n
    BY <1>1, <1>5
  <2>2. g[i] = g[i - 1] \o Expansion(glob[i])
    BY <1>2, <1>3, Zenon
  <2>3. i \in 1..Len(glob)
    BY DEF n
  <2>4. Writes(g[i - 1] \o Expansion(glob[i]), glob, i)
    BY <2>1, <2>3, WritesOn
  <2> QED BY <2>1, <2>2, <2>4
<1> HIDE DEF T
<1>6. \A i \in 0..n : i \in T
  BY <1>1, <1>4, <1>5, Upward
<1>7. n \in 0..n
  BY <1>1
<1> QED BY <1>3, <1>6, <1>7 DEF T, Body, s, n
Written(glob) == (<<"^">> \o Body(glob)) \o <<"$">>

\* Says what e matches, and that it is one.
IsGlobExpression(e, glob) ==
  /\ e \in Seq(Characters)
  /\ Len(e) <= 2 * Len(glob) + 2
  /\ Parsed(e).valid
  /\ \A str \in Seq(Characters) : regexec(e, str) = 0 <=> GlobMatches(glob, str)

LEMMA WrittenLemma ==
  ASSUME NEW glob \in Seq(Plain)
  PROVE  IsGlobExpression(Written(glob), glob)
<1> DEFINE b == Body(glob)
           n == Len(glob)
           end == [what |-> "end", times |-> "once"]
           e == Written(glob)
<1>1. b \in Seq(Characters) /\ Writes(b, glob, n)
  BY BodyLemma
<1>2. "^" \in Characters /\ "$" \in Characters /\ end \in Elements /\ n \in Nat
  BY CharactersAssumption DEF Elements, Whats
<1>3. Len(b) <= 2 * n
  BY <1>1 DEF Writes
<1> HIDE DEF b, n, end
<1>4. PICK els \in Seq(Elements) :
        /\ Parsed(<<"^">> \o b) = ReadAs(els)
        /\ \A str \in Seq(Characters) : Standing(els, str) = Ends(glob, str, n)
  BY <1>1 DEF Writes
<1>5. <<"^">> \o b \in Seq(Characters) /\ Len(<<"^">> \o b) = Len(b) + 1 /\ Len(b) \in Nat
  BY <1>1, <1>2
<1>6. e = Append(<<"^">> \o b, "$")
  BY <1>5 DEF Written, b
<1>7. e \in Seq(Characters) /\ Len(e) = Len(b) + 2
  <2> DEFINE x == <<"^">> \o b
  <2>1. x \in Seq(Characters) /\ Len(x) = Len(b) + 1
    BY <1>5
  <2> HIDE DEF x
  <2>2. Append(x, "$") \in Seq(Characters) /\ Len(Append(x, "$")) = Len(b) + 2
    BY <1>2, <1>5, <2>1
  <2> QED BY <1>6, <2>2 DEF x
<1>8. Parsed(e) = ReadAs(Append(els, end))
  <2>1. Parsed(e) = ReadOn(ReadAs(els), "$")
    BY <1>2, <1>4, <1>5, <1>6, ParsedAppend
  <2> QED BY <2>1, ReadEnds DEF end
<1> HIDE DEF e
<1>9. Len(e) <= 2 * n + 2
  BY <1>2, <1>3, <1>5, <1>7
<1>10. Parsed(e).valid /\ Parsed(e).elements = Append(els, end)
  BY <1>8 DEF ReadAs
<1>11. ASSUME NEW str \in Seq(Characters)
       PROVE  regexec(e, str) = 0 <=> GlobMatches(glob, str)
  <2>1. Standing(Append(els, end), str) = Beyond(end, str, Ends(glob, str, n))
    BY <1>2, <1>4, StandingAppend
  <2>2. Beyond(end, str, Ends(glob, str, n)) = Ends(glob, str, n) \cap {Len(str)}
    BY DEF Beyond, end
  <2>3. regexec(e, str) = 0 <=> Len(str) \in Ends(glob, str, n)
    BY <1>10, <2>1, <2>2 DEF regexec, REG_NOMATCH
  <2>4. Len(str) \in Ends(glob, str, n)
          <=> \E cut \in [0..n -> 0..Len(str)] : IsCut(cut, glob, str, n) /\ cut[n] = Len(str)
    BY DEF Ends
  <2>5. DOMAIN glob = 1..n
    BY DEF n
  <2> QED BY <2>3, <2>4, <2>5 DEF GlobMatches, IsCut, n
<1> QED BY <1>7, <1>9, <1>10, <1>11 DEF IsGlobExpression, e, n

\* The count is at most what a glob of a third of the buffer may have.
LEMMA GlobLength ==
  ASSUME NEW S, NEW glob \in Seq(S), NEW brackets \in Seq({"/"}), Len(brackets) <= 1
  PROVE  /\ glob_len(glob, brackets, 2) \in Nat
         /\ glob_len(glob, brackets, 2) <= 3 * Len(glob) + 5
<1> DEFINE n == Len(glob)
           doubled == {i \in DOMAIN glob : Len(Expansion(glob[i])) = 2}
           k == Cardinality(doubled)
<1>1. n \in Nat /\ DOMAIN glob = 1..n
  OBVIOUS
<1>2. IsFiniteSet(1..n) /\ Cardinality(1..n) = n
  <2>1. 1 \in Int /\ n \in Int
    BY <1>1
  <2>2. IsFiniteSet(1..n) /\ Cardinality(1..n) = IF 1 > n THEN 0 ELSE n - 1 + 1
    BY <2>1, FS_Interval, Zenon
  <2> HIDE DEF n
  <2>3. (IF 1 > n THEN 0 ELSE n - 1 + 1) = n
    BY <1>1
  <2> QED BY <2>2, <2>3
<1>3. doubled \in SUBSET (1..n)
  BY <1>1
<1> HIDE DEF doubled
<1>4. k \in Nat /\ k <= n
  BY <1>2, <1>3, FS_Subset, FS_CardinalityType
<1>5. glob_len(glob, brackets, 2)
        = n + 2 * k + 2 * Len(brackets) + 2 + 1
  BY DEF glob_len, doubled
<1> DEFINE l == Len(brackets)
<1>6. l \in Nat /\ l <= 1
  OBVIOUS
<1>7. glob_len(glob, brackets, 2) = n + 2 * k + 2 * l + 2 + 1
  BY <1>5
<1> HIDE DEF k, n, l
<1>8. n + 2 * k + 2 * l + 2 + 1 \in Nat /\ n + 2 * k + 2 * l + 2 + 1 <= 3 * n + 5
  BY <1>1, <1>4, <1>6
<1> QED BY <1>7, <1>8 DEF n
\* What uvm_re_deglobbed writes for a glob.
IsWritten(glob, e) ==
  /\ uvm_re_deglobbed(glob, FALSE) = e
  /\ uvm_re_deglobbed(glob, TRUE) = (<<"/">> \o e) \o <<"/">>

LEMMA DeglobbedLemma ==
  ASSUME NEW glob \in Seq(Plain), 3 * Len(glob) + 5 <= MaxLength,
         glob \notin {<<>>, <<"/">>}, ~Bracketed(glob)
  PROVE  IsWritten(glob, Written(glob))
<1> DEFINE body == Body(glob)
           start == IF glob[1] = "^" THEN <<>> ELSE <<"^">>
           end == IF Last(body) = "$" THEN <<>> ELSE <<"$">>
<1>1. Len(glob) \in Nat /\ Len(glob) # 0 /\ glob[1] \in Plain
  OBVIOUS
<1>2. start = <<"^">>
  BY <1>1 DEF Plain
<1>3. body \in Seq(Characters) /\ Last(body) # "$"
  <2>1. body \in Seq(Characters) /\ Writes(body, glob, Len(glob))
    BY BodyLemma
  <2> HIDE DEF body
  <2> QED BY <1>1, <2>1 DEF Writes, Last
<1>4. end = <<"$">>
  BY <1>3
<1>5. body = FlattenSeq([i \in DOMAIN glob |-> Expansion(glob[i])])
  BY DEF Body, Expansions
<1> DEFINE Deglobbed(with_brackets) ==
             LET brackets == IF with_brackets THEN <<"/">> ELSE <<>> IN
             IF glob_len(glob, brackets, Len(start) + Len(end)) > MaxLength THEN Null
             ELSE brackets \o start \o body \o end \o brackets
<1>6. \A with_brackets \in BOOLEAN :
        uvm_re_deglobbed(glob, with_brackets) = Deglobbed(with_brackets)
  BY <1>5 DEF uvm_re_deglobbed
<1> HIDE DEF body, start, end
<1>7. Len(start) + Len(end) = 2
  BY <1>2, <1>4
<1>8. MaxLength \in Nat
  BY RegexAssumption
<1>9. ASSUME NEW brackets \in Seq({"/"}), Len(brackets) <= 1
      PROVE  ~(glob_len(glob, brackets, Len(start) + Len(end)) > MaxLength)
  BY <1>1, <1>7, <1>8, <1>9, GlobLength
<1>10. /\ ~(glob_len(glob, <<>>, Len(start) + Len(end)) > MaxLength)
      /\ ~(glob_len(glob, <<"/">>, Len(start) + Len(end)) > MaxLength)
  <2>1. <<>> \in Seq({"/"}) /\ Len(<<>>) <= 1 /\ <<"/">> \in Seq({"/"}) /\ Len(<<"/">>) <= 1
    OBVIOUS
  <2> QED BY <1>9, <2>1, Zenon
<1>11. Deglobbed(FALSE) = <<>> \o <<"^">> \o body \o <<"$">> \o <<>>
  BY <1>2, <1>4, <1>10, Zenon
<1>12. Deglobbed(TRUE) = <<"/">> \o <<"^">> \o body \o <<"$">> \o <<"/">>
  BY <1>2, <1>4, <1>10, Zenon
<1> HIDE DEF Deglobbed
<1>13. <<>> \o <<"^">> \o body \o <<"$">> \o <<>> = (<<"^">> \o body) \o <<"$">>
  BY <1>3
<1>14. <<"/">> \o <<"^">> \o body \o <<"$">> \o <<"/">>
         = (<<"/">> \o ((<<"^">> \o body) \o <<"$">>)) \o <<"/">>
  BY <1>3
<1> QED BY <1>6, <1>11, <1>12, <1>13, <1>14 DEF IsWritten, Written, body

LEMMA DeglobbedEmpty ==
  ASSUME NEW glob, glob = <<>> \/ glob = <<"/">>
  PROVE  IsWritten(glob, Written(<<>>))
<1>1. Body(<<>>) = <<>>
  <2>1. DOMAIN <<>> = {} /\ Len(<<>>) = 0
    OBVIOUS
  <2>2. Expansions(<<>>) = [i \in {} |-> Expansion(<<>>[i])]
    BY <2>1 DEF Expansions
  <2>3. Expansions(<<>>) = <<>>
    BY <2>2
  <2> QED BY <2>1, <2>3 DEF Body, FlattenSeq
<1>2. Written(<<>>) = <<"^", "$">>
  <2>1. \A x \in Seq(Characters), c \in Characters : x \o <<>> = x /\ x \o <<c>> = Append(x, c)
    OBVIOUS
  <2>2. <<"^">> \in Seq(Characters) /\ "$" \in Characters
    BY CharactersAssumption
  <2>3. Written(<<>>) = Append(<<"^">>, "$")
    BY <1>1, <2>1, <2>2, Zenon DEF Written
  <2>4. Append(<<"^">>, "$") = <<"^", "$">>
    <3> DEFINE x == Append(<<"^">>, "$")
    <3>1. x \in Seq({"^", "$"}) /\ Len(x) = 2 /\ x[1] = "^" /\ x[2] = "$"
      OBVIOUS
    <3> HIDE DEF x
    <3>2. x = [i \in 1..2 |-> x[i]]
      BY <3>1
    <3>3. <<"^", "$">> = [i \in 1..2 |-> x[i]]
      BY <3>1
    <3> QED BY <3>2, <3>3 DEF x
  <2> QED BY <2>3, <2>4
<1>0. ~(Bracketed(glob) /\ Len(glob) > 1)
  <2>1. ~(Len(<<>>) > 1) /\ ~(Len(<<"/">>) > 1)
    OBVIOUS
  <2> QED BY <2>1, Zenon
<1>3. uvm_re_deglobbed(glob, FALSE) = <<>> \o <<"^", "$">> \o <<>>
  BY <1>0 DEF uvm_re_deglobbed
<1>4. uvm_re_deglobbed(glob, TRUE) = <<"/">> \o <<"^", "$">> \o <<"/">>
  BY <1>0 DEF uvm_re_deglobbed
<1>5. <<>> \o <<"^", "$">> \o <<>> = <<"^", "$">>
  OBVIOUS
<1> QED BY <1>2, <1>3, <1>4, <1>5 DEF IsWritten

\* Brackets are taken off again.
LEMMA BracketsLemma ==
  ASSUME NEW S, NEW e \in Seq(S), NEW x \in S
  PROVE  LET b == (<<x>> \o e) \o <<x>> IN
         /\ b \in Seq(S) /\ Len(b) = Len(e) + 2 /\ b[1] = x /\ Last(b) = x
         /\ SubSeq(b, 2, Len(b) - 1) = e /\ b \notin {<<>>, <<x>>}
<1> DEFINE p == <<x>> \o e
           n == Len(e)
           b == p \o <<x>>
<1>1. n \in Nat /\ p \in Seq(S) /\ Len(p) = n + 1 /\ p[1] = x
      /\ \A i \in 1..n : p[i + 1] = e[i]
  OBVIOUS
<1>2. e = [i \in 1..n |-> e[i]]
  OBVIOUS
<1> HIDE DEF n, p
<1>3. b \in Seq(S) /\ Len(b) = n + 2 /\ b[n + 2] = x
      /\ \A i \in 1..(n + 1) : b[i] = p[i]
  BY <1>1
<1> HIDE DEF b
<1>4. b[1] = x /\ Last(b) = x
  BY <1>1, <1>3 DEF Last
<1>5. SubSeq(b, 2, Len(b) - 1) = e
  <2>1. SubSeq(b, 2, Len(b) - 1) = [i \in 1..n |-> b[i + 1]]
    BY <1>1, <1>3
  <2>2. \A i \in 1..n : b[i + 1] = e[i]
    <3>1. \A i \in 1..n : i + 1 \in 1..(n + 1)
      BY <1>1
    <3> QED BY <1>1, <1>3, <3>1
  <2> QED BY <1>2, <2>1, <2>2
<1>6. b \notin {<<>>, <<x>>}
  <2>1. Len(<<>>) = 0 /\ Len(<<x>>) = 1 /\ n + 2 # 0 /\ n + 2 # 1
    BY <1>1
  <2> QED BY <1>3, <2>1
<1> QED BY <1>1, <1>3, <1>4, <1>5, <1>6 DEF b, p, n

\* The expression of a glob, whichever way it takes to uvm_re_match.
LEMMA GlobExpression ==
  ASSUME NEW u, IsGlob(u), u.text \in Seq(Plain), 3 * Len(u.text) + 5 <= MaxLength
  PROVE  IsGlobExpression(Expression(Re(u), Deglob(u)),
                          IF u.text = <<"/">> THEN <<>> ELSE u.text)
<1> DEFINE glob == IF u.text = <<"/">> THEN <<>> ELSE u.text
           e == Written(glob)
           b == (<<"/">> \o e) \o <<"/">>
<1>0. glob \in Seq(Plain) /\ Len(glob) <= Len(u.text) /\ Len(glob) \in Nat
  OBVIOUS
<1>1. IsGlobExpression(e, glob)
  <2> HIDE DEF glob
  <2> QED BY <1>0, WrittenLemma
<1>2. IsWritten(u.text, e)
  <2>1. CASE u.text \in {<<>>, <<"/">>}
    BY <2>1, DeglobbedEmpty
  <2>2. CASE u.text \notin {<<>>, <<"/">>}
    <3>1. ~Bracketed(u.text)
      <4>1. ASSUME Len(u.text) = 1, u.text[1] = "/" PROVE u.text = <<"/">>
        <5>1. u.text \in Seq(Plain)
          OBVIOUS
        <5> QED BY <4>1, <5>1
      <4> QED BY <2>2, <4>1 DEF IsGlob, Bracketed
    <3>2. glob = u.text
      BY <2>2
    <3> HIDE DEF glob
    <3> QED BY <2>2, <3>1, <3>2, DeglobbedLemma
  <2> QED BY <2>1, <2>2
<1> HIDE DEF glob
<1>3. /\ e \in Seq(Characters) /\ Len(e) \in Nat /\ "/" \in Characters /\ MaxLength \in Nat
      /\ Len(e) + 2 <= MaxLength
  <2>1. e \in Seq(Characters) /\ Len(e) <= 2 * Len(glob) + 2
    BY <1>1 DEF IsGlobExpression
  <2>2. "/" \in Characters /\ MaxLength \in Nat /\ Len(u.text) \in Nat
    BY CharactersAssumption, RegexAssumption
  <2> HIDE DEF e
  <2>3. Len(e) \in Nat
    BY <2>1
  <2> QED BY <1>0, <2>1, <2>2, <2>3
<1> HIDE DEF e
<1>4. /\ b \in Seq(Characters) /\ Len(b) = Len(e) + 2 /\ b[1] = "/" /\ Last(b) = "/"
      /\ SubSeq(b, 2, Len(b) - 1) = e /\ b \notin {<<>>, <<"/">>}
  BY <1>3, BracketsLemma
<1>5. b # Null
  BY <1>4, CharactersAssumption
<1>6. Deglob(u)
  BY DEF IsGlob
<1>7. CASE u.via # "scope"
  <2>1. Re(u) = u.text
    BY <1>7 DEF Re
  <2> QED BY <1>1, <1>2, <1>6, <2>1 DEF Expression, IsWritten, glob
<1>8. CASE u.via = "scope"
  <2>1. Re(u) = b
    BY <1>2, <1>5, <1>8 DEF Re, IsWritten
  <2> HIDE DEF b
  <2>2. uvm_re_deglobbed(b, FALSE) = e
    <3>1. Bracketed(b) /\ Len(b) > 1 /\ ~(Len(b) > MaxLength)
      <4>1. Bracketed(b)
        BY <1>4 DEF Bracketed
      <4>2. Len(b) = Len(e) + 2
        BY <1>4
      <4> HIDE DEF b
      <4> QED BY <1>3, <4>1, <4>2
    <3>2. Unbracketed(b) = e
      BY <1>4 DEF Unbracketed
    <3> QED BY <1>4, <3>1, <3>2 DEF uvm_re_deglobbed
  <2> QED BY <1>1, <1>6, <2>1, <2>2 DEF Expression, glob
<1> QED BY <1>7, <1>8
-----------------------------------------------------------------------------
(* The answers                                                             *)

Small(u) == 3 * Len(u.text) + 5 <= MaxLength

\* A use that is no glob is matched as the expression it is.
LEMMA PlainExpression ==
  ASSUME NEW u, u.text \in Seq(Characters), ~IsGlob(u), Small(u),
         u.via = "regex" => u.text # <<"/">>
  PROVE  /\ Expression(Re(u), Deglob(u)) = Expression(u.text, FALSE)
         /\ Expression(u.text, FALSE) # Null
<1> DEFINE t == u.text
<1>1. /\ t \in Seq(Characters) /\ Len(t) \in Nat /\ MaxLength \in Nat /\ t # Null
      /\ ~(Len(t) > MaxLength)
  BY RegexAssumption, CharactersAssumption DEF Small
<1>2. Unbracketed(t) \in Seq(Characters)
  <2> HIDE DEF t
  <2>1. SubSeq(t, 2, Len(t) - 1) \in Seq(Characters)
    BY <1>1
  <2> QED BY <2>1 DEF Unbracketed
<1>3. Unbracketed(t) # Null
  BY <1>2, CharactersAssumption
<1> HIDE DEF t
<1>4. Expression(t, FALSE) = IF Bracketed(t) THEN Unbracketed(t) ELSE t
  BY <1>1 DEF Expression
<1>5. CASE u.via = "regex"
  <2>1. Re(u) = t /\ Deglob(u) = FALSE
    BY <1>5 DEF Re, Deglob, t
  <2> QED BY <1>1, <1>3, <1>4, <2>1 DEF t
<1>6. CASE u.via # "regex"
  <2>1. Bracketed(t) /\ Len(t) # 1 /\ Deglob(u)
    BY <1>6 DEF IsGlob, Deglob, t
  <2>2. Len(t) # 0
    BY <1>1, <2>1 DEF Bracketed
  <2>3. t \notin {<<>>, <<"/">>} /\ Len(t) > 1
    <3>1. Len(<<>>) = 0 /\ Len(<<"/">>) = 1
      OBVIOUS
    <3>2. t # <<>> /\ t # <<"/">>
      BY <2>1, <2>2, <3>1, Zenon
    <3>3. Len(t) > 1
      <4>1. \A n \in Nat : n # 0 /\ n # 1 => n > 1
        OBVIOUS
      <4> QED BY <1>1, <2>1, <2>2, <4>1, Zenon
    <3> QED BY <3>2, <3>3, Zenon
  <2>4. uvm_re_deglobbed(t, TRUE) = t /\ uvm_re_deglobbed(t, FALSE) = Unbracketed(t)
    BY <1>1, <2>1, <2>3 DEF uvm_re_deglobbed
  <2>5. Re(u) = t
    BY <1>1, <2>4 DEF Re, t
  <2> QED BY <1>3, <1>4, <2>1, <2>4, <2>5 DEF Expression, t
<1> QED BY <1>5, <1>6

LEMMA SequenceOf ==
  ASSUME NEW S, NEW R, NEW t \in Seq(S)
  PROVE  /\ DOMAIN t = 1..Len(t)
         /\ \A i \in DOMAIN t : t[i] \in S
         /\ (\A i \in DOMAIN t : t[i] \in R) => t \in Seq(R)
<1>1. Len(t) \in Nat /\ t = [i \in 1..Len(t) |-> t[i]] /\ \A i \in 1..Len(t) : t[i] \in S
  OBVIOUS
<1>2. ASSUME \A i \in 1..Len(t) : t[i] \in R PROVE t \in Seq(R)
  <2>1. [i \in 1..Len(t) |-> t[i]] \in Seq(R)
    BY <1>1, <1>2
  <2> QED BY <1>1, <2>1, Zenon
<1>3. DOMAIN t = 1..Len(t)
  OBVIOUS
<1> QED BY <1>1, <1>2, <1>3, Zenon

LEMMA PlainText ==
  ASSUME NEW t \in Seq(Characters),
         \A i \in DOMAIN t : t[i] \notin {"^", "$", "\\", "{", "}", "|"}
  PROVE  t \in Seq(Plain)
<1>1. \A i \in DOMAIN t : t[i] \in Characters
  BY SequenceOf, Zenon
<1>2. \A i \in DOMAIN t : t[i] \in Plain
  BY <1>1, Zenon DEF Plain
<1> QED BY <1>2, SequenceOf, Zenon

\* Every use is matched as what it is, and only what is malformed does not
\* compile while there is memory.
LEMMA UseLemma ==
  ASSUME Inv, NEW u \in uses, Small(u)
  PROVE  /\ \A str \in simulation.strings :
              regexec(Expression(Re(u), Deglob(u)), str) = 0 <=> Matches(u, str)
         /\ ~Compiles(Re(u), Deglob(u)) =>
              \/ live = Handles
              \/ ~IsGlob(u) /\ ~Parsed(Expression(u.text, FALSE)).valid
<1>1. /\ u.text \in Seq(Characters) /\ simulation.strings \subseteq Seq(Characters)
      /\ IsGlob(u) =>
           \A i \in DOMAIN u.text : u.text[i] \notin {"^", "$", "\\", "{", "}", "|"}
      /\ u.via = "regex" => u.text # <<"/">>
  BY UsesAssumption, BracketAssumption DEF Inv, uses
<1> DEFINE e == Expression(Re(u), Deglob(u))
<1>2. CASE IsGlob(u)
  <2> DEFINE glob == IF u.text = <<"/">> THEN <<>> ELSE u.text
  <2>1. u.text \in Seq(Plain)
    <3>1. \A i \in DOMAIN u.text : u.text[i] \notin {"^", "$", "\\", "{", "}", "|"}
      BY <1>1, <1>2
    <3> QED BY <1>1, <3>1, PlainText
  <2>2. IsGlobExpression(e, glob)
    BY <1>2, <2>1, GlobExpression DEF Small
  <2> HIDE DEF e, glob
  <2>3. e # Null /\ Parsed(e).valid
    BY <2>2, CharactersAssumption DEF IsGlobExpression
  <2>4. \A str \in simulation.strings : regexec(e, str) = 0 <=> GlobMatches(glob, str)
    BY <1>1, <2>2 DEF IsGlobExpression
  <2> QED BY <1>2, <2>3, <2>4 DEF e, glob, Matches, Compiles
<1>3. CASE ~IsGlob(u)
  <2>1. e = Expression(u.text, FALSE) /\ e # Null
    BY <1>1, <1>3, PlainExpression
  <2> HIDE DEF e
  <2> QED BY <1>3, <2>1 DEF e, Matches, Compiles
<1> QED BY <1>2, <1>3

\* What was asked, and what a reported error says.
Reports ==
  \A i \in DOMAIN answer :
    LET a == answer[i] IN
    /\ a.use \in uses /\ a.str \in simulation.strings
    /\ a.reported => ~Compiles(Re(a.use), Deglob(a.use))

LEMMA OneReport ==
  ASSUME NEW u \in uses, NEW str \in simulation.strings, NEW retval, NEW reported,
         Answer(u, str, retval, reported), UNCHANGED simulation,
         reported => ~Compiles(Re(u), Deglob(u)) /\ UNCHANGED live
  PROVE  Reports'
<1>1. answer' = <<[use |-> u, str |-> str, retval |-> retval, reported |-> reported]>>
  BY DEF Answer
<1>2. DOMAIN answer' = {1}
  BY <1>1
<1>3. answer'[1].use = u /\ answer'[1].str = str /\ answer'[1].reported = reported
  BY <1>1
<1>4. uses' = uses /\ simulation'.strings = simulation.strings
  BY DEF uses
<1>5. reported => ~Compiles(Re(u), Deglob(u))'
  BY DEF Compiles, Expression, Re, Deglob
<1> HIDE DEF uses
<1> QED BY <1>2, <1>3, <1>4, <1>5 DEF Reports

LEMMA ReportsInv == Inv /\ Reports /\ [Next]_vars => Reports'
<1> SUFFICES ASSUME Inv, Reports, [Next]_vars PROVE Reports'
  OBVIOUS
<1>1. ASSUME NEW c, Evicting(c) PROVE Reports'
  BY <1>1 DEF Evicting, Reports
<1>2. ASSUME NEW u \in uses, NEW str \in simulation.strings, uvm_re_match(u, str)
      PROVE  Reports'
  <2>1. PICK retval \in {0, REG_NOMATCH}, success \in BOOLEAN :
          /\ uvm_re_compexecfree(Re(u), str, Deglob(u), retval, success)
          /\ Answer(u, str, retval, ~success)
    BY <1>2 DEF uvm_re_match
  <2>2. success = Compiles(Re(u), Deglob(u)) /\ UNCHANGED live
    BY <2>1 DEF uvm_re_compexecfree
  <2>3. UNCHANGED simulation
    BY <1>2 DEF uvm_re_match
  <2> QED BY <2>1, <2>2, <2>3, OneReport
<1>3. ASSUME NEW u \in uses, NEW str \in simulation.strings, uvm_re_match_hit(u, str)
      PROVE  Reports'
  <2>1. UNCHANGED simulation /\ Answer(u, str, uvm_re_exec(DataOf(cache, Re(u)), str), FALSE)
    BY <1>3 DEF uvm_re_match_hit
  <2> QED BY <2>1, OneReport
<1>4. ASSUME NEW u \in uses, NEW str \in simulation.strings, uvm_re_match_miss(u, str)
      PROVE  Reports'
  <2>1. PICK rexp \in Handles \cup {Null}, retval \in {0, REG_NOMATCH} :
          /\ uvm_re_compexec(Re(u), str, Deglob(u), rexp, retval)
          /\ Answer(u, str, retval, rexp = Null)
    BY <1>4 DEF uvm_re_match_miss
  <2>2. rexp = Null => ~Compiles(Re(u), Deglob(u)) /\ UNCHANGED live
    BY <2>1, HandlesAssumption DEF uvm_re_compexec, uvm_re_comp
  <2>3. UNCHANGED simulation
    BY <1>4 DEF uvm_re_match_miss
  <2> QED BY <2>1, <2>2, <2>3, OneReport
<1>5. CASE UNCHANGED vars
  BY <1>5 DEF vars, dpiVars, Reports, uses, Compiles, Expression, Re, Deglob
<1> QED BY <1>1, <1>2, <1>3, <1>4, <1>5 DEF Next, Evict, SetMaxSize, Flush

LEMMA RightAnswers == Inv /\ Reports /\ CacheIsTransparent => AnswersRight
<1> SUFFICES ASSUME Inv, Reports, CacheIsTransparent, NEW i \in DOMAIN answer
             PROVE  LET a == answer[i]
                        small == 3 * Len(a.use.text) + 5 <= MaxLength
                    IN
                    /\ (~a.reported /\ small /\ Unmixed(a.use)) =>
                         (a.retval = 0 <=> Matches(a.use, a.str))
                    /\ a.reported => \/ live = Handles \/ ~small
                                     \/ /\ ~IsGlob(a.use)
                                        /\ ~Parsed(Expression(a.use.text, FALSE)).valid
  BY Zenon DEF AnswersRight
<1> DEFINE a == answer[i]
<1>1. /\ a.use \in uses /\ a.str \in simulation.strings
      /\ a.reported => ~Compiles(Re(a.use), Deglob(a.use))
  BY DEF Reports
<1>2. ~a.reported /\ Unmixed(a.use) =>
        a.retval = regexec(Expression(Re(a.use), Deglob(a.use)), a.str)
  BY DEF CacheIsTransparent, AnswersAfresh
<1>3. Small(a.use) =>
        /\ regexec(Expression(Re(a.use), Deglob(a.use)), a.str) = 0 <=> Matches(a.use, a.str)
        /\ ~Compiles(Re(a.use), Deglob(a.use)) =>
             \/ live = Handles
             \/ ~IsGlob(a.use) /\ ~Parsed(Expression(a.use.text, FALSE)).valid
  <2> HIDE DEF a
  <2> QED BY <1>1, UseLemma, Zenon
<1> HIDE DEF a
<1>4. (~a.reported /\ Small(a.use) /\ Unmixed(a.use)) =>
        (a.retval = 0 <=> Matches(a.use, a.str))
  BY <1>2, <1>3, Zenon
<1>5. a.reported => \/ live = Handles \/ ~Small(a.use)
                    \/ ~IsGlob(a.use) /\ ~Parsed(Expression(a.use.text, FALSE)).valid
  BY <1>1, <1>3, Zenon
<1> QED BY <1>4, <1>5, Zenon DEF a, Small

\* Every answer of uvm_re_match is right: for every glob without operators of
\* an expression and every string, whichever way the glob is expanded, escaped
\* and bracketed, and whatever the cache had kept (in a simulation with a cache,
\* if nobody uses the text in another way); and an error is reported only
\* for what is malformed or long, or when there is no memory.
THEOREM AnswersAreRight == Spec => []AnswersRight
<1>1. Init => Reports
  BY DEF Init, Reports
<1> QED BY <1>1, ReportsInv, RightAnswers, InvHolds, AnswersAreUncached, PTL DEF Spec
=============================================================================
