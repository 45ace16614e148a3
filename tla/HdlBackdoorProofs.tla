-------------------------- MODULE HdlBackdoorProofs --------------------------
(***************************************************************************)
(* The HDL backdoor keeps the promise of uvm_hdl.svh, but for the          *)
(* exceptions that HdlBackdoor names, for any design, any paths and        *)
(* values, any width of a word, of a value and of Questa's buffers.  First *)
(* what the selections of a path, a write to the design and a value that   *)
(* is read are, then the calls of each simulator, then the invariant.      *)
(***************************************************************************)
EXTENDS HdlBackdoor, FiniteSetTheorems, WellFoundedInduction, TLAPS

-----------------------------------------------------------------------------
(* Paths                                                                   *)

LEMMA PathKinds ==
  ASSUME NEW p, IsPath(p)
  PROVE  /\ Whole(p) \/ IsBit(p) \/ IsSlice(p)
         /\ IsBit(p) => ~Whole(p) /\ p.sel[1] \in Nat /\ DOMAIN p.sel = {1}
         /\ IsSlice(p) => /\ ~Whole(p) /\ ~IsBit(p) /\ DOMAIN p.sel = {1, 2}
                          /\ p.sel[1] \in Nat /\ p.sel[2] \in Nat
         /\ Whole(p) => DOMAIN p.sel = {}
<1> DEFINE s == p.sel
<1>1. s \in Seq(Nat) /\ Len(s) <= 2
  BY DEF IsPath
<1> HIDE DEF s
<1>2. Len(s) \in Nat /\ DOMAIN s = 1..Len(s) /\ \A i \in DOMAIN s : s[i] \in Nat
  BY <1>1
<1>3. Len(s) = 0 <=> s = <<>>
  BY <1>1
<1>4. 1..0 = {} /\ 1..1 = {1} /\ 1..2 = {1, 2}
  OBVIOUS
<1>5. Len(s) = 0 \/ Len(s) = 1 \/ Len(s) = 2
  BY <1>1, <1>2
<1> QED BY <1>2, <1>3, <1>4, <1>5, SMTT(40) DEF s, Whole, IsBit, IsSlice

\* The bits a path may select, for which it needs the object only when it is
\* whole.
Selects(p) == IsPath(p) /\ (Whole(p) => p.name \in Signals)

LEMMA SelectedFacts ==
  ASSUME NEW p, Selects(p)
  PROVE  /\ SizeOf(p) \in Nat \ {0}
         /\ DOMAIN Selected(p) = 0..(SizeOf(p) - 1)
         /\ \A i \in 0..(SizeOf(p) - 1) : Selected(p)[i] \in Nat
         /\ \A i, j \in 0..(SizeOf(p) - 1) :
              Selected(p)[i] = Selected(p)[j] => i = j
         /\ Whole(p) => /\ SizeOf(p) = Width[p.name]
                        /\ \A i \in 0..(SizeOf(p) - 1) : Selected(p)[i] = i
         /\ IsBit(p) => SizeOf(p) = 1 /\ Selected(p)[0] = p.sel[1]
         /\ IsSlice(p) =>
              LET l == p.sel[1]  r == p.sel[2] IN
              IF l > r THEN /\ SizeOf(p) = l - r + 1
                            /\ \A i \in 0..(l - r) : Selected(p)[i] = r + i
                       ELSE /\ SizeOf(p) = r - l + 1
                            /\ \A i \in 0..(r - l) : Selected(p)[i] = r - i
<1>1. ASSUME NEW n \in Nat, DOMAIN Selected(p) = 0..n
      PROVE  SizeOf(p) = n + 1
  <2>1. Cardinality(0..n) = n + 1
    BY FS_Interval
  <2> QED BY <1>1, <2>1 DEF SizeOf
<1>2. CASE Whole(p)
  <2>1. Width[p.name] \in Nat \ {0} /\ ~IsBit(p) /\ ~IsSlice(p)
    BY <1>2, PathKinds, WidthAssumption DEF Selects
  <2>2. Selected(p) = [i \in 0..(Width[p.name] - 1) |-> i]
    BY <1>2, <2>1 DEF Selected
  <2>3. SizeOf(p) = Width[p.name]
    BY <1>1, <2>1, <2>2
  <2> QED BY <2>1, <2>2, <2>3
<1>3. CASE IsBit(p)
  <2>1. p.sel[1] \in Nat /\ ~Whole(p) /\ ~IsSlice(p)
    BY <1>3, PathKinds DEF Selects
  <2>2. Selected(p) = [i \in {0} |-> p.sel[1]]
    BY <1>3, <2>1 DEF Selected
  <2>3. {0} = 0..0
    OBVIOUS
  <2>4. SizeOf(p) = 1
    BY <1>1, <2>2, <2>3
  <2> QED BY <1>3, <2>1, <2>2, <2>3, <2>4
<1>4. CASE IsSlice(p)
  <2> DEFINE l == p.sel[1]
             r == p.sel[2]
  <2>1. l \in Nat /\ r \in Nat /\ ~Whole(p) /\ ~IsBit(p)
    BY <1>4, PathKinds DEF Selects
  <2>2. Selected(p) = IF l > r THEN [i \in 0..(l - r) |-> r + i]
                               ELSE [i \in 0..(r - l) |-> r - i]
    BY <1>4, <2>1 DEF Selected
  <2> HIDE DEF l, r
  <2>3. CASE l > r
    <3>1. SizeOf(p) = l - r + 1
      BY <1>1, <2>1, <2>2, <2>3
    <3>2. DOMAIN Selected(p) = 0..(l - r)
          /\ \A i \in 0..(l - r) : Selected(p)[i] = r + i
      BY <2>2, <2>3
    <3>3. l - r \in Nat /\ SizeOf(p) - 1 = l - r
      BY <2>1, <2>3, <3>1
    <3>4. /\ SizeOf(p) \in Nat \ {0}
          /\ \A i \in 0..(l - r) : r + i \in Nat
          /\ \A i, j \in 0..(l - r) : r + i = r + j => i = j
      BY <2>1, <2>3, <3>1
    <3> QED BY <1>4, <2>1, <2>3, <3>1, <3>2, <3>3, <3>4 DEF l, r
  <2>4. CASE ~(l > r)
    <3>1. SizeOf(p) = r - l + 1
      BY <1>1, <2>1, <2>2, <2>4
    <3>2. DOMAIN Selected(p) = 0..(r - l)
          /\ \A i \in 0..(r - l) : Selected(p)[i] = r - i
      BY <2>2, <2>4
    <3>3. r - l \in Nat /\ SizeOf(p) - 1 = r - l
      BY <2>1, <2>4, <3>1
    <3>4. /\ SizeOf(p) \in Nat \ {0}
          /\ \A i \in 0..(r - l) : r - i \in Nat
          /\ \A i, j \in 0..(r - l) : r - i = r - j => i = j
      BY <2>1, <2>4, <3>1
    <3> QED BY <1>4, <2>1, <2>4, <3>1, <3>2, <3>3, <3>4 DEF l, r
  <2> QED BY <2>3, <2>4
<1> QED BY <1>2, <1>3, <1>4, PathKinds DEF Selects

\* The bits that are there come first, and those that a loop over the bits
\* reaches are these or nothing.
LEMMA ReachedFacts ==
  ASSUME NEW p, Selects(p), p.name \in Signals
  PROVE  /\ Reached(p) \in 0..SizeOf(p)
         /\ \A i \in 0..(Reached(p) - 1) : Selected(p)[i] < Width[p.name]
         /\ Exists(p) => Reached(p) = SizeOf(p)
         /\ Exists(p) <=>
              \A i \in 0..(SizeOf(p) - 1) : Selected(p)[i] < Width[p.name]
         /\ Reached(p) < SizeOf(p) => ~Exists(p)
         /\ ~Exists(p) /\ IsBit(p) => Reached(p) = 0
<1> DEFINE W == Width[p.name]
           n == SizeOf(p)
           R == {i \in 0..(n - 1) : \A j \in 0..i : Selected(p)[j] < W}
<1>1. W \in Nat \ {0} /\ n \in Nat \ {0}
  BY SelectedFacts, WidthAssumption
<1>2. Reached(p) = Cardinality(R)
  BY SelectedFacts DEF Reached
<1>3. ASSUME NEW k \in Nat, R = 0..(k - 1)
      PROVE  Reached(p) = k
  <2>1. Cardinality(0..(k - 1)) = k
    BY FS_Interval
  <2> QED BY <1>2, <1>3, <2>1
<1>4. Exists(p) <=> \A i \in 0..(n - 1) : Selected(p)[i] < W
  <2>1. CASE Whole(p)
    BY <1>1, <2>1, PathKinds, SelectedFacts DEF Exists, Selects
  <2>2. CASE IsBit(p)
    <3>1. DOMAIN p.sel = {1} /\ n = 1 /\ Selected(p)[0] = p.sel[1]
      BY <2>2, PathKinds, SelectedFacts DEF Selects
    <3>2. 0..(n - 1) = {0}
      BY <3>1
    <3> QED BY <3>1, <3>2 DEF Exists
  <2>3. CASE IsSlice(p)
    <3> DEFINE l == p.sel[1]
               r == p.sel[2]
    <3>1. l \in Nat /\ r \in Nat /\ DOMAIN p.sel = {1, 2}
      BY <2>3, PathKinds DEF Selects
    <3>2. Exists(p) <=> l < W /\ r < W
      BY <3>1 DEF Exists
    <3>3. CASE l > r
      <4>1. n = l - r + 1 /\ \A i \in 0..(n - 1) : Selected(p)[i] = r + i
        BY <2>3, <3>1, <3>3, SelectedFacts
      <4>2. (\A i \in 0..(n - 1) : r + i < W) <=> l < W /\ r < W
        <5> HIDE DEF l, r, W, n
        <5>1. l - r \in 0..(n - 1) /\ r + (l - r) = l
          BY <3>1, <3>3, <4>1
        <5>2. \A i \in 0..(n - 1) : r + i <= l
          BY <3>1, <3>3, <4>1
        <5> QED BY <1>1, <3>1, <3>3, <5>1, <5>2
      <4> QED BY <3>2, <4>1, <4>2
    <3>4. CASE ~(l > r)
      <4>1. n = r - l + 1 /\ \A i \in 0..(n - 1) : Selected(p)[i] = r - i
        BY <2>3, <3>1, <3>4, SelectedFacts
      <4>2. (\A i \in 0..(n - 1) : r - i < W) <=> l < W /\ r < W
        <5> HIDE DEF l, r, W, n
        <5>1. 0 \in 0..(n - 1) /\ r - 0 = r
          BY <3>1, <3>4, <4>1
        <5>2. \A i \in 0..(n - 1) : r - i <= r
          BY <3>1, <3>4, <4>1
        <5> QED BY <1>1, <3>1, <3>4, <5>1, <5>2
      <4> QED BY <3>2, <4>1, <4>2
    <3> QED BY <3>3, <3>4
  <2> QED BY <2>1, <2>2, <2>3, PathKinds DEF Selects
<1>5. \E k \in 0..n :
         /\ \A i \in 0..(k - 1) : Selected(p)[i] < W
         /\ k < n => \E j \in 0..k : ~(Selected(p)[j] < W)
         /\ IsBit(p) /\ k < n => k = 0
  <2>1. CASE \A i \in 0..(n - 1) : Selected(p)[i] < W
    BY <1>1, <2>1
  <2>2. CASE /\ ~\A i \in 0..(n - 1) : Selected(p)[i] < W
             /\ ~(Selected(p)[0] < W)
    BY <1>1, <2>2
  <2>3. CASE /\ ~\A i \in 0..(n - 1) : Selected(p)[i] < W
             /\ Selected(p)[0] < W
    <3> DEFINE l == p.sel[1]
               r == p.sel[2]
    <3>1. ~Whole(p)
      BY <1>1, <2>3, SelectedFacts
    <3>2. ~IsBit(p)
      <4>1. n = 1 => 0..(n - 1) = {0}
        OBVIOUS
      <4> QED BY <1>1, <2>3, <4>1, SelectedFacts
    <3>3. IsSlice(p) /\ l \in Nat /\ r \in Nat
      BY <3>1, <3>2, PathKinds DEF Selects
    <3>4. l > r
      <4>1. SUFFICES ASSUME ~(l > r) PROVE FALSE
        OBVIOUS
      <4>2. n = r - l + 1 /\ \A i \in 0..(n - 1) : Selected(p)[i] = r - i
        BY <3>3, <4>1, SelectedFacts
      <4> HIDE DEF l, r, W, n
      <4>3. 0 \in 0..(n - 1) /\ r < W
        BY <1>1, <2>3, <3>3, <4>1, <4>2
      <4> QED BY <1>1, <2>3, <3>3, <4>2, <4>3
    <3>5. n = l - r + 1 /\ \A i \in 0..(n - 1) : Selected(p)[i] = r + i
      BY <3>3, <3>4, SelectedFacts
    <3> HIDE DEF l, r, W, n
    <3>6. r < W
      <4>1. 0 \in 0..(n - 1) /\ r + 0 = r
        BY <1>1, <3>3
      <4> QED BY <2>3, <3>5, <4>1
    <3>7. W - r \in 0..(n - 1)
      BY <1>1, <2>3, <3>3, <3>4, <3>5, <3>6
    <3>8. \A i \in 0..((W - r) - 1) : Selected(p)[i] < W
      BY <1>1, <3>3, <3>5, <3>7
    <3>9. ~(Selected(p)[W - r] < W)
      BY <1>1, <3>3, <3>5, <3>7
    <3> QED BY <1>1, <3>2, <3>7, <3>8, <3>9
  <2> QED BY <2>1, <2>2, <2>3
<1>6. PICK k \in 0..n :
         /\ \A i \in 0..(k - 1) : Selected(p)[i] < W
         /\ k < n => \E j \in 0..k : ~(Selected(p)[j] < W)
         /\ IsBit(p) /\ k < n => k = 0
  BY <1>5
<1>7. R = 0..(k - 1)
  BY <1>1, <1>6
<1>8. Reached(p) = k
  BY <1>3, <1>7
<1> QED BY <1>1, <1>4, <1>6, <1>8

-----------------------------------------------------------------------------
(* The design and the values                                               *)

\* A state of the design, complete with its shape.
IsDesign(d) ==
  /\ d = [bits |-> d.bits, forced |-> d.forced]
  /\ d.bits = [s \in Signals |-> d.bits[s]]
  /\ \A s \in Signals : d.bits[s] \in Contents(s)
  /\ \A f \in d.forced : /\ f = <<f[1], f[2]>>
                         /\ f[1] \in Signals /\ f[2] \in 0..(Width[f[1]] - 1)

\* The bits a path selects that its object has.
Chosen(p) ==
  {Selected(p)[i] : i \in DOMAIN Selected(p)} \cap 0..(Width[p.name] - 1)

\* Two states of the design differ in no bit but those.
SameBut(p, d, e) ==
  \A s \in Signals : \A b \in 0..(Width[s] - 1) :
    \/ s = p.name /\ b \in Chosen(p)
    \/ /\ e.bits[s][b] = d.bits[s][b]
       /\ <<s, b>> \in e.forced <=> <<s, b>> \in d.forced

\* A write keeps the shape of the design and touches only the bits it is
\* given; a release does not care which values these are given.
LEMMA PutFacts ==
  ASSUME IsDesign(sim), NEW p, p.name \in Signals,
         NEW how \in {"deposit", "force", "release"},
         NEW new, DOMAIN new \subseteq Chosen(p),
         how # "release" => \A b \in DOMAIN new : new[b] \in Bit4
  PROVE  IsDesign(Put(p.name, new, how)) /\ SameBut(p, sim, Put(p.name, new, how))
<1> DEFINE s == p.name
           d == Put(s, new, how)
<1>1. CASE s \in ReadOnly
  BY <1>1 DEF Put, SameBut
<1>2. CASE s \notin ReadOnly
  <2> DEFINE given == CASE how = "force" -> DOMAIN new
                 [] how = "deposit" -> {b \in DOMAIN new : <<s, b>> \notin sim.forced}
                 [] how = "release" -> {}
             bits == {<<s, b>> : b \in DOMAIN new}
             changed == [b \in DOMAIN sim.bits[s] |->
                          IF b \in given THEN ValueIn(s, new[b]) ELSE sim.bits[s][b]]
             forced == CASE how = "force" -> sim.forced \cup bits
                         [] how = "release" -> sim.forced \ bits
                         [] how = "deposit" -> sim.forced
  <2>1. d = [bits |-> [sim.bits EXCEPT ![s] = changed], forced |-> forced]
    BY <1>2 DEF Put
  <2>2. /\ d.bits = [t \in Signals |-> IF t = s THEN changed ELSE sim.bits[t]]
        /\ d.forced = forced
    <3> HIDE DEF d, changed, forced
    <3>1. d.bits = [sim.bits EXCEPT ![s] = changed] /\ d.forced = forced
      BY <2>1
    <3>2. sim.bits = [t \in Signals |-> sim.bits[t]]
      BY DEF IsDesign
    <3> QED BY <3>1, <3>2
  <2>3. \A b \in given : b \in DOMAIN new /\ new[b] \in Bit4
    OBVIOUS
  <2>4. \A b \in given : ValueIn(s, new[b]) \in (IF s \in Vhdl THEN StdLogic ELSE Bit4)
    BY <2>3 DEF ValueIn, StdLogic, Bit4
  <2>5. changed \in Contents(s)
    BY <2>4 DEF IsDesign, Contents
  <2>6. \A t \in Signals : d.bits[t] \in Contents(t)
    BY <2>2, <2>5 DEF IsDesign
  <2>7. \A f \in bits : /\ f = <<f[1], f[2]>>
                        /\ f[1] \in Signals /\ f[2] \in 0..(Width[f[1]] - 1)
    BY DEF Chosen
  <2>8. \A f \in forced : f \in sim.forced \/ f \in bits
    BY SMTT(40)
  <2>9. IsDesign(d)
    BY <2>1, <2>2, <2>6, <2>7, <2>8 DEF IsDesign
  <2>10. ASSUME NEW t \in Signals, NEW b \in 0..(Width[t] - 1),
                ~(t = s /\ b \in Chosen(p))
         PROVE  /\ d.bits[t][b] = sim.bits[t][b]
                /\ <<t, b>> \in d.forced <=> <<t, b>> \in sim.forced
    <3>1. t = s => b \notin DOMAIN new /\ b \in DOMAIN sim.bits[s]
      BY <2>10 DEF IsDesign, Contents
    <3>2. <<t, b>> \notin bits
      BY <3>1
    <3>3. <<t, b>> \in d.forced <=> <<t, b>> \in sim.forced
      BY <2>2, <3>2
    <3>4. d.bits[t][b] = sim.bits[t][b]
      BY <2>2, <2>3, <3>1
    <3> QED BY <3>3, <3>4
  <2> QED BY <2>9, <2>10 DEF SameBut
<1> QED BY <1>1, <1>2

LEMMA ReleaseFacts ==
  ASSUME NEW s, NEW new, NEW old, DOMAIN new = DOMAIN old
  PROVE  Put(s, new, "release") = Put(s, old, "release")
BY DEF Put

\* d gives the first n bits that p selects those of v.
Gives(d, p, n, v) ==
  /\ DOMAIN d = {Selected(p)[i] : i \in 0..(n - 1)}
  /\ \A i \in 0..(n - 1) : d[Selected(p)[i]] = v[i]

LEMMA SpreadGives ==
  ASSUME NEW p, Selects(p), NEW n \in 0..SizeOf(p), NEW v
  PROVE  Gives(Spread(p, n, v), p, n, v)
<1>1. DOMAIN Spread(p, n, v) = {Selected(p)[i] : i \in 0..(n - 1)}
  BY DEF Spread
<1>2. 0..(n - 1) \subseteq 0..(SizeOf(p) - 1)
  BY SelectedFacts
<1>3. ASSUME NEW i \in 0..(n - 1)
      PROVE  Spread(p, n, v)[Selected(p)[i]] = v[i]
  <2>1. \A j \in 0..(n - 1) : Selected(p)[j] = Selected(p)[i] => j = i
    BY <1>2, SelectedFacts
  <2>2. (CHOOSE j \in 0..(n - 1) : Selected(p)[j] = Selected(p)[i]) = i
    BY <2>1
  <2> QED BY <2>2 DEF Spread
<1> QED BY <1>1, <1>3, Zenon DEF Gives

\* What a path gives to the bits it selects.
LEMMA SpreadFacts ==
  ASSUME NEW p, Selects(p), NEW n \in 0..SizeOf(p), NEW v
  PROVE  /\ DOMAIN Spread(p, n, v) = {Selected(p)[i] : i \in 0..(n - 1)}
         /\ \A i \in 0..(n - 1) : Spread(p, n, v)[Selected(p)[i]] = v[i]
         /\ p.name \in Signals /\ n <= Reached(p) =>
              DOMAIN Spread(p, n, v) \subseteq Chosen(p)
<1>1. Gives(Spread(p, n, v), p, n, v)
  BY SpreadGives
<1>2. DOMAIN Spread(p, n, v) = {Selected(p)[i] : i \in 0..(n - 1)}
  BY <1>1 DEF Gives
<1>3. \A i \in 0..(n - 1) : Spread(p, n, v)[Selected(p)[i]] = v[i]
  BY <1>1, Zenon DEF Gives
<1>4. ASSUME p.name \in Signals, n <= Reached(p)
      PROVE  DOMAIN Spread(p, n, v) \subseteq Chosen(p)
  <2>0. 0..(n - 1) \subseteq 0..(SizeOf(p) - 1)
    BY SelectedFacts
  <2>1. Width[p.name] \in Nat /\ SizeOf(p) \in Nat /\ Reached(p) \in Nat
    BY <1>4, SelectedFacts, ReachedFacts, WidthAssumption
  <2>2. \A i \in 0..(n - 1) : /\ i \in DOMAIN Selected(p)
                              /\ Selected(p)[i] \in 0..(Width[p.name] - 1)
    <3> TAKE i \in 0..(n - 1)
    <3>1. i \in 0..(SizeOf(p) - 1) /\ i \in 0..(Reached(p) - 1)
      BY <1>4, <2>0, <2>1
    <3>2. i \in DOMAIN Selected(p) /\ Selected(p)[i] \in Nat
      BY <3>1, SelectedFacts
    <3>3. Selected(p)[i] < Width[p.name]
      BY <1>4, <3>1, ReachedFacts
    <3> QED BY <2>1, <3>2, <3>3
  <2> QED BY <1>2, <2>2 DEF Chosen
<1> QED BY <1>2, <1>3, <1>4

\* Values that agree on n bits are spread alike.
LEMMA SpreadAlike ==
  ASSUME NEW p, Selects(p), NEW n \in 0..SizeOf(p), NEW v, NEW w,
         \A i \in 0..(n - 1) : v[i] = w[i]
  PROVE  Spread(p, n, v) = Spread(p, n, w)
<1> DEFINE B == {Selected(p)[i] : i \in 0..(n - 1)}
           at(b) == CHOOSE i \in 0..(n - 1) : Selected(p)[i] = b
<1>1. \A b \in B : at(b) \in 0..(n - 1)
  OBVIOUS
<1>2. \A b \in B : v[at(b)] = w[at(b)]
  BY <1>1
<1> QED BY <1>2 DEF Spread

\* A function that reads n bits of a value finds bits, and those of the value
\* where it has them.
LEMMA ExtensionFacts ==
  ASSUME NEW v \in Value, NEW n \in Nat, NEW u \in Extensions(v, n)
  PROVE  /\ \A i \in 0..(n - 1) : u[i] \in Bit4
         /\ \A i \in 0..(MaxWidth - 1) : u[i] = v[i]
         /\ \A i \in 0..(MaxWidth - 1) : u[i] \in Bit4
         /\ n <= MaxWidth => DOMAIN u = 0..(MaxWidth - 1)
<1>1. MaxWidth \in Nat \ {0}
  BY WidthAssumption
<1>2. PICK past \in [MaxWidth..(n - 1) -> Bit4] :
        u = [i \in 0..(IF n > MaxWidth THEN n - 1 ELSE MaxWidth - 1) |->
               IF i < MaxWidth THEN v[i] ELSE past[i]]
  BY DEF Extensions
<1>3. \A i \in 0..(MaxWidth - 1) : v[i] \in Bit4
  BY DEF Value
<1> QED BY <1>1, <1>2, <1>3

\* What is written to a value is a value, with the new bits in their places.
LEMMA WrittenFacts ==
  ASSUME NEW v \in Value, NEW new, NEW undefined, NEW w \in Written(v, new, undefined),
         \A i \in DOMAIN new : new[i] \in Bit4
  PROVE  /\ w \in Value
         /\ \A i \in 0..(MaxWidth - 1) : i \in DOMAIN new => w[i] = new[i]
<1>1. PICK any \in [undefined -> Bit4] :
        w = [i \in DOMAIN v |-> IF i \in DOMAIN new THEN new[i]
                                ELSE IF i \in undefined THEN any[i] ELSE v[i]]
  BY DEF Written
<1>2. DOMAIN v = 0..(MaxWidth - 1) /\ \A i \in DOMAIN v : v[i] \in Bit4
  BY DEF Value
<1> QED BY <1>1, <1>2 DEF Value

\* The last of the words that n bits take holds at least one of them, and no
\* word follows it that holds any.
LEMMA ChunksFacts ==
  ASSUME NEW n \in Nat \ {0}
  PROVE  /\ Chunks(n) \in Nat \ {0}
         /\ (Chunks(n) - 1) * WordBits \in 0..(n - 1)
         /\ n <= Chunks(n) * WordBits
         /\ Chunks(n) * WordBits = (Chunks(n) - 1) * WordBits + WordBits
         /\ n <= WordBits => Chunks(n) = 1
<1>1. WordBits \in Nat \ {0}
  BY WidthAssumption
<1> DEFINE q == (n - 1) \div WordBits
<1>2. q \in Nat /\ q * WordBits <= n - 1 /\ n - 1 < q * WordBits + WordBits
  BY <1>1
<1>3. Chunks(n) = q + 1 /\ Chunks(n) - 1 = q
  BY <1>2 DEF Chunks
<1> HIDE DEF q
<1>4. q * WordBits \in Nat /\ (q + 1) * WordBits = q * WordBits + WordBits
  BY <1>1, <1>2
<1>5. n <= WordBits => q = 0
  <2>1. SUFFICES ASSUME n <= WordBits, q >= 1 PROVE FALSE
    BY <1>2
  <2>2. q * WordBits >= WordBits
    BY <1>1, <1>2, <2>1
  <2> QED BY <1>1, <1>2, <1>4, <2>1, <2>2
<1> QED BY <1>1, <1>2, <1>3, <1>4, <1>5

-----------------------------------------------------------------------------
(* The promise                                                             *)

\* HdlAccess speaks of the same design as HdlBackdoor.
LEMMA PromiseDesign ==
  /\ \A p : Promise!Selected(p) = Selected(p)
  /\ \A p : Promise!SizeOf(p) = SizeOf(p)
  /\ \A p : Promise!Exists(p) = Exists(p)
  /\ \A s, new, how : Promise!Put(s, new, how) = Put(s, new, how)
  /\ \A p, n, v : Promise!Spread(p, n, v) = Spread(p, n, v)
  /\ \A p, n : Promise!Freed(p, n) = Freed(p, n)
  /\ \A p, i, d : Promise!BitAt(p, i, d) = BitAt(p, i, d)
  /\ \A v, n : Promise!Extensions(v, n) = Extensions(v, n)
  /\ Promise!Value = Value
<1>1. ASSUME NEW p PROVE Promise!Selected(p) = Selected(p)
  BY DEF Promise!Selected, Selected, Promise!Whole, Whole, Promise!IsBit, IsBit,
         Promise!IsSlice, IsSlice
<1>2. ASSUME NEW p PROVE Promise!SizeOf(p) = SizeOf(p)
  <2>1. \A S : Promise!Cardinality(S) = Cardinality(S)
    BY DEF Promise!Cardinality, Cardinality
  <2> QED BY <1>1, <2>1 DEF Promise!SizeOf, SizeOf
<1>3. ASSUME NEW p PROVE Promise!Exists(p) = Exists(p)
  BY DEF Promise!Exists, Exists
<1>4. ASSUME NEW s, NEW new, NEW how
      PROVE  Promise!Put(s, new, how) = Put(s, new, how)
  BY DEF Promise!Put, Put, Promise!ValueIn, ValueIn
<1>5. ASSUME NEW p, NEW n, NEW v
      PROVE  Promise!Spread(p, n, v) = Spread(p, n, v)
  BY DEF Promise!Spread, Spread, Promise!Selected, Selected, Promise!Whole,
         Whole, Promise!IsBit, IsBit, Promise!IsSlice, IsSlice
<1>6. ASSUME NEW p, NEW n PROVE Promise!Freed(p, n) = Freed(p, n)
  BY <1>1, <1>4 DEF Promise!Freed, Freed
<1>7. Promise!Value = Value
  BY DEF Promise!Value, Value, Promise!Bit4, Bit4
<1>8. ASSUME NEW p, NEW i, NEW d PROVE Promise!BitAt(p, i, d) = BitAt(p, i, d)
  BY <1>1 DEF Promise!BitAt, BitAt
<1>9. ASSUME NEW v, NEW n PROVE Promise!Extensions(v, n) = Extensions(v, n)
  BY DEF Promise!Extensions, Extensions, Promise!Bit4, Bit4
<1> QED BY <1>1, <1>2, <1>3, <1>4, <1>5, <1>6, <1>7, <1>8, <1>9

\* What the promise asks for, operation by operation, in the terms of
\* HdlDesign.
Accessible(p) == Exists(p) /\ p.name \notin Unpacked /\ SizeOf(p) <= MaxWidth
Writable(p) == Accessible(p) /\ p.name \notin ReadOnly

ReadsRight(p, v, d) ==
  \A i \in 0..(SizeOf(p) - 1) : v[i] \in Promise!ReadsAs(p.name, BitAt(p, i, d))

LEMMA ReadsAsFacts ==
  ASSUME NEW s, NEW a
  PROVE  /\ s \notin Vhdl => Promise!ReadsAs(s, a) = {a}
         /\ s \in Vhdl /\ a \in {"0", "1"} => Promise!ReadsAs(s, a) = {a}
         /\ s \in Vhdl /\ a = "Z" => Promise!ReadsAs(s, a) = {"z"}
         /\ s \in Vhdl /\ a = "X" => Promise!ReadsAs(s, a) = {"x"}
         /\ s \in Vhdl /\ a \notin {"0", "1", "X", "Z"} =>
              Promise!ReadsAs(s, a) = Bit4
BY DEF Promise!ReadsAs, Promise!Bit4, Bit4

LEMMA TouchesFacts ==
  ASSUME NEW p, SameBut(p, sim, sim')
  PROVE  Promise!TouchesOnly(p)
BY PromiseDesign DEF Promise!TouchesOnly, SameBut, Chosen

LEMMA CheckPromised ==
  ASSUME NEW c, c.op = "check", UNCHANGED <<sim, value, ended>>,
         ret' = IF Exists(c.path) THEN 1 ELSE 0
  PROVE  Promise!Promised(c)
BY PromiseDesign DEF Promise!Promised, Promise!Check

LEMMA ReadPromised ==
  ASSUME NEW c, c.op = "read", IsPath(c.path), UNCHANGED <<sim, ended>>,
         value' \in Value,
         IF Accessible(c.path) THEN ret' = 1 /\ ReadsRight(c.path, value', sim)
         ELSE ret' = 0
  PROVE  Promise!Promised(c)
<1>1. Promise!Accessible(c.path) = Accessible(c.path)
  BY PromiseDesign DEF Promise!Accessible, Accessible
<1>2. Accessible(c.path) => Promise!Holds(c.path, value', sim)
  BY PromiseDesign, SelectedFacts
  DEF Promise!Holds, ReadsRight, BitAt, Accessible, Exists, Selects
<1>3. Promise!Read(c.path)
  BY <1>1, <1>2, PromiseDesign DEF Promise!Read
<1> QED BY <1>3 DEF Promise!Promised

LEMMA SetPromised ==
  ASSUME NEW c, c.op \in {"deposit", "force", "release"},
         UNCHANGED <<value, ended>>,
         IF Writable(c.path)
           THEN /\ ret' = 1
                /\ sim' = Put(c.path.name,
                              Spread(c.path, SizeOf(c.path),
                                     IF c.op = "release" THEN value ELSE c.arg),
                              c.op)
           ELSE ret' = 0 /\ SameBut(c.path, sim, sim')
  PROVE  Promise!Promised(c)
<1>1. Promise!Accessible(c.path) = Accessible(c.path)
  BY PromiseDesign DEF Promise!Accessible, Accessible
<1>2. ~Writable(c.path) => Promise!TouchesOnly(c.path)
  BY TouchesFacts
<1>3. CASE c.op = "release"
  BY <1>1, <1>2, <1>3, PromiseDesign DEF Promise!Promised, Promise!Set, Writable
<1>4. CASE c.op # "release"
  BY <1>1, <1>2, <1>4, PromiseDesign DEF Promise!Promised, Promise!Set, Writable
<1> QED BY <1>3, <1>4

LEMMA ReleaseAndReadPromised ==
  ASSUME NEW c, c.op = "release_and_read", IsPath(c.path), UNCHANGED ended,
         value' \in Value,
         IF Writable(c.path)
           THEN /\ ret' = 1
                /\ sim' = Freed(c.path, SizeOf(c.path))
                /\ ReadsRight(c.path, value', sim')
           ELSE ret' = 0 /\ SameBut(c.path, sim, sim')
  PROVE  Promise!Promised(c)
<1>1. Promise!Accessible(c.path) = Accessible(c.path)
  BY PromiseDesign DEF Promise!Accessible, Accessible
<1>2. ~Writable(c.path) => Promise!TouchesOnly(c.path)
  BY TouchesFacts
<1>3. Writable(c.path) => Promise!Holds(c.path, value', sim')
  BY PromiseDesign, SelectedFacts
  DEF Promise!Holds, ReadsRight, BitAt, Writable, Accessible, Exists, Selects
<1>4. Promise!ReleaseAndRead(c.path)
  BY <1>1, <1>2, <1>3, PromiseDesign DEF Promise!ReleaseAndRead, Writable
<1> QED BY <1>4 DEF Promise!Promised

\* What every call keeps to, inside the promise or outside.
Confined(c) ==
  /\ SameBut(c.path, sim, sim')
  /\ c.op \in {"check", "read"} => UNCHANGED sim
  /\ c.op \in {"check", "deposit", "force", "release"} => UNCHANGED value
  /\ ret' \in {0, 1} /\ value' \in Value /\ ended' \in BOOLEAN

\* Verilog reads as the path is, as far as the value goes.
ReadsOn(p, v, d) ==
  \A i \in 0..(SizeOf(p) - 1) : i < MaxWidth => v[i] = BitAt(p, i, d)

\* What it goes through with, whatever it returns.
Anyway(c) ==
  LET p == c.path IN
  /\ Reaches(simulator, p) =>
       /\ c.op \in {"deposit", "force"} =>
            \E u \in Extensions(c.arg, SizeOf(p)) :
              sim' = Put(p.name, Spread(p, SizeOf(p), u), c.op)
       /\ c.op \in {"release", "release_and_read"} => sim' = Freed(p, SizeOf(p))
  /\ c.op = "read" /\ p.name \notin Vhdl /\ ret' = 1 => ReadsOn(p, value', sim)
  /\ ~Exists(p) /\ p.name \notin Vhdl => ret' = 0

LEMMA NothingPromised ==
  ASSUME NEW c, IsPath(c.path), Confined(c), Anyway(c),
         c.op \in {"check", "read", "deposit", "force", "release", "release_and_read"}
  PROVE  Promise!Unpromised(c)
<1> DEFINE p == c.path
<1>1. Promise!TouchesOnly(p)
  BY TouchesFacts DEF Confined
<1>2. ASSUME Reaches(simulator, p)
      PROVE  Promise!SetAnyway(c)
  <2>1. CASE c.op \in {"deposit", "force"}
    BY <1>2, <2>1, PromiseDesign DEF Anyway, Promise!SetAnyway
  <2>2. CASE c.op \in {"release", "release_and_read"}
    BY <1>2, <2>2, PromiseDesign DEF Anyway, Promise!SetAnyway
  <2>3. CASE c.op \in {"check", "read"}
    BY <2>3 DEF Confined, Promise!SetAnyway
  <2> QED BY <2>1, <2>2, <2>3
<1>3. ASSUME c.op = "read", p.name \notin Vhdl, ret' = 1
      PROVE  Promise!ReadAnyway(c)
  <2>1. ReadsOn(p, value', sim) /\ Exists(p)
    BY <1>3 DEF Anyway
  <2>2. DOMAIN Selected(p) = 0..(SizeOf(p) - 1)
    BY <2>1, SelectedFacts DEF Exists, Selects
  <2> QED BY <2>1, <2>2, PromiseDesign DEF ReadsOn, Promise!ReadAnyway
<1>4. ~Exists(p) /\ p.name \notin Vhdl => ret' = 0
  BY DEF Anyway
<1> QED BY <1>1, <1>2, <1>3, <1>4, PromiseDesign DEF Confined, Promise!Unpromised

-----------------------------------------------------------------------------
(* What the simulators have in common                                      *)

Inv ==
  /\ IsDesign(sim)
  /\ value \in Value
  /\ ret \in {0, 1}
  /\ ended \in BOOLEAN
  /\ simulator \in Simulators
  /\ partsel \in BOOLEAN
  /\ call = <<>> \/ call \in Calls
  /\ calls \in 0..MaxCalls

\* What a call of any simulator leaves.
Outcome(c) ==
  /\ IsDesign(sim') /\ value' \in Value /\ ret' \in {0, 1} /\ ended' \in BOOLEAN
  /\ IF Supports(simulator, c) THEN Promise!Promised(c) ELSE Confined(c) /\ Anyway(c)

LEMMA CallFacts ==
  ASSUME NEW c \in Calls
  PROVE  /\ c.op \in {"check", "read", "deposit", "force", "release", "release_and_read"}
         /\ c.path \in Paths /\ IsPath(c.path)
         /\ Exists(c.path) => Selects(c.path) /\ c.path.name \in Signals
         /\ c.op \in {"deposit", "force"} => c.arg \in Value
BY CallsAssumption DEF Calls, Exists, Selects

LEMMA SameFacts ==
  ASSUME NEW p, NEW d
  PROVE  SameBut(p, d, d)
BY DEF SameBut

LEMMA BitFacts ==
  ASSUME NEW d, IsDesign(d), NEW p, IsPath(p), Exists(p), NEW i \in 0..(SizeOf(p) - 1)
  PROVE  BitAt(p, i, d) \in (IF p.name \in Vhdl THEN StdLogic ELSE Bit4)
<1>1. Selects(p) /\ p.name \in Signals
  BY DEF Exists, Selects
<1>2. Selected(p)[i] \in 0..(Width[p.name] - 1)
  BY <1>1, SelectedFacts, ReachedFacts, WidthAssumption
<1> QED BY <1>1, <1>2 DEF IsDesign, Contents, BitAt

\* The first n bits that a path selects are given some bits.
LEMMA GivenFacts ==
  ASSUME IsDesign(sim), NEW p, Selects(p), p.name \in Signals,
         NEW n \in 0..Reached(p), NEW w,
         NEW how \in {"deposit", "force", "release"},
         how = "release" \/ \A i \in 0..(n - 1) : w[i] \in Bit4
  PROVE  LET d == Put(p.name, Spread(p, n, w), how) IN
         IsDesign(d) /\ SameBut(p, sim, d)
<1>1. n \in Nat /\ n \in 0..SizeOf(p) /\ n <= Reached(p)
  BY ReachedFacts, SelectedFacts
<1>2. Gives(Spread(p, n, w), p, n, w)
  BY <1>1, SpreadGives
<1>3. /\ \A i \in 0..(n - 1) : Spread(p, n, w)[Selected(p)[i]] = w[i]
      /\ DOMAIN Spread(p, n, w) = {Selected(p)[i] : i \in 0..(n - 1)}
  BY <1>2, Zenon DEF Gives
<1>4. DOMAIN Spread(p, n, w) \subseteq Chosen(p)
  BY <1>1, SpreadFacts
<1>5. how # "release" => \A b \in DOMAIN Spread(p, n, w) : Spread(p, n, w)[b] \in Bit4
  BY <1>3
<1> QED BY <1>4, <1>5, PutFacts

\* A write of the first n bits of a value to what a path selects, where the
\* value may be read past its end.
LEMMA WriteFacts ==
  ASSUME IsDesign(sim), NEW p, Selects(p), p.name \in Signals,
         NEW n \in 0..Reached(p), NEW v \in Value, NEW u \in Extensions(v, n),
         NEW how \in {"deposit", "force", "release"}
  PROVE  LET d == Put(p.name, Spread(p, n, u), how) IN
         /\ IsDesign(d) /\ SameBut(p, sim, d)
         /\ n <= MaxWidth => d = Put(p.name, Spread(p, n, v), how)
<1>1. n \in Nat /\ n \in 0..SizeOf(p) /\ n <= Reached(p)
  BY ReachedFacts, SelectedFacts
<1>2. \A i \in 0..(n - 1) : u[i] \in Bit4
  BY <1>1, ExtensionFacts
<1>3. ASSUME n <= MaxWidth
      PROVE  Spread(p, n, u) = Spread(p, n, v)
  <2>1. \A i \in 0..(n - 1) : u[i] = v[i]
    BY <1>1, <1>3, ExtensionFacts, WidthAssumption
  <2> QED BY <1>1, <2>1, SpreadAlike
<1> QED BY <1>2, <1>3, GivenFacts

\* A release gives no values: it is the same as the one of the promise.
LEMMA FreedFacts ==
  ASSUME IsDesign(sim), NEW p, Selects(p), p.name \in Signals,
         NEW n \in 0..Reached(p)
  PROVE  /\ IsDesign(Freed(p, n)) /\ SameBut(p, sim, Freed(p, n))
         /\ \A v : Freed(p, n) = Put(p.name, Spread(p, n, v), "release")
<1>1. n \in 0..SizeOf(p) /\ n <= Reached(p)
  BY ReachedFacts, SelectedFacts
<1>2. \A v : /\ DOMAIN Spread(p, n, v) \subseteq Chosen(p)
             /\ DOMAIN Spread(p, n, v) = {Selected(p)[i] : i \in 0..(n - 1)}
  BY <1>1, SpreadFacts
<1>3. \A v : Freed(p, n) = Put(p.name, Spread(p, n, v), "release")
  BY <1>2, ReleaseFacts DEF Freed
<1>4. /\ IsDesign(Put(p.name, Spread(p, n, value), "release"))
      /\ SameBut(p, sim, Put(p.name, Spread(p, n, value), "release"))
  BY <1>2, PutFacts
<1> QED BY <1>3, <1>4

LEMMA ReadsOnFacts ==
  ASSUME NEW p, p.name \notin Vhdl, NEW v, NEW d, ReadsRight(p, v, d)
  PROVE  ReadsOn(p, v, d)
BY ReadsAsFacts DEF ReadsRight, ReadsOn

\* Reading a Verilog object that fits.
LEMMA VlogReadFacts ==
  ASSUME NEW d, IsDesign(d), NEW p, IsPath(p), Exists(p), p.name \notin Vhdl,
         SizeOf(p) <= MaxWidth, NEW v \in Value, NEW undefined,
         NEW w \in Written(v, [i \in 0..(SizeOf(p) - 1) |-> BitAt(p, i, d)], undefined)
  PROVE  w \in Value /\ ReadsRight(p, w, d)
<1> DEFINE new == [i \in 0..(SizeOf(p) - 1) |-> BitAt(p, i, d)]
<1>1. \A i \in DOMAIN new : new[i] \in Bit4
  BY BitFacts
<1>2. w \in Value /\ \A i \in 0..(MaxWidth - 1) : i \in DOMAIN new => w[i] = new[i]
  <2>1. w \in Written(v, new, undefined)
    OBVIOUS
  <2> HIDE DEF new
  <2> QED BY <1>1, <2>1, WrittenFacts
<1>3. SizeOf(p) \in Nat /\ MaxWidth \in Nat
  BY SelectedFacts, WidthAssumption DEF Exists, Selects
<1>4. \A i \in 0..(SizeOf(p) - 1) : w[i] = BitAt(p, i, d)
  BY <1>2, <1>3
<1> QED BY <1>2, <1>4, ReadsAsFacts DEF ReadsRight

-----------------------------------------------------------------------------
(* VCS and VCS MX                                                          *)

LEMMA VcsDesign ==
  /\ \A p : Vcs!Whole(p) = Whole(p)
  /\ \A p : Vcs!Selected(p) = Selected(p)
  /\ \A p : Vcs!SizeOf(p) = SizeOf(p)
  /\ \A p : Vcs!Exists(p) = Exists(p)
  /\ \A s, new, how : Vcs!Put(s, new, how) = Put(s, new, how)
  /\ \A p, n, v : Vcs!Spread(p, n, v) = Spread(p, n, v)
  /\ \A p, n : Vcs!Freed(p, n) = Freed(p, n)
  /\ \A p, i, d : Vcs!BitAt(p, i, d) = BitAt(p, i, d)
  /\ \A v, n : Vcs!Extensions(v, n) = Extensions(v, n)
  /\ \A v, new, undefined : Vcs!Written(v, new, undefined) = Written(v, new, undefined)
  /\ \A n : Vcs!Chunks(n) = Chunks(n)
  /\ \A n : Vcs!RestOfWords(n) = RestOfWords(n)
<1>1. \A S : Vcs!Cardinality(S) = Cardinality(S)
  BY DEF Vcs!Cardinality, Cardinality
<1>2. \A p : Vcs!Whole(p) = Whole(p)
  BY DEF Vcs!Whole, Whole
<1>3. \A p : Vcs!Selected(p) = Selected(p)
  BY DEF Vcs!Selected, Selected, Vcs!Whole, Whole, Vcs!IsBit, IsBit,
         Vcs!IsSlice, IsSlice
<1>4. \A p : Vcs!SizeOf(p) = SizeOf(p)
  BY <1>3, <1>1 DEF Vcs!SizeOf, SizeOf
<1>5. \A p : Vcs!Exists(p) = Exists(p)
  BY DEF Vcs!Exists, Exists
<1>6. \A s, new, how : Vcs!Put(s, new, how) = Put(s, new, how)
  BY DEF Vcs!Put, Put, Vcs!ValueIn, ValueIn
<1>7. \A p, n, v : Vcs!Spread(p, n, v) = Spread(p, n, v)
  BY DEF Vcs!Spread, Spread, Vcs!Selected, Selected, Vcs!Whole, Whole,
         Vcs!IsBit, IsBit, Vcs!IsSlice, IsSlice
<1>8. \A p, n : Vcs!Freed(p, n) = Freed(p, n)
  BY <1>3, <1>6 DEF Vcs!Freed, Freed
<1>9. \A p, i, d : Vcs!BitAt(p, i, d) = BitAt(p, i, d)
  BY <1>3 DEF Vcs!BitAt, BitAt
<1>10. \A v, n : Vcs!Extensions(v, n) = Extensions(v, n)
  BY DEF Vcs!Extensions, Extensions, Vcs!Bit4, Bit4
<1>11. \A v, new, undefined : Vcs!Written(v, new, undefined) = Written(v, new, undefined)
  BY DEF Vcs!Written, Written, Vcs!Bit4, Bit4
<1>12. \A n : Vcs!Chunks(n) = Chunks(n)
  BY DEF Vcs!Chunks, Chunks
<1>13. \A n : Vcs!RestOfWords(n) = RestOfWords(n)
  BY <1>12 DEF Vcs!RestOfWords, RestOfWords
<1> QED BY <1>2, <1>3, <1>4, <1>5, <1>6, <1>7, <1>8, <1>9, <1>10, <1>11,
           <1>12, <1>13

VcsFound(p, mx) == Exists(p) /\ (p.name \in Vhdl => mx /\ Whole(p))

LEMMA VcsFoundFacts ==
  /\ \A p, mx : Vcs!Found(p, mx) = VcsFound(p, mx)
  /\ \A p, mx : Vcs!Pli(p, mx) =
       IF ~VcsFound(p, mx) THEN "none"
       ELSE IF p.name \in Vhdl THEN "mhpiVhpiPli" ELSE "mhpiVpiPli"
BY VcsDesign DEF Vcs!Found, VcsFound, Vcs!Pli

LEMMA VcsSetVlog ==
  ASSUME Inv, NEW p, IsPath(p), NEW v \in Value, NEW mx,
         NEW how \in {"deposit", "force", "release"},
         Vcs!uvm_hdl_set_vlog(p, v, how, mx)
  PROVE  /\ IsDesign(sim') /\ SameBut(p, sim, sim') /\ ret' \in {0, 1}
         /\ p.name \notin Vhdl /\ (Exists(p) => SizeOf(p) <= MaxWidth) =>
              IF Writable(p)
                THEN ret' = 1 /\ sim' = Put(p.name, Spread(p, SizeOf(p), v), how)
                ELSE ret' = 0
         /\ VcsFound(p, mx) /\ p.name \notin Unpacked =>
              \E u \in Extensions(v, SizeOf(p)) :
                sim' = Put(p.name, Spread(p, SizeOf(p), u), how)
<1>1. CASE VcsFound(p, mx) /\ p.name \notin Unpacked
  <2>1. PICK u \in Extensions(v, SizeOf(p)) :
          sim' = Put(p.name, Spread(p, SizeOf(p), u), how)
    BY <1>1, VcsFoundFacts, VcsDesign
    DEF Vcs!uvm_hdl_set_vlog, Vcs!vector_compat_type
  <2>2. ret' = IF p.name \in ReadOnly THEN 0 ELSE 1
    BY <1>1, VcsFoundFacts DEF Vcs!uvm_hdl_set_vlog, Vcs!vector_compat_type
  <2>3. Selects(p) /\ p.name \in Signals /\ SizeOf(p) \in 0..Reached(p)
    BY <1>1, SelectedFacts, ReachedFacts DEF VcsFound, Exists, Selects
  <2>4. IsDesign(sim') /\ SameBut(p, sim, sim')
    BY <2>1, <2>3, WriteFacts DEF Inv
  <2>5. SizeOf(p) <= MaxWidth => sim' = Put(p.name, Spread(p, SizeOf(p), v), how)
    BY <2>1, <2>3, WriteFacts DEF Inv
  <2> QED BY <1>1, <2>1, <2>2, <2>4, <2>5 DEF Writable, Accessible, VcsFound
<1>2. CASE ~(VcsFound(p, mx) /\ p.name \notin Unpacked)
  <2>1. ret' = 0 /\ sim' = sim
    BY <1>2, VcsFoundFacts DEF Vcs!uvm_hdl_set_vlog, Vcs!vector_compat_type
  <2> QED
    BY <1>2, <2>1, SameFacts DEF Inv, Writable, Accessible, VcsFound
<1> QED BY <1>1, <1>2

LEMMA VcsGetVlog ==
  ASSUME Inv, NEW p, IsPath(p), NEW mx, (p.name \in Vhdl => ~VcsFound(p, mx)),
         Vcs!uvm_hdl_get_vlog(p, mx)
  PROVE  /\ value' \in Value /\ ret' \in {0, 1}
         /\ p.name \notin Vhdl =>
              IF Accessible(p) THEN ret' = 1 /\ ReadsRight(p, value', sim)
              ELSE ret' = 0
<1>1. CASE VcsFound(p, mx) /\ SizeOf(p) <= MaxWidth /\ p.name \notin Unpacked
  <2>1. /\ ret' = 1
        /\ value' \in Written(value, [i \in 0..(SizeOf(p) - 1) |-> BitAt(p, i, sim)],
                              RestOfWords(SizeOf(p)))
    BY <1>1, VcsFoundFacts, VcsDesign
    DEF Vcs!uvm_hdl_get_vlog, Vcs!vector_compat_type
  <2>2. value' \in Value /\ ReadsRight(p, value', sim)
    BY <1>1, <2>1, VlogReadFacts DEF Inv, VcsFound
  <2> QED BY <1>1, <2>1, <2>2 DEF Accessible, VcsFound
<1>2. CASE ~(VcsFound(p, mx) /\ SizeOf(p) <= MaxWidth /\ p.name \notin Unpacked)
  <2>1. ret' = 0 /\ value' = value
    BY <1>2, VcsFoundFacts, VcsDesign DEF Vcs!uvm_hdl_get_vlog, Vcs!vector_compat_type
  <2> QED BY <1>2, <2>1 DEF Inv, Accessible, VcsFound
<1> QED BY <1>1, <1>2

\* A whole VHDL signal is read as promised: what VCS MX makes of the values
\* that are neither 0, 1, X nor Z is for it to choose.
LEMMA VcsGetMhdl ==
  ASSUME Inv, NEW p, IsPath(p), Exists(p), p.name \in Vhdl,
         Vcs!uvm_hdl_get_mhdl(p)
  PROVE  /\ value' \in Value /\ ret' \in {0, 1}
         /\ IF Accessible(p) THEN ret' = 1 /\ ReadsRight(p, value', sim) ELSE ret' = 0
<1> DEFINE n == SizeOf(p)
           inLast == n - (Chunks(n) - 1) * WordBits
<1>1. /\ n \in Nat \ {0} /\ MaxWidth \in Nat \ {0}
      /\ inLast \in 1..n
      /\ p.name \notin Unpacked
  <2>1. n \in Nat \ {0} /\ MaxWidth \in Nat \ {0} /\ p.name \notin Unpacked
    BY SelectedFacts, WidthAssumption, VhdlAssumption DEF Exists, Selects
  <2>2. (Chunks(n) - 1) * WordBits \in 0..(n - 1)
    BY <2>1, ChunksFacts
  <2> QED BY <2>1, <2>2
<1>2. CASE n > MaxWidth
  <2>1. ret' = 0 /\ value' = value
    BY <1>2, VcsDesign DEF Vcs!uvm_hdl_get_mhdl
  <2> QED BY <1>1, <1>2, <2>1 DEF Inv, Accessible
<1>3. CASE ~(n > MaxWidth)
  <2> DEFINE new == [i \in DOMAIN value |->
            CASE i < n -> Vcs!Converted(BitAt(p, i, sim))
              [] i \in RestOfWords(n) -> value[i - inLast]
              [] OTHER -> value[i]]
  <2>1. ret' = 1 /\ value' = new
    BY <1>3, VcsDesign DEF Vcs!uvm_hdl_get_mhdl
  <2>2. \A a : Vcs!Converted(a) \in Bit4
    BY DEF Vcs!Converted, Bit4
  <2>3. DOMAIN value = 0..(MaxWidth - 1) /\ \A i \in DOMAIN value : value[i] \in Bit4
    BY DEF Inv, Value
  <2>4. \A i \in RestOfWords(n) : i \in n..(MaxWidth - 1)
    BY DEF RestOfWords
  <2> HIDE DEF inLast, n
  <2>5. \A i \in n..(MaxWidth - 1) : i - inLast \in 0..(MaxWidth - 1)
    BY <1>1
  <2>6. ASSUME NEW i \in 0..(MaxWidth - 1)
        PROVE  new[i] \in Bit4 /\ (i < n => new[i] = Vcs!Converted(BitAt(p, i, sim)))
    <3>1. CASE i < n
      <4>1. i \notin RestOfWords(n)
        BY <1>1, <2>4, <3>1
      <4> QED BY <2>2, <2>3, <3>1, <4>1
    <3>2. CASE ~(i < n) /\ i \in RestOfWords(n)
      BY <2>3, <2>4, <2>5, <3>2
    <3>3. CASE ~(i < n) /\ i \notin RestOfWords(n)
      BY <2>3, <3>3
    <3> QED BY <3>1, <3>2, <3>3
  <2>7. new \in Value
    BY <2>3, <2>6 DEF Value
  <2>8. \A a : Vcs!Converted(a) \in Promise!ReadsAs(p.name, a)
    <3> TAKE a
    <3>1. CASE a \in {"0", "1"}
      BY <3>1, ReadsAsFacts DEF Vcs!Converted
    <3>2. CASE a \in {"X", "Z"}
      BY <3>2, ReadsAsFacts DEF Vcs!Converted
    <3>3. CASE a \notin {"0", "1", "X", "Z"}
      BY <2>2, <3>3, ReadsAsFacts
    <3> QED BY <3>1, <3>2, <3>3
  <2>9. \A i \in 0..(n - 1) : new[i] = Vcs!Converted(BitAt(p, i, sim))
    <3> HIDE DEF new
    <3>1. \A i \in 0..(n - 1) : i \in 0..(MaxWidth - 1) /\ i < n
      BY <1>1, <1>3
    <3> QED BY <2>6, <3>1
  <2>10. ReadsRight(p, new, sim)
    BY <2>8, <2>9 DEF ReadsRight, n
  <2> QED BY <1>1, <1>3, <2>1, <2>7, <2>10 DEF Accessible, n
<1> QED BY <1>2, <1>3

\* A set of bits has a leftmost one.
LEMMA LeftmostBit ==
  ASSUME NEW n \in Nat, NEW T \in SUBSET 0..n, T # {}
  PROVE  \E m \in T : \A k \in T : k <= m
<1> DEFINE R == {p \in Nat \X Nat : p[1] < p[2]}
           S == {n - k : k \in T}
<1>1. IsWellFoundedOn(R, Nat)
  BY NatLessThanWellFounded DEF OpToRel
<1>2. S \subseteq Nat /\ S # {}
  <2>1. \A k \in T : n - k \in Nat
    OBVIOUS
  <2>2. PICK k \in T : TRUE
    OBVIOUS
  <2>3. n - k \in S
    OBVIOUS
  <2> QED BY <2>1, <2>3
<1>3. \A l, m \in S : <<l, m>> \notin R => m <= l
  BY <1>2, SMT
<1> HIDE DEF R, S
<1>4. PICK m \in S : \A l \in S : <<l, m>> \notin R
  BY <1>1, <1>2, WFMin
<1>5. PICK i \in T : m = n - i
  BY DEF S
<1>6. \A k \in T : n - k \in S
  BY DEF S
<1>7. \A k \in T : n - i <= n - k
  BY <1>3, <1>4, <1>5, <1>6
<1>8. \A k \in T : k <= i
  BY <1>7
<1> QED BY <1>8

\* uvm_hdl_dtob gives back a value that is two-valued and has no 1 beyond
\* the signal's bits.
LEMMA DigitsFacts ==
  ASSUME NEW n \in Nat \ {0}, NEW v
  PROVE  /\ \A i \in 0..(n - 1) : Vcs!Digits(v, n)[i] \in {"0", "1"}
         /\ (/\ DOMAIN v = 0..(MaxWidth - 1) /\ n <= MaxWidth
             /\ \A i \in 0..(n - 1) : v[i] \in {"0", "1"}
             /\ \A i \in RestOfWords(n) : v[i] \in {"0", "z"}) =>
              \A i \in 0..(n - 1) : Vcs!Digits(v, n)[i] = v[i]
<1> DEFINE low == (Chunks(n) - 1) * WordBits
           room == n - low
           ones == {i \in low..(low + WordBits - 1) : i \in DOMAIN v /\ Vcs!Aval(v[i])}
           count == IF ones = {} THEN 1
                    ELSE (CHOOSE i \in ones : \A j \in ones : j <= i) - low + 1
           skipped == IF count > room THEN count - room ELSE 0
           digits == [i \in 0..(n - 1) |->
              IF Vcs!Aval(v[IF i < low THEN i ELSE i + skipped]) THEN "1" ELSE "0"]
<1>1. Vcs!Digits(v, n) = digits
  BY VcsDesign DEF Vcs!Digits
<1>2. /\ low \in 0..(n - 1) /\ room \in 1..n
      /\ n <= low + WordBits /\ Chunks(n) * WordBits = low + WordBits
      /\ MaxWidth \in Nat /\ WordBits \in Nat
  <2>1. low \in 0..(n - 1) /\ MaxWidth \in Nat /\ WordBits \in Nat
    BY ChunksFacts, WidthAssumption
  <2>2. n <= Chunks(n) * WordBits /\ Chunks(n) * WordBits = low + WordBits
    BY ChunksFacts
  <2> HIDE DEF low
  <2> QED BY <2>1, <2>2
<1>3. ASSUME DOMAIN v = 0..(MaxWidth - 1), n <= MaxWidth,
             \A i \in 0..(n - 1) : v[i] \in {"0", "1"},
             \A i \in RestOfWords(n) : v[i] \in {"0", "z"},
             NEW k \in 0..(n - 1)
      PROVE  Vcs!Digits(v, n)[k] = v[k]
  <2>1. ones \subseteq low..(n - 1)
    <3> SUFFICES ASSUME NEW i \in ones, i >= n PROVE FALSE
      BY <1>2
    <3> HIDE DEF low
    <3>1. i \in 0..(MaxWidth - 1) /\ i \in n..(MaxWidth - 1) /\ i < low + WordBits
      BY <1>2, <1>3
    <3>2. i \in RestOfWords(n)
      BY <1>2, <3>1 DEF RestOfWords
    <3>3. v[i] \in {"0", "z"} /\ Vcs!Aval(v[i])
      BY <1>3, <3>2
    <3> QED BY <3>3 DEF Vcs!Aval
  <2> HIDE DEF low, ones
  <2>2. count <= room /\ count \in Int
    <3>1. CASE ones = {}
      BY <1>2, <3>1
    <3>2. CASE ones # {}
      <4>1. \E m \in ones : \A j \in ones : j <= m
        <5>1. n - 1 \in Nat /\ ones \in SUBSET 0..(n - 1)
          BY <1>2, <2>1
        <5> QED BY <3>2, <5>1, LeftmostBit
      <4> DEFINE m == CHOOSE i \in ones : \A j \in ones : j <= i
      <4>2. m \in ones
        BY <4>1
      <4>3. count = m - low + 1
        BY <3>2
      <4> HIDE DEF m, count
      <4>4. m \in low..(n - 1)
        BY <2>1, <4>2
      <4> QED BY <1>2, <4>3, <4>4
    <3> QED BY <3>1, <3>2
  <2> HIDE DEF count, room
  <2>3. skipped = 0
    BY <1>2, <2>2
  <2> HIDE DEF skipped
  <2>4. (IF k < low THEN k ELSE k + skipped) = k
    BY <1>2, <2>3
  <2>5. digits[k] = IF Vcs!Aval(v[k]) THEN "1" ELSE "0"
    BY <2>4
  <2>6. v[k] \in {"0", "1"}
    BY <1>3
  <2> QED BY <1>1, <2>5, <2>6 DEF Vcs!Aval
<1>4. \A i \in 0..(n - 1) : digits[i] \in {"0", "1"}
  OBVIOUS
<1> HIDE DEF digits
<1> QED BY <1>1, <1>3, <1>4

LEMMA VcsSetMhdl ==
  ASSUME Inv, NEW p, IsPath(p), Exists(p), p.name \in Vhdl, NEW v \in Value,
         NEW how \in {"deposit", "force", "release"},
         Vcs!uvm_hdl_set_mhdl(p, v, how)
  PROVE  /\ IsDesign(sim') /\ SameBut(p, sim, sim') /\ ret' \in {0, 1}
         /\ (/\ SizeOf(p) <= MaxWidth
             /\ \A i \in 0..(SizeOf(p) - 1) : v[i] \in {"0", "1"}
             /\ \A i \in RestOfWords(SizeOf(p)) : v[i] \in {"0", "z"}) =>
              IF Writable(p)
                THEN ret' = 1 /\ sim' = Put(p.name, Spread(p, SizeOf(p), v), how)
                ELSE ret' = 0
<1> DEFINE n == SizeOf(p)
<1>1. /\ Selects(p) /\ p.name \in Signals /\ p.name \notin Unpacked
      /\ n \in Nat \ {0} /\ n \in 0..Reached(p) /\ n \in 0..SizeOf(p)
  BY SelectedFacts, ReachedFacts, VhdlAssumption DEF Exists, Selects
<1>2. PICK u \in Extensions(v, n) : sim' = Put(p.name, Spread(p, n, Vcs!Digits(u, n)), how)
  BY VcsDesign DEF Vcs!uvm_hdl_set_mhdl
<1>3. ret' = IF p.name \in ReadOnly THEN 0 ELSE 1
  BY DEF Vcs!uvm_hdl_set_mhdl
<1>4. IsDesign(sim') /\ SameBut(p, sim, sim')
  <2>1. \A i \in 0..(n - 1) : Vcs!Digits(u, n)[i] \in Bit4
    BY <1>1, DigitsFacts DEF Bit4
  <2> QED BY <1>1, <1>2, <2>1, GivenFacts DEF Inv
<1>5. ASSUME n <= MaxWidth, \A i \in 0..(n - 1) : v[i] \in {"0", "1"},
             \A i \in RestOfWords(n) : v[i] \in {"0", "z"}
      PROVE  sim' = Put(p.name, Spread(p, n, v), how)
  <2>1. DOMAIN u = 0..(MaxWidth - 1)
    BY <1>1, <1>5, ExtensionFacts
  <2>2. \A i \in 0..(MaxWidth - 1) : u[i] = v[i]
    BY <1>1, ExtensionFacts
  <2>3. \A i \in RestOfWords(n) : i \in 0..(MaxWidth - 1)
    BY <1>1, WidthAssumption DEF RestOfWords
  <2>4. \A i \in 0..(n - 1) : i \in 0..(MaxWidth - 1)
    BY <1>1, <1>5, WidthAssumption
  <2>5. \A i \in 0..(n - 1) : Vcs!Digits(u, n)[i] = u[i]
    <3> HIDE DEF n
    <3>1. \A i \in 0..(n - 1) : u[i] \in {"0", "1"}
      BY <1>5, <2>2, <2>4
    <3>2. \A i \in RestOfWords(n) : u[i] \in {"0", "z"}
      BY <1>5, <2>2, <2>3
    <3> QED BY <1>1, <1>5, <2>1, <3>1, <3>2, DigitsFacts
  <2>6. \A i \in 0..(n - 1) : Vcs!Digits(u, n)[i] = v[i]
    BY <2>2, <2>4, <2>5
  <2>7. Spread(p, n, Vcs!Digits(u, n)) = Spread(p, n, v)
    BY <1>1, <2>6, SpreadAlike
  <2> QED BY <1>2, <2>7
<1> QED BY <1>1, <1>3, <1>4, <1>5 DEF Writable, Accessible

LEMMA VcsFree ==
  ASSUME Inv, NEW p, IsPath(p), Exists(p), Vcs!mhpi_release_force(p)
  PROVE  /\ IsDesign(sim') /\ SameBut(p, sim, sim') /\ ret' \in {0, 1}
         /\ p.name \in Vhdl /\ SizeOf(p) <= MaxWidth =>
              IF Writable(p)
                THEN /\ ret' = 1
                     /\ sim' = Put(p.name, Spread(p, SizeOf(p), value), "release")
                ELSE ret' = 0
<1>1. /\ Selects(p) /\ p.name \in Signals
      /\ SizeOf(p) \in 0..Reached(p)
  BY SelectedFacts, ReachedFacts DEF Exists, Selects
<1>2. sim' = Freed(p, SizeOf(p)) /\ ret' = IF p.name \in ReadOnly THEN 0 ELSE 1
  BY VcsDesign DEF Vcs!mhpi_release_force
<1>3. p.name \in Vhdl => p.name \notin Unpacked
  BY VhdlAssumption
<1>4. /\ IsDesign(sim') /\ SameBut(p, sim, sim')
      /\ sim' = Put(p.name, Spread(p, SizeOf(p), value), "release")
  BY <1>1, <1>2, FreedFacts DEF Inv
<1> QED BY <1>2, <1>3, <1>4 DEF Writable, Accessible

LEMMA VcsSupports ==
  ASSUME NEW c \in Calls, simulator \in {"vcs", "vcsmx"}, Supports(simulator, c)
  PROVE  LET n == SizeOf(c.path) IN
         /\ c.op # "release_and_read"
         /\ c.op \in {"deposit", "force", "release"} /\ Exists(c.path) => n <= MaxWidth
         /\ c.path.name \in Vhdl =>
              /\ simulator = "vcsmx" /\ Whole(c.path)
              /\ c.op \in {"deposit", "force"} =>
                   /\ \A i \in 0..(n - 1) : c.arg[i] \in {"0", "1"}
                   /\ \A i \in RestOfWords(n) : c.arg[i] \in {"0", "z"}
<1>1. c.op # "release_and_read"
  BY DEF Supports, NeverReads
<1>2. ASSUME c.op \in {"deposit", "force", "release"}, Exists(c.path)
      PROVE  SizeOf(c.path) <= MaxWidth
  <2>1. Exists(c.path) => SizeOf(c.path) \in Nat /\ MaxWidth \in Nat
    BY CallFacts, SelectedFacts, WidthAssumption
  <2> QED BY <1>2, <2>1 DEF Supports, WritesUnsized, Sets
<1>3. ASSUME c.path.name \in Vhdl
      PROVE  VhdlAsPromised(simulator, c)
  BY <1>3 DEF Supports
<1>4. ASSUME c.path.name \in Vhdl
      PROVE  simulator = "vcsmx"
  BY <1>3, <1>4 DEF VhdlAsPromised
<1> QED BY <1>1, <1>2, <1>3, <1>4 DEF VhdlAsPromised

LEMMA VcsCheck ==
  ASSUME Inv, NEW c \in Calls, simulator \in {"vcs", "vcsmx"}, c.op = "check",
         Vcs!uvm_hdl_check_path(c.path, simulator = "vcsmx")
  PROVE  Outcome(c)
<1> DEFINE p == c.path
           mx == simulator = "vcsmx"
<1>1. /\ ret' = IF VcsFound(p, mx) THEN 1 ELSE 0
      /\ sim' = sim /\ value' = value /\ ended' = ended
  BY VcsFoundFacts DEF Vcs!uvm_hdl_check_path
<1>2. ASSUME Supports(simulator, c)
      PROVE  Promise!Promised(c)
  <2>1. VcsFound(p, mx) <=> Exists(p)
    BY <1>2, VcsSupports DEF VcsFound
  <2> QED BY <1>1, <2>1, CheckPromised
<1>3. Confined(c) /\ Anyway(c)
  <2>1. ~Exists(p) => ret' = 0
    BY <1>1 DEF VcsFound
  <2> QED BY <1>1, <2>1, SameFacts DEF Inv, Confined, Anyway
<1> QED BY <1>1, <1>2, <1>3 DEF Outcome, Inv

LEMMA VcsRead ==
  ASSUME Inv, NEW c \in Calls, simulator \in {"vcs", "vcsmx"}, c.op = "read",
         Vcs!uvm_hdl_read(c.path, simulator = "vcsmx")
  PROVE  Outcome(c)
<1> DEFINE p == c.path
           mx == simulator = "vcsmx"
<1>1. sim' = sim /\ ended' = ended /\ IsPath(p)
  BY CallFacts DEF Vcs!uvm_hdl_read
<1>2. /\ value' \in Value /\ ret' \in {0, 1}
      /\ (p.name \in Vhdl => mx /\ Whole(p)) =>
           IF Accessible(p) THEN ret' = 1 /\ ReadsRight(p, value', sim) ELSE ret' = 0
  <2>1. CASE mx /\ VcsFound(p, mx) /\ p.name \in Vhdl
    <3>1. Vcs!uvm_hdl_get_mhdl(p)
      BY <2>1, VcsFoundFacts DEF Vcs!uvm_hdl_read
    <3> QED BY <1>1, <2>1, <3>1, VcsGetMhdl DEF VcsFound
  <2>2. CASE mx /\ ~VcsFound(p, mx)
    <3>1. ret' = 0 /\ value' = value
      BY <2>2, VcsFoundFacts DEF Vcs!uvm_hdl_read
    <3> QED BY <2>2, <3>1 DEF Inv, Accessible, VcsFound
  <2>3. CASE IF mx THEN VcsFound(p, mx) /\ p.name \notin Vhdl ELSE TRUE
    <3>1. Vcs!uvm_hdl_get_vlog(p, mx)
      BY <2>3, VcsFoundFacts DEF Vcs!uvm_hdl_read
    <3>2. p.name \in Vhdl => ~VcsFound(p, mx)
      BY <2>3 DEF VcsFound
    <3> QED BY <1>1, <2>3, <3>1, <3>2, VcsGetVlog
  <2> QED BY <2>1, <2>2, <2>3
<1>3. ASSUME Supports(simulator, c)
      PROVE  Promise!Promised(c)
  BY <1>1, <1>2, <1>3, VcsSupports, ReadPromised
<1>4. Confined(c) /\ Anyway(c)
  <2>1. /\ p.name \notin Vhdl /\ ret' = 1 => ReadsOn(p, value', sim)
        /\ ~Exists(p) /\ p.name \notin Vhdl => ret' = 0
    BY <1>2, ReadsOnFacts DEF Accessible
  <2> QED BY <1>1, <1>2, <2>1, SameFacts DEF Inv, Confined, Anyway
<1> QED BY <1>1, <1>2, <1>3, <1>4 DEF Outcome, Inv

\* What the functions that write leave when they do what the promise asks for
\* in every call the simulator supports.
LEMMA SetOutcome ==
  ASSUME Inv, NEW c \in Calls, c.op \in {"deposit", "force", "release"},
         UNCHANGED value, ended' \in BOOLEAN, IsDesign(sim'),
         SameBut(c.path, sim, sim'), ret' \in {0, 1},
         Supports(simulator, c) =>
           /\ ended' = ended
           /\ IF Writable(c.path)
                THEN /\ ret' = 1
                     /\ sim' = Put(c.path.name,
                                   Spread(c.path, SizeOf(c.path),
                                          IF c.op = "release" THEN value ELSE c.arg),
                                   c.op)
                ELSE ret' = 0,
         Reaches(simulator, c.path) =>
           \E u \in Extensions(IF c.op = "release" THEN value ELSE c.arg,
                               SizeOf(c.path)) :
             sim' = Put(c.path.name, Spread(c.path, SizeOf(c.path), u), c.op),
         ~Exists(c.path) /\ c.path.name \notin Vhdl => ret' = 0
  PROVE  Outcome(c)
<1>1. ASSUME Supports(simulator, c)
      PROVE  Promise!Promised(c)
  BY <1>1, SetPromised
<1>2. Confined(c)
  BY DEF Inv, Confined
<1>3. ASSUME Reaches(simulator, c.path), c.op = "release"
      PROVE  sim' = Freed(c.path, SizeOf(c.path))
  <2>1. PICK u : sim' = Put(c.path.name, Spread(c.path, SizeOf(c.path), u), "release")
    BY <1>3
  <2>2. /\ Selects(c.path) /\ c.path.name \in Signals
        /\ SizeOf(c.path) \in 0..Reached(c.path)
    BY <1>3, CallFacts, SelectedFacts, ReachedFacts DEF Reaches
  <2> QED BY <2>1, <2>2, FreedFacts DEF Inv
<1>4. Anyway(c)
  <2>1. CASE c.op = "release"
    BY <1>3, <2>1 DEF Anyway
  <2>2. CASE c.op # "release"
    BY <2>2 DEF Anyway
  <2> QED BY <2>1, <2>2
<1> QED BY <1>1, <1>2, <1>4 DEF Outcome, Inv

LEMMA VcsSet ==
  ASSUME Inv, NEW c \in Calls, simulator \in {"vcs", "vcsmx"},
         c.op \in {"deposit", "force"},
         Vcs!Set(c.path, c.arg, c.op, simulator = "vcsmx")
  PROVE  Outcome(c)
<1> DEFINE p == c.path
           n == SizeOf(p)
           mx == simulator = "vcsmx"
<1>1. /\ value' = value /\ ended' = ended /\ IsPath(p) /\ c.arg \in Value
      /\ c.op \in {"deposit", "force", "release"}
  BY CallFacts DEF Vcs!Set
<1>2. /\ IsDesign(sim') /\ SameBut(p, sim, sim') /\ ret' \in {0, 1}
      /\ Supports(simulator, c) =>
           IF Writable(p)
             THEN ret' = 1 /\ sim' = Put(p.name, Spread(p, n, c.arg), c.op)
             ELSE ret' = 0
      /\ Exists(p) /\ p.name \notin Vhdl \cup Unpacked =>
           \E u \in Extensions(c.arg, n) : sim' = Put(p.name, Spread(p, n, u), c.op)
      /\ ~Exists(p) /\ p.name \notin Vhdl => ret' = 0
  <2>1. CASE mx /\ VcsFound(p, mx) /\ p.name \in Vhdl
    <3>1. Vcs!uvm_hdl_set_mhdl(p, c.arg, c.op) /\ Exists(p)
      BY <2>1, VcsFoundFacts DEF Vcs!Set, VcsFound
    <3>2. Supports(simulator, c) =>
            /\ n <= MaxWidth
            /\ \A i \in 0..(n - 1) : c.arg[i] \in {"0", "1"}
            /\ \A i \in RestOfWords(n) : c.arg[i] \in {"0", "z"}
      BY <2>1, <3>1, VcsSupports
    <3> HIDE DEF n
    <3> QED BY <1>1, <2>1, <3>1, <3>2, VcsSetMhdl DEF n
  <2>2. CASE mx /\ ~VcsFound(p, mx)
    <3>1. ret' = 0 /\ sim' = sim
      BY <2>2, VcsFoundFacts DEF Vcs!Set
    <3>2. Supports(simulator, c) => ~Exists(p)
      BY <2>2, VcsSupports DEF VcsFound
    <3> QED BY <2>2, <3>1, <3>2, SameFacts DEF Inv, Writable, Accessible, VcsFound
  <2>3. CASE IF mx THEN VcsFound(p, mx) /\ p.name \notin Vhdl ELSE TRUE
    <3>1. Vcs!uvm_hdl_set_vlog(p, c.arg, c.op, mx)
      BY <2>3, VcsFoundFacts DEF Vcs!Set
    <3>2. Supports(simulator, c) =>
            p.name \notin Vhdl /\ (Exists(p) => n <= MaxWidth)
      BY <2>3, VcsSupports
    <3>3. /\ IsDesign(sim') /\ SameBut(p, sim, sim') /\ ret' \in {0, 1}
          /\ p.name \notin Vhdl /\ (Exists(p) => n <= MaxWidth) =>
               IF Writable(p)
                 THEN ret' = 1 /\ sim' = Put(p.name, Spread(p, n, c.arg), c.op)
                 ELSE ret' = 0
          /\ VcsFound(p, mx) /\ p.name \notin Unpacked =>
               \E u \in Extensions(c.arg, n) : sim' = Put(p.name, Spread(p, n, u), c.op)
      BY <1>1, <3>1, VcsSetVlog
    <3>4. ~Exists(p) /\ p.name \notin Vhdl => ret' = 0
      BY <3>3 DEF Writable, Accessible
    <3> QED BY <3>2, <3>3, <3>4 DEF VcsFound
  <2> QED BY <2>1, <2>2, <2>3
<1>3. Reaches(simulator, p) => Exists(p) /\ p.name \notin Vhdl \cup Unpacked
  BY DEF Reaches
<1> QED BY <1>1, <1>2, <1>3, SetOutcome DEF Inv

LEMMA VcsRelease ==
  ASSUME Inv, NEW c \in Calls, simulator \in {"vcs", "vcsmx"}, c.op = "release",
         Vcs!uvm_hdl_release(c.path, simulator = "vcsmx")
  PROVE  Outcome(c)
<1> DEFINE p == c.path
           n == SizeOf(p)
           mx == simulator = "vcsmx"
<1>1. value' = value /\ ended' = ended /\ IsPath(p) /\ value \in Value
  BY CallFacts DEF Vcs!uvm_hdl_release, Inv
<1>2. /\ IsDesign(sim') /\ SameBut(p, sim, sim') /\ ret' \in {0, 1}
      /\ Supports(simulator, c) =>
           IF Writable(p)
             THEN ret' = 1 /\ sim' = Put(p.name, Spread(p, n, value), "release")
             ELSE ret' = 0
      /\ Exists(p) /\ p.name \notin Vhdl \cup Unpacked =>
           \E u \in Extensions(value, n) : sim' = Put(p.name, Spread(p, n, u), "release")
      /\ ~Exists(p) /\ p.name \notin Vhdl => ret' = 0
  <2>1. CASE mx /\ VcsFound(p, mx) /\ p.name \in Vhdl
    <3>1. Vcs!mhpi_release_force(p) /\ Exists(p)
      BY <2>1, VcsFoundFacts DEF Vcs!uvm_hdl_release, VcsFound
    <3>2. Supports(simulator, c) => n <= MaxWidth
      BY <2>1, <3>1, VcsSupports
    <3> QED BY <1>1, <2>1, <3>1, <3>2, VcsFree
  <2>2. CASE mx /\ ~VcsFound(p, mx)
    <3>1. ret' = 0 /\ sim' = sim
      BY <2>2, VcsFoundFacts DEF Vcs!uvm_hdl_release
    <3>2. Supports(simulator, c) => ~Exists(p)
      BY <2>2, VcsSupports DEF VcsFound
    <3> QED BY <2>2, <3>1, <3>2, SameFacts DEF Inv, Writable, Accessible, VcsFound
  <2>3. CASE IF mx THEN VcsFound(p, mx) /\ p.name \notin Vhdl ELSE TRUE
    <3>1. Vcs!uvm_hdl_set_vlog(p, value, "release", mx)
      BY <2>3, VcsFoundFacts DEF Vcs!uvm_hdl_release
    <3>2. Supports(simulator, c) =>
            p.name \notin Vhdl /\ (Exists(p) => n <= MaxWidth)
      BY <2>3, VcsSupports
    <3>3. /\ IsDesign(sim') /\ SameBut(p, sim, sim') /\ ret' \in {0, 1}
          /\ p.name \notin Vhdl /\ (Exists(p) => n <= MaxWidth) =>
               IF Writable(p)
                 THEN ret' = 1 /\ sim' = Put(p.name, Spread(p, n, value), "release")
                 ELSE ret' = 0
          /\ VcsFound(p, mx) /\ p.name \notin Unpacked =>
               \E u \in Extensions(value, n) : sim' = Put(p.name, Spread(p, n, u), "release")
      BY <1>1, <3>1, VcsSetVlog
    <3>4. ~Exists(p) /\ p.name \notin Vhdl => ret' = 0
      BY <3>3 DEF Writable, Accessible
    <3> QED BY <3>2, <3>3, <3>4 DEF VcsFound
  <2> QED BY <2>1, <2>2, <2>3
<1>3. Reaches(simulator, p) => Exists(p) /\ p.name \notin Vhdl \cup Unpacked
  BY DEF Reaches
<1> QED BY <1>1, <1>2, <1>3, SetOutcome DEF Inv

LEMMA VcsReleaseAndRead ==
  ASSUME Inv, NEW c \in Calls, simulator \in {"vcs", "vcsmx"},
         c.op = "release_and_read",
         Vcs!uvm_hdl_release_and_read(c.path, simulator = "vcsmx")
  PROVE  Outcome(c)
<1> DEFINE p == c.path
           mx == simulator = "vcsmx"
<1>1. value' = value /\ ended' = ended /\ IsPath(p) /\ value \in Value
  BY CallFacts DEF Vcs!uvm_hdl_release_and_read, Inv
<1>2. /\ IsDesign(sim') /\ SameBut(p, sim, sim') /\ ret' \in {0, 1}
      /\ Exists(p) /\ p.name \notin Vhdl \cup Unpacked => sim' = Freed(p, SizeOf(p))
      /\ ~Exists(p) /\ p.name \notin Vhdl => ret' = 0
  <2>1. CASE mx /\ VcsFound(p, mx)
    <3>1. Vcs!mhpi_release_force(p) /\ Exists(p)
      BY <2>1, VcsFoundFacts DEF Vcs!uvm_hdl_release_and_read, VcsFound
    <3>2. sim' = Freed(p, SizeOf(p))
      BY <3>1, VcsDesign DEF Vcs!mhpi_release_force
    <3> QED BY <1>1, <3>1, <3>2, VcsFree
  <2>2. CASE mx /\ ~VcsFound(p, mx)
    <3>1. ret' = 0 /\ sim' = sim
      BY <2>2, VcsFoundFacts DEF Vcs!uvm_hdl_release_and_read
    <3> QED BY <2>2, <3>1, SameFacts DEF Inv, VcsFound
  <2>3. CASE ~mx
    <3>1. Vcs!uvm_hdl_set_vlog(p, value, "release", mx)
      BY <2>3 DEF Vcs!uvm_hdl_release_and_read
    <3>2. /\ IsDesign(sim') /\ SameBut(p, sim, sim') /\ ret' \in {0, 1}
          /\ p.name \notin Vhdl /\ ~Exists(p) => ret' = 0
          /\ VcsFound(p, mx) /\ p.name \notin Unpacked =>
               \E u : sim' = Put(p.name, Spread(p, SizeOf(p), u), "release")
      BY <1>1, <3>1, VcsSetVlog DEF Writable, Accessible
    <3>3. ASSUME Exists(p)
          PROVE  \A u : Freed(p, SizeOf(p)) = Put(p.name, Spread(p, SizeOf(p), u), "release")
      <4>1. Selects(p) /\ p.name \in Signals /\ SizeOf(p) \in 0..Reached(p)
        BY <1>1, <3>3, SelectedFacts, ReachedFacts DEF Exists, Selects
      <4> QED BY <4>1, FreedFacts DEF Inv
    <3> QED BY <3>2, <3>3 DEF VcsFound
  <2> QED BY <2>1, <2>2, <2>3
<1>3. ~Supports(simulator, c)
  BY VcsSupports
<1>4. Confined(c) /\ Anyway(c)
  <2>1. Reaches(simulator, p) => Exists(p) /\ p.name \notin Vhdl \cup Unpacked
    BY DEF Reaches
  <2> QED BY <1>1, <1>2, <2>1 DEF Inv, Confined, Anyway
<1> QED BY <1>1, <1>2, <1>3, <1>4 DEF Outcome, Inv

LEMMA VcsOutcome ==
  ASSUME Inv, NEW c \in Calls, CallVcs(c)
  PROVE  Outcome(c) /\ partsel' \in BOOLEAN
<1>1. simulator \in {"vcs", "vcsmx"} /\ partsel' \in BOOLEAN
  BY DEF CallVcs, Inv
<1>2. CASE c.op = "check"
  BY <1>1, <1>2, VcsCheck DEF CallVcs
<1>3. CASE c.op = "read"
  BY <1>1, <1>3, VcsRead DEF CallVcs
<1>4. CASE c.op \in {"deposit", "force"}
  BY <1>1, <1>4, VcsSet DEF CallVcs, Vcs!uvm_hdl_deposit, Vcs!uvm_hdl_force
<1>5. CASE c.op = "release"
  BY <1>1, <1>5, VcsRelease DEF CallVcs
<1>6. CASE c.op = "release_and_read"
  BY <1>1, <1>6, VcsReleaseAndRead DEF CallVcs
<1> QED BY <1>1, <1>2, <1>3, <1>4, <1>5, <1>6, CallFacts

-----------------------------------------------------------------------------
(* Xcelium                                                                 *)

\* The bits that a loop reaches are bits of the design.
LEMMA ReachedBits ==
  ASSUME NEW d, IsDesign(d), NEW p, Selects(p), p.name \in Signals,
         NEW i \in 0..(Reached(p) - 1)
  PROVE  BitAt(p, i, d) \in (IF p.name \in Vhdl THEN StdLogic ELSE Bit4)
<1>1. i \in 0..(SizeOf(p) - 1)
  BY ReachedFacts, SelectedFacts
<1>2. Selected(p)[i] \in Nat /\ Selected(p)[i] < Width[p.name]
  BY <1>1, SelectedFacts, ReachedFacts
<1>3. Selected(p)[i] \in 0..(Width[p.name] - 1)
  BY <1>2, WidthAssumption
<1> QED BY <1>3 DEF IsDesign, Contents, BitAt

LEMMA XceliumDesign ==
  /\ \A p : Xcelium!Whole(p) = Whole(p)
  /\ \A p : Xcelium!IsSlice(p) = IsSlice(p)
  /\ \A p : Xcelium!Selected(p) = Selected(p)
  /\ \A p : Xcelium!SizeOf(p) = SizeOf(p)
  /\ \A p : Xcelium!Exists(p) = Exists(p)
  /\ \A p : Xcelium!Reached(p) = Reached(p)
  /\ \A s, new, how : Xcelium!Put(s, new, how) = Put(s, new, how)
  /\ \A p, n, v : Xcelium!Spread(p, n, v) = Spread(p, n, v)
  /\ \A p, n : Xcelium!Freed(p, n) = Freed(p, n)
  /\ \A p, i, d : Xcelium!BitAt(p, i, d) = BitAt(p, i, d)
  /\ \A v, n : Xcelium!Extensions(v, n) = Extensions(v, n)
  /\ \A v, new, undefined : Xcelium!Written(v, new, undefined) = Written(v, new, undefined)
  /\ \A n : Xcelium!Chunks(n) = Chunks(n)
  /\ \A n : Xcelium!RestOfWords(n) = RestOfWords(n)
<1>1. \A S : Xcelium!Cardinality(S) = Cardinality(S)
  BY DEF Xcelium!Cardinality, Cardinality
<1>2. \A p : Xcelium!Whole(p) = Whole(p)
  BY DEF Xcelium!Whole, Whole
<1>3. \A p : Xcelium!IsSlice(p) = IsSlice(p)
  BY DEF Xcelium!IsSlice, IsSlice
<1>4. \A p : Xcelium!Selected(p) = Selected(p)
  BY DEF Xcelium!Selected, Selected, Xcelium!Whole, Whole, Xcelium!IsBit,
         IsBit, Xcelium!IsSlice, IsSlice
<1>5. \A p : Xcelium!SizeOf(p) = SizeOf(p)
  BY <1>4, <1>1 DEF Xcelium!SizeOf, SizeOf
<1>6. \A p : Xcelium!Exists(p) = Exists(p)
  BY DEF Xcelium!Exists, Exists
<1>7. \A p : Xcelium!Reached(p) = Reached(p)
  BY <1>4, <1>1 DEF Xcelium!Reached, Reached
<1>8. \A s, new, how : Xcelium!Put(s, new, how) = Put(s, new, how)
  BY DEF Xcelium!Put, Put, Xcelium!ValueIn, ValueIn
<1>9. \A p, n, v : Xcelium!Spread(p, n, v) = Spread(p, n, v)
  BY DEF Xcelium!Spread, Spread, Xcelium!Selected, Selected, Xcelium!Whole,
         Whole, Xcelium!IsBit, IsBit, Xcelium!IsSlice, IsSlice
<1>10. \A p, n : Xcelium!Freed(p, n) = Freed(p, n)
  BY <1>4, <1>8 DEF Xcelium!Freed, Freed
<1>11. \A p, i, d : Xcelium!BitAt(p, i, d) = BitAt(p, i, d)
  BY <1>4 DEF Xcelium!BitAt, BitAt
<1>12. \A v, n : Xcelium!Extensions(v, n) = Extensions(v, n)
  BY DEF Xcelium!Extensions, Extensions, Xcelium!Bit4, Bit4
<1>13. \A v, new, undefined : Xcelium!Written(v, new, undefined) = Written(v, new, undefined)
  BY DEF Xcelium!Written, Written, Xcelium!Bit4, Bit4
<1>14. \A n : Xcelium!Chunks(n) = Chunks(n)
  BY DEF Xcelium!Chunks, Chunks
<1>15. \A n : Xcelium!RestOfWords(n) = RestOfWords(n)
  BY <1>14 DEF Xcelium!RestOfWords, RestOfWords
<1> QED BY <1>2, <1>3, <1>4, <1>5, <1>6, <1>7, <1>8, <1>9, <1>10, <1>11,
           <1>12, <1>13, <1>14, <1>15

XceliumFound(p) == Exists(p) /\ ~IsSlice(p) /\ (p.name \in Vhdl => Whole(p))

LEMMA XceliumFoundFacts ==
  ASSUME NEW p
  PROVE  /\ Xcelium!Found(p) = XceliumFound(p)
         /\ XceliumFound(p) /\ p.name \in Vhdl => Xcelium!Language(p) = {"vhpiVHDL"}
         /\ XceliumFound(p) /\ p.name \notin Vhdl => Xcelium!Language(p) = {"vhpiVerilog"}
BY XceliumDesign DEF Xcelium!Found, XceliumFound, Xcelium!Language

LEMMA XceliumSupports ==
  ASSUME NEW c \in Calls, simulator = "xcelium", Supports(simulator, c)
  PROVE  LET p == c.path
             n == SizeOf(p) IN
         /\ c.op \in {"check", "release_and_read"} => ~IsSlice(p)
         /\ c.op = "read" /\ IsSlice(p) => n <= MaxWidth
         /\ c.op \in {"deposit", "force", "release", "release_and_read"} =>
              p.name \notin ReadOnly /\ (Exists(p) => n <= MaxWidth)
         /\ c.op # "check" /\ ~IsSlice(p) => Exists(p)
         /\ p.name \in Vhdl =>
              /\ Whole(p)
              /\ c.op # "check" => n <= MaxWidth
              /\ c.op \in {"read", "release_and_read"} => n <= WordBits
<1> DEFINE p == c.path
           n == SizeOf(p)
<1>1. MaxWidth \in Nat /\ WordBits \in Nat
  BY WidthAssumption
<1>2. IsPath(p) /\ (Exists(p) \/ IsSlice(p) => n \in Nat)
  BY CallFacts, PathKinds, SelectedFacts DEF Selects
<1>3. /\ c.op \in {"check", "release_and_read"} => ~IsSlice(p)
      /\ c.op = "read" /\ IsSlice(p) => n <= MaxWidth
  BY <1>1, <1>2 DEF Supports, SplitsSlices
<1>4. c.op \in {"deposit", "force", "release", "release_and_read"} =>
        p.name \notin ReadOnly
  BY DEF Supports, SplitsSlices, Sets
<1>5. c.op \in {"deposit", "force", "release", "release_and_read"} =>
        (Exists(p) => n <= MaxWidth)
  BY <1>1, <1>2 DEF Supports, WritesUnsized, Sets
<1>6. c.op # "check" /\ ~IsSlice(p) => Exists(p)
  BY DEF Supports, EndsSimulation
<1>7. ASSUME p.name \in Vhdl
      PROVE  /\ Whole(p)
             /\ c.op # "check" => n <= MaxWidth
             /\ c.op \in {"read", "release_and_read"} => n <= WordBits
  <2>1. VhdlAsPromised(simulator, c)
    BY <1>7 DEF Supports
  <2> QED BY <2>1 DEF VhdlAsPromised, Reads
<1> QED BY <1>3, <1>4, <1>5, <1>6, <1>7

LEMMA XceliumSetVlog ==
  ASSUME Inv, NEW p, IsPath(p), NEW v \in Value,
         NEW how \in {"deposit", "force", "release"},
         Xcelium!uvm_hdl_set_vlog(p, v, how)
  PROVE  /\ IsDesign(sim') /\ SameBut(p, sim, sim') /\ ret' \in {0, 1}
         /\ ended' = ended
         /\ XceliumFound(p) /\ SizeOf(p) <= MaxWidth =>
              ret' = 1 /\ sim' = Put(p.name, Spread(p, SizeOf(p), v), how)
         /\ XceliumFound(p) => \E u \in Extensions(v, SizeOf(p)) :
                                sim' = Put(p.name, Spread(p, SizeOf(p), u), how)
         /\ ~XceliumFound(p) => ret' = 0
<1>1. ended' = ended
  BY DEF Xcelium!uvm_hdl_set_vlog
<1>2. CASE XceliumFound(p)
  <2>1. PICK u \in Extensions(v, SizeOf(p)) :
          sim' = Put(p.name, Spread(p, SizeOf(p), u), how)
    BY <1>2, XceliumFoundFacts, XceliumDesign DEF Xcelium!uvm_hdl_set_vlog
  <2>2. ret' = 1
    BY <1>2, XceliumFoundFacts DEF Xcelium!uvm_hdl_set_vlog
  <2>3. Selects(p) /\ p.name \in Signals /\ SizeOf(p) \in 0..Reached(p)
    BY <1>2, SelectedFacts, ReachedFacts DEF XceliumFound, Exists, Selects
  <2>4. IsDesign(sim') /\ SameBut(p, sim, sim')
    BY <2>1, <2>3, WriteFacts DEF Inv
  <2>5. SizeOf(p) <= MaxWidth => sim' = Put(p.name, Spread(p, SizeOf(p), v), how)
    BY <2>1, <2>3, WriteFacts DEF Inv
  <2> QED BY <1>1, <1>2, <2>1, <2>2, <2>4, <2>5
<1>3. CASE ~XceliumFound(p)
  <2>1. ret' = 0 /\ sim' = sim
    BY <1>3, XceliumFoundFacts DEF Xcelium!uvm_hdl_set_vlog
  <2> QED BY <1>1, <1>3, <2>1, SameFacts DEF Inv
<1> QED BY <1>2, <1>3

LEMMA XceliumSetSlice ==
  ASSUME Inv, NEW p, IsPath(p), IsSlice(p), NEW v \in Value,
         NEW how \in {"deposit", "force", "release"},
         Xcelium!uvm_hdl_set_vlog_partsel(p, v, how)
  PROVE  /\ IsDesign(sim') /\ SameBut(p, sim, sim') /\ ended' = ended
         /\ ret' = IF Exists(p) /\ p.name \notin Vhdl THEN 1 ELSE 0
         /\ Exists(p) /\ p.name \notin Vhdl /\ SizeOf(p) <= MaxWidth =>
              sim' = Put(p.name, Spread(p, SizeOf(p), v), how)
         /\ Exists(p) /\ p.name \notin Vhdl =>
              \E u \in Extensions(v, SizeOf(p)) :
                sim' = Put(p.name, Spread(p, SizeOf(p), u), how)
<1>1. /\ ended' = ended
      /\ ret' = IF Exists(p) /\ p.name \notin Vhdl THEN 1 ELSE 0
  BY XceliumDesign DEF Xcelium!uvm_hdl_set_vlog_partsel
<1>2. Selects(p)
  BY PathKinds DEF Selects
<1>3. CASE Reached(p) = 0 \/ p.name \in Vhdl
  <2>1. sim' = sim
    BY <1>3, XceliumDesign DEF Xcelium!uvm_hdl_set_vlog_partsel
  <2>2. ~(Exists(p) /\ p.name \notin Vhdl)
    BY <1>2, <1>3, ReachedFacts, SelectedFacts DEF Exists
  <2> QED BY <1>1, <2>1, <2>2, SameFacts DEF Inv
<1>4. CASE ~(Reached(p) = 0 \/ p.name \in Vhdl)
  <2>1. PICK u \in Extensions(v, Reached(p)) :
          sim' = Put(p.name, Spread(p, Reached(p), u), how)
    BY <1>4, XceliumDesign DEF Xcelium!uvm_hdl_set_vlog_partsel
  <2>2. p.name \in Signals
    BY <1>4 DEF Reached
  <2>3. Reached(p) \in 0..Reached(p)
    BY <1>2, <2>2, ReachedFacts, SelectedFacts
  <2>4. /\ IsDesign(sim') /\ SameBut(p, sim, sim')
        /\ Reached(p) <= MaxWidth => sim' = Put(p.name, Spread(p, Reached(p), v), how)
    BY <1>2, <2>1, <2>2, <2>3, WriteFacts DEF Inv
  <2>5. Exists(p) => Reached(p) = SizeOf(p)
    BY <1>2, <2>2, ReachedFacts
  <2> QED BY <1>1, <2>1, <2>4, <2>5
<1> QED BY <1>3, <1>4

\* Too wide a signal is set as well, from past the end of the value, when the
\* simulation has been told to end; a signal that is not found ends it too.
LEMMA XceliumSetVhdl ==
  ASSUME Inv, NEW p, IsPath(p), NEW v \in Value,
         NEW how \in {"deposit", "force", "release"},
         Xcelium!uvm_hdl_set_vhdl(p, v, how)
  PROVE  /\ IsDesign(sim') /\ SameBut(p, sim, sim') /\ ret' \in {0, 1}
         /\ ended' \in BOOLEAN
         /\ XceliumFound(p) /\ SizeOf(p) <= MaxWidth =>
              /\ ended' = ended /\ ret' = 1
              /\ sim' = Put(p.name, Spread(p, SizeOf(p), v), how)
         /\ XceliumFound(p) => \E u \in Extensions(v, SizeOf(p)) :
                                sim' = Put(p.name, Spread(p, SizeOf(p), u), how)
         /\ ~XceliumFound(p) => ret' = 0
<1>1. CASE XceliumFound(p)
  <2>1. PICK u \in Extensions(v, SizeOf(p)) :
          sim' = Put(p.name, Spread(p, SizeOf(p), u), how)
    BY <1>1, XceliumFoundFacts, XceliumDesign DEF Xcelium!uvm_hdl_set_vhdl
  <2>2. ret' = 1 /\ IF SizeOf(p) > MaxWidth THEN ended' = TRUE ELSE ended' = ended
    BY <1>1, XceliumFoundFacts, XceliumDesign
    DEF Xcelium!uvm_hdl_set_vhdl, Xcelium!tf_dofinish
  <2>3. /\ Selects(p) /\ p.name \in Signals /\ SizeOf(p) \in 0..Reached(p)
        /\ SizeOf(p) \in Nat /\ MaxWidth \in Nat
    BY <1>1, SelectedFacts, ReachedFacts, WidthAssumption
    DEF XceliumFound, Exists, Selects
  <2>4. IsDesign(sim') /\ SameBut(p, sim, sim')
    BY <2>1, <2>3, WriteFacts DEF Inv
  <2>5. SizeOf(p) <= MaxWidth => sim' = Put(p.name, Spread(p, SizeOf(p), v), how)
    BY <2>1, <2>3, WriteFacts DEF Inv
  <2>6. SizeOf(p) <= MaxWidth => ~(SizeOf(p) > MaxWidth)
    BY <2>3
  <2> QED BY <1>1, <2>1, <2>2, <2>4, <2>5, <2>6 DEF Inv
<1>2. CASE ~XceliumFound(p)
  <2>1. ret' = 0 /\ sim' = sim /\ ended' = TRUE
    BY <1>2, XceliumFoundFacts, XceliumDesign
    DEF Xcelium!uvm_hdl_set_vhdl, Xcelium!tf_dofinish
  <2> QED BY <1>2, <2>1, SameFacts DEF Inv
<1> QED BY <1>1, <1>2

LEMMA XceliumGetVlog ==
  ASSUME Inv, NEW p, IsPath(p), p.name \in Vhdl => ~XceliumFound(p),
         NEW d, IsDesign(d), Xcelium!uvm_hdl_get_vlog(p, d)
  PROVE  /\ value' \in Value /\ ret' \in {0, 1} /\ ended' = ended
         /\ IF XceliumFound(p) /\ SizeOf(p) <= MaxWidth
              THEN ret' = 1 /\ ReadsRight(p, value', d)
              ELSE ret' = 0
<1>1. ended' = ended
  BY DEF Xcelium!uvm_hdl_get_vlog
<1>2. CASE XceliumFound(p) /\ SizeOf(p) <= MaxWidth
  <2>1. /\ ret' = 1
        /\ value' \in Written(value, [i \in 0..(SizeOf(p) - 1) |-> BitAt(p, i, d)],
                              RestOfWords(SizeOf(p)))
    BY <1>2, XceliumFoundFacts, XceliumDesign DEF Xcelium!uvm_hdl_get_vlog
  <2>2. value' \in Value /\ ReadsRight(p, value', d)
    BY <1>2, <2>1, VlogReadFacts DEF Inv, XceliumFound
  <2> QED BY <1>1, <1>2, <2>1, <2>2
<1>3. CASE ~(XceliumFound(p) /\ SizeOf(p) <= MaxWidth)
  <2>1. ret' = 0 /\ value' = value
    BY <1>3, XceliumFoundFacts, XceliumDesign DEF Xcelium!uvm_hdl_get_vlog
  <2> QED BY <1>1, <1>3, <2>1 DEF Inv
<1> QED BY <1>2, <1>3

LEMMA ClearValue ==
  ASSUME value \in Value
  PROVE  Xcelium!clear_value \in Value
<1>1. \A i \in DOMAIN value : value[i] \in Bit4 /\ "0" \in Bit4
  BY DEF Value, Bit4
<1> QED BY <1>1 DEF Xcelium!clear_value, Value

\* A slice that the value can hold is read as promised; what is read of any
\* other are bits as well.
LEMMA XceliumGetSlice ==
  ASSUME Inv, NEW p, IsPath(p), IsSlice(p), Xcelium!uvm_hdl_get_vlog_partsel(p)
  PROVE  /\ value' \in Value /\ ended' \in BOOLEAN
         /\ ret' = IF Exists(p) /\ p.name \notin Vhdl THEN 1 ELSE 0
         /\ p.name \notin Vhdl /\ SizeOf(p) <= MaxWidth =>
              ended' = ended /\ (Exists(p) => ReadsRight(p, value', sim))
         /\ Exists(p) /\ p.name \notin Vhdl => ReadsOn(p, value', sim)
<1> DEFINE n == IF p.name \in Vhdl THEN 0 ELSE Reached(p)
           cleared == Xcelium!clear_value
<1>1. /\ value' = [i \in DOMAIN value |->
                     IF i < n THEN BitAt(p, i, sim) ELSE cleared[i]]
      /\ ret' = IF Exists(p) /\ p.name \notin Vhdl THEN 1 ELSE 0
      /\ Xcelium!Undefined(n > MaxWidth)
  BY XceliumDesign DEF Xcelium!uvm_hdl_get_vlog_partsel
<1>2. Selects(p) /\ SizeOf(p) \in Nat \ {0} /\ MaxWidth \in Nat
  BY PathKinds, SelectedFacts, WidthAssumption DEF Selects
<1>3. n \in 0..SizeOf(p) /\ (Exists(p) /\ p.name \notin Vhdl => n = SizeOf(p))
  <2>1. CASE p.name \in Signals
    BY <1>2, <2>1, ReachedFacts
  <2>2. CASE p.name \notin Signals
    BY <1>2, <2>2 DEF Reached, Exists
  <2> QED BY <2>1, <2>2
<1>4. ASSUME NEW i \in 0..(n - 1)
      PROVE  BitAt(p, i, sim) \in Bit4
  <2>1. p.name \notin Vhdl /\ n = Reached(p)
    BY <1>4
  <2>2. p.name \in Signals
    BY <1>4, <2>1 DEF Reached
  <2> QED BY <1>2, <1>4, <2>1, <2>2, ReachedBits DEF Inv
<1> HIDE DEF n, cleared
<1>5. value' \in Value
  <2>1. DOMAIN value = 0..(MaxWidth - 1)
    BY DEF Inv, Value
  <2>2. \A i \in 0..(MaxWidth - 1) : cleared[i] \in Bit4
    BY ClearValue DEF Inv, Value, cleared
  <2>3. ASSUME NEW i \in 0..(MaxWidth - 1)
        PROVE  (IF i < n THEN BitAt(p, i, sim) ELSE cleared[i]) \in Bit4
    <3>1. CASE i < n
      <4>1. i \in 0..(n - 1)
        BY <1>2, <1>3, <3>1
      <4> QED BY <1>4, <3>1, <4>1
    <3> QED BY <2>2, <3>1
  <2> QED BY <1>1, <2>1, <2>3 DEF Value
<1>6. ended' \in BOOLEAN
  BY <1>1 DEF Xcelium!Undefined, Inv
<1>7. ASSUME p.name \notin Vhdl, SizeOf(p) <= MaxWidth
      PROVE  ended' = ended
  <2>1. ~(n > MaxWidth)
    BY <1>2, <1>3, <1>7
  <2> QED BY <1>1, <2>1 DEF Xcelium!Undefined
<1>8. ASSUME p.name \notin Vhdl, SizeOf(p) <= MaxWidth, Exists(p)
      PROVE  ReadsRight(p, value', sim)
  <2>1. DOMAIN value = 0..(MaxWidth - 1)
    BY DEF Inv, Value
  <2>2. n = SizeOf(p)
    BY <1>3, <1>8
  <2>3. \A i \in 0..(n - 1) : i \in 0..(MaxWidth - 1) /\ i < n
    BY <1>2, <1>8, <2>2
  <2>4. \A i \in 0..(n - 1) : value'[i] = BitAt(p, i, sim)
    BY <1>1, <2>1, <2>3
  <2> QED BY <1>8, <2>2, <2>4, ReadsAsFacts DEF ReadsRight
<1>9. ASSUME p.name \notin Vhdl, Exists(p)
      PROVE  ReadsOn(p, value', sim)
  <2>1. DOMAIN value = 0..(MaxWidth - 1) /\ n = SizeOf(p)
    BY <1>3, <1>9 DEF Inv, Value
  <2>2. \A i \in 0..(n - 1) : i < MaxWidth => i \in 0..(MaxWidth - 1) /\ i < n
    BY <1>2, <2>1
  <2>3. \A i \in 0..(n - 1) : i < MaxWidth => value'[i] = BitAt(p, i, sim)
    BY <1>1, <2>1, <2>2
  <2> QED BY <2>1, <2>3 DEF ReadsOn
<1> QED BY <1>1, <1>5, <1>6, <1>7, <1>8, <1>9

LEMMA FourStateFacts ==
  ASSUME NEW s \in Vhdl, NEW a \in StdLogic
  PROVE  Xcelium!FourState(a) \in Bit4 /\ Xcelium!FourState(a) \in Promise!ReadsAs(s, a)
<1>1. Xcelium!FourState(a) \in Bit4
  BY DEF Xcelium!FourState, StdLogic, Bit4
<1>2. CASE a \in {"0", "1"}
  BY <1>1, <1>2, ReadsAsFacts DEF Xcelium!FourState
<1>3. CASE a \in {"X", "Z"}
  BY <1>1, <1>3, ReadsAsFacts DEF Xcelium!FourState
<1>4. CASE a \notin {"0", "1", "X", "Z"}
  BY <1>1, <1>4, ReadsAsFacts
<1> QED BY <1>2, <1>3, <1>4

\* In a single word every character is in its place.
LEMMA PlaceFacts ==
  ASSUME NEW n \in Nat, n <= WordBits, NEW i \in 0..(n - 1)
  PROVE  Xcelium!Place(n, i) = i /\ Questa!Place(n, i) = i
<1>1. WordBits \in Nat \ {0} /\ n - 1 - i \in 0..(WordBits - 1)
  BY WidthAssumption
<1>2. (n - 1 - i) \div WordBits = 0
  BY <1>1
<1>3. 0 * WordBits = 0 /\ ~(0 + WordBits < n) /\ 0 + (n - 1 - (n - 1 - i)) = i
  BY <1>1
<1> QED BY <1>2, <1>3 DEF Xcelium!Place, Questa!Place

\* Word 0 is written, with the scalar as its bit 0.
LEMMA XceliumScalar ==
  ASSUME Inv, NEW p, IsPath(p), Exists(p), Whole(p), p.name \in Scalars,
         NEW d, IsDesign(d), value' = Xcelium!ScalarRead(p, d)
  PROVE  value' \in Value /\ ReadsRight(p, value', d)
<1> DEFINE bit == Xcelium!FourState(BitAt(p, 0, d))
           word == 1..(WordBits - 1)
<1>1. value' = [k \in DOMAIN value |-> CASE k = 0 -> bit
                                         [] k \in word -> "0"
                                         [] OTHER -> value[k]]
  BY XceliumDesign DEF Xcelium!ScalarRead
<1>2. /\ p.name \in Vhdl /\ SizeOf(p) = 1 /\ MaxWidth \in Nat \ {0}
      /\ DOMAIN value = 0..(MaxWidth - 1)
      /\ \A k \in 0..(MaxWidth - 1) : value[k] \in Bit4
  BY SelectedFacts, WidthAssumption, VhdlAssumption DEF Exists, Selects, Inv, Value
<1>3. bit \in Bit4 /\ bit \in Promise!ReadsAs(p.name, BitAt(p, 0, d))
  <2>1. 0 \in 0..(SizeOf(p) - 1)
    BY <1>2
  <2>2. BitAt(p, 0, d) \in StdLogic
    BY <1>2, <2>1, BitFacts
  <2> QED BY <1>2, <2>2, FourStateFacts
<1> HIDE DEF bit, word
<1>4. value'[0] = bit
  <2>1. 0 \in DOMAIN value
    BY <1>2
  <2>2. 0 \notin word
    BY DEF word
  <2> QED BY <1>1, <2>1, <2>2
<1>5. value' \in Value
  <2>1. \A k \in 0..(MaxWidth - 1) :
          (CASE k = 0 -> bit [] k \in word -> "0" [] OTHER -> value[k]) \in Bit4
    <3>1. 0 \notin word
      BY DEF word
    <3>2. "0" \in Bit4
      BY DEF Bit4
    <3> QED BY <1>2, <1>3, <3>1, <3>2
  <2> QED BY <1>1, <1>2, <2>1 DEF Value
<1>6. \A i \in 0..(SizeOf(p) - 1) : i = 0
  BY <1>2
<1> QED BY <1>3, <1>4, <1>5, <1>6 DEF ReadsRight

\* The first word of a vector is read in its place.
LEMMA XceliumVector ==
  ASSUME Inv, NEW p, IsPath(p), Exists(p), p.name \in Vhdl,
         NEW d, IsDesign(d), value' \in Xcelium!VectorRead(p, d)
  PROVE  /\ value' \in Value
         /\ SizeOf(p) <= MaxWidth /\ SizeOf(p) <= WordBits => ReadsRight(p, value', d)
<1> DEFINE n == SizeOf(p)
           read == {i \in 0..(n - 1) : n - 1 - i < WordBits}
           at(k) == CHOOSE i \in read : Xcelium!Place(n, i) = k
           new == [k \in {Xcelium!Place(n, i) : i \in read} \cup n..(MaxWidth - 1) |->
                     IF k >= n THEN "0" ELSE Xcelium!FourState(BitAt(p, at(k), d))]
<1>1. value' \in Written(value, new, DOMAIN value \ DOMAIN new)
  <2> DEFINE bits == [k \in {Xcelium!Place(n, i) : i \in read} \cup n..(MaxWidth - 1) |->
                        IF k >= n THEN "0"
                        ELSE Xcelium!FourState(Xcelium!BitAt(p, at(k), d))]
  <2>1. bits = new
    BY XceliumDesign
  <2>2. Xcelium!SizeOf(p) = n
    BY XceliumDesign
  <2>3. value' \in Xcelium!Written(value, bits, DOMAIN value \ DOMAIN bits)
    BY <2>2 DEF Xcelium!VectorRead
  <2> HIDE DEF bits, new
  <2> QED BY <2>1, <2>3, XceliumDesign
<1>2. n \in Nat \ {0} /\ MaxWidth \in Nat /\ WordBits \in Nat
  BY SelectedFacts, WidthAssumption DEF Exists, Selects
<1>3. \A i \in 0..(n - 1) :
        /\ Xcelium!FourState(BitAt(p, i, d)) \in Bit4
        /\ Xcelium!FourState(BitAt(p, i, d)) \in Promise!ReadsAs(p.name, BitAt(p, i, d))
  BY BitFacts, FourStateFacts
<1>4. ASSUME NEW k \in DOMAIN new
      PROVE  new[k] \in Bit4
  <2>1. CASE k >= n
    BY <2>1 DEF Bit4
  <2>2. CASE ~(k >= n)
    <3>1. \E i \in read : Xcelium!Place(n, i) = k
      BY <1>2, <2>2
    <3>2. at(k) \in 0..(n - 1)
      BY <3>1
    <3> HIDE DEF at
    <3> QED BY <1>3, <2>2, <3>2
  <2> QED BY <2>1, <2>2
<1>5. /\ value' \in Value
      /\ \A i \in 0..(MaxWidth - 1) : i \in DOMAIN new => value'[i] = new[i]
  <2> HIDE DEF new
  <2> QED BY <1>1, <1>4, WrittenFacts DEF Inv
<1>6. ASSUME n <= MaxWidth, n <= WordBits
      PROVE  ReadsRight(p, value', d)
  <2>1. read = 0..(n - 1)
    <3> HIDE DEF n
    <3> QED BY <1>2, <1>6
  <2>2. \A i \in 0..(n - 1) : Xcelium!Place(n, i) = i
    BY <1>2, <1>6, PlaceFacts
  <2> HIDE DEF n
  <2>3. ASSUME NEW i \in 0..(n - 1)
        PROVE  value'[i] = Xcelium!FourState(BitAt(p, i, d))
    <3>1. i \in 0..(MaxWidth - 1) /\ ~(i >= n)
      BY <1>2, <1>6
    <3>2. at(i) = i
      BY <2>1, <2>2
    <3>3. i \in {Xcelium!Place(n, j) : j \in read}
      BY <2>1, <2>2
    <3> HIDE DEF read, at
    <3> QED BY <1>5, <3>1, <3>2, <3>3
  <2> QED BY <1>3, <2>3 DEF ReadsRight, n
<1> QED BY <1>5, <1>6

\* A scalar and a vector that fits in a word are read as promised; too wide a
\* vector is read from its first word as well.
LEMMA XceliumGetVhdl ==
  ASSUME Inv, NEW p, IsPath(p), p.name \in Vhdl \/ ~XceliumFound(p),
         NEW d, IsDesign(d), Xcelium!uvm_hdl_get_vhdl(p, d)
  PROVE  /\ value' \in Value /\ ret' \in {0, 1} /\ ended' \in BOOLEAN
         /\ XceliumFound(p) /\ SizeOf(p) <= MaxWidth /\ SizeOf(p) <= WordBits =>
              ended' = ended /\ ret' = 1 /\ ReadsRight(p, value', d)
         /\ ~XceliumFound(p) => ret' = 0
<1> DEFINE n == SizeOf(p)
<1>1. CASE ~XceliumFound(p)
  <2>1. ret' = 0 /\ value' = value /\ ended' = TRUE
    BY <1>1, XceliumFoundFacts, XceliumDesign
    DEF Xcelium!uvm_hdl_get_vhdl, Xcelium!tf_dofinish
  <2> QED BY <1>1, <2>1 DEF Inv
<1>2. CASE XceliumFound(p)
  <2>1. /\ ret' = 1
        /\ IF p.name \in Scalars THEN value' = Xcelium!ScalarRead(p, d)
           ELSE value' \in Xcelium!VectorRead(p, d)
        /\ IF n > MaxWidth THEN ended' = TRUE ELSE Xcelium!Undefined(Chunks(n) > 1)
    BY <1>2, XceliumFoundFacts, XceliumDesign
    DEF Xcelium!uvm_hdl_get_vhdl, Xcelium!tf_dofinish
  <2>2. /\ p.name \in Vhdl /\ Exists(p) /\ n \in Nat \ {0}
        /\ MaxWidth \in Nat /\ WordBits \in Nat
    BY <1>2, SelectedFacts, WidthAssumption DEF XceliumFound, Exists, Selects
  <2>3. value' \in Value /\ (n <= MaxWidth /\ n <= WordBits => ReadsRight(p, value', d))
    <3>1. CASE p.name \in Scalars
      <4>1. Whole(p) /\ value' = Xcelium!ScalarRead(p, d)
        BY <1>2, <2>1, <2>2, <3>1 DEF XceliumFound
      <4> QED BY <2>2, <3>1, <4>1, XceliumScalar
    <3>2. CASE p.name \notin Scalars
      <4> HIDE DEF n
      <4>1. value' \in Xcelium!VectorRead(p, d)
        BY <2>1, <3>2
      <4> QED BY <2>2, <4>1, XceliumVector DEF n
    <3> QED BY <3>1, <3>2
  <2>4. ended' \in BOOLEAN /\ (n <= MaxWidth /\ n <= WordBits => ended' = ended)
    <3> HIDE DEF n
    <3>1. n <= MaxWidth => ~(n > MaxWidth)
      BY <2>2
    <3>2. n <= WordBits => ~(Chunks(n) > 1)
      BY <2>2, ChunksFacts
    <3> QED BY <2>1, <3>1, <3>2 DEF Xcelium!Undefined, Inv
  <2> QED BY <1>2, <2>1, <2>3, <2>4
<1> QED BY <1>1, <1>2

LEMMA XceliumCheck ==
  ASSUME Inv, NEW c \in Calls, simulator = "xcelium", c.op = "check",
         Xcelium!uvm_hdl_check_path(c.path)
  PROVE  Outcome(c)
<1> DEFINE p == c.path
<1>1. /\ ret' = IF XceliumFound(p) THEN 1 ELSE 0
      /\ sim' = sim /\ value' = value /\ ended' = ended
  BY XceliumFoundFacts DEF Xcelium!uvm_hdl_check_path
<1>2. ASSUME Supports(simulator, c)
      PROVE  Promise!Promised(c)
  <2>1. XceliumFound(p) <=> Exists(p)
    BY <1>2, XceliumSupports DEF XceliumFound
  <2> QED BY <1>1, <2>1, CheckPromised
<1>3. Confined(c) /\ Anyway(c)
  <2>1. ~Exists(p) => ret' = 0
    BY <1>1 DEF XceliumFound
  <2> QED BY <1>1, <2>1, SameFacts DEF Inv, Confined, Anyway
<1> QED BY <1>1, <1>2, <1>3 DEF Outcome, Inv

\* What the choice by the language of a path comes to, for a read: d is the
\* design at the time.
XceliumReads(p, d) ==
  \E language \in Xcelium!Language(p) :
    \/ language = "vhpiVerilog" /\ Xcelium!uvm_hdl_get_vlog(p, d)
    \/ language = "vhpiVHDL" /\ Xcelium!uvm_hdl_get_vhdl(p, d)
    \/ language = "other" /\ ret' = 0 /\ UNCHANGED <<value, ended>>

LEMMA XceliumReadsFacts ==
  ASSUME Inv, NEW p, IsPath(p), NEW d, IsDesign(d), XceliumReads(p, d)
  PROVE  /\ value' \in Value /\ ret' \in {0, 1} /\ ended' \in BOOLEAN
         /\ p.name \notin Unpacked /\ XceliumFound(p)
            /\ (p.name \in Vhdl => SizeOf(p) <= MaxWidth /\ SizeOf(p) <= WordBits) =>
              /\ ended' = ended
              /\ IF Accessible(p) THEN ret' = 1 /\ ReadsRight(p, value', d)
                                  ELSE ret' = 0
         /\ ~XceliumFound(p) => ret' = 0
         /\ p.name \notin Vhdl /\ ret' = 1 => ReadsOn(p, value', d)
<1>1. PICK language \in Xcelium!Language(p) :
        \/ language = "vhpiVerilog" /\ Xcelium!uvm_hdl_get_vlog(p, d)
        \/ language = "vhpiVHDL" /\ Xcelium!uvm_hdl_get_vhdl(p, d)
        \/ language = "other" /\ ret' = 0 /\ UNCHANGED <<value, ended>>
  BY DEF XceliumReads
<1>2. /\ XceliumFound(p) /\ p.name \in Vhdl => language = "vhpiVHDL"
      /\ XceliumFound(p) /\ p.name \notin Vhdl => language = "vhpiVerilog"
      /\ Accessible(p) /\ XceliumFound(p) <=>
           XceliumFound(p) /\ SizeOf(p) <= MaxWidth /\ p.name \notin Unpacked
  BY <1>1, XceliumFoundFacts DEF Accessible, XceliumFound
<1>3. CASE language = "vhpiVerilog"
  <2>1. p.name \in Vhdl => ~XceliumFound(p)
    BY <1>2, <1>3
  <2>2. Xcelium!uvm_hdl_get_vlog(p, d)
    BY <1>1, <1>3
  <2>3. /\ value' \in Value /\ ret' \in {0, 1} /\ ended' = ended
        /\ IF XceliumFound(p) /\ SizeOf(p) <= MaxWidth
             THEN ret' = 1 /\ ReadsRight(p, value', d)
             ELSE ret' = 0
    BY <2>1, <2>2, XceliumGetVlog
  <2> QED BY <1>2, <2>3, ReadsOnFacts DEF Inv
<1>4. CASE language = "vhpiVHDL"
  <2>1. p.name \in Vhdl \/ ~XceliumFound(p)
    BY <1>2, <1>4
  <2>2. Xcelium!uvm_hdl_get_vhdl(p, d)
    BY <1>1, <1>4
  <2>3. /\ value' \in Value /\ ret' \in {0, 1} /\ ended' \in BOOLEAN
        /\ XceliumFound(p) /\ SizeOf(p) <= MaxWidth /\ SizeOf(p) <= WordBits =>
              ended' = ended /\ ret' = 1 /\ ReadsRight(p, value', d)
        /\ ~XceliumFound(p) => ret' = 0
    BY <2>1, <2>2, XceliumGetVhdl
  <2> QED BY <1>2, <2>1, <2>3
<1>5. CASE language \notin {"vhpiVerilog", "vhpiVHDL"}
  <2>1. ret' = 0 /\ value' = value /\ ended' = ended /\ ~XceliumFound(p)
    BY <1>1, <1>2, <1>5
  <2> QED BY <2>1 DEF Inv
<1> QED BY <1>3, <1>4, <1>5

LEMMA XceliumRead ==
  ASSUME Inv, NEW c \in Calls, simulator = "xcelium", c.path.name \notin Unpacked,
         c.op = "read", Xcelium!uvm_hdl_read(c.path)
  PROVE  Outcome(c)
<1> DEFINE p == c.path
<1>1. sim' = sim /\ IsPath(p) /\ IsDesign(sim)
  BY CallFacts DEF Xcelium!uvm_hdl_read, Inv
<1>2. /\ value' \in Value /\ ret' \in {0, 1} /\ ended' \in BOOLEAN
      /\ Supports(simulator, c) =>
           /\ ended' = ended
           /\ IF Accessible(p) THEN ret' = 1 /\ ReadsRight(p, value', sim) ELSE ret' = 0
      /\ p.name \notin Vhdl /\ ret' = 1 => ReadsOn(p, value', sim)
      /\ ~Exists(p) => ret' = 0
  <2>1. CASE IsSlice(p)
    <3>1. Xcelium!uvm_hdl_get_vlog_partsel(p)
      BY <2>1, XceliumDesign DEF Xcelium!uvm_hdl_read
    <3>2. /\ value' \in Value /\ ended' \in BOOLEAN
          /\ ret' = IF Exists(p) /\ p.name \notin Vhdl THEN 1 ELSE 0
          /\ p.name \notin Vhdl /\ SizeOf(p) <= MaxWidth =>
               ended' = ended /\ (Exists(p) => ReadsRight(p, value', sim))
          /\ Exists(p) /\ p.name \notin Vhdl => ReadsOn(p, value', sim)
      BY <1>1, <2>1, <3>1, XceliumGetSlice
    <3>3. Supports(simulator, c) => p.name \notin Vhdl /\ SizeOf(p) <= MaxWidth
      <4>1. ~Whole(p)
        BY <1>1, <2>1, PathKinds
      <4> QED BY <2>1, <4>1, XceliumSupports
    <3> QED BY <3>2, <3>3 DEF Accessible
  <2>2. CASE ~IsSlice(p)
    <3>1. XceliumReads(p, sim)
      BY <2>2, XceliumDesign DEF Xcelium!uvm_hdl_read, XceliumReads
    <3>2. Supports(simulator, c) =>
            /\ XceliumFound(p)
            /\ p.name \in Vhdl => SizeOf(p) <= MaxWidth /\ SizeOf(p) <= WordBits
      BY <2>2, XceliumSupports DEF XceliumFound
    <3>3. ~Exists(p) => ~XceliumFound(p)
      BY DEF XceliumFound
    <3> QED BY <1>1, <3>1, <3>2, <3>3, XceliumReadsFacts
  <2> QED BY <2>1, <2>2
<1>3. ASSUME Supports(simulator, c)
      PROVE  Promise!Promised(c)
  BY <1>1, <1>2, <1>3, ReadPromised
<1>4. Confined(c) /\ Anyway(c)
  BY <1>1, <1>2, SameFacts DEF Inv, Confined, Anyway
<1> QED BY <1>1, <1>2, <1>3, <1>4 DEF Outcome, Inv

LEMMA XceliumSet ==
  ASSUME Inv, NEW c \in Calls, simulator = "xcelium", c.path.name \notin Unpacked,
         c.op \in {"deposit", "force", "release"},
         Xcelium!uvm_hdl_set(c.path, IF c.op = "release" THEN value ELSE c.arg, c.op)
  PROVE  Outcome(c)
<1> DEFINE p == c.path
           n == SizeOf(p)
           v == IF c.op = "release" THEN value ELSE c.arg
<1>1. value' = value /\ IsPath(p) /\ v \in Value
  BY CallFacts DEF Xcelium!uvm_hdl_set, Inv
<1> HIDE DEF v
<1>2. /\ IsDesign(sim') /\ SameBut(p, sim, sim') /\ ret' \in {0, 1} /\ ended' \in BOOLEAN
      /\ Supports(simulator, c) =>
           /\ ended' = ended
           /\ IF Writable(p) THEN ret' = 1 /\ sim' = Put(p.name, Spread(p, n, v), c.op)
              ELSE ret' = 0
      /\ Reaches(simulator, p) =>
           \E u \in Extensions(v, n) : sim' = Put(p.name, Spread(p, n, u), c.op)
      /\ ~Exists(p) => ret' = 0
  <2>1. CASE IsSlice(p)
    <3>1. Xcelium!uvm_hdl_set_vlog_partsel(p, v, c.op)
      BY <2>1, XceliumDesign DEF Xcelium!uvm_hdl_set, v
    <3>2. /\ IsDesign(sim') /\ SameBut(p, sim, sim') /\ ended' = ended
          /\ ret' = IF Exists(p) /\ p.name \notin Vhdl THEN 1 ELSE 0
          /\ Exists(p) /\ p.name \notin Vhdl /\ SizeOf(p) <= MaxWidth =>
               sim' = Put(p.name, Spread(p, SizeOf(p), v), c.op)
          /\ Exists(p) /\ p.name \notin Vhdl =>
               \E u \in Extensions(v, SizeOf(p)) :
                 sim' = Put(p.name, Spread(p, SizeOf(p), u), c.op)
      BY <1>1, <2>1, <3>1, XceliumSetSlice
    <3>3. Supports(simulator, c) =>
            /\ p.name \notin Vhdl /\ p.name \notin ReadOnly
            /\ Exists(p) => SizeOf(p) <= MaxWidth
      <4>1. ~Whole(p)
        BY <1>1, <2>1, PathKinds
      <4> QED BY <4>1, XceliumSupports
    <3>4. Reaches(simulator, p) => Exists(p) /\ p.name \notin Vhdl
      <4>1. ~Whole(p)
        BY <1>1, <2>1, PathKinds
      <4> QED BY <4>1 DEF Reaches
    <3> QED BY <3>2, <3>3, <3>4 DEF Writable, Accessible, Inv
  <2>2. CASE ~IsSlice(p)
    <3>1. PICK language \in Xcelium!Language(p) :
            \/ language = "vhpiVerilog" /\ Xcelium!uvm_hdl_set_vlog(p, v, c.op)
            \/ language = "vhpiVHDL" /\ Xcelium!uvm_hdl_set_vhdl(p, v, c.op)
            \/ language = "other" /\ ret' = 0 /\ UNCHANGED <<sim, ended>>
      BY <2>2, XceliumDesign DEF Xcelium!uvm_hdl_set, v
    <3>2. Supports(simulator, c) =>
            XceliumFound(p) /\ SizeOf(p) <= MaxWidth /\ Writable(p)
      BY <2>2, XceliumSupports DEF XceliumFound, Writable, Accessible
    <3>3. /\ Reaches(simulator, p) => XceliumFound(p)
          /\ ~Exists(p) => ~XceliumFound(p)
      BY <2>2 DEF Reaches, XceliumFound
    <3>4. CASE language = "vhpiVerilog" /\ Xcelium!uvm_hdl_set_vlog(p, v, c.op)
      <4>1. /\ IsDesign(sim') /\ SameBut(p, sim, sim') /\ ret' \in {0, 1}
            /\ ended' = ended
            /\ XceliumFound(p) /\ SizeOf(p) <= MaxWidth =>
                 ret' = 1 /\ sim' = Put(p.name, Spread(p, SizeOf(p), v), c.op)
            /\ XceliumFound(p) => \E u \in Extensions(v, SizeOf(p)) :
                                   sim' = Put(p.name, Spread(p, SizeOf(p), u), c.op)
            /\ ~XceliumFound(p) => ret' = 0
        BY <1>1, <3>4, XceliumSetVlog
      <4> QED BY <3>2, <3>3, <4>1 DEF Inv
    <3>5. CASE language = "vhpiVHDL" /\ Xcelium!uvm_hdl_set_vhdl(p, v, c.op)
      <4>1. /\ IsDesign(sim') /\ SameBut(p, sim, sim') /\ ret' \in {0, 1}
            /\ ended' \in BOOLEAN
            /\ XceliumFound(p) /\ SizeOf(p) <= MaxWidth =>
                 /\ ended' = ended /\ ret' = 1
                 /\ sim' = Put(p.name, Spread(p, SizeOf(p), v), c.op)
            /\ XceliumFound(p) => \E u \in Extensions(v, SizeOf(p)) :
                                   sim' = Put(p.name, Spread(p, SizeOf(p), u), c.op)
            /\ ~XceliumFound(p) => ret' = 0
        BY <1>1, <3>5, XceliumSetVhdl
      <4> QED BY <3>2, <3>3, <4>1
    <3>6. CASE language = "other" /\ ret' = 0 /\ UNCHANGED <<sim, ended>>
      <4>1. ~XceliumFound(p)
        BY <3>1, <3>6, XceliumFoundFacts
      <4> QED BY <3>2, <3>6, <3>3, <4>1, SameFacts DEF Inv
    <3> QED BY <3>1, <3>4, <3>5, <3>6
  <2> QED BY <2>1, <2>2
<1> QED BY <1>1, <1>2, SetOutcome DEF Inv, v

LEMMA XceliumReleaseAndRead ==
  ASSUME Inv, NEW c \in Calls, simulator = "xcelium", c.path.name \notin Unpacked,
         c.op = "release_and_read", Xcelium!uvm_hdl_release_and_read(c.path)
  PROVE  Outcome(c)
<1> DEFINE p == c.path
           n == SizeOf(p)
<1>1. sim' = Xcelium!Released(p) /\ IsPath(p)
  BY CallFacts DEF Xcelium!uvm_hdl_release_and_read
<1>2. IsDesign(sim') /\ SameBut(p, sim, sim')
  <2>1. CASE Reached(p) = 0 \/ (p.name \in Vhdl /\ ~Whole(p))
    <3>1. sim' = sim
      BY <1>1, <2>1, XceliumDesign DEF Xcelium!Released
    <3> QED BY <3>1, SameFacts DEF Inv
  <2>2. CASE ~(Reached(p) = 0 \/ (p.name \in Vhdl /\ ~Whole(p)))
    <3>1. sim' = Freed(p, Reached(p)) /\ p.name \in Signals
      BY <1>1, <2>2, XceliumDesign DEF Xcelium!Released, Reached
    <3>2. Selects(p) /\ Reached(p) \in 0..Reached(p)
      BY <1>1, <3>1, ReachedFacts, SelectedFacts DEF Selects
    <3> QED BY <3>1, <3>2, FreedFacts DEF Inv
  <2> QED BY <2>1, <2>2
<1>3. /\ value' \in Value /\ ret' \in {0, 1} /\ ended' \in BOOLEAN
      /\ XceliumReads(p, sim') \/ IsSlice(p)
      /\ ~Exists(p) => ret' = 0
  <2>1. CASE IsSlice(p)
    <3>1. value' = Xcelium!clear_value /\ ret' = 0 /\ ended' = ended
      BY <2>1, XceliumDesign DEF Xcelium!uvm_hdl_release_and_read
    <3> QED BY <2>1, <3>1, ClearValue DEF Inv
  <2>2. CASE ~IsSlice(p)
    <3>1. XceliumReads(p, sim')
      BY <2>2, XceliumDesign DEF Xcelium!uvm_hdl_release_and_read, XceliumReads
    <3>2. ~Exists(p) => ~XceliumFound(p)
      BY DEF XceliumFound
    <3> QED BY <1>1, <1>2, <3>1, <3>2, XceliumReadsFacts
  <2> QED BY <2>1, <2>2
<1>4. ASSUME Supports(simulator, c)
      PROVE  Promise!Promised(c)
  <2>1. /\ XceliumFound(p) /\ ~IsSlice(p) /\ Writable(p) /\ Accessible(p)
        /\ p.name \in Vhdl => Whole(p) /\ n <= MaxWidth /\ n <= WordBits
    BY <1>4, XceliumSupports DEF XceliumFound, Writable, Accessible
  <2>2. ended' = ended /\ ret' = 1 /\ ReadsRight(p, value', sim')
    BY <1>1, <1>2, <1>3, <2>1, XceliumReadsFacts
  <2>3. sim' = Freed(p, n)
    <3>1. Selects(p) /\ p.name \in Signals /\ n \in Nat \ {0} /\ Reached(p) = n
      BY <1>1, <2>1, SelectedFacts, ReachedFacts DEF XceliumFound, Exists, Selects
    <3> QED BY <1>1, <2>1, <3>1, XceliumDesign DEF Xcelium!Released
  <2> QED BY <1>1, <1>3, <2>1, <2>2, <2>3, ReleaseAndReadPromised
<1>5. Confined(c) /\ Anyway(c)
  <2>1. ASSUME Reaches(simulator, p)
        PROVE  sim' = Freed(p, n)
    <3>1. /\ Selects(p) /\ n \in Nat \ {0} /\ Reached(p) = n
          /\ p.name \in Vhdl => Whole(p)
      BY <1>1, <2>1, SelectedFacts, ReachedFacts DEF Reaches, Exists, Selects
    <3> QED BY <1>1, <3>1, XceliumDesign DEF Xcelium!Released
  <2> QED BY <1>2, <1>3, <2>1 DEF Confined, Anyway
<1> QED BY <1>2, <1>3, <1>4, <1>5 DEF Outcome

LEMMA XceliumOutcome ==
  ASSUME Inv, NEW c \in Calls, CallXcelium(c)
  PROVE  Outcome(c) /\ partsel' \in BOOLEAN
<1>1. simulator = "xcelium" /\ partsel' \in BOOLEAN /\ c.path.name \notin Unpacked
  BY DEF CallXcelium, Inv
<1>2. CASE c.op = "check"
  BY <1>1, <1>2, XceliumCheck DEF CallXcelium
<1>3. CASE c.op = "read"
  BY <1>1, <1>3, XceliumRead DEF CallXcelium
<1>4. CASE c.op \in {"deposit", "force", "release"}
  BY <1>1, <1>4, XceliumSet
  DEF CallXcelium, Xcelium!uvm_hdl_deposit, Xcelium!uvm_hdl_force,
      Xcelium!uvm_hdl_release
<1>5. CASE c.op = "release_and_read"
  BY <1>1, <1>5, XceliumReleaseAndRead DEF CallXcelium
<1> QED BY <1>1, <1>2, <1>3, <1>4, <1>5, CallFacts

-----------------------------------------------------------------------------
(* Questa                                                                  *)

LEMMA QuestaDesign ==
  /\ \A p : Questa!Whole(p) = Whole(p)
  /\ \A p : Questa!IsBit(p) = IsBit(p)
  /\ \A p : Questa!IsSlice(p) = IsSlice(p)
  /\ \A p : Questa!Selected(p) = Selected(p)
  /\ \A p : Questa!SizeOf(p) = SizeOf(p)
  /\ \A p : Questa!Exists(p) = Exists(p)
  /\ \A p : Questa!Reached(p) = Reached(p)
  /\ \A s, new, how : Questa!Put(s, new, how) = Put(s, new, how)
  /\ \A p, n, v : Questa!Spread(p, n, v) = Spread(p, n, v)
  /\ \A p, n : Questa!Freed(p, n) = Freed(p, n)
  /\ \A p, i, d : Questa!BitAt(p, i, d) = BitAt(p, i, d)
  /\ \A v, n : Questa!Extensions(v, n) = Extensions(v, n)
  /\ \A v, new, undefined : Questa!Written(v, new, undefined) = Written(v, new, undefined)
  /\ \A n : Questa!Chunks(n) = Chunks(n)
  /\ \A n : Questa!RestOfWords(n) = RestOfWords(n)
<1>1. \A S : Questa!Cardinality(S) = Cardinality(S)
  BY DEF Questa!Cardinality, Cardinality
<1>2. \A p : Questa!Whole(p) = Whole(p)
  BY DEF Questa!Whole, Whole
<1>3. \A p : Questa!IsBit(p) = IsBit(p)
  BY DEF Questa!IsBit, IsBit
<1>4. \A p : Questa!IsSlice(p) = IsSlice(p)
  BY DEF Questa!IsSlice, IsSlice
<1>5. \A p : Questa!Selected(p) = Selected(p)
  BY DEF Questa!Selected, Selected, Questa!Whole, Whole, Questa!IsBit,
         IsBit, Questa!IsSlice, IsSlice
<1>6. \A p : Questa!SizeOf(p) = SizeOf(p)
  BY <1>5, <1>1 DEF Questa!SizeOf, SizeOf
<1>7. \A p : Questa!Exists(p) = Exists(p)
  BY DEF Questa!Exists, Exists
<1>8. \A p : Questa!Reached(p) = Reached(p)
  BY <1>5, <1>1 DEF Questa!Reached, Reached
<1>9. \A s, new, how : Questa!Put(s, new, how) = Put(s, new, how)
  BY DEF Questa!Put, Put, Questa!ValueIn, ValueIn
<1>10. \A p, n, v : Questa!Spread(p, n, v) = Spread(p, n, v)
  BY DEF Questa!Spread, Spread, Questa!Selected, Selected, Questa!Whole,
         Whole, Questa!IsBit, IsBit, Questa!IsSlice, IsSlice
<1>11. \A p, n : Questa!Freed(p, n) = Freed(p, n)
  BY <1>5, <1>9 DEF Questa!Freed, Freed
<1>12. \A p, i, d : Questa!BitAt(p, i, d) = BitAt(p, i, d)
  BY <1>5 DEF Questa!BitAt, BitAt
<1>13. \A v, n : Questa!Extensions(v, n) = Extensions(v, n)
  BY DEF Questa!Extensions, Extensions, Questa!Bit4, Bit4
<1>14. \A v, new, undefined : Questa!Written(v, new, undefined) = Written(v, new, undefined)
  BY DEF Questa!Written, Written, Questa!Bit4, Bit4
<1>15. \A n : Questa!Chunks(n) = Chunks(n)
  BY DEF Questa!Chunks, Chunks
<1>16. \A n : Questa!RestOfWords(n) = RestOfWords(n)
  BY <1>15 DEF Questa!RestOfWords, RestOfWords
<1> QED BY <1>2, <1>3, <1>4, <1>5, <1>6, <1>7, <1>8, <1>9, <1>10, <1>11,
           <1>12, <1>13, <1>14, <1>15, <1>16

QuestaFound(p) == Exists(p) /\ ~IsSlice(p) /\ p.name \notin Vhdl

\* The bits a path selects that the signal has, counted in the path.
There(p) == {i \in DOMAIN Selected(p) : Selected(p)[i] < Width[p.name]}

\* What is read or set of a signal does not fit a buffer or the value, or is
\* not there.
GetOverflows(p) ==
  SizeOf(p) > MaxWidth \/ (IsSlice(p) /\ SizeOf(p) > ReducedVector)

SetOverflows(p) ==
  ~Exists(p) \/ (~Whole(p) /\ Width[p.name] >= VectorVal)

LEMMA QuestaFoundFacts ==
  ASSUME NEW p
  PROVE  /\ Questa!VlogFound(p) = QuestaFound(p)
         /\ Questa!uvm_is_vhdl_path(p) = (p.name \in Vhdl)
         /\ Questa!There(p) = There(p)
         /\ Questa!GetOverflows(p) = GetOverflows(p)
         /\ Questa!SetOverflows(p) = SetOverflows(p)
BY QuestaDesign
DEF Questa!VlogFound, QuestaFound, Questa!uvm_is_vhdl_path, Questa!There, There,
    Questa!GetOverflows, GetOverflows, Questa!SetOverflows, SetOverflows

LEMMA ThereFacts ==
  ASSUME NEW p, Selects(p), p.name \in Signals
  PROVE  /\ There(p) \subseteq 0..(SizeOf(p) - 1)
         /\ {Selected(p)[i] : i \in There(p)} \subseteq Chosen(p)
         /\ Exists(p) => There(p) = 0..(SizeOf(p) - 1)
<1>1. There(p) \subseteq 0..(SizeOf(p) - 1)
  BY SelectedFacts DEF There
<1>2. \A i \in There(p) : i \in DOMAIN Selected(p)
                          /\ Selected(p)[i] \in 0..(Width[p.name] - 1)
  BY SelectedFacts, WidthAssumption DEF There
<1>3. Exists(p) => There(p) = 0..(SizeOf(p) - 1)
  BY SelectedFacts, ReachedFacts DEF There
<1> QED BY <1>1, <1>2, <1>3 DEF Chosen

LEMMA QuestaSupports ==
  ASSUME NEW c \in Calls, simulator = "questa", Supports(simulator, c)
  PROVE  LET p == c.path
             n == SizeOf(p) IN
         /\ c.op \in {"check", "release_and_read"} => ~IsSlice(p)
         /\ c.op = "read" /\ IsSlice(p) => n <= MaxWidth
         /\ c.op \in {"deposit", "force", "release", "release_and_read"} =>
              p.name \notin ReadOnly /\ (Exists(p) => n <= MaxWidth)
         /\ p.name \in Vhdl =>
              /\ Exists(p)
              /\ c.op \in {"read", "release_and_read"} => ~GetOverflows(p)
              /\ c.op \in {"deposit", "force", "release", "release_and_read"} =>
                   ~SetOverflows(p)
              /\ c.op \in {"read", "release_and_read"} => n <= WordBits /\ n <= MaxWidth
              /\ ~Whole(p) =>
                   /\ c.op # "force"
                   /\ c.op = "deposit" =>
                        /\ \A i \in 0..(n - 1) : c.arg[i] \in {"0", "1"}
                        /\ IsBit(p) => OwnBit(c.arg, p.sel[1])
<1> DEFINE p == c.path
           n == SizeOf(p)
<1>1. MaxWidth \in Nat /\ WordBits \in Nat
  BY WidthAssumption
<1>2. IsPath(p) /\ (Exists(p) \/ IsSlice(p) => n \in Nat)
  BY CallFacts, PathKinds, SelectedFacts DEF Selects
<1>3. /\ c.op \in {"check", "release_and_read"} => ~IsSlice(p)
      /\ c.op = "read" /\ IsSlice(p) => n <= MaxWidth
  BY <1>1, <1>2 DEF Supports, SplitsSlices
<1>4. c.op \in {"deposit", "force", "release", "release_and_read"} =>
        p.name \notin ReadOnly
  BY DEF Supports, SplitsSlices, Sets
<1>5. c.op \in {"deposit", "force", "release", "release_and_read"} =>
        (Exists(p) => n <= MaxWidth)
  BY <1>1, <1>2 DEF Supports, WritesUnsized, Sets
<1>6. ASSUME p.name \in Vhdl
      PROVE  /\ Exists(p)
             /\ c.op \in {"read", "release_and_read"} => ~GetOverflows(p)
             /\ c.op \in {"deposit", "force", "release", "release_and_read"} =>
                  ~SetOverflows(p)
             /\ c.op \in {"read", "release_and_read"} => n <= WordBits /\ n <= MaxWidth
             /\ ~Whole(p) =>
                  /\ c.op # "force"
                  /\ c.op = "deposit" =>
                       /\ \A i \in 0..(n - 1) : c.arg[i] \in {"0", "1"}
                       /\ IsBit(p) => OwnBit(c.arg, p.sel[1])
  <2>1. VhdlAsPromised(simulator, c)
    BY <1>6 DEF Supports
  <2>2. Exists(p)
    BY <2>1 DEF VhdlAsPromised
  <2>3. n \in Nat /\ Width[p.name] \in Nat /\ VectorVal \in Nat /\ ReducedVector \in Nat
    BY <1>2, <2>2, WidthAssumption, BufferAssumption DEF Exists
  <2>4. c.op \in {"read", "release_and_read"} =>
          n <= MaxWidth /\ (IsSlice(p) => n <= ReducedVector)
    BY <2>1 DEF VhdlAsPromised, Reads
  <2>5. c.op \in {"deposit", "force", "release", "release_and_read"} =>
          (~Whole(p) => Width[p.name] < VectorVal)
    BY <2>1 DEF VhdlAsPromised, Sets
  <2>6. c.op \in {"read", "release_and_read"} => ~GetOverflows(p)
    BY <1>1, <2>3, <2>4 DEF GetOverflows
  <2>7. c.op \in {"deposit", "force", "release", "release_and_read"} => ~SetOverflows(p)
    BY <2>2, <2>3, <2>5 DEF SetOverflows
  <2> QED BY <2>1, <2>2, <2>6, <2>7 DEF VhdlAsPromised, Reads
<1> QED BY <1>3, <1>4, <1>5, <1>6

LEMMA QuestaPrepared ==
  ASSUME value \in Value
  PROVE  Questa!Prepared \in Value
<1>1. \A i \in DOMAIN value : value[i] \in Bit4 /\ "0" \in Bit4
  BY DEF Value, Bit4
<1> QED BY <1>1 DEF Questa!Prepared, Value

LEMMA QuestaSetSlice ==
  ASSUME Inv, NEW p, IsPath(p), IsSlice(p), NEW v \in Value,
         NEW how \in {"deposit", "force", "release"},
         Questa!uvm_hdl_set_vlog_partsel(p, v, how)
  PROVE  /\ IsDesign(sim') /\ SameBut(p, sim, sim')
         /\ ret' = IF Exists(p) THEN 1 ELSE 0
         /\ Exists(p) /\ SizeOf(p) <= MaxWidth =>
              sim' = Put(p.name, Spread(p, SizeOf(p), v), how)
         /\ Exists(p) => \E u \in Extensions(v, SizeOf(p)) :
                          sim' = Put(p.name, Spread(p, SizeOf(p), u), how)
<1>1. ret' = IF Exists(p) THEN 1 ELSE 0
  BY QuestaDesign DEF Questa!uvm_hdl_set_vlog_partsel
<1>2. Selects(p)
  BY PathKinds DEF Selects
<1>3. CASE Reached(p) = 0
  <2>1. sim' = sim
    BY <1>3, QuestaDesign DEF Questa!uvm_hdl_set_vlog_partsel
  <2>2. ~Exists(p)
    BY <1>2, <1>3, ReachedFacts, SelectedFacts DEF Exists
  <2> QED BY <1>1, <2>1, <2>2, SameFacts DEF Inv
<1>4. CASE ~(Reached(p) = 0)
  <2>1. PICK u \in Extensions(v, Reached(p)) :
          sim' = Put(p.name, Spread(p, Reached(p), u), how)
    BY <1>4, QuestaDesign DEF Questa!uvm_hdl_set_vlog_partsel
  <2>2. p.name \in Signals
    BY <1>4 DEF Reached
  <2>3. Reached(p) \in 0..Reached(p)
    BY <1>2, <2>2, ReachedFacts, SelectedFacts
  <2>4. /\ IsDesign(sim') /\ SameBut(p, sim, sim')
        /\ Reached(p) <= MaxWidth => sim' = Put(p.name, Spread(p, Reached(p), v), how)
    BY <1>2, <2>1, <2>2, <2>3, WriteFacts DEF Inv
  <2>5. Exists(p) => Reached(p) = SizeOf(p)
    BY <1>2, <2>2, ReachedFacts
  <2> QED BY <1>1, <2>1, <2>4, <2>5
<1> QED BY <1>3, <1>4

LEMMA QuestaSetVlog ==
  ASSUME Inv, NEW p, IsPath(p), p.name \notin Vhdl, NEW v \in Value,
         NEW how \in {"deposit", "force", "release"},
         Questa!uvm_hdl_set_vlog(p, v, how)
  PROVE  /\ IsDesign(sim') /\ SameBut(p, sim, sim')
         /\ ret' = IF Exists(p) THEN 1 ELSE 0
         /\ Exists(p) /\ SizeOf(p) <= MaxWidth =>
              sim' = Put(p.name, Spread(p, SizeOf(p), v), how)
         /\ Exists(p) => \E u \in Extensions(v, SizeOf(p)) :
                          sim' = Put(p.name, Spread(p, SizeOf(p), u), how)
<1>1. CASE IsSlice(p)
  BY <1>1, QuestaSetSlice, QuestaDesign DEF Questa!uvm_hdl_set_vlog
<1>2. CASE ~IsSlice(p) /\ Exists(p)
  <2>1. PICK u \in Extensions(v, SizeOf(p)) :
          sim' = Put(p.name, Spread(p, SizeOf(p), u), how)
    BY <1>2, QuestaFoundFacts, QuestaDesign DEF Questa!uvm_hdl_set_vlog, QuestaFound
  <2>2. ret' = 1
    BY <1>2, QuestaFoundFacts, QuestaDesign DEF Questa!uvm_hdl_set_vlog, QuestaFound
  <2>3. Selects(p) /\ p.name \in Signals /\ SizeOf(p) \in 0..Reached(p)
    BY <1>2, SelectedFacts, ReachedFacts DEF Exists, Selects
  <2>4. IsDesign(sim') /\ SameBut(p, sim, sim')
    BY <2>1, <2>3, WriteFacts DEF Inv
  <2>5. SizeOf(p) <= MaxWidth => sim' = Put(p.name, Spread(p, SizeOf(p), v), how)
    BY <2>1, <2>3, WriteFacts DEF Inv
  <2> QED BY <1>2, <2>1, <2>2, <2>4, <2>5
<1>3. CASE ~IsSlice(p) /\ ~Exists(p)
  <2>1. ret' = 0 /\ sim' = sim
    BY <1>3, QuestaFoundFacts, QuestaDesign DEF Questa!uvm_hdl_set_vlog, QuestaFound
  <2> QED BY <1>3, <2>1, SameFacts DEF Inv
<1> QED BY <1>1, <1>2, <1>3

\* The round that fails stores what the one before it read: bits as well.
LEMMA QuestaGetSlice ==
  ASSUME Inv, NEW p, IsPath(p), IsSlice(p), p.name \notin Vhdl,
         Questa!uvm_hdl_get_vlog_partsel(p)
  PROVE  /\ value' \in Value /\ ended' \in BOOLEAN /\ partsel' \in BOOLEAN
         /\ ret' = IF Exists(p) THEN 1 ELSE 0
         /\ SizeOf(p) <= MaxWidth =>
              ended' = ended /\ (Exists(p) => ReadsRight(p, value', sim))
         /\ Exists(p) => ReadsOn(p, value', sim)
<1> DEFINE n == Reached(p)
           prepared == Questa!Prepared
           bit(i) == CASE i < n -> BitAt(p, i, sim)
                       [] i = n /\ ~Exists(p) ->
                            IF n = 0 THEN "0" ELSE BitAt(p, n - 1, sim)
                       [] OTHER -> prepared[i]
<1>1. /\ value' = [i \in DOMAIN value |-> bit(i)]
      /\ ret' = IF Exists(p) THEN 1 ELSE 0
      /\ partsel' = ~Exists(p)
      /\ Questa!Undefined(IF Exists(p) THEN n > MaxWidth ELSE n >= MaxWidth)
  BY QuestaDesign DEF Questa!uvm_hdl_get_vlog_partsel
<1>2. Selects(p) /\ SizeOf(p) \in Nat \ {0} /\ MaxWidth \in Nat \ {0}
  BY PathKinds, SelectedFacts, WidthAssumption DEF Selects
<1>3. n \in 0..SizeOf(p) /\ (IF Exists(p) THEN n = SizeOf(p) ELSE n < SizeOf(p))
  <2>1. CASE p.name \in Signals
    <3>1. /\ n \in 0..SizeOf(p)
          /\ \A i \in 0..(n - 1) : Selected(p)[i] < Width[p.name]
          /\ Exists(p) => n = SizeOf(p)
          /\ Exists(p) <=> \A i \in 0..(SizeOf(p) - 1) : Selected(p)[i] < Width[p.name]
      BY <1>2, <2>1, ReachedFacts
    <3> HIDE DEF n
    <3>2. ~Exists(p) => n # SizeOf(p)
      BY <3>1
    <3> QED BY <1>2, <3>1, <3>2
  <2>2. CASE p.name \notin Signals
    BY <1>2, <2>2 DEF Reached, Exists
  <2> QED BY <2>1, <2>2
<1>4. ASSUME NEW i \in 0..(n - 1)
      PROVE  BitAt(p, i, sim) \in Bit4
  <2>1. p.name \in Signals
    BY <1>4 DEF Reached
  <2> QED BY <1>2, <1>4, <2>1, ReachedBits DEF Inv
<1>5. Exists(p) \in BOOLEAN
  BY DEF Exists
<1> HIDE DEF n, prepared
<1>6. value' \in Value
  <2>1. DOMAIN value = 0..(MaxWidth - 1)
    BY DEF Inv, Value
  <2>2. \A i \in 0..(MaxWidth - 1) : prepared[i] \in Bit4
    BY QuestaPrepared DEF Inv, Value, prepared
  <2>3. ASSUME NEW i \in 0..(MaxWidth - 1)
        PROVE  bit(i) \in Bit4
    <3>1. CASE i < n
      <4>1. i \in 0..(n - 1)
        BY <1>2, <1>3, <3>1
      <4> QED BY <1>4, <3>1, <4>1
    <3>2. CASE i = n /\ ~Exists(p) /\ n = 0 /\ ~(i < n)
      BY <3>2 DEF Bit4
    <3>3. CASE i = n /\ ~Exists(p) /\ n # 0 /\ ~(i < n)
      <4>1. n - 1 \in 0..(n - 1)
        BY <1>3, <3>3
      <4> QED BY <1>4, <3>3, <4>1
    <3>4. CASE ~(i < n) /\ ~(i = n /\ ~Exists(p))
      BY <2>2, <3>4
    <3> QED BY <3>1, <3>2, <3>3, <3>4
  <2> HIDE DEF bit
  <2> QED BY <1>1, <2>1, <2>3 DEF Value
<1>7. ended' \in BOOLEAN
  BY <1>1 DEF Questa!Undefined, Inv
<1>8. ASSUME SizeOf(p) <= MaxWidth
      PROVE  ended' = ended
  <2>1. ~(IF Exists(p) THEN n > MaxWidth ELSE n >= MaxWidth)
    BY <1>2, <1>3, <1>8
  <2> QED BY <1>1, <2>1 DEF Questa!Undefined
<1>9. ASSUME SizeOf(p) <= MaxWidth, Exists(p)
      PROVE  ReadsRight(p, value', sim)
  <2>1. DOMAIN value = 0..(MaxWidth - 1)
    BY DEF Inv, Value
  <2>2. n = SizeOf(p)
    BY <1>3, <1>9
  <2>3. \A i \in 0..(n - 1) : i \in 0..(MaxWidth - 1) /\ i < n
    BY <1>2, <1>9, <2>2
  <2>4. \A i \in 0..(n - 1) : bit(i) = BitAt(p, i, sim)
    BY <2>3
  <2> HIDE DEF bit
  <2>5. \A i \in 0..(n - 1) : value'[i] = BitAt(p, i, sim)
    BY <1>1, <2>1, <2>3, <2>4
  <2> QED BY <2>2, <2>5, ReadsAsFacts DEF ReadsRight
<1>10. ASSUME Exists(p)
       PROVE  ReadsOn(p, value', sim)
  <2>1. DOMAIN value = 0..(MaxWidth - 1) /\ n = SizeOf(p)
    BY <1>3, <1>10 DEF Inv, Value
  <2>2. \A i \in 0..(n - 1) : i < MaxWidth => i \in 0..(MaxWidth - 1) /\ i < n
    BY <1>2, <2>1
  <2>3. \A i \in 0..(n - 1) : i < MaxWidth => bit(i) = BitAt(p, i, sim)
    BY <2>2
  <2> HIDE DEF bit
  <2>4. \A i \in 0..(n - 1) : i < MaxWidth => value'[i] = BitAt(p, i, sim)
    BY <1>1, <2>1, <2>2, <2>3
  <2> QED BY <2>1, <2>4 DEF ReadsOn
<1> QED BY <1>1, <1>5, <1>6, <1>7, <1>8, <1>9, <1>10

LEMMA QuestaGetVlog ==
  ASSUME Inv, NEW p, IsPath(p), ~IsSlice(p), p.name \notin Vhdl,
         NEW d, IsDesign(d), Questa!uvm_hdl_get_vlog(p, d)
  PROVE  /\ value' \in Value /\ ended' = ended /\ partsel' \in BOOLEAN
         /\ IF Exists(p) /\ SizeOf(p) <= MaxWidth
              THEN ret' = 1 /\ ReadsRight(p, value', d)
              ELSE ret' = 0
<1>1. ended' = ended /\ partsel' = partsel
  BY QuestaDesign DEF Questa!uvm_hdl_get_vlog
<1>2. CASE Exists(p) /\ SizeOf(p) <= MaxWidth
  <2>1. /\ ret' = 1
        /\ value' \in Written(Questa!Prepared,
                              [i \in 0..(SizeOf(p) - 1) |-> BitAt(p, i, d)],
                              RestOfWords(SizeOf(p)))
    BY <1>2, QuestaFoundFacts, QuestaDesign DEF Questa!uvm_hdl_get_vlog, QuestaFound
  <2>2. Questa!Prepared \in Value
    BY QuestaPrepared DEF Inv
  <2>3. value' \in Value /\ ReadsRight(p, value', d)
    BY <1>2, <2>1, <2>2, VlogReadFacts
  <2> QED BY <1>1, <1>2, <2>1, <2>3 DEF Inv
<1>3. CASE ~(Exists(p) /\ SizeOf(p) <= MaxWidth)
  <2>1. ret' = 0 /\ value' = Questa!Prepared
    BY <1>3, QuestaFoundFacts, QuestaDesign DEF Questa!uvm_hdl_get_vlog, QuestaFound
  <2> QED BY <1>1, <1>3, <2>1, QuestaPrepared DEF Inv
<1> QED BY <1>2, <1>3

LEMMA ConvertedFacts ==
  ASSUME NEW a
  PROVE  /\ Questa!Converted(a) \in Bit4
         /\ \A s \in Vhdl : Questa!Converted(a) \in Promise!ReadsAs(s, a)
<1>1. Questa!Converted(a) \in Bit4
  BY DEF Questa!Converted, Bit4
<1>2. CASE a \in {"0", "1"}
  BY <1>1, <1>2, ReadsAsFacts DEF Questa!Converted
<1>3. CASE a \in {"X", "Z"}
  BY <1>1, <1>3, ReadsAsFacts DEF Questa!Converted
<1>4. CASE a \notin {"0", "1", "X", "Z"}
  BY <1>1, <1>4, ReadsAsFacts
<1> QED BY <1>2, <1>3, <1>4

\* What is read of a signal are bits, and those of the promise when the path
\* exists and takes no more than a word.
LEMMA QuestaGetVhdl ==
  ASSUME Inv, NEW p, IsPath(p), p.name \in Vhdl,
         NEW d, Questa!uvm_register_get_vhdl(p, d)
  PROVE  /\ value' \in Value /\ ret' = 1 /\ partsel' = partsel
         /\ Exists(p) /\ SizeOf(p) <= MaxWidth /\ SizeOf(p) <= WordBits =>
              ReadsRight(p, value', d)
<1> DEFINE n == SizeOf(p)
           from == [k \in 0..(n - 1) |-> CHOOSE i \in 0..(n - 1) : Questa!Place(n, i) = k]
           there == {k \in 0..(n - 1) : from[k] \in There(p)}
           new == [k \in there \cup RestOfWords(n) |->
                     IF k >= n THEN "0" ELSE Questa!Converted(BitAt(p, from[k], d))]
<1>1. /\ value' \in Written(value, new, 0..(n - 1) \ there)
      /\ ret' = 1
      /\ partsel' = partsel
  <2> DEFINE bits == [k \in there \cup RestOfWords(n) |->
                        IF k >= n THEN "0"
                        ELSE Questa!Converted(Questa!BitAt(p, from[k], d))]
  <2>1. bits = new
    BY QuestaDesign
  <2>2. /\ Questa!SizeOf(p) = n /\ Questa!There(p) = There(p)
        /\ Questa!RestOfWords(n) = RestOfWords(n)
    BY QuestaFoundFacts, QuestaDesign
  <2>3. /\ value' \in Questa!Written(value, bits, 0..(n - 1) \ there)
        /\ ret' = 1
        /\ partsel' = partsel
    BY <2>2 DEF Questa!uvm_register_get_vhdl
  <2> HIDE DEF bits, new
  <2> QED BY <2>1, <2>3, QuestaDesign
<1>2. /\ Selects(p) /\ n \in Nat \ {0} /\ MaxWidth \in Nat /\ WordBits \in Nat
      /\ p.name \in Signals
  BY SelectedFacts, WidthAssumption, VhdlAssumption DEF Selects
<1>3. \A k \in DOMAIN new : new[k] \in Bit4
  BY ConvertedFacts DEF Bit4
<1>4. /\ value' \in Value
      /\ \A i \in 0..(MaxWidth - 1) : i \in DOMAIN new => value'[i] = new[i]
  <2> HIDE DEF new
  <2> QED BY <1>1, <1>3, WrittenFacts DEF Inv
<1>5. ASSUME Exists(p), n <= MaxWidth, n <= WordBits
      PROVE  ReadsRight(p, value', d)
  <2>1. There(p) = 0..(n - 1)
    BY <1>2, <1>5, ThereFacts
  <2>2. \A i \in 0..(n - 1) : Questa!Place(n, i) = i
    BY <1>2, <1>5, PlaceFacts
  <2> HIDE DEF n
  <2>3. ASSUME NEW i \in 0..(n - 1)
        PROVE  value'[i] = Questa!Converted(BitAt(p, i, d))
    <3>1. i \in 0..(MaxWidth - 1) /\ ~(i >= n)
      BY <1>2, <1>5
    <3>2. from[i] = i
      BY <2>2
    <3>3. i \in there
      BY <2>1, <3>2
    <3> HIDE DEF from, there
    <3> QED BY <1>4, <3>1, <3>2, <3>3
  <2> QED BY <2>3, ConvertedFacts DEF ReadsRight, n
<1> QED BY <1>1, <1>4, <1>5

\* Bits of a signal are set to zeros and ones, whatever the value: those of the
\* promise when it is two-valued and its bits are the ones that Questa takes.
LEMMA QuestaSelected ==
  ASSUME NEW p, Selects(p), p.name \in Vhdl, ~Whole(p), NEW v \in Value,
         NEW u \in Extensions(v, Width[p.name]),
         NEW beside \in SUBSET {i \in There(p) : i >= Width[p.name]}
  PROVE  LET new == Questa!SelectedBits(p, u, beside) IN
         /\ DOMAIN new = {Selected(p)[i] : i \in There(p)}
         /\ \A b \in DOMAIN new : new[b] \in Bit4
         /\ (/\ Exists(p) /\ SizeOf(p) <= MaxWidth
             /\ \A i \in 0..(SizeOf(p) - 1) : v[i] \in {"0", "1"}
             /\ IsBit(p) => OwnBit(v, p.sel[1])) =>
              new = Spread(p, SizeOf(p), v)
<1> DEFINE n == SizeOf(p)
           W == Width[p.name]
           at(b) == CHOOSE j \in There(p) : Selected(p)[j] = b
           index(b) == IF IsSlice(p) THEN at(b) ELSE b
           bit(b) == IF index(b) \in beside \/ (index(b) < W /\ u[index(b)] = "1")
                       THEN "1" ELSE "0"
           new == [b \in {Selected(p)[i] : i \in There(p)} |-> bit(b)]
<1>1. Questa!SelectedBits(p, u, beside) = new
  BY QuestaFoundFacts, QuestaDesign DEF Questa!SelectedBits
<1>2. \A b \in DOMAIN new : new[b] \in Bit4
  BY DEF Bit4
<1>3. ASSUME Exists(p), n <= MaxWidth, \A i \in 0..(n - 1) : v[i] \in {"0", "1"},
             IsBit(p) => OwnBit(v, p.sel[1])
      PROVE  new = Spread(p, n, v)
  <2>1. /\ p.name \in Signals /\ W \in Nat \ {0} /\ n \in Nat \ {0}
        /\ MaxWidth \in Nat /\ There(p) = 0..(n - 1) /\ n \in 0..SizeOf(p)
        /\ IsPath(p)
    BY <1>3, SelectedFacts, ThereFacts, WidthAssumption DEF Exists, Selects
  <2>2. \A i \in 0..(MaxWidth - 1) : u[i] = v[i]
    BY <2>1, ExtensionFacts
  <2>3. ASSUME NEW i \in 0..(n - 1)
        PROVE  bit(Selected(p)[i]) = v[i]
    <3>1. i \in 0..(MaxWidth - 1) /\ v[i] \in {"0", "1"}
      BY <1>3, <2>1
    <3>2. CASE IsSlice(p)
      <4>1. index(Selected(p)[i]) = i
        <5>1. \A j \in There(p) : Selected(p)[j] = Selected(p)[i] => j = i
          BY <2>1, SelectedFacts
        <5>2. i \in There(p)
          BY <2>1
        <5> QED BY <3>2, <5>1, <5>2
      <4>2. n <= W
        <5>1. /\ DOMAIN p.sel = {1, 2} /\ p.sel[1] \in Nat /\ p.sel[2] \in Nat
              /\ p.sel[1] < W /\ p.sel[2] < W
          BY <1>3, <2>1, <3>2, PathKinds DEF Exists
        <5>2. IF p.sel[1] > p.sel[2] THEN n = p.sel[1] - p.sel[2] + 1
              ELSE n = p.sel[2] - p.sel[1] + 1
          BY <3>2, SelectedFacts
        <5> HIDE DEF n, W
        <5> QED BY <2>1, <5>1, <5>2
      <4> HIDE DEF index, n, W
      <4>3. i < W /\ i \notin beside
        BY <2>1, <4>2 DEF W
      <4>4. u[i] = v[i]
        BY <2>2, <3>1
      <4> QED BY <3>1, <4>1, <4>3, <4>4
    <3>3. CASE IsBit(p)
      <4>1. n = 1 /\ i = 0 /\ Selected(p)[i] = p.sel[1] /\ ~IsSlice(p)
        <5>1. n = 1 /\ Selected(p)[0] = p.sel[1]
          BY <3>3, SelectedFacts
        <5>2. i = 0
          BY <5>1
        <5> QED BY <2>1, <3>3, <5>1, <5>2, PathKinds
      <4>2. beside = {}
        <5>1. There(p) = {0}
          BY <2>1, <4>1
        <5> QED BY <2>1, <5>1
      <4>3. p.sel[1] \in Nat /\ p.sel[1] < W /\ p.sel[1] < MaxWidth /\ v[p.sel[1]] = v[0]
        BY <1>3, <2>1, <3>3, PathKinds DEF OwnBit, Exists
      <4>4. u[p.sel[1]] = v[0]
        BY <2>1, <2>2, <4>3
      <4> QED BY <3>1, <4>1, <4>2, <4>3, <4>4
    <3> QED BY <2>1, <3>2, <3>3, PathKinds
  <2> HIDE DEF bit
  <2>4. /\ DOMAIN Spread(p, n, v) = {Selected(p)[i] : i \in 0..(n - 1)}
        /\ \A i \in 0..(n - 1) : Spread(p, n, v)[Selected(p)[i]] = v[i]
    <3> HIDE DEF n, new, index
    <3>1. n \in 0..SizeOf(p)
      BY <2>1
    <3>2. Gives(Spread(p, n, v), p, n, v)
      BY <3>1, SpreadGives
    <3> QED BY <3>2, Zenon DEF Gives
  <2>5. DOMAIN new = DOMAIN Spread(p, n, v)
    BY <2>1, <2>4
  <2>6. \A b \in DOMAIN new : new[b] = Spread(p, n, v)[b]
    BY <2>1, <2>3, <2>4
  <2>7. new = [b \in DOMAIN new |-> new[b]]
        /\ Spread(p, n, v) = [b \in DOMAIN Spread(p, n, v) |-> Spread(p, n, v)[b]]
    BY DEF Spread
  <2> HIDE DEF new, n
  <2> QED BY <2>5, <2>6, <2>7
<1>4. DOMAIN new = {Selected(p)[i] : i \in There(p)}
  OBVIOUS
<1> HIDE DEF new
<1> QED BY <1>1, <1>2, <1>3, <1>4

LEMMA QuestaSetVhdl ==
  ASSUME Inv, NEW p, IsPath(p), p.name \in Vhdl, NEW v \in Value,
         NEW how \in {"deposit", "force", "release"},
         Questa!uvm_register_set_vhdl(p, v, how)
  PROVE  /\ IsDesign(sim') /\ SameBut(p, sim, sim') /\ ret' = 1
         /\ (/\ Exists(p) /\ SizeOf(p) <= MaxWidth
             /\ ~Whole(p) =>
                  \/ how = "release"
                  \/ /\ how = "deposit"
                     /\ \A i \in 0..(SizeOf(p) - 1) : v[i] \in {"0", "1"}
                     /\ IsBit(p) => OwnBit(v, p.sel[1])) =>
              sim' = Put(p.name, Spread(p, SizeOf(p), v), how)
         /\ Whole(p) => \E u \in Extensions(v, SizeOf(p)) :
                         sim' = Put(p.name, Spread(p, SizeOf(p), u), how)
<1>1. Selects(p) /\ p.name \in Signals
  BY VhdlAssumption DEF Selects
<1>2. ret' = 1
  BY DEF Questa!uvm_register_set_vhdl
<1>3. PICK u \in Extensions(v, Width[p.name]),
           beside \in SUBSET {i \in There(p) : i >= Width[p.name]} :
        sim' = IF Whole(p) THEN Put(p.name, Spread(p, SizeOf(p), u), how)
               ELSE Put(p.name, Questa!SelectedBits(p, u, beside),
                        IF how = "release" THEN how ELSE "deposit")
  BY QuestaFoundFacts, QuestaDesign DEF Questa!uvm_register_set_vhdl
<1>4. CASE Whole(p)
  <2>1. Exists(p) /\ SizeOf(p) = Width[p.name]
    BY <1>1, <1>4, PathKinds, SelectedFacts DEF Exists
  <2>2. SizeOf(p) \in 0..Reached(p)
    BY <1>1, <2>1, ReachedFacts, SelectedFacts
  <2>3. u \in Extensions(v, SizeOf(p)) /\ sim' = Put(p.name, Spread(p, SizeOf(p), u), how)
    BY <1>3, <1>4, <2>1
  <2>4. IsDesign(sim') /\ SameBut(p, sim, sim')
    BY <1>1, <2>2, <2>3, WriteFacts DEF Inv
  <2>5. SizeOf(p) <= MaxWidth => sim' = Put(p.name, Spread(p, SizeOf(p), v), how)
    BY <1>1, <2>2, <2>3, WriteFacts DEF Inv
  <2> QED BY <1>2, <1>4, <2>3, <2>4, <2>5
<1>5. CASE ~Whole(p)
  <2> DEFINE new == Questa!SelectedBits(p, u, beside)
             really == IF how = "release" THEN how ELSE "deposit"
  <2>1. sim' = Put(p.name, new, really) /\ really \in {"deposit", "force", "release"}
    BY <1>3, <1>5
  <2>2. /\ DOMAIN new = {Selected(p)[i] : i \in There(p)}
        /\ \A b \in DOMAIN new : new[b] \in Bit4
        /\ (/\ Exists(p) /\ SizeOf(p) <= MaxWidth
            /\ \A i \in 0..(SizeOf(p) - 1) : v[i] \in {"0", "1"}
            /\ IsBit(p) => OwnBit(v, p.sel[1])) =>
             new = Spread(p, SizeOf(p), v)
    BY <1>1, <1>5, QuestaSelected
  <2> HIDE DEF new
  <2>3. DOMAIN new \subseteq Chosen(p)
    BY <1>1, <2>2, ThereFacts
  <2>4. IsDesign(sim') /\ SameBut(p, sim, sim')
    <3> HIDE DEF really
    <3> QED BY <1>1, <2>1, <2>2, <2>3, PutFacts DEF Inv
  <2>5. ASSUME Exists(p), how = "release"
        PROVE  sim' = Put(p.name, Spread(p, SizeOf(p), v), how)
    <3>1. There(p) = 0..(SizeOf(p) - 1) /\ SizeOf(p) \in 0..SizeOf(p)
      BY <1>1, <2>5, ThereFacts, SelectedFacts
    <3>2. DOMAIN new = DOMAIN Spread(p, SizeOf(p), v)
      BY <1>1, <2>2, <3>1, SpreadFacts
    <3> QED BY <2>1, <2>5, <3>2, ReleaseFacts
  <2> QED BY <1>2, <1>5, <2>1, <2>2, <2>4, <2>5
<1> QED BY <1>4, <1>5

LEMMA QuestaCheck ==
  ASSUME Inv, NEW c \in Calls, simulator = "questa", c.op = "check",
         Questa!uvm_hdl_check_path(c.path)
  PROVE  Outcome(c) /\ partsel' \in BOOLEAN
<1> DEFINE p == c.path
<1>1. /\ ret' = IF p.name \in Vhdl \/ QuestaFound(p) THEN 1 ELSE 0
      /\ sim' = sim /\ value' = value /\ ended' = ended /\ partsel' = partsel
  BY QuestaFoundFacts DEF Questa!uvm_hdl_check_path
<1>2. ASSUME Supports(simulator, c)
      PROVE  Promise!Promised(c)
  <2>1. p.name \in Vhdl \/ QuestaFound(p) <=> Exists(p)
    BY <1>2, QuestaSupports DEF QuestaFound
  <2> QED BY <1>1, <2>1, CheckPromised
<1>3. Confined(c) /\ Anyway(c)
  <2>1. ~Exists(p) /\ p.name \notin Vhdl => ret' = 0
    BY <1>1 DEF QuestaFound
  <2> QED BY <1>1, <2>1, SameFacts DEF Inv, Confined, Anyway
<1> QED BY <1>1, <1>2, <1>3 DEF Outcome, Inv

LEMMA QuestaRead ==
  ASSUME Inv, NEW c \in Calls, simulator = "questa", c.path.name \notin Unpacked,
         c.op = "read", Questa!uvm_hdl_read(c.path)
  PROVE  Outcome(c) /\ partsel' \in BOOLEAN
<1> DEFINE p == c.path
<1>1. sim' = sim /\ IsPath(p) /\ IsDesign(sim)
  BY CallFacts DEF Questa!uvm_hdl_read, Inv
<1>2. /\ value' \in Value /\ ret' \in {0, 1} /\ ended' \in BOOLEAN /\ partsel' \in BOOLEAN
      /\ Supports(simulator, c) =>
           /\ ended' = ended
           /\ IF Accessible(p) THEN ret' = 1 /\ ReadsRight(p, value', sim) ELSE ret' = 0
      /\ p.name \notin Vhdl /\ ret' = 1 => ReadsOn(p, value', sim)
      /\ ~Exists(p) /\ p.name \notin Vhdl => ret' = 0
  <2>1. CASE p.name \in Vhdl
    <3>1. Questa!uvm_register_get_vhdl(p, sim) /\ Questa!Undefined(GetOverflows(p))
      BY <2>1, QuestaFoundFacts DEF Questa!uvm_hdl_read
    <3>2. /\ value' \in Value /\ ret' = 1 /\ partsel' = partsel
          /\ Exists(p) /\ SizeOf(p) <= MaxWidth /\ SizeOf(p) <= WordBits =>
               ReadsRight(p, value', sim)
      BY <1>1, <2>1, <3>1, QuestaGetVhdl
    <3>3. Supports(simulator, c) =>
            /\ Exists(p) /\ SizeOf(p) <= MaxWidth /\ SizeOf(p) <= WordBits
            /\ Accessible(p) /\ ~GetOverflows(p)
      BY <2>1, QuestaSupports DEF Accessible
    <3>4. ended' \in BOOLEAN /\ (~GetOverflows(p) => ended' = ended)
      BY <3>1 DEF Questa!Undefined, Inv
    <3> QED BY <2>1, <3>2, <3>3, <3>4 DEF Inv
  <2>2. CASE p.name \notin Vhdl /\ IsSlice(p)
    <3>1. Questa!uvm_hdl_get_vlog_partsel(p)
      BY <2>2, QuestaFoundFacts, QuestaDesign DEF Questa!uvm_hdl_read, Questa!uvm_hdl_get_vlog
    <3>2. /\ value' \in Value /\ ended' \in BOOLEAN /\ partsel' \in BOOLEAN
          /\ ret' = IF Exists(p) THEN 1 ELSE 0
          /\ SizeOf(p) <= MaxWidth =>
               ended' = ended /\ (Exists(p) => ReadsRight(p, value', sim))
          /\ Exists(p) => ReadsOn(p, value', sim)
      BY <1>1, <2>2, <3>1, QuestaGetSlice
    <3>3. Supports(simulator, c) => SizeOf(p) <= MaxWidth
      BY <2>2, QuestaSupports
    <3> QED BY <3>2, <3>3 DEF Accessible
  <2>3. CASE p.name \notin Vhdl /\ ~IsSlice(p)
    <3>1. Questa!uvm_hdl_get_vlog(p, sim)
      BY <2>3, QuestaFoundFacts DEF Questa!uvm_hdl_read
    <3>2. /\ value' \in Value /\ ended' = ended /\ partsel' \in BOOLEAN
          /\ IF Exists(p) /\ SizeOf(p) <= MaxWidth
               THEN ret' = 1 /\ ReadsRight(p, value', sim)
               ELSE ret' = 0
      BY <1>1, <2>3, <3>1, QuestaGetVlog
    <3> QED BY <2>3, <3>2, ReadsOnFacts DEF Accessible, Inv
  <2> QED BY <2>1, <2>2, <2>3
<1>3. ASSUME Supports(simulator, c)
      PROVE  Promise!Promised(c)
  BY <1>1, <1>2, <1>3, ReadPromised
<1>4. Confined(c) /\ Anyway(c)
  BY <1>1, <1>2, SameFacts DEF Inv, Confined, Anyway
<1> QED BY <1>1, <1>2, <1>3, <1>4 DEF Outcome, Inv

LEMMA QuestaSet ==
  ASSUME Inv, NEW c \in Calls, simulator = "questa", c.path.name \notin Unpacked,
         c.op \in {"deposit", "force", "release"},
         Questa!uvm_hdl_set(c.path, IF c.op = "release" THEN value ELSE c.arg, c.op)
  PROVE  Outcome(c) /\ partsel' \in BOOLEAN
<1> DEFINE p == c.path
           n == SizeOf(p)
           v == IF c.op = "release" THEN value ELSE c.arg
<1>1. value' = value /\ partsel' = partsel /\ IsPath(p) /\ v \in Value
  BY CallFacts DEF Questa!uvm_hdl_set, Inv
<1> HIDE DEF v
<1>2. /\ IsDesign(sim') /\ SameBut(p, sim, sim') /\ ret' \in {0, 1} /\ ended' \in BOOLEAN
      /\ Supports(simulator, c) =>
           /\ ended' = ended
           /\ IF Writable(p) THEN ret' = 1 /\ sim' = Put(p.name, Spread(p, n, v), c.op)
              ELSE ret' = 0
      /\ Reaches(simulator, p) =>
           \E u \in Extensions(v, n) : sim' = Put(p.name, Spread(p, n, u), c.op)
      /\ ~Exists(p) /\ p.name \notin Vhdl => ret' = 0
  <2>1. CASE p.name \in Vhdl
    <3>1. Questa!uvm_register_set_vhdl(p, v, c.op) /\ Questa!Undefined(SetOverflows(p))
      BY <2>1, QuestaFoundFacts DEF Questa!uvm_hdl_set, v
    <3>2. /\ IsDesign(sim') /\ SameBut(p, sim, sim') /\ ret' = 1
          /\ (/\ Exists(p) /\ n <= MaxWidth
              /\ ~Whole(p) =>
                   \/ c.op = "release"
                   \/ /\ c.op = "deposit"
                      /\ \A i \in 0..(n - 1) : v[i] \in {"0", "1"}
                      /\ IsBit(p) => OwnBit(v, p.sel[1])) =>
               sim' = Put(p.name, Spread(p, n, v), c.op)
          /\ Whole(p) => \E u \in Extensions(v, n) :
                          sim' = Put(p.name, Spread(p, n, u), c.op)
      BY <1>1, <2>1, <3>1, QuestaSetVhdl
    <3>3. ASSUME Supports(simulator, c)
          PROVE  /\ Exists(p) /\ n <= MaxWidth /\ Writable(p) /\ ~SetOverflows(p)
                 /\ ~Whole(p) =>
                      \/ c.op = "release"
                      \/ /\ c.op = "deposit"
                         /\ \A i \in 0..(n - 1) : v[i] \in {"0", "1"}
                         /\ IsBit(p) => OwnBit(v, p.sel[1])
      <4>1. /\ p.name \notin ReadOnly /\ Exists(p) /\ n <= MaxWidth /\ ~SetOverflows(p)
            /\ ~Whole(p) =>
                 /\ c.op # "force"
                 /\ c.op = "deposit" =>
                      /\ \A i \in 0..(n - 1) : c.arg[i] \in {"0", "1"}
                      /\ IsBit(p) => OwnBit(c.arg, p.sel[1])
        BY <2>1, <3>3, QuestaSupports
      <4>2. c.op = "deposit" => v = c.arg
        BY DEF v
      <4> QED BY <4>1, <4>2 DEF Writable, Accessible
    <3>4. ended' \in BOOLEAN /\ (~SetOverflows(p) => ended' = ended)
      BY <3>1 DEF Questa!Undefined, Inv
    <3>5. Reaches(simulator, p) => Whole(p)
      BY <2>1 DEF Reaches
    <3> QED BY <2>1, <3>2, <3>3, <3>4, <3>5
  <2>2. CASE p.name \notin Vhdl
    <3>1. Questa!uvm_hdl_set_vlog(p, v, c.op) /\ ended' = ended
      BY <2>2, QuestaFoundFacts DEF Questa!uvm_hdl_set, v
    <3>2. /\ IsDesign(sim') /\ SameBut(p, sim, sim')
          /\ ret' = IF Exists(p) THEN 1 ELSE 0
          /\ Exists(p) /\ n <= MaxWidth => sim' = Put(p.name, Spread(p, n, v), c.op)
          /\ Exists(p) => \E u \in Extensions(v, n) :
                           sim' = Put(p.name, Spread(p, n, u), c.op)
      BY <1>1, <2>2, <3>1, QuestaSetVlog
    <3>3. Supports(simulator, c) =>
            p.name \notin ReadOnly /\ (Exists(p) => n <= MaxWidth)
      BY QuestaSupports
    <3> QED BY <3>1, <3>2, <3>3 DEF Reaches, Writable, Accessible, Inv
  <2> QED BY <2>1, <2>2
<1>3. Outcome(c)
  BY <1>1, <1>2, SetOutcome DEF v
<1> QED BY <1>1, <1>3 DEF Inv

LEMMA QuestaReleaseAndRead ==
  ASSUME Inv, NEW c \in Calls, simulator = "questa", c.path.name \notin Unpacked,
         c.op = "release_and_read", Questa!uvm_hdl_release_and_read(c.path)
  PROVE  Outcome(c) /\ partsel' \in BOOLEAN
<1> DEFINE p == c.path
           n == SizeOf(p)
<1>1. IsPath(p) /\ value \in Value
  BY CallFacts DEF Inv
<1>2. /\ IsDesign(sim') /\ SameBut(p, sim, sim') /\ value' \in Value
      /\ ret' \in {0, 1} /\ ended' \in BOOLEAN /\ partsel' \in BOOLEAN
      /\ Supports(simulator, c) =>
           /\ ended' = ended
           /\ IF Writable(p)
                THEN ret' = 1 /\ sim' = Freed(p, n) /\ ReadsRight(p, value', sim')
                ELSE ret' = 0
      /\ Reaches(simulator, p) => sim' = Freed(p, n)
      /\ ~Exists(p) /\ p.name \notin Vhdl => ret' = 0
  <2>1. CASE p.name \in Vhdl
    <3>1. /\ Questa!uvm_register_set_vhdl(p, value, "release")
          /\ Questa!uvm_register_get_vhdl(p, sim')
          /\ Questa!Undefined(SetOverflows(p) \/ GetOverflows(p))
      BY <2>1, QuestaFoundFacts DEF Questa!uvm_hdl_release_and_read
    <3>2. /\ IsDesign(sim') /\ SameBut(p, sim, sim')
          /\ Exists(p) /\ n <= MaxWidth => sim' = Put(p.name, Spread(p, n, value), "release")
          /\ Whole(p) => \E u : sim' = Put(p.name, Spread(p, n, u), "release")
      BY <1>1, <2>1, <3>1, QuestaSetVhdl
    <3>3. /\ value' \in Value /\ ret' = 1 /\ partsel' = partsel
          /\ Exists(p) /\ n <= MaxWidth /\ n <= WordBits => ReadsRight(p, value', sim')
      BY <1>1, <2>1, <3>1, QuestaGetVhdl
    <3>4. Supports(simulator, c) =>
            /\ Exists(p) /\ n <= MaxWidth /\ n <= WordBits /\ Writable(p)
            /\ ~SetOverflows(p) /\ ~GetOverflows(p)
      BY <2>1, QuestaSupports DEF Writable, Accessible
    <3>5. Exists(p) => \A u : Freed(p, n) = Put(p.name, Spread(p, n, u), "release")
      <4>1. Exists(p) => Selects(p) /\ p.name \in Signals /\ n \in 0..Reached(p)
        BY <1>1, SelectedFacts, ReachedFacts DEF Exists, Selects
      <4> QED BY <4>1, FreedFacts DEF Inv
    <3>6. /\ ended' \in BOOLEAN
          /\ ~SetOverflows(p) /\ ~GetOverflows(p) => ended' = ended
      BY <3>1 DEF Questa!Undefined, Inv
    <3>7. Reaches(simulator, p) => Exists(p) /\ Whole(p)
      BY <2>1 DEF Reaches
    <3> QED BY <2>1, <3>2, <3>3, <3>4, <3>5, <3>6, <3>7 DEF Inv
  <2>2. CASE p.name \notin Vhdl /\ Exists(p)
    <3>1. sim' = Freed(p, n)
      BY <2>2, QuestaFoundFacts, QuestaDesign DEF Questa!uvm_hdl_release_and_read
    <3>2. /\ Selects(p) /\ p.name \in Signals /\ n \in 0..Reached(p) /\ n \in Nat \ {0}
          /\ \A i \in 0..(n - 1) : Selected(p)[i] \in Nat /\ Selected(p)[i] < Width[p.name]
      BY <1>1, <2>2, SelectedFacts, ReachedFacts DEF Exists, Selects
    <3>3. IsDesign(sim') /\ SameBut(p, sim, sim')
      BY <3>1, <3>2, FreedFacts DEF Inv
    <3>4. CASE IsSlice(p)
      <4> DEFINE last == Selected(p)[n - 1]
                 q == [p EXCEPT !.sel = <<last>>]
      <4>1. Questa!uvm_hdl_get_vlog(q, sim')
        BY <2>2, <3>4, QuestaFoundFacts, QuestaDesign
        DEF Questa!uvm_hdl_release_and_read
      <4>2. last \in Nat
        BY <3>2
      <4>3. q = [name |-> p.name, sel |-> <<last>>]
        <5> HIDE DEF last
        <5>1. p = [name |-> p.name, sel |-> p.sel]
          BY <1>1 DEF IsPath
        <5> QED BY <5>1
      <4> HIDE DEF last, q
      <4>4. IsPath(q) /\ ~IsSlice(q) /\ q.name \notin Vhdl
        BY <2>2, <4>2, <4>3 DEF IsPath, IsSlice
      <4>5. /\ value' \in Value /\ ended' = ended /\ partsel' \in BOOLEAN
            /\ ret' \in {0, 1}
        BY <3>3, <4>1, <4>4, QuestaGetVlog
      <4>6. ~Supports(simulator, c)
        BY <3>4, QuestaSupports
      <4> QED BY <2>2, <3>1, <3>3, <4>5, <4>6 DEF Inv
    <3>5. CASE ~IsSlice(p)
      <4>1. Questa!uvm_hdl_get_vlog(p, sim')
        BY <2>2, <3>5, QuestaFoundFacts, QuestaDesign
        DEF Questa!uvm_hdl_release_and_read
      <4>2. /\ value' \in Value /\ ended' = ended /\ partsel' \in BOOLEAN
            /\ IF Exists(p) /\ SizeOf(p) <= MaxWidth
                 THEN ret' = 1 /\ ReadsRight(p, value', sim')
                 ELSE ret' = 0
        BY <1>1, <2>2, <3>3, <3>5, <4>1, QuestaGetVlog
      <4>3. Supports(simulator, c) => Writable(p)
        BY <2>2, QuestaSupports DEF Writable, Accessible
      <4> QED BY <2>2, <3>1, <3>3, <4>2, <4>3 DEF Writable, Accessible, Inv
    <3> QED BY <3>4, <3>5
  <2>3. CASE p.name \notin Vhdl /\ ~Exists(p)
    <3>1. /\ sim' = IF Reached(p) = 0 THEN sim ELSE Freed(p, Reached(p))
          /\ ret' = 0 /\ value' = value /\ ended' = ended /\ partsel' = partsel
      BY <2>3, QuestaFoundFacts, QuestaDesign DEF Questa!uvm_hdl_release_and_read
    <3>2. IsDesign(sim') /\ SameBut(p, sim, sim')
      <4>1. CASE Reached(p) = 0
        BY <3>1, <4>1, SameFacts DEF Inv
      <4>2. CASE Reached(p) # 0
        <5>1. p.name \in Signals
          BY <4>2 DEF Reached
        <5>2. Selects(p) /\ Reached(p) \in 0..Reached(p)
          BY <1>1, <5>1, ReachedFacts, SelectedFacts DEF Selects
        <5> QED BY <3>1, <4>2, <5>1, <5>2, FreedFacts DEF Inv
      <4> QED BY <4>1, <4>2
    <3> QED BY <2>3, <3>1, <3>2 DEF Reaches, Writable, Accessible, Inv
  <2> QED BY <2>1, <2>2, <2>3
<1>3. ASSUME Supports(simulator, c)
      PROVE  Promise!Promised(c)
  BY <1>1, <1>2, <1>3, ReleaseAndReadPromised
<1>4. Confined(c) /\ Anyway(c)
  BY <1>2 DEF Confined, Anyway
<1> QED BY <1>2, <1>3, <1>4 DEF Outcome

LEMMA QuestaOutcome ==
  ASSUME Inv, NEW c \in Calls, CallQuesta(c)
  PROVE  Outcome(c) /\ partsel' \in BOOLEAN
<1>1. simulator = "questa" /\ c.path.name \notin Unpacked
  BY DEF CallQuesta
<1>2. CASE c.op = "check"
  BY <1>1, <1>2, QuestaCheck DEF CallQuesta
<1>3. CASE c.op = "read"
  BY <1>1, <1>3, QuestaRead DEF CallQuesta
<1>4. CASE c.op \in {"deposit", "force", "release"}
  BY <1>1, <1>4, QuestaSet
  DEF CallQuesta, Questa!uvm_hdl_deposit, Questa!uvm_hdl_force,
      Questa!uvm_hdl_release
<1>5. CASE c.op = "release_and_read"
  BY <1>1, <1>5, QuestaReleaseAndRead DEF CallQuesta
<1> QED BY <1>1, <1>2, <1>3, <1>4, <1>5, CallFacts

-----------------------------------------------------------------------------
(* The theorems                                                            *)

LEMMA CallsOutcome ==
  ASSUME Inv, Next
  PROVE  \E c \in Calls : /\ Outcome(c) /\ partsel' \in BOOLEAN
                          /\ ~ended /\ calls < MaxCalls /\ call' = c
                          /\ calls' = calls + 1 /\ simulator' = simulator
<1>1. PICK c \in Calls : CallXcelium(c) \/ CallQuesta(c) \/ CallVcs(c)
  BY DEF Next
<1>2. Outcome(c) /\ partsel' \in BOOLEAN
  BY <1>1, XceliumOutcome, QuestaOutcome, VcsOutcome
<1>3. Called(c)
  BY <1>1 DEF CallXcelium, CallQuesta, CallVcs
<1> QED BY <1>2, <1>3 DEF Called

LEMMA InitInv ==
  ASSUME Init
  PROVE  Inv
<1>1. IsDesign(sim)
  BY CallsAssumption DEF Init, IsDesign
<1>2. value \in Value
  BY DEF Init, Value, Bit4
<1>3. calls \in 0..MaxCalls
  BY CallsAssumption DEF Init
<1>4. /\ ret \in {0, 1} /\ ended \in BOOLEAN /\ simulator \in Simulators
      /\ partsel \in BOOLEAN /\ call = <<>>
  BY DEF Init
<1> QED BY <1>1, <1>2, <1>3, <1>4 DEF Inv

LEMMA NextInv ==
  ASSUME Inv, [Next]_vars
  PROVE  Inv'
<1>1. CASE Next
  <2>1. PICK c \in Calls : /\ Outcome(c) /\ partsel' \in BOOLEAN
                           /\ ~ended /\ calls < MaxCalls /\ call' = c
                           /\ calls' = calls + 1 /\ simulator' = simulator
    BY <1>1, CallsOutcome
  <2>2. calls' \in 0..MaxCalls
    BY <2>1, CallsAssumption DEF Inv
  <2>3. IsDesign(sim)'
    BY <2>1 DEF Outcome, IsDesign
  <2> QED BY <2>1, <2>2, <2>3 DEF Inv, Outcome, Calls, Value, Simulators
<1>2. CASE UNCHANGED vars
  BY <1>2 DEF Inv, vars, IsDesign, Calls, Value, Simulators
<1> QED BY <1>1, <1>2

LEMMA InvHolds == Spec => []Inv
<1>1. Init => Inv
  BY InitInv
<1>2. Inv /\ [Next]_vars => Inv'
  BY NextInv
<1> QED BY <1>1, <1>2, PTL DEF Spec

\* Whatever the calls, the design keeps its shape - every signal the values
\* its language allows, every force on a bit that there is - and the caller's
\* variable the shape of a value: no function of uvm_hdl_xcelium.c,
\* uvm_hdl_questa.c or uvm_hdl_vcs.c writes anything else, not even for a
\* path that is not found or does not fit.
THEOREM BackdoorTypeCorrect == Spec => []TypeOK
<1>1. Inv => TypeOK
  BY DEF Inv, TypeOK, IsDesign
<1> QED BY <1>1, InvHolds, PTL

\* On every simulator every sequence of calls does what uvm_hdl.svh says of
\* the functions, with the exceptions that Supports lists, among them what
\* does not fit the value or Questa's buffers.  A call that is one of them may
\* end the simulation or return the wrong result, but touches nothing beside
\* the bits its path selects, sets and releases what Reaches says, reads of
\* Verilog what the value can hold, and finds no Verilog path that is not there.
THEOREM BackdoorKeepsPromise == Spec => KeepsPromise
<1>1. Init => Promise!Init
  <2> SUFFICES ASSUME Init PROVE Promise!Init
    OBVIOUS
  <2>1. value \in Value
    BY InitInv DEF Inv
  <2> QED BY <2>1, PromiseDesign DEF Init, Promise!Init
<1>2. Inv /\ [Next]_vars => [Promise!Next]_(Promise!vars)
  <2> SUFFICES ASSUME Inv, [Next]_vars PROVE [Promise!Next]_(Promise!vars)
    OBVIOUS
  <2>1. CASE Next
    <3>1. PICK c \in Calls : /\ Outcome(c) /\ partsel' \in BOOLEAN
                             /\ ~ended /\ calls < MaxCalls /\ call' = c
                             /\ calls' = calls + 1 /\ simulator' = simulator
      BY <2>1, CallsOutcome
    <3>2. IF Supports(simulator, c) THEN Promise!Promised(c) ELSE Promise!Unpromised(c)
      BY <3>1, CallFacts, NothingPromised DEF Outcome
    <3>3. Promise!Next
      BY <3>1, <3>2 DEF Promise!Next
    <3> QED BY <3>3
  <2>2. CASE UNCHANGED vars
    BY <2>2 DEF vars, Promise!vars
  <2> QED BY <2>1, <2>2
<1> QED BY <1>1, <1>2, InvHolds, PTL DEF Spec, KeepsPromise, Promise!Spec
=============================================================================
