------------------------------ MODULE HdlDesign ------------------------------
(***************************************************************************)
(* The design as the HDL backdoor sees it through the simulator's own      *)
(* interfaces (VPI, VHPI, MHPI, FLI), and the calls that reach it.  The    *)
(* backdoor functions are in HdlXcelium, HdlQuesta and HdlVcs.             *)
(*                                                                         *)
(* A path is the name of an object and a selection: <<>> for none, <<b>>   *)
(* for [b], <<l, r>> for [l:r].  A value is a packed vector of MaxWidth    *)
(* four-state bits, bit 0 the rightmost, kept in words of WordBits bits.   *)
(***************************************************************************)
EXTENDS Integers, Sequences, FiniteSets

CONSTANTS
  Signals,    \* the objects of the design
  Vhdl,       \* those that are VHDL signals; the others are Verilog's
  Scalars,    \* the VHDL signals that are single bits, no vectors
  ReadOnly,   \* those the simulator gives no write access to
  Unpacked,   \* those that are unpacked arrays or structures, no vectors
  Width,      \* their widths in bits, declared [Width - 1 : 0]
  WordBits,   \* the bits of a word: 32
  MaxWidth    \* UVM_HDL_MAX_WIDTH

ASSUME WidthAssumption ==
  /\ WordBits \in Nat \ {0}
  /\ MaxWidth \in Nat \ {0}
  /\ Width \in [Signals -> Nat \ {0}]

\* The VHDL signals are bits and vectors of bits.
ASSUME VhdlAssumption ==
  /\ Vhdl \subseteq Signals /\ Vhdl \cap Unpacked = {}
  /\ Scalars \subseteq Vhdl /\ \A s \in Scalars : Width[s] = 1

VARIABLES
  sim,    \* the design's state
  value,  \* the variable the caller passes for a value
  ret,    \* what the last call returned
  ended   \* TRUE once a call has ended the simulation

Bit4 == {"0", "1", "x", "z"}
Value == [0..(MaxWidth - 1) -> Bit4]

\* (n - 1) / 32 + 1 of the code: the words n bits take.
Chunks(n) == (n - 1) \div WordBits + 1

-----------------------------------------------------------------------------
(* Paths                                                                   *)

IsPath(p) ==
  /\ p = [name |-> p.name, sel |-> p.sel]
  /\ p.sel \in Seq(Nat) /\ Len(p.sel) <= 2

Whole(p) == p.sel = <<>>
IsBit(p) == Len(p.sel) = 1
IsSlice(p) == Len(p.sel) = 2

\* The bits of the object a path selects, rightmost first, from index 0.  The
\* functions that split a slice go through them in this order, with width
\* and incr of the code.
Selected(p) ==
  CASE Whole(p) -> [i \in 0..(Width[p.name] - 1) |-> i]
    [] IsBit(p) -> [i \in {0} |-> p.sel[1]]
    [] IsSlice(p) -> LET l == p.sel[1]  r == p.sel[2] IN
         IF l > r THEN [i \in 0..(l - r) |-> r + i]
                  ELSE [i \in 0..(r - l) |-> r - i]

SizeOf(p) == Cardinality(DOMAIN Selected(p))

Exists(p) ==
  p.name \in Signals /\ \A i \in DOMAIN p.sel : p.sel[i] < Width[p.name]

\* How many bits a loop over the path's bits does before one is not found.
Reached(p) ==
  IF p.name \notin Signals THEN 0
  ELSE Cardinality({i \in DOMAIN Selected(p) :
                      \A j \in 0..i : Selected(p)[j] < Width[p.name]})

-----------------------------------------------------------------------------
(* The values of the design                                                *)

\* The nine values of a VHDL signal.
StdLogic == {"U", "X", "0", "1", "Z", "W", "L", "H", "-"}

\* The values signal s can have, bit for bit.
Contents(s) == [0..(Width[s] - 1) -> IF s \in Vhdl THEN StdLogic ELSE Bit4]

\* The value of signal s that stands for a four-state bit.
ValueIn(s, b) ==
  IF s \notin Vhdl THEN b
  ELSE CASE b = "x" -> "X" [] b = "z" -> "Z" [] OTHER -> b

\* sim.bits is the value of every bit of every signal, sim.forced the bits
\* under a force.  The simulator gives signal s the values in new, a map from
\* bits of s to bits: a deposit leaves forced bits alone, a force takes hold
\* of its bits, a release lets go of them and leaves their values.  An object
\* without write access stays as it is.
Put(s, new, how) ==
  LET given == CASE how = "force" -> DOMAIN new
                 [] how = "deposit" -> {b \in DOMAIN new : <<s, b>> \notin sim.forced}
                 [] how = "release" -> {}
      bits == {<<s, b>> : b \in DOMAIN new}
  IN  IF s \in ReadOnly THEN sim
      ELSE [bits |-> [sim.bits EXCEPT ![s] =
                       [b \in DOMAIN @ |->
                          IF b \in given THEN ValueIn(s, new[b]) ELSE @[b]]],
            forced |-> CASE how = "force" -> sim.forced \cup bits
                         [] how = "release" -> sim.forced \ bits
                         [] how = "deposit" -> sim.forced]

\* The first n bits of value v given to what the path selects.
Spread(p, n, v) ==
  LET to == Selected(p) IN
  [b \in {to[i] : i \in 0..(n - 1)} |-> v[CHOOSE i \in 0..(n - 1) : to[i] = b]]

\* The design after the first n bits that the path selects are released.
Freed(p, n) ==
  Put(p.name, [b \in {Selected(p)[i] : i \in 0..(n - 1)} |-> "0"], "release")

BitAt(p, i, state) == state.bits[p.name][Selected(p)[i]]

\* The value v as a function that reads n bits of it finds it: what follows it
\* in memory may be anything.
Extensions(v, n) ==
  {[i \in 0..(IF n > MaxWidth THEN n - 1 ELSE MaxWidth - 1) |-> IF i < MaxWidth THEN v[i] ELSE past[i]] :
     past \in [MaxWidth..(n - 1) -> Bit4]}

\* The value v after the bits of new have been written to it, and anything to
\* the bits of undefined.
Written(v, new, undefined) ==
  {[i \in DOMAIN v |-> IF i \in DOMAIN new THEN new[i]
                       ELSE IF i \in undefined THEN any[i] ELSE v[i]] :
     any \in [undefined -> Bit4]}

\* What becomes of the simulation when memory beside an object is written, is
\* freed twice, or the simulator is given no object.
Undefined(occurs) == IF occurs THEN ended' \in BOOLEAN ELSE UNCHANGED ended

\* The bits beyond the first size bits in the words these take.
RestOfWords(size) ==
  {i \in size..(MaxWidth - 1) : i < Chunks(size) * WordBits}
=============================================================================
