------------------------------ MODULE HdlQuesta ------------------------------
(***************************************************************************)
(* src/uvm-core/src/dpi/uvm_hdl_questa.c: the backdoor for Questa, over    *)
(* VPI for Verilog and the FLI for VHDL.                                   *)
(***************************************************************************)
EXTENDS HdlDesign

CONSTANTS
  VectorVal,     \* the size of the buffer a VHDL selection is set from: 128
  ReducedVector  \* the size of the one a VHDL slice is read into: 256

VARIABLE partsel  \* TRUE while a slice is read, and after that has failed

\* The simulator finds Verilog objects by name with or without a bit select.
VlogFound(p) == Exists(p) /\ ~IsSlice(p) /\ p.name \notin Vhdl

\* The FLI is asked for the name without its selection.
uvm_is_vhdl_path(p) == p.name \in Vhdl

-----------------------------------------------------------------------------
(* Verilog objects                                                         *)

\* Mutant: the loop over a slice goes on after a bit that is not found.
SetWithoutChecking(p, v, how) ==
  /\ IF Reached(p) = 0 THEN UNCHANGED sim
     ELSE \E u \in Extensions(v, Reached(p)) :
            sim' = Put(p.name, Spread(p, Reached(p), u), how)
  /\ ret' = IF Reached(p) = 0 THEN 0 ELSE 1

\* Bit after bit, up to the first that is not found; then the path names
\* that bit and is not found as a whole either.
uvm_hdl_set_vlog_partsel(p, v, how) ==
  /\ IF Reached(p) = 0 THEN UNCHANGED sim
     ELSE \E u \in Extensions(v, Reached(p)) :
            sim' = Put(p.name, Spread(p, Reached(p), u), how)
  /\ ret' = IF Exists(p) THEN 1 ELSE 0

\* Neither the size is looked at nor whether the simulator took the value.
uvm_hdl_set_vlog(p, v, how) ==
  \/ IsSlice(p) /\ uvm_hdl_set_vlog_partsel(p, v, how)
  \/ /\ ~IsSlice(p) /\ VlogFound(p)
     /\ ret' = 1
     /\ \E u \in Extensions(v, SizeOf(p)) :
          sim' = Put(p.name, Spread(p, SizeOf(p), u), how)
  \/ ~IsSlice(p) /\ ~VlogFound(p) /\ ret' = 0 /\ UNCHANGED sim

\* What the value is before anything is read into it: all its words but the
\* last are cleared, unless an earlier read of a slice has failed.
Prepared ==
  [i \in DOMAIN value |->
     IF ~partsel /\ i < (Chunks(MaxWidth) - 1) * WordBits THEN "0" ELSE value[i]]

\* Bit after bit.  The round that fails stores what the one before it read; a
\* slice that the value cannot hold is written past its end.
uvm_hdl_get_vlog_partsel(p) ==
  LET n == Reached(p) IN
  /\ value' = [i \in DOMAIN value |->
                 CASE i < n -> BitAt(p, i, sim)
                   [] i = n /\ ~Exists(p) ->
                        IF n = 0 THEN "0" ELSE BitAt(p, n - 1, sim)
                   [] OTHER -> Prepared[i]]
  /\ ret' = IF Exists(p) THEN 1 ELSE 0
  /\ partsel' = ~Exists(p)
  /\ Undefined(IF Exists(p) THEN n > MaxWidth ELSE n >= MaxWidth)

\* The words an object takes are written, whatever the simulator puts in the
\* rest of the last one; state is the design at the time.
uvm_hdl_get_vlog(p, state) ==
  \/ IsSlice(p) /\ uvm_hdl_get_vlog_partsel(p)
  \/ /\ ~IsSlice(p)
     /\ IF VlogFound(p) /\ SizeOf(p) <= MaxWidth
          THEN /\ ret' = 1
               /\ value' \in Written(Prepared,
                    [i \in 0..(SizeOf(p) - 1) |-> BitAt(p, i, state)],
                    RestOfWords(SizeOf(p)))
          ELSE ret' = 0 /\ value' = Prepared
     /\ UNCHANGED <<ended, partsel>>

-----------------------------------------------------------------------------
(* VHDL signals                                                            *)

\* Mutant: the conversion to '-' is kept where a word is filled.
ConvertedOnce(a) ==
  CASE a \in {"0", "1"} -> a [] a = "X" -> "x" [] a = "Z" -> "z" [] OTHER -> "-"

\* vhdl_array_of_char2string and then string_to_vecval: the values other
\* than 0, 1, X and Z become '-' and then 0.
Converted(a) ==
  CASE a \in {"0", "1"} -> a [] a = "X" -> "x" [] a = "Z" -> "z" [] OTHER -> "0"

\* string_to_vecval: n characters, leftmost first, go word by word from word 0
\* on, each word filled from its left; the character for index i ends up here.
Place(n, i) ==
  LET c == n - 1 - i
      first == (c \div WordBits) * WordBits
      last == IF first + WordBits < n THEN first + WordBits ELSE n
  IN  first + (last - 1 - c)

\* The bits a path selects that the signal has.
There(p) == {i \in DOMAIN Selected(p) : Selected(p)[i] < Width[p.name]}

\* A path wider than the value is written past its end, and a slice wider than
\* the buffer it is collected in past the buffer's.
GetOverflows(p) ==
  SizeOf(p) > MaxWidth \/ (IsSlice(p) /\ SizeOf(p) > ReducedVector)

\* Bits that are not there are read from beside the array.  The rest of the
\* last word written is cleared.
uvm_register_get_vhdl(p, state) ==
  LET n == SizeOf(p)
      from == [k \in 0..(n - 1) |-> CHOOSE i \in 0..(n - 1) : Place(n, i) = k]
      there == {k \in 0..(n - 1) : from[k] \in There(p)}
      new == [k \in there \cup RestOfWords(n) |->
                IF k >= n THEN "0" ELSE Converted(BitAt(p, from[k], state))]
  IN  /\ value' \in Written(value, new, 0..(n - 1) \ there)
      /\ ret' = 1
      /\ UNCHANGED partsel

\* What a selection of a VHDL signal is set to: a slice takes the value's
\* bits from the right, a single bit the one of its own index, and all but
\* '1' counts as 0.  The string has as many characters as the signal: for a
\* slice of more bits what is in front of it is taken, 1 for those in beside.
SelectedBits(p, v, beside) ==
  [b \in {Selected(p)[i] : i \in There(p)} |->
     LET i == IF IsSlice(p) THEN CHOOSE j \in There(p) : Selected(p)[j] = b
                            ELSE b
     IN  IF i \in beside \/ (i < Width[p.name] /\ v[i] = "1") THEN "1" ELSE "0"]

\* Setting any selection copies the string for its whole signal, and the zero
\* that ends it, to a buffer; bits that are not there are no signals to the FLI.
SetOverflows(p) ==
  ~Exists(p) \/ (~Whole(p) /\ Width[p.name] >= VectorVal)

\* A whole signal takes the string that vecval_to_string makes of its bits of
\* the value.  The bits of a selection are deposited, forced or not.
uvm_register_set_vhdl(p, v, how) ==
  /\ ret' = 1
  /\ \E u \in Extensions(v, Width[p.name]),
        beside \in SUBSET {i \in There(p) : i >= Width[p.name]} :
       sim' = IF Whole(p) THEN Put(p.name, Spread(p, SizeOf(p), u), how)
              ELSE Put(p.name, SelectedBits(p, u, beside),
                       IF how = "release" THEN how ELSE "deposit")

-----------------------------------------------------------------------------
(* The functions of the interface                                          *)

uvm_hdl_check_path(p) ==
  /\ ret' = IF uvm_is_vhdl_path(p) \/ VlogFound(p) THEN 1 ELSE 0
  /\ UNCHANGED <<sim, value, ended, partsel>>

uvm_hdl_read(p) ==
  /\ \/ /\ uvm_is_vhdl_path(p)
        /\ uvm_register_get_vhdl(p, sim)
        /\ Undefined(GetOverflows(p))
     \/ ~uvm_is_vhdl_path(p) /\ uvm_hdl_get_vlog(p, sim)
  /\ UNCHANGED sim

\* uvm_hdl_deposit, uvm_hdl_force and uvm_hdl_release; the last passes an
\* uninitialized value, which a release does not use.
uvm_hdl_set(p, v, how) ==
  /\ \/ /\ uvm_is_vhdl_path(p)
        /\ uvm_register_set_vhdl(p, v, how)
        /\ Undefined(SetOverflows(p))
     \/ ~uvm_is_vhdl_path(p) /\ uvm_hdl_set_vlog(p, v, how) /\ UNCHANGED ended
  /\ UNCHANGED <<value, partsel>>

uvm_hdl_deposit(p, v) == uvm_hdl_set(p, v, "deposit")
uvm_hdl_force(p, v) == uvm_hdl_set(p, v, "force")
uvm_hdl_release(p) == uvm_hdl_set(p, value, "release")

\* Releasing a slice leaves the name of its last bit in the path, and that
\* bit is then all that is read.
uvm_hdl_release_and_read(p) ==
  \/ /\ uvm_is_vhdl_path(p)
     /\ uvm_register_set_vhdl(p, value, "release")
     /\ uvm_register_get_vhdl(p, sim')
     /\ Undefined(SetOverflows(p) \/ GetOverflows(p))
  \/ /\ ~uvm_is_vhdl_path(p) /\ Exists(p)
     /\ sim' = Freed(p, SizeOf(p))
     /\ IF IsSlice(p)
          THEN uvm_hdl_get_vlog(
                 [p EXCEPT !.sel = <<Selected(p)[SizeOf(p) - 1]>>], sim')
          ELSE uvm_hdl_get_vlog(p, sim')
  \/ /\ ~uvm_is_vhdl_path(p) /\ ~Exists(p)
     /\ sim' = IF Reached(p) = 0 THEN sim
               ELSE Freed(p, Reached(p))
     /\ ret' = 0
     /\ UNCHANGED <<value, ended, partsel>>
=============================================================================
