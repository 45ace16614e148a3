----------------------------- MODULE HdlXcelium -----------------------------
(***************************************************************************)
(* src/uvm-core/src/dpi/uvm_hdl_xcelium.c: the backdoor for Xcelium, over  *)
(* VPI for Verilog and VHPI for VHDL.                                      *)
(***************************************************************************)
EXTENDS HdlDesign

\* Objects are found by name with or without a bit select; slices are not,
\* which is why the code splits them, and VHDL has no such selects.
Found(p) ==
  Exists(p) /\ ~IsSlice(p) /\ (p.name \in Vhdl => Whole(p))

\* m_uvm_get_object_handle leaves the language as it was, uninitialized, when
\* the name is not found.
Language(p) ==
  CASE ~Found(p) -> {"vhpiVerilog", "vhpiVHDL", "other"}
    [] Found(p) /\ p.name \in Vhdl -> {"vhpiVHDL"}
    [] Found(p) /\ p.name \notin Vhdl -> {"vhpiVerilog"}

\* The words of a value, its last one excepted, set to zero.
clear_value ==
  [i \in DOMAIN value |->
     IF i < (Chunks(MaxWidth) - 1) * WordBits THEN "0" ELSE value[i]]

\* tf_dofinish ends the simulation, but not before the call has returned.
tf_dofinish == ended' = TRUE

-----------------------------------------------------------------------------
(* Verilog objects                                                         *)

\* Neither the size is looked at nor whether the simulator took the value.
uvm_hdl_set_vlog(p, v, how) ==
  /\ IF Found(p)
       THEN /\ ret' = 1
            /\ \E u \in Extensions(v, SizeOf(p)) :
                 sim' = Put(p.name, Spread(p, SizeOf(p), u), how)
       ELSE ret' = 0 /\ UNCHANGED sim
  /\ UNCHANGED ended

\* Bit after bit, up to the first that is not found.
uvm_hdl_set_vlog_partsel(p, v, how) ==
  /\ IF Reached(p) = 0 \/ p.name \in Vhdl THEN UNCHANGED sim
     ELSE \E u \in Extensions(v, Reached(p)) :
            sim' = Put(p.name, Spread(p, Reached(p), u), how)
  /\ ret' = IF Exists(p) /\ p.name \notin Vhdl THEN 1 ELSE 0
  /\ UNCHANGED ended

\* The words the object takes are written, whatever the simulator puts in
\* the rest of the last one; state is the design at the time.
uvm_hdl_get_vlog(p, state) ==
  /\ IF Found(p) /\ SizeOf(p) <= MaxWidth
       THEN /\ ret' = 1
            /\ value' \in Written(value,
                 [i \in 0..(SizeOf(p) - 1) |-> BitAt(p, i, state)],
                 RestOfWords(SizeOf(p)))
       ELSE ret' = 0 /\ UNCHANGED value
  /\ UNCHANGED ended

\* Bit after bit; a slice that the value cannot hold is written past its end.
uvm_hdl_get_vlog_partsel(p) ==
  LET n == IF p.name \in Vhdl THEN 0 ELSE Reached(p) IN
  /\ value' = [i \in DOMAIN value |->
                 IF i < n THEN BitAt(p, i, sim) ELSE clear_value[i]]
  /\ ret' = IF Exists(p) /\ p.name \notin Vhdl THEN 1 ELSE 0
  /\ Undefined(n > MaxWidth)

-----------------------------------------------------------------------------
(* VHDL signals                                                            *)

\* With no handle there is no value of a format the function knows.  Too wide
\* a signal ends the simulation too, but is set all the same.
uvm_hdl_set_vhdl(p, v, how) ==
  IF ~Found(p) THEN ret' = 0 /\ UNCHANGED sim /\ tf_dofinish
  ELSE /\ ret' = 1
       /\ \E u \in Extensions(v, SizeOf(p)) :
            sim' = Put(p.name, Spread(p, SizeOf(p), u), how)
       /\ IF SizeOf(p) > MaxWidth THEN tf_dofinish ELSE UNCHANGED ended

FourState(a) ==
  CASE a \in {"U", "W", "X"} -> "x" [] a = "Z" -> "z"
    [] a \in {"0", "L", "-"} -> "0" [] a \in {"1", "H"} -> "1"

\* The signal's n characters, leftmost first, go word by word from word 0 on,
\* each word filled from its left: where the bit of index i ends up.
Place(n, i) ==
  LET c == n - 1 - i
      first == (c \div WordBits) * WordBits
      last == IF first + WordBits < n THEN first + WordBits ELSE n
  IN  first + (last - 1 - c)

\* A vector: all words are cleared, then the signal's are written.  The buffer
\* is freed in every round over the words: what follows the first is read from
\* freed memory, if the process survives freeing it twice.
VectorRead(p, state) ==
  LET n == SizeOf(p)
      read == {i \in 0..(n - 1) : n - 1 - i < WordBits}
      new == [k \in {Place(n, i) : i \in read} \cup n..(MaxWidth - 1) |->
                IF k >= n THEN "0"
                ELSE FourState(BitAt(p, CHOOSE i \in read : Place(n, i) = k, state))]
  IN  Written(value, new, DOMAIN value \ DOMAIN new)

\* A scalar: word 0 is written, the others are left.
ScalarRead(p, state) ==
  [k \in DOMAIN value |->
     CASE k = 0 -> FourState(BitAt(p, 0, state))
       [] k \in 1..(WordBits - 1) -> "0"
       [] OTHER -> value[k]]

\* Too wide a signal ends the simulation, but is read first, past the end of
\* the value.
uvm_hdl_get_vhdl(p, state) ==
  IF ~Found(p) THEN ret' = 0 /\ UNCHANGED value /\ tf_dofinish
  ELSE /\ ret' = 1
       /\ IF p.name \in Scalars THEN value' = ScalarRead(p, state)
          ELSE value' \in VectorRead(p, state)
       /\ IF SizeOf(p) > MaxWidth THEN tf_dofinish
          ELSE Undefined(Chunks(SizeOf(p)) > 1)

-----------------------------------------------------------------------------
(* The functions of the interface                                          *)

uvm_hdl_check_path(p) ==
  ret' = (IF Found(p) THEN 1 ELSE 0) /\ UNCHANGED <<sim, value, ended>>

uvm_hdl_read(p) ==
  /\ UNCHANGED sim
  /\ \/ IsSlice(p) /\ uvm_hdl_get_vlog_partsel(p)
     \/ ~IsSlice(p) /\ \E language \in Language(p) :
          \/ language = "vhpiVerilog" /\ uvm_hdl_get_vlog(p, sim)
          \/ language = "vhpiVHDL" /\ uvm_hdl_get_vhdl(p, sim)
          \/ language = "other" /\ ret' = 0 /\ UNCHANGED <<value, ended>>

\* uvm_hdl_deposit, uvm_hdl_force and uvm_hdl_release; the last passes an
\* uninitialized value, which a release does not use.
uvm_hdl_set(p, v, how) ==
  /\ UNCHANGED value
  /\ \/ IsSlice(p) /\ uvm_hdl_set_vlog_partsel(p, v, how)
     \/ ~IsSlice(p) /\ \E language \in Language(p) :
          \/ language = "vhpiVerilog" /\ uvm_hdl_set_vlog(p, v, how)
          \/ language = "vhpiVHDL" /\ uvm_hdl_set_vhdl(p, v, how)
          \/ language = "other" /\ ret' = 0 /\ UNCHANGED <<sim, ended>>

uvm_hdl_deposit(p, v) == uvm_hdl_set(p, v, "deposit")
uvm_hdl_force(p, v) == uvm_hdl_set(p, v, "force")
uvm_hdl_release(p) == uvm_hdl_set(p, value, "release")

\* The design once what the path selects has been released, bit after bit.
Released(p) ==
  IF Reached(p) = 0 \/ (p.name \in Vhdl /\ ~Whole(p)) THEN sim
  ELSE Freed(p, Reached(p))

\* Releasing a slice leaves the name of its last bit in the path: the read
\* finds no slice there and fails.
uvm_hdl_release_and_read(p) ==
  /\ sim' = Released(p)
  /\ \/ IsSlice(p) /\ value' = clear_value /\ ret' = 0 /\ UNCHANGED ended
     \/ ~IsSlice(p) /\ \E language \in Language(p) :
          \/ language = "vhpiVerilog" /\ uvm_hdl_get_vlog(p, sim')
          \/ language = "vhpiVHDL" /\ uvm_hdl_get_vhdl(p, sim')
          \/ language = "other" /\ ret' = 0 /\ UNCHANGED <<value, ended>>
=============================================================================
