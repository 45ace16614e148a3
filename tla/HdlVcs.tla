------------------------------- MODULE HdlVcs -------------------------------
(***************************************************************************)
(* src/uvm-core/src/dpi/uvm_hdl_vcs.c: the backdoor for VCS, over VPI, and *)
(* for VCS MX (mx), over MHPI, which also finds VHDL signals.  The variant *)
(* VCSMX_FAST_UVM is not modelled.                                         *)
(***************************************************************************)
EXTENDS HdlDesign

\* Both interfaces find Verilog objects by name, selections included; only
\* MHPI finds VHDL signals, whole.
Found(p, mx) ==
  Exists(p) /\ (p.name \in Vhdl => mx /\ Whole(p))

\* The interface MHPI says an object belongs to.
Pli(p, mx) ==
  IF ~Found(p, mx) THEN "none"
  ELSE IF p.name \in Vhdl THEN "mhpiVhpiPli" ELSE "mhpiVpiPli"

\* check_type
vector_compat_type(p) == p.name \notin Unpacked

-----------------------------------------------------------------------------
(* Verilog objects                                                         *)

\* vpi_chk_error tells whether the simulator took the value.
uvm_hdl_set_vlog(p, v, how, mx) ==
  IF Found(p, mx) /\ vector_compat_type(p)
    THEN /\ ret' = IF p.name \in ReadOnly THEN 0 ELSE 1
         /\ \E u \in Extensions(v, SizeOf(p)) :
              sim' = Put(p.name, Spread(p, SizeOf(p), u), how)
    ELSE ret' = 0 /\ UNCHANGED sim

\* The words the object takes are written, whatever the simulator puts in
\* the rest of the last one.
uvm_hdl_get_vlog(p, mx) ==
  IF Found(p, mx) /\ SizeOf(p) <= MaxWidth /\ vector_compat_type(p)
    THEN /\ ret' = 1
         /\ value' \in Written(value,
              [i \in 0..(SizeOf(p) - 1) |-> BitAt(p, i, sim)],
              RestOfWords(SizeOf(p)))
    ELSE ret' = 0 /\ UNCHANGED value

-----------------------------------------------------------------------------
(* VHDL signals                                                            *)

Converted(a) ==
  CASE a \in {"0", "1"} -> a [] a = "Z" -> "z" [] OTHER -> "x"

\* The signal's characters are shifted into the words from the right, with
\* nothing cleared before: what was in the last word moves to the left.
uvm_hdl_get_mhdl(p) ==
  LET n == SizeOf(p)
      inLast == n - (Chunks(n) - 1) * WordBits
  IN
  IF n > MaxWidth THEN ret' = 0 /\ UNCHANGED value
  ELSE /\ ret' = 1
       /\ value' = [i \in DOMAIN value |->
            CASE i < n -> Converted(BitAt(p, i, sim))
              [] i \in RestOfWords(n) -> value[i - inLast]
              [] OTHER -> value[i]]

\* aval, the bit of a word that x and 1 have set.
Aval(b) == b \in {"1", "x"}

\* uvm_hdl_dtob on the last word that n bits take: its bits from the leftmost
\* 1 on, or a single 0; the n bits are filled from these digits' left, and
\* those that lack are zeros on the left.  The other words are taken whole.
Digits(v, n) ==
  LET low == (Chunks(n) - 1) * WordBits
      room == n - low
      ones == {i \in low..(low + WordBits - 1) : i \in DOMAIN v /\ Aval(v[i])}
      count == IF ones = {} THEN 1
               ELSE (CHOOSE i \in ones : \A j \in ones : j <= i) - low + 1
      skipped == IF count > room THEN count - room ELSE 0
  IN  [i \in 0..(n - 1) |->
         IF Aval(v[IF i < low THEN i ELSE i + skipped]) THEN "1" ELSE "0"]

uvm_hdl_set_mhdl(p, v, how) ==
  /\ ret' = IF p.name \in ReadOnly THEN 0 ELSE 1
  /\ \E u \in Extensions(v, SizeOf(p)) :
       sim' = Put(p.name, Spread(p, SizeOf(p), Digits(u, SizeOf(p))), how)

mhpi_release_force(p) ==
  /\ ret' = IF p.name \in ReadOnly THEN 0 ELSE 1
  /\ sim' = Freed(p, SizeOf(p))

-----------------------------------------------------------------------------
(* The functions of the interface                                          *)

uvm_hdl_check_path(p, mx) ==
  ret' = (IF Found(p, mx) THEN 1 ELSE 0) /\ UNCHANGED <<sim, value, ended>>

uvm_hdl_read(p, mx) ==
  /\ UNCHANGED <<sim, ended>>
  /\ \/ mx /\ Pli(p, mx) = "mhpiVhpiPli" /\ uvm_hdl_get_mhdl(p)
     \/ (mx => Pli(p, mx) = "mhpiVpiPli") /\ uvm_hdl_get_vlog(p, mx)
     \/ mx /\ Pli(p, mx) = "none" /\ ret' = 0 /\ UNCHANGED value

\* The choice uvm_hdl_deposit and uvm_hdl_force share.
Set(p, v, how, mx) ==
  /\ UNCHANGED <<value, ended>>
  /\ \/ mx /\ Pli(p, mx) = "mhpiVhpiPli" /\ uvm_hdl_set_mhdl(p, v, how)
     \/ (mx => Pli(p, mx) = "mhpiVpiPli") /\ uvm_hdl_set_vlog(p, v, how, mx)
     \/ mx /\ Pli(p, mx) = "none" /\ ret' = 0 /\ UNCHANGED sim

uvm_hdl_deposit(p, v, mx) == Set(p, v, "deposit", mx)
uvm_hdl_force(p, v, mx) == Set(p, v, "force", mx)

\* Nothing is read.
uvm_hdl_release_and_read(p, mx) ==
  /\ UNCHANGED <<value, ended>>
  /\ \/ mx /\ Found(p, mx) /\ mhpi_release_force(p)
     \/ mx /\ ~Found(p, mx) /\ ret' = 0 /\ UNCHANGED sim
     \/ ~mx /\ uvm_hdl_set_vlog(p, value, "release", mx)

uvm_hdl_release(p, mx) ==
  /\ UNCHANGED <<value, ended>>
  /\ \/ mx /\ Pli(p, mx) = "mhpiVhpiPli" /\ mhpi_release_force(p)
     \/ (mx => Pli(p, mx) = "mhpiVpiPli")
        /\ uvm_hdl_set_vlog(p, value, "release", mx)
     \/ mx /\ Pli(p, mx) = "none" /\ ret' = 0 /\ UNCHANGED sim
=============================================================================
