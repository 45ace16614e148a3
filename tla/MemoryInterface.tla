-------------------------- MODULE MemoryInterface --------------------------
(***************************************************************************)
(* The wires of memory_if, shared by the memory controller and everything  *)
(* that drives or watches it.                                              *)
(*                                                                         *)
(* Time is counted in clock cycles.  In a state the wires have the values  *)
(* that every `always_ff' process, clocking block and assertion samples at *)
(* the next rising edge of clk; a step is one rising edge with everything  *)
(* that happens until just before the following one.  Hence what is        *)
(* sampled (input #1step) is unprimed, what is assigned with <= or driven  *)
(* through a clocking block (output #0) is primed.                         *)
(***************************************************************************)
EXTENDS Naturals, Sequences

CONSTANTS
    Addr,   \* the addresses
    Data,   \* the values of a data word
    X       \* the value of a word that nobody has assigned

ASSUME MemoryAssumption == /\ 0 \in Addr
                           /\ {0, X} \subseteq Data

VARIABLES rst, write, valid, addr, wdata, rdata, ready

inputs == <<write, valid, addr, wdata>>
wires  == <<rst, inputs, rdata, ready>>

(* A request as the controller receives it. *)
Request == [write : BOOLEAN, addr : Addr, wdata : Data]

(* The request presented on the wires, meaningful while valid is high. *)
Presented == [write |-> write, addr |-> addr, wdata |-> wdata]

(* rst is high and nothing is requested when the simulation starts; the    *)
(* outputs of the controller have not been assigned yet.                   *)
InterfaceInit ==
    /\ rst = TRUE
    /\ valid = FALSE
    /\ write = FALSE
    /\ addr = 0
    /\ wdata = 0
    /\ ready \in BOOLEAN
    /\ rdata \in Data

InterfaceTypeOK ==
    /\ {rst, write, valid, ready} \subseteq BOOLEAN
    /\ addr \in Addr
    /\ {wdata, rdata} \subseteq Data
=============================================================================
