-------------------------- MODULE MemoryController --------------------------
(***************************************************************************)
(* The design under test, rtl/memory_controller.sv: a memory behind a      *)
(* two-stage pipeline.  The first stage captures a request in the pending  *)
(* registers, the second one executes it and raises ready; both work at    *)
(* every rising edge.                                                      *)
(*                                                                         *)
(* AlwaysFF is the always_ff block.  The specification below closes it     *)
(* with an environment that may present any request, and assert or release *)
(* rst, at every cycle.                                                    *)
(***************************************************************************)
EXTENDS MemoryInterface

VARIABLES memory, pending, pending_write, pending_addr, pending_wdata

captured == <<pending_write, pending_addr, pending_wdata>>
dut      == <<memory, pending, captured>>

(* Only the memory has initial values; the registers hold anything until   *)
(* the first edge, at which rst is high.                                   *)
ControllerInit ==
    /\ memory = [a \in Addr |-> 0]
    /\ pending \in BOOLEAN
    /\ pending_write \in BOOLEAN
    /\ pending_addr \in Addr
    /\ pending_wdata \in Data

-----------------------------------------------------------------------------
(* Mutant: reset leaves the captured request in the pipeline. *)
ResetKeepsPending ==
    /\ rst
    /\ ready' = FALSE
    /\ rdata' = 0
    /\ UNCHANGED dut

(* Reset clears the outputs and the pending registers, not the memory. *)
Reset ==
    /\ rst
    /\ ready' = FALSE
    /\ rdata' = 0
    /\ pending' = FALSE
    /\ pending_write' = FALSE
    /\ pending_addr' = 0
    /\ pending_wdata' = 0
    /\ UNCHANGED memory

(* Mutant: only reads are acknowledged. *)
WriteWithoutReady ==
    /\ pending
    /\ pending_write
    /\ memory' = [memory EXCEPT ![pending_addr] = pending_wdata]
    /\ ready' = FALSE
    /\ UNCHANGED rdata

(* The second stage: execute the request captured at the previous edge. *)
ExecuteWrite ==
    /\ pending
    /\ pending_write
    /\ memory' = [memory EXCEPT ![pending_addr] = pending_wdata]
    /\ ready' = TRUE
    /\ UNCHANGED rdata

(* Mutant: the address on the wires instead of the one captured. *)
ReadPresentedAddress ==
    /\ pending
    /\ ~pending_write
    /\ rdata' = memory[addr]
    /\ ready' = TRUE
    /\ UNCHANGED memory

ExecuteRead ==
    /\ pending
    /\ ~pending_write
    /\ rdata' = memory[pending_addr]
    /\ ready' = TRUE
    /\ UNCHANGED memory

ExecuteNothing ==
    /\ ~pending
    /\ ready' = FALSE
    /\ UNCHANGED <<memory, rdata>>

(* Mutant: the address and the data are swapped. *)
CaptureSwapped ==
    /\ pending' = valid
    /\ \/ /\ valid
          /\ pending_write' = write
          /\ pending_addr' = wdata
          /\ pending_wdata' = addr
       \/ /\ ~valid
          /\ UNCHANGED captured

(* The first stage: capture what is presented now. *)
Capture ==
    /\ pending' = valid
    /\ \/ /\ valid
          /\ pending_write' = write
          /\ pending_addr' = addr
          /\ pending_wdata' = wdata
       \/ /\ ~valid
          /\ UNCHANGED captured

Execute == ExecuteWrite \/ ExecuteRead \/ ExecuteNothing

AlwaysFF ==
    \/ Reset
    \/ ~rst /\ Execute /\ Capture

-----------------------------------------------------------------------------
(* Any environment that respects the types of the inputs. *)
AnyInputs ==
    /\ rst' \in BOOLEAN
    /\ write' \in BOOLEAN
    /\ valid' \in BOOLEAN
    /\ addr' \in Addr
    /\ wdata' \in Data

Init == InterfaceInit /\ ControllerInit
Next == AlwaysFF /\ AnyInputs
vars == <<wires, dut>>

(* tb_top never stops the clock. *)
Spec == Init /\ [][Next]_vars /\ WF_vars(Next)

TypeOK ==
    /\ InterfaceTypeOK
    /\ memory \in [Addr -> Data]
    /\ {pending, pending_write} \subseteq BOOLEAN
    /\ pending_addr \in Addr
    /\ pending_wdata \in Data

-----------------------------------------------------------------------------
(* The controller seen as a reference memory.  Its only unanswered request *)
(* is the one in the pending registers, unless rst already condemns it.    *)
PendingRequest ==
    [write |-> pending_write, addr |-> pending_addr, wdata |-> pending_wdata]

Unanswered == IF pending /\ ~rst THEN <<PendingRequest>> ELSE <<>>

Reference == INSTANCE ReferenceMemory WITH mem <- memory, todo <- Unanswered

(* The controller implements the reference memory: requests are answered   *)
(* in the order they were accepted, a read returns the word left by the    *)
(* writes accepted before it, a reset forgets what was not answered and    *)
(* nothing that was, and (with the clock running) every request that is    *)
(* not condemned by a reset is answered.                                   *)
ImplementsReference == Reference!Spec
=============================================================================
