---------------------------- MODULE MemoryDriver ----------------------------
(***************************************************************************)
(* tb/uvm/driver/memory_driver.sv: run_phase waits for the falling edge of *)
(* rst and from then on drives the inputs of the controller at every clock *)
(* edge, with the item the sequencer has for it or with an empty cycle.    *)
(***************************************************************************)
EXTENDS MemoryInterface

VARIABLE reset_seen     \* run_phase is past @(negedge vif.rst)

DriverInit == reset_seen = FALSE

(* rst falls, or not, somewhere before the next clock edge. *)
WaitForReset ==
    /\ ~reset_seen
    /\ reset_seen' = (rst /\ ~rst')
    /\ UNCHANGED inputs

(* try_next_item returned tr. *)
DriveItem(tr) ==
    /\ reset_seen
    /\ write' = tr.write
    /\ addr'  = tr.addr
    /\ wdata' = tr.wdata
    /\ valid' = TRUE
    /\ UNCHANGED reset_seen

(* try_next_item returned null: only valid is driven. *)
DriveIdle ==
    /\ reset_seen
    /\ valid' = FALSE
    /\ UNCHANGED <<write, addr, wdata, reset_seen>>
=============================================================================
