------------------------- MODULE CheckedController -------------------------
(***************************************************************************)
(* The memory controller with the protocol assertion bound to it, as in    *)
(* tb_top, under every sequence of requests and resets.                    *)
(***************************************************************************)
EXTENDS MemoryController, MemoryAssertions

CheckedInit == Init /\ AssertionsInit
CheckedNext == AlwaysFF /\ AssertProperty /\ AnyInputs
CheckedVars == <<vars, assertions>>

(* tb_top never stops the clock. *)
CheckedSpec ==
    CheckedInit /\ [][CheckedNext]_CheckedVars /\ WF_CheckedVars(CheckedNext)

CheckedTypeOK == TypeOK /\ AssertionsTypeOK

(* `valid |-> ##2 ready' never fails, however resets and back-to-back      *)
(* requests are interleaved.                                               *)
AssertionHolds == ~assertion_failed

(* The controller is ready at an edge exactly when a request was presented *)
(* two edges before with no reset since: the latency is fixed, no request  *)
(* goes unanswered, and ready is never raised without one, in particular   *)
(* not for a request that a reset interrupted.                             *)
ReadyTwoCyclesLater == ~rst => (ready <=> valid_d2)
=============================================================================
