-------------------------- MODULE MemoryAssertions --------------------------
(***************************************************************************)
(* assertions/memory_assertions.sv: the concurrent assertion               *)
(*     @(posedge clk) disable iff (rst)  valid |-> ##2 ready               *)
(* as the checker a simulator runs.  Every edge at which valid is high     *)
(* starts an attempt, which two edges later looks at ready; rst kills the  *)
(* attempts under way.                                                     *)
(***************************************************************************)
EXTENDS MemoryInterface

VARIABLES
    valid_d1,           \* an attempt was started one edge ago
    valid_d2,           \* an attempt was started two edges ago
    assertion_failed    \* $error was called

assertions == <<valid_d1, valid_d2, assertion_failed>>

AssertionsInit ==
    /\ valid_d1 = FALSE
    /\ valid_d2 = FALSE
    /\ assertion_failed = FALSE

DisableIff ==
    /\ rst
    /\ valid_d1' = FALSE
    /\ valid_d2' = FALSE
    /\ UNCHANGED assertion_failed

(* Mutant: |-> ##1 ready. *)
ReadyOneCycleLater ==
    /\ ~rst
    /\ valid_d1' = valid
    /\ valid_d2' = valid_d1
    /\ assertion_failed' = (assertion_failed \/ (valid_d1 /\ ~ready))

ValidImpliesReady ==
    /\ ~rst
    /\ valid_d1' = valid
    /\ valid_d2' = valid_d1
    /\ assertion_failed' = (assertion_failed \/ (valid_d2 /\ ~ready))

AssertProperty == DisableIff \/ ValidImpliesReady

AssertionsTypeOK == {valid_d1, valid_d2, assertion_failed} \subseteq BOOLEAN
=============================================================================
