---------------------- MODULE CheckedControllerProofs ----------------------
(***************************************************************************)
(* Proofs about the memory controller under any requests and any resets,   *)
(* for every set of addresses and of data values: its types, that it       *)
(* implements the reference memory, and the protocol assertion bound to    *)
(* it.  The refinement needs no invariant beyond the types: its mapping is *)
(* a function of the registers alone.                                      *)
(***************************************************************************)
EXTENDS CheckedController, TLAPS

(* Every step of the controller keeps its registers and its outputs typed; *)
(* stated by itself because the testbench takes the same steps.            *)
LEMMA AlwaysFFType ==
  ASSUME TypeOK, AlwaysFF
  PROVE  /\ ready' \in BOOLEAN
         /\ rdata' \in Data
         /\ memory' \in [Addr -> Data]
         /\ pending' \in BOOLEAN
         /\ pending_write' \in BOOLEAN
         /\ pending_addr' \in Addr
         /\ pending_wdata' \in Data
<1>1. CASE Reset
  BY <1>1, MemoryAssumption DEF Reset, TypeOK
<1>2. CASE ~rst /\ Execute /\ Capture
  <2>1. /\ ready' \in BOOLEAN
        /\ rdata' \in Data
        /\ memory' \in [Addr -> Data]
    <3>1. CASE ExecuteWrite
      BY <3>1 DEF ExecuteWrite, TypeOK, InterfaceTypeOK
    <3>2. CASE ExecuteRead
      BY <3>2 DEF ExecuteRead, TypeOK, InterfaceTypeOK
    <3>3. CASE ExecuteNothing
      BY <3>3 DEF ExecuteNothing, TypeOK, InterfaceTypeOK
    <3> QED BY <1>2, <3>1, <3>2, <3>3 DEF Execute
  <2>2. /\ pending' \in BOOLEAN
        /\ pending_write' \in BOOLEAN
        /\ pending_addr' \in Addr
        /\ pending_wdata' \in Data
    BY <1>2 DEF Capture, captured, TypeOK, InterfaceTypeOK
  <2> QED BY <2>1, <2>2
<1> QED BY <1>1, <1>2 DEF AlwaysFF

(* ready follows pending by one edge. *)
LEMMA ReadyFollowsPending ==
  ASSUME pending \in BOOLEAN, Execute
  PROVE  ready' = pending
<1>1. CASE pending = TRUE
  BY <1>1 DEF Execute, ExecuteWrite, ExecuteRead, ExecuteNothing
<1>2. CASE pending = FALSE
  BY <1>2 DEF Execute, ExecuteWrite, ExecuteRead, ExecuteNothing
<1> QED BY <1>1, <1>2

LEMMA InitType == Init => TypeOK
BY MemoryAssumption
   DEF Init, InterfaceInit, ControllerInit, TypeOK, InterfaceTypeOK

(* The wires, the memory and the pending registers always hold values of   *)
(* their types: after power-up, through resets, for any requests.          *)
THEOREM TypeCorrect == Spec => []TypeOK
<1>1. Init => TypeOK
  BY InitType
<1>2. TypeOK /\ [Next]_vars => TypeOK'
  <2> SUFFICES ASSUME TypeOK, [Next]_vars PROVE TypeOK'
    OBVIOUS
  <2>1. CASE Next
    <3>1. AlwaysFF /\ AnyInputs
      BY <2>1 DEF Next
    <3> QED BY <3>1, AlwaysFFType DEF AnyInputs, TypeOK, InterfaceTypeOK
  <2>2. CASE UNCHANGED vars
    BY <2>2 DEF vars, wires, inputs, dut, captured, TypeOK, InterfaceTypeOK
  <2> QED BY <2>1, <2>2
<1> QED BY <1>1, <1>2, PTL DEF Spec

-----------------------------------------------------------------------------
(* The request captured at an edge is the one the reference memory accepts *)
(* there, if it lets a queue q of older ones wait and q is empty.          *)
LEMMA CaptureAccepts ==
  ASSUME TypeOK, ~rst, Capture, AnyInputs
  PROVE  Reference!Accept(<<>>)
<1>1. CASE rst'
  BY <1>1 DEF Reference!Accept, Unanswered
<1>2. CASE ~rst' /\ valid
  <2>1. PendingRequest' = Reference!Presented
    BY <1>2 DEF Capture, PendingRequest, Reference!Presented
  <2>2. Unanswered' = <<PendingRequest'>>
    BY <1>2 DEF Capture, Unanswered
  <2> QED BY <1>2, <2>1, <2>2 DEF Reference!Accept
<1>3. CASE ~rst' /\ ~valid
  BY <1>3 DEF Capture, Reference!Accept, Unanswered
<1> QED BY <1>1, <1>2, <1>3 DEF AnyInputs

(* Every step of the controller is a step of the reference memory: the     *)
(* request answered is the one in the pending registers.                   *)
LEMMA StepRefines ==
  ASSUME TypeOK, AlwaysFF, AnyInputs
  PROVE  Reference!Next
<1>1. Reference!AnyInputs
  BY DEF AnyInputs, Reference!AnyInputs
<1>2. CASE Reset
  <2>1. Unanswered' = <<>>
    BY <1>2 DEF Reset, Unanswered
  <2>2. Reference!InReset
    BY <1>2, <2>1 DEF Reset, Reference!InReset
  <2> QED BY <1>1, <2>2 DEF Reference!Next
<1>3. CASE ~rst /\ Execute /\ Capture
  <2>1. Reference!Accept(<<>>)
    BY <1>3, CaptureAccepts
  <2>2. CASE pending
    <3>1. Unanswered = <<PendingRequest>>
      BY <1>3, <2>2 DEF Unanswered
    <3>2. /\ Unanswered # <<>>
          /\ Head(Unanswered) = PendingRequest
          /\ Tail(Unanswered) = <<>>
      BY <3>1
    <3>3. Reference!Write(PendingRequest) \/ Reference!Read(PendingRequest)
      BY <1>3, <2>2
      DEF Execute, ExecuteWrite, ExecuteRead, ExecuteNothing,
          Reference!Write, Reference!Read, PendingRequest, TypeOK
    <3>4. ready' = TRUE
      BY <1>3, <2>2 DEF Execute, ExecuteWrite, ExecuteRead, ExecuteNothing
    <3>5. Reference!Answer
      BY <1>3, <2>1, <3>2, <3>3, <3>4 DEF Reference!Answer
    <3> QED BY <1>1, <3>5 DEF Reference!Next
  <2>3. CASE ~pending
    <3>1. Unanswered = <<>>
      BY <2>3 DEF Unanswered
    <3>2. ExecuteNothing
      BY <1>3, <2>3 DEF Execute, ExecuteWrite, ExecuteRead
    <3>3. Reference!Delay
      BY <1>3, <2>1, <3>1, <3>2 DEF ExecuteNothing, Reference!Delay
    <3> QED BY <1>1, <3>3 DEF Reference!Next
  <2> QED BY <2>2, <2>3 DEF TypeOK
<1> QED BY <1>2, <1>3 DEF AlwaysFF

(* The controller implements the safety part of the reference memory:      *)
(* answers in order, each read returning the word left by the writes       *)
(* accepted before it, and a reset losing nothing that was answered.       *)
(* (The liveness part of ImplementsReference is checked with TLC.)         *)
THEOREM RefinesReference ==
  Spec => Reference!Init /\ [][Reference!Next]_(Reference!vars)
<1>1. Init => Reference!Init
  BY DEF Init, InterfaceInit, ControllerInit, Reference!Init,
         Reference!InterfaceInit, Unanswered
<1>2. TypeOK /\ [Next]_vars => [Reference!Next]_(Reference!vars)
  <2> SUFFICES ASSUME TypeOK, [Next]_vars
               PROVE  [Reference!Next]_(Reference!vars)
    OBVIOUS
  <2>1. CASE Next
    BY <2>1, StepRefines DEF Next
  <2>2. CASE UNCHANGED vars
    BY <2>2 DEF vars, wires, inputs, dut, captured, Unanswered,
                PendingRequest, Reference!vars, Reference!wires,
                Reference!inputs
  <2> QED BY <2>1, <2>2
<1> QED BY <1>1, <1>2, TypeCorrect, PTL DEF Spec

-----------------------------------------------------------------------------
(* The protocol assertion                                                  *)


(* The attempts of the assertion are in the same stage as the requests     *)
(* that started them.  While rst is high they may differ: rst kills the    *)
(* attempts and the requests at the same edge.                             *)
CheckedInv ==
    /\ CheckedTypeOK
    /\ ~rst => valid_d1 = pending /\ valid_d2 = ready
    /\ AssertionHolds

LEMMA CheckedInitInv == CheckedInit => CheckedInv
BY InitType
   DEF CheckedInit, Init, InterfaceInit, AssertionsInit, CheckedInv,
       CheckedTypeOK, AssertionsTypeOK, AssertionHolds

LEMMA CheckedStepInv == CheckedInv /\ CheckedNext => CheckedInv'
<1> SUFFICES ASSUME CheckedInv, CheckedNext PROVE CheckedInv'
  OBVIOUS
<1>1. TypeOK /\ AlwaysFF /\ AnyInputs /\ AssertProperty
  BY DEF CheckedInv, CheckedTypeOK, CheckedNext
<1>2. TypeOK'
  BY <1>1, AlwaysFFType DEF AnyInputs, TypeOK, InterfaceTypeOK
<1>3. AssertionsTypeOK'
  BY <1>1
  DEF CheckedInv, CheckedTypeOK, AssertProperty, DisableIff,
      ValidImpliesReady, AssertionsTypeOK, TypeOK, InterfaceTypeOK
<1>4. CASE rst
  <2>1. Reset /\ DisableIff
    BY <1>1, <1>4 DEF AlwaysFF, AssertProperty, ValidImpliesReady
  <2> QED
    BY <1>2, <1>3, <2>1
    DEF CheckedInv, CheckedTypeOK, AssertionHolds, Reset, DisableIff
<1>5. CASE ~rst
  <2>1. Execute /\ Capture /\ ValidImpliesReady
    BY <1>1, <1>5 DEF AlwaysFF, Reset, AssertProperty, DisableIff
  <2>2. ready' = pending /\ pending' = valid
    BY <1>1, <2>1, ReadyFollowsPending DEF Capture, TypeOK
  <2>3. valid_d1' = valid /\ valid_d2' = pending
    BY <1>5, <2>1 DEF CheckedInv, ValidImpliesReady
  <2>4. ~assertion_failed'
    BY <1>5, <2>1 DEF CheckedInv, AssertionHolds, ValidImpliesReady
  <2> QED
    BY <1>2, <1>3, <2>2, <2>3, <2>4 DEF CheckedInv, CheckedTypeOK, AssertionHolds
<1> QED BY <1>4, <1>5

LEMMA CheckedInvariant == CheckedSpec => []CheckedInv
<1>1. CheckedInv /\ UNCHANGED CheckedVars => CheckedInv'
  BY DEF CheckedVars, vars, wires, inputs, dut, captured, assertions,
         CheckedInv, CheckedTypeOK, TypeOK, InterfaceTypeOK,
         AssertionsTypeOK, AssertionHolds
<1> QED BY CheckedInitInv, CheckedStepInv, <1>1, PTL DEF CheckedSpec

(* The registers, the wires and the attempts of the assertion keep their   *)
(* types, for any requests and any resets.                                 *)
THEOREM CheckedTypeCorrect == CheckedSpec => []CheckedTypeOK
<1>1. CheckedInv => CheckedTypeOK
  BY DEF CheckedInv
<1> QED BY <1>1, CheckedInvariant, PTL

(* `valid |-> ##2 ready' never fails, for any requests and any resets.     *)
THEOREM AssertionCorrectUnderReset == CheckedSpec => []AssertionHolds
<1>1. CheckedInv => AssertionHolds
  BY DEF CheckedInv
<1> QED BY <1>1, CheckedInvariant, PTL

(* The latency is exactly two cycles, and ready is never raised without a  *)
(* request that no reset interrupted.                                      *)
THEOREM LatencyExact == CheckedSpec => []ReadyTwoCyclesLater
<1>1. CheckedInv => ReadyTwoCyclesLater
  BY DEF CheckedInv, ReadyTwoCyclesLater
<1> QED BY <1>1, CheckedInvariant, PTL
=============================================================================
