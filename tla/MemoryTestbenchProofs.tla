----------------------- MODULE MemoryTestbenchProofs -----------------------
(***************************************************************************)
(* Proofs about the testbench, for every set of addresses and of data      *)
(* values and every stream of requests: the scoreboard and the assertion   *)
(* never fail, and the monitor's queue mirrors the pipeline.               *)
(***************************************************************************)
EXTENDS MemoryTestbench, CheckedControllerProofs

-----------------------------------------------------------------------------
(* The inductive invariant.  The four properties are not inductive: that   *)
(* the scoreboard agrees about the request being completed depends on that *)
(* request having been queued in the right order two edges earlier.        *)

(* Until reset has been seen nothing has been requested or checked. *)
PowerUp ==
    rst => /\ ~valid
           /\ inflight_q = <<>>
           /\ memory = expected_memory
           /\ ~valid_d1 /\ ~valid_d2

(* The attempts of the assertion advance with the pipeline. *)
AttemptsMatchPipeline == ~rst => valid_d1 = pending /\ valid_d2 = ready

(* What the monitor holds for the second pipeline stage ... *)
QueuedPending(q) ==
    \/ ~pending /\ q = <<>>
    \/ pending /\ \E tr \in Transaction : q = <<tr>> /\ InPipeline(tr)

(* ... comes after the transaction that ready announces. *)
QueueShape ==
    ~rst => \/ ~ready /\ QueuedPending(inflight_q)
            \/ /\ ready
               /\ \E tr \in Transaction, q \in Seq(Transaction) :
                     /\ inflight_q = <<tr>> \o q
                     /\ QueuedPending(q)

TBInv ==
    /\ TBTypeOK
    /\ PowerUp
    /\ AttemptsMatchPipeline
    /\ QueueShape
    /\ ExpectedFollowsMemory
    /\ ScoreboardNeverFails
    /\ AssertionNeverFails

LEMMA TBInitInv == TBInit => TBInv
<1> SUFFICES ASSUME TBInit PROVE TBInv
  OBVIOUS
<1>1. TypeOK
  BY InitType DEF TBInit
<1>2. TBTypeOK
  BY <1>1, MemoryAssumption
  DEF TBInit, AssertionsInit, DriverInit, MonitorInit, ScoreboardInit,
      TBTypeOK, AssertionsTypeOK, MonitorTypeOK, ScoreboardTypeOK
<1> QED
  BY <1>2
  DEF TBInit, Init, InterfaceInit, ControllerInit, AssertionsInit,
      MonitorInit, ScoreboardInit, TBInv, PowerUp, AttemptsMatchPipeline,
      QueueShape, ExpectedFollowsMemory, ScoreboardNeverFails,
      AssertionNeverFails

-----------------------------------------------------------------------------
(* Facts about queues: the head, the rest and an element appended. *)
LEMMA QueueFacts ==
  ASSUME NEW S, NEW tr \in S, NEW q \in Seq(S), NEW e \in S
  PROVE  /\ Head(<<tr>> \o q) = tr
         /\ Tail(<<tr>> \o q) = q
         /\ <<tr>> \o q # <<>>
         /\ Append(<<tr>> \o q, e) = <<tr>> \o Append(q, e)
         /\ Append(q, e) \in Seq(S)
         /\ Append(q, e) # <<>>
OBVIOUS

(* The same for queues of at most two elements. *)
LEMMA ShortQueueFacts ==
  ASSUME NEW S, NEW tr \in S, NEW e \in S
  PROVE  /\ Append(<<>>, e) = <<e>>
         /\ Append(<<tr>>, e) = <<tr>> \o <<e>>
         /\ <<tr>> \o <<>> = <<tr>>
         /\ Len(<<tr>> \o <<e>>) = 2
         /\ (<<tr>> \o <<e>>)[2] = e
         /\ <<e>> \in Seq(S)
         /\ <<>> \in Seq(S)
<1>1. Append(<<>>, e) = <<e>>
  OBVIOUS
<1>2. Append(<<tr>>, e) = <<tr>> \o <<e>>
  OBVIOUS
<1>3. <<tr>> \o <<>> = <<tr>>
  OBVIOUS
<1>4. Len(<<tr>> \o <<e>>) = 2
  OBVIOUS
<1>5. (<<tr>> \o <<e>>)[2] = e
  OBVIOUS
<1> QED BY <1>1, <1>2, <1>3, <1>4, <1>5

LEMMA IssuedType == TBTypeOK => Issued \in Transaction
BY MemoryAssumption
   DEF TBTypeOK, TypeOK, InterfaceTypeOK, Issued, Transaction

-----------------------------------------------------------------------------
(* What the monitor does when the controller is out of reset.  It reports  *)
(* exactly when ready is high, and the transaction reported is the one     *)
(* that was at the head of its queue before this edge.                     *)
LEMMA MonitorStep ==
  ASSUME TBInv, ~rst, MonitorAndScore
  PROVE  \E q \in Seq(Transaction) :
            /\ QueuedPending(q)
            /\ inflight_q' = IF valid THEN Append(q, Issued) ELSE q
            /\ ready => /\ Head(inflight_q) \in Transaction
                        /\ Completed = IF Head(inflight_q).write
                                       THEN Head(inflight_q)
                                       ELSE [Head(inflight_q) EXCEPT !.rdata = rdata]
                        /\ Score(Completed)
            /\ ~ready => UNCHANGED scoreboard
<1>1. Issued \in Transaction
  BY IssuedType DEF TBInv
<1>2. CASE ready
  <2>1. PICK tr \in Transaction, q \in Seq(Transaction) :
           inflight_q = <<tr>> \o q /\ QueuedPending(q)
    BY <1>2 DEF TBInv, QueueShape
  <2>2. /\ Head(Pushed) = tr
        /\ Tail(Pushed) = IF valid THEN Append(q, Issued) ELSE q
        /\ Pushed # <<>>
        /\ Head(inflight_q) = tr
    <3>1. Pushed = <<tr>> \o (IF valid THEN Append(q, Issued) ELSE q)
      BY <1>1, <2>1, QueueFacts DEF Pushed
    <3>2. (IF valid THEN Append(q, Issued) ELSE q) \in Seq(Transaction)
      BY <1>1, QueueFacts
    <3> QED BY <2>1, <3>1, <3>2, QueueFacts
  <2>3. Completes
    BY <1>2, <2>2 DEF Completes
  <2>4. Report /\ Score(Completed)
    BY <2>3 DEF MonitorAndScore, Watch
  <2>5. Completed = IF tr.write THEN tr ELSE [tr EXCEPT !.rdata = rdata]
    BY <2>2 DEF Completed
  <2> QED BY <1>2, <2>1, <2>2, <2>4, <2>5 DEF Report
<1>3. CASE ~ready
  <2>1. inflight_q \in Seq(Transaction)
    BY DEF TBInv, TBTypeOK, MonitorTypeOK
  <2>2. QueuedPending(inflight_q)
    BY <1>3 DEF TBInv, QueueShape
  <2>3. inflight_q' = Pushed /\ UNCHANGED scoreboard
    BY <1>3 DEF MonitorAndScore, Watch, Report, Completes
  <2> QED BY <1>3, <2>1, <2>2, <2>3 DEF Pushed
<1> QED BY <1>2, <1>3

(* When the edge is over the scoreboard has caught up with what the memory *)
(* was before the edge, and it has found no difference.                    *)
LEMMA ScoreboardStep ==
  ASSUME TBInv, ~rst, MonitorAndScore
  PROVE  expected_memory' = memory /\ read_fail' = FALSE
<1>1. read_fail = FALSE
  BY DEF TBInv, ScoreboardNeverFails, TBTypeOK, ScoreboardTypeOK
<1>2. CASE ready
  <2>1. DEFINE tr == Head(inflight_q)
  <2>2. /\ tr \in Transaction
        /\ Completed = IF tr.write THEN tr ELSE [tr EXCEPT !.rdata = rdata]
        /\ Score(Completed)
    BY <1>2, MonitorStep
  <2>3. IF tr.write
        THEN memory = [expected_memory EXCEPT ![tr.addr] = tr.wdata]
        ELSE memory = expected_memory /\ rdata = memory[tr.addr]
    BY <1>2 DEF TBInv, ExpectedFollowsMemory
  <2>4. CASE tr.write
    <3>1. Completed = tr
      BY <2>2, <2>4
    <3>2. /\ expected_memory' = [expected_memory EXCEPT ![tr.addr] = tr.wdata]
          /\ UNCHANGED read_fail
      BY <2>2, <2>4, <3>1 DEF Score, ScoreWrite, ScoreRead
    <3> QED BY <1>1, <2>3, <2>4, <3>2
  <2>5. CASE ~tr.write
    <3> HIDE DEF tr
    <3>1. /\ ~Completed.write
          /\ Completed.addr = tr.addr
          /\ Completed.rdata = rdata
      BY <2>2, <2>5 DEF Transaction
    <3>2. /\ UNCHANGED expected_memory
          /\ read_fail' = (read_fail \/ expected_memory[tr.addr] # rdata)
      BY <2>2, <3>1 DEF Score, ScoreWrite, ScoreRead
    <3> QED BY <1>1, <2>3, <2>5, <3>2
  <2> QED BY <2>4, <2>5
<1>3. CASE ~ready
  BY <1>1, <1>3, MonitorStep DEF TBInv, ExpectedFollowsMemory, scoreboard
<1> QED BY <1>2, <1>3

-----------------------------------------------------------------------------
(* Out of reset, the request queued at an edge is the one captured, and    *)
(* the one that stays queued is the one executed.                          *)
LEMMA QueueStep ==
  ASSUME TBInv, ~rst, ClockEdge
  PROVE  QueueShape' /\ ExpectedFollowsMemory'
<1>1. PICK q \in Seq(Transaction) :
         /\ QueuedPending(q)
         /\ inflight_q' = IF valid THEN Append(q, Issued) ELSE q
  BY MonitorStep DEF ClockEdge
<1>2. expected_memory' = memory
  BY ScoreboardStep DEF ClockEdge
<1>3. PICK new \in Transaction : new = Issued
  BY IssuedType DEF TBInv
<1>4. Execute /\ Capture
  BY DEF ClockEdge, AlwaysFF, Reset
<1>5. ready' = pending
  BY <1>4, ReadyFollowsPending DEF TBInv, TBTypeOK, TypeOK
<1>6. valid => InPipeline(new)'
  BY <1>3, <1>4 DEF Capture, InPipeline, Issued
<1>7. pending' = valid
  BY <1>4 DEF Capture
<1>8. CASE pending
  <2>1. PICK tr \in Transaction : q = <<tr>> /\ InPipeline(tr)
    BY <1>1, <1>8 DEF QueuedPending
  <2>2. PICK rest \in Seq(Transaction) :
           rest = IF valid THEN <<new>> ELSE <<>>
    <3>1. (IF valid THEN <<new>> ELSE <<>>) \in Seq(Transaction)
      BY ShortQueueFacts
    <3> QED BY <3>1
  <2>3. inflight_q' = <<tr>> \o rest
    <3>1. CASE valid
      BY <1>1, <1>3, <2>1, <2>2, <3>1, ShortQueueFacts
    <3>2. CASE ~valid
      BY <1>1, <2>1, <2>2, <3>2, ShortQueueFacts
    <3> QED BY <3>1, <3>2
  <2>4. QueuedPending(rest)'
    BY <1>6, <1>7, <2>2 DEF QueuedPending
  <2>5. QueueShape'
    BY <1>5, <1>8, <2>3, <2>4 DEF QueueShape
  <2>6. Head(inflight_q') = tr
    BY <2>3, QueueFacts
  <2>7. IF tr.write
        THEN memory' = [memory EXCEPT ![tr.addr] = tr.wdata]
        ELSE memory' = memory /\ rdata' = memory[tr.addr]
    BY <1>4, <1>8, <2>1
    DEF Execute, ExecuteWrite, ExecuteRead, ExecuteNothing, InPipeline
  <2>8. ExpectedFollowsMemory'
    BY <1>2, <1>5, <1>8, <2>6, <2>7 DEF ExpectedFollowsMemory
  <2> QED BY <2>5, <2>8
<1>9. CASE ~pending
  <2>1. inflight_q' = IF valid THEN <<new>> ELSE <<>>
    BY <1>1, <1>3, <1>9, ShortQueueFacts DEF QueuedPending
  <2>2. QueueShape'
    BY <1>5, <1>6, <1>7, <1>9, <2>1 DEF QueueShape, QueuedPending
  <2>3. memory' = memory
    BY <1>4, <1>9 DEF Execute, ExecuteWrite, ExecuteRead, ExecuteNothing
  <2> QED BY <1>2, <1>5, <1>9, <2>2, <2>3 DEF ExpectedFollowsMemory
<1> QED BY <1>8, <1>9

(* The edge under reset, at power-up. *)
LEMMA ResetStep ==
  ASSUME TBInv, rst, ClockEdge
  PROVE  /\ inflight_q' = <<>>
         /\ expected_memory' = memory'
         /\ read_fail' = FALSE
         /\ ~ready' /\ ~pending'
         /\ ~valid_d1' /\ ~valid_d2' /\ ~assertion_failed'
<1>1. Watch /\ UNCHANGED scoreboard
  BY DEF TBInv, PowerUp, ClockEdge, MonitorAndScore, Report, Completes, Pushed
<1>2. inflight_q' = <<>>
  BY <1>1 DEF TBInv, PowerUp, Watch, Pushed
<1>3. Reset
  BY DEF ClockEdge, AlwaysFF
<1>4. DisableIff
  BY DEF ClockEdge, AssertProperty, ValidImpliesReady
<1> QED
  BY <1>1, <1>2, <1>3, <1>4
  DEF TBInv, PowerUp, ScoreboardNeverFails, AssertionNeverFails, scoreboard,
      TBTypeOK, ScoreboardTypeOK, Reset, DisableIff

LEMMA StepType == TBInv /\ TBNext => TBTypeOK'
<1> SUFFICES ASSUME TBInv, TBNext PROVE TBTypeOK'
  OBVIOUS
<1>1. TBTypeOK
  BY DEF TBInv
<1>2. AnyInputs /\ reset_seen' \in BOOLEAN
  <2>1. rst' = FALSE
    BY DEF TBNext, ClockEdge, ReleaseReset
  <2>2. CASE WaitForReset
    BY <1>1, <2>1, <2>2
    DEF WaitForReset, inputs, AnyInputs, TBTypeOK, TypeOK, InterfaceTypeOK
  <2>3. CASE DriveIdle
    BY <1>1, <2>1, <2>3
    DEF DriveIdle, AnyInputs, TBTypeOK, TypeOK, InterfaceTypeOK
  <2>4. ASSUME NEW tr \in Request, DriveItem(tr)
        PROVE  AnyInputs /\ reset_seen' \in BOOLEAN
    BY <1>1, <2>1, <2>4 DEF DriveItem, AnyInputs, Request, TBTypeOK
  <2> QED BY <2>2, <2>3, <2>4 DEF TBNext, Drive
<1>3. TypeOK'
  BY <1>1, <1>2, AlwaysFFType
  DEF TBNext, ClockEdge, AnyInputs, TypeOK, InterfaceTypeOK, TBTypeOK
<1>4. AssertionsTypeOK'
  BY <1>1
  DEF TBNext, ClockEdge, AssertProperty, DisableIff, ValidImpliesReady,
      AssertionsTypeOK, TBTypeOK, TypeOK, InterfaceTypeOK
<1>5. MonitorTypeOK' /\ ScoreboardTypeOK'
  <2>1. CASE rst
    BY <1>1, <1>3, <2>1, ResetStep
    DEF TBNext, MonitorTypeOK, ScoreboardTypeOK, TypeOK
  <2>2. CASE ~rst
    <3>1. MonitorTypeOK'
      BY <1>1, <2>2, MonitorStep, IssuedType DEF TBNext, ClockEdge, MonitorTypeOK
    <3>2. ScoreboardTypeOK'
      BY <1>1, <2>2, ScoreboardStep
      DEF TBNext, ClockEdge, ScoreboardTypeOK, TBTypeOK, TypeOK
    <3> QED BY <3>1, <3>2
  <2> QED BY <2>1, <2>2
<1> QED BY <1>2, <1>3, <1>4, <1>5 DEF TBTypeOK

LEMMA StepInv == TBInv /\ TBNext => TBInv'
<1> SUFFICES ASSUME TBInv, TBNext PROVE TBInv'
  OBVIOUS
<1>1. ClockEdge
  BY DEF TBNext
<1>2. TBTypeOK'
  BY StepType
<1>3. ~rst'
  BY <1>1 DEF ClockEdge, ReleaseReset
<1>4. CASE rst
  <2>1. AttemptsMatchPipeline'
    <3>1. valid_d1' = pending' /\ valid_d2' = ready'
      BY <1>1, <1>2, <1>4, ResetStep
      DEF TBTypeOK, TypeOK, InterfaceTypeOK, AssertionsTypeOK
    <3> QED BY <3>1 DEF AttemptsMatchPipeline
  <2> QED
    BY <1>1, <1>2, <1>3, <1>4, <2>1, ResetStep
    DEF TBInv, PowerUp, QueueShape, QueuedPending, ExpectedFollowsMemory,
        ScoreboardNeverFails, AssertionNeverFails
<1>5. CASE ~rst
  <2>1. QueueShape' /\ ExpectedFollowsMemory'
    BY <1>1, <1>5, QueueStep
  <2>2. ScoreboardNeverFails'
    BY <1>1, <1>5, ScoreboardStep DEF ClockEdge, ScoreboardNeverFails
  <2>3. ValidImpliesReady
    BY <1>1, <1>5 DEF ClockEdge, AssertProperty, DisableIff
  <2>4. AssertionNeverFails'
    BY <1>5, <2>3
    DEF TBInv, AttemptsMatchPipeline, AssertionNeverFails, ValidImpliesReady
  <2>5. AttemptsMatchPipeline'
    <3>1. Execute /\ Capture
      BY <1>1, <1>5 DEF ClockEdge, AlwaysFF, Reset
    <3>2. pending' = valid /\ ready' = pending
      BY <3>1, ReadyFollowsPending DEF Capture, TBInv, TBTypeOK, TypeOK
    <3>3. valid_d1' = valid /\ valid_d2' = pending
      BY <1>5, <2>3 DEF TBInv, AttemptsMatchPipeline, ValidImpliesReady
    <3> QED BY <3>2, <3>3 DEF AttemptsMatchPipeline
  <2> QED
    BY <1>2, <1>3, <2>1, <2>2, <2>4, <2>5 DEF TBInv, PowerUp
<1> QED BY <1>4, <1>5

LEMMA StutterInv == TBInv /\ UNCHANGED TBvars => TBInv'
<1> SUFFICES ASSUME TBInv, UNCHANGED TBvars PROVE TBInv'
  OBVIOUS
<1>1. UNCHANGED <<vars, assertions, reset_seen, inflight_q, scoreboard>>
  BY DEF TBvars
<1> USE <1>1 DEF vars, wires, inputs, dut, captured, assertions, scoreboard
<1>2. TBTypeOK'
  BY DEF TBInv, TBTypeOK, TypeOK, InterfaceTypeOK, AssertionsTypeOK,
         MonitorTypeOK, ScoreboardTypeOK
<1>3. PowerUp' /\ AttemptsMatchPipeline'
  BY DEF TBInv, PowerUp, AttemptsMatchPipeline
<1>4. QueueShape'
  BY DEF TBInv, QueueShape, QueuedPending, InPipeline
<1>5. ExpectedFollowsMemory'
  BY DEF TBInv, ExpectedFollowsMemory
<1>6. ScoreboardNeverFails' /\ AssertionNeverFails'
  BY DEF TBInv, ScoreboardNeverFails, AssertionNeverFails
<1> QED BY <1>2, <1>3, <1>4, <1>5, <1>6 DEF TBInv

LEMMA TBInvariant == TBSpec => []TBInv
BY TBInitInv, StepInv, StutterInv, PTL DEF TBSpec

-----------------------------------------------------------------------------
(* Everything in the testbench keeps its type; in particular the queue     *)
(* only ever holds transactions.                                           *)
THEOREM TestbenchTypeCorrect == TBSpec => []TBTypeOK
<1>1. TBInv => TBTypeOK
  BY DEF TBInv
<1> QED BY <1>1, TBInvariant, PTL

(* The scoreboard never reports READ FAIL: each read answered by the       *)
(* controller agrees with the reference model, for every stream of         *)
(* requests, including a read right behind a write to its address.         *)
THEOREM ScoreboardCorrect == TBSpec => []ScoreboardNeverFails
<1>1. TBInv => ScoreboardNeverFails
  BY DEF TBInv
<1> QED BY <1>1, TBInvariant, PTL

(* The assertion `valid |-> ##2 ready' never fails.                        *)
THEOREM AssertionCorrect == TBSpec => []AssertionNeverFails
<1>1. TBInv => AssertionNeverFails
  BY DEF TBInv
<1> QED BY <1>1, TBInvariant, PTL

(* The reference model is at most the completed write behind the memory.   *)
THEOREM ReferenceModelCorrect == TBSpec => []ExpectedFollowsMemory
<1>1. TBInv => ExpectedFollowsMemory
  BY DEF TBInv
<1> QED BY <1>1, TBInvariant, PTL

(* The monitor's queue holds exactly the requests inside the pipeline.     *)
THEOREM MonitorCorrect == TBSpec => []InflightMatchesPipeline
<1>1. TBInv => InflightMatchesPipeline
  <2> SUFFICES ASSUME TBInv, ~rst PROVE InflightMatchesPipeline
    BY DEF InflightMatchesPipeline
  <2>1. CASE ready /\ pending
    <3>1. PICK a \in Transaction, b \in Transaction :
             inflight_q = <<a>> \o <<b>> /\ InPipeline(b)
      BY <2>1 DEF TBInv, QueueShape, QueuedPending
    <3>2. Len(inflight_q) = 2 /\ inflight_q[2] = b
      BY <3>1, ShortQueueFacts
    <3> QED BY <2>1, <3>1, <3>2 DEF InflightMatchesPipeline
  <2>2. CASE ready /\ ~pending
    <3>1. PICK a \in Transaction : inflight_q = <<a>>
      BY <2>2, ShortQueueFacts DEF TBInv, QueueShape, QueuedPending
    <3> QED BY <2>2, <3>1 DEF InflightMatchesPipeline
  <2>3. CASE ~ready /\ pending
    <3>1. PICK b \in Transaction : inflight_q = <<b>> /\ InPipeline(b)
      BY <2>3 DEF TBInv, QueueShape, QueuedPending
    <3> QED BY <2>3, <3>1 DEF InflightMatchesPipeline
  <2>4. CASE ~ready /\ ~pending
    <3>1. inflight_q = <<>>
      BY <2>4 DEF TBInv, QueueShape, QueuedPending
    <3> QED BY <2>4, <3>1 DEF InflightMatchesPipeline
  <2> QED BY <2>1, <2>2, <2>3, <2>4
<1> QED BY <1>1, TBInvariant, PTL
=============================================================================
