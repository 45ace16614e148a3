-------------------------- MODULE MemoryTestProofs --------------------------
(***************************************************************************)
(* Proofs about the simulations of the regression, for any number of       *)
(* random writes, any addresses and any data: a simulation is a behaviour  *)
(* of the testbench, so what is proved of the testbench holds of it; and   *)
(* no test passes by accident: the sequence, the sequencer and the driver  *)
(* never lose step, everything sent is driven, checked and sampled by the  *)
(* coverage, and the pipeline is empty when the objection is dropped.      *)
(***************************************************************************)
EXTENDS MemoryTest, MemoryTestbenchProofs

-----------------------------------------------------------------------------
(* The inductive invariant: what the sequence sends, and the sequencer     *)
(* hands on, are requests; and the test does not come to its end while the *)
(* driver still waits for rst to fall.                                     *)
SentItem == [seq : Seqs, item : Request]

ItemsAreRequests ==
    /\ test \in Tests
    /\ sent \in Seq(Request)
    /\ Len(sent) <= BodyLength(test)
    /\ m_req_fifo \in Seq(SentItem)
    /\ next_item \in SentItem \cup {Null}

NotBeforeReset ==
    ~reset_seen => \/ test_at \in {"start", "seq.start"}
                   \/ test_at = "wait_idle" /\ cycles = WaitIdleCycles

TestInv == TBInv /\ ItemsAreRequests /\ NotBeforeReset

-----------------------------------------------------------------------------
(* The items of the directed sequences are requests. *)
LEMMA DirectedItems ==
  ASSUME NEW t \in Tests \ {"memory_test"}
  PROVE  Directed(t) \in Seq(Request)
<1>1. \A a \in {0, 5, 10, 100, 255},
         w \in {hAAAAAAAA, hBBBBBBBB, hCCCCCCCC, hDDDDDDDD} :
         WriteItem(a, w) \in Request /\ ReadItem(a) \in Request
  BY ItemsAssumption, MemoryAssumption DEF WriteItem, ReadItem, Request
<1>2. write_read_sequence \in Seq(Request)
  BY <1>1 DEF write_read_sequence
<1>3. boundary_sequence \in Seq(Request)
  BY <1>1 DEF boundary_sequence
<1>4. reset_sequence \in Seq(Request)
  BY <1>1 DEF reset_sequence
<1> QED
  BY <1>2, <1>3, <1>4 DEF Directed, Tests

(* Whatever a sequence sends next is a request, and it is not at its end. *)
LEMMA NextItemIsRequest ==
  ASSUME NEW t \in Tests, NEW q \in Seq(Request), Len(q) <= BodyLength(t),
         NEW item \in NextItems(t, q)
  PROVE  item \in Request /\ Len(q) + 1 <= BodyLength(t)
<1>1. BodyLength(t) \in Nat
  BY DirectedItems, WritesAssumption DEF BodyLength
<1>2. Len(q) # BodyLength(t)
  BY DEF NextItems
<1>3. Len(q) + 1 <= BodyLength(t)
  BY <1>1, <1>2
<1>4. CASE t = "memory_test"
  <2>1. item \in memory_sequence(q)
    BY <1>2, <1>4 DEF NextItems
  <2>2. CASE Len(q) < Writes
    <3>1. PICK a \in RandomAddr, word \in RandomWords : item = WriteItem(a, word)
      BY <2>1, <2>2 DEF memory_sequence
    <3>2. a \in Addr /\ word \in Data
      BY ItemsAssumption
    <3> QED BY <1>3, <3>1, <3>2 DEF WriteItem, Request
  <2>3. CASE ~(Len(q) < Writes)
    <3>1. Len(q) + 1 - Writes \in 1 .. Len(q)
      BY <2>3, WritesAssumption
    <3>2. q[Len(q) + 1 - Writes] \in Request
      BY <3>1
    <3>3. /\ item = [write |-> FALSE,
                     addr  |-> q[Len(q) + 1 - Writes].addr,
                     wdata |-> hDEADBEEF]
          /\ hDEADBEEF \in Data
      BY <2>1, <2>3, ItemsAssumption DEF memory_sequence
    <3> QED BY <1>3, <3>2, <3>3 DEF Request
  <2> QED BY <2>2, <2>3
<1>5. CASE t # "memory_test"
  <2>1. item = Directed(t)[Len(q) + 1]
    BY <1>2, <1>5 DEF NextItems
  <2>2. Directed(t) \in Seq(Request) /\ BodyLength(t) = Len(Directed(t))
    BY <1>5, DirectedItems DEF BodyLength
  <2>3. Len(q) + 1 \in 1 .. Len(Directed(t))
    BY <1>3, <2>2
  <2> QED BY <2>1, <2>2, <2>3
<1> QED BY <1>3, <1>4, <1>5

-----------------------------------------------------------------------------
(* Every step of a simulation is a clock edge of the testbench or leaves   *)
(* it alone.                                                               *)
LEMMA StepIsTestbench ==
  ASSUME TestInv, [TestNext]_all_vars
  PROVE  [TBNext]_TBvars
<1>1. CASE UNCHANGED testbench
  BY <1>1 DEF testbench
<1>2. CASE ResetEdge
  BY <1>2 DEF ResetEdge, EdgeEffects, TBNext, Drive
<1>3. CASE DriverAssigns
  <2>1. ClockEdge
    BY <1>3 DEF DriverAssigns, EdgeEffects
  <2>2. CASE ItemDone /\ DriveItem(next_item.item)
    <3>1. next_item.item \in Request
      BY <2>2 DEF ItemDone, TestInv, ItemsAreRequests, SentItem
    <3> QED BY <2>1, <2>2, <3>1 DEF TBNext, Drive
  <2>3. CASE DriveIdle
    BY <2>1, <2>3 DEF TBNext, Drive
  <2> QED BY <1>3, <2>2, <2>3 DEF DriverAssigns
<1>4. CASE EndOfRunPhase
  <2>1. CASE UNCHANGED testbench
    BY <2>1 DEF testbench
  <2>2. CASE EdgeEffects /\ UNCHANGED <<inputs, reset_seen>>
    <3>1. ClockEdge /\ reset_seen
      BY <1>4, <2>2 DEF EndOfRunPhase, EdgeEffects, TestInv, NotBeforeReset
    <3>2. CASE valid
      <4>1. Presented \in Request
        BY DEF TestInv, TBInv, TBTypeOK, TypeOK, InterfaceTypeOK,
               Presented, Request
      <4>2. DriveItem(Presented)
        BY <2>2, <3>1, <3>2 DEF DriveItem, Presented, inputs
      <4> QED BY <3>1, <4>1, <4>2 DEF TBNext, Drive
    <3>3. CASE ~valid
      <4>1. valid' = FALSE
        BY <2>2, <3>3 DEF inputs, TestInv, TBInv, TBTypeOK, TypeOK,
                          InterfaceTypeOK
      <4>2. DriveIdle
        BY <2>2, <3>1, <4>1 DEF DriveIdle, inputs
      <4> QED BY <3>1, <4>2 DEF TBNext, Drive
    <3> QED BY <3>2, <3>3
  <2> QED BY <1>4, <2>1, <2>2 DEF EndOfRunPhase
<1> QED
  BY <1>1, <1>2, <1>3, <1>4
  DEF TestNext, Start, StartReturns, DropObjection, Body, WakeUp, GetItem,
      Simulated, all_vars

(* Only FinishItem adds an item, and it sends what the sequence made. *)
LEMMA StepItems ==
  ASSUME TestInv, [TestNext]_all_vars
  PROVE  ItemsAreRequests'
<1> USE DEF TestInv, ItemsAreRequests
<1>1. CASE \E item \in NextItems(test, sent) :
              /\ FinishItem(seq, item)
              /\ sent' = Append(sent, item)
              /\ UNCHANGED test
  <2>1. PICK item \in NextItems(test, sent) :
              /\ FinishItem(seq, item)
              /\ sent' = Append(sent, item)
              /\ UNCHANGED test
    BY <1>1
  <2>2. item \in Request /\ Len(sent) + 1 <= BodyLength(test)
    BY NextItemIsRequest
  <2>3. sent' \in Seq(Request) /\ Len(sent') = Len(sent) + 1
    BY <2>1, <2>2
  <2>4. seq \in Seqs
    BY OneSequence DEF seq
  <2>5. m_req_fifo' \in Seq(SentItem)
    <3>1. [seq |-> seq, item |-> item] \in SentItem
      BY <2>2, <2>4 DEF SentItem
    <3>2. \/ m_req_fifo' = <<[seq |-> seq, item |-> item]>>
          \/ UNCHANGED m_req_fifo
      BY <2>1 DEF FinishItem
    <3>3. <<[seq |-> seq, item |-> item]>> \in Seq(SentItem)
      BY <3>1, ShortQueueFacts
    <3> QED BY <3>2, <3>3
  <2>6. UNCHANGED next_item
    BY <2>1 DEF FinishItem, driver
  <2> QED BY <2>1, <2>2, <2>3, <2>5, <2>6 DEF BodyLength
<1>2. CASE /\ UNCHANGED <<test, sent>>
           /\ m_req_fifo' \in {m_req_fifo, <<>>}
           /\ next_item' \in {next_item, Null}
  <2>1. BodyLength(test)' = BodyLength(test)
    BY <1>2 DEF BodyLength
  <2>2. <<>> \in Seq(SentItem)
    OBVIOUS
  <2> QED BY <1>2, <2>1, <2>2
<1>3. CASE PeekItem /\ UNCHANGED <<test, sent>>
  BY <1>3 DEF PeekItem, handshake, BodyLength
<1>4. CASE Body
  <2>1. CASE \E item \in NextItems(test, sent) :
                FinishItem(seq, item) /\ sent' = Append(sent, item)
    BY <1>1, <1>4, <2>1 DEF Body
  <2>2. CASE \/ StartItem(seq) \/ ItemGranted(seq) \/ ItemFinished(seq)
             \/ FinishSequence(seq)
    <3>1. UNCHANGED <<handshake, driver>>
      BY <2>2 DEF StartItem, ItemGranted, ItemFinished, FinishSequence
    <3>2. UNCHANGED <<test, sent>>
      BY <1>4, <2>2 DEF Body, StartItem, ItemGranted, ItemFinished,
                        FinishSequence, FinishItem
    <3> QED BY <1>2, <3>1, <3>2 DEF handshake, driver
  <2> QED BY <1>4, <2>1, <2>2 DEF Body
<1>5. CASE WakeUp \/ GetItem
  <2>1. UNCHANGED <<test, sent>>
    BY <1>5 DEF WakeUp, GetItem, test_vars
  <2>2. CASE TryNextItem \/ ChooseRequest
    BY <1>2, <2>1, <2>2 DEF TryNextItem, ChooseRequest, handshake
  <2> QED BY <1>3, <1>5, <2>1, <2>2 DEF WakeUp, GetItem
<1>6. CASE DriverAssigns
  BY <1>2, <1>6 DEF DriverAssigns, ItemDone, NoItem, handshake
<1>7. CASE Start \/ StartReturns \/ DropObjection \/ ResetEdge \/ EndOfRunPhase
           \/ UNCHANGED all_vars
  BY <1>2, <1>7
  DEF Start, StartReturns, DropObjection, ResetEdge, EndOfRunPhase,
      StartSequence, all_vars, test_vars, sequencer, handshake, driver
<1> QED
  BY <1>4, <1>5, <1>6, <1>7 DEF TestNext, Simulated

(* The driver is past the reset before wait_idle has counted one edge. *)
LEMMA StepNotBeforeReset ==
  ASSUME TestInv, [TestNext]_all_vars
  PROVE  NotBeforeReset'
<1>1. CASE UNCHANGED <<reset_seen, test_at, cycles>>
  BY <1>1 DEF TestInv, NotBeforeReset, WaitIdleCycles
<1>2. CASE Start \/ StartReturns \/ DropObjection \/ Body \/ GetItem \/ WakeUp
  <2>1. CASE reset_seen'
    BY <2>1 DEF NotBeforeReset
  <2>2. CASE ~reset_seen'
    <3>1. ~reset_seen
      BY <1>2, <2>2
      DEF Start, StartReturns, DropObjection, Body, GetItem, WakeUp, testbench,
          TBvars
    <3> QED
      BY <1>2, <3>1
      DEF TestInv, NotBeforeReset, WaitIdleCycles, Start, StartReturns,
          DropObjection, Body, GetItem, WakeUp, test_vars
  <2> QED BY <2>1, <2>2
<1>3. CASE ResetEdge
  BY <1>3 DEF ResetEdge, WaitForReset, TestInv, NotBeforeReset, WaitIdleCycles
<1>4. CASE DriverAssigns
  <2>1. reset_seen /\ UNCHANGED reset_seen
    BY <1>4 DEF DriverAssigns, DriveItem, DriveIdle
  <2> QED BY <2>1 DEF NotBeforeReset
<1>5. CASE EndOfRunPhase
  <2>1. UNCHANGED reset_seen
    BY <1>5 DEF EndOfRunPhase, testbench, TBvars
  <2>2. reset_seen
    BY <1>5 DEF EndOfRunPhase, TestInv, NotBeforeReset
  <2> QED BY <2>1, <2>2 DEF NotBeforeReset
<1>6. CASE UNCHANGED all_vars
  BY <1>1, <1>6 DEF all_vars, testbench, TBvars, test_vars
<1> QED
  BY <1>2, <1>3, <1>4, <1>5, <1>6 DEF TestNext, Simulated

-----------------------------------------------------------------------------
LEMMA TestInvariant == TestSpec => []TestInv
<1>1. TestInit => TestInv
  <2> SUFFICES ASSUME TestInit PROVE TestInv
    OBVIOUS
  <2>1. TBInv
    BY TBInitInv DEF TestInit
  <2>2. BodyLength(test) \in Nat
    BY DirectedItems, WritesAssumption DEF TestInit, BodyLength
  <2>3. ItemsAreRequests
    BY <2>2 DEF TestInit, SequencerInit, ItemsAreRequests
  <2>4. NotBeforeReset
    BY DEF TestInit, NotBeforeReset
  <2> QED BY <2>1, <2>3, <2>4 DEF TestInv
<1>2. TestInv /\ [TestNext]_all_vars => TestInv'
  <2> SUFFICES ASSUME TestInv, [TestNext]_all_vars PROVE TestInv'
    OBVIOUS
  <2>1. TBInv'
    BY StepIsTestbench, StepInv, StutterInv DEF TestInv
  <2> QED BY <2>1, StepItems, StepNotBeforeReset DEF TestInv
<1> QED BY <1>1, <1>2, PTL DEF TestSpec

(* A simulation of any test of the regression, with any number of random   *)
(* writes and whatever is randomized, is a behaviour of the testbench.     *)
THEOREM SimulationsRunTheTestbench == TestSpec => RunsTestbench
<1>1. TestInit => TBInit
  BY DEF TestInit
<1>2. TestInv /\ [TestNext]_all_vars => [TBNext]_TBvars
  BY StepIsTestbench
<1> QED BY <1>1, <1>2, TestInvariant, PTL DEF TestSpec, RunsTestbench

(* No test reports READ FAIL, and the monitor's queue mirrors the pipeline *)
(* from reset to the end of the run phase.                                 *)
THEOREM SimulationsScoreCorrectly ==
    TestSpec => [](ScoreboardNeverFails /\ InflightMatchesPipeline)
<1>1. RunsTestbench => TBSpec
  BY DEF RunsTestbench, TBSpec
<1> QED
  BY <1>1, SimulationsRunTheTestbench, ScoreboardCorrect, MonitorCorrect, PTL

-----------------------------------------------------------------------------
(* The handshake of the one sequence with the driver, by phases: what is   *)
(* queued, granted, sent and answered agrees with where the sequence and   *)
(* the driver are.                                                         *)
Place == seq_at[seq]

Places == {"created", "body", "wait_for_grant", "granted",
           "wait_for_item_done", "finished"}

ItemRequest == [request |-> "SEQ_TYPE_REQ", seq |-> seq]

LastItem == [seq |-> seq, item |-> sent[Len(sent)]]

(* Nothing is asked for.  The driver only calls when the sequence is over. *)
Resting ==
    /\ Place \in {"created", "body", "finished"}
    /\ arb_sequence_q = <<>> /\ arb_completed = {} /\ m_req_fifo = <<>>
    /\ ~get_next_item_called
    /\ \/ driver_at = "clock"
       \/ /\ driver_at \in {"choose", "return"}
          /\ Place = "finished"
          /\ next_item = Null

Waiting ==
    /\ Place = "wait_for_grant"
    /\ arb_sequence_q = <<ItemRequest>> /\ arb_completed = {} /\ m_req_fifo = <<>>
    /\ ~get_next_item_called
    /\ driver_at \in {"clock", "choose"}

Chosen ==
    /\ \/ Place = "wait_for_grant" /\ arb_completed = {seq}
       \/ Place = "granted" /\ arb_completed = {}
    /\ arb_sequence_q = <<>> /\ m_req_fifo = <<>>
    /\ get_next_item_called
    /\ driver_at = "peek" /\ selected = seq

Sending ==
    /\ Place = "wait_for_item_done"
    /\ arb_sequence_q = <<>> /\ arb_completed = {}
    /\ sent # <<>> /\ m_req_fifo = <<LastItem>>
    /\ m_wait_for_item_sequence_id = Null
    /\ get_next_item_called
    /\ \/ driver_at = "peek" /\ selected = seq
       \/ driver_at = "return" /\ next_item = LastItem

Answered ==
    /\ Place = "wait_for_item_done"
    /\ arb_sequence_q = <<>> /\ arb_completed = {} /\ m_req_fifo = <<>>
    /\ m_wait_for_item_sequence_id = seq
    /\ ~get_next_item_called
    /\ driver_at = "clock"

Handshake ==
    /\ seq_at \in [Seqs -> Places]
    /\ selected \in Seqs \cup {Null}
    /\ m_wait_for_item_sequence_id \in Seqs \cup {Null}
    /\ get_next_item_called \in BOOLEAN
    /\ lock_list = <<>> /\ reports = {}
    /\ Resting \/ Waiting \/ Chosen \/ Sending \/ Answered

(* Where the test is when the sequence is there, and what has not happened *)
(* before rst falls.                                                       *)
Course ==
    /\ test_at \in {"start", "seq.start", "wait_idle", "dropped", "ended"}
    /\ cycles \in 0 .. WaitIdleCycles
    /\ test_at = "start" <=> Place = "created"
    /\ test_at \in {"wait_idle", "dropped", "ended"} => Place = "finished"
    /\ test_at = "seq.start" /\ Place = "finished" => driver_at = "clock"
    /\ Place = "finished" => Len(sent) = BodyLength(test)
    /\ rst = ~reset_seen
    /\ rst => /\ sent = <<>>
              /\ Place \in {"created", "body", "wait_for_grant"}
              /\ driver_at = "clock"

RunInv == Handshake /\ Course

-----------------------------------------------------------------------------
LEMMA TheSequence == seq \in Seqs /\ Seqs = {seq} /\ seq # Null
BY OneSequence, SequencerAssumption DEF seq

LEMMA BodyIsNotEmpty ==
  ASSUME NEW t \in Tests
  PROVE  BodyLength(t) \in Nat /\ BodyLength(t) > 0
<1>1. CASE t = "memory_test"
  BY <1>1, WritesAssumption DEF BodyLength
<1>2. CASE t # "memory_test"
  <2>1. Len(write_read_sequence) = 2 /\ Len(reset_sequence) = 2
    BY DEF write_read_sequence, reset_sequence
  <2>2. Len(boundary_sequence) = 6
    BY DEF boundary_sequence
  <2> QED BY <1>2, <2>1, <2>2 DEF BodyLength, Directed, Tests
<1> QED BY <1>1, <1>2

(* The only element of a list is the first that can be chosen, and nothing *)
(* is left without it.                                                     *)
LEMMA OnlyElement ==
  ASSUME NEW r
  PROVE  Min({1}) = 1 /\ RemoveAt(<<r>>, 1) = <<>> /\ Append(<<>>, r) = <<r>>
<1>1. Min({1}) = 1
  BY DEF Min
<1>2. SubSeq(<<r>>, 1, 0) = <<>> /\ SubSeq(<<r>>, 2, 1) = <<>>
  OBVIOUS
<1>3. RemoveAt(<<r>>, 1) = <<>>
  BY <1>2 DEF RemoveAt
<1> QED BY <1>1, <1>3

(* Without lock requests in the queue no lock is granted. *)
LEMMA NoLockToGrant ==
  ASSUME NEW arb, arb.q \in {<<>>, <<ItemRequest>>}
  PROVE  GrantQueuedLocks(arb) = arb
<1>1. Unblocked(arb, "SEQ_TYPE_LOCK") = {}
  BY DEF Unblocked, ItemRequest
<1> QED BY <1>1 DEF GrantQueuedLocks

(* A scan of the empty list leaves it empty. *)
LEMMA KeptNothing ==
  ASSUME NEW keep
  PROVE  Kept(<<>>, keep) = <<>>
<1> DEFINE Scan(kept) ==
             kept = [n \in 0 .. Len(<<>>) |->
                       IF n = 0 THEN <<>>
                       ELSE IF <<>>[n] \in keep THEN Append(kept[n - 1], <<>>[n])
                                                ELSE kept[n - 1]]
           kept == CHOOSE kept : Scan(kept)
<1>1. Len(<<>>) = 0 /\ 0 .. 0 = {0}
  OBVIOUS
<1>2. Scan([n \in 0 .. Len(<<>>) |-> <<>>])
  BY <1>1
<1>3. Scan(kept)
  BY <1>2
<1>4. Kept(<<>>, keep) = kept[0]
  BY <1>1 DEF Kept
<1> HIDE DEF kept
<1>5. kept[0] = <<>>
  BY <1>1, <1>3
<1> QED BY <1>4, <1>5

LEMMA InitRun == TestInit => RunInv
<1> SUFFICES ASSUME TestInit PROVE RunInv
  OBVIOUS
<1>1. Place = "created" /\ seq_at \in [Seqs -> Places]
  BY TheSequence DEF TestInit, SequencerInit, Place, Places
<1>2. Handshake
  BY <1>1 DEF TestInit, SequencerInit, Handshake, Resting
<1>3. rst = ~reset_seen /\ sent = <<>>
  BY DEF TestInit, TBInit, Init, InterfaceInit, DriverInit
<1>4. Course
  BY <1>1, <1>3 DEF TestInit, SequencerInit, Course, WaitIdleCycles
<1> QED BY <1>2, <1>4 DEF RunInv

-----------------------------------------------------------------------------
(* A step that leaves alone all the handshake is made of keeps it. *)
LEMMA HandshakeFrame ==
  ASSUME Handshake, UNCHANGED <<sequencer, sent>>
  PROVE  Handshake'
BY DEF Handshake, Resting, Waiting, Chosen, Sending, Answered, Place, LastItem,
       ItemRequest, sequencer, arbitration, handshake, driver

LEMMA CourseFrame ==
  ASSUME Course, UNCHANGED <<sequencer, test, test_at, cycles, sent, rst, reset_seen>>
  PROVE  Course'
BY DEF Course, Place, BodyLength, sequencer, driver

(* The phases a sequence can be in at each of its places. *)
LEMMA PhaseOfPlace ==
  ASSUME Handshake
  PROVE  /\ Place \in {"created", "body"} => Resting /\ driver_at = "clock"
         /\ Place = "finished" => Resting
         /\ Place = "wait_for_grant" => Waiting \/ Chosen
         /\ Place = "granted" => Chosen
         /\ Place = "wait_for_item_done" => Sending \/ Answered
BY DEF Handshake, Resting, Waiting, Chosen, Sending, Answered

(* The sequence moves to the next of its places. *)
LEMMA Moved ==
  ASSUME Handshake, NEW label \in Places, Goto(seq, label)
  PROVE  Place' = label /\ seq_at' \in [Seqs -> Places]
BY TheSequence DEF Handshake, Goto, Place

-----------------------------------------------------------------------------
(* The body of the sequence. *)
LEMMA StartItemRun ==
  ASSUME TestInv, RunInv, StartItem(seq), UNCHANGED <<testbench, test_vars>>
  PROVE  RunInv'
<1>1. Resting /\ driver_at = "clock" /\ Place = "body"
  BY PhaseOfPlace DEF RunInv, StartItem, Place
<1>2. Place' = "wait_for_grant" /\ seq_at' \in [Seqs -> Places]
  BY Moved DEF RunInv, StartItem, Places
<1>3. arb_sequence_q' = <<ItemRequest>>
  BY <1>1, OnlyElement DEF StartItem, Resting, ItemRequest
<1>4. Waiting'
  BY <1>1, <1>2, <1>3
  DEF StartItem, Resting, Waiting, handshake, driver, ItemRequest
<1>5. Handshake'
  BY <1>2, <1>4 DEF RunInv, Handshake, StartItem, handshake, driver
<1>6. Course'
  BY <1>1, <1>2
  DEF RunInv, Course, StartItem, driver, test_vars, testbench, TBvars, vars, wires,
      BodyLength
<1> QED BY <1>5, <1>6 DEF RunInv

LEMMA ItemGrantedRun ==
  ASSUME TestInv, RunInv, ItemGranted(seq), UNCHANGED <<testbench, test_vars>>
  PROVE  RunInv'
<1>1. Chosen /\ arb_completed = {seq} /\ Place = "wait_for_grant"
  BY PhaseOfPlace DEF RunInv, ItemGranted, Place, Waiting, Chosen
<1>2. Place' = "granted" /\ seq_at' \in [Seqs -> Places]
  BY Moved DEF RunInv, ItemGranted, Places
<1>3. Chosen'
  BY <1>1, <1>2 DEF ItemGranted, Chosen, handshake, driver
<1>4. Handshake'
  BY <1>2, <1>3 DEF RunInv, Handshake, ItemGranted, handshake, driver
<1>5. Course'
  BY <1>1, <1>2
  DEF RunInv, Course, ItemGranted, Chosen, driver, test_vars, testbench, TBvars,
      vars, wires, BodyLength
<1> QED BY <1>4, <1>5 DEF RunInv

LEMMA FinishItemRun ==
  ASSUME TestInv, RunInv, NEW item \in NextItems(test, sent),
         FinishItem(seq, item), sent' = Append(sent, item),
         UNCHANGED <<testbench, test, test_at, cycles, scored>>
  PROVE  RunInv'
<1>1. Chosen /\ arb_completed = {} /\ Place = "granted"
  BY PhaseOfPlace DEF RunInv, FinishItem, Place, Chosen
<1>2. Place' = "wait_for_item_done" /\ seq_at' \in [Seqs -> Places]
  BY Moved DEF RunInv, FinishItem, Places
<1>3. item \in Request /\ sent \in Seq(Request)
  BY NextItemIsRequest DEF TestInv, ItemsAreRequests
<1>4. sent' # <<>> /\ sent'[Len(sent')] = item
  BY <1>3
<1>5. m_req_fifo' = <<LastItem'>> /\ UNCHANGED reports
  BY <1>1, <1>4 DEF FinishItem, Chosen, LastItem
<1>6. GrantQueuedLocks(Arbiter(arb_sequence_q)) = Arbiter(arb_sequence_q)
  BY <1>1, NoLockToGrant DEF Arbiter, Chosen
<1>7. UNCHANGED arbitration
  BY <1>6 DEF FinishItem, SetArbiter, Arbiter, arbitration
<1>8. Sending'
  BY <1>1, <1>2, <1>4, <1>5, <1>7
  DEF FinishItem, Chosen, Sending, arbitration, driver
<1>9. Handshake'
  BY <1>2, <1>5, <1>7, <1>8 DEF RunInv, Handshake, FinishItem, arbitration, driver
<1>10. Course'
  BY <1>1, <1>2
  DEF RunInv, Course, FinishItem, Chosen, driver, testbench, TBvars, vars, wires,
      BodyLength
<1> QED BY <1>9, <1>10 DEF RunInv

LEMMA ItemFinishedRun ==
  ASSUME TestInv, RunInv, ItemFinished(seq), UNCHANGED <<testbench, test_vars>>
  PROVE  RunInv'
<1>1. Answered
  BY PhaseOfPlace, TheSequence DEF RunInv, ItemFinished, Place, Sending
<1>2. Place' = "body" /\ seq_at' \in [Seqs -> Places]
  BY Moved DEF RunInv, ItemFinished, Places
<1>3. Resting'
  BY <1>1, <1>2 DEF ItemFinished, Answered, Resting, arbitration, handshake, driver
<1>4. Handshake'
  BY <1>2, <1>3
  DEF RunInv, Handshake, ItemFinished, arbitration, handshake, driver
<1>5. Course'
  BY <1>1, <1>2
  DEF RunInv, Course, ItemFinished, Answered, driver, test_vars, testbench, TBvars,
      vars, wires, BodyLength
<1> QED BY <1>4, <1>5 DEF RunInv

(* The body returns at its end only, so not before reset is over, and      *)
(* leaves nothing in the queues that would be an error.                    *)
LEMMA FinishSequenceRun ==
  ASSUME TestInv, RunInv, FinishSequence(seq), Len(sent) = BodyLength(test),
         UNCHANGED <<testbench, test_vars>>
  PROVE  RunInv'
<1>1. Resting /\ driver_at = "clock" /\ Place = "body"
  BY PhaseOfPlace DEF RunInv, FinishSequence, Place
<1>2. Place' = "finished" /\ seq_at' \in [Seqs -> Places]
  BY Moved DEF RunInv, FinishSequence, Places
<1>3. UNCHANGED arbitration
  <2>1. arb_sequence_q' = <<>> /\ lock_list' = <<>>
    BY <1>1, KeptNothing
    DEF FinishSequence, RemoveFromQueues, Resting, RunInv, Handshake
  <2> QED
    BY <1>1, <2>1
    DEF FinishSequence, RemoveFromQueues, Resting, RunInv, Handshake, arbitration
<1>4. UNCHANGED reports
  BY <1>1 DEF FinishSequence, Owns, Resting, RunInv, Handshake
<1>5. Resting'
  BY <1>1, <1>2, <1>3 DEF FinishSequence, Resting, arbitration, handshake, driver
<1>6. Handshake'
  BY <1>2, <1>3, <1>4, <1>5
  DEF RunInv, Handshake, FinishSequence, arbitration, handshake, driver
<1>7. ~rst
  <2>1. BodyLength(test) > 0 /\ BodyLength(test) \in Nat
    BY BodyIsNotEmpty DEF TestInv, ItemsAreRequests
  <2> QED BY <2>1 DEF RunInv, Course
<1>8. Course'
  BY <1>1, <1>2, <1>7
  DEF RunInv, Course, FinishSequence, driver, test_vars, testbench, TBvars, vars,
      wires, BodyLength
<1> QED BY <1>6, <1>8 DEF RunInv

LEMMA BodyRun ==
  ASSUME TestInv, RunInv, Body
  PROVE  RunInv'
<1>1. UNCHANGED sent => UNCHANGED <<testbench, test_vars>>
  BY DEF Body, test_vars
<1>2. CASE StartItem(seq) /\ UNCHANGED sent
  BY <1>1, <1>2, StartItemRun
<1>3. CASE ItemGranted(seq) /\ UNCHANGED sent
  BY <1>1, <1>3, ItemGrantedRun
<1>4. CASE \E item \in NextItems(test, sent) :
              FinishItem(seq, item) /\ sent' = Append(sent, item)
  BY <1>4, FinishItemRun DEF Body
<1>5. CASE ItemFinished(seq) /\ UNCHANGED sent
  BY <1>1, <1>5, ItemFinishedRun
<1>6. CASE /\ Len(sent) = BodyLength(test)
           /\ FinishSequence(seq)
           /\ UNCHANGED sent
  BY <1>1, <1>6, FinishSequenceRun
<1> QED BY <1>2, <1>3, <1>4, <1>5, <1>6 DEF Body

-----------------------------------------------------------------------------
(* run_phase of the test. *)
LEMMA StartRun ==
  ASSUME TestInv, RunInv, Start
  PROVE  RunInv'
<1>1. Resting /\ driver_at = "clock" /\ Place = "created"
  BY PhaseOfPlace DEF RunInv, Start, StartSequence, Place
<1>2. Place' = "body" /\ seq_at' \in [Seqs -> Places]
  BY Moved DEF RunInv, Start, StartSequence, Places
<1>3. Resting'
  BY <1>1, <1>2 DEF Start, StartSequence, Resting, arbitration, handshake, driver
<1>4. Handshake'
  BY <1>2, <1>3
  DEF RunInv, Handshake, Start, StartSequence, arbitration, handshake, driver
<1>5. Course'
  BY <1>1, <1>2
  DEF RunInv, Course, Start, StartSequence, driver, testbench, TBvars, vars, wires
<1> QED BY <1>4, <1>5 DEF RunInv

LEMMA StartReturnsRun ==
  ASSUME TestInv, RunInv, StartReturns
  PROVE  RunInv' /\ driver_at = "clock"
<1>1. Place = "finished" /\ driver_at = "clock"
  BY DEF RunInv, Course, StartReturns, Place
<1>2. Handshake'
  BY HandshakeFrame DEF RunInv, StartReturns
<1>3. UNCHANGED <<Place, driver_at, sent, test, rst, reset_seen>>
  BY DEF StartReturns, testbench, TBvars, vars, wires, sequencer, driver, Place
<1>4. Course'
  BY <1>1, <1>3 DEF RunInv, Course, StartReturns, WaitIdleCycles, BodyLength
<1> QED BY <1>1, <1>2, <1>4 DEF RunInv

LEMMA DropObjectionRun ==
  ASSUME TestInv, RunInv, DropObjection
  PROVE  RunInv'
<1>1. Handshake'
  BY HandshakeFrame DEF RunInv, DropObjection
<1>2. UNCHANGED <<Place, driver_at, sent, test, cycles, rst, reset_seen>>
  BY DEF DropObjection, testbench, TBvars, vars, wires, sequencer, driver, Place
<1>3. Course'
  BY <1>2 DEF RunInv, Course, DropObjection, BodyLength
<1> QED BY <1>1, <1>3 DEF RunInv

-----------------------------------------------------------------------------
(* The driver.  It calls when the sequence waits for a grant or is over,   *)
(* gets what was sent, and is never told that it called twice.             *)
LEMMA WhenSettled ==
  ASSUME RunInv, Settled
  PROVE  \/ Waiting
         \/ Sending
         \/ Resting /\ Place = "finished" /\ test_at # "seq.start"
<1>1. Place \notin {"body", "granted"}
  BY DEF Settled, SequenceRunnable, Place
<1>2. ~Answered
  BY DEF Settled, SequenceRunnable, Place, Answered
<1>3. ~Chosen
  BY <1>1, TheSequence DEF Settled, SequenceRunnable, Place, Chosen
<1>4. Place # "created"
  BY DEF RunInv, Course, Settled, TestRunnable
<1>5. Place = "finished" => test_at # "seq.start"
  BY DEF Settled, TestRunnable, Place
<1> QED
  BY <1>1, <1>2, <1>3, <1>4, <1>5 DEF RunInv, Handshake, Resting

LEMMA WakeUpRun ==
  ASSUME TestInv, RunInv, WakeUp
  PROVE  /\ RunInv'
         /\ driver_at = "clock" /\ driver_at' # "clock"
         /\ test_at = "wait_idle" => cycles # 0
<1>1. driver_at = "clock"
  BY DEF WakeUp, TryNextItem
<1>2. Waiting \/ (Resting /\ Place = "finished" /\ test_at # "seq.start")
  BY <1>1, WhenSettled DEF WakeUp, Sending
<1>3. driver_at' = "choose" /\ next_item' = Null /\ selected' = Null
  BY <1>2 DEF WakeUp, TryNextItem, Waiting, Resting
<1>4. UNCHANGED <<arbitration, handshake, seq_at, reports, Place>>
  BY <1>2 DEF WakeUp, TryNextItem, Waiting, Resting, Place
<1>5. Waiting' \/ Resting'
  BY <1>2, <1>3, <1>4
  DEF Waiting, Resting, ItemRequest, arbitration, handshake
<1>6. Handshake'
  BY <1>3, <1>4, <1>5 DEF RunInv, Handshake, arbitration, handshake
<1>7. test_at = "wait_idle" => cycles # 0
  BY DEF WakeUp, Settled, TestRunnable
<1>8. UNCHANGED <<test, test_at, sent, rst, reset_seen>> /\ reset_seen
  BY DEF WakeUp, testbench, TBvars, vars, wires
<1>9. cycles' \in 0 .. WaitIdleCycles
  BY <1>7 DEF WakeUp, RunInv, Course, WaitIdleCycles
<1>10. test_at = "seq.start" => Place # "finished"
  BY <1>2 DEF Waiting
<1>11. Course'
  BY <1>4, <1>8, <1>9, <1>10 DEF RunInv, Course, BodyLength
<1> QED BY <1>1, <1>3, <1>6, <1>7, <1>11 DEF RunInv

(* What the arbitration chooses from the queue of one sequence. *)
LEMMA Choice ==
  ASSUME RunInv, ChooseRequest, Waiting \/ Resting
  PROVE  /\ Waiting => /\ arb_sequence_q' = <<>>
                       /\ arb_completed' = {seq}
                       /\ selected' = seq
                       /\ driver_at' = "peek"
                       /\ get_next_item_called' = TRUE
         /\ Resting => /\ UNCHANGED <<arb_sequence_q, arb_completed,
                                      get_next_item_called>>
                       /\ selected' = Null
                       /\ driver_at' = "return"
         /\ lock_list' = <<>>
<1> DEFINE arb == Arbiter(arb_sequence_q)
<1>1. arb.q \in {<<>>, <<ItemRequest>>}
  BY DEF Arbiter, Waiting, Resting
<1>2. GrantQueuedLocks(arb) = arb
  BY <1>1, NoLockToGrant
<1>3. ChooseNextRequest(arb)
  BY DEF ChooseRequest
<1>4. CASE Waiting
  <2>1. arb = [q |-> <<ItemRequest>>, locks |-> <<>>, done |-> {}]
    BY <1>4 DEF Arbiter, Waiting, RunInv, Handshake
  <2>2. Unblocked(arb, "SEQ_TYPE_REQ") = {1}
    BY <2>1 DEF Unblocked, IsBlocked, ItemRequest
  <2> HIDE DEF arb
  <2>3. /\ SetArbiter([arb EXCEPT !.q = RemoveAt(@, 1),
                                  !.done = @ \cup {arb.q[1].seq}])
        /\ selected' = arb.q[1].seq
        /\ driver_at' = "peek"
        /\ get_next_item_called' = TRUE
    BY <1>2, <1>3, <2>2, OnlyElement DEF ChooseNextRequest
  <2>4. arb.q[1].seq = seq /\ RemoveAt(arb.q, 1) = <<>>
    BY <2>1, OnlyElement DEF ItemRequest
  <2> QED
    BY <1>4, <2>1, <2>3, <2>4 DEF SetArbiter, Waiting, Resting
<1>5. CASE Resting
  <2>1. arb = [q |-> <<>>, locks |-> <<>>, done |-> {}]
    BY <1>5 DEF Arbiter, Resting, RunInv, Handshake
  <2>2. Unblocked(arb, "SEQ_TYPE_REQ") = {}
    BY <2>1 DEF Unblocked
  <2> HIDE DEF arb
  <2>3. SetArbiter(arb) /\ selected' = Null /\ driver_at' = "return"
        /\ UNCHANGED get_next_item_called
    BY <1>2, <1>3, <2>2 DEF ChooseNextRequest
  <2> QED
    BY <1>5, <2>1, <2>3 DEF SetArbiter, Waiting, Resting
<1> QED BY <1>4, <1>5

LEMMA GetItemRun ==
  ASSUME TestInv, RunInv, GetItem
  PROVE  RunInv' /\ driver_at # "clock" /\ driver_at' # "clock"
<1>1. UNCHANGED <<test, test_at, cycles, sent, rst, reset_seen>>
  BY DEF GetItem, testbench, TBvars, vars, wires, test_vars
<1>2. UNCHANGED Place
  BY DEF GetItem, ChooseRequest, PeekItem, Place
<1>3. CASE ChooseRequest
  <2>1. driver_at = "choose"
    BY <1>3 DEF ChooseRequest
  <2>2. Waiting \/ Resting
    BY <2>1, WhenSettled DEF GetItem, Sending
  <2>3. UNCHANGED <<m_req_fifo, m_wait_for_item_sequence_id, seq_at, next_item,
                    reports>>
    BY <1>3 DEF ChooseRequest
  <2>4. Chosen' \/ Resting'
    BY <1>2, <1>3, <2>1, <2>2, <2>3, Choice DEF Waiting, Resting, Chosen
  <2>5. /\ driver_at' # "clock" /\ selected' \in Seqs \cup {Null}
        /\ lock_list' = <<>> /\ get_next_item_called' \in BOOLEAN
    BY <1>3, <2>2, Choice, TheSequence DEF RunInv, Handshake
  <2>6. Handshake'
    BY <2>3, <2>4, <2>5 DEF RunInv, Handshake
  <2>7. Course'
    BY <1>1, <1>2, <2>1, <2>5 DEF RunInv, Course, BodyLength
  <2> QED BY <2>1, <2>5, <2>6, <2>7 DEF RunInv
<1>4. CASE PeekItem
  <2>1. driver_at = "peek" /\ driver_at' = "return"
    BY <1>4 DEF PeekItem
  <2>2. Sending
    BY <2>1, WhenSettled DEF GetItem, Waiting, Resting
  <2>3. next_item' = LastItem /\ UNCHANGED reports
    BY <1>4, <2>2 DEF PeekItem, Sending
  <2>4. UNCHANGED <<arbitration, handshake, seq_at, selected, LastItem>>
    BY <1>1, <1>4 DEF PeekItem, LastItem
  <2>5. Sending'
    BY <1>1, <1>2, <2>1, <2>2, <2>3, <2>4
    DEF Sending, arbitration, handshake
  <2>6. Handshake'
    BY <2>3, <2>4, <2>5 DEF RunInv, Handshake, arbitration, handshake
  <2>7. Course'
    BY <1>1, <1>2, <2>1, <2>2 DEF RunInv, Course, Sending, BodyLength
  <2> QED BY <2>1, <2>6, <2>7 DEF RunInv
<1> QED BY <1>3, <1>4 DEF GetItem

-----------------------------------------------------------------------------
(* The steps at which time goes on. *)
LEMMA ResetEdgeRun ==
  ASSUME TestInv, RunInv, ResetEdge
  PROVE  RunInv' /\ rst /\ UNCHANGED driver_at
<1>1. Handshake'
  BY HandshakeFrame DEF RunInv, ResetEdge
<1>2. rst' = FALSE
  BY DEF ResetEdge, EdgeEffects, ClockEdge, ReleaseReset
<1>3. rst /\ reset_seen' = TRUE
  BY <1>2
  DEF ResetEdge, WaitForReset, RunInv, Course, TestInv, TBInv, TBTypeOK, TypeOK,
      InterfaceTypeOK
<1>4. UNCHANGED <<Place, driver_at, sent, test, test_at, cycles>>
  BY DEF ResetEdge, sequencer, driver, Place
<1>5. Course'
  BY <1>2, <1>3, <1>4 DEF RunInv, Course, BodyLength
<1> QED BY <1>1, <1>3, <1>4, <1>5 DEF RunInv

(* What the driver does with what try_next_item returned. *)
LEMMA DriverAssignsRun ==
  ASSUME TestInv, RunInv, DriverAssigns
  PROVE  /\ RunInv'
         /\ ~rst /\ driver_at = "return" /\ driver_at' = "clock"
         /\ \/ /\ Sending
               /\ DriveItem(sent[Len(sent)]) /\ m_req_fifo' = <<>>
            \/ /\ Resting /\ Place = "finished"
               /\ DriveIdle /\ UNCHANGED m_req_fifo
         /\ UNCHANGED Place
<1>1. rst' = FALSE /\ reset_seen /\ UNCHANGED reset_seen
  BY DEF DriverAssigns, EdgeEffects, ClockEdge, ReleaseReset, DriveItem, DriveIdle
<1>2. ~rst
  BY <1>1 DEF RunInv, Course
<1>3. UNCHANGED <<test, test_at, cycles, sent, LastItem>>
  BY DEF DriverAssigns, LastItem
<1>4. CASE ItemDone /\ DriveItem(next_item.item)
  <2>1. Sending /\ driver_at = "return"
    BY <1>4 DEF ItemDone, RunInv, Handshake, Resting, Waiting, Chosen, Answered
  <2>2. next_item.item = sent[Len(sent)]
    BY <2>1 DEF Sending, LastItem
  <2>3. GrantQueuedLocks(Arbiter(arb_sequence_q)) = Arbiter(arb_sequence_q)
    BY <2>1, NoLockToGrant DEF Arbiter, Sending
  <2>4. UNCHANGED <<arbitration, Place>>
    BY <1>4, <2>3 DEF ItemDone, SetArbiter, Arbiter, arbitration, Place
  <2>5. m_wait_for_item_sequence_id' = seq /\ UNCHANGED reports
    BY <1>4, <2>1 DEF ItemDone, Sending, LastItem
  <2>6. Answered'
    BY <1>4, <2>1, <2>4, <2>5 DEF ItemDone, Sending, Answered, arbitration
  <2>7. Handshake'
    BY <1>4, <2>4, <2>5, <2>6, TheSequence
    DEF RunInv, Handshake, ItemDone, arbitration
  <2>8. Course'
    BY <1>1, <1>2, <1>3, <1>4, <2>1, <2>4
    DEF RunInv, Course, ItemDone, Sending, BodyLength, TestInv, TBInv, TBTypeOK
  <2> QED
    BY <1>2, <1>4, <2>1, <2>2, <2>4, <2>7, <2>8 DEF RunInv, ItemDone
<1>5. CASE NoItem /\ DriveIdle
  <2>1. driver_at = "return" /\ next_item = Null
    BY <1>5 DEF NoItem
  <2>2. ~Sending
    <3>1. ASSUME Sending PROVE LastItem \in [seq : Seqs, item : Request]
      BY <3>1, TheSequence
      DEF Sending, LastItem, TestInv, ItemsAreRequests
    <3> QED BY <2>1, <3>1, NullIsNoItem DEF Sending
  <2>3. Resting /\ Place = "finished"
    BY <2>1, <2>2 DEF RunInv, Handshake, Resting, Waiting, Chosen, Answered
  <2>4. UNCHANGED <<arbitration, handshake, seq_at, selected, reports, Place>>
    BY <1>5 DEF NoItem, Place
  <2>5. driver_at' = "clock"
    BY <1>5 DEF NoItem
  <2>6. Resting'
    BY <2>3, <2>4, <2>5 DEF Resting, arbitration, handshake
  <2>7. Handshake'
    BY <2>4, <2>6 DEF RunInv, Handshake, arbitration, handshake
  <2>8. Course'
    BY <1>1, <1>2, <1>3, <2>4, <2>5
    DEF RunInv, Course, BodyLength, TestInv, TBInv, TBTypeOK
  <2> QED BY <1>2, <1>5, <2>1, <2>3, <2>4, <2>5, <2>7, <2>8 DEF RunInv, handshake
<1> QED BY <1>4, <1>5 DEF DriverAssigns

LEMMA EndOfRunPhaseRun ==
  ASSUME TestInv, RunInv, EndOfRunPhase
  PROVE  RunInv' /\ UNCHANGED <<driver_at, m_req_fifo>>
<1>1. Handshake'
  BY HandshakeFrame DEF RunInv, EndOfRunPhase
<1>2. UNCHANGED <<Place, driver_at, sent, test, cycles, reset_seen, m_req_fifo>>
  BY DEF EndOfRunPhase, sequencer, driver, handshake, Place, testbench, TBvars
<1>3. Place = "finished"
  BY DEF EndOfRunPhase, RunInv, Course
<1>4. ~rst
  BY <1>3 DEF RunInv, Course
<1>5. rst' = FALSE
  BY <1>4
  DEF EndOfRunPhase, EdgeEffects, ClockEdge, ReleaseReset, testbench, TBvars, vars,
      wires, TestInv, TBInv, TBTypeOK, TypeOK, InterfaceTypeOK
<1>6. Course'
  BY <1>2, <1>3, <1>4, <1>5 DEF RunInv, Course, EndOfRunPhase, BodyLength
<1> QED BY <1>1, <1>2, <1>6 DEF RunInv

LEMMA StepRun ==
  ASSUME TestInv, RunInv, [TestNext]_all_vars
  PROVE  RunInv'
<1>1. CASE UNCHANGED all_vars
  <2>1. UNCHANGED <<sequencer, test, test_at, cycles, sent, rst, reset_seen>>
    BY <1>1 DEF all_vars, test_vars, testbench, TBvars, vars, wires
  <2> QED BY <2>1, HandshakeFrame, CourseFrame DEF RunInv
<1> QED
  BY <1>1, StartRun, StartReturnsRun, DropObjectionRun, BodyRun, ResetEdgeRun,
     WakeUpRun, GetItemRun, DriverAssignsRun, EndOfRunPhaseRun
  DEF TestNext, Simulated

LEMMA RunInvariant == TestSpec => []RunInv
<1>1. TestInv /\ RunInv /\ [TestNext]_all_vars => RunInv'
  BY StepRun
<1> QED BY <1>1, InitRun, TestInvariant, PTL DEF TestSpec

-----------------------------------------------------------------------------
(* How far the pipeline has drained: Left counts the edges wait_idle still *)
(* waits for, the one under way included.  Each edge of wait_idle empties  *)
(* one more stage behind the last request.                                 *)
Left == cycles + (IF driver_at = "clock" THEN 0 ELSE 1)

Draining ==
    test_at \in {"wait_idle", "dropped", "ended"} =>
        /\ Left <= 3 => ~valid
        /\ Left <= 2 => ~pending
        /\ Left <= 1 => ~ready
        /\ Left <= 4
        /\ test_at # "wait_idle" => cycles = 0

(* A request advances by one stage at an edge, or is lost to reset. *)
LEMMA PipelineEdge ==
  ASSUME TBTypeOK, ClockEdge
  PROVE  (pending' => valid) /\ (ready' => pending)
<1>1. CASE Reset
  BY <1>1 DEF Reset
<1>2. CASE Execute /\ Capture
  BY <1>2
  DEF Execute, ExecuteWrite, ExecuteRead, ExecuteNothing, Capture, TBTypeOK,
      TypeOK, InterfaceTypeOK
<1> QED BY <1>1, <1>2 DEF ClockEdge, AlwaysFF

LEMMA StepDraining ==
  ASSUME TestInv, RunInv, Draining, [TestNext]_all_vars
  PROVE  Draining'
<1> USE DEF RunInv
<1>1. cycles \in 0 .. 4
  BY DEF Course, WaitIdleCycles
<1>2. CASE UNCHANGED <<test_at, cycles, driver_at, valid, pending, ready>>
  BY <1>2 DEF Draining, Left
<1>3. CASE Start
  BY <1>3 DEF Start, Draining
<1>4. CASE StartReturns
  BY <1>4, StartReturnsRun
  DEF StartReturns, Draining, Left, WaitIdleCycles, sequencer, driver
<1>5. CASE DropObjection
  <2>1. UNCHANGED <<Left, valid, pending, ready>> /\ cycles' = 0
    BY <1>5
    DEF DropObjection, Left, sequencer, driver, testbench, TBvars, vars, wires,
        inputs, dut
  <2> QED BY <1>5, <2>1 DEF DropObjection, Draining
<1>6. CASE Body
  <2>1. test_at = "seq.start"
    <3>1. Place # "finished" /\ Place # "created"
      BY <1>6 DEF Body, StartItem, ItemGranted, FinishItem, ItemFinished,
                  FinishSequence, Place
    <3> QED BY <3>1 DEF Course
  <2> QED BY <1>6, <2>1 DEF Body, Draining
<1>7. CASE ResetEdge
  <2>1. test_at \notin {"wait_idle", "dropped", "ended"}
    BY <1>7, ResetEdgeRun DEF Course
  <2> QED BY <1>7, <2>1 DEF ResetEdge, Draining
<1>8. CASE WakeUp
  <2>1. UNCHANGED <<test_at, valid, pending, ready>>
    BY <1>8 DEF WakeUp, testbench, TBvars, vars, wires, inputs, dut
  <2>2. test_at = "wait_idle" => UNCHANGED Left
    BY <1>1, <1>8, WakeUpRun DEF WakeUp, Left
  <2>3. test_at \in {"seq.start", "wait_idle"}
    BY <1>8 DEF WakeUp
  <2> QED BY <2>1, <2>2, <2>3 DEF Draining
<1>9. CASE GetItem
  <2>1. UNCHANGED <<test_at, cycles, Left, valid, pending, ready>>
    BY <1>9, GetItemRun
    DEF GetItem, Left, testbench, TBvars, vars, wires, inputs, dut, test_vars
  <2> QED BY <2>1 DEF Draining
<1>10. CASE DriverAssigns
  <2>1. CASE test_at \in {"wait_idle", "dropped", "ended"}
    <3>1. DriveIdle
      BY <1>10, <2>1, DriverAssignsRun DEF Course, Sending
    <3>2. ~valid' /\ (pending' => valid) /\ (ready' => pending)
      BY <1>10, <3>1, PipelineEdge
      DEF DriverAssigns, EdgeEffects, DriveIdle, TestInv, TBInv
    <3>3. Left = cycles + 1 /\ Left' = cycles
      BY <1>1, <1>10, DriverAssignsRun DEF DriverAssigns, Left
    <3>4. UNCHANGED <<test_at, cycles>>
      BY <1>10 DEF DriverAssigns
    <3> QED BY <1>1, <2>1, <3>2, <3>3, <3>4 DEF Draining
  <2>2. CASE test_at \notin {"wait_idle", "dropped", "ended"}
    BY <1>10, <2>2 DEF DriverAssigns, Draining
  <2> QED BY <2>1, <2>2
<1>11. CASE EndOfRunPhase
  <2>1. Left <= 1 /\ cycles' = 0 /\ Left' = Left
    BY <1>1, <1>11, EndOfRunPhaseRun DEF EndOfRunPhase, Draining, Left
  <2>2. ~valid /\ ~pending /\ ~ready
    BY <1>1, <1>11, <2>1 DEF EndOfRunPhase, Draining, Left
  <2>3. ~valid' /\ ~pending' /\ ~ready'
    <3>1. CASE UNCHANGED testbench
      BY <2>2, <3>1 DEF testbench, TBvars, vars, wires, inputs, dut
    <3>2. CASE EdgeEffects /\ UNCHANGED inputs
      BY <2>2, <3>2, PipelineEdge DEF EdgeEffects, inputs, TestInv, TBInv
    <3> QED BY <1>11, <3>1, <3>2 DEF EndOfRunPhase
  <2> QED BY <1>1, <1>11, <2>1, <2>3 DEF Draining, Left, EndOfRunPhase
<1>12. CASE UNCHANGED all_vars
  BY <1>2, <1>12
  DEF all_vars, testbench, TBvars, vars, wires, inputs, dut, sequencer, driver,
      test_vars
<1> QED
  BY <1>3, <1>4, <1>5, <1>6, <1>7, <1>8, <1>9, <1>10, <1>11, <1>12
  DEF TestNext, Simulated

-----------------------------------------------------------------------------
(* Everything sent is somewhere, in order: it was given to the scoreboard, *)
(* is in the monitor's queue, or on the wires, or still with the           *)
(* sequencer; and what left the wires was sampled by the coverage.         *)
Flow ==
    /\ scored \in Seq(Transaction)
    /\ Len(scored) + Len(Pushed) + Len(m_req_fifo) = Len(sent)
    /\ \A i \in 1 .. Len(scored) : Matches(scored[i], sent[i])
    /\ \A i \in 1 .. Len(Pushed) : Matches(Pushed[i], sent[Len(scored) + i])

Sampled ==
    /\ operation \subseteq OperationBins
    /\ address \subseteq AddressBins
    /\ \A i \in 1 .. (Len(scored) + Len(inflight_q)) :
          /\ OperationBin(sent[i].write) \in operation
          /\ AddressBin(sent[i].addr) \in address

(* An element added behind a list, and the list without its head. *)
LEMMA ListFacts ==
  ASSUME NEW S, NEW q \in Seq(S), NEW e \in S
  PROVE  /\ Len(q) \in Nat
         /\ \A i \in 1 .. Len(q) : q[i] \in S
         /\ Append(q, e) \in Seq(S)
         /\ Len(Append(q, e)) = Len(q) + 1
         /\ \A i \in 1 .. Len(q) : Append(q, e)[i] = q[i]
         /\ Append(q, e)[Len(q) + 1] = e
OBVIOUS

LEMMA TailFacts ==
  ASSUME NEW S, NEW q \in Seq(S), q # <<>>
  PROVE  /\ Len(q) >= 1
         /\ Head(q) = q[1] /\ q[1] \in S
         /\ Tail(q) \in Seq(S)
         /\ Len(Tail(q)) = Len(q) - 1
         /\ \A i \in 1 .. Len(Tail(q)) : Tail(q)[i] = q[i + 1]
OBVIOUS

LEMMA PushedFacts ==
  ASSUME TBTypeOK
  PROVE  /\ inflight_q \in Seq(Transaction) /\ Len(inflight_q) \in Nat
         /\ Pushed \in Seq(Transaction) /\ Len(Pushed) \in Nat
         /\ Issued \in Transaction
         /\ valid => /\ Len(Pushed) = Len(inflight_q) + 1
                     /\ Pushed[Len(Pushed)] = Issued
         /\ ~valid => Pushed = inflight_q
         /\ \A i \in 1 .. Len(inflight_q) : Pushed[i] = inflight_q[i]
<1>1. Issued \in Transaction
  BY IssuedType
<1>2. inflight_q \in Seq(Transaction)
  BY DEF TBTypeOK, MonitorTypeOK
<1> QED BY <1>1, <1>2, ListFacts DEF Pushed

(* What an edge hands on: from the wires to the monitor's queue, from the  *)
(* head of the queue to the scoreboard, and to the coverage.               *)
LEMMA FlowEdge ==
  ASSUME TBTypeOK, Flow, EdgeEffects
  PROVE  /\ scored' \in Seq(Transaction)
         /\ inflight_q' \in Seq(Transaction)
         /\ Len(scored') + Len(inflight_q') = Len(scored) + Len(Pushed)
         /\ \A i \in 1 .. Len(scored') : Matches(scored'[i], sent[i])
         /\ \A i \in 1 .. Len(inflight_q') :
               Matches(inflight_q'[i], sent[Len(scored') + i])
<1>1. /\ scored \in Seq(Transaction) /\ Len(scored) \in Nat
      /\ \A i \in 1 .. Len(scored) : Matches(scored[i], sent[i])
      /\ \A i \in 1 .. Len(Pushed) : Matches(Pushed[i], sent[Len(scored) + i])
  BY DEF Flow
<1>2. Pushed \in Seq(Transaction) /\ Len(Pushed) \in Nat
  BY PushedFacts
<1>3. CASE Completes
  <2>1. inflight_q' = Tail(Pushed) /\ scored' = Append(scored, Completed)
    BY <1>3
    DEF EdgeEffects, ClockEdge, MonitorAndScore, Watch, Report
  <2>2. /\ Len(Pushed) >= 1
        /\ Head(Pushed) = Pushed[1] /\ Pushed[1] \in Transaction
        /\ Tail(Pushed) \in Seq(Transaction)
        /\ Len(Tail(Pushed)) = Len(Pushed) - 1
        /\ \A i \in 1 .. Len(Tail(Pushed)) : Tail(Pushed)[i] = Pushed[i + 1]
    BY <1>2, <1>3, TailFacts DEF Completes
  <2>3. /\ Completed \in Transaction
        /\ Matches(Completed, sent[Len(scored) + 1])
    <3>1. Matches(Pushed[1], sent[Len(scored) + 1])
      BY <1>1, <1>2, <2>2
    <3>2. rdata \in Data
      BY DEF TBTypeOK, TypeOK, InterfaceTypeOK
    <3>3. /\ Completed \in Transaction
          /\ Completed.write = Pushed[1].write
          /\ Completed.addr = Pushed[1].addr
          /\ Completed.wdata = Pushed[1].wdata
      BY <2>2, <3>2 DEF Completed, Transaction
    <3> QED BY <3>1, <3>3 DEF Matches
  <2>4. /\ scored' \in Seq(Transaction)
        /\ Len(scored') = Len(scored) + 1
        /\ \A i \in 1 .. Len(scored) : scored'[i] = scored[i]
        /\ scored'[Len(scored) + 1] = Completed
    BY <1>1, <2>1, <2>3, ListFacts
  <2>5. ASSUME NEW i \in 1 .. Len(scored') PROVE Matches(scored'[i], sent[i])
    <3>1. i \in 1 .. Len(scored) \/ i = Len(scored) + 1
      BY <1>1, <2>4
    <3> QED BY <1>1, <2>3, <2>4, <3>1
  <2>6. ASSUME NEW i \in 1 .. Len(inflight_q')
        PROVE  Matches(inflight_q'[i], sent[Len(scored') + i])
    <3>1. /\ i + 1 \in 1 .. Len(Pushed)
          /\ Len(scored) + (i + 1) = Len(scored') + i
      BY <1>1, <1>2, <2>1, <2>2, <2>4
    <3>2. inflight_q'[i] = Pushed[i + 1]
      BY <2>1, <2>2
    <3> QED BY <1>1, <3>1, <3>2
  <2> QED BY <1>1, <1>2, <2>1, <2>2, <2>4, <2>5, <2>6
<1>4. CASE ~Completes
  <2>1. inflight_q' = Pushed /\ scored' = scored
    BY <1>4 DEF EdgeEffects, ClockEdge, MonitorAndScore, Watch, Report
  <2> QED BY <1>1, <1>2, <2>1
<1> QED BY <1>3, <1>4

LEMMA SampledEdge ==
  ASSUME TBTypeOK, Flow, Sampled, EdgeEffects, UNCHANGED sent
  PROVE  Sampled'
<1>1. /\ Len(scored) \in Nat
      /\ Len(scored') + Len(inflight_q') = Len(scored) + Len(Pushed)
  BY FlowEdge DEF Flow
<1>2. Len(inflight_q) \in Nat
  BY PushedFacts
<1>3. CASE valid
  <2>1. /\ operation' = operation \cup {OperationBin(write)}
        /\ address' = address \cup {AddressBin(addr)}
    BY <1>3 DEF EdgeEffects, SampleCoverage
  <2>2. OperationBin(write) \in OperationBins /\ AddressBin(addr) \in AddressBins
    <3>1. addr \in 0 .. 255
      BY AddressAssumption DEF TBTypeOK, TypeOK, InterfaceTypeOK
    <3>2. addr \in 0 .. 63 \/ addr \in 64 .. 191 \/ addr \in 192 .. 255
      BY <3>1
    <3>3. AddressBin(addr) \in AddressBins
      BY <3>2 DEF AddressBin, AddressBins
    <3> QED BY <3>3 DEF OperationBin, OperationBins
  <2>3. Len(Pushed) = Len(inflight_q) + 1 /\ Pushed[Len(Pushed)] = Issued
    BY <1>3, PushedFacts
  <2>4. Matches(Issued, sent[Len(scored) + Len(inflight_q) + 1])
    BY <1>1, <1>2, <2>3 DEF Flow
  <2>5. /\ sent[Len(scored) + Len(inflight_q) + 1].write = write
        /\ sent[Len(scored) + Len(inflight_q) + 1].addr = addr
    BY <2>4 DEF Matches, Issued
  <2>6. ASSUME NEW i \in 1 .. (Len(scored) + Len(inflight_q) + 1)
        PROVE  /\ OperationBin(sent[i].write) \in operation'
               /\ AddressBin(sent[i].addr) \in address'
    <3>1. \/ i \in 1 .. (Len(scored) + Len(inflight_q))
          \/ i = Len(scored) + Len(inflight_q) + 1
      BY <1>1, <1>2
    <3> QED BY <2>1, <2>5, <3>1 DEF Sampled
  <2>7. Len(scored') + Len(inflight_q') = Len(scored) + Len(inflight_q) + 1
    BY <1>1, <1>2, <2>3
  <2> QED BY <2>1, <2>2, <2>6, <2>7 DEF Sampled
<1>4. CASE ~valid
  <2>1. UNCHANGED coverage
    BY <1>4 DEF EdgeEffects, SampleCoverage
  <2>2. Len(scored') + Len(inflight_q') = Len(scored) + Len(inflight_q)
    BY <1>1, <1>4, PushedFacts
  <2> QED BY <2>1, <2>2 DEF Sampled, coverage
<1> QED BY <1>3, <1>4

(* An edge at which the driver adds nothing to the wires. *)
LEMMA FlowIdleEdge ==
  ASSUME TBTypeOK, Flow, EdgeEffects, ~valid', UNCHANGED <<sent, m_req_fifo>>
  PROVE  Flow'
<1>1. Pushed' = inflight_q'
  BY DEF Pushed
<1> QED BY <1>1, FlowEdge DEF Flow

(* An edge at which the item sent last is driven. *)
LEMMA FlowItemEdge ==
  ASSUME TBTypeOK, TBTypeOK', Flow, EdgeEffects, DriveItem(sent[Len(sent)]),
         Len(m_req_fifo) = 1, m_req_fifo' = <<>>, UNCHANGED sent
  PROVE  Flow'
<1>1. /\ scored' \in Seq(Transaction) /\ Len(scored') \in Nat
      /\ inflight_q' \in Seq(Transaction) /\ Len(inflight_q') \in Nat
      /\ Len(scored') + Len(inflight_q') = Len(scored) + Len(Pushed)
      /\ \A i \in 1 .. Len(scored') : Matches(scored'[i], sent[i])
      /\ \A i \in 1 .. Len(inflight_q') :
            Matches(inflight_q'[i], sent[Len(scored') + i])
  BY FlowEdge
<1>2. Issued' \in Transaction
  <2>1. TBTypeOK' => (Issued \in Transaction)'
    BY IssuedType, PTL
  <2> QED BY <2>1
<1>3. Pushed' = Append(inflight_q', Issued')
  BY DEF Pushed, DriveItem
<1>4. Matches(Issued', sent[Len(sent)])
  BY DEF Issued, DriveItem, Matches
<1>5. Len(scored) + Len(Pushed) + 1 = Len(sent)
  BY DEF Flow
<1>6. Len(Pushed') = Len(inflight_q') + 1 /\ Pushed'[Len(inflight_q') + 1] = Issued'
      /\ \A i \in 1 .. Len(inflight_q') : Pushed'[i] = inflight_q'[i]
  BY <1>1, <1>2, <1>3, ListFacts
<1>7. Len(scored') + Len(Pushed') + Len(m_req_fifo') = Len(sent)
  BY <1>1, <1>5, <1>6
<1>8. ASSUME NEW i \in 1 .. Len(Pushed')
      PROVE  Matches(Pushed'[i], sent[Len(scored') + i])
  <2>1. i \in 1 .. Len(inflight_q') \/ i = Len(inflight_q') + 1
    BY <1>1, <1>6
  <2>2. Len(scored') + (Len(inflight_q') + 1) = Len(sent)
    BY <1>1, <1>5
  <2> QED BY <1>1, <1>4, <1>6, <2>1, <2>2
<1> QED BY <1>1, <1>7, <1>8 DEF Flow

(* A step between two edges: at most one item is sent. *)
LEMMA FlowBetweenEdges ==
  ASSUME TestInv, Flow, UNCHANGED <<testbench, scored>>,
         \/ UNCHANGED <<sent, m_req_fifo>>
         \/ \E item \in Request : /\ sent' = Append(sent, item)
                                  /\ m_req_fifo = <<>>
                                  /\ Len(m_req_fifo') = 1
  PROVE  Flow'
<1>1. UNCHANGED Pushed
  BY DEF testbench, TBvars, vars, wires, inputs, Pushed, Issued
<1>2. CASE UNCHANGED <<sent, m_req_fifo>>
  BY <1>1, <1>2 DEF Flow
<1>3. ASSUME NEW item \in Request, sent' = Append(sent, item), m_req_fifo = <<>>,
             Len(m_req_fifo') = 1
      PROVE  Flow'
  <2>1. sent \in Seq(Request)
    BY DEF TestInv, ItemsAreRequests
  <2>2. /\ Len(scored) \in Nat /\ Len(Pushed) \in Nat
        /\ Len(scored) + Len(Pushed) = Len(sent)
    BY <1>3, PushedFacts DEF Flow, TestInv, TBInv
  <2>3. Len(sent') = Len(sent) + 1 /\ \A i \in 1 .. Len(sent) : sent'[i] = sent[i]
    BY <1>3, <2>1, ListFacts
  <2>4. \A i \in 1 .. Len(scored) : i \in 1 .. Len(sent)
    BY <2>2
  <2>5. \A i \in 1 .. Len(Pushed) : Len(scored) + i \in 1 .. Len(sent)
    BY <2>2
  <2>6. \A i \in 1 .. Len(scored) : Matches(scored'[i], sent'[i])
    BY <2>3, <2>4 DEF Flow
  <2>7. \A i \in 1 .. Len(Pushed) : Matches(Pushed'[i], sent'[Len(scored') + i])
    BY <1>1, <2>3, <2>5 DEF Flow
  <2>8. Len(scored') + Len(Pushed') + Len(m_req_fifo') = Len(sent')
    BY <1>1, <1>3, <2>2, <2>3
  <2>9. scored' \in Seq(Transaction)
    BY DEF Flow
  <2> QED BY <1>1, <2>6, <2>7, <2>8, <2>9 DEF Flow
<1> QED BY <1>2, <1>3

(* The steps of the simulation as the flow sees them. *)
LEMMA FlowSteps ==
  ASSUME TestInv, RunInv, Draining, [TestNext]_all_vars
  PROVE  \/ /\ UNCHANGED <<testbench, scored>>
            /\ \/ UNCHANGED <<sent, m_req_fifo>>
               \/ \E item \in Request : /\ item \in NextItems(test, sent)
                                        /\ sent' = Append(sent, item)
                                        /\ m_req_fifo = <<>>
                                        /\ Len(m_req_fifo') = 1
         \/ EdgeEffects /\ ~valid' /\ UNCHANGED <<sent, m_req_fifo>>
         \/ /\ EdgeEffects /\ DriveItem(sent[Len(sent)])
            /\ Len(m_req_fifo) = 1 /\ m_req_fifo' = <<>> /\ UNCHANGED sent
<1>1. CASE UNCHANGED <<testbench, scored, sent, m_req_fifo>>
  BY <1>1
<1>2. CASE Start \/ StartReturns \/ DropObjection \/ WakeUp \/ GetItem
           \/ UNCHANGED all_vars
  <2>1. UNCHANGED <<testbench, scored, sent>>
    BY <1>2 DEF Start, StartReturns, DropObjection, WakeUp, GetItem, all_vars,
                test_vars
  <2>2. UNCHANGED m_req_fifo
    BY <1>2 DEF Start, StartSequence, StartReturns, DropObjection, WakeUp,
                TryNextItem, GetItem, ChooseRequest, PeekItem, all_vars, sequencer,
                handshake
  <2> QED BY <2>1, <2>2
<1>3. CASE Body
  <2>1. UNCHANGED <<testbench, scored>>
    BY <1>3 DEF Body
  <2>2. CASE /\ UNCHANGED sent
             /\ \/ StartItem(seq) \/ ItemGranted(seq) \/ ItemFinished(seq)
                \/ FinishSequence(seq)
    BY <2>1, <2>2
    DEF StartItem, ItemGranted, ItemFinished, FinishSequence, handshake
  <2>3. ASSUME NEW item \in NextItems(test, sent), FinishItem(seq, item),
               sent' = Append(sent, item)
        PROVE  /\ item \in Request /\ m_req_fifo = <<>> /\ Len(m_req_fifo') = 1
    <3>1. item \in Request
      BY NextItemIsRequest DEF TestInv, ItemsAreRequests
    <3>2. m_req_fifo = <<>>
      BY <2>3, PhaseOfPlace DEF RunInv, FinishItem, Place, Chosen
    <3> QED BY <2>3, <3>1, <3>2 DEF FinishItem
  <2> QED BY <1>3, <2>1, <2>2, <2>3 DEF Body
<1>4. CASE ResetEdge
  <2>1. UNCHANGED <<sent, m_req_fifo>> /\ EdgeEffects
    BY <1>4 DEF ResetEdge, sequencer, handshake
  <2>2. ~valid
    BY <1>4, ResetEdgeRun DEF TestInv, TBInv, PowerUp
  <2>3. ~valid'
    BY <1>4, <2>2 DEF ResetEdge, WaitForReset, inputs
  <2> QED BY <2>1, <2>3
<1>5. CASE DriverAssigns
  <2>1. EdgeEffects /\ UNCHANGED sent
    BY <1>5 DEF DriverAssigns
  <2>2. Sending => Len(m_req_fifo) = 1
    BY DEF Sending
  <2>3. DriveIdle => ~valid'
    BY DEF DriveIdle
  <2> QED BY <1>5, <2>1, <2>2, <2>3, DriverAssignsRun
<1>6. CASE EndOfRunPhase
  <2>1. UNCHANGED <<sent, m_req_fifo>>
    BY <1>6, EndOfRunPhaseRun DEF EndOfRunPhase
  <2>2. ~valid
    <3>1. Left <= 1
      BY <1>6 DEF EndOfRunPhase, Draining, Left
    <3> QED BY <1>6, <3>1 DEF EndOfRunPhase, Draining, Left
  <2>3. CASE UNCHANGED <<testbench, scored>>
    BY <2>1, <2>3
  <2>4. CASE EdgeEffects /\ UNCHANGED inputs
    BY <2>1, <2>2, <2>4 DEF inputs
  <2> QED BY <1>6, <2>3, <2>4 DEF EndOfRunPhase
<1> QED
  BY <1>2, <1>3, <1>4, <1>5, <1>6 DEF TestNext, Simulated

LEMMA StepFlow ==
  ASSUME TestInv, TestInv', RunInv, Draining, Flow, [TestNext]_all_vars
  PROVE  Flow'
<1>1. TBTypeOK /\ TBTypeOK'
  BY DEF TestInv, TBInv
<1> QED
  BY <1>1, FlowSteps, FlowBetweenEdges, FlowIdleEdge, FlowItemEdge

LEMMA StepSampled ==
  ASSUME TestInv, RunInv, Draining, Flow, Sampled, [TestNext]_all_vars
  PROVE  Sampled'
<1>1. TBTypeOK
  BY DEF TestInv, TBInv
<1>2. CASE EdgeEffects /\ UNCHANGED sent
  BY <1>1, <1>2, SampledEdge
<1>3. CASE /\ UNCHANGED <<testbench, scored>>
           /\ \/ UNCHANGED sent
              \/ \E item \in Request : sent' = Append(sent, item)
  <2>1. UNCHANGED <<operation, address, inflight_q, scored>>
    BY <1>3 DEF testbench, TBvars, coverage
  <2>2. \A i \in 1 .. Len(sent) : sent'[i] = sent[i]
    BY <1>3, ListFacts DEF TestInv, ItemsAreRequests
  <2>3. \A i \in 1 .. (Len(scored) + Len(inflight_q)) : i \in 1 .. Len(sent)
    <3>1. /\ Len(inflight_q) \in Nat /\ Len(Pushed) \in Nat
          /\ Len(inflight_q) <= Len(Pushed)
      BY <1>1, PushedFacts
    <3>2. m_req_fifo \in Seq(SentItem) /\ Len(m_req_fifo) \in Nat
      BY DEF TestInv, ItemsAreRequests
    <3>3. Len(scored) \in Nat
      BY DEF Flow
    <3>4. Len(scored) + Len(inflight_q) <= Len(sent)
      BY <3>1, <3>2, <3>3 DEF Flow
    <3>5. Len(sent) \in Nat
      BY DEF TestInv, ItemsAreRequests
    <3> QED BY <3>1, <3>3, <3>4, <3>5
  <2> QED BY <2>1, <2>2, <2>3 DEF Sampled
<1> QED BY <1>2, <1>3, FlowSteps

-----------------------------------------------------------------------------
(* What was sent so far is what the body of the sequence sends. *)
FollowsBody ==
    \A i \in 1 .. Len(sent) :
        IF test = "memory_test" THEN sent[i].write <=> i <= Writes
                                ELSE sent[i] = Directed(test)[i]

LEMMA StepFollowsBody ==
  ASSUME TestInv, RunInv, Draining, FollowsBody, [TestNext]_all_vars
  PROVE  FollowsBody'
<1>1. UNCHANGED test
  BY DEF TestNext, Start, StartReturns, DropObjection, Body, ResetEdge, WakeUp,
         GetItem, DriverAssigns, EndOfRunPhase, Simulated, all_vars, test_vars
<1>2. CASE UNCHANGED sent
  BY <1>1, <1>2 DEF FollowsBody, Directed
<1>3. ASSUME NEW item \in NextItems(test, sent), item \in Request,
             sent' = Append(sent, item)
      PROVE  FollowsBody'
  <2>1. sent \in Seq(Request) /\ Len(sent) \in Nat
    BY DEF TestInv, ItemsAreRequests
  <2>2. /\ Len(sent') = Len(sent) + 1
        /\ \A i \in 1 .. Len(sent) : sent'[i] = sent[i]
        /\ sent'[Len(sent) + 1] = item
    BY <1>3, <2>1, ListFacts
  <2>3. IF test = "memory_test" THEN item.write <=> Len(sent) + 1 <= Writes
                                ELSE item = Directed(test)[Len(sent) + 1]
    <3>1. Len(sent) # BodyLength(test)
      BY DEF NextItems
    <3>2. CASE test = "memory_test"
      <4>1. item \in memory_sequence(sent)
        BY <3>1, <3>2 DEF NextItems
      <4>2. CASE Len(sent) < Writes
        <5>1. item.write = TRUE
          BY <4>1, <4>2 DEF memory_sequence, WriteItem
        <5>2. Len(sent) + 1 <= Writes
          BY <2>1, <4>2, WritesAssumption
        <5> QED BY <3>2, <5>1, <5>2
      <4>3. CASE ~(Len(sent) < Writes)
        <5>1. item.write = FALSE
          BY <4>1, <4>3 DEF memory_sequence
        <5>2. ~(Len(sent) + 1 <= Writes)
          BY <2>1, <4>3, WritesAssumption
        <5> QED BY <3>2, <5>1, <5>2
      <4> QED BY <4>2, <4>3
    <3>3. CASE test # "memory_test"
      BY <3>1, <3>3 DEF NextItems
    <3> QED BY <3>2, <3>3
  <2>4. \A i \in 1 .. (Len(sent) + 1) : i \in 1 .. Len(sent) \/ i = Len(sent) + 1
    BY <2>1
  <2> SUFFICES ASSUME NEW i \in 1 .. (Len(sent) + 1)
               PROVE  IF test = "memory_test" THEN sent'[i].write <=> i <= Writes
                      ELSE sent'[i] = Directed(test)[i]
    BY <1>1, <2>2 DEF FollowsBody, Directed
  <2>5. CASE i \in 1 .. Len(sent)
    BY <2>2, <2>5 DEF FollowsBody
  <2>6. CASE i = Len(sent) + 1
    BY <2>2, <2>3, <2>6
  <2> QED BY <2>4, <2>5, <2>6
<1> QED BY <1>2, <1>3, FlowSteps

(* All of it: the flow of the items through the simulation. *)
FlowInv == Draining /\ Flow /\ Sampled /\ FollowsBody

LEMMA FlowInvariant == TestSpec => []FlowInv
<1>1. TestInit => FlowInv
  <2> SUFFICES ASSUME TestInit PROVE FlowInv
    OBVIOUS
  <2>1. sent = <<>> /\ scored = <<>> /\ m_req_fifo = <<>> /\ inflight_q = <<>>
        /\ ~valid
    BY DEF TestInit, SequencerInit, TBInit, MonitorInit, Init, InterfaceInit
  <2>2. Pushed = <<>>
    BY <2>1 DEF Pushed
  <2>3. Flow
    BY <2>1, <2>2 DEF Flow
  <2>4. Sampled
    BY <2>1 DEF TestInit, CoverageInit, Sampled
  <2> QED BY <2>1, <2>3, <2>4 DEF TestInit, FlowInv, Draining, FollowsBody
<1>2. TestInv /\ TestInv' /\ RunInv /\ FlowInv /\ [TestNext]_all_vars => FlowInv'
  BY StepDraining, StepFlow, StepSampled, StepFollowsBody DEF FlowInv
<1> QED BY <1>1, <1>2, TestInvariant, RunInvariant, PTL DEF TestSpec

-----------------------------------------------------------------------------
(* When the test is over nothing is anywhere but with the scoreboard. *)
LEMMA AtTheEnd ==
  ASSUME TestInv, RunInv, FlowInv, test_at \in {"dropped", "ended"}
  PROVE  /\ ~valid /\ ~pending /\ ~ready
         /\ inflight_q = <<>> /\ m_req_fifo = <<>>
         /\ Len(scored) = Len(sent) /\ Len(sent) = BodyLength(test)
<1>1. Place = "finished" /\ Resting
  BY PhaseOfPlace DEF RunInv, Course
<1>2. Left <= 1
  BY DEF FlowInv, Draining, Left
<1>3. ~valid /\ ~pending /\ ~ready
  BY <1>2 DEF FlowInv, Draining, Left
<1>4. ~rst
  BY <1>1 DEF RunInv, Course
<1>5. inflight_q = <<>>
  BY <1>3, <1>4 DEF TestInv, TBInv, QueueShape, QueuedPending
<1>6. m_req_fifo = <<>>
  BY <1>1 DEF Resting
<1>7. Len(scored) = Len(sent)
  <2>1. Len(Pushed) = 0
    BY <1>3, <1>5 DEF Pushed
  <2>2. Len(scored) \in Nat
    BY DEF FlowInv, Flow
  <2> QED BY <1>6, <2>1, <2>2 DEF FlowInv, Flow
<1> QED BY <1>1, <1>3, <1>5, <1>6, <1>7 DEF RunInv, Course

(* Everything in a simulation keeps its type. *)
THEOREM SimulationTypeCorrect == TestSpec => []TestTypeOK
<1>1. TestInv /\ RunInv /\ FlowInv => TestTypeOK
  <2> SUFFICES ASSUME TestInv, RunInv, FlowInv PROVE TestTypeOK
    OBVIOUS
  <2>1. TBTypeOK /\ test \in Tests /\ sent \in Seq(Request)
    BY DEF TestInv, TBInv, ItemsAreRequests
  <2>2. SequencerTypeOK
    <3>1. arb_sequence_q \in Seq(ArbRequest)
      <4>1. ItemRequest \in ArbRequest
        BY TheSequence DEF ItemRequest, ArbRequest
      <4>2. <<>> \in Seq(ArbRequest) /\ <<ItemRequest>> \in Seq(ArbRequest)
        BY <4>1
      <4> QED
        BY <4>2 DEF RunInv, Handshake, Resting, Waiting, Chosen, Sending, Answered
    <3>2. arb_completed \subseteq Seqs /\ lock_list \in Seq(Seqs)
      BY TheSequence
      DEF RunInv, Handshake, Resting, Waiting, Chosen, Sending, Answered
    <3>3. /\ Len(m_req_fifo) <= 1
          /\ \A i \in DOMAIN m_req_fifo : m_req_fifo[i].seq \in Seqs
      <4>1. m_req_fifo = <<>> \/ m_req_fifo = <<LastItem>>
        BY DEF RunInv, Handshake, Resting, Waiting, Chosen, Sending, Answered
      <4>2. Len(m_req_fifo) <= 1
        <5>1. CASE m_req_fifo = <<>>
          <6>1. Len(m_req_fifo) = 0
            BY <5>1
          <6> QED BY <6>1
        <5>2. CASE m_req_fifo = <<LastItem>>
          <6>1. Len(<<LastItem>>) = 1
            OBVIOUS
          <6>2. Len(m_req_fifo) = 1
            BY <5>2, <6>1
          <6> QED BY <6>2
        <5> QED BY <4>1, <5>1, <5>2
      <4>3. \A i \in DOMAIN m_req_fifo : m_req_fifo[i] \in SentItem
        BY DEF TestInv, ItemsAreRequests
      <4> QED BY <4>2, <4>3 DEF SentItem
    <3>4. get_next_item_called \in BOOLEAN
      BY DEF RunInv, Handshake
    <3>5. driver_at \in {"clock", "choose", "peek", "return"}
      BY DEF RunInv, Handshake, Resting, Waiting, Chosen, Sending, Answered
    <3>6. seq_at \in [Seqs -> {"created", "body", "wait_for_grant", "granted",
                               "wait_for_item_done", "wait_for_lock",
                               "finished", "killed"}]
      BY DEF RunInv, Handshake, Places
    <3> QED
      BY <3>1, <3>2, <3>3, <3>4, <3>5, <3>6 DEF RunInv, Handshake, SequencerTypeOK
  <2> QED
    BY <2>1, <2>2 DEF RunInv, Course, FlowInv, Flow, Sampled, TestTypeOK
<1> QED BY <1>1, TestInvariant, RunInvariant, FlowInvariant, PTL

(* The scoreboard is given every item the sequence sent, each once, in the *)
(* order they were sent and with the fields they were sent with, and all   *)
(* of them before the run phase ends.                                      *)
THEOREM NothingEscapesTheScoreboard == TestSpec => []EveryItemScored
<1>1. TestInv /\ RunInv /\ FlowInv => EveryItemScored
  <2> SUFFICES ASSUME TestInv, RunInv, FlowInv PROVE EveryItemScored
    OBVIOUS
  <2>1. /\ scored \in Seq(Transaction) /\ Len(scored) \in Nat
        /\ Len(Pushed) \in Nat /\ Len(m_req_fifo) \in Nat
    BY PushedFacts DEF FlowInv, Flow, TestInv, TBInv, ItemsAreRequests
  <2>2. Len(scored) <= Len(sent)
    BY <2>1 DEF FlowInv, Flow
  <2>3. \A i \in DOMAIN scored : Matches(scored[i], sent[i])
    BY <2>1 DEF FlowInv, Flow
  <2> QED BY <2>2, <2>3, AtTheEnd DEF EveryItemScored
<1> QED BY <1>1, TestInvariant, RunInvariant, FlowInvariant, PTL

(* The four edges of wait_idle are enough: when the objection is dropped   *)
(* the pipeline, the wires and the monitor's queue are empty.              *)
THEOREM WaitIdleIsLongEnough == TestSpec => []PipelineDrained
<1>1. TestInv /\ RunInv /\ FlowInv => PipelineDrained
  BY AtTheEnd DEF PipelineDrained
<1> QED BY <1>1, TestInvariant, RunInvariant, FlowInvariant, PTL

(* The driver finds the sequencer empty only when the sequence is over.    *)
THEOREM DriverNeverStarves == TestSpec => []NoBubbles
<1>1. TestInv /\ RunInv => NoBubbles
  <2> SUFFICES ASSUME TestInv, RunInv, driver_at = "return", next_item = Null
               PROVE  Place = "finished"
    BY DEF NoBubbles, Place
  <2>1. ~Sending
    <3>1. ASSUME Sending PROVE LastItem \in [seq : Seqs, item : Request]
      BY <3>1, TheSequence DEF Sending, LastItem, TestInv, ItemsAreRequests
    <3> QED BY <3>1, NullIsNoItem DEF Sending
  <2> QED BY <2>1 DEF RunInv, Handshake, Resting, Waiting, Chosen, Answered
<1> QED BY <1>1, TestInvariant, RunInvariant, PTL

(* No simulation of a test ever gives regression.py a reason to fail it:   *)
(* the assertion holds, so the exit code is 0, the handshake reports no    *)
(* error and the scoreboard finds no difference.                           *)
THEOREM RegressionPasses == TestSpec => []AllTestsPass
<1>1. TestInv /\ RunInv => AllTestsPass
  BY DEF TestInv, TBInv, ScoreboardNeverFails, AssertionNeverFails, RunInv,
         Handshake, AllTestsPass, Passed, returncode
<1> QED BY <1>1, TestInvariant, RunInvariant, PTL

(* Every test covers both operations, and the boundary test all addresses, *)
(* whatever is randomized.                                                 *)
THEOREM CoverageIsClosed == TestSpec => []CoverageClosed
<1>1. TestInv /\ RunInv /\ FlowInv => CoverageClosed
  <2> SUFFICES ASSUME TestInv, RunInv, FlowInv, test_at = "ended"
               PROVE  /\ operation = OperationBins
                      /\ test = "boundary_test" => address = AddressBins
    BY DEF CoverageClosed
  <2>1. /\ Len(scored) + Len(inflight_q) = BodyLength(test)
        /\ Len(sent) = BodyLength(test)
        /\ BodyLength(test) \in Nat
    BY AtTheEnd, BodyIsNotEmpty DEF TestInv, ItemsAreRequests
  <2>2. \A i \in 1 .. BodyLength(test) :
           /\ OperationBin(sent[i].write) \in operation
           /\ AddressBin(sent[i].addr) \in address
    BY <2>1 DEF FlowInv, Sampled
  <2>3. operation \subseteq OperationBins /\ address \subseteq AddressBins
    BY DEF FlowInv, Sampled
  <2>4. CASE test = "memory_test"
    <3>1. BodyLength(test) = 2 * Writes
      BY <2>4 DEF BodyLength
    <3>2. 1 \in 1 .. BodyLength(test) /\ 2 * Writes \in 1 .. BodyLength(test)
      BY <3>1, WritesAssumption
    <3>3. sent[1].write /\ ~sent[2 * Writes].write
      <4>1. 1 <= Writes /\ ~(2 * Writes <= Writes)
        BY WritesAssumption
      <4> QED BY <2>1, <2>4, <3>2, <4>1 DEF FlowInv, FollowsBody
    <3>4. "WRITE" \in operation /\ "READ" \in operation
      BY <2>2, <3>2, <3>3 DEF OperationBin
    <3> QED BY <2>3, <2>4, <3>4 DEF OperationBins
  <2>5. CASE test # "memory_test"
    <3>1. test \in {"write_read_test", "boundary_test", "reset_test"}
      BY <2>5 DEF TestInv, ItemsAreRequests, Tests
    <3>2. BodyLength(test) = Len(Directed(test)) /\ Len(Directed(test)) >= 2
      BY <2>5, <3>1
      DEF BodyLength, Directed, write_read_sequence, boundary_sequence,
          reset_sequence
    <3>3. Directed(test)[1].write = TRUE /\ Directed(test)[2].write = FALSE
      BY <3>1
      DEF Directed, write_read_sequence, boundary_sequence, reset_sequence,
          WriteItem, ReadItem
    <3>4. \A i \in 1 .. BodyLength(test) : sent[i] = Directed(test)[i]
      BY <2>1, <2>5 DEF FlowInv, FollowsBody
    <3>5. operation = OperationBins
      <4>1. 1 \in 1 .. BodyLength(test) /\ 2 \in 1 .. BodyLength(test)
        BY <2>1, <3>2
      <4>2. "WRITE" \in operation /\ "READ" \in operation
        BY <2>2, <3>3, <3>4, <4>1 DEF OperationBin
      <4> QED BY <2>3, <4>2 DEF OperationBins
    <3>6. CASE test = "boundary_test"
      <4>1. /\ Directed(test)[1].addr = 0
            /\ Directed(test)[3].addr = 100
            /\ Directed(test)[5].addr = 255
            /\ Len(Directed(test)) = 6
        BY <3>6 DEF Directed, boundary_sequence, WriteItem, ReadItem
      <4>2. AddressBin(0) = "LOW" /\ AddressBin(100) = "MEDIUM"
            /\ AddressBin(255) = "HIGH"
        BY DEF AddressBin
      <4>3. AddressBins \subseteq address
        BY <2>2, <3>2, <3>4, <4>1, <4>2 DEF AddressBins
      <4> QED BY <2>3, <3>5, <4>3
    <3> QED BY <3>5, <3>6
  <2> QED BY <2>4, <2>5
<1> QED BY <1>1, TestInvariant, RunInvariant, FlowInvariant, PTL
=============================================================================
