----------------------------- MODULE MemoryTest -----------------------------
(***************************************************************************)
(* One simulation of the regression, closed: run_phase of the test runs    *)
(* its sequence on the sequencer, the driver pulls the items and drives    *)
(* the controller, the monitor and the scoreboard check it, and the test   *)
(* waits for the pipeline to drain and drops its objection.                *)
(*                                                                         *)
(* At every rising edge the driver, the sequence and the test take several *)
(* steps before time goes on.  Of everything else that happens at the edge *)
(* (controller, monitor, scoreboard, assertion, coverage) only what the    *)
(* driver assigns to the wires is seen by these steps or depends on them,  *)
(* so it is one action, ClockEdge of the testbench, taken when the driver  *)
(* assigns them.                                                           *)
(***************************************************************************)
EXTENDS MemoryTestbench, MemoryCoverage, MemorySequences, UvmSequencer

ASSUME OneSequence == \E s \in Seqs : Seqs = {s}

ASSUME NullIsNoItem == Null \notin [seq : Seqs, item : Request]

VARIABLES
    test,       \* +UVM_TESTNAME
    test_at,    \* where run_phase of the test is
    cycles,     \* what is left of wait_idle
    sent,       \* the items the sequence has sent
    scored      \* the transactions the scoreboard has been given

test_vars == <<test, test_at, cycles, sent, scored>>
testbench == <<TBvars, coverage>>
all_vars  == <<testbench, sequencer, test_vars>>

seq == CHOOSE s \in Seqs : TRUE

(* Mutant: the margin of the comment of wait_idle is counted wrong. *)
WaitIdleShort == 2

WaitIdleCycles == 4

TestInit ==
    /\ TBInit
    /\ CoverageInit
    /\ SequencerInit
    /\ test \in Tests
    /\ test_at = "start"
    /\ cycles = 0
    /\ sent = <<>>
    /\ scored = <<>>

-----------------------------------------------------------------------------
(* run_phase of the test: raise the objection and start the sequence, when *)
(* it has returned wait, and drop the objection.                           *)
Start ==
    /\ test_at = "start"
    /\ StartSequence(seq)
    /\ test_at' = "seq.start"
    /\ UNCHANGED <<testbench, test, cycles, sent, scored>>

StartReturns ==
    /\ test_at = "seq.start"
    /\ seq_at[seq] = "finished"
    /\ test_at' = "wait_idle"
    /\ cycles' = WaitIdleCycles
    /\ UNCHANGED <<testbench, sequencer, test, sent, scored>>

DropObjection ==
    /\ test_at = "wait_idle"
    /\ cycles = 0
    /\ test_at' = "dropped"
    /\ UNCHANGED <<testbench, sequencer, test, cycles, sent, scored>>

TestRunnable ==
    \/ test_at = "start"
    \/ test_at = "seq.start" /\ seq_at[seq] = "finished"
    \/ test_at = "wait_idle" /\ cycles = 0

(* body of the sequence. *)
Body ==
    /\ \/ Len(sent) < BodyLength(test) /\ StartItem(seq) /\ UNCHANGED sent
       \/ ItemGranted(seq) /\ UNCHANGED sent
       \/ \E item \in NextItems(test, sent) :
             FinishItem(seq, item) /\ sent' = Append(sent, item)
       \/ ItemFinished(seq) /\ UNCHANGED sent
       \/ Len(sent) = BodyLength(test) /\ FinishSequence(seq) /\ UNCHANGED sent
    /\ UNCHANGED <<testbench, test, test_at, cycles, scored>>

-----------------------------------------------------------------------------
(* Mutant: try_next_item does not wait for the sequences to run. *)
NotWaiting == TRUE

(* The rest of a time slot begins when nobody can run without waiting. *)
Settled == ~TestRunnable /\ ~SequenceRunnable(seq)

EdgeEffects ==
    /\ ClockEdge
    /\ SampleCoverage
    /\ scored' = IF Completes THEN Append(scored, Completed) ELSE scored

(* The first edge, at which the driver still waits for rst to fall. *)
ResetEdge ==
    /\ Settled
    /\ EdgeEffects
    /\ WaitForReset
    /\ UNCHANGED <<sequencer, test, test_at, cycles, sent>>

(* A later edge wakes the driver, and the test in wait_idle. *)
WakeUp ==
    /\ Settled
    /\ reset_seen
    /\ test_at \in {"seq.start", "wait_idle"}
    /\ TryNextItem
    /\ cycles' = IF test_at = "wait_idle" THEN cycles - 1 ELSE cycles
    /\ UNCHANGED <<testbench, test, test_at, sent, scored>>

GetItem ==
    /\ Settled
    /\ test_at # "ended"
    /\ ChooseRequest \/ PeekItem
    /\ UNCHANGED <<testbench, test_vars>>

(* Mutant: an empty cycle clears all the inputs. *)
DriverClears ==
    /\ test_at # "ended"
    /\ EdgeEffects
    /\ \/ ItemDone /\ DriveItem(next_item.item)
       \/ /\ NoItem
          /\ write' = FALSE /\ valid' = FALSE /\ addr' = 0 /\ wdata' = 0
          /\ UNCHANGED reset_seen
    /\ UNCHANGED <<test, test_at, cycles, sent>>

DriverAssigns ==
    /\ test_at # "ended"
    /\ EdgeEffects
    /\ \/ ItemDone /\ DriveItem(next_item.item)
       \/ NoItem /\ DriveIdle
    /\ UNCHANGED <<test, test_at, cycles, sent>>

(* With the objection dropped the run phase ends before time goes on, and  *)
(* kills the driver, wherever it is.                                       *)
EndOfRunPhase ==
    /\ test_at = "dropped"
    /\ test_at' = "ended"
    /\ \/ driver_at = "clock" /\ UNCHANGED <<testbench, scored>>
       \/ /\ driver_at # "clock"
          /\ EdgeEffects
          /\ UNCHANGED <<inputs, reset_seen>>
    /\ UNCHANGED <<sequencer, test, cycles, sent>>

Simulated == test_at = "ended" /\ UNCHANGED all_vars

TestNext ==
    \/ Start \/ StartReturns \/ DropObjection \/ Body
    \/ ResetEdge \/ WakeUp \/ GetItem \/ DriverAssigns
    \/ EndOfRunPhase \/ Simulated

(* The simulator goes on as long as there is something to do. *)
TestSpec == TestInit /\ [][TestNext]_all_vars /\ WF_all_vars(TestNext)

-----------------------------------------------------------------------------
TestTypeOK ==
    /\ TBTypeOK
    /\ SequencerTypeOK
    /\ operation \subseteq OperationBins
    /\ address \subseteq AddressBins
    /\ test \in Tests
    /\ test_at \in {"start", "seq.start", "wait_idle", "dropped", "ended"}
    /\ cycles \in 0 .. WaitIdleCycles
    /\ sent \in Seq(Request)
    /\ scored \in Seq(Transaction)

(* The scoreboard is given the items of the sequence, each once and in     *)
(* order, and when the run phase ends it has been given all of them: a     *)
(* test cannot pass because something was never checked.                   *)
Matches(tr, item) ==
    /\ tr.write = item.write
    /\ tr.addr = item.addr
    /\ item.write => tr.wdata = item.wdata

EveryItemScored ==
    /\ Len(scored) <= Len(sent)
    /\ \A i \in DOMAIN scored : Matches(scored[i], sent[i])
    /\ test_at = "ended" => Len(scored) = BodyLength(test)

(* wait_idle is long enough: nothing is in the pipeline, nor on the wires, *)
(* when the objection is dropped.                                          *)
PipelineDrained ==
    test_at \in {"dropped", "ended"} =>
        ~valid /\ ~pending /\ ~ready /\ inflight_q = <<>>

(* Requests are presented back to back: the driver drives an empty cycle   *)
(* only when the sequence is over.                                         *)
NoBubbles ==
    driver_at = "return" /\ next_item = Null => seq_at[seq] = "finished"

(* The verdict of regression.py on a simulation.  A failing assertion      *)
(* calls $error, which is no UVM error: Verilator stops the program with   *)
(* an exit code other than 0, and that is all the script sees of it.       *)
returncode == IF assertion_failed THEN 1 ELSE 0

Passed == returncode = 0 /\ reports = {} /\ ~read_fail

(* Whatever the randomization and the contents of the registers at         *)
(* power-up, a simulation that has ended has passed, and nothing happened  *)
(* before its end that would fail it.                                      *)
AllTestsPass == Passed

(* Both operations are covered by every test, and the addresses by the     *)
(* boundary test, whatever is randomized.                                  *)
CoverageClosed ==
    test_at = "ended" =>
        /\ operation = OperationBins
        /\ test = "boundary_test" => address = AddressBins

(* Every test ends: item_done always comes, and wait_idle returns.         *)
TestEnds == <>(test_at = "ended")

(* A simulation of a test is a behaviour of the testbench, so whatever is  *)
(* proved of the testbench under any stream of requests holds of it.       *)
RunsTestbench == TBInit /\ [][TBNext]_TBvars
=============================================================================
