-------------------------- MODULE MemoryTestbench --------------------------
(***************************************************************************)
(* tb_top with the UVM environment: the controller, the assertion, the     *)
(* driver, and the monitor connected to the scoreboard.  The sequencer is  *)
(* left open: at every clock edge the driver gets any request or none.     *)
(*                                                                         *)
(* tb_top holds rst high over the first rising edge (5 ns), releases it    *)
(* before the second one (10 ns), and never asserts it again.              *)
(***************************************************************************)
EXTENDS MemoryController, MemoryAssertions, MemoryDriver,
        MemoryMonitor, MemoryScoreboard

TBvars == <<vars, assertions, reset_seen, inflight_q, scoreboard>>

TBInit ==
    /\ Init
    /\ AssertionsInit
    /\ DriverInit
    /\ MonitorInit
    /\ ScoreboardInit

ReleaseReset == rst' = FALSE

(* The monitor's analysis port is connected to the scoreboard, whose write *)
(* function runs as part of the monitor's step.                            *)
MonitorAndScore ==
    \/ Watch /\ UNCHANGED scoreboard
    \/ Report /\ Score(Completed)

(* Everything at a clock edge except what the driver does. *)
ClockEdge ==
    /\ AlwaysFF
    /\ AssertProperty
    /\ MonitorAndScore
    /\ ReleaseReset

Drive == WaitForReset \/ DriveIdle \/ \E tr \in Request : DriveItem(tr)

TBNext == ClockEdge /\ Drive

TBSpec == TBInit /\ [][TBNext]_TBvars

-----------------------------------------------------------------------------
TBTypeOK ==
    /\ TypeOK
    /\ AssertionsTypeOK
    /\ reset_seen \in BOOLEAN
    /\ MonitorTypeOK
    /\ ScoreboardTypeOK

(* The scoreboard never reports READ FAIL, whatever is requested and       *)
(* however closely: the controller and its reference model agree.          *)
ScoreboardNeverFails == ~read_fail

(* `valid |-> ##2 ready' never fails in the testbench. *)
AssertionNeverFails == ~assertion_failed

(* The monitor's queue holds exactly the requests inside the pipeline: the *)
(* one whose completion ready announces, then the one in the pending       *)
(* registers.  It neither grows nor gets out of step with the controller.  *)
InPipeline(tr) ==
    /\ tr.write = pending_write
    /\ tr.addr = pending_addr
    /\ tr.write => tr.wdata = pending_wdata

InflightMatchesPipeline ==
    ~rst =>
      /\ Len(inflight_q) = (IF ready THEN 1 ELSE 0) + (IF pending THEN 1 ELSE 0)
      /\ pending => InPipeline(inflight_q[Len(inflight_q)])

(* The reference model is at most one completed write behind the memory,   *)
(* and the word on rdata for a completed read is the one it expects.       *)
ExpectedFollowsMemory ==
    ~rst =>
      \/ ~ready /\ memory = expected_memory
      \/ /\ ready
         /\ LET tr == Head(inflight_q)
            IN  IF tr.write
                THEN memory = [expected_memory EXCEPT ![tr.addr] = tr.wdata]
                ELSE memory = expected_memory /\ rdata = memory[tr.addr]
=============================================================================
