-------------------------- MODULE MemoryScoreboard --------------------------
(***************************************************************************)
(* tb/uvm/scoreboard/memory_scoreboard.sv: the reference model of the      *)
(* testbench.  Its function write(tr) is called by the monitor's analysis  *)
(* port with one completed transaction at a time.                          *)
(***************************************************************************)
EXTENDS MemoryInterface

VARIABLES
    expected_memory,    \* the words the completed writes left
    read_fail           \* `uvm_error was reported for some read

scoreboard == <<expected_memory, read_fail>>

ScoreboardInit ==
    /\ expected_memory = [a \in Addr |-> 0]
    /\ read_fail = FALSE

ScoreWrite(tr) ==
    /\ tr.write
    /\ expected_memory' = [expected_memory EXCEPT ![tr.addr] = tr.wdata]
    /\ UNCHANGED read_fail

(* The comparison is ===, so X only matches X. *)
ScoreRead(tr) ==
    /\ ~tr.write
    /\ read_fail' = (read_fail \/ expected_memory[tr.addr] # tr.rdata)
    /\ UNCHANGED expected_memory

Score(tr) == ScoreWrite(tr) \/ ScoreRead(tr)

ScoreboardTypeOK ==
    /\ expected_memory \in [Addr -> Data]
    /\ read_fail \in BOOLEAN
=============================================================================
