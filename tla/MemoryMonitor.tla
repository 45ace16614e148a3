--------------------------- MODULE MemoryMonitor ---------------------------
(***************************************************************************)
(* tb/uvm/monitor/memory_monitor.sv: run_phase watches both ends of the    *)
(* pipeline through monitor_cb, queues the requests it sees issued, and    *)
(* pairs every ready with the oldest of them.  A request seen at this very *)
(* edge is queued before ready is looked at.                               *)
(***************************************************************************)
EXTENDS MemoryInterface

VARIABLE inflight_q     \* the transactions issued and not seen completed

Transaction == [write : BOOLEAN, addr : Addr, wdata : Data, rdata : Data]

MonitorInit == inflight_q = <<>>

(* The transaction created for the request sampled now: a read keeps no    *)
(* write data, and nothing has a result yet.                               *)
Issued == [write |-> write,
           addr  |-> addr,
           wdata |-> IF write THEN wdata ELSE X,
           rdata |-> X]

(* inflight_q after the request side of the monitor has run. *)
Pushed == IF valid THEN Append(inflight_q, Issued) ELSE inflight_q

Completes == ready /\ Pushed # <<>>

(* Mutant: ready is paired with the newest request. *)
CompletedNewest ==
    LET tr == Pushed[Len(Pushed)]
    IN  IF tr.write THEN tr ELSE [tr EXCEPT !.rdata = rdata]

(* The transaction given to analysis_port.write. *)
Completed ==
    LET tr == Head(Pushed)
    IN  IF tr.write THEN tr ELSE [tr EXCEPT !.rdata = rdata]

(* Mutant: the completed transaction is left in the queue. *)
ReportWithoutPop == Completes /\ inflight_q' = Pushed

Watch  == ~Completes /\ inflight_q' = Pushed
Report == Completes /\ inflight_q' = Tail(Pushed)

MonitorTypeOK == inflight_q \in Seq(Transaction)
=============================================================================
