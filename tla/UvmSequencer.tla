---------------------------- MODULE UvmSequencer ----------------------------
(***************************************************************************)
(* The sequencer-driver handshake of uvm-core that feeds the testbench:    *)
(* start_item and finish_item of a sequence, lock, grab, unlock and kill,  *)
(* the sequencer's arbitration queue (UVM_SEQ_ARB_FIFO, the default, and   *)
(* sequences without parents), and try_next_item and item_done.            *)
(*                                                                         *)
(* Each action is what one process does between two points at which it can *)
(* be suspended.  The module declares the state and the operations; the    *)
(* modules that extend it say who calls them and how time passes.  An      *)
(* action marked NBA continues a process that waits in                     *)
(* uvm_wait_for_nba_region: it may only happen when no process can run     *)
(* without waiting, which is the conjunct its caller has to add.           *)
(***************************************************************************)
EXTENDS Naturals, Sequences, SequencesExt, FiniteSetsExt

CONSTANTS
    Seqs,   \* the sequences started on the sequencer
    Null    \* no sequence (-1), no item (null)

ASSUME SequencerAssumption == Null \notin Seqs

VARIABLES
    arb_sequence_q,     \* the requests waiting, in order
    arb_completed,      \* the sequences granted and not yet resumed
    lock_list,          \* the sequences that hold a lock or a grab
    m_req_fifo,         \* the item sent by the granted sequence (size 1)
    m_wait_for_item_sequence_id,    \* whose item was done last
    get_next_item_called,           \* an item was handed to the driver
    seq_at,             \* where each sequence is
    driver_at,          \* where the driver is
    selected,           \* the sequence try_next_item has chosen
    next_item,          \* what try_next_item returned
    reports             \* the errors and fatals reported

arbitration == <<arb_sequence_q, arb_completed, lock_list>>
handshake   == <<m_req_fifo, m_wait_for_item_sequence_id, get_next_item_called>>
driver      == <<driver_at, selected, next_item>>
sequencer   == <<arbitration, handshake, seq_at, driver, reports>>

ArbRequest == [request : {"SEQ_TYPE_REQ", "SEQ_TYPE_LOCK"}, seq : Seqs]

SequencerInit ==
    /\ arb_sequence_q = <<>>
    /\ arb_completed = {}
    /\ lock_list = <<>>
    /\ m_req_fifo = <<>>
    /\ m_wait_for_item_sequence_id = Null
    /\ get_next_item_called = FALSE
    /\ seq_at = [s \in Seqs |-> "created"]
    /\ driver_at = "clock"
    /\ selected = Null
    /\ next_item = Null
    /\ reports = {}

Goto(s, label) == seq_at' = [seq_at EXCEPT ![s] = label]

-----------------------------------------------------------------------------
(* Arbitration, computed on a record of the three variables it may change. *)
Arbiter(q) == [q |-> q, locks |-> lock_list, done |-> arb_completed]

SetArbiter(arb) ==
    /\ arb_sequence_q' = arb.q
    /\ lock_list' = arb.locks
    /\ arb_completed' = arb.done

(* Mutant: locks block nobody. *)
NeverBlocked(s, locks) == FALSE

(* is_blocked *)
IsBlocked(s, locks) == \E i \in DOMAIN locks : locks[i] # s

Unblocked(arb, kind) ==
    {i \in DOMAIN arb.q : /\ arb.q[i].request = kind
                          /\ ~IsBlocked(arb.q[i].seq, arb.locks)}

(* Mutant: the request itself is entered in lock_list. *)
GrantQueuedRequests(arb) ==
    LET grantable == Unblocked(arb, "SEQ_TYPE_LOCK")
        i         == Min(grantable)
    IN  IF grantable = {}
        THEN arb
        ELSE [q     |-> RemoveAt(arb.q, i),
              locks |-> Append(arb.locks, arb.q[i]),
              done  |-> arb.done \cup {arb.q[i].seq}]

(* grant_queued_locks: the first lock request of a sequence that is not    *)
(* blocked is granted, wherever it stands in the queue.                    *)
GrantQueuedLocks(arb) ==
    LET grantable == Unblocked(arb, "SEQ_TYPE_LOCK")
        i         == Min(grantable)
    IN  IF grantable = {}
        THEN arb
        ELSE [q     |-> RemoveAt(arb.q, i),
              locks |-> Append(arb.locks, arb.q[i].seq),
              done  |-> arb.done \cup {arb.q[i].seq}]

(* Mutant: locks are granted after the choice instead of before. *)
ChooseThenGrant(before) ==
    LET available == Unblocked(before, "SEQ_TYPE_REQ")
        i         == Min(available)
    IN  \/ /\ available = {}
           /\ SetArbiter(GrantQueuedLocks(before))
           /\ selected' = Null
           /\ driver_at' = "return"
           /\ UNCHANGED get_next_item_called
        \/ /\ available # {}
           /\ SetArbiter(GrantQueuedLocks(
                [before EXCEPT !.q = RemoveAt(@, i),
                               !.done = @ \cup {before.q[i].seq}]))
           /\ selected' = before.q[i].seq
           /\ driver_at' = "peek"
           /\ get_next_item_called' = TRUE

(* m_choose_next_request grants a lock if it can, then chooses the first   *)
(* item request of a sequence that is not blocked.  The request chosen is  *)
(* completed and leaves the queue, and try_next_item goes on to wait for   *)
(* the item; if there is none it returns null.                             *)
ChooseNextRequest(before) ==
    LET arb       == GrantQueuedLocks(before)
        available == Unblocked(arb, "SEQ_TYPE_REQ")
        i         == Min(available)
    IN  \/ /\ available = {}
           /\ SetArbiter(arb)
           /\ selected' = Null
           /\ driver_at' = "return"
           /\ UNCHANGED get_next_item_called
        \/ /\ available # {}
           /\ SetArbiter([arb EXCEPT !.q = RemoveAt(@, i),
                                     !.done = @ \cup {arb.q[i].seq}])
           /\ selected' = arb.q[i].seq
           /\ driver_at' = "peek"
           /\ get_next_item_called' = TRUE

-----------------------------------------------------------------------------
(* The sequences. *)

(* start registers the sequence and calls body. *)
StartSequence(s) ==
    /\ seq_at[s] = "created"
    /\ Goto(s, "body")
    /\ UNCHANGED <<arbitration, handshake, driver, reports>>

(* start_item, until the grant. *)
StartItem(s) ==
    /\ seq_at[s] = "body"
    /\ arb_sequence_q' =
         Append(arb_sequence_q, [request |-> "SEQ_TYPE_REQ", seq |-> s])
    /\ Goto(s, "wait_for_grant")
    /\ UNCHANGED <<arb_completed, lock_list, handshake, driver, reports>>

ItemGranted(s) ==
    /\ seq_at[s] = "wait_for_grant"
    /\ s \in arb_completed
    /\ arb_completed' = arb_completed \ {s}
    /\ Goto(s, "granted")
    /\ UNCHANGED <<arb_sequence_q, lock_list, handshake, driver, reports>>

(* Mutant: the answer to the previous item is not forgotten. *)
FinishItemStale(s, item) ==
    /\ seq_at[s] = "granted"
    /\ IF m_req_fifo = <<>>
       THEN m_req_fifo' = <<[seq |-> s, item |-> item]>> /\ UNCHANGED reports
       ELSE reports' = reports \cup {"SQRSNDREQGNI"} /\ UNCHANGED m_req_fifo
    /\ SetArbiter(GrantQueuedLocks(Arbiter(arb_sequence_q)))
    /\ Goto(s, "wait_for_item_done")
    /\ UNCHANGED <<m_wait_for_item_sequence_id, get_next_item_called, driver>>

(* finish_item: send_request, then wait_for_item_done until the item is    *)
(* done.                                                                   *)
FinishItem(s, item) ==
    /\ seq_at[s] = "granted"
    /\ IF m_req_fifo = <<>>
       THEN m_req_fifo' = <<[seq |-> s, item |-> item]>> /\ UNCHANGED reports
       ELSE reports' = reports \cup {"SQRSNDREQGNI"} /\ UNCHANGED m_req_fifo
    /\ SetArbiter(GrantQueuedLocks(Arbiter(arb_sequence_q)))
    /\ m_wait_for_item_sequence_id' = Null
    /\ Goto(s, "wait_for_item_done")
    /\ UNCHANGED <<get_next_item_called, driver>>

ItemFinished(s) ==
    /\ seq_at[s] = "wait_for_item_done"
    /\ m_wait_for_item_sequence_id = s
    /\ Goto(s, "body")
    /\ UNCHANGED <<arbitration, handshake, driver, reports>>

(* lock queues its request behind the others, grab in front of them. *)
RequestLock(s, q) ==
    /\ seq_at[s] = "body"
    /\ SetArbiter(GrantQueuedLocks(Arbiter(q)))
    /\ Goto(s, "wait_for_lock")
    /\ UNCHANGED <<handshake, driver, reports>>

LockRequest(s) == [request |-> "SEQ_TYPE_LOCK", seq |-> s]

Lock(s) == RequestLock(s, Append(arb_sequence_q, LockRequest(s)))
Grab(s) == RequestLock(s, <<LockRequest(s)>> \o arb_sequence_q)

LockGranted(s) ==
    /\ seq_at[s] = "wait_for_lock"
    /\ s \in arb_completed
    /\ arb_completed' = arb_completed \ {s}
    /\ Goto(s, "body")
    /\ UNCHANGED <<arb_sequence_q, lock_list, handshake, driver, reports>>

(* Mutant: unlock does not look for a lock that waits. *)
UnlockTellsNobody(s) ==
    /\ seq_at[s] = "body"
    /\ LET held == {i \in DOMAIN lock_list : lock_list[i] = s}
       IN  /\ held # {}
           /\ SetArbiter([Arbiter(arb_sequence_q) EXCEPT !.locks = RemoveAt(@, Min(held))])
    /\ UNCHANGED <<handshake, seq_at, driver, reports>>

(* unlock and ungrab release the oldest lock of the sequence and keep the  *)
(* others, although they are documented to remove any it has.              *)
Unlock(s) ==
    /\ seq_at[s] = "body"
    /\ LET held == {i \in DOMAIN lock_list : lock_list[i] = s}
       IN  /\ held # {}
           /\ SetArbiter(GrantQueuedLocks(
                [Arbiter(arb_sequence_q) EXCEPT !.locks = RemoveAt(@, Min(held))]))
    /\ UNCHANGED <<handshake, seq_at, driver, reports>>

(* What a scan that deletes everything but the members of keep leaves of   *)
(* the list q.                                                             *)
Kept(q, keep) ==
    LET kept[n \in 0..Len(q)] ==
          IF n = 0 THEN <<>>
          ELSE IF q[n] \in keep THEN Append(kept[n - 1], q[n]) ELSE kept[n - 1]
    IN  kept[Len(q)]

(* Mutant: the locks of a sequence outlive it. *)
RemoveRequestsOnly(s) ==
    /\ arb_sequence_q' = Kept(arb_sequence_q, {r \in ArbRequest : r.seq # s})
    /\ UNCHANGED <<lock_list, arb_completed>>

(* remove_sequence_from_queues: nothing is granted to anybody else. *)
RemoveFromQueues(s) ==
    /\ arb_sequence_q' = Kept(arb_sequence_q, {r \in ArbRequest : r.seq # s})
    /\ lock_list' = Kept(lock_list, Seqs \ {s})
    /\ UNCHANGED arb_completed

Owns(s) == \/ \E i \in DOMAIN arb_sequence_q : arb_sequence_q[i].seq = s
           \/ \E i \in DOMAIN lock_list : lock_list[i] = s

(* body returns and start cleans up after it. *)
FinishSequence(s) ==
    /\ seq_at[s] = "body"
    /\ RemoveFromQueues(s)
    /\ reports' = IF Owns(s) THEN reports \cup {"SEQFINERR"} ELSE reports
    /\ Goto(s, "finished")
    /\ UNCHANGED <<handshake, driver>>

(* kill, by any other process. *)
Kill(s) ==
    /\ seq_at[s] \notin {"created", "finished", "killed"}
    /\ RemoveFromQueues(s)
    /\ Goto(s, "killed")
    /\ UNCHANGED <<handshake, driver, reports>>

(* Sequence s can continue without waiting. *)
SequenceRunnable(s) ==
    \/ seq_at[s] \in {"body", "granted"}
    \/ seq_at[s] \in {"wait_for_grant", "wait_for_lock"} /\ s \in arb_completed
    \/ seq_at[s] = "wait_for_item_done" /\ m_wait_for_item_sequence_id = s

-----------------------------------------------------------------------------
(* The driver's side.  A call of try_next_item goes from TryNextItem to    *)
(* driver_at = "return", where next_item is its result.                    *)

TryNextItem ==
    /\ driver_at = "clock"
    /\ next_item' = Null
    /\ selected' = Null
    /\ \/ /\ ~get_next_item_called
          /\ driver_at' = "choose"
          /\ UNCHANGED reports
       \/ /\ get_next_item_called
          /\ driver_at' = "return"
          /\ reports' = reports \cup {"called twice without item_done"}
    /\ UNCHANGED <<arbitration, handshake, seq_at>>

(* NBA *)
ChooseRequest ==
    /\ driver_at = "choose"
    /\ ChooseNextRequest(Arbiter(arb_sequence_q))
    /\ UNCHANGED <<m_req_fifo, m_wait_for_item_sequence_id, seq_at, next_item,
                   reports>>

(* Mutant: nobody looks whether the sequence was killed. *)
SelectedIsTrusted == FALSE

SelectedIsDead == seq_at[selected] \in {"killed", "finished"}

(* NBA: the sequence chosen has sent its item, or it is an error that it   *)
(* has not.                                                                *)
PeekItem ==
    /\ driver_at = "peek"
    /\ m_req_fifo # <<>> \/ ~SelectedIsDead
    /\ driver_at' = "return"
    /\ IF m_req_fifo # <<>>
       THEN next_item' = Head(m_req_fifo) /\ UNCHANGED reports
       ELSE next_item' = Null /\ reports' = reports \cup {"TRY_NEXT_BLOCKED"}
    /\ UNCHANGED <<arbitration, handshake, seq_at, selected>>

(* NBA: the sequence chosen has been killed before it sent its item.       *)
ChooseAgain ==
    /\ driver_at = "peek"
    /\ m_req_fifo = <<>> /\ SelectedIsDead
    /\ ChooseNextRequest(
         [Arbiter(arb_sequence_q) EXCEPT !.done = @ \ {selected}])
    /\ UNCHANGED <<m_req_fifo, m_wait_for_item_sequence_id, seq_at, next_item,
                   reports>>

(* Mutant: the sequence is not told that its item is done. *)
ItemDoneUntold ==
    /\ driver_at = "return"
    /\ next_item # Null
    /\ get_next_item_called' = FALSE
    /\ m_req_fifo' = <<>>
    /\ SetArbiter(GrantQueuedLocks(Arbiter(arb_sequence_q)))
    /\ driver_at' = "clock"
    /\ UNCHANGED <<m_wait_for_item_sequence_id, selected, next_item, seq_at,
                   reports>>

(* item_done, called when an item was returned and driven; the driver goes *)
(* back to @(vif.driver_cb).                                               *)
ItemDone ==
    /\ driver_at = "return"
    /\ next_item # Null
    /\ get_next_item_called' = FALSE
    /\ m_req_fifo' = <<>>
    /\ IF m_req_fifo = <<>>
       THEN /\ reports' = reports \cup {"SQRBADITMDN"}
            /\ UNCHANGED m_wait_for_item_sequence_id
       ELSE /\ m_wait_for_item_sequence_id' = Head(m_req_fifo).seq
            /\ UNCHANGED reports
    /\ SetArbiter(GrantQueuedLocks(Arbiter(arb_sequence_q)))
    /\ driver_at' = "clock"
    /\ UNCHANGED <<selected, next_item, seq_at>>

(* The driver found no item and drove an empty cycle. *)
NoItem ==
    /\ driver_at = "return"
    /\ next_item = Null
    /\ driver_at' = "clock"
    /\ UNCHANGED <<arbitration, handshake, seq_at, selected, next_item, reports>>

-----------------------------------------------------------------------------
SequencerTypeOK ==
    /\ arb_sequence_q \in Seq(ArbRequest)
    /\ arb_completed \subseteq Seqs
    /\ lock_list \in Seq(Seqs)
    /\ Len(m_req_fifo) <= 1
    /\ \A i \in DOMAIN m_req_fifo : m_req_fifo[i].seq \in Seqs
    /\ m_wait_for_item_sequence_id \in Seqs \cup {Null}
    /\ get_next_item_called \in BOOLEAN
    /\ seq_at \in [Seqs -> {"created", "body", "wait_for_grant", "granted",
                            "wait_for_item_done", "wait_for_lock",
                            "finished", "killed"}]
    /\ driver_at \in {"clock", "choose", "peek", "return"}
    /\ selected \in Seqs \cup {Null}
=============================================================================
