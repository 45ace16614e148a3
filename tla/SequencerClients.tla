-------------------------- MODULE SequencerClients --------------------------
(***************************************************************************)
(* The sequencer with any number of well-behaved clients: sequences that   *)
(* send items, lock, grab and unlock, let time pass between their items    *)
(* (never between start_item and finish_item), and may be killed; and a    *)
(* driver with the loop of tb/uvm/driver/memory_driver.sv.                 *)
(***************************************************************************)
EXTENDS UvmSequencer

CONSTANTS
    MaxItems,   \* the items a sequence sends
    MaxLocks,   \* how often it calls lock
    MaxGrabs,   \* how often it calls grab
    MaxWaits,   \* how often it lets time pass
    Killable    \* the sequences that may be killed

ASSUME ClientsAssumption ==
    /\ {MaxItems, MaxLocks, MaxGrabs, MaxWaits} \subseteq Nat
    /\ Killable \subseteq Seqs
    /\ Null \notin [seq : Seqs, item : Nat]

VARIABLES
    asleep,     \* the sequences that wait for a later clock edge
    calls,      \* how often each sequence made each kind of call
    delivered   \* how many items of each sequence the driver has driven

clients == <<asleep, calls, delivered>>

ClientsInit ==
    /\ SequencerInit
    /\ asleep = {}
    /\ calls = [s \in Seqs |-> [item |-> 0, lock |-> 0, grab |-> 0, wait |-> 0]]
    /\ delivered = [s \in Seqs |-> 0]

Awake(s) == SequenceRunnable(s) /\ s \notin asleep

(* No process can run without waiting. *)
Settled == \A s \in Seqs : ~Awake(s)

Count(s, call, max) ==
    /\ calls[s][call] < max
    /\ calls' = [calls EXCEPT ![s][call] = @ + 1]

-----------------------------------------------------------------------------
ClientStep(s) ==
    \/ StartItem(s)  /\ Count(s, "item", MaxItems)
    \/ Lock(s)       /\ Count(s, "lock", MaxLocks)
    \/ Grab(s)       /\ Count(s, "grab", MaxGrabs)
    \/ FinishItem(s, calls[s].item) /\ UNCHANGED calls
    \/ /\ \/ ItemGranted(s) \/ ItemFinished(s) \/ LockGranted(s)
          \/ Unlock(s) \/ FinishSequence(s)
       /\ UNCHANGED calls

RunClient(s) == s \notin asleep /\ ClientStep(s) /\ UNCHANGED <<asleep, delivered>>

Begin(s) == StartSequence(s) /\ UNCHANGED clients

Wait(s) ==
    /\ seq_at[s] = "body"
    /\ s \notin asleep
    /\ asleep' = asleep \cup {s}
    /\ Count(s, "wait", MaxWaits)
    /\ UNCHANGED <<sequencer, delivered>>

Die(s) == s \in Killable /\ Kill(s) /\ UNCHANGED clients

(* A clock edge wakes the driver, which calls try_next_item, and the       *)
(* sequences that let time pass.                                           *)
ClockEdge == Settled /\ TryNextItem /\ asleep' = {} /\ UNCHANGED <<calls, delivered>>

RunDriver ==
    \/ /\ Settled
       /\ ChooseRequest \/ PeekItem \/ ChooseAgain
       /\ UNCHANGED clients
    \/ /\ ItemDone
       /\ delivered' = [delivered EXCEPT ![next_item.seq] = @ + 1]
       /\ UNCHANGED <<asleep, calls>>
    \/ NoItem /\ UNCHANGED clients

ClientsNext ==
    \/ \E s \in Seqs : Begin(s) \/ RunClient(s) \/ Wait(s) \/ Die(s)
    \/ ClockEdge
    \/ RunDriver

ClientsVars == <<sequencer, clients>>
ClientsSpec == ClientsInit /\ [][ClientsNext]_ClientsVars

(* The simulator runs every process that can run, and the clock goes on.   *)
FairClientsSpec ==
    /\ ClientsSpec
    /\ WF_ClientsVars(ClockEdge \/ RunDriver)
    /\ \A s \in Seqs : WF_ClientsVars(Begin(s) \/ RunClient(s))

-----------------------------------------------------------------------------
(* At most one sequence holds locks at any time, through grants made while *)
(* another one waits for its item, unlocks and kills.                      *)
LockIsExclusive == \A i, j \in DOMAIN lock_list : lock_list[i] = lock_list[j]

(* While a sequence holds a lock no item of another one is chosen, even if *)
(* the lock is granted by the very call that chooses.                      *)
HolderIsAlone ==
    [][selected' \notin {selected, Null} =>
         \A i \in DOMAIN lock_list' : lock_list'[i] = selected']_ClientsVars

(* Every item is driven exactly once and in the order it was sent, and     *)
(* finish_item does not return before.                                     *)
ItemsDrivenOnce ==
    /\ driver_at = "return" /\ next_item # Null =>
         next_item.item = delivered[next_item.seq] + 1
    /\ \A s \in Seqs : seq_at[s] \in {"body", "finished"} =>
         delivered[s] = calls[s].item

(* The driver and well-behaved sequences never get the sequencer to report *)
(* a protocol violation, kills included.                                   *)
HandshakeIsClean ==
    reports \cap {"TRY_NEXT_BLOCKED", "SQRBADITMDN", "SQRSNDREQGNI"} = {}

(* Every sequence gets all its items and locks: none starves behind the    *)
(* others, and no request is lost in the queue.                            *)
EverySequenceFinishes == \A s \in Seqs : <>(seq_at[s] \in {"finished", "killed"})

(* What the state means to those who only know the promise.                *)
StageOf(s, at, done) ==
    CASE at[s] = "wait_for_grant" -> IF s \in done THEN "promised" ELSE "asking"
      [] at[s] = "granted" -> "promised"
      [] at[s] = "wait_for_item_done" -> "sending"
      [] at[s] = "wait_for_lock" -> IF s \in done THEN "idle" ELSE "locking"
      [] at[s] \in {"created", "body"} -> "idle"
      [] at[s] \in {"finished", "killed"} -> "gone"

Holder == IF lock_list = <<>> THEN Null ELSE lock_list[1]
SentItem == IF m_req_fifo = <<>> THEN Null ELSE m_req_fifo[1]
Driving == IF driver_at = "return" THEN next_item ELSE Null
Turn == IF driver_at = "peek" \/ Driving # Null THEN selected ELSE Null

Promise == INSTANCE ItemExchange WITH
    stage   <- [s \in Seqs |-> StageOf(s, seq_at, arb_completed)],
    holder  <- Holder,
    depth   <- Len(lock_list),
    turn    <- Turn,
    item    <- SentItem,
    driving <- Driving,
    driven  <- delivered

(* The sequencer keeps the promise of ItemExchange: items change hands one *)
(* at a time and only with the sequence whose turn it is; whenever it      *)
(* looks, a lock that can be granted is granted and a request that can be  *)
(* chosen is not refused; a lock is held until it has been given back as   *)
(* often as it was taken, as the code has it (the documentation of unlock  *)
(* has all taken back by one call), and then given at once to one that     *)
(* waits; and a kill at any point takes away the requests and locks of the *)
(* sequence, and nothing else.                                             *)
ImplementsExchange == Promise!ExchangeSpec

(* A lock is granted "after all earlier requests are completed": no item   *)
(* request that stood in the queue before the lock request is still there. *)
LockWaitsItsTurn ==
    [][\A s \in Seqs :
         seq_at[s] = "body" /\ seq_at'[s] = "wait_for_lock" /\ s \in arb_completed'
           => \A i \in DOMAIN arb_sequence_q :
                arb_sequence_q[i].request # "SEQ_TYPE_REQ"]_ClientsVars

(* try_next_item only complains of a call without item_done to a driver    *)
(* that made one: this driver calls item_done for every item it gets.      *)
NeverCalledTwice == "called twice without item_done" \notin reports
=============================================================================
