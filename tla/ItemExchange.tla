---------------------------- MODULE ItemExchange ----------------------------
(***************************************************************************)
(* What a sequencer promises to the sequences and to the driver, whatever  *)
(* is locked or killed.  Items change hands one at a time: a sequence that *)
(* asks gets the turn, sends one item, the driver drives that item, and    *)
(* only then may anybody else have the turn.  The sequencer can be held by *)
(* one sequence, as often as it likes; while it is held only the holder is *)
(* chosen.  A lock that can be granted is granted and a request that can   *)
(* be chosen is chosen whenever the sequencer looks, so a lock is handed   *)
(* over at once and may pass earlier requests of items.  Which of several  *)
(* locks, or of several items, is first is left open.                      *)
(***************************************************************************)
EXTENDS Naturals

CONSTANTS
    Seqs,   \* the sequences
    Null    \* no sequence, no item

VARIABLES
    stage,      \* what each sequence is in the middle of
    holder,     \* the sequence that holds the sequencer
    depth,      \* how often it has locked and not unlocked
    turn,       \* the sequence whose item is due
    item,       \* the item sent
    driving,    \* the item the driver drives
    driven      \* how many items of each sequence have been driven

exchange == <<stage, holder, depth, turn, item, driving, driven>>

ExchangeInit ==
    /\ stage = [s \in Seqs |-> "idle"]
    /\ holder = Null /\ depth = 0
    /\ turn = Null /\ item = Null /\ driving = Null
    /\ driven = [s \in Seqs |-> 0]

-----------------------------------------------------------------------------
(* The sequencer looks at the locks when h holds it d times and the        *)
(* sequences are in the stages st.                                         *)
Grantable(h, st) == {s \in Seqs : st[s] = "locking" /\ h \in {Null, s}}

Grant(h, d, st) ==
    \/ \E s \in Grantable(h, st) :
         /\ holder' = s
         /\ depth' = d + 1
         /\ stage' = [r \in Seqs |-> IF r = s THEN "idle" ELSE st[r]]
    \/ /\ Grantable(h, st) = {}
       /\ holder' = h
       /\ depth' = d
       /\ stage' = st

At(s, label) == [stage EXCEPT ![s] = label]

Ask(s) ==
    /\ stage[s] = "idle"
    /\ stage' = At(s, "asking")
    /\ UNCHANGED <<holder, depth, turn, item, driving, driven>>

RequestLock(s) ==
    /\ stage[s] = "idle"
    /\ Grant(holder, depth, At(s, "locking"))
    /\ UNCHANGED <<turn, item, driving, driven>>

(* A lock is given back.  One taken several times is kept until it has     *)
(* been given back as often; that is what the sequencer does, where its    *)
(* documentation has all of them given back at once.                       *)
Release(s) ==
    /\ stage[s] = "idle"
    /\ holder = s
    /\ Grant(IF depth = 1 THEN Null ELSE s, depth - 1, stage)
    /\ UNCHANGED <<turn, item, driving, driven>>

(* Nobody has the turn, or one that is gone and has sent nothing.          *)
TurnIsFree == item = Null /\ (turn = Null \/ stage[turn] = "gone")

Choose(s) ==
    /\ TurnIsFree
    /\ stage[s] = "asking"
    /\ Grant(holder, depth, At(s, "promised"))
    /\ holder' \in {Null, s}
    /\ turn' = s
    /\ UNCHANGED <<item, driving, driven>>

ChooseNobody ==
    /\ TurnIsFree
    /\ Grant(holder, depth, stage)
    /\ \A s \in Seqs : stage[s] = "asking" => holder' \notin {Null, s}
    /\ turn' = Null
    /\ UNCHANGED <<item, driving, driven>>

Send(s) ==
    /\ turn = s /\ stage[s] = "promised" /\ item = Null
    /\ item' = [seq |-> s, item |-> driven[s] + 1]
    /\ Grant(holder, depth, At(s, "sending"))
    /\ UNCHANGED <<turn, driving, driven>>

Drive ==
    /\ turn # Null /\ item # Null /\ driving = Null
    /\ driving' = item
    /\ UNCHANGED <<stage, holder, depth, turn, item, driven>>

Done ==
    /\ driving # Null /\ driving = item
    /\ driven' = [driven EXCEPT ![item.seq] = item.item]
    /\ turn' = Null /\ item' = Null /\ driving' = Null
    /\ Grant(holder, depth, stage)

(* A sequence goes on when its item has been driven.                       *)
Return(s) ==
    /\ stage[s] = "sending"
    /\ item = Null \/ item.seq # s
    /\ stage' = At(s, "idle")
    /\ UNCHANGED <<holder, depth, turn, item, driving, driven>>

(* A sequence ends or is killed.  It keeps nothing but an item sent.       *)
Leave(s) ==
    /\ stage' = At(s, "gone")
    /\ IF holder = s THEN holder' = Null /\ depth' = 0
                     ELSE UNCHANGED <<holder, depth>>
    /\ UNCHANGED <<turn, item, driving, driven>>

ExchangeNext ==
    \/ \E s \in Seqs : \/ Ask(s) \/ RequestLock(s) \/ Release(s)
                       \/ Choose(s) \/ Send(s) \/ Return(s) \/ Leave(s)
    \/ ChooseNobody \/ Drive \/ Done

ExchangeSpec == ExchangeInit /\ [][ExchangeNext]_exchange
=============================================================================
