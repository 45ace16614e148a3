---------------------------- MODULE RecentlyUsed ----------------------------
(***************************************************************************)
(* What src/uvm-core/src/base/uvm_lru_cache.svh and uvm_cache.svh say of   *)
(* the cache, without nodes and references: it keeps the keys in the order *)
(* in which they were used, and when there are more of them than its       *)
(* maximum size the least recently used ones are evicted.                  *)
(***************************************************************************)
EXTENDS Integers, SequencesExt

VARIABLES
  recent,     \* the keys of the cache, the last used first
  max         \* the maximum size, 0 for none

vars == <<recent, max>>

Init == recent = <<>> /\ max \in Nat

\* What is left of the keys when the least recently used are evicted.
Limited(ks, m) == IF m = 0 \/ Len(ks) <= m THEN ks ELSE SubSeq(ks, 1, m)

\* Use of a key that is there or is added.
Use ==
  /\ \/ \E i \in DOMAIN recent :
          recent' = <<recent[i]>> \o RemoveAt(recent, i)
     \/ /\ recent' # <<>> /\ \A i \in DOMAIN recent : recent[i] # recent'[1]
        /\ recent' = Limited(<<recent'[1]>> \o recent, max)
  /\ UNCHANGED max

\* One key is evicted or all are.
Drop ==
  /\ recent' = <<>> \/ \E i \in DOMAIN recent : recent' = RemoveAt(recent, i)
  /\ UNCHANGED max

Resize ==
  /\ max' \in Nat
  /\ recent' = Limited(recent, max')

Next == Use \/ Drop \/ Resize

Spec == Init /\ [][Next]_vars
=============================================================================
