-------------------------- MODULE MemorySequences --------------------------
(***************************************************************************)
(* The bodies of the four sequences, as the items they may send after the  *)
(* items they have sent.  An item is a request; the fields a sequence does *)
(* not assign are X.                                                       *)
(***************************************************************************)
EXTENDS MemoryInterface

CONSTANTS
    hAAAAAAAA, hBBBBBBBB, hCCCCCCCC, hDDDDDDDD, hDEADBEEF,
    RandomAddr,     \* the addresses randomize() chooses from
    RandomWords,    \* the words it chooses from
    Writes          \* how many random writes memory_sequence sends

ASSUME WritesAssumption == Writes \in Nat \ {0}

ASSUME ItemsAssumption ==
    /\ {0, 5, 10, 100, 255} \cup RandomAddr \subseteq Addr
    /\ {hAAAAAAAA, hBBBBBBBB, hCCCCCCCC, hDDDDDDDD, hDEADBEEF} \subseteq Data
    /\ RandomWords \subseteq Data

WriteItem(a, word) == [write |-> TRUE, addr |-> a, wdata |-> word]
ReadItem(a)        == [write |-> FALSE, addr |-> a, wdata |-> X]

write_read_sequence == <<WriteItem(10, hAAAAAAAA), ReadItem(10)>>

boundary_sequence == <<WriteItem(0, hAAAAAAAA),   ReadItem(0),
                       WriteItem(100, hDDDDDDDD), ReadItem(100),
                       WriteItem(255, hBBBBBBBB), ReadItem(255)>>

reset_sequence == <<WriteItem(5, hCCCCCCCC), ReadItem(5)>>

(* Random writes, then reads of the addresses written, in the same order.  *)
memory_sequence(sent) ==
    IF Len(sent) < Writes
    THEN {WriteItem(a, word) : a \in RandomAddr, word \in RandomWords}
    ELSE {[write |-> FALSE,
           addr  |-> sent[Len(sent) + 1 - Writes].addr,
           wdata |-> hDEADBEEF]}

Tests == {"memory_test", "write_read_test", "boundary_test", "reset_test"}

Directed(test) == CASE test = "write_read_test" -> write_read_sequence
                    [] test = "boundary_test"   -> boundary_sequence
                    [] test = "reset_test"      -> reset_sequence

BodyLength(test) ==
    IF test = "memory_test" THEN 2 * Writes ELSE Len(Directed(test))

(* The items the sequence of a test may send next: none at its end. *)
NextItems(test, sent) ==
    IF Len(sent) = BodyLength(test) THEN {}
    ELSE IF test = "memory_test"    THEN memory_sequence(sent)
                                    ELSE {Directed(test)[Len(sent) + 1]}
=============================================================================
