--------------------------- MODULE ReferenceMemory ---------------------------
(***************************************************************************)
(* What the memory controller promises to whoever drives its inputs,       *)
(* without saying how: a memory that serves a queue of requests in order,  *)
(* and takes an unspecified number of cycles for each.  ready is high in   *)
(* the cycle after a request was served; rdata is the last word read.      *)
(***************************************************************************)
EXTENDS MemoryInterface

VARIABLES
    mem,    \* the words written by the requests answered so far
    todo    \* the requests accepted and not yet answered, oldest first

vars == <<wires, mem, todo>>

Init ==
    /\ InterfaceInit
    /\ mem = [a \in Addr |-> 0]
    /\ todo = <<>>

-----------------------------------------------------------------------------
(* The requests waiting after this edge, when q of the older ones remain.  *)
(* A reset forgets them all.                                               *)
Accept(q) ==
    \/ rst' /\ todo' = <<>>
    \/ ~rst' /\ valid /\ todo' = Append(q, Presented)
    \/ ~rst' /\ ~valid /\ todo' = q

Write(r) == /\ r.write
            /\ mem' = [mem EXCEPT ![r.addr] = r.wdata]
            /\ UNCHANGED rdata

Read(r) == /\ ~r.write
           /\ rdata' = mem[r.addr]
           /\ UNCHANGED mem

Answer ==
    /\ ~rst
    /\ todo # <<>>
    /\ Write(Head(todo)) \/ Read(Head(todo))
    /\ ready' = TRUE
    /\ Accept(Tail(todo))

Delay ==
    /\ ~rst
    /\ ready' = FALSE
    /\ UNCHANGED <<mem, rdata>>
    /\ Accept(todo)

InReset ==
    /\ rst
    /\ ready' = FALSE
    /\ rdata' = 0
    /\ todo' = <<>>
    /\ UNCHANGED mem

(* The inputs belong to the environment. *)
AnyInputs ==
    /\ rst' \in BOOLEAN
    /\ write' \in BOOLEAN
    /\ valid' \in BOOLEAN
    /\ addr' \in Addr
    /\ wdata' \in Data

Next == AnyInputs /\ (Answer \/ Delay \/ InReset)

Spec == Init /\ [][Next]_vars /\ WF_vars(AnyInputs /\ Answer)
=============================================================================
