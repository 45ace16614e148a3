--------------------------- MODULE MemoryCoverage ---------------------------
(***************************************************************************)
(* coverage/memory_coverage.sv: the covergroup memory_cg, sampled at the   *)
(* rising edges at which valid is high.                                    *)
(***************************************************************************)
EXTENDS MemoryInterface

\* addr is eight bits wide.
ASSUME AddressAssumption == Addr \subseteq 0 .. 255

VARIABLES operation, address    \* the bins hit

coverage == <<operation, address>>

OperationBin(w) == IF w THEN "WRITE" ELSE "READ"

(* Mutant: the bins split the addresses in two halves. *)
AddressHalf(a) == IF a \in 0 .. 127 THEN "LOW" ELSE "HIGH"

AddressBin(a) == CASE a \in 0 .. 63    -> "LOW"
                   [] a \in 64 .. 191  -> "MEDIUM"
                   [] a \in 192 .. 255 -> "HIGH"

OperationBins == {"READ", "WRITE"}
AddressBins   == {"LOW", "MEDIUM", "HIGH"}

CoverageInit == operation = {} /\ address = {}

SampleCoverage ==
    \/ /\ valid
       /\ operation' = operation \cup {OperationBin(write)}
       /\ address' = address \cup {AddressBin(addr)}
    \/ ~valid /\ UNCHANGED coverage
=============================================================================
