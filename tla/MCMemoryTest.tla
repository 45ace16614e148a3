---------------------------- MODULE MCMemoryTest ----------------------------
(* The simulations of the regression for TLC: the addresses and the words  *)
(* the sequences use, and three random writes in place of ten.               *)
EXTENDS MemoryTest

CONSTANT run_sequence

MCSeqs   == {run_sequence}
MCAddr   == {0, 5, 10, 100, 255}
MCData   == {0, X, hAAAAAAAA, hBBBBBBBB, hCCCCCCCC, hDDDDDDDD, hDEADBEEF}
=============================================================================
