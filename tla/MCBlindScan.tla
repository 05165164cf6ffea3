----------------------------- MODULE MCBlindScan -----------------------------
(* Two clients that make all calls of the tuner, beside a blind scan.      *)
EXTENDS BlindScan

CONSTANTS c1, c2, f1, f2

TwoClients == {c1, c2}
TwoFreqs == {f1, f2}
Symmetry == Permutations(TwoClients) \cup Permutations(TwoFreqs)
=============================================================================
