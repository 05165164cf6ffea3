----------------------------- MODULE MCTunerTask -----------------------------
(* Instances of TunerTask with one client, and the calls that it makes.    *)
EXTENDS TunerTask, TLC

CONSTANTS c1, f1, f2

OneClient == {c1}
TwoFreqs == {f1, f2}
Tuning == {"start", "stop"}
=============================================================================
