---------------------------- MODULE MCEthMonitor -----------------------------
(* The task, two callers and one thread that nests its locks.              *)
EXTENDS EthMonitor

CONSTANTS taskThread, caller1, caller2, other, m1, m2, m3

MCThreads == {taskThread, caller1, caller2, other}
MCCallers == {caller1, caller2}
MCOthers == {other}
MCMonitors == {m1, m2, m3}
Symmetry == Permutations(MCMonitors)
=============================================================================
