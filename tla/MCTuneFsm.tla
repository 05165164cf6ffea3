------------------------------ MODULE MCTuneFsm ------------------------------
(* Instances of TuneFsm: one tuner path or two, one client.         *)
EXTENDS TuneFsm, TLC

CONSTANTS p1, p2, c1, f1, f2

OnePath == {p1}
TwoPaths == {p1, p2}
OneClient == {c1}
MCFreqs == {f1, f2}
=============================================================================
