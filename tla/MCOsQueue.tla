------------------------------ MODULE MCOsQueue ------------------------------
(***************************************************************************)
(* An instance of OsQueue for TLC: two readers and a writer on a ring small*)
(* enough to be full, empty and wrapped at every turn.                     *)
(***************************************************************************)
EXTENDS OsQueue, TLC

CONSTANTS r1, r2, w1, m1, m2

MCReaders == {r1, r2}
MCWriters == {w1}
MCMsgs == {m1, m2}
=============================================================================
