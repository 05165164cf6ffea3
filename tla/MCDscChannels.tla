---------------------------- MODULE MCDscChannels ----------------------------
(* Two tracks of one demux and a third of another.                         *)
EXTENDS DscChannels, TLC

CONSTANTS u1, u2, u3, d1, d2, x, y

MCUsers == {u1, u2, u3}
TwoUsers == {u1, u2}
MCDevs == {d1, d2}
MCDscDev == [u \in Users |-> IF u = u3 THEN d2 ELSE d1]
MCPids == {257, 258}
MCSlots == 1 .. 2
MCChans == 1 .. 2
MCKeys == 1 .. 5
OneKey == {x}
TwoKeys == {x, y}
=============================================================================
