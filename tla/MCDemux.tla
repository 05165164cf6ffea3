------------------------------ MODULE MCDemux ------------------------------
EXTENDS Demux

MCHandles == 0..1
MCBits == {1}
MCPids == {1, 2}
MCSects == {0}
MCReceivers == Slots \cup {Text}
MCTextPids == {1}

\* Table 0 and table 1.
Exact(bit) == [match |-> [b \in Bits |-> bit], mask |-> [b \in Bits |-> TRUE]]
MCWanted == {Exact(FALSE), Exact(TRUE)}
=============================================================================
