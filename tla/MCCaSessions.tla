---------------------------- MODULE MCCaSessions ----------------------------
(* A live service, a recording and playback, whose PMTs have a descriptor  *)
(* for the service, one for a stream, or none.                             *)
EXTENDS CaSessions

MCLive == {"live"}
MCRec == {"rec"}
MCFails == {"open", "register", "start", "stop", "close"}

Ca(len, id, pid) == [tag |-> "CA", len |-> len, ca_id |-> id, ca_pid |-> pid]
Other == [tag |-> "other", len |-> 4, ca_id |-> 0, ca_pid |-> 0]
Stream(es, loop) == [es |-> es, loop |-> loop]

(* System 7 is not supported, and a descriptor of 2 bytes says nothing.    *)
MCSupported == {5}
MCPmts == {[loop |-> <<Other, Ca(4, 7, 9), Ca(8, 5, 1)>>,
            streams |-> <<Stream(256, <<>>), Stream(257, <<Ca(4, 5, 2)>>)>>],
           [loop |-> <<Ca(4, 5, 1)>>, streams |-> <<>>],
           [loop |-> <<Ca(2, 5, 1)>>,
            streams |-> <<Stream(256, <<Ca(4, 7, 3)>>), Stream(257, <<Ca(4, 5, 2)>>)>>],
           [loop |-> <<>>, streams |-> <<Stream(256, <<>>)>>]}
=============================================================================
