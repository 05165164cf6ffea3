---------------------------- MODULE MCPvrRecorder ----------------------------
(* Two recorders, of an audio and a video track each, and three channels,  *)
(* so that one may not be had.                                             *)
EXTENDS PvrRecorder

MCRecorders == {0, 1}
MCChans == {0, 1, 2}
MCAudio == {300}
MCStartFails == {"create", "start"}
=============================================================================
