------------------------------ MODULE MCAvPath ------------------------------
(* One pair of decoders on one path.                                       *)
EXTENDS AvPath

MCPaths == {0}
MCDecoders == {0}
MCVideo == {256}
MCAudio == {300, 301}
MCAd == {400}
MCSpeeds == {0, 100}
MCPlayFails == {"create", "rate"}
MCAvFails == {"create", "start", "destroy"}
MCVaried == {"sound", "picture", "playback"}
Sound == {"sound"}
NoFails == {}
=============================================================================
