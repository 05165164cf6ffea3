------------------------------ MODULE MCUsbCam ------------------------------
(* Instances of UsbCam: one tuner, one or two paths, and buffers of a few  *)
(* chunks with the proportions of the code.                                *)
EXTENDS UsbCam

OneTuner == [t \in {0} |-> 2]
Lengths == {2}
PacketLengths == {1, 2}
LiveCaps == {"live", "usbcam"}
Anything ==
    {"source", "open", "demuxes", "create read", "create write", "info", "header", "data"}
=============================================================================
