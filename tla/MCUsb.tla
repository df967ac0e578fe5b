------------------------------- MODULE MCUsb -------------------------------
(***************************************************************************)
(* The USB host with a low-speed keyboard and a full-speed mouse, and room *)
(* for two addresses.                                                      *)
(***************************************************************************)
EXTENDS UsbHost

TheDevices == {"keyboard", "mouse"}
TheClasses == [d \in TheDevices |-> IF d = "keyboard" THEN "HID_K" ELSE "HID_M"]
=============================================================================
