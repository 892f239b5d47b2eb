---------------------------- MODULE MCDeviceLogin ----------------------------
(* DeviceLogin for TLC. *)
EXTENDS DeviceLogin
=============================================================================
