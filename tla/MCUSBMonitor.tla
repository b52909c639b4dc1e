---------------------------- MODULE MCUSBMonitor ----------------------------
(***************************************************************************)
(* Model checking of the monitor: all cameras are of one type, so they     *)
(* share the key under which permissions are kept.                         *)
(***************************************************************************)
EXTENDS USBMonitor

CONSTANT TheKey

SameKey == [d \in Devices |-> TheKey]
=============================================================================
