---------------------------- MODULE MCUVCPayload -----------------------------
(***************************************************************************)
(* Model checking of the cutting of packets into frames.                   *)
(***************************************************************************)
EXTENDS UVCPayload
=============================================================================
