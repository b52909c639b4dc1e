---------------------------- MODULE MCUVCCamera ------------------------------
(***************************************************************************)
(* Model checking of a camera's life.                                      *)
(***************************************************************************)
EXTENDS UVCCamera
=============================================================================
