----------------------------- MODULE MCUVCStream -----------------------------
(***************************************************************************)
(* Model checking of a stream.  Transfers are interchangeable: they are    *)
(* submitted, reported and deleted in any order.                           *)
(***************************************************************************)
EXTENDS UVCStream, TLC

\* The camera may be unplugged nowhere, at any moment, or only while it streams,
\* between the start and the stop: then no start fails for want of a camera.
Nowhere == {}
Anywhere == OwnerPlaces
WhileStreaming == {"streaming"}

TransferSymmetry == Permutations(Transfers)
=============================================================================
