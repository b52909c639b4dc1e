---------------------------- MODULE MCUVCPreview ----------------------------
(***************************************************************************)
(* Model checking of the preview engine.  Clients and capture threads are  *)
(* interchangeable: no action tells one from another, so the safety runs   *)
(* identify states that differ by a permutation of them.                   *)
(***************************************************************************)
EXTENDS UVCPreviewProps, TLC

ThreadSymmetry == Permutations(Clients) \cup Permutations(CapThreads)
=============================================================================
