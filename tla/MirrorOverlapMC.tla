--------------------------- MODULE MirrorOverlapMC ---------------------------
(***************************************************************************)
(* The instances of MirrorPipelineMC, with the history variable of         *)
(* MirrorOverlap.                                                          *)
(***************************************************************************)
EXTENDS MirrorPipelineMC, MirrorOverlap
=============================================================================
