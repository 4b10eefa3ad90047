------------------------- MODULE MCOverlayCapture -------------------------
(***************************************************************************)
(* OverlayCapture on one or two pages with two interchangeable contents.   *)
(***************************************************************************)
EXTENDS OverlayCapture, TLC

ContentSymmetry == Permutations(Contents)
=============================================================================
