--------------------------- MODULE MCHashConfirm ---------------------------
(***************************************************************************)
(* HashConfirm with rings of two slots and interchangeable digests.        *)
(***************************************************************************)
EXTENDS HashConfirm, TLC

DigestSymmetry == Permutations(Digests)
=============================================================================
