--------------------------- MODULE MCAutocompile ---------------------------
(***************************************************************************)
(* Autocompile with the code's own limits where they matter (one ready     *)
(* slot) and small counters elsewhere.                                     *)
(***************************************************************************)
EXTENDS Autocompile
=============================================================================
