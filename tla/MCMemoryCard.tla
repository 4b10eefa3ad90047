---------------------------- MODULE MCMemoryCard ----------------------------
(***************************************************************************)
(* MemoryCard with three sectors and one card of the host.                 *)
(***************************************************************************)
EXTENDS MemoryCard

MCHostCards == {[i \in 1..Sectors |-> "h"]}
=============================================================================
