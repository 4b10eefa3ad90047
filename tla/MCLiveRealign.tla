--------------------------- MODULE MCLiveRealign ---------------------------
(* LiveRealign for TLC: a ring of three slots, interval snapshots every    *)
(* three ticks, a dense window of one.                                     *)
EXTENDS LiveRealign
=============================================================================
