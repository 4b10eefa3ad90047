---------------------------- MODULE MCStateSync ----------------------------
(***************************************************************************)
(* StateSync with the smallest input delay, two cards, and slots that are  *)
(* empty, equal or different when the match starts.                        *)
(***************************************************************************)
EXTENDS StateSync

Pair(a, b) == [p \in Peers |-> IF p = "host" THEN a ELSE b]

MCCards == {Pair("c1", "c1"), Pair("c1", "c2"), Pair("c1", Off)}
MCSlots == {Pair(<<7>>, <<8>>), Pair(<<7>>, NoFile)}
=============================================================================
