----------------------------- MODULE MCDataGen -----------------------------
(***************************************************************************)
(* An instance of DataGen for TLC: up to five rows, fractions outside 0..1.*)
(***************************************************************************)
EXTENDS DataGen

MCCounts == -1 .. 5
MCFractions == {-10, 0, 19, 20, 50, 99, 100, 150}
=============================================================================
