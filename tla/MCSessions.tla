----------------------------- MODULE MCSessions -----------------------------
(***************************************************************************)
(* Instances of Sessions for TLC.                                          *)
(***************************************************************************)
EXTENDS Sessions, TLC

CONSTANTS b1, b2, s1, s2

OneTab(faults) == [overlap |-> FALSE, faults |-> faults]
TwoTabs(faults) == [overlap |-> TRUE, faults |-> faults]

SessionModes == {OneTab({"expiry", "mail"}), OneTab({"abort"}), TwoTabs({}), TwoTabs({"abort", "expiry"})}

Symmetry == Permutations(Browsers) \cup Permutations(Slots)
=============================================================================
