----------------------------- MODULE MCOverlay -----------------------------
(* Small instances of Overlay: the hub's site and two others. *)
EXTENDS Overlay
CONSTANTS sh, sa, sb, nh, na, nb
MCSiteOf == [n \in Nodes |-> CASE n = nh -> sh [] n = na -> sa [] OTHER -> sb]
MCCidrs == {1..2, 1..3}
=============================================================================
