------------------------------ MODULE MCSGRing ------------------------------
(* Values of the constants of SGRing for TLC. *)
EXTENDS SGRing

\* One read and several.
MCDepths == {1, 3}
=============================================================================
