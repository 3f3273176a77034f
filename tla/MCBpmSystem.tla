----------------------------- MODULE MCBpmSystem -----------------------------
(* Values of the constants of BpmSystem for TLC. *)
EXTENDS BpmSystem

CONSTANTS p1, p2, c1, c2

MCTwo   == {p1, p2}
MCNone  == {}
MCAborts == {"config", "start"}
MCJunk  == {0}
MCChips == {c1, c2}

\* Two runs that can be told apart, triggered and summing.
MCRuns == {[mask |-> {c1}, reads |-> 2, ntrig |-> 2, nsum |-> 0],
           [reads |-> 3, ntrig |-> 1, nsum |-> 1]}
=============================================================================
