------------------------------ MODULE MCReadout ------------------------------
(* Values of the constants of Readout for TLC. *)
EXTENDS Readout

CONSTANTS c1, c2

MCChips     == {c1, c2}
MCBit       == [c \in MCChips |-> IF c = c1 THEN 0 ELSE 1]
\* Runs of both chips, of one and of none, of different depth, finite and endless,
\* with and without sums.
MCRuns == {[mask |-> {c1, c2}, reads |-> 2, ntrig |-> 2, nsum |-> 0],
           [mask |-> {c2},     reads |-> 3, ntrig |-> -1, nsum |-> 0],
           [mask |-> {c1, c2}, reads |-> 2, ntrig |-> -1, nsum |-> 1],
           [mask |-> {c1},     reads |-> 1, ntrig |-> 3, nsum |-> 1],
           [mask |-> {},       reads |-> 2, ntrig |-> 2, nsum |-> 0],
           [mask |-> {},       reads |-> 2, ntrig |-> 2, nsum |-> 1]}
=============================================================================
