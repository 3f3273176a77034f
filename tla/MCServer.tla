------------------------------ MODULE MCServer -------------------------------
(* Values of the constants of Server for TLC. *)
EXTENDS Server, TLC

CONSTANTS p1, p2, c1, c2

MCOnePeer  == {p1}
MCTwoPeers == {p1, p2}
MCNoPeers  == {}
MCSymmetry == Permutations(MCTwoPeers)
MCChips    == {c1, c2}
MCJunk     == {0}
MCNoRaw    == {}
MCRaw      == {"3", "empty"}

\* A finite run of one chip, and a change of the number of triggers alone.
MCFinite  == {[mask |-> {c1}, reads |-> 2, ntrig |-> 1, nsum |-> 0],
              [reads |-> 3, ntrig |-> 2]}
\* Only an endless run.
MCForever == {[reads |-> 1, ntrig |-> -1]}
\* One configuration, unlike the constructor's in everything.
MCOther   == {[mask |-> {c1}, reads |-> 2, ntrig |-> -1, nsum |-> 1]}
=============================================================================
