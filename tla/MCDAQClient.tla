----------------------------- MODULE MCDAQClient -----------------------------
(* Values of the constants of DAQClient for TLC. *)
EXTENDS DAQClient

\* A finite run, an endless one, and none.
MCRunLengths == {0, 4, -1}
MCEvents     == 1 .. 4
MCSizes      == {1, 2}
=============================================================================
