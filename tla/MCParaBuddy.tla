---------------------------- MODULE MCParaBuddy ----------------------------
(* Values of ParaBuddy's constants for TLC.                                *)
EXTENDS ParaBuddy

\* Two entries, so that one can be skipped; two pieces, so that one can be missed.
MCSize == [k \in Kind |-> 2]
=============================================================================
