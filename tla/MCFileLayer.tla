---------------------------- MODULE MCFileLayer ----------------------------
(* Values of FileLayer's constants for TLC.                                *)
EXTENDS FileLayer

\* A file that takes two reads or answers, on "int" as well, and an empty one.
MCIntDir   == <<[name |-> "hello", size |-> 3]>>
MCHostSize == [n \in {"hello", "void"} |-> IF n = "hello" THEN 3 ELSE 0]
MCMissing  == {"lost"}
=============================================================================
