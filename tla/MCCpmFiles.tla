----------------------------- MODULE MCCpmFiles -----------------------------
(* Values of CpmFiles' constants for TLC.                                  *)
EXTENDS CpmFiles

F(n, sp, size) == [name |-> n, spelled |-> sp, size |-> size]

\* CCP has an extension of three characters; ZORK has a shorter one, which the host
\* lists as ZORK0.
MCName    == {"CCP", "ZORK", "ZORK0"}
MCZeroed  == [n \in MCName |-> IF n = "ZORK" THEN "ZORK0" ELSE n]
MCAny     == {AnyName}
MCNone    == {}
\* A file of a record and a part, and one of a record, found in lower case.
MCSmall   == <<<<F("CCP", "exact", 200), F("ZORK", "lower", 128)>>>>
\* The largest file of one module.
MCNear    == <<<<F("CCP", "exact", 524287)>>>>
=============================================================================
