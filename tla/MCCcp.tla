-------------------------------- MODULE MCCcp --------------------------------
(* Values of Ccp's constants for TLC.                                      *)
EXTENDS Ccp

\* A short program and a longer one, so that an old record can stay behind.
MCProgram == {"DUMP", "ZORK"}
MCRecords == [p \in MCProgram |-> IF p = "DUMP" THEN 1 ELSE 2]
=============================================================================
