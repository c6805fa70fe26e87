------------------------------ MODULE FileStream ------------------------------
(***************************************************************************)
(* What the file functions of include/fileio/fileio.h promise of one file   *)
(* of one file system: a file that is open is read from its beginning, each *)
(* read continues where the last one ended, feof tells whether all of it    *)
(* has been read, and a read returns nothing only there.                    *)
(***************************************************************************)
EXTENDS Integers

CONSTANTS Name, Size(_)     \* the files, and the number of bytes in each

VARIABLES
    name,       \* the file that is open, or "none"
    got,        \* how much of it has been read
    chunk,      \* what the last read returned: file, first byte, number of bytes
    ended       \* what feof last said of this file, or "unknown"

Nothing == [name |-> "none", ofs |-> 0, len |-> 0]

Init == name = "none" /\ got = 0 /\ chunk = Nothing /\ ended = "unknown"

Open ==
    /\ name = "none" /\ name' \in Name
    /\ got' = 0 /\ chunk' = Nothing /\ ended' = "unknown"

Read ==
    /\ name # "none"
    /\ \E n \in 0..Size(name) - got :
        /\ n = 0 => got = Size(name)
        /\ got' = got + n /\ chunk' = [name |-> name, ofs |-> got, len |-> n]
    /\ ended' = "unknown" /\ UNCHANGED name

Eof ==
    /\ name # "none"
    /\ ended' = IF got = Size(name) THEN "end" ELSE "more"
    /\ UNCHANGED <<name, got, chunk>>

Close ==
    /\ name' = "none"
    /\ got' = 0 /\ chunk' = Nothing /\ ended' = "unknown"

Next == Open \/ Read \/ Eof \/ Close
Spec == Init /\ [][Next]_<<name, got, chunk, ended>>
=============================================================================
