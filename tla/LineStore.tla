------------------------------ MODULE LineStore ------------------------------
(***************************************************************************)
(* What the program store of VGL BASIC (examples/basic/basic.c) promises:   *)
(* numbered lines, each with its text, of limited total size.  A command    *)
(* edits the line it names, or replaces all lines by none or by the saved   *)
(* ones.                                                                    *)
(***************************************************************************)
EXTENDS Integers, Sequences, FiniteSets, FiniteSetsExt

CONSTANTS Number, Text, Capacity

VARIABLES
    lines,      \* the program: the text of each line number in use
    saved,      \* {} or, once SAVE has made it, {the copy}
    command     \* the last command: its name and what it was given

\* A line takes two bytes for its number, one for each character, one for the end.
Size(t)    == Len(t) + 3
Used(prog) == MapThenSumSet(LAMBDA n : Size(prog[n]), DOMAIN prog)
Without(prog, n) == [k \in DOMAIN prog \ {n} |-> prog[k]]
With(prog, n, t) == [k \in DOMAIN prog \cup {n} |-> IF k = n THEN t ELSE prog[k]]
Empty == [n \in {} |-> <<>>]

NoCommand == <<"none">>

Init == lines = Empty /\ saved = {} /\ command = NoCommand

\* The line n is to have the text t, no text removing it.  The old line is gone even
\* where there is no room for the new one.
Edit(n, t) ==
    LET others == Without(lines, n)
    IN /\ command' = <<"edit", n, t>>
       /\ lines' = IF t = <<>> \/ Used(others) + Size(t) > Capacity THEN others
                   ELSE With(others, n, t)
       /\ UNCHANGED saved

Clear   == command' = <<"clear">> /\ lines' = Empty /\ UNCHANGED saved
Keep    == command' = <<"keep">> /\ saved' = {lines} /\ UNCHANGED lines
Restore == /\ command' = <<"restore">>
           /\ lines' \in (IF saved = {} THEN {lines} ELSE saved)
           /\ UNCHANGED saved

\* Anything else leaves the lines as they are.
Other == command' = NoCommand /\ UNCHANGED <<lines, saved>>

Next ==
    \/ \E n \in Number, t \in Text \cup {<<>>} : Edit(n, t)
    \/ Clear
    \/ Keep
    \/ Restore
    \/ Other

Spec == Init /\ [][Next]_<<lines, saved, command>>
=============================================================================
