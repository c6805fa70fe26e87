------------------------------- MODULE MCBasic -------------------------------
(***************************************************************************)
(* Programs of up to three lines over ten statements.  Line 256 has a zero  *)
(* as the low byte of its number.  The FOR loops count up with a limit that *)
(* wraps, up, and down; typed at the prompt, one whose start wraps too.     *)
(***************************************************************************)
EXTENDS Basic

MCStmt ==
    65 :> [op |-> "plain"] @@
    66 :> [op |-> "end"] @@
    67 :> [op |-> "goto", ln |-> 20] @@
    68 :> [op |-> "gosub", ln |-> 20] @@
    69 :> [op |-> "return"] @@
    70 :> [op |-> "for", start |-> 1, limit |-> 2, step |-> 1] @@
    71 :> [op |-> "for", start |-> 3, limit |-> 0, step |-> -2] @@
    72 :> [op |-> "next"] @@
    73 :> [op |-> "if", ln |-> 256] @@
    74 :> [op |-> "load"] @@
    75 :> [op |-> "save"] @@
    76 :> [op |-> "new"] @@
    77 :> [op |-> "for", start |-> 2, limit |-> 3, step |-> 1] @@
    78 :> [op |-> "for", start |-> 3, limit |-> 0, step |-> 1]
MCText == {<<68>>, <<65, 69>>, <<70>>, <<72>>, <<71, 67>>, <<73, 76>>, <<74, 66>>, <<77, 75>>}
MCDirect == {68, 69, 72, 78}
MCNumber == {10, 20, 256}
=============================================================================
