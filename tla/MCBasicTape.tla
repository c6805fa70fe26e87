----------------------------- MODULE MCBasicTape -----------------------------
(***************************************************************************)
(* Three lines of one or two statements fill the program; their listing is *)
(* longer than a slot.  A page has an edited line, with a return in front   *)
(* of the newline, and a last line without one.                             *)
(***************************************************************************)
EXTENDS BasicTape

MCNumber == {5, 20, 256}
MCText == {<<65>>, <<66, 67>>}
MCPage == {<<>>, <<50, 48, 32, 65, 13, 10, 53, 32, 66>>}
=============================================================================
