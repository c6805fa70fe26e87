---------------------------- MODULE BasicProgram -----------------------------
(***************************************************************************)
(* The program text of VGL BASIC in memory (examples/basic/basic.c): lines  *)
(* one after the other, each a line number in two bytes, low byte first,    *)
(* its text and a zero; two bytes for an end marker after the last line.    *)
(*                                                                          *)
(* A program is the sequence of the bytes program[0] .. program[program_len *)
(* + 1]; the bytes above, left over from longer programs, are not there, so *)
(* that reading them would be an error of the model.  The end marker is     *)
(* whatever lies in its place.  A whole statement is one character of text. *)
(* Addresses count from 0 as in the code.                                   *)
(***************************************************************************)
EXTENDS Integers, FiniteSets, Sequences, FiniteSetsExt, SequencesExt

CONSTANT PROGRAM_SIZE       \* bytes reserved for the program

ASSUME SizeAssumption == PROGRAM_SIZE \in Nat /\ PROGRAM_SIZE >= 2

VARIABLE program            \* the program in memory

NoLine == -1                            \* NULL
EmptyProgram == <<0, 0>>
ProgramLen(prog) == Len(prog) - 2       \* program_len
Cell(prog, a)    == prog[a + 1]

\* The zero that ends the text of a line at a, and the length of the line with its
\* number and its end.  Where there is no line and no zero the last byte counts as one:
\* entry_len leads behind the end of the program in either case.
EndOf(prog, a) ==
    CHOOSE z \in (a + 2)..(Len(prog) - 1) :
        /\ Cell(prog, z) = 0 \/ z = Len(prog) - 1
        /\ \A y \in (a + 2)..(z - 1) : Cell(prog, y) # 0
EntryLen(prog, a) == EndOf(prog, a) - a + 1

LineNumber(prog, a) == Cell(prog, a) + 256 * Cell(prog, a + 1)
TextAt(prog, a)     == SubSeq(prog, a + 3, a + EntryLen(prog, a) - 1)

\* The walk from line to line: the first one numbered ln or above, or the end.
FirstNotBelow(prog, ln) ==
    LET from[a \in 0..Len(prog)] ==
            IF a >= ProgramLen(prog) \/ LineNumber(prog, a) >= ln THEN a
            ELSE from[a + EntryLen(prog, a)]
    IN from[0]

FindLine(prog, ln) ==
    LET from[a \in 0..Len(prog)] ==
            IF a >= ProgramLen(prog) THEN NoLine
            ELSE IF LineNumber(prog, a) = ln THEN a
            ELSE from[a + EntryLen(prog, a)]
    IN from[0]

\* The addresses at which a line begins.
LineStarts(prog) ==
    LET from[a \in 0..Len(prog)] ==
            IF a >= ProgramLen(prog) THEN {} ELSE {a} \cup from[a + EntryLen(prog, a)]
    IN from[0]

Entry(ln, text) == <<ln % 256, ln \div 256>> \o text \o <<0>>

\* memmove of the lines behind: the end marker stays where it was, so that the bytes
\* behind the shortened program are those that lay there before.
CutOut(prog, a, n) ==
    LET len == ProgramLen(prog)
    IN SubSeq(prog, 1, a) \o SubSeq(prog, a + n + 1, len) \o SubSeq(prog, len - n + 1, len - n + 2)
PutIn(prog, a, bytes) == SubSeq(prog, 1, a) \o bytes \o SubSeq(prog, a + 1, Len(prog))

\* The end marker is written.
Closed(prog) == SubSeq(prog, 1, ProgramLen(prog)) \o <<0, 0>>

WithoutLine(prog, ln) ==
    LET a == FirstNotBelow(prog, ln)
    IN IF a < ProgramLen(prog) /\ LineNumber(prog, a) = ln
       THEN CutOut(prog, a, EntryLen(prog, a))
       ELSE prog

\* store_line without its test for room.
StoreLine_NoRoomTest(prog, ln, text) ==
    LET rest == WithoutLine(prog, ln)
    IN Closed(IF text = <<>> THEN rest ELSE PutIn(rest, FirstNotBelow(prog, ln), Entry(ln, text)))

\* store_line that makes its test for room with the old line still counted.
StoreLine_OldCounted(prog, ln, text) ==
    LET rest == WithoutLine(prog, ln)
    IN IF text = <<>> THEN Closed(rest)
       ELSE IF ProgramLen(prog) + Len(text) + 3 > PROGRAM_SIZE - 2 THEN rest
       ELSE Closed(PutIn(rest, FirstNotBelow(prog, ln), Entry(ln, text)))

\* store_line: the old line of this number goes first; then the new one comes to the
\* same place, if it has any text and there is room.  Where there is no room the end
\* marker is not written.
StoreLine(prog, ln, text) ==
    LET rest == WithoutLine(prog, ln)
    IN IF text = <<>> THEN Closed(rest)
       ELSE IF ProgramLen(rest) + Len(text) + 3 > PROGRAM_SIZE - 2 THEN rest
       ELSE Closed(PutIn(rest, FirstNotBelow(prog, ln), Entry(ln, text)))

\* The lines that the bytes stand for.
LinesOf(prog) ==
    LET starts == LineStarts(prog)
    IN [ln \in {LineNumber(prog, a) : a \in starts} |->
            TextAt(prog, CHOOSE a \in starts : LineNumber(prog, a) = ln)]

\* Lines in ascending order, none twice, each with a text, and room for the end marker.
WellFormed(prog) ==
    /\ Len(prog) \in 2..PROGRAM_SIZE
    /\ \A a, b \in LineStarts(prog) : a < b => LineNumber(prog, a) < LineNumber(prog, b)
    /\ \A a \in LineStarts(prog) : TextAt(prog, a) # <<>>

\* The end marker is in its place.
Terminated(prog) == Cell(prog, ProgramLen(prog)) = 0 /\ Cell(prog, ProgramLen(prog) + 1) = 0

=============================================================================
