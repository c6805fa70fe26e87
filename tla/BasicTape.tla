------------------------------ MODULE BasicTape ------------------------------
(***************************************************************************)
(* CSAVE and CLOAD of VGL BASIC (examples/basic/basic.c) against the store  *)
(* of ten slots with its web pages (esp_basic_store.ino).                   *)
(*                                                                          *)
(* The device sends to a buffered UART.  What the store sends is a byte on  *)
(* a wire that the device polls: it is taken at once or lost.  Characters   *)
(* are their codes; a statement is one character.                           *)
(***************************************************************************)
EXTENDS BasicProgram

CONSTANTS
    TapeNumber, TapeText,   \* line numbers and texts that are typed
    Slot,           \* slots that are used, of 0..9
    Page,           \* texts a browser puts into a slot
    LineMax,        \* sizeof(linebuf): 80
    SLOT_MAX_LEN,   \* 2048
    MaxCalls,       \* bound: lines typed, transfers begun, pages sent, resets
    MaxLost         \* bound: bytes the device misses

Char     == 1..255
EOF      == 26
NL       == 10
CR       == 13
SPACE    == 32
LineChar == Char \ {NL, CR, EOF}
SpaceChars == {SPACE, 9}

\* The editor takes printable characters, and store_line gets the text without the
\* spaces in front of it; a page is text of any kind.
ASSUME TypedAssumption ==
    /\ TapeNumber \subseteq Nat /\ \A n \in TapeNumber : n < 65536     \* word
    /\ \A t \in TapeText : t \in Seq(LineChar) /\ (t # <<>> => t[1] \notin SpaceChars)
ASSUME PageAssumption == Page \subseteq Seq(Char)
ASSUME SlotAssumption == Slot \subseteq 0..9 /\ Slot # {}
ASSUME LimitAssumption == LineMax \in Nat \ {0} /\ SLOT_MAX_LEN \in Nat
ASSUME CallAssumption == MaxCalls \in Nat /\ MaxLost \in Nat

VARIABLES
    dev,            \* "prompt", "csave" or "cload"
    out,            \* CSAVE: what it still has to send
    linebuf,        \* CLOAD: the line received so far
    d2e,            \* bytes in the store's UART
    esp,            \* "loop", "digit", "receive" or "send"
    cmd, cur,       \* the command read; the slot of the transfer
    file,           \* receiving: the file so far; sending: what is still to be sent
    slot,           \* slot files
    sent,           \* history: the program that the last CSAVE lists
    kept,           \* history: program whose CSAVE to a slot is complete, or {}
    clean,          \* history: this transfer met an idle store and an idle line
    endMissed,      \* history: the end mark of this load came while nobody listened
    calls, lost     \* bounds

device == <<program, dev, out, linebuf>>
store  == <<esp, cmd, cur, file, slot>>
history == <<sent, kept, clean, endMissed>>
tapeVars == <<device, d2e, store, history, calls, lost>>

Digit(i) == 48 + i
DigitChars == 48..57
CmdS == 83   CmdL == 76

\* A word in decimal: the loops with numbuf, and their reverse in handle_input_line.
Ten == <<1, 10, 100, 1000, 10000>>
Width(n) == CHOOSE w \in 1..5 : (w > 1 => n >= Ten[w]) /\ (w < 5 => n < Ten[w + 1])
Digits(n) == LET w == Width(n) IN [k \in 1..w |-> Digit((n \div Ten[w - k + 1]) % 10)]
AddDigit(n, c) == (n * 10 + (c - Digit(0))) % 65536
ReadNumber(s) ==
    LET value[i \in 0..Len(s)] == IF i = 0 THEN 0 ELSE AddDigit(value[i - 1], s[i])
    IN value[Len(s)]

\* The listing that CSAVE sends: number, space, text and newline of each line.
ListLine(ln, text) == Digits(ln) \o <<SPACE>> \o text \o <<NL>>
Listing(prog) ==
    LET from[a \in 0..Len(prog)] ==
            IF a >= ProgramLen(prog) THEN <<>>
            ELSE ListLine(LineNumber(prog, a), TextAt(prog, a))
                    \o from[a + EntryLen(prog, a)]
    IN from[0]

\* handle_input_line: a numbered line is stored.  A line without number is executed;
\* the lines of a tape that do so are left out, but for what is not a statement.
SplitAfter(s, chars) ==
    LET n == CHOOSE i \in 0..Len(s) :
                /\ \A k \in 1..i : s[k] \in chars
                /\ i < Len(s) => s[i + 1] \notin chars
    IN <<SubSeq(s, 1, n), SubSeq(s, n + 1, Len(s))>>
HandleLine(prog, line) ==
    LET start  == SplitAfter(line, SpaceChars)[2]
        number == SplitAfter(start, DigitChars)
    IN IF number[1] = <<>> THEN prog
       ELSE StoreLine(prog, ReadNumber(number[1]), SplitAfter(number[2], SpaceChars)[2])

TapeInit ==
    /\ program = EmptyProgram /\ dev = "prompt" /\ out = <<>> /\ linebuf = <<>>
    /\ d2e = <<>>
    /\ esp = "loop" /\ cmd = CmdS /\ cur = 0 /\ file = <<>>
    /\ slot = [s \in Slot |-> <<>>]
    /\ sent = EmptyProgram
    /\ kept = [s \in Slot |-> {}]
    /\ clean = TRUE /\ endMissed = FALSE
    /\ calls = 0 /\ lost = 0

-----------------------------------------------------------------------------
\* The device.

Call == dev = "prompt" /\ calls < MaxCalls /\ calls' = calls + 1

\* The editor takes LineMax - 1 characters; the space behind the number may be left out.
Type(ln, text) ==
    /\ Call
    /\ Len(Digits(ln)) + Len(text) < LineMax
    /\ program' = StoreLine(program, ln, text)
    /\ UNCHANGED <<dev, out, linebuf, d2e, store, history, lost>>

Idle == esp = "loop" /\ d2e = <<>>

\* do_csave: the whole output, sent byte by byte by SendByte.
CSave(s) ==
    /\ Call
    /\ dev' = "csave"
    /\ out' = <<CmdS, Digit(s)>> \o Listing(program) \o <<EOF>>
    /\ clean' = Idle /\ sent' = program
    /\ UNCHANGED <<program, linebuf, d2e, store, kept, endMissed, lost>>

\* do_cload that forgets do_new.
CLoad_KeepsProgram(s) ==
    /\ Call
    /\ dev' = "cload"
    /\ out' = <<CmdL, Digit(s)>>
    /\ linebuf' = <<>>
    /\ clean' = Idle /\ endMissed' = FALSE
    /\ UNCHANGED <<program, d2e, store, sent, kept, lost>>

\* do_cload, up to its loop.
CLoad(s) ==
    /\ Call
    /\ dev' = "cload"
    /\ out' = <<CmdL, Digit(s)>>
    /\ program' = EmptyProgram
    /\ linebuf' = <<>>
    /\ clean' = Idle /\ endMissed' = FALSE
    /\ UNCHANGED <<d2e, store, sent, kept, lost>>

\* softuart_sendByte.
SendByte ==
    /\ out # <<>>
    /\ d2e' = Append(d2e, Head(out))
    /\ out' = Tail(out)
    /\ dev' = IF dev = "csave" /\ Len(out) = 1 THEN "prompt" ELSE dev
    /\ UNCHANGED <<program, linebuf, store, history, calls, lost>>

\* The loop of do_cload for one byte received.
Takes(c) ==
    /\ dev' = IF c = EOF THEN "prompt" ELSE "cload"
    /\ program' = IF c = NL THEN HandleLine(program, linebuf) ELSE program
    /\ linebuf' = CASE c = NL -> <<>>
                    [] c \in {CR, EOF} -> linebuf
                    [] OTHER -> IF Len(linebuf) < LineMax - 1 THEN Append(linebuf, c)
                                ELSE linebuf
    /\ UNCHANGED out

\* Any key, while no byte comes.
Cancel ==
    /\ dev = "cload" /\ out = <<>>
    /\ dev' = "prompt"
    /\ calls < MaxCalls /\ calls' = calls + 1
    /\ UNCHANGED <<program, out, linebuf, d2e, store, history, lost>>

\* Switched off and on, or reset: the program is gone.
Reset ==
    /\ dev # "prompt"
    /\ calls < MaxCalls /\ calls' = calls + 1
    /\ dev' = "prompt" /\ program' = EmptyProgram /\ out' = <<>> /\ linebuf' = <<>>
    /\ UNCHANGED <<d2e, store, history, lost>>

-----------------------------------------------------------------------------
\* The store.

\* handleSerialProtocol
ReadCommand ==
    /\ esp = "loop" /\ d2e # <<>>
    /\ d2e' = Tail(d2e)
    /\ IF Head(d2e) \in {CmdS, CmdL}
       THEN esp' = "digit" /\ cmd' = Head(d2e)
       ELSE UNCHANGED <<esp, cmd>>
    /\ UNCHANGED <<device, cur, file, slot, history, calls, lost>>

\* sendProgramFromSlot that sends nothing where there is no file.
ReadSlotDigit_NoEof ==
    /\ esp = "digit" /\ d2e # <<>>
    /\ d2e' = Tail(d2e)
    /\ LET n == Head(d2e) - Digit(0)
       IN IF n \notin Slot \/ (cmd = CmdL /\ slot[n] = <<>>)
          THEN esp' = "loop" /\ UNCHANGED <<cur, file, kept>>
          ELSE /\ cur' = n
               /\ esp' = IF cmd = CmdS THEN "receive" ELSE "send"
               /\ file' = IF cmd = CmdS THEN <<>> ELSE Append(slot[n], EOF)
               /\ kept' = IF cmd = CmdS THEN [kept EXCEPT ![n] = {}] ELSE kept
    /\ UNCHANGED <<device, cmd, slot, sent, clean, endMissed, calls, lost>>

\* readSlotDigit, and the open that empties the file or finds it.
ReadSlotDigit ==
    /\ esp = "digit" /\ d2e # <<>>
    /\ d2e' = Tail(d2e)
    /\ LET n == Head(d2e) - Digit(0)
       IN IF n \notin Slot
          THEN esp' = "loop" /\ UNCHANGED <<cur, file, kept>>
          ELSE /\ cur' = n
               /\ esp' = IF cmd = CmdS THEN "receive" ELSE "send"
               /\ file' = IF cmd = CmdS THEN <<>> ELSE Append(slot[n], EOF)
               /\ kept' = IF cmd = CmdS THEN [kept EXCEPT ![n] = {}] ELSE kept
    /\ UNCHANGED <<device, cmd, slot, sent, clean, endMissed, calls, lost>>

\* Nothing came for half a second, or five: the device sends no more.
Quiet == d2e = <<>> /\ out = <<>>

NoDigit ==
    /\ esp = "digit" /\ Quiet
    /\ esp' = "loop"
    /\ UNCHANGED <<device, d2e, cmd, cur, file, slot, history, calls, lost>>

\* receiveProgramToSlot: up to SLOT_MAX_LEN bytes are written.
Receive ==
    /\ esp = "receive" /\ d2e # <<>>
    /\ d2e' = Tail(d2e)
    /\ IF Head(d2e) = EOF
       THEN /\ esp' = "loop" /\ slot' = [slot EXCEPT ![cur] = file]
            /\ kept' = IF clean THEN [kept EXCEPT ![cur] = {sent}] ELSE kept
            /\ UNCHANGED file
       ELSE /\ file' = IF Len(file) < SLOT_MAX_LEN THEN Append(file, Head(d2e)) ELSE file
            /\ UNCHANGED <<esp, slot, kept>>
    /\ UNCHANGED <<device, cmd, cur, sent, clean, endMissed, calls, lost>>

\* The timeout of five seconds: what came so far is the file.
GiveUp ==
    /\ esp = "receive" /\ Quiet
    /\ esp' = "loop" /\ slot' = [slot EXCEPT ![cur] = file]
    /\ UNCHANGED <<device, d2e, cmd, cur, file, history, calls, lost>>

\* sendProgramFromSlot: the byte is taken, or nobody waits for it.
Send ==
    /\ esp = "send"
    /\ file' = Tail(file)
    /\ esp' = IF Len(file) = 1 THEN "loop" ELSE "send"
    /\ IF dev = "cload" /\ out = <<>> THEN Takes(Head(file)) ELSE UNCHANGED device
    /\ UNCHANGED <<d2e, cmd, cur, slot, history, calls, lost>>

\* The device is still storing the last line, or looks for a key before the first one, and
\* misses the byte, be it the end mark.
Miss ==
    /\ esp = "send" /\ dev = "cload" /\ linebuf = <<>>
    /\ lost < MaxLost /\ lost' = lost + 1
    /\ file' = Tail(file)
    /\ esp' = IF Len(file) = 1 THEN "loop" ELSE "send"
    /\ clean' = FALSE /\ endMissed' = (Head(file) = EOF)
    /\ UNCHANGED <<device, d2e, cmd, cur, slot, sent, kept, calls>>

\* handleSlot (POST) and handleDelete: served in loop, and in a transfer to the store
\* while no byte waits.  The file of that transfer is written over when it is closed.
WebServed == esp = "loop" \/ (esp = "receive" /\ d2e = <<>>)
Web(s, text) ==
    /\ WebServed
    /\ calls < MaxCalls /\ calls' = calls + 1
    /\ slot' = [slot EXCEPT ![s] = text]
    /\ kept' = [kept EXCEPT ![s] = {}]
    /\ UNCHANGED <<device, d2e, esp, cmd, cur, file, sent, clean, endMissed, lost>>

Device == \/ \E ln \in TapeNumber, text \in TapeText : Type(ln, text)
          \/ \E s \in Slot : CSave(s) \/ CLoad(s)
          \/ SendByte \/ Cancel \/ Reset
Store  == \/ ReadCommand \/ ReadSlotDigit \/ NoDigit \/ Receive \/ GiveUp \/ Send
TapeNext == Device \/ Store \/ Miss \/ \E s \in Slot, text \in Page : Web(s, text)

TapeSpec == TapeInit /\ [][TapeNext]_tapeVars
\* The store's loop goes on; so does the device with what it sends.
TapeFairSpec == TapeSpec /\ WF_tapeVars(Store) /\ WF_tapeVars(SendByte)

-----------------------------------------------------------------------------
\* Types, and the line buffer with room for its zero.
TapeTypeOK ==
    /\ dev \in {"prompt", "csave", "cload"} /\ esp \in {"loop", "digit", "receive", "send"}
    /\ dev = "csave" => out # <<>>
    /\ Len(linebuf) < LineMax
    /\ esp = "receive" => Len(file) <= SLOT_MAX_LEN
    /\ esp = "send" => file # <<>>
    /\ WellFormed(program)
    /\ cur \in 0..9 /\ calls \in 0..MaxCalls /\ lost \in 0..MaxLost

\* A line that the editor took without a space has one more character in a listing,
\* too much for linebuf if it was as long as can be.
Listable(prog) ==
    \A a \in LineStarts(prog) :
        Len(ListLine(LineNumber(prog, a), TextAt(prog, a))) <= LineMax

\* What CLOAD reports as loaded is the program that CSAVE kept in the slot: all of it
\* if its listing fits a slot, else its first lines, none of them damaged.  Not so
\* after a transfer that began while the store was busy with an earlier one.
LoadedIsKept ==
    [][ \A prog \in kept[cur] :
            Send /\ Head(file) = EOF /\ dev = "cload" /\ out = <<>> /\ clean /\ Listable(prog) =>
                LET was == LinesOf(prog)
                    is  == LinesOf(program')
                IN /\ \A n \in DOMAIN is : n \in DOMAIN was /\ is[n] = was[n]
                   /\ \A n \in DOMAIN was, m \in DOMAIN is : n <= m => n \in DOMAIN is
                   /\ Len(Listing(prog)) <= SLOT_MAX_LEN => is = was ]_tapeVars

\* A CLOAD that finds the store idle does not wait for ever, unless its end mark came while
\* it was still storing the last line: then it waits for a key.
LoadEnds == dev = "cload" /\ clean ~> dev = "prompt" \/ endMissed
=============================================================================
