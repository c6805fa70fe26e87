-------------------------------- MODULE Basic --------------------------------
(***************************************************************************)
(* VGL BASIC (examples/basic/basic.c): the prompt, the program store with   *)
(* SAVE and LOAD, and the RUN loop with GOTO, GOSUB, FOR and IF, whose      *)
(* stacks hold addresses of lines.                                          *)
(*                                                                          *)
(* A text is a sequence of statements; Stmt says what a statement is.       *)
(* Values of variables other than the FOR loops' are left out: a condition  *)
(* is either true or false, any other statement that changes no control is  *)
(* "plain".                                                                 *)
(***************************************************************************)
EXTENDS BasicProgram

CONSTANTS
    Number,             \* line numbers that are typed
    Text,               \* texts of lines that are typed
    Stmt,               \* character -> the statement it stands for
    Direct,             \* characters of Stmt that are typed without a line number
    FOR_STACK_MAX,      \* 6
    GOSUB_STACK_MAX,    \* 8
    IntMax,             \* 32767, the largest int
    MaxTyped            \* bound: commands typed

ASSUME NumberAssumption == Number \subseteq Nat /\ \A n \in Number : n < 65536     \* word
ASSUME TextAssumption == Text \subseteq Seq(DOMAIN Stmt) /\ <<>> \notin Text
ASSUME StmtAssumption ==
    \* a character is no byte of a line number: what runs after a jump to a wrong
    \* address is seen as such
    /\ DOMAIN Stmt \subseteq Nat \ {0} /\ Direct \subseteq DOMAIN Stmt
    /\ \A n \in Number : {n % 256, n \div 256} \cap DOMAIN Stmt = {}
    \* parse_expr returns an int
    /\ \A c \in DOMAIN Stmt : Stmt[c].op = "for" =>
           {Stmt[c].start, Stmt[c].limit, Stmt[c].step} \subseteq (-IntMax - 1)..IntMax
ASSUME StackAssumption == FOR_STACK_MAX \in Nat /\ GOSUB_STACK_MAX \in Nat
ASSUME BoundAssumption == IntMax \in Nat /\ MaxTyped \in Nat

VARIABLES
    saved,              \* the program that SAVE keeps; NotSaved: has_saved = 0
    mode,               \* "run" inside do_run, else "prompt"
    p, stp,             \* in do_run: the line (line_start too) and the next statement
    forStack,           \* for_stack[0 .. for_sp - 1]
    gosubStack,         \* gosub_stack[0 .. gosub_sp - 1]
    loaded,             \* history: LOAD has replaced the program in this run
    command,            \* history: the last command, as LineStore has it
    typed               \* bound: commands typed so far

vars == <<program, saved, mode, p, stp, forStack, gosubStack, loaded, command, typed>>
control == <<mode, p, stp>>
stacks  == <<forStack, gosubStack>>

NotSaved == <<>>
NoCommand == <<"none">>
Wild     == -2          \* an address computed from no line: line_start outside a run

Wrap(i) == (((i + IntMax + 1) % (2 * IntMax + 2)) - IntMax) - 1

\* NEXT that only compares for the last round.
GoesRound_LimitOnce(f, c) == f.step # 0 /\ c # f.limit + f.step

\* do_next: the counter wraps before it is compared.
GoesRound(f, c) == \/ f.step > 0 /\ c <= f.limit
                   \/ f.step < 0 /\ c >= f.limit

\* "line" is history: the number of the line that pushed the frame.
ForFrame   == [cur : (-IntMax - 1)..IntMax, start : Int, limit : Int, step : Int,
               body : Int, line : Int]
GosubFrame == [ret : Int, line : Int]

Init ==
    /\ program = EmptyProgram /\ saved = NotSaved
    /\ mode = "prompt" /\ p = 0 /\ stp = 0
    /\ forStack = <<>> /\ gosubStack = <<>>
    /\ loaded = FALSE
    /\ command = NoCommand
    /\ typed = 0

Stop == mode' = "prompt" /\ p' = 0 /\ stp' = 0

\* The head of do_run's loop: the line at a, or the end of the program.
GoOn(prog, a) ==
    IF a < ProgramLen(prog)
    THEN mode' = "run" /\ p' = a /\ stp' = a + 2
    ELSE Stop

\* The end of a line: p + entry_len(p), which is at the end if p is.
NextLine(prog) == IF p < ProgramLen(prog) THEN p + EntryLen(prog, p) ELSE p

\* After a statement that does not jump: the next of the line, or the next line.  (What
\* lies behind the program's bytes counts as the end of a text.)
Continue ==
    IF stp + 1 < Len(program) /\ Cell(program, stp + 1) # 0
    THEN stp' = stp + 1 /\ UNCHANGED <<mode, p>>
    ELSE GoOn(program, NextLine(program))

\* do_goto_line
JumpTo(ln) ==
    LET t == FindLine(program, ln) IN IF t = NoLine THEN Stop ELSE GoOn(program, t)

-----------------------------------------------------------------------------
\* The prompt (main, handle_input_line).

Typing == mode = "prompt" /\ typed < MaxTyped /\ typed' = typed + 1

\* A line with a number is stored, or removes the line if it has no text.  EDIT changes
\* nothing itself: it fills the editor with a line, and what is entered comes here.
Enter(ln, text) ==
    /\ Typing
    /\ program' = StoreLine(program, ln, text)
    /\ command' = <<"edit", ln, text>>
    /\ UNCHANGED <<saved, control, stacks, loaded>>

\* RUN that keeps the stacks.
Run_KeepsStacks ==
    /\ Typing
    /\ GoOn(program, 0)
    /\ loaded' = FALSE /\ command' = NoCommand
    /\ UNCHANGED <<program, saved, stacks>>

Run ==
    /\ Typing
    /\ forStack' = <<>> /\ gosubStack' = <<>>
    /\ loaded' = FALSE /\ command' = NoCommand
    /\ GoOn(program, 0)
    /\ UNCHANGED <<program, saved>>

\* do_new
Erase ==
    /\ program' = EmptyProgram /\ forStack' = <<>> /\ gosubStack' = <<>>
    /\ command' = <<"clear">>

NewTyped == Typing /\ Erase /\ UNCHANGED <<saved, control, loaded>>

\* do_save
Keep == saved' = program /\ command' = <<"keep">>

SaveTyped == Typing /\ Keep /\ UNCHANGED <<program, control, stacks, loaded>>

\* LOAD that keeps the old length.
Load_KeepsLength ==
    /\ program' = SubSeq(saved, 1, Min({Len(saved), Len(program)}) - 2) \o <<0, 0>>
    /\ forStack' = <<>> /\ gosubStack' = <<>>
    /\ command' = <<"restore">>

\* do_load
Load ==
    /\ program' = saved /\ forStack' = <<>> /\ gosubStack' = <<>>
    /\ command' = <<"restore">>

LoadTyped ==
    /\ Typing
    /\ saved # NotSaved
    /\ Load
    /\ UNCHANGED <<saved, control, loaded>>

\* A statement typed without a number runs at once.  It may push and pop frames; a
\* jump is dropped.
Immediate(s) ==
    /\ Typing
    /\ \/ /\ s.op = "gosub" /\ Len(gosubStack) < GOSUB_STACK_MAX
          /\ gosubStack' = Append(gosubStack, [ret |-> Wild, line |-> Wild])
          /\ UNCHANGED forStack
       \/ /\ s.op = "return" /\ gosubStack # <<>>
          /\ gosubStack' = Front(gosubStack)
          /\ UNCHANGED forStack
       \/ /\ s.op = "for" /\ Len(forStack) < FOR_STACK_MAX
          /\ forStack' = Append(forStack, [cur |-> s.start, start |-> s.start,
                                           limit |-> s.limit, step |-> s.step,
                                           body |-> Wild, line |-> Wild])
          /\ UNCHANGED gosubStack
       \/ /\ s.op = "next" /\ forStack # <<>>
          /\ LET f == Last(forStack)
                 c == Wrap(f.cur + f.step)
             IN forStack' = IF GoesRound(f, c) THEN [forStack EXCEPT ![Len(forStack)].cur = c]
                                               ELSE Front(forStack)
          /\ UNCHANGED gosubStack
    /\ command' = NoCommand
    /\ UNCHANGED <<program, saved, control, loaded>>

-----------------------------------------------------------------------------
\* The RUN loop (do_run, exec_statement).  A statement of kind k is next:

Executing(k) ==
    /\ mode = "run"
    /\ Cell(program, stp) \in DOMAIN Stmt
    /\ Stmt[Cell(program, stp)].op = k
    /\ UNCHANGED typed
S == Stmt[Cell(program, stp)]

\* No statement is next, which happens only where p is not at a line: the end of a
\* text, or a byte of a line number, which is a syntax error.
NoStatement ==
    /\ mode = "run" /\ Cell(program, stp) \notin DOMAIN Stmt
    /\ IF Cell(program, stp) = 0 THEN GoOn(program, NextLine(program)) ELSE Stop
    /\ command' = NoCommand
    /\ UNCHANGED <<program, saved, stacks, loaded, typed>>

\* check_break
Break ==
    /\ mode = "run"
    /\ Stop
    /\ command' = NoCommand
    /\ UNCHANGED <<program, saved, stacks, loaded, typed>>

\* No command: the program and the copy stay.
NoEdit == command' = NoCommand /\ UNCHANGED <<program, saved, loaded>>

End == Executing("end") /\ Stop /\ UNCHANGED stacks /\ NoEdit

Plain == Executing("plain") /\ Continue /\ UNCHANGED stacks /\ NoEdit

Goto == Executing("goto") /\ JumpTo(S.ln) /\ UNCHANGED stacks /\ NoEdit

\* IF c THEN <ln>, with the rest of the line for ELSE
IfLine ==
    /\ Executing("if")
    /\ JumpTo(S.ln) \/ Continue
    /\ UNCHANGED stacks /\ NoEdit

\* GOSUB that tests for a full stack too late.
Gosub_OneTooDeep ==
    /\ Executing("gosub")
    /\ IF Len(gosubStack) > GOSUB_STACK_MAX
       THEN Stop /\ UNCHANGED gosubStack
       ELSE /\ gosubStack' = Append(gosubStack, [ret  |-> p + EntryLen(program, p),
                                                 line |-> LineNumber(program, p)])
            /\ JumpTo(S.ln)
    /\ UNCHANGED forStack /\ NoEdit

\* The frame is pushed before the line is looked for.
Gosub ==
    /\ Executing("gosub")
    /\ IF Len(gosubStack) >= GOSUB_STACK_MAX
       THEN Stop /\ UNCHANGED gosubStack
       ELSE /\ gosubStack' = Append(gosubStack, [ret  |-> p + EntryLen(program, p),
                                                 line |-> LineNumber(program, p)])
            /\ JumpTo(S.ln)
    /\ UNCHANGED forStack /\ NoEdit

Return ==
    /\ Executing("return")
    /\ IF gosubStack = <<>>
       THEN Stop /\ UNCHANGED gosubStack
       ELSE /\ gosubStack' = Front(gosubStack)
            /\ GoOn(program, Last(gosubStack).ret)
    /\ UNCHANGED forStack /\ NoEdit

For ==
    /\ Executing("for")
    /\ IF Len(forStack) >= FOR_STACK_MAX
       THEN Stop /\ UNCHANGED forStack
       ELSE /\ forStack' = Append(forStack, [cur |-> S.start, start |-> S.start,
                                             limit |-> S.limit, step |-> S.step,
                                             body |-> p + EntryLen(program, p),
                                             line |-> LineNumber(program, p)])
            /\ Continue
    /\ UNCHANGED gosubStack /\ NoEdit

NextFor ==
    /\ Executing("next")
    /\ IF forStack = <<>>
       THEN Stop /\ UNCHANGED forStack
       ELSE LET f == Last(forStack)
                c == Wrap(f.cur + f.step)
            IN IF GoesRound(f, c)
               THEN /\ forStack' = [forStack EXCEPT ![Len(forStack)].cur = c]
                    /\ GoOn(program, f.body)
               ELSE forStack' = Front(forStack) /\ Continue
    /\ UNCHANGED gosubStack /\ NoEdit

New == Executing("new") /\ Erase /\ Stop /\ UNCHANGED <<saved, loaded>>

Save ==
    /\ Executing("save")
    /\ Keep
    /\ Continue
    /\ UNCHANGED <<program, stacks, loaded>>

\* LOAD in a program: p and stp stay, whatever is there now.
LoadStatement ==
    /\ Executing("load")
    /\ IF saved = NotSaved
       THEN Continue /\ command' = <<"restore">> /\ UNCHANGED <<program, stacks, loaded>>
       ELSE /\ Load
            /\ loaded' = TRUE
            /\ \/ /\ stp + 1 < Len(saved) /\ Cell(saved, stp + 1) # 0
                  /\ stp' = stp + 1 /\ UNCHANGED <<mode, p>>
               \/ GoOn(saved, NextLine(saved))
    /\ UNCHANGED saved

UserTypes ==
    \/ \E ln \in Number, text \in Text \cup {<<>>} : Enter(ln, text)
    \/ Run \/ NewTyped \/ SaveTyped \/ LoadTyped
    \/ \E c \in Direct : Immediate(Stmt[c])

Runs ==
    \/ NoStatement \/ Break \/ End \/ Plain \/ Goto \/ IfLine
    \/ Gosub \/ Return \/ For \/ NextFor \/ New \/ Save \/ LoadStatement

Next == UserTypes \/ Runs

Spec == Init /\ [][Next]_vars

-----------------------------------------------------------------------------
\* Types: stacks within their arrays, addresses inside the program or Wild.
TypeOK ==
    /\ mode \in {"prompt", "run"}
    /\ p \in Nat /\ stp \in Nat /\ loaded \in BOOLEAN /\ typed \in 0..MaxTyped
    /\ Len(forStack) <= FOR_STACK_MAX /\ Len(gosubStack) <= GOSUB_STACK_MAX
    /\ \A i \in DOMAIN forStack : forStack[i] \in ForFrame
    /\ \A i \in DOMAIN gosubStack : gosubStack[i] \in GosubFrame

\* The program and the saved copy are lines in ascending order within PROGRAM_SIZE, whatever
\* is entered, replaced, refused or removed (store_line).
ProgramWellFormed == WellFormed(program) /\ (saved # NotSaved => WellFormed(saved))

\* The two bytes behind the program are always zero, as the comment at program_len in
\* basic.c says.
EndMarkerThere == Terminated(program)

\* Control stays in the program: unless LOAD has replaced it in this run, the running
\* line is a line of the program, and what GOSUB and FOR pushed leads to the line
\* behind the one that pushed it, in the program as it is now (do_run clears the
\* stacks; nothing else may edit while it runs).
ControlInProgram ==
    mode = "run" /\ ~loaded =>
        LET Behind(ln) == FindLine(program, ln) + EntryLen(program, FindLine(program, ln))
        IN /\ p \in LineStarts(program)
           /\ stp \in (p + 2)..(p + EntryLen(program, p) - 2)
           /\ \A i \in DOMAIN gosubStack : gosubStack[i].ret = Behind(gosubStack[i].line)
           /\ \A i \in DOMAIN forStack : forStack[i].body = Behind(forStack[i].line)

\* A loop's counter is its start, or has not passed its limit, wherever start and limit
\* leave room for a step (do_next compares after the addition has wrapped).
LoopWithinLimit ==
    \A i \in DOMAIN forStack :
        LET f == forStack[i]
        IN {f.start + f.step, f.limit + f.step} \subseteq (-IntMax - 1)..IntMax =>
                \/ f.cur = f.start
                \/ f.step > 0 /\ f.cur > f.start /\ f.cur <= f.limit
                \/ f.step < 0 /\ f.cur < f.start /\ f.cur >= f.limit

\* Commands change the lines as LineStore says: a line that is entered changes the line of
\* its number, to its text, and no other; LOAD brings back what SAVE kept; any other command
\* or statement leaves the lines as they are.
Abstract == INSTANCE LineStore WITH
    Capacity <- PROGRAM_SIZE - 2,
    lines    <- LinesOf(program),
    saved    <- IF saved = NotSaved THEN {} ELSE {LinesOf(saved)}
EditsAreLineEdits == Abstract!Spec

=============================================================================
