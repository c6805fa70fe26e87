--------------------------------- MODULE Ccp ---------------------------------
(***************************************************************************)
(* Boot, the command processor and the programs it loads: bios_wboot,       *)
(* bdos_init and bdos_start_ccp, then ccp() and handle() of ccp.c.          *)
(*                                                                          *)
(* The 128 bytes from 0x0080 are the DMA area, through which every record   *)
(* of a program is read, and hold the arguments.  A program is external: it *)
(* may choose another DMA address, and it ends with a warm boot or a RET.   *)
(* Reading a file is one step for each record, in order and up to its end   *)
(* (CpmFiles); programs fit below the command processor.  A program may use *)
(* the command processor's memory for itself: then it does not return to it.*)
(***************************************************************************)
EXTENDS Integers

CONSTANTS
    Program,    \* the .COM files
    Records,    \* the number of records of each
    Most        \* the records that fit between 0x0100 and the command processor

ASSUME RecordsAssumption == Records \in [Program -> 1 .. Most] /\ Most \in Nat

VARIABLES
    at,         \* "wboot", "start_ccp", "ccp", "prompt", "load", "start" (at the call of 0x0100),
                \* "program", or "stray": what is run is not the command processor, or it takes what
                \* it finds for a command
    dma,        \* bios_dma: "low" is 0x0080, "own" an address of the program
    area,       \* what is in memory from 0x0080
    tpa,        \* the records of memory from 0x0100
    ccp,        \* the code of the command processor
    file, pos,  \* the file that was asked for last, and the record that is read next
    how,        \* ccp_run is called by "ccp_load", by handle after it ("again"), by "RUN"
    args,       \* history: the command had arguments
    returned,   \* history: a program returned by RET with its own DMA address, since the last boot
    unread      \* history: CCP.COM was not read to its end at the last boot

vars == <<at, dma, area, tpa, ccp, file, pos, how, args, returned, unread>>

Record(p, i) == <<p, i>>
Nobody == "none"

\* What is in memory, other than a record: named, and told from records by the number 0.
Other == <<"other", 0>>
Text(t) == <<t, 0>>

Init ==
    /\ at = "wboot" /\ dma = "low" /\ area = Other /\ ccp = "other"
    /\ tpa = [i \in 1 .. Most |-> Other]
    /\ file = Nobody /\ pos = 1 /\ how = "RUN" /\ args = FALSE /\ returned = FALSE /\ unread = FALSE

-----------------------------------------------------------------------------
(* Boot.                                                                   *)

\* Mutant of WarmBoot: neither bios_wboot nor bdos_init sets the DMA address.
WarmBoot_KeepsDma ==
    /\ at = "wboot" /\ at' = "start_ccp"
    /\ area' = Text("eofs") /\ returned' = FALSE
    /\ UNCHANGED <<dma, tpa, ccp, file, pos, how, args, unread>>

WarmBoot ==
    /\ at = "wboot" /\ at' = "start_ccp"
    /\ dma' = "low" /\ area' = Text("eofs") /\ returned' = FALSE
    /\ UNCHANGED <<tpa, ccp, file, pos, how, args, unread>>

\* CCP.COM comes through the same area, from 0x0080 whatever the DMA address is.
LoadedCcp == IF dma = "low" THEN "whole" ELSE "other"

\* CCP.COM may be missing, or a read of it fail: the records read so far are in their places,
\* and the jump is made to whatever is there.
StartCcp ==
    /\ at = "start_ccp" /\ at' = "ccp"
    /\ \/ ccp' = LoadedCcp /\ unread' = FALSE
       \/ ccp' \in {ccp, "other"} /\ unread' = TRUE
    /\ area' = Text("zero")
    /\ UNCHANGED <<dma, tpa, file, pos, how, args, returned>>

\* ccp_argl at 0x0080: zero, or the first byte of something else.
NoArguments == area \in {Text("zero"), Text("none")}

Ccp ==
    /\ at = "ccp" /\ at' = IF ccp = "whole" /\ NoArguments THEN "prompt" ELSE "stray"
    /\ UNCHANGED <<dma, area, tpa, ccp, file, pos, how, args, returned, unread>>

\* Of what runs then nothing is known: the machine is switched off and on.
PowerOn ==
    /\ at = "stray" /\ at' = "wboot"
    /\ ccp' = "other" /\ area' = Other /\ tpa' = [i \in DOMAIN tpa |-> Other]
    /\ UNCHANGED <<dma, file, pos, how, args, returned, unread>>

-----------------------------------------------------------------------------
(* Commands.                                                               *)

\* handle() first puts the arguments into the area.
Typed(withArgs) ==
    /\ at = "prompt"
    /\ area' = IF withArgs THEN Text("args") ELSE Text("none")
    /\ args' = withArgs

\* ccp_load opens the file; one that is not there is reported.
Load(p, withArgs) ==
    /\ Typed(withArgs)
    /\ at' = "load" /\ file' = p /\ pos' = 1
    /\ UNCHANGED <<dma, tpa, ccp, how, returned, unread>>

NotFound(withArgs) ==
    /\ Typed(withArgs)
    /\ UNCHANGED <<at, dma, tpa, ccp, file, pos, how, returned, unread>>

\* A listing is delivered at the DMA address, and shown from 0x0080.
Listing == IF dma = "low" THEN Text("listing") ELSE area

Dir ==
    /\ at = "prompt" /\ area' = (IF dma = "low" THEN Text("listing") ELSE Text("none")) /\ args' = FALSE
    /\ UNCHANGED <<at, dma, tpa, ccp, file, pos, how, returned, unread>>

Run ==
    /\ Typed(FALSE) /\ at' = "start" /\ how' = "RUN"
    /\ UNCHANGED <<dma, tpa, ccp, file, pos, returned, unread>>

Reset ==
    /\ at = "prompt" /\ at' = "wboot" /\ args' = FALSE /\ area' = Text("none")
    /\ UNCHANGED <<dma, tpa, ccp, file, pos, how, returned, unread>>

\* A record goes to the DMA address, and is copied from 0x0080.
ReadRecord ==
    /\ at = "load" /\ pos <= Records[file]
    /\ area' = IF dma = "low" THEN Record(file, pos) ELSE area
    /\ tpa' = [tpa EXCEPT ![pos] = area']
    /\ pos' = pos + 1
    /\ UNCHANGED <<at, dma, ccp, file, how, args, returned, unread>>

Loaded ==
    /\ at = "load" /\ pos > Records[file]
    /\ at' = "start" /\ how' = "ccp_load"
    /\ UNCHANGED <<dma, area, tpa, ccp, file, pos, args, returned, unread>>

-----------------------------------------------------------------------------
(* The program.                                                            *)

Start ==
    /\ at = "start" /\ at' = "program"
    /\ UNCHANGED <<dma, area, tpa, ccp, file, pos, how, args, returned, unread>>

SetDma ==
    /\ at = "program" /\ dma' = "own"
    /\ UNCHANGED <<at, area, tpa, ccp, file, pos, how, args, returned, unread>>

\* It reads a file, and changes its own memory, the command processor's among it.
Work ==
    /\ at = "program"
    /\ area' = IF dma = "low" THEN Other ELSE area
    /\ \E i \in DOMAIN tpa : tpa' = [tpa EXCEPT ![i] = Other]
    /\ ccp' \in {ccp, "other"}
    /\ UNCHANGED <<at, dma, file, pos, how, args, returned, unread>>

Exit ==
    /\ at = "program" /\ at' = "wboot"
    /\ UNCHANGED <<dma, area, tpa, ccp, file, pos, how, args, returned, unread>>

\* ccp_run is naked and ends without a return: it runs on into ccp_dir, which returns for it.
\* After ccp_load, handle calls ccp_run once more.
Ret ==
    /\ at = "program" /\ ccp = "whole"
    /\ area' = Listing
    /\ at' = IF how = "ccp_load" THEN "start" ELSE "prompt"
    /\ how' = IF how = "ccp_load" THEN "again" ELSE how
    /\ returned' = (returned \/ dma = "own")
    /\ UNCHANGED <<dma, tpa, ccp, file, pos, args, unread>>

Boot    == WarmBoot \/ StartCcp \/ Ccp \/ PowerOn
Command == \/ \E p \in Program, b \in BOOLEAN : Load(p, b)
           \/ \E b \in BOOLEAN : NotFound(b)
           \/ Dir \/ Run \/ Reset \/ ReadRecord \/ Loaded
Runs    == Start \/ SetDma \/ Work \/ Exit \/ Ret

Next == Boot \/ Command \/ Runs
Spec == Init /\ [][Next]_vars

-----------------------------------------------------------------------------

Block == {Text(t) : t \in {"other", "eofs", "ccp", "zero", "none", "args", "listing"}}
             \cup {Record(p, i) : p \in Program, i \in 1 .. Most}

\* Types; while a file is read, the records before pos are in memory's range.
TypeOK ==
    /\ at \in {"wboot", "start_ccp", "ccp", "prompt", "load", "start", "program", "stray"}
    /\ dma \in {"low", "own"} /\ ccp \in {"whole", "other"} /\ area \in Block
    /\ tpa \in [1 .. Most -> Block] /\ file \in Program \cup {Nobody} /\ pos \in 1 .. Most + 1
    /\ how \in {"ccp_load", "again", "RUN"}
    /\ args \in BOOLEAN /\ returned \in BOOLEAN /\ unread \in BOOLEAN
    /\ at = "load" => file \in Program /\ pos <= Records[file] + 1

\* What is started is what is on the disk, record for record, though an earlier program chose
\* its own DMA address, overwrote the command processor and left by a warm boot: the jump after
\* boot goes to the whole command processor, which finds no arguments of its own, unless
\* CCP.COM could not be read; and so does the start of a program just loaded.  (A program that
\* returns with its own DMA address is not undone.)
RunsWhole ==
    /\ at = "stray" => unread
    /\ at = "start" /\ how = "ccp_load" /\ ~returned =>
           \A i \in 1 .. Records[file] : tpa[i] = Record(file, i)

\* ccp.h:56: "Args at 0x0081 (starting with initial space)", for the program that is started.
ArgumentsArrive == at = "start" /\ how = "ccp_load" /\ args => area = Text("args")
=============================================================================
