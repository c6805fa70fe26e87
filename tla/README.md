# A formal model of vgldk

vgldk is a development kit for VTech "Genius Leader" learning computers (Z80):
a C library for the devices (`src/include`), host tools (`src/tools`) and
applications, among them a CP/M 2.2 system, a BASIC interpreter and an AGI
adventure interpreter (`src/examples`).  The devices have no storage and no
flow control: what makes the programs work, or hang, is how they talk to the
host behind a serial line, a printer port or an emulator.  That is where this
project begins.

Checked with TLC, proved with TLAPS:

    tlc -config link_faults.cfg MCHostLink
    tlapm HostLinkProofs.tla          (and the other ...Proofs)

## 1. Inventory

| component | state it keeps | operations | talks to |
|---|---|---|---|
| host link (`driver/host.h`, `tools/host.py`) | device: position in a frame, buffer, check; host: the same, and the reply to send | send frame, receive frame, serve | each other, through bytes on a serial line or an emulator's pipe |
| CP/M file access (`cpm/bdos.c`, `bdos_host.h`, `bdos_host.py`) | device: FCBs, DMA address, search slot; host: loaded file, directory listing | open, close, read, write, search, DMA address, warm boot | one FCB frame per call over the host link; answers of 0, 1 or several frames |
| CP/M command processor (`ccp.c`, `bios.c`) | drive, command line, loaded program | commands, load and run, warm boot | BDOS calls; the program area and the DMA area in memory |
| BASIC program store and interpreter (`basic.c`) | program bytes, saved copy, variables, GOSUB and FOR stacks, text pointers | enter and delete lines, RUN, GOTO, GOSUB, FOR, INPUT, SAVE, LOAD, EDIT | keyboard, screen, tape |
| BASIC tape (`basic.c`, `esp_basic_store.ino`) | slots on the ESP, a line buffer on the device | CSAVE, CLOAD, web pages | a bit-banged serial line without flow control |
| AGI ROM files and resources (`romfs.c`, `vagi_res.h`, `vagi_bank.h`) | two pools of six handles, bank and offset of each | open, read, seek, close, bank switch | the logic, picture and view interpreters |
| AGI interpreter (`agi_logic.c`, `agi_view.c`, `vagi.c`) | flags, variables, nested logics, objects | cycle, call, new room, motion | resources, screen, keys |
| file layer (`fileio/*`, `files_host.py`) | mounts, one temporary file object per file system, host handles | open, read, seek, close, directories | host link, ParaBuddy, BusBuddy |
| ParaBuddy, BusBuddy (`driver/*buddy.h`) | position in a transaction | command, answer, resend | a microcontroller on the printer port or bus |
| loader (`loader/*`) | app image, relocation table | load, relocate, run | monitor, file layer |
| keyboards (`arch/*/keyboard.h`) | matrix, ring of keys | scan, get | every application |
| monitor | current address | memory and port commands | `monitor.py`, `send2monitor.py` |

Drivers of display, sound, speech and printer, start-up code, fonts, games,
hardware experiments and build tools are listed in `PROJECT.json` with the
reason they are left out: port output and timing, data, or no state that outlives
a call.  `dungeonbash_original` is a third party's program.

### What is hard, and what makes each part correct

*Host link.*  No sequence numbers, no timeout on the host, a device that polls
with interrupts off and misses what comes while it does not look.  Correct: a
frame handed to the host was sent by the device; the answer received is the
answer to this request; an acknowledged request is handled; the buffer is not
overrun; nobody waits for ever.

*CP/M files.*  Frames are not labelled, CLOSE and the write functions are not
answered, a read is answered by one to many frames; the host keeps no file
handles, so everything hinges on the position inside the FCB, which device and
host compute separately.  Correct: both sides stay in step, the right record of
the right file arrives, the end of the file is reported where it is, a search is
complete, every call returns, nothing is written outside the caller's buffers.

*BASIC.*  GOSUB, FOR and the running program are byte pointers into text that
editing, LOAD and CLOAD move.  Correct: control returns to a line boundary of the
present program; a command changes the line it names and no other; tape and memory
agree after CSAVE and CLOAD.

*AGI.*  Handles of two pools that name one another; nesting that takes two
handles per level.  Correct: open handles are at most six and all distinct, a
close frees what it opened, reading ends at the end of the file.

*File layer, ParaBuddy, BusBuddy.*  One temporary object for all open files;
byte-wide handles; resend of "the last answer".  Correct: a read returns data of
the file opened; a repeated command is not executed twice; an answer belongs to
its command.

The hazards, each at its line, are in `PROJECT.json` under "hazards".

## 2. Plan

| step | modules | what they show | theorems |
|---|---|---|---|
| 1 done | `HostLink`, `HostRpc`, `HostChecksum`, `LinkChecksum` | one fault is survived; without faults the link is a remote procedure call | types, buffer, one request outstanding, the refinement without faults, safety of a line that is only slow; the checksums for every message (done) |
| 2 done | `Fcb`, `CpmFiles` | records, end of file, searches, answers in step | record arithmetic, types, `InStep`, `DmaFits`, `RightRecord`, `RightEnd`, the searches (done) |
| 3 done | `LineStore`, `BasicProgram`, `Basic` | each command changes the lines as an ordered list of lines; the interpreter's pointers stay on lines | types, `ProgramWellFormed`, `ControlInProgram`, `LoopWithinLimit`, edits are those of `LineStore`, for every size (done) |
| 4 done | `VagiRes`, `AgiLogic` | who owns which handle, when the pool runs out, frames end | types, owners, `Accounted` for pools of every size (done) |
| 5 done | `FileStream`, `FileLayer` | reads are streams, handles stay valid, answered calls return | types, `HandleLive`, reads are streams (done) |
| 6 done | `ParaBuddy` | an answer belongs to its call; slots | types, `LagIsLate`, `AnswersFit`, `SlotsAccounted` for every number of faults (done) |
| 7 done | `BasicTape` over `BasicProgram` | what is saved is what is loaded | types, `LoadedIsKept` for every size, any pages and losses (done) |
| 8 done | `Ccp` | loading, warm boot, DMA address | `RunsWhole` for every set of programs (done) |

Nothing further is to be modelled but what section 6 lists, with the reasons.  The proofs of a module `M` are
in `MProofs`, those of `BasicTape` in `BasicProofs`, since both rest on the line store.

The abstract specifications are `HostRpc` (ask, serve once, answer), `LineStore` (a
set of numbered lines with a capacity) and `FileStream` (a file that is read from its
beginning to its end); `HostLink`, `Basic` and `FileLayer` implement them.  There is
one run for each question, on two or three of everything.  No module that is to be
proved about uses a RECURSIVE operator; `HostChecksum` defines the operators on words by
their bits.

## 3. The modules

### HostLink: the frames

`HostLink` models `HOST_PROTOCOL_BINARY_SAFE` of `include/driver/host.h` and
`Protocol_binary_safe` with the `Host` loop of `tools/host.py`, byte by byte.

* `dpc` is where the device is in `host_send_frame_binary_safe` (`send`, `status`)
  and `host_receive_frame_binary_safe` (`len`, `data`, `hi`, `lo`); `dlen`, `dbuf`
  and `dhi` are its locals `l`, the buffer and the first check byte.  `hpc`, `hlen`,
  `hbuf`, `hhi` are the same on the host, `hout` the reply it sends.
* An action is what happens up to the next byte read: `DevSend` writes a whole
  frame, `DevLen` reads a length (zeros skipped; one above `HOST_MAX_DATA` refused
  at once), `DevData` stores a byte, `DevLo` compares and answers ACK or NAK, and
  the `Host...` actions likewise.
* `host_receive_byte` returns -1 where no start bit comes in time.  `DevBytes` and
  `DevReads` allow that whenever the line is silent, and, as a fault, also when the
  byte is merely late.  A driver that waits (`Blocking`, MAME) never does.
* `Line` garbles or loses the byte that would be read next: in either direction,
  in every position of a frame, padding and status bytes included.  Line and
  fault budgets are external to `src/`.
* The application is "one request at a time", which is how `bdos_host.h`,
  `fs_host.h` and the monitor use the link.

`Check` is a parameter, so that the proofs hold for every checksum; the runs use
`HostChecksum!DeviceCheck`.  `HostChecksum` has the device's C word, the host's
Python integer, each a step on a word that is repeated for every byte, and a bit-by-bit
reference that says which bits of the message meet in a bit of the result; `LinkChecksum`
states what both ends need of it, of messages that end with what the device has just
received.  `HostRpc` is the abstract
specification: ask, serve once, answer.

### Fcb and CpmFiles: the files

`Fcb` is the position arithmetic: `Advance` (`bdos_f_read_`), `Seek`
(`bdos_f_readrand_`), `HostRecord` (`handle_frame`), `Closed`.  `CpmFiles` has the
BDOS calls of a transient program (`Open`, `Close`, `Read`, `ReadRandom`, `Write`,
`SearchFirst`, `SearchNext`, `SetDma`, `WarmBoot`), the receipt of answers
(`ReceiveOpen`, `ReceiveEntry`, `ReceiveStatus`, `ReceiveData`), and the branches of
`handle_frame` (`HostOpen` ... `HostCrash`).  A call sends one frame and leaves `pc`
at the answer it waits for; `d2h` and `h2d` hold whole frames, delivered reliably
and in order, as the default build has it (MAME with the plain binary protocol).
`Transfer` is the whole loop that cuts a record into frames.  File contents are not
modelled; a data frame is a file, an offset and a length, and that is all that
`RightRecord` needs.  `junk` are the addresses that the answer of the last call was
written to outside that call's buffer.  A name is a name as the program fills it up with
blanks or as a listing fills it up with zeros (`Zeroed`, `bdos_host.py:417-420`): an open
takes the zeros off the name but not off the extension (308-309), so that the two are the
same name only if the extension has three characters.  The history variables (`opened`, `next`, `listing`, `listed`) say what the
program is entitled to; nothing reads them but the properties and the guards
that keep the program to files it opened.

### LineStore, BasicProgram, Basic: BASIC

`BasicProgram` is the line store of `basic.c` as bytes: a line is its number, low
byte first, its text, and a zero; two bytes behind the last line are the end marker.
`StoreLine` is `store_line` with its order of steps: the old line is cut out first
(`WithoutLine`; what lies in the marker's place is what the `memmove` left there), then it
is seen whether the new one has room, and only where it has, or no text, are the marker's
zeros written (`Closed`).  That the program keeps its form does not rest on the marker, since
the walks end at `program_len`.  Bytes behind the two are not there in the model; the one place
that looks at them, the end of a statement's text after LOAD in a program, takes them
for the end of the text.  A number whose low byte is zero is among
the inputs, since pointers into the middle of a line would read it as an end.

`Basic` is the interpreter over it.  `p` and `stp` are `do_run`'s pointers, `forStack`
and `gosubStack` the two stacks with byte addresses into the program.  An action is
a statement with what `do_run` does after it (`GoOn`, `NextLine`); a text is a
sequence of statements, each a byte that `Stmt` gives a meaning.  The user's
actions (`Enter`, `Run`, `NewTyped`, `SaveTyped`, `LoadTyped`, `Immediate`) happen at
the prompt, `Break` at any statement.  Immediate GOSUB and FOR push what `next_line_ptr`
gives while nothing runs: an address that means nothing (`Wild`), and `do_run` clears
the stacks before it could be used.  `LineStore` is what the user is promised:
lines, their capacity, and a copy kept by SAVE.  Its steps are tied to what was typed by the
history variable `command`, which both have: the line that is entered changes the line
of that number to that text, and no other.  Where the new text does not fit, the line
is gone, as in the code.

### BasicTape: CSAVE and CLOAD

`BasicTape` has the device (`Type`, `CSave`, `CLoad`, `SendByte`, `Takes`, `Cancel`,
`Reset`) and the ESP's loop (`ReadCommand`, `ReadSlotDigit`, `NoDigit`, `Receive`,
`GiveUp`, `Send`, `Web`), byte by byte.  The direction to the ESP is a queue, since its
UART buffers; the other is not: `Send` writes a byte that `Takes` takes now, or
nobody does.  `Miss` is the byte lost while the device is storing a line or looks for a
key, the end mark among them: it follows the last line at once, and a CLOAD that misses
it waits for a key (`endMissed`).  `clean` says that the transfer began with an idle store and lost nothing, `kept` which program
a slot holds in full.  A line number is a word that goes out in up to five digits
(`Digits`) and is read back digit by digit, wrapping (`AddDigit`).  What the editor gives
holds no end of line and no end of file, and `store_line` gets it without the spaces in
front (`TypedAssumption`); a page from the browser is any text.  The definitions have names of
their own where `Basic` has the same, so that one module can prove about both.

### FileStream and FileLayer: files on the host

`FileLayer` has `fileio.h` over `fs_root.h`, `fs_internal.h` and `fs_host.h`, and
`files_host.py`.  A local call is one step; a call to the host sends a frame (`OpenHost`,
`ReadHost`, ...) and waits in `pc` for its answer (`ReceiveOpen`, `ReceiveData`, ...).
`handles` is the host's list, which only grows; `Raises` is a Python exception, which
ends the host.  `FileStream` is what a program may expect of an open file, once for
each file system.

### VagiRes and AgiLogic: the AGI interpreter

`VagiRes` are the two pools as functions from one state to the next: `vagi_res_open`
with each way it can fail (end of directory, no volume, wrong signature, no handle), and
whether it frees what it took.  `AgiLogic` is the program over them: `vagi_loop`, the
C stack of `CallLogic`s, `ExecuteLogic`'s loop with the commands that open, close or
leave, and `UpdateVObj`.  The game is any sequence of commands.  Where the code uses
a negative number as a handle it writes outside its arrays: `wild`, after which nothing
is claimed.

### ParaBuddy: files behind the printer port

`ParaBuddy` has a program that lists a directory or reads a file, `fs_parabuddy.h` and the
frames of `parabuddy.h`, with whole frames lost, late, or unheard, the device's
timeouts, restarts, and the sketch of the buddy (in `tools/VTechParallelBuddy.zip`, hence
external).  `own` marks what belongs to the waiting call; `late` counts the calls
that gave up although their answer was still to come.

### Ccp: the command processor

`Ccp` is the machine from `bios_wboot` to a running program and back.  Memory is the
area at 0x0080 (`area`: arguments, records, directory entries, in turn), the
program's area (`tpa`) and the DMA address, which is the default or one of the
program's own.  `StartCcp` may fail to open or to read CCP.COM, and jumps all the same
(`bdos.c:1500`); a program may overwrite the command processor, and then does not return to
it.  At `"stray"` something else than the command processor runs, until the machine is
switched off.  `Ret` is a program that returns to `ccp_run`.

## 4. The runs

| run | shows |
|---|---|
| `link_faults` | with one byte garbled, lost or late anywhere: types, buffer, one request outstanding, no invented frame, no wrong answer, no request lost; no hang when bytes are only late |
| `link_mame` | without faults, with the MAME driver: the link implements `HostRpc`, and requests finish; device, host and reference compute the same check, and any change of one of the last nine bytes is found |
| `files` | reads, random reads, writes and searches in any order: `InStep`, `RightRecord`, `RightEnd`, `DmaFits`, searches are complete, what they list can be opened, but with the zeros of the listing only if its extension has three characters, every call returns |
| `files_near` | 4096 records read in sequence and at random keep device and host at the same place; the inputs include a second DMA address and a drive the host does not have |
| `basic` | the stacks stay in their arrays; the program is in order and within its memory; pointers lead to lines; a FOR loop does not pass its limit; each command changes the lines as `LineStore` says |
| `basic_tape` | what CLOAD reports as loaded is what CSAVE kept, whole or cut at a line; a CLOAD that finds the store idle ends, or has missed the end mark |
| `files_layer` | handles fit their byte and are the right file's; reads are streams (`FileStream`, twice); answered calls return |
| `agi` | handles have one owner, the ROM files lost are counted, memory is overrun only when the pool is used up, frames end |
| `buddy` | the device lags by no more answers than calls gave up early; without that, answers fit and no slot is lost but to a fault; a listing ends |
| `ccp` | a program just loaded is whole; so is what boot jumps to, and it finds no arguments of its own, unless CCP.COM could not be read |

and, where what the code does contradicts what the repository says of it:

| run | the code |
|---|---|
| `ccp_args` | a program is read through the area at 0x0080 that holds its arguments, and never sees them |
| `basic_marker` | a line replaced by one that does not fit is cut out, and the program is left without its end marker |

Further limits of the code, met while modelling, which the passing runs stay
inside of:

* **One file at a time** (`OneFile`): the host has one `dat_data`; opening a second
  file replaces the first, closing either drops it.
* **One module**: `s2` weighs 16384 records on both sides where it stands for 4096,
  so that random access stops at 512 KB (`AdvanceMovesOne` shows the jump).
* **Drive numbers**: `dr` = n selects the mount n + 1, not n as `fcb.h` says.
* **Search by name**: F_SFIRST ignores the name.  The runs search for `???????????`.
* **Zeros**: an entry of a listing whose extension has fewer than three characters cannot
  be opened as it was listed; with blanks in place of the zeros it can (`ListedOpens`).
* **Spelling**: a file whose name is neither as typed nor all in lower case, or that
  does not fit 8+3 characters, is listed but cannot be opened.
* **Two faults**: with two garbled or lost bytes all of `Integrity`,
  `ReplyMatches` and `Delivered` fail; a copy of an old frame cannot be told from a
  new one.  A single lost byte, or a garbled length, can leave both ends waiting
  for ever; therefore `NoHang` speaks only of late bytes, and `RequestsFinish` is
  claimed only without faults.
* **Long frames**: the check forgets bytes sixteen or more places before the end
  of a frame.
* **The host's check**: `tools/host.py` uses a constant, `BDOS_HOST_CHECK_INIT`, that only
  `bdos_host.py` defines: as it stands, the first complete frame of the binary safe
  protocol raises NameError.  The runs take it as defined (`ChecksumDefined`).
* **Large files**: `F_OPEN` sets `s2` from the size (`bdos_host.py:348`), the read takes it
  for the position: a file of 512 KB or more is at its end at once.
* **Drives**: `dr` equal to the number of mounts passes the test and raises
  IndexError (`bdos_host.py:314`), which ends the host.
* **One byte too many**: `bdos_host_receivefcb` copies one byte behind the FCB or
  directory entry (`bdos_host.h:212`); `DmaFits` allows exactly that byte.

BASIC:

* **Out of memory**: replacing a line by one that does not fit loses the line, and the two
  bytes behind the program keep what they were (`basic_marker`).
* **FOR at the end of the integers**: NEXT compares after the addition has wrapped.  A
  loop whose limit leaves no room for a step never ends; one whose start is already
  beyond the limit and leaves no room for a step goes on from the other end.
  `LoopWithinLimit` speaks of the others.
* **LOAD in a program** replaces the text under `do_run`'s pointers
  (`basic/README.md` has it among the commands); `ControlInProgram` speaks of
  runs without it.
* **EDIT** of a line of full width writes one character behind `editbuf`.  A line typed
  without a space behind its number at full width loses a character at CLOAD.
* **Tape**: a CLOAD that is cancelled and tried again gets the rest of the old stream; a
  reset during CSAVE, followed by another within five seconds, is written into the
  same slot; a CLOAD that misses the end mark waits for a key for ever; a web page without a newline at its end loses its last line; a listing
  longer than a slot is cut.

Files on the host:

* The 256th handle is `FS_HOST_NO_HANDLE`, and after it `bytes([hi])` raises
  ValueError.  Opening a file that does not exist raises too; so does closing a
  directory that does not exist, or it closes another.  All of them end the host.
* A reply of no data is a frame of length zero, which the device skips as padding:
  reading at the end of a file, an empty file, the end of a directory and fwrite, which
  is not answered at all, wait for ever.  `CallsReturn` says which calls return.
* `fs_host_readdir` returns NULL always (`fs_host_receive_asciiz` returns 0).
* READ ignores the length asked for.  Each file system has one temporary object, so
  that fopen on `int` ends a listing of `int`.  Names are copied without a bound.

AGI:

* The number of a directory entry is compared with the size by `>`, one entry too
  far; an opening behind the end, such as drawing a missing picture, loses a ROM
  handle for ever (twice for a picture).  After six LOG0 cannot be opened any more.
* Three nested logics use up the pool; the next handle is a negative index
  (`agi_logic.c:211`, `agi_view.c:619`, `agi_view.c:651`).
* WORDS returns the ROM handle instead of the resource handle (`vagi_res.h:274`).  The
  volume is a nibble into an array of six.

ParaBuddy:

* After one late answer the device may stay one answer behind for good (`LagIsLate`), and
  slots of the buddy are lost without bound.
* `pb_receiveRaw` stores as many bytes as the length byte says, into a frame of 64;
  `pb_receiveAsciiz` after a failure terminates the name at its full length, one behind
  `fs_pb_tmpName`.  `pb_ping` takes success for failure.
* The end of a file is not known to the sketch, so `feof` is true after a timeout; a load
  that a timeout cuts is taken as complete.  A dead sketch leaves a listing endless.
* `tools/parabuddy.py` numbers the file commands in decimal where the device uses
  hexadecimal, and answers none of them.

CP/M:

* `ccp_run` is naked and falls into `ccp_dir`: a program that ends with RET shows a
  listing and is run a second time (`ccp.c:423` and 736).  With its own DMA address, what
  is loaded next is the old content of the area, record for record.
* A program longer than the space below CCP overwrites it; a read error ends a load as
  the end of the file does.
* Boot jumps to the place of the command processor whether or not CCP.COM was read.

### Bounds

Link: requests of one and two bytes, replies of none, one and two; `HostMaxData` 4,
so that a garbled length of 5 is too long and 3 shorter or longer than the frame;
three requests, so that a stale acknowledgement or reply has a later request to be
mistaken for; ten frames sent per side (`MaxSend`) leave room for the repetitions one
fault causes, and stop the storm in which both ends repeat for ever; one fault
(`MaxFault`), because the properties fail with two.  Where a bound is reached the
system stops, hence CHECK_DEADLOCK FALSE in these runs.

Files: two FCBs, two files (a record and a part; exactly one record) and in
`files_near` one of 4096 records less a byte, with random records at 0, 127 and the
last two.  `DmaMtu` is 48 in `files`, so that the last frame of a record is shorter,
and 64, the code's, in `files_near`.  Requests queue two deep (`MaxAhead`) where
unanswered calls may run ahead of the host.  Deadlock is checked in `files`; the
inputs of `files_near` include the drive that stops the host and a second DMA address,
those of `files` do not.  Of the two files of `files` one has an extension of three
characters and is spelled as typed, the other a shorter one and is in lower case.  With a second DMA address its invariants hold as well (3.7
million states), but its liveness property takes too long to check at each change.

Checksum: messages that end with a reply the device has received, behind four beginnings
of up to 20 bytes, each followed by up to three bytes; with 16 bits and a shift for each byte, what is further than 16 bytes from the end has
left the word.

BASIC: 15 bytes hold three short lines, or two and not a third; five inputs (`MaxTyped`)
are enough to type a program, save, change, load and run it.  Stacks of two
overflow; `IntMax` 3 makes loop variables wrap.  Tape: one slot of 14 characters that
a full program's listing exceeds; five calls, one lost byte.

File layer: `NO_HANDLE` is 2, so that the numbers run out with the fourth handle; files of
three bytes, read two at a time, and an empty one.  AGI: the pool of six as in the
code, two rounds of LOG0 instead of ten, three numbers in each directory of which one
is broken in a different way.  ParaBuddy: two slots as in the sketch, three faults (a
fault more than slots) and two late answers.  CP/M: programs of one and two records
(`Most`, which bounds the records of a program, is 3).

Where the user or the program may stop for good, or a count is used up, the cfg says
CHECK_DEADLOCK FALSE; `files` and `ccp` are checked for deadlock.

### Fairness

`HostLink!FairSpec` has weak fairness of the device as a whole and of the host as
a whole, `CpmFiles!FairSpec` of the device's receipt and of the host: both programs
are loops that poll or block on a read and go on as soon as there is a byte; neither
waits for anything else.  Nothing is assumed of the application: it may stop calling.
No fairness is given to the line.

`BasicTape!TapeFairSpec`: the ESP's loop goes on, and so does the device with what it has
begun to send; both are single loops.  `FileLayer!FairSpec`: the device's receipt
and the host's loop, as in `CpmFiles`.  `AgiLogic!FairSpec`: one thread that waits for
nothing in a frame.  `ParaBuddy!FairSpec`: a program that lists goes on to list
(`monitor.c` does so in a loop), a call takes what arrives or times out, the sketch
serves.  Nothing is assumed of the user and the line, and of the faults only that there
are not endlessly many: the bounds `MaxFaults` and `MaxLate`, without which a listing whose every
answer is lost would not end.

## 5. The proofs

A theorem holds for every value of the constants that the ASSUMEs of its module
allow; TLC evaluates these in the runs.  Each has an inductive invariant with one
lemma for each action, and the steps of the specification are put together by PTL at
the end.  Where a theorem has a hypothesis of its own, it is named below.

`HostLinkProofs` (every set of requests and replies, checksum, buffer size,
padding, driver, and any number of faults):

* `TypeCorrect`: `Spec => [](TypeOK /\ SendersHold)`.  `TypeOK` is not inductive: that
  the frame to be sent is one the application asked for depends on where the sender
  is, which `SendersHold` says.  `Frame`, `Zeros` and the appends to the line have
  lemmas of their own.
* `BufferSafe`: `BufferBounded`, by induction over the types: the only step that
  makes room to store is `DevLen`, which lets no length above `HostMaxData` through.
* `CallsInStep`: `OneOutstanding`: only `DevAsk` begins a request, only `DevStatus`
  and `DevLo` end one, and neither changes the frame being repeated.
* `LinkIsRpc`: `Spec /\ []FaultFree => ExactlyOnce`, the link implements `HostRpc` as
  long as no byte is garbled, lost or late; `NoFaultsIsRpc` is the case of constants
  that allow no fault, which is the instance `link_mame` runs.  The invariant,
  `InExchange`, lists the states of one exchange (`AtRest`, `ToSend`, `OnItsWay`,
  `Accepted`, `Awaiting`, `Received`) with the bytes under way in each, up to padding
  (`Padded`): so each byte read is the one the reader expects, the checksum agrees,
  and a step is `Ask`, `Serve`, `Answer` or a stutter.  Hypothesis `RepliesFit`: no
  reply is longer than `HOST_MAX_DATA` = 144 (the hosts cut data at `DMA_MTU` = 64 and
  `MAX_SEND` = 120 bytes); the device refuses a longer one for ever.
* `FaultFreeIsSafe`: from the same invariant, `NoHang`, `Integrity`, `Delivered` and
  `ReplyMatches` while no fault has happened.
* `WaitingNeverHangs`: `NoHang` as `link_faults` checks it, for a driver that waits for
  each byte (`Blocking`, MAME): none is late then, so that without a garbled or lost byte
  the line has had no fault.
* `PollingNeverHangs` (`NoHang` for the driver that polls) and `SlowLineIsSafe`
  (`Integrity`, `Delivered`): on a line that is only slow, with any number of late bytes.
  A device that gives up on a byte reads the rest of a frame as the next one and may answer
  it several times, so copies of frames and answers pile up.  The invariant, `InCourse`, does
  not list them: `OnCourse` says that there is a way of the host's reader through the bytes
  under way (`Way`: at each byte it is waiting for an answer, in front of a frame, or `k`
  bytes inside the frame of a request that was asked) which begins where the host is, ends
  where the device expects it, and goes through the frame of every request not yet handled.
  `HostReads` takes the first byte off the way, `DevSends` joins another way to its end.
  `NoAckLast` and `Answered` say that a waiting end has a byte to come.  Hypothesis
  `FramesClear`: no byte of a request's frame is 170, the value of ACK, and no reply is 170
  bytes long.  It is needed: a host that waits for an answer takes any byte for one
  (`Protocol_binary_safe.send_frame`), so that a 170 inside a request puts it at the
  beginning of a frame in the middle of another.  With requests `<<170>>` and
  `<<2, 170>>` TLC finds `NoHang` violated after two late bytes, the host reading the data
  of such a frame and the device waiting for a length; with one late byte it holds.

`CpmFilesProofs`, of `Fcb` (every FCB inside a module):

* `AdvanceMovesOne`: the device's step to the next record makes the host read the
  next record, across every carry of `cr` into `ex`; the last record of the module
  is followed by record 16384.
* `SeekFinds`: `bdos_f_readrand_` makes of every number below 4096 the FCB that the
  host reads as that record.

`CpmFilesProofs`, of `CpmFiles` (every set of files, drives, FCBs, frame size and queue length):

* `TypeCorrect` and `StaysInStep` (`InStep`), by `TypeOK /\ Sync`: `Sync` says what is
  under way where.  A call that waits has either its frame with the host, or the one
  answer it waits for on the way back; nothing else is ever on the line.
* `NothingBehind` (`DmaFits`) follows from it.
* `RecordIsRight` (`RightRecord`), `EndIsRight` (`RightEnd`) and `PositionIsKept`
  (`PositionKept`) under `Small`: one
  file at a time, random records below 4096, files below 512 KB.  These are the limits of
  section 4; beyond them the code is wrong, and `files_near` goes up to them.  The
  invariant is that the host has the file loaded that the program opened (`Loaded`) and
  that the frames of an answer are cut from the record that the FCB stands for
  (`Served`); the arithmetic is that of the two theorems above.
* `SearchIsComplete` (`SearchComplete`) and `ListedCanBeOpened` (`ListedOpens`) under
  `DefaultDrive`: the FCB names the default drive or one that does not exist.  With any
  other, `fcb.h` and the code disagree about which mount is meant, and so what is
  listed of one is looked for in the other.  The second says where a file that was listed is found: under its name with
  blanks always, under the name with zeros if that is the same name.  It needs `Spellable` as well:
  every name of the host fits 8+3 and is in lower case or as typed.

`files` satisfies all these hypotheses, `files_near` satisfies `Small`.

`BasicProofs` (every `PROGRAM_SIZE`, size of the stacks, width of an int, set of lines and
statements, number of commands): `TypeCorrect`, `KeepsForm` (`ProgramWellFormed`),
`StaysOnLines` (`ControlInProgram`), `LoopsWithin` (`LoopWithinLimit`) and
`EditsImplemented` (`EditsAreLineEdits`, the refinement of `LineStore`).

* The functions that walk from line to line are defined for every sequence of bytes, so
  that even that they have values must be shown (`WalkUp`, by the greatest place at
  which one has none).  `Walk(prog, T)` then says what the walks only compute: the lines
  begin at the places `T`, each leads to the next, the numbers ascend, and the last ends
  where the end marker is to be, whatever lies there.  `CutWalk` and `PutWalk` say what `memmove` makes of `T` when
  a line goes or comes; `StoreKept` puts them together for `store_line`.
* The invariant adds where the interpreter stands (`Stands`) and where frames lead
  (`Leads`).  Both are weaker once LOAD has replaced the program in a run: then `p` is
  only some place in front of the end, which is still enough for the types.  A frame's
  place is a place of the program, not only that behind its line: RETURN and NEXT go on
  there.  At the prompt a frame may lead anywhere, since RUN empties the stacks.
* `GoneRound`: where start and limit leave room for a step, the sum that wraps is the
  sum.
* For the refinement, `StoreKept` says of the set of a program's lines, number and text,
  what `store_line` does to it (`LineSet`, `OtherLines`), and `LinesOfKept` that this set
  is what `LinesOf` makes of the bytes.  That `LineStore`'s capacity is kept needs the
  sum over all lines, `Used`, which the community modules compute by a function that is
  chosen: `SumOfParts` shows that it is the number of bytes in parts that do not meet,
  by a least set of lines for which it is not, and `UsedIs` that the lines' bytes are
  such parts and fill the program up to its end marker.

`BasicProofs`, of `BasicTape` (every `PROGRAM_SIZE`, `LineMax` and `SLOT_MAX_LEN`, every set
of slots, of typed lines and of pages, any number of calls and of bytes missed):
`TapeTypeCorrect` (`TapeTypeOK`: among others the line buffer keeps room for its zero,
whatever a slot sends) and `LoadGivesBack` (`LoadedIsKept`), by `TapeIInv`.

* `TapePrograms`: a program in memory is one that a listing gives back (`Tidy`: its form is
  kept, its numbers are words, no text begins with a space or has a line end), also when it
  was loaded from any page; and the slot of a kept program holds its listing, cut at the
  limit (`CutTo`).
* `Transfer`, while `clean`: how many of the bytes that CSAVE or CLOAD sent the store has
  read, with the rest under way in its UART and in the device (`Saving`, `Fetching`); or
  which lines are loaded, what of the next one is in `linebuf`, and that the file still has
  what follows (`Sending`, `LoadedTo`).  A reset cuts such a text short but never changes
  it, which is why `UnderWay` bounds the bytes instead of counting them.
* `ReadsBack`: the digits of a word are read as that word.  `ListedIsStored`: a listed line
  typed in is `store_line` of its number and text; `StoredBehind`: it comes behind the lines
  loaded before, and there is room, since the program it comes from had room for it.
* `ListWalks`, `ListsLines`: the listing is one piece of text for each place of `Walk`, in
  the order of the places.  `LoadOn` is a byte taken by CLOAD, `LoadDone` its end: the lines
  loaded are the first ones of the kept program, all of them if nothing was cut off.

`CcpProofs` (every set of programs): `TypeCorrect` and `StartsWhole` (`RunsWhole`), by
`TypeOK /\ Booted /\ LowOrReturned /\ Loading`: what of CCP is intact, where the DMA address may point in each place, and that a load has put
exactly the records read so far behind one another.

`FileLayerProofs` (every number of handles, files, size of reads):

* `TypeCorrect` and `HandleAlive` (`HandleLive`).  The invariant counts what is under way
  (`Turns`: one call or one answer), keeps positions inside files (`WithinFile`), says of
  each answer what it was cut from (`AnswerHolds`), and of each open object which of
  the host's handles is its own (`FileLive`, `DirLive`, `ClosesOthers`, `IntLive`).
* `StreamsImplemented`: `ReadsAreStreams`, the refinement of `FileStream` on both mounts, step
  by step: every action is a step of the stream of the file it names or leaves it alone.

`AgiLogicProofs` (pools of every size, every directory and every game): `TypeCorrect`,
`Owned` (`HandlesOwned`), `AccountKept` (`Accounted`) and `WildAtTheLimit`
(`WildOnlyAtTheLimit`).  The invariant says of each place on the C stack which handles it
owns, that these are open and distinct, and that the open handles nobody owns are as
many as `lost` counts; so a pool is full only by nesting and loss together.  What
`VagiRes` does with the pools is in lemmas of its own.

`ParaBuddyProofs` (every number of slots, late answers, faults and entries): `TypeCorrect`,
`LagBounded` (`LagIsLate`), `AnswersAreRight` (`AnswersFit`) and `SlotsAreAccounted`
(`SlotsAccounted`).  The invariant is that a call waits for an answer of its own kind, that
at most one frame or answer under way is its own, that the others are at most as many as
calls gave up early, and, while no call has, that nothing else is under way, that the
answer is right, and that the slots in use are the open file's, the listing's and the
lost ones.  How many there are is a cardinality of a set of places in a queue; the
lemmas about it say what sending and receiving do to that number.

`HostChecksumProofs` (messages of every length, over all bytes, that end with what the
device received, which `HostLinkProofs` shows to be bytes): `ChecksumsAgree`
(`BothAgree`) and `TailErrorsDetected` (`TailErrorDetected`).

* The two folds and the reference's count are recursive functions over the prefixes of the
  message.  That they have the values their recursion says is `FoldExists`; what holds of
  all these values is shown by `UpTo`, an induction that takes a set of numbers in place
  of a predicate.
* `BitsOf` and `SameBits`: a word is its sixteen bits.  By `ShiftUp` and `XorBits` the step of
  both ends puts into bit `i` the parity of the byte's bit and of bit `i - 1` before
  (`StepBits`, `StepsAgree`), and by `ParityStep` so does the reference.
* A changed byte differs in some bit below the eighth; that difference moves up by one with
  each byte that follows, and after eight it is at bit 15 at most (`ByteMatters`).

`LeastExists`, in several of these modules: every set of numbers has a least one, which is
where choices of "the first free" or "the first that fits" come from, and induction.

Only model-checked:

* Liveness, `LoadEnds` and the others: no prover here handles ENABLED.
* `Integrity` and `Delivered` of `HostLink` when a byte was garbled or lost: they bound the
  damage of one such fault, fail with two, and depend on what the checksum detects, so that
  an inductive invariant would have to list what one fault can leave on the line, position by
  position.  `ReplyMatches` under any fault, a late byte included: what the device then reads
  as a frame begins in the middle of one, and only the checksum tells it from a frame, which
  no theorem for every checksum can use.  Without a fault all three are proved.

## 6. Not modelled

Of the modelled parts: the hex and the plain binary protocol byte by byte, throttling
delays, LEDs and messages on the display; console functions and the BDOS functions that
are stubs; record count, allocation map and `r2` of the FCB; the bytes of files;
BASIC's expressions, variables, graphics and sound, DEFSP and with it the shortening of
its digits when a line is stored (`normalize_defsprite`); the AVR fallback of the ESP
store (in it, slots from 4 on are slot 3); banks and offsets of the ROM, and whether a
seek goes over 64 KB; AGI's flags, variables, conditions and jumps back; paths of the
file layer; the bytes and the strobe of ParaBuddy's frames; the commands of CCP that
touch ports and memory only.

Of the rest: `BusBuddy` has no peer in the repository and its file system includes a
file that does not exist.  Keyboards, display, sound, speech, software serial and
start-up code are port accesses and counted instructions whose correctness is the
hardware's.  Fonts are data, a quarter of the lines of the tree: with drawing, games and
port access they are most of it, which is why the map covers a small share.  The monitor keeps no
state between commands, the loader patches addresses once.  Games and demos use
the library and add nothing to it; `dungeonbash_original` is a third party's program.
Build tools run offline.
