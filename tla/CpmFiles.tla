------------------------------ MODULE CpmFiles ------------------------------
(***************************************************************************)
(* CP/M file access: the BDOS file functions of the device (bdos.c and     *)
(* bdos_host.h) and the host that serves its directories to them           *)
(* (bdos_host.py), over a link that carries frames reliably and in order,  *)
(* as HOST_PROTOCOL_BINARY does with the MAME driver.                      *)
(*                                                                         *)
(* A transient program calls the BDOS, which sends the FCB to the host and *)
(* waits for the frames of the answer; CLOSE and the write functions are   *)
(* sent and not answered.  The host keeps no file handles: it has one      *)
(* loaded file and one directory listing, and takes the position from the  *)
(* FCB of every request.                                                   *)
(***************************************************************************)
EXTENDS Integers, Sequences, Fcb

CONSTANTS
    Name,       \* file names as an FCB holds them
    Zeroed,     \* for each name, the same filled up with zeros where blanks fill it up
    Mounts,     \* BDOS_MOUNTS: for each mount, its directory listing in order
    FcbAddr,    \* addresses of the FCBs the program uses
    DmaAddr,    \* addresses it sets as DMA address
    Drive,      \* values it puts into dr
    Rand,       \* random record numbers it asks for
    Pattern,    \* names it searches for: names, or AnyName for ???????????
    DmaMtu,     \* DMA_MTU: data bytes per frame, 64
    OneFile,    \* TRUE: the program opens a file only when no other is open
    MaxAhead    \* bound: requests under way

\* A program fills the 8 characters of a name and the 3 of its extension up with blanks;
\* the host, in the entries it lists, with zeros.  An open cuts the name at a zero and
\* strips blanks from both, but it leaves the zeros of the extension: the two are the same
\* name, Zeroed[n] = n, if the extension has its three characters, and otherwise the one
\* with zeros is no file's.

\* How the host's file system spells a name: exactly as the FCB does, in lower
\* case, or otherwise (mixed case, no extension, more than 8+3 characters).
Spelling == {"exact", "lower", "other"}
MaxSize  == 134217727       \* beyond 128 MB the host's s2 does not fit a byte
HostFile == [name : Name, spelled : Spelling, size : 0..MaxSize]
NoFile   == [name |-> "none", spelled |-> "other", size |-> 0]
AnyName  == "?"
DefaultDma == 128
Byte == 0..255
Word == 0..65535

ASSUME MountsAssumption == Mounts # <<>> /\ Mounts \in Seq(Seq(HostFile))
ASSUME NameAssumption   == AnyName \notin Name /\ "none" \notin Name /\ Pattern \subseteq Name \cup {AnyName}
ASSUME ZeroedAssumption ==
    /\ Zeroed \in [Name -> Name] /\ \A n \in Name : Zeroed[Zeroed[n]] = Zeroed[n]
    /\ \A m, l \in 1..Len(Mounts) : \A i \in 1..Len(Mounts[m]) : \A j \in 1..Len(Mounts[l]) :
           Zeroed[Mounts[m][i].name] = Zeroed[Mounts[l][j].name] => Mounts[m][i].name = Mounts[l][j].name
ASSUME AddrAssumption   == FcbAddr \subseteq Nat /\ DmaAddr \subseteq Nat /\ DefaultDma \in DmaAddr
ASSUME InputAssumption  == Drive \subseteq Byte /\ Rand \subseteq Word
ASSUME MtuAssumption    == DmaMtu \in 1..128
ASSUME BoundAssumption  == OneFile \in BOOLEAN /\ MaxAhead \in Nat \ {0}

VARIABLES
    fcb,        \* the FCBs in the device's memory
    dma,        \* bios_dma
    slot,       \* bdos_fcb_num: the quarter of the DMA area that has the last entry
    junk,       \* addresses the last answer overwrote outside the FCB or DMA area of its call
    pc,         \* "program", or the answer the BDOS waits for
    call,       \* the function called and its FCB; history: file and record it is for
    got, total, \* the data received so far by bdos_host_receivedma, and l_total
    ret,        \* what the last call returned: A, directory entry, record
    d2h, h2d,   \* the frames under way
    hpc,        \* "serving", or "stopped" by an exception
    dat,        \* dat_data: the loaded file
    dirList, dirI,             \* dir_list and dir_i
    opened,     \* history: the file each FCB was opened on
    next,       \* history: the record each FCB stands at
    listing,    \* history: what the search in progress is to return ...
    listed      \* history: ... and has returned

device  == <<fcb, dma, slot, junk, pc, call, got, total, ret>>
host    == <<hpc, dat, dirList, dirI>>
history == <<opened, next, listing, listed>>
vars    == <<device, d2h, h2d, host, history>>

NoFcb  == [dr |-> 0, name |-> AnyName, ex |-> 0, s2 |-> 0, cr |-> 0, r0 |-> 0, r1 |-> 0]
NoCall == [fn |-> "none", at |-> 0, file |-> NoFile, rec |-> 0]
NoRet  == [a |-> 0, name |-> AnyName, data |-> <<>>]

Init ==
    /\ fcb = [a \in FcbAddr |-> NoFcb] /\ dma = DefaultDma
    /\ slot = 0 /\ junk = {}
    /\ pc = "program" /\ call = NoCall /\ got = <<>> /\ total = 0 /\ ret = NoRet
    /\ d2h = <<>> /\ h2d = <<>>
    /\ hpc = "serving" /\ dat = NoFile /\ dirList = <<>> /\ dirI = 0
    /\ opened = [a \in FcbAddr |-> NoFile] /\ next = [a \in FcbAddr |-> 0]
    /\ listing = <<>> /\ listed = <<>>

-----------------------------------------------------------------------------
(* The mounts.                                                             *)

\* The mount handle_frame picks for dr: '?' (0x3f) is the default drive, and so
\* is a dr above the number of mounts.  (Python counts mounts from 0.)
MountOf(dr) == IF dr = 63 \/ dr > Len(Mounts) THEN 1 ELSE dr + 1

\* The mount fcb.h means by dr: 0 is the default drive, 1 is A.
NamedMount(dr) == IF dr \in 1..Len(Mounts) THEN dr ELSE 1

InMount(m, n, spelled) ==
    {Mounts[m][i] : i \in {j \in 1..Len(Mounts[m]) : Mounts[m][j].name = n /\ Mounts[m][j].spelled = spelled}}

\* Mutant of Lookup: no second attempt in lower case.
Lookup_NoLower(m, n) == InMount(m, n, "exact")

\* The file F_OPEN finds: the name as it stands, else in lower case.  A name with zeros
\* in its extension is in no mount.
Lookup(m, n) == IF InMount(m, n, "exact") # {} THEN InMount(m, n, "exact") ELSE InMount(m, n, "lower")

-----------------------------------------------------------------------------
(* The device: calls of the transient program.                             *)

\* bdos_host_sendfcb; the BDOS goes on to wait for the answer, or returns.
Send(fn, f) ==
    /\ pc = "program" /\ Len(d2h) < MaxAhead
    /\ d2h' = Append(d2h, [fn |-> fn, fcb |-> f])

\* fopen: prepares the FCB and calls F_OPEN.
Open(a, dr, n) ==
    LET f == [NoFcb EXCEPT !.dr = dr, !.name = n]
    IN  /\ OneFile => \A b \in FcbAddr \ {a} : opened[b] = NoFile
        /\ Send("open", f)
        /\ pc' = "open" /\ call' = [NoCall EXCEPT !.fn = "open", !.at = a]
        /\ fcb' = [fcb EXCEPT ![a] = f]
        /\ opened' = [opened EXCEPT ![a] = NoFile]
        /\ UNCHANGED <<dma, slot, junk, got, total, ret, h2d, host, next, listing, listed>>

\* F_CLOSE is not answered.
Close(a) ==
    /\ opened[a] # NoFile
    /\ Send("close", fcb[a])
    /\ call' = [NoCall EXCEPT !.fn = "close", !.at = a] /\ ret' = NoRet
    /\ fcb' = [fcb EXCEPT ![a] = Closed(@)]
    /\ opened' = [opened EXCEPT ![a] = NoFile]
    /\ UNCHANGED <<dma, slot, junk, pc, got, total, h2d, host, next, listing, listed>>

\* F_WRITE, F_WRITERAND and F_WRITEZF send the FCB and return a "fake OK".
Write(a) ==
    /\ opened[a] # NoFile
    /\ Send("write", fcb[a])
    /\ call' = [NoCall EXCEPT !.fn = "write", !.at = a] /\ ret' = NoRet
    /\ UNCHANGED <<fcb, dma, slot, junk, pc, got, total, h2d, host, history>>

\* F_READ: the record at the FCB's position.
Read(a) ==
    /\ opened[a] # NoFile
    /\ Send("read", fcb[a])
    /\ pc' = "status" /\ got' = <<>> /\ total' = 0
    /\ call' = [fn |-> "read", at |-> a, file |-> opened[a], rec |-> next[a]]
    /\ UNCHANGED <<fcb, dma, slot, junk, ret, h2d, host, history>>

\* freadrand: moves the FCB to a record, and sends F_READ.
ReadRandom(a, rr) ==
    LET f == Seek(fcb[a], rr % 256, rr \div 256)
    IN  /\ opened[a] # NoFile
        /\ Send("read", f)
        /\ pc' = "status" /\ got' = <<>> /\ total' = 0
        /\ call' = [fn |-> "readrand", at |-> a, file |-> opened[a], rec |-> rr]
        /\ fcb' = [fcb EXCEPT ![a] = f]
        /\ next' = [next EXCEPT ![a] = rr]
        /\ UNCHANGED <<dma, slot, junk, ret, h2d, host, opened, listing, listed>>

\* bdos_f_s_: the slot moves on whether or not there is another entry.
Search(fn, a, f) ==
    /\ opened[a] = NoFile
    /\ Send(fn, f)
    /\ pc' = "entry" /\ call' = [NoCall EXCEPT !.fn = fn, !.at = a]
    /\ slot' = (slot + 1) % 4
    /\ fcb' = [fcb EXCEPT ![a] = f]
    /\ UNCHANGED <<dma, junk, got, total, ret, h2d, host, opened, next>>

\* ccp_dir and the programs that search set drive, name and extent.
SearchFirst(a, dr, n) ==
    /\ Search("sfirst", a, [fcb[a] EXCEPT !.dr = dr, !.name = n, !.ex = 0])
    /\ listing' = Mounts[NamedMount(dr)] /\ listed' = <<>>
SearchNext(a) == Search("snext", a, fcb[a]) /\ UNCHANGED <<listing, listed>>

\* F_DMAOFF.
SetDma(d) ==
    /\ pc = "program" /\ d # dma
    /\ dma' = d
    /\ UNCHANGED <<fcb, slot, junk, pc, call, got, total, ret, d2h, h2d, host, history>>

\* The program ends: bios_wboot and bdos_init.  The host is not told.
WarmBoot ==
    /\ pc = "program"
    /\ dma' = DefaultDma /\ slot' = 0 /\ junk' = {} /\ call' = NoCall /\ ret' = NoRet
    /\ opened' = [a \in FcbAddr |-> NoFile]
    /\ UNCHANGED <<fcb, pc, got, total, d2h, h2d, host, next, listing, listed>>

-----------------------------------------------------------------------------
(* The device: answers.                                                    *)

\* bdos_host_receivefcb copies l bytes, status byte counted, although it leaves
\* the status byte out: one byte more than the FCB or directory entry has.
Copied(addr, l) == addr..(addr + l - 1)

\* bdos_f_open_.
ReceiveOpen ==
    LET r == Head(h2d)
        a == call.at
    IN  /\ pc = "open" /\ h2d # <<>>
        /\ h2d' = Tail(h2d) /\ pc' = "program"
        /\ IF r.status = 255
           THEN ret' = [NoRet EXCEPT !.a = 255] /\ UNCHANGED <<fcb, junk, opened, next>>
           ELSE /\ ret' = NoRet
                /\ fcb' = [fcb EXCEPT ![a] = r.fcb]
                /\ junk' = Copied(a, r.len) \ (a..a + 35)
                /\ opened' = [opened EXCEPT ![a] = r.file]
                /\ next' = [next EXCEPT ![a] = 0]
        /\ UNCHANGED <<dma, slot, call, got, total, d2h, host, listing, listed>>

\* bdos_f_s_: the entry goes into the slot, and the slot is returned.
ReceiveEntry ==
    LET r == Head(h2d)
    IN  /\ pc = "entry" /\ h2d # <<>>
        /\ h2d' = Tail(h2d) /\ pc' = "program"
        /\ IF r.status = 255
           THEN ret' = [NoRet EXCEPT !.a = 255] /\ UNCHANGED <<junk, listed>>
           ELSE /\ ret' = [NoRet EXCEPT !.a = slot, !.name = r.name]
                /\ junk' = Copied(dma + slot * 32, r.len) \ (dma..dma + 127)
                /\ listed' = Append(listed, r.name)
        /\ UNCHANGED <<fcb, dma, slot, call, got, total, d2h, host, opened, next, listing>>

\* bdos_host_receive_byte: a frame of any other length is an error.
ReceiveStatus ==
    LET r == IF Head(h2d).len = 1 THEN Head(h2d).status ELSE 255
    IN  /\ pc = "status" /\ h2d # <<>>
        /\ h2d' = Tail(h2d)
        /\ IF r = 0
           THEN pc' = "data" /\ UNCHANGED ret
           ELSE pc' = "program" /\ ret' = [NoRet EXCEPT !.a = r]
        /\ UNCHANGED <<fcb, dma, slot, junk, call, got, total, d2h, host, history>>

\* Mutant of ReceiveData: a random read moves on, too.
ReceiveData_Always ==
    LET r == Head(h2d)
        a == call.at
    IN  /\ pc = "data" /\ h2d # <<>>
        /\ h2d' = Tail(h2d)
        /\ IF r.status = 32
           THEN /\ got' = Append(got, [file |-> r.file, ofs |-> r.ofs, len |-> r.len - 1])
                /\ total' = total + r.len - 1
           ELSE got' = (IF r.status = 26 THEN got ELSE <<>>) /\ UNCHANGED total
        /\ IF r.status = 32 /\ total' < recsize
           THEN UNCHANGED <<fcb, junk, pc, ret, next>>
           ELSE /\ pc' = "program" /\ ret' = [NoRet EXCEPT !.data = got']
                /\ junk' = {}
                /\ fcb' = [fcb EXCEPT ![a] = Advance(@)]
                /\ next' = IF call.fn = "read" THEN [next EXCEPT ![a] = @ + 1] ELSE next
        /\ UNCHANGED <<dma, slot, call, d2h, host, opened, listing, listed>>

\* One frame of bdos_host_receivedma: data until the record is full, or the end
\* of the file.  The rest of the DMA area is padded with 0x1A, and F_READ moves
\* on to the next record, F_READRAND does not.
ReceiveData ==
    LET r == Head(h2d)
        a == call.at
    IN  /\ pc = "data" /\ h2d # <<>>
        /\ h2d' = Tail(h2d)
        /\ IF r.status = 32
           THEN /\ got' = Append(got, [file |-> r.file, ofs |-> r.ofs, len |-> r.len - 1])
                /\ total' = total + r.len - 1
           ELSE got' = (IF r.status = 26 THEN got ELSE <<>>) /\ UNCHANGED total
        /\ IF r.status = 32 /\ total' < recsize
           THEN UNCHANGED <<fcb, junk, pc, ret, next>>
           ELSE /\ pc' = "program" /\ ret' = [NoRet EXCEPT !.data = got']
                /\ junk' = {}
                /\ IF call.fn = "read"
                   THEN fcb' = [fcb EXCEPT ![a] = Advance(@)] /\ next' = [next EXCEPT ![a] = @ + 1]
                   ELSE UNCHANGED <<fcb, next>>
        /\ UNCHANGED <<dma, slot, call, d2h, host, opened, listing, listed>>

-----------------------------------------------------------------------------
(* The host: handle_frame.                                                 *)

\* mounts[fcb_dr] raises IndexError where dr is the number of mounts.
NoSuchMount(dr) == dr = Len(Mounts) /\ dr # 63

Take(fn) ==
    /\ hpc = "serving" /\ d2h # <<>> /\ Head(d2h).fn \in fn
    /\ ~NoSuchMount(Head(d2h).fcb.dr)
    /\ d2h' = Tail(d2h)

\* The drive is looked up whatever the function; nothing catches the exception.
HostCrash ==
    /\ hpc = "serving" /\ d2h # <<>> /\ NoSuchMount(Head(d2h).fcb.dr)
    /\ hpc' = "stopped" /\ d2h' = Tail(d2h)
    /\ UNCHANGED <<device, h2d, dat, dirList, dirI, history>>

Status(v) == [status |-> v, len |-> 1]

\* The FCB F_OPEN answers with: s2 is the size's, not the position's, module.
OpenedFcb(f, file) ==
    [NoFcb EXCEPT !.dr = f.dr, !.name = f.name, !.s2 = OpenBit + ((file.size \div 524288) % OpenBit)]

HostOpen ==
    LET f == Head(d2h).fcb
        found == Lookup(MountOf(f.dr), f.name)
    IN  /\ Take({"open"})
        /\ IF found = {}
           THEN h2d' = Append(h2d, Status(255)) /\ UNCHANGED dat
           ELSE /\ dat' = CHOOSE file \in found : TRUE
                /\ h2d' = Append(h2d, [status |-> 0, len |-> 37, fcb |-> OpenedFcb(f, dat'), file |-> dat'])
        /\ UNCHANGED <<device, hpc, dirList, dirI, history>>

\* Mutant of HostClose: the close is answered.
HostClose_Answers ==
    /\ Take({"close"})
    /\ dat' = NoFile /\ h2d' = Append(h2d, Status(0))
    /\ UNCHANGED <<device, hpc, dirList, dirI, history>>

\* Whatever file the FCB names, the loaded one is dropped.
HostClose ==
    /\ Take({"close"})
    /\ dat' = NoFile
    /\ UNCHANGED <<device, h2d, hpc, dirList, dirI, history>>

\* No branch handles the write functions: nothing happens, nothing is answered.
HostWrite ==
    /\ Take({"write"})
    /\ UNCHANGED <<device, h2d, host, history>>

\* Mutant of HostSearch: search first does not rewind.
HostSearch_NoRewind ==
    LET req == Head(d2h)
        list == IF req.fn = "sfirst" THEN Mounts[MountOf(req.fcb.dr)] ELSE dirList
    IN  /\ Take({"sfirst", "snext"})
        /\ IF dirI >= Len(list)
           THEN /\ h2d' = Append(h2d, Status(255)) /\ dirList' = <<>> /\ UNCHANGED dirI
           ELSE /\ h2d' = Append(h2d, [status |-> 0, len |-> 33, name |-> Zeroed[list[dirI + 1].name]])
                /\ dirList' = list /\ dirI' = dirI + 1
        /\ UNCHANGED <<device, hpc, dat, history>>

\* F_SFIRST lists the directory anew, whatever name the FCB has; either function
\* returns the next entry, its name filled up with zeros, and drops the listing at its
\* end.  (<<>> is both None
\* and the empty listing, which are answered alike.)
HostSearch ==
    LET req == Head(d2h)
        list == IF req.fn = "sfirst" THEN Mounts[MountOf(req.fcb.dr)] ELSE dirList
        i == IF req.fn = "sfirst" THEN 0 ELSE dirI
    IN  /\ Take({"sfirst", "snext"})
        /\ IF i >= Len(list)
           THEN h2d' = Append(h2d, Status(255)) /\ dirList' = <<>> /\ dirI' = i
           ELSE /\ h2d' = Append(h2d, [status |-> 0, len |-> 33, name |-> Zeroed[list[i + 1].name]])
                /\ dirList' = list /\ dirI' = i + 1
        /\ UNCHANGED <<device, hpc, dat, history>>

Least(x, y) == IF x < y THEN x ELSE y

\* A frame of DMA data: the i-th of a record that has all bytes from ofs on.
Chunk(file, ofs, all, i) ==
    [status |-> 32, len |-> 1 + Least(DmaMtu, all - (i - 1) * DmaMtu),
     file |-> file, ofs |-> ofs + (i - 1) * DmaMtu]

\* Mutants of Transfer: the last, shorter frame left out; all of the file that
\* is left.
Transfer_NoTail(file, ofs) ==
    LET all == Least(recsize, file.size - ofs)
        n   == all \div DmaMtu
    IN  [i \in 1..n + (IF all < recsize THEN 2 ELSE 1) |->
            IF i = 1 THEN Status(0) ELSE IF i <= n + 1 THEN Chunk(file, ofs, all, i - 1) ELSE Status(26)]
Transfer_NoMax(file, ofs) ==
    LET all == file.size - ofs
        n   == (all + DmaMtu - 1) \div DmaMtu
    IN  [i \in 1..n + 2 |-> IF i = 1 THEN Status(0) ELSE IF i <= n + 1 THEN Chunk(file, ofs, all, i - 1) ELSE Status(26)]

\* The frames of a successful read: OK, the data in frames of DMA_MTU bytes,
\* and DMA_EOF where the record is not full.
Transfer(file, ofs) ==
    LET all == Least(recsize, file.size - ofs)
        n   == (all + DmaMtu - 1) \div DmaMtu
    IN  [i \in 1..n + (IF all < recsize THEN 2 ELSE 1) |->
            IF i = 1 THEN Status(0) ELSE IF i <= n + 1 THEN Chunk(file, ofs, all, i - 1) ELSE Status(26)]

\* Mutant of HostRead: a read exactly at the end of the file is served.
HostRead_AtEnd ==
    LET ofs == HostRecord(Head(d2h).fcb) * recsize
    IN  /\ Take({"read"})
        /\ h2d' = h2d \o (IF dat = NoFile THEN <<Status(255)>>
                          ELSE IF ofs > dat.size THEN <<Status(1)>>
                          ELSE Transfer(dat, ofs))
        /\ UNCHANGED <<device, host, history>>

\* F_READ reads the loaded file, at the FCB's position.
HostRead ==
    LET ofs == HostRecord(Head(d2h).fcb) * recsize
    IN  /\ Take({"read"})
        /\ h2d' = h2d \o (IF dat = NoFile THEN <<Status(255)>>
                          ELSE IF ofs >= dat.size THEN <<Status(1)>>
                          ELSE Transfer(dat, ofs))
        /\ UNCHANGED <<device, host, history>>

Calls ==
    \/ \E a \in FcbAddr, dr \in Drive, n \in Name : Open(a, dr, n)
    \/ \E a \in FcbAddr : Close(a) \/ Write(a) \/ Read(a) \/ SearchNext(a)
    \/ \E a \in FcbAddr, rr \in Rand : ReadRandom(a, rr)
    \/ \E a \in FcbAddr, dr \in Drive, n \in Pattern : SearchFirst(a, dr, n)
    \/ \E d \in DmaAddr : SetDma(d)
    \/ WarmBoot
Receive == ReceiveOpen \/ ReceiveEntry \/ ReceiveStatus \/ ReceiveData
Host == HostCrash \/ HostOpen \/ HostClose \/ HostWrite \/ HostSearch \/ HostRead

Next == Calls \/ Receive \/ Host
Spec == Init /\ [][Next]_vars

\* The BDOS polls for its answer and the host for requests, both for ever; when
\* the program calls is its own affair.
FairSpec == Spec /\ WF_vars(Receive) /\ WF_vars(Host)

-----------------------------------------------------------------------------
(* Properties                                                              *)

Fcbs    == [dr : Byte, name : Name \cup {AnyName}, ex : Byte, s2 : Byte, cr : Byte, r0 : Byte, r1 : Byte]
File    == HostFile \cup {NoFile}
Segment == [file : File, ofs : Nat, len : 1..128]
FnName  == {"open", "close", "write", "read", "sfirst", "snext"}
Answer  == [status : {0, 1, 26, 255}, len : {1}]
           \cup [status : {0}, len : {37}, fcb : Fcbs, file : HostFile]
           \cup [status : {0}, len : {33}, name : Name]
           \cup [status : {32}, len : 2..129, file : HostFile, ofs : Nat]

Request == [fn : FnName, fcb : Fcbs]
Pending == [fn : FnName \cup {"none", "readrand"}, at : FcbAddr \cup {0}, file : File, rec : Nat]
Result  == [a : Byte, name : Name \cup {AnyName}, data : Seq(Segment)]

\* Type correctness of both ends and the frames between them.
TypeOK ==
    /\ fcb \in [FcbAddr -> Fcbs] /\ dma \in DmaAddr /\ slot \in 0..3 /\ junk \subseteq Nat
    /\ pc \in {"program", "open", "entry", "status", "data"}
    /\ call \in Pending
    /\ got \in Seq(Segment) /\ total \in Nat
    /\ ret \in Result
    /\ d2h \in Seq(Request) /\ h2d \in Seq(Answer)
    /\ hpc \in {"serving", "stopped"}
    /\ dat \in File /\ dirList \in Seq(HostFile) /\ dirI \in Nat
    /\ opened \in [FcbAddr -> File] /\ next \in [FcbAddr -> Nat]
    /\ listing \in Seq(HostFile) /\ listed \in Seq(Name)

\* When a call returns, the BDOS has consumed exactly the frames the host sent
\* for it: frames are not labelled, and one left over would be taken for the
\* answer to the next call.
InStep == pc = "program" => h2d = <<>>

Returned(fn) == pc = "program" /\ call.fn \in fn
Covers(segs, file, rec) ==
    /\ segs # <<>> /\ segs[1].ofs = rec * recsize
    /\ segs[Len(segs)].ofs + segs[Len(segs)].len = Least((rec + 1) * recsize, file.size)
    /\ \A i \in 1..Len(segs) : segs[i].file = file
    /\ \A i \in 2..Len(segs) : segs[i].ofs = segs[i - 1].ofs + segs[i - 1].len

\* A successful read puts into the DMA area the record the program is at, of the
\* file this FCB was opened on, complete and in order.
RightRecord == Returned({"read", "readrand"}) /\ ret.a = 0 => Covers(ret.data, call.file, call.rec)

\* Reading reports the end of the file when the record is beyond it, and only
\* then; there are no other errors on a file that is open.
RightEnd ==
    Returned({"read", "readrand"}) => ret.a = (IF call.rec * recsize >= call.file.size THEN 1 ELSE 0)

\* The FCB and the host agree on where the program is in the file, up to the
\* largest file of one module (512 KB).
PositionKept ==
    pc = "program" => \A a \in FcbAddr : opened[a] # NoFile =>
        IF next[a] < 4096 THEN HostRecord(fcb[a]) = next[a] ELSE HostRecord(fcb[a]) >= 4096

\* What the BDOS receives is written into the DMA area and the FCB of the call, and behind
\* them no more than the one byte that bdos_host_receivefcb copies too many.
DmaFits ==
    /\ total <= recsize /\ (pc = "data" => total < recsize)
    /\ junk \subseteq {a + 36 : a \in FcbAddr} \cup {d + 128 : d \in DmaAddr}

\* A search that has come to its end has returned every file of the directory
\* once and in order, whatever was opened, read or written meanwhile, and the
\* search that follows it reports the end as long as none is begun.
Names(list) == [i \in 1..Len(list) |-> Zeroed[list[i].name]]
SearchComplete ==
    Returned({"sfirst", "snext"}) /\ ret.a = 255 => listed = Names(listing)

\* Of a file that a search has returned the name filled up with blanks can be opened,
\* although it was listed in upper case; filled up with zeros, as the search returned it,
\* it can be opened if the two are the same, and only then.
ListedOpens ==
    LET n == fcb[call.at].name
    IN Returned({"open"}) =>
           \A i \in 1..Len(listed) :
               listed[i] = Zeroed[n] => (ret.a # 255 <=> n = listing[i].name)

\* Every call of the program returns.
CallsReturn == pc # "program" ~> pc = "program"
=============================================================================
