--------------------------- MODULE FileLayerProofs ---------------------------
(***************************************************************************)
(* Theorems about FileLayer for every content of the two file systems,     *)
(* every frame size and every number of handles: types, that a handle held *)
(* is alive, and that what is read of each mount is a stream.              *)
(***************************************************************************)
EXTENDS FileLayer, WellFoundedInduction, FiniteSetTheorems, SequenceTheorems, TLAPS

\* A set of numbers has a least one.
LEMMA LeastExists ==
    ASSUME NEW S \in SUBSET Nat, S # {}
    PROVE  \E i \in S : \A j \in S : i <= j
<1>1. PICK i \in S : \A j \in S : <<j, i>> \notin OpToRel(<, Nat)
  BY WFMin, NatLessThanWellFounded, Zenon
<1>2. \A j \in S : ~(j < i)
  BY <1>1, Zenon DEF OpToRel
<1>3. QED BY <1>2

-----------------------------------------------------------------------------
(* Why the invariants hold.                                                *)

Unanswered == {"close", "closedir"}
Quiet(n) == \A i \in 1 .. n : req[i].cmd \in Unanswered

\* Frames carry no number, but at most one answer is under way: while the device
\* waits, its request is the last one sent, or was served.
Turns ==
    /\ pc = "app" => rep = <<>> /\ Quiet(Len(req))
    /\ pc # "app" =>
        \/ /\ rep = <<>> /\ req # <<>> /\ Quiet(Len(req) - 1)
           /\ req[Len(req)].cmd = pc
           /\ pc \in {"eof", "read"} => req[Len(req)].h = file.host.h
        \/ req = <<>> /\ Len(rep) <= 1
    /\ pc \in {"eof", "read"} => InUse("host")
    /\ pc = "open" => ~InUse("host")
    /\ pc = "readdir" => listing.host # "no"

\* What the host has read of a file is within it.
WithinFile ==
    \A i \in 1 .. Len(handles) : handles[i].kind = "file" =>
        handles[i].name \in HostName /\ handles[i].pos <= HostSize[handles[i].name]

\* What an answer says is still so when it arrives.
AnswerHolds ==
    rep # <<>> =>
    /\ pc = "open" =>
        /\ IsOpen("file", rep[1].val)
        /\ rep[1].name \in HostName
        /\ handles[rep[1].val + 1].name = rep[1].name /\ handles[rep[1].val + 1].pos = 0
    /\ pc = "opendir" => rep[1].val = NO_HANDLE \/ IsOpen("dir", rep[1].val)
    /\ pc = "eof" => rep[1].val = IF stream.host.got = HostSize[stream.host.name] THEN 1 ELSE 0
    /\ pc = "read" =>
        /\ rep[1].name = stream.host.name /\ rep[1].ofs = stream.host.got
        /\ rep[1].len <= HostSize[stream.host.name] - stream.host.got
        /\ rep[1].len = 0 => stream.host.got = HostSize[stream.host.name]

\* The data that the host has sent and the device has not received.
UnderWay == IF pc = "read" /\ rep # <<>> THEN rep[1].len ELSE 0

\* Strengthens HandleLive: the host is where the stream is.  Only NO_HANDLE, the last
\* number there is, can have been closed under the program.
FileLive ==
    InUse("host") =>
        /\ stream.host.name \in HostName /\ stream.host.got <= HostSize[stream.host.name]
        /\ file.host.h < Len(handles)
        /\ LET x == handles[file.host.h + 1] IN
           \/ /\ x.kind = "file" /\ x.name = stream.host.name
              /\ x.pos = stream.host.got + UnderWay
           \/ x.kind = "closed" /\ file.host.h = NO_HANDLE
DirLive == listing.host # "no" /\ dir.host.h # NO_HANDLE => IsOpen("dir", dir.host.h)

\* No close that is still on its way is of a handle that the device holds.
ClosesOthers ==
    \A i \in 1 .. Len(req) : req[i].cmd \in Unanswered =>
        /\ InUse("host") /\ file.host.h # NO_HANDLE => req[i].h # file.host.h
        /\ listing.host # "no" /\ dir.host.h # NO_HANDLE => req[i].h # dir.host.h

\* The internal file that is open is the one the program has, as far as it has read it.
IntLive ==
    InUse("int") =>
        /\ stream.int.name \in IntName
        /\ file.int.name = stream.int.name /\ file.int.pos = stream.int.got
        /\ file.int.size = IntFileSize(stream.int.name)
        /\ stream.int.got <= IntFileSize(stream.int.name)

IInv == /\ TypeOK /\ Turns /\ WithinFile /\ AnswerHolds
        /\ FileLive /\ DirLive /\ ClosesOthers /\ IntLive

-----------------------------------------------------------------------------
(* The operators.                                                          *)

LEMMA Bytes == NO_HANDLE \in Nat /\ NO_HANDLE \in Byte /\ 0 \in Byte /\ 1 \in Byte
BY SizeAssumption DEF Byte

LEMMA Paths ==
    /\ "none" \in Path /\ Here \in Path /\ FileName \subseteq Path
    /\ Missing \subseteq Path /\ HostName \subseteq FileName
<1>1. Path = FileName \cup {Here, "none"} /\ FileName = IntName \cup HostName \cup Missing
  BY DEF Path, FileName
<1>2. QED BY <1>1

\* fs_int_fopen finds the first entry of the name, and takes its size.
LEMMA FirstEntryType ==
    ASSUME NEW n, Entries(n) # {}
    PROVE  /\ FirstEntry(n) \in DOMAIN IntDir /\ IntDir[FirstEntry(n)].name = n
           /\ n \in IntName /\ IntFileSize(n) \in Nat /\ FirstEntry(n) \in Nat
<1>1. DOMAIN IntDir = 1 .. Len(IntDir) /\ Len(IntDir) \in Nat
  BY SizeAssumption, LenProperties
<1>2. Entries(n) \in SUBSET Nat
  BY <1>1 DEF Entries
<1>3. \E i \in Entries(n) : \A j \in Entries(n) : i <= j
  BY <1>2, LeastExists
<1>4. FirstEntry(n) \in Entries(n)
  BY <1>3 DEF FirstEntry
<1>5. IntDir[FirstEntry(n)] \in [name : STRING, size : Nat]
  BY <1>1, <1>4, SizeAssumption, ElementOfSeq DEF Entries
<1>6. QED
  BY <1>2, <1>4, <1>5 DEF Entries, IntFileSize, IntName

\* A frame more, at the end.
LEMMA Sent ==
    ASSUME NEW S, NEW q \in Seq(S), NEW f \in S
    PROVE  /\ Append(q, f) \in Seq(S) /\ Append(q, f) # <<>> /\ Len(q) \in Nat
           /\ Len(Append(q, f)) = Len(q) + 1 /\ Append(q, f)[Len(q) + 1] = f
           /\ \A i \in 1 .. Len(q) : Append(q, f)[i] = q[i]
BY AppendProperties, LenProperties

\* A frame less, at the front.
LEMMA Taken ==
    ASSUME NEW S, NEW q \in Seq(S), q # <<>>
    PROVE  /\ Head(q) = q[1] /\ q[1] \in S /\ Len(q) \in Nat /\ Len(q) > 0
           /\ Tail(q) \in Seq(S) /\ Len(Tail(q)) = Len(q) - 1
           /\ \A i \in 1 .. Len(q) - 1 : Tail(q)[i] = q[i + 1]
<1>1. Len(q) \in Nat /\ Len(q) > 0
  BY EmptySeq, LenProperties
<1>2. q[1] \in S
  BY <1>1, ElementOfSeq
<1>3. QED BY <1>1, <1>2, HeadTailProperties

LEMMA EmptyOrNot == ASSUME NEW S, NEW q \in Seq(S) PROVE q = <<>> <=> Len(q) = 0
BY EmptySeq

LEMMA OneOrNone ==
    ASSUME NEW S, NEW r \in S
    PROVE  /\ <<>> \in Seq(S) /\ Len(<<>>) = 0 /\ <<r>> \in Seq(S) /\ Len(<<r>>) = 1
           /\ <<r>>[1] = r /\ <<r>> # <<>> /\ Append(<<>>, r) = <<r>>
OBVIOUS

LEMMA ClosedType == Closed \in Streams /\ \A n \in FileName : Opened(n) \in Streams
BY DEF Closed, Opened, Streams, Chunks

LEMMA StreamFields ==
    ASSUME NEW s \in Streams, NEW e \in {"unknown", "more", "end"}
    PROVE  /\ [s EXCEPT !.ended = e] \in Streams
           /\ \A g \in Nat, c \in Chunks : [s EXCEPT !.got = g, !.ended = e, !.chunk = c] \in Streams
BY DEF Streams

\* Changing a field of an object leaves an object, and the others as they are.
LEMMA FileFields ==
    ASSUME NEW f \in FileObjects
    PROVE  /\ f.int \in IntFile /\ f.host.h \in Byte
           /\ \A i \in IntFile :
                /\ [f EXCEPT !.int = i] \in FileObjects
                /\ [f EXCEPT !.int = i].int = i /\ [f EXCEPT !.int = i].host = f.host
           /\ \A b \in Byte :
                /\ [f EXCEPT !.host.h = b] \in FileObjects
                /\ [f EXCEPT !.host.h = b].int = f.int /\ [f EXCEPT !.host.h = b].host.h = b
BY DEF FileObjects

LEMMA DirFields ==
    ASSUME NEW d \in DirObjects, NEW m \in {"root", "int"}
    PROVE  /\ d[m] \in LocalDir /\ d = [d EXCEPT ![m] = d[m]]
           /\ \A l \in LocalDir :
                [d EXCEPT ![m] = l] \in DirObjects /\ [d EXCEPT ![m] = l].host = d.host
BY DEF DirObjects

LEMMA ListingFields ==
    ASSUME NEW l \in Listings, NEW m \in {"root", "int"}, NEW v \in {"no", "on", "end"}
    PROVE  [l EXCEPT ![m] = v] \in Listings /\ [l EXCEPT ![m] = v].host = l.host
BY DEF Listings

LEMMA StreamOf ==
    ASSUME NEW s \in [FsName -> Streams]
    PROVE  s.int \in Streams /\ s.host \in Streams
BY DEF FsName

LEMMA StreamSet ==
    ASSUME NEW s \in [FsName -> Streams], NEW v \in Streams
    PROVE  /\ [s EXCEPT !.int = v] \in [FsName -> Streams]
           /\ [s EXCEPT !.int = v].int = v /\ [s EXCEPT !.int = v].host = s.host
           /\ [s EXCEPT !.host = v] \in [FsName -> Streams]
           /\ [s EXCEPT !.host = v].host = v /\ [s EXCEPT !.host = v].int = s.int
BY DEF FsName

-----------------------------------------------------------------------------
(* Local file systems: the host's side is not touched.                     *)

HostSide == <<pc, req, rep, handles, file.host, dir.host, stream.host, listing.host>>
IntSide == <<file.int, stream.int>>

LEMMA HostSideKept ==
    ASSUME IInv, UNCHANGED HostSide
    PROVE  Turns' /\ WithinFile' /\ AnswerHolds' /\ FileLive' /\ DirLive' /\ ClosesOthers'
BY DEF IInv, HostSide, Turns, WithinFile, AnswerHolds, FileLive, DirLive, ClosesOthers,
       Quiet, InUse, IsOpen, UnderWay

LEMMA IntSideKept == ASSUME IInv, UNCHANGED IntSide PROVE IntLive'
BY DEF IInv, IntSide, IntLive, InUse

LEMMA LocalDirInv ==
    ASSUME IInv, NEW m \in {"root", "int"}, OpenDirLocal(m) \/ ReadDirLocal(m) \/ CloseDirLocal(m)
    PROVE  IInv'
<1>1. Len(IntDir) \in Nat /\ 0 \in Nat
  BY SizeAssumption, LenProperties
<1>2. dir \in DirObjects /\ listing \in Listings
  BY DEF IInv, TypeOK
<1>3. PICK l \in LocalDir : dir' = [dir EXCEPT ![m] = l]
  <2>1. dir[m] \in LocalDir /\ dir = [dir EXCEPT ![m] = dir[m]]
    BY <1>2, DirFields
  <2>2. CASE OpenDirLocal(m)
    <3>1. PICK c \in Nat : dir' = [dir EXCEPT ![m] = [pos |-> 0, count |-> c]]
      BY <1>1, <2>2 DEF OpenDirLocal, Mounts
    <3>2. [pos |-> 0, count |-> c] \in LocalDir
      BY DEF LocalDir
    <3>3. QED BY <3>1, <3>2
  <2>3. CASE ReadDirLocal(m)
    <3>1. dir' = dir \/ dir' = [dir EXCEPT ![m] = [dir[m] EXCEPT !.pos = dir[m].pos + 1]]
      BY <2>3 DEF ReadDirLocal
    <3>2. [dir[m] EXCEPT !.pos = dir[m].pos + 1] \in LocalDir
      BY <2>1 DEF LocalDir
    <3>3. QED BY <2>1, <3>1, <3>2
  <2>4. CASE CloseDirLocal(m)
    <3>1. dir' = [dir EXCEPT ![m] = [dir[m] EXCEPT !.count = 0]]
      BY <2>4 DEF CloseDirLocal
    <3>2. [dir[m] EXCEPT !.count = 0] \in LocalDir
      BY <2>1 DEF LocalDir
    <3>3. QED BY <3>1, <3>2
  <2>5. QED BY <2>2, <2>3, <2>4
<1>4. dir' \in DirObjects /\ dir'.host = dir.host
  BY <1>2, <1>3, DirFields
<1>5. listing' \in Listings /\ listing'.host = listing.host
  <2>1. \/ listing' = listing
        \/ \E v \in {"no", "on", "end"} : listing' = [listing EXCEPT ![m] = v]
    BY DEF OpenDirLocal, ReadDirLocal, CloseDirLocal
  <2>2. CASE listing' = listing
    BY <1>2, <2>2
  <2>3. ASSUME NEW v \in {"no", "on", "end"}, listing' = [listing EXCEPT ![m] = v]
        PROVE  listing' \in Listings /\ listing'.host = listing.host
    BY <1>2, <2>3, ListingFields
  <2>4. QED BY <2>1, <2>2, <2>3
<1>6. UNCHANGED <<file, stream, pc, req, rep, handles, up, due>>
  BY DEF OpenDirLocal, ReadDirLocal, CloseDirLocal, Local
<1>7. TypeOK' /\ UNCHANGED HostSide /\ UNCHANGED IntSide
  BY <1>4, <1>5, <1>6 DEF HostSide, IntSide, IInv, TypeOK
<1>8. QED BY <1>7, HostSideKept, IntSideKept DEF IInv

\* A step that changes the internal file system's objects only.
LEMMA IntStep ==
    ASSUME IInv, Local, UNCHANGED listing, dir' \in DirObjects, dir'.host = dir.host,
           NEW f \in IntFile, file' = [file EXCEPT !.int = f] \/ (f = file.int /\ UNCHANGED file),
           NEW s \in Streams, stream' = [stream EXCEPT !.int = s] \/ (s = stream.int /\ UNCHANGED stream),
           s.name # "none" =>
               /\ s.name \in IntName /\ f.name = s.name /\ f.pos = s.got
               /\ f.size = IntFileSize(s.name) /\ s.got <= IntFileSize(s.name)
    PROVE  IInv'
<1>1. file \in FileObjects /\ stream \in [FsName -> Streams]
  BY DEF IInv, TypeOK
<1>2. file' \in FileObjects /\ file'.int = f /\ file'.host = file.host
  <2>1. CASE file' = [file EXCEPT !.int = f]
    BY <1>1, <2>1, FileFields
  <2>2. CASE f = file.int /\ UNCHANGED file
    BY <1>1, <2>2
  <2>3. QED BY <2>1, <2>2
<1>3. stream' \in [FsName -> Streams] /\ stream'.int = s /\ stream'.host = stream.host
  <2>1. CASE stream' = [stream EXCEPT !.int = s]
    BY <1>1, <2>1, StreamSet
  <2>2. CASE s = stream.int /\ UNCHANGED stream
    BY <1>1, <2>2
  <2>3. QED BY <2>1, <2>2
<1>4. TypeOK'
  BY <1>2, <1>3 DEF IInv, TypeOK, Local
<1>5. UNCHANGED HostSide
  BY <1>2, <1>3 DEF HostSide, Local
<1>6. IntLive'
  BY <1>2, <1>3 DEF IntLive, InUse
<1>7. QED BY <1>4, <1>5, <1>6, HostSideKept DEF IInv

LEMMA OpenIntInv == ASSUME IInv, NEW n \in FileName, OpenInt(n) PROVE IInv'
<1>1. Local /\ UNCHANGED listing
  BY DEF OpenInt
<1>2. dir \in DirObjects /\ file.int \in IntFile /\ stream.int \in Streams /\ stream.int.name = "none"
  <2>1. file \in FileObjects /\ stream \in [FsName -> Streams]
    BY DEF IInv, TypeOK
  <2>2. QED
    BY <2>1, StreamOf DEF IInv, TypeOK, OpenInt, InUse, FileObjects
<1>3. CASE Entries(n) = {}
  <2>1. [pos |-> Len(IntDir), count |-> 0] \in LocalDir
    BY SizeAssumption, LenProperties DEF LocalDir
  <2>2. dir' = [dir EXCEPT !.int = [pos |-> Len(IntDir), count |-> 0]] /\ UNCHANGED <<file, stream>>
    BY <1>3 DEF OpenInt
  <2>3. dir' \in DirObjects /\ dir'.host = dir.host
    BY <1>2, <2>1, <2>2 DEF DirObjects
  <2>4. QED BY <1>1, <1>2, <2>2, <2>3, IntStep
<1>4. CASE Entries(n) # {}
  <2> DEFINE f == [name |-> n, pos |-> 0, size |-> IntFileSize(n)]
  <2>1. n \in IntName /\ IntFileSize(n) \in Nat /\ FirstEntry(n) \in Nat
    BY <1>4, FirstEntryType
  <2>2. [pos |-> FirstEntry(n), count |-> 0] \in LocalDir
    BY <2>1 DEF LocalDir
  <2>3. dir' = [dir EXCEPT !.int = [pos |-> FirstEntry(n), count |-> 0]]
    BY <1>4 DEF OpenInt
  <2>4. dir' \in DirObjects /\ dir'.host = dir.host
    BY <1>2, <2>2, <2>3 DEF DirObjects
  <2>5. file' = [file EXCEPT !.int = f] /\ stream' = [stream EXCEPT !.int = Opened(n)]
    BY <1>4 DEF OpenInt
  <2>6. f \in IntFile /\ f.name = n /\ f.pos = 0 /\ f.size = IntFileSize(n)
    BY <2>1 DEF IntFile
  <2>7. Opened(n) \in Streams /\ Opened(n).name = n /\ Opened(n).got = 0
    BY ClosedType DEF Opened, Closed
  <2> HIDE DEF f
  <2>8. QED BY <1>1, <2>1, <2>4, <2>5, <2>6, <2>7, IntStep
<1>5. QED BY <1>3, <1>4

LEMMA EofIntInv == ASSUME IInv, EofInt PROVE IInv'
<1>1. file \in FileObjects /\ stream.int \in Streams /\ dir \in DirObjects
  BY StreamOf DEF IInv, TypeOK
<1>2. PICK e \in {"unknown", "more", "end"} :
        Local /\ UNCHANGED <<file, dir, listing>> /\ stream' = [stream EXCEPT !.int.ended = e]
  BY DEF EofInt
<1> DEFINE s == [stream.int EXCEPT !.ended = e]
<1>3. stream' = [stream EXCEPT !.int = s]
  BY <1>2
<1>4. s \in Streams /\ s.name = stream.int.name /\ s.got = stream.int.got
  BY <1>1, StreamFields DEF Streams
<1>5. file.int \in IntFile
  BY <1>1 DEF FileObjects
<1> HIDE DEF s
<1>6. s.name # "none" =>
        /\ s.name \in IntName /\ file.int.name = s.name /\ file.int.pos = s.got
        /\ file.int.size = IntFileSize(s.name) /\ s.got <= IntFileSize(s.name)
  BY <1>4 DEF IInv, IntLive, InUse
<1>7. QED BY <1>1, <1>2, <1>3, <1>4, <1>5, <1>6, IntStep

LEMMA ReadIntInv == ASSUME IInv, ReadInt PROVE IInv'
<1> DEFINE n == Least(Ask, file.int.size - file.int.pos)
           c == [name |-> file.int.name, ofs |-> file.int.pos, len |-> n]
           f == [file.int EXCEPT !.pos = @ + n]
           s == [stream.int EXCEPT !.got = @ + n, !.ended = "unknown", !.chunk = c]
<1>1. file \in FileObjects /\ stream.int \in Streams /\ dir \in DirObjects
  BY StreamOf DEF IInv, TypeOK
<1>2. file.int \in IntFile /\ file.int.pos \in Nat /\ file.int.size \in Nat /\ stream.int.got \in Nat
  BY <1>1 DEF FileObjects, IntFile, Streams
<1>3. /\ stream.int.name \in IntName /\ file.int.name = stream.int.name
      /\ file.int.pos = stream.int.got /\ file.int.size = IntFileSize(stream.int.name)
      /\ stream.int.got <= IntFileSize(stream.int.name)
  BY DEF ReadInt, IInv, IntLive
<1>4. n \in Nat /\ file.int.pos + n <= file.int.size
  BY <1>2, <1>3, SizeAssumption DEF Least
<1>5. Local /\ UNCHANGED <<dir, listing>> /\ file' = [file EXCEPT !.int = f] /\ stream' = [stream EXCEPT !.int = s]
  BY DEF ReadInt
<1> HIDE DEF n
<1>6. f \in IntFile /\ f.name = file.int.name /\ f.pos = file.int.pos + n /\ f.size = file.int.size
  BY <1>2, <1>4 DEF IntFile
<1>7. c \in Chunks /\ stream.int.got + n \in Nat
  BY <1>2, <1>3, <1>4 DEF Chunks, FileName
<1> HIDE DEF c
<1>8. s \in Streams
  BY <1>1, <1>7, StreamFields
<1>9. s.name = stream.int.name /\ s.got = stream.int.got + n
  BY <1>1 DEF Streams
<1> HIDE DEF f, s
<1>10. s.got <= IntFileSize(s.name)
  BY <1>3, <1>4, <1>9
<1>11. QED BY <1>1, <1>3, <1>5, <1>6, <1>8, <1>9, <1>10, IntStep

LEMMA CloseIntInv == ASSUME IInv, CloseInt PROVE IInv'
<1> DEFINE f == [file.int EXCEPT !.pos = 0, !.size = 0]
<1>1. file \in FileObjects /\ dir \in DirObjects
  BY DEF IInv, TypeOK
<1>2. f \in IntFile
  <2>1. file.int \in IntFile
    BY <1>1 DEF FileObjects
  <2>2. QED BY <2>1 DEF IntFile
<1>3. Local /\ UNCHANGED <<dir, listing>> /\ file' = [file EXCEPT !.int = f] /\ stream' = [stream EXCEPT !.int = Closed]
  BY DEF CloseInt
<1>4. Closed \in Streams /\ Closed.name = "none"
  BY ClosedType DEF Closed
<1> HIDE DEF f
<1>5. QED BY <1>1, <1>2, <1>3, <1>4, IntStep

-----------------------------------------------------------------------------
(* Calls to the host.                                                      *)

Waits == {"opendir", "readdir", "open", "eof", "read", "write"}

LEMMA Queued ==
    ASSUME IInv, NEW f \in Frames, req' = Append(req, f)
    PROVE  /\ req' \in Seq(Frames) /\ Len(req) \in Nat /\ req' # <<>>
           /\ Len(req') = Len(req) + 1 /\ Len(req') - 1 = Len(req) /\ req'[Len(req) + 1] = f
           /\ \A i \in 1 .. Len(req) : req'[i] = req[i]
           /\ \A i \in 1 .. Len(req') : (i \in 1 .. Len(req) /\ req'[i] = req[i]) \/ req'[i] = f
<1>1. req \in Seq(Frames)
  BY DEF IInv, TypeOK
<1>2. /\ req' \in Seq(Frames) /\ Len(req) \in Nat /\ req' # <<>>
      /\ Len(req') = Len(req) + 1 /\ req'[Len(req) + 1] = f
      /\ \A i \in 1 .. Len(req) : req'[i] = req[i]
  BY <1>1, Sent
<1>3. ASSUME NEW i \in 1 .. Len(req')
      PROVE  (i \in 1 .. Len(req) /\ req'[i] = req[i]) \/ req'[i] = f
  <2>1. i \in 1 .. Len(req) \/ i = Len(req) + 1
    BY <1>2
  <2>2. QED BY <1>2, <2>1
<1>4. Len(req') - 1 = Len(req)
  BY <1>2
<1>5. QED BY <1>2, <1>3, <1>4

\* A call that waits: the host and what the device holds are as before.
LEMMA CallInv ==
    ASSUME IInv, NEW c \in Waits, NEW n \in Path, NEW h \in Byte,
           pc = "app", pc' = c, req' = Append(req, Frame(c, n, h)), due' \in BOOLEAN,
           UNCHANGED <<rep, handles, up, fs, stream, listing>>,
           c \in {"eof", "read"} => InUse("host") /\ h = file.host.h,
           c = "open" => ~InUse("host"),
           c = "readdir" => listing.host # "no"
    PROVE  IInv'
<1> DEFINE f == Frame(c, n, h)
<1>1. f \in Frames /\ f.cmd = c /\ f.h = h /\ c \notin Unanswered /\ c # "app"
  BY DEF Frame, Frames, Waits, Unanswered
<1>2. /\ pc = "app" /\ pc' = c /\ req' = Append(req, f)
      /\ UNCHANGED <<rep, handles, up, file, dir, stream, listing>>
  BY DEF fs
<1>3. rep = <<>> /\ Quiet(Len(req)) /\ req \in Seq(Frames)
  BY <1>2 DEF IInv, TypeOK, Turns
<1> HIDE DEF f
<1>4. /\ req' \in Seq(Frames) /\ req' # <<>> /\ Len(req) \in Nat
      /\ Len(req') = Len(req) + 1 /\ req'[Len(req) + 1] = f
      /\ \A i \in 1 .. Len(req) : req'[i] = req[i]
      /\ \A i \in 1 .. Len(req') : (i \in 1 .. Len(req) /\ req'[i] = req[i]) \/ req'[i] = f
  BY <1>1, <1>2, Queued
<1>5. TypeOK'
  BY <1>2, <1>4 DEF IInv, TypeOK, Waits
<1>6. Turns'
  <2>1. Len(req') - 1 = Len(req)
    BY <1>1, <1>2, Queued
  <2>3. \A i \in 1 .. Len(req) : req'[i].cmd \in Unanswered
    BY <1>3, <1>4 DEF Quiet
  <2>2. req'[Len(req')].cmd = pc' /\ (pc' \in {"eof", "read"} => req'[Len(req')].h = file'.host.h)
    BY <1>1, <1>2, <1>4
  <2>4. QED
    BY <1>1, <1>2, <1>3, <1>4, <2>1, <2>2, <2>3 DEF Turns, InUse, Quiet
<1>7. WithinFile' /\ AnswerHolds' /\ DirLive' /\ IntLive'
  BY <1>2, <1>3 DEF IInv, WithinFile, AnswerHolds, DirLive, IntLive, IsOpen, InUse
<1>8. FileLive'
  BY <1>2, <1>3 DEF IInv, FileLive, InUse, UnderWay
<1>9. ClosesOthers'
  <2>1. \A i \in 1 .. Len(req') : req'[i].cmd \in Unanswered =>
          i \in 1 .. Len(req) /\ req'[i] = req[i]
    BY <1>1, <1>4
  <2>2. QED BY <1>2, <2>1 DEF IInv, ClosesOthers, InUse
<1>10. QED BY <1>5, <1>6, <1>7, <1>8, <1>9 DEF IInv

\* CloseHost and CloseDirHost send what the device held, without waiting.
LEMMA Told ==
    ASSUME IInv, NEW f \in Frames, f.cmd \in Unanswered, req' = Append(req, f),
           pc = "app", UNCHANGED <<pc, rep, handles, up, due>>
    PROVE  /\ rep = <<>> /\ Turns' /\ WithinFile' /\ AnswerHolds' /\ req' \in Seq(Frames)
           /\ \A i \in 1 .. Len(req') : (i \in 1 .. Len(req) /\ req'[i] = req[i]) \/ req'[i] = f
<1>1. rep = <<>> /\ Quiet(Len(req)) /\ req \in Seq(Frames)
  BY DEF IInv, TypeOK, Turns
<1>2. /\ req' \in Seq(Frames) /\ Len(req) \in Nat
      /\ \A i \in 1 .. Len(req') : (i \in 1 .. Len(req) /\ req'[i] = req[i]) \/ req'[i] = f
  BY Queued
<1>3. Turns'
  BY <1>1, <1>2 DEF Turns, Quiet
<1>4. QED BY <1>1, <1>2, <1>3 DEF IInv, WithinFile, AnswerHolds

LEMMA CloseHostInv == ASSUME IInv, CloseHost PROVE IInv'
<1> DEFINE f == Frame("close", "none", file.host.h)
<1>1. file \in FileObjects /\ stream \in [FsName -> Streams] /\ file.host.h \in Byte
  BY DEF IInv, TypeOK, FileObjects
<1>2. f \in Frames /\ f.cmd \in Unanswered /\ f.h = file.host.h
  BY <1>1, Paths DEF Frame, Frames, Unanswered
<1>3. /\ InUse("host") /\ pc = "app" /\ req' = Append(req, f) /\ UNCHANGED <<pc, rep, handles, up, due>>
      /\ file' = [file EXCEPT !.host.h = 0] /\ stream' = [stream EXCEPT !.host = Closed]
      /\ UNCHANGED <<dir, listing>>
  BY DEF CloseHost, Tell
<1> HIDE DEF f
<1>4. /\ Turns' /\ WithinFile' /\ AnswerHolds' /\ req' \in Seq(Frames)
      /\ \A i \in 1 .. Len(req') : (i \in 1 .. Len(req) /\ req'[i] = req[i]) \/ req'[i] = f
  BY <1>2, <1>3, Told
<1>5. /\ file' \in FileObjects /\ file'.int = file.int
      /\ stream' \in [FsName -> Streams] /\ stream'.int = stream.int /\ stream'.host = Closed
  BY <1>1, <1>3, Bytes, ClosedType DEF FileObjects, FsName
<1>6. TypeOK'
  BY <1>3, <1>4, <1>5 DEF IInv, TypeOK
<1>7. ~InUse("host")'
  BY <1>5 DEF InUse, Closed
<1>8. FileLive' /\ DirLive'
  BY <1>3, <1>7 DEF IInv, FileLive, DirLive, IsOpen
<1>9. listing.host # "no" /\ dir.host.h # NO_HANDLE => file.host.h # dir.host.h
  BY <1>3 DEF IInv, FileLive, DirLive, IsOpen
<1>10. ClosesOthers'
  BY <1>2, <1>3, <1>4, <1>7, <1>9 DEF IInv, ClosesOthers
<1>11. IntLive'
  BY <1>5, IntSideKept DEF IntSide
<1>12. QED BY <1>4, <1>6, <1>8, <1>10, <1>11 DEF IInv

LEMMA CloseDirHostInv == ASSUME IInv, CloseDirHost PROVE IInv'
<1> DEFINE f == Frame("closedir", "none", dir.host.h)
<1>1. dir \in DirObjects /\ listing \in Listings /\ dir.host.h \in Byte
  BY DEF IInv, TypeOK, DirObjects
<1>2. f \in Frames /\ f.cmd \in Unanswered /\ f.h = dir.host.h
  BY <1>1, Paths DEF Frame, Frames, Unanswered
<1>3. /\ listing.host # "no" /\ pc = "app" /\ req' = Append(req, f) /\ UNCHANGED <<pc, rep, handles, up, due>>
      /\ dir' = [dir EXCEPT !.host.h = 0] /\ listing' = [listing EXCEPT !.host = "no"]
      /\ UNCHANGED <<file, stream>>
  BY DEF CloseDirHost, Tell
<1> HIDE DEF f
<1>4. /\ rep = <<>> /\ Turns' /\ WithinFile' /\ AnswerHolds' /\ req' \in Seq(Frames)
      /\ \A i \in 1 .. Len(req') : (i \in 1 .. Len(req) /\ req'[i] = req[i]) \/ req'[i] = f
  BY <1>2, <1>3, Told
<1>5. dir' \in DirObjects /\ listing' \in Listings /\ listing'.host = "no"
  BY <1>1, <1>3, Bytes DEF DirObjects, Listings
<1>6. TypeOK'
  BY <1>3, <1>4, <1>5 DEF IInv, TypeOK
<1>7. FileLive' /\ DirLive'
  BY <1>3, <1>5 DEF IInv, FileLive, DirLive, IsOpen, InUse, UnderWay
<1>8. InUse("host") /\ file.host.h # NO_HANDLE => dir.host.h # file.host.h
  BY <1>3 DEF IInv, FileLive, DirLive, IsOpen
<1>9. ClosesOthers'
  BY <1>2, <1>3, <1>4, <1>5, <1>8 DEF IInv, ClosesOthers, InUse
<1>10. IntLive'
  BY <1>3, IntSideKept DEF IntSide
<1>11. QED BY <1>4, <1>6, <1>7, <1>9, <1>10 DEF IInv

LEMMA CallsInv ==
    ASSUME IInv,
           \/ \E p \in {Here} \cup Missing : OpenDirHost(p)
           \/ \E n \in FileName : OpenHost(n)
           \/ ReadDirHost \/ EofHost \/ ReadHost \/ WriteHost
    PROVE  IInv'
<1>1. file \in FileObjects /\ dir \in DirObjects
  BY DEF IInv, TypeOK
<1>2. file.host.h \in Byte /\ dir.host.h \in Byte /\ 0 \in Byte
  BY <1>1, Bytes DEF FileObjects, DirObjects
<1>3. ASSUME NEW p \in {Here} \cup Missing, OpenDirHost(p) PROVE IInv'
  <2>1. p \in Path
    BY Paths
  <2>2. /\ pc = "app" /\ pc' = "opendir" /\ req' = Append(req, Frame("opendir", p, 0)) /\ due' \in BOOLEAN
        /\ UNCHANGED <<rep, handles, up, fs, stream, listing>>
    BY <1>3 DEF OpenDirHost, Call
  <2>3. QED BY <1>2, <2>1, <2>2, Paths, CallInv DEF Waits
<1>4. ASSUME NEW n \in FileName, OpenHost(n) PROVE IInv'
  <2>1. /\ pc = "app" /\ pc' = "open" /\ req' = Append(req, Frame("open", n, 0)) /\ due' \in BOOLEAN
        /\ UNCHANGED <<rep, handles, up, fs, stream, listing>> /\ ~InUse("host")
    BY <1>4 DEF OpenHost, Call
  <2>2. QED BY <1>2, <2>1, Paths, CallInv DEF Waits
<1>5. CASE ReadDirHost
  <2>1. /\ pc = "app" /\ pc' = "readdir" /\ req' = Append(req, Frame("readdir", "none", dir.host.h))
        /\ due' \in BOOLEAN /\ UNCHANGED <<rep, handles, up, fs, stream, listing>> /\ listing.host # "no"
    BY <1>5 DEF ReadDirHost, Call
  <2>2. QED BY <1>2, <2>1, Paths, CallInv DEF Waits
<1>6. CASE EofHost
  <2>1. /\ pc = "app" /\ pc' = "eof" /\ req' = Append(req, Frame("eof", "none", file.host.h))
        /\ due' \in BOOLEAN /\ UNCHANGED <<rep, handles, up, fs, stream, listing>> /\ InUse("host")
    BY <1>6 DEF EofHost, Call, IInv, TypeOK
  <2>2. QED BY <1>2, <2>1, Paths, CallInv DEF Waits
<1>7. CASE ReadHost
  <2>1. /\ pc = "app" /\ pc' = "read" /\ req' = Append(req, Frame("read", "none", file.host.h))
        /\ due' \in BOOLEAN /\ UNCHANGED <<rep, handles, up, fs, stream, listing>> /\ InUse("host")
    BY <1>7 DEF ReadHost, Call
  <2>2. QED BY <1>2, <2>1, Paths, CallInv DEF Waits
<1>8. CASE WriteHost
  <2>1. /\ pc = "app" /\ pc' = "write" /\ req' = Append(req, Frame("write", "none", 0))
        /\ due' \in BOOLEAN /\ UNCHANGED <<rep, handles, up, fs, stream, listing>>
    BY <1>8 DEF WriteHost, Call
  <2>2. QED BY <1>2, <2>1, Paths, CallInv DEF Waits
<1>9. QED BY <1>3, <1>4, <1>5, <1>6, <1>7, <1>8

-----------------------------------------------------------------------------
(* Answers on the device.                                                  *)

\* The answer that is there is the only one, and nothing is asked.
LEMMA Answered ==
    ASSUME IInv, pc # "app", rep # <<>>
    PROVE  /\ req = <<>> /\ Len(req) = 0 /\ Head(rep) = rep[1] /\ Tail(rep) = <<>>
           /\ rep[1] \in Replies /\ rep[1].len \in Nat /\ rep[1].val \in Byte /\ rep[1].ofs \in Nat
<1>1. rep \in Seq(Replies) /\ req = <<>> /\ Len(rep) <= 1
  BY DEF IInv, TypeOK, Turns
<1>2. /\ Head(rep) = rep[1] /\ rep[1] \in Replies /\ Len(rep) \in Nat /\ Len(rep) > 0
      /\ Tail(rep) \in Seq(Replies) /\ Len(Tail(rep)) = Len(rep) - 1
  BY <1>1, Taken
<1>3. Len(Tail(rep)) = 0
  BY <1>1, <1>2
<1>4. Tail(rep) = <<>>
  BY <1>2, <1>3, EmptyOrNot
<1>5. QED BY <1>1, <1>2, <1>4 DEF Replies

\* A call that returned: nothing is under way.
LEMMA Returned ==
    ASSUME IInv, NEW c \in Waits, Receives(c)
    PROVE  /\ pc = c /\ rep # <<>> /\ pc' = "app" /\ req' = <<>> /\ rep' = <<>>
           /\ Head(rep) = rep[1] /\ rep[1] \in Replies /\ UNCHANGED <<handles, up, due>>
           /\ Turns' /\ WithinFile' /\ AnswerHolds' /\ ClosesOthers' /\ UnderWay' = 0
<1>1. pc = c /\ rep # <<>> /\ pc' = "app" /\ rep' = Tail(rep) /\ UNCHANGED <<req, handles, up, due>>
  BY DEF Receives
<1>2. pc # "app"
  BY <1>1 DEF Waits
<1>3. req = <<>> /\ Len(req) = 0 /\ Head(rep) = rep[1] /\ Tail(rep) = <<>> /\ rep[1] \in Replies
  BY <1>1, <1>2, Answered
<1>4. Turns'
  BY <1>1, <1>3 DEF Turns, Quiet
<1>5. WithinFile' /\ AnswerHolds' /\ ClosesOthers' /\ UnderWay' = 0
  BY <1>1, <1>3 DEF IInv, WithinFile, AnswerHolds, ClosesOthers, UnderWay
<1>6. QED BY <1>1, <1>3, <1>4, <1>5

LEMMA SkipEmptyInv == ASSUME IInv, SkipEmpty PROVE IInv'
<1>1. /\ pc # "app" /\ rep # <<>> /\ Head(rep).len = 0 /\ rep' = Tail(rep)
      /\ UNCHANGED <<file, dir, pc, req, handles, up, stream, listing, due>>
  BY DEF SkipEmpty, fs
<1>2. req = <<>> /\ Head(rep) = rep[1] /\ Tail(rep) = <<>>
  BY <1>1, Answered
<1>3. TypeOK'
  BY <1>1, <1>2 DEF IInv, TypeOK
<1>4. Turns'
  BY <1>1, <1>2 DEF IInv, Turns, InUse
<1>5. UnderWay = 0 /\ UnderWay' = 0
  BY <1>1, <1>2 DEF UnderWay
<1>6. FileLive'
  BY <1>1, <1>5 DEF IInv, FileLive, InUse
<1>7. WithinFile' /\ AnswerHolds' /\ DirLive' /\ ClosesOthers' /\ IntLive'
  BY <1>1, <1>2 DEF IInv, WithinFile, AnswerHolds, DirLive, ClosesOthers, IntLive, InUse, IsOpen
<1>8. QED BY <1>3, <1>4, <1>6, <1>7 DEF IInv

LEMMA ReceiveOpenDirInv == ASSUME IInv, ReceiveOpenDir PROVE IInv'
<1>1. /\ Receives("opendir") /\ dir' = [dir EXCEPT !.host = [h |-> Head(rep).val, pos |-> 0]]
      /\ listing' = [listing EXCEPT !.host = "on"] /\ UNCHANGED <<file, stream>>
  BY DEF ReceiveOpenDir
<1>2. /\ pc = "opendir" /\ rep # <<>> /\ pc' = "app" /\ req' = <<>> /\ rep' = <<>>
      /\ Head(rep) = rep[1] /\ rep[1] \in Replies /\ UNCHANGED <<handles, up, due>>
      /\ Turns' /\ WithinFile' /\ AnswerHolds' /\ ClosesOthers' /\ UnderWay' = 0
  BY <1>1, Returned DEF Waits
<1>3. dir \in DirObjects /\ listing \in Listings /\ rep[1].val \in Byte
  BY <1>2 DEF IInv, TypeOK, Replies
<1>4. dir' \in DirObjects /\ dir'.host.h = rep[1].val
  BY <1>1, <1>2, <1>3 DEF DirObjects
<1>5. listing' \in Listings
  BY <1>1, <1>3 DEF Listings
<1>6. TypeOK'
  BY <1>1, <1>2, <1>4, <1>5 DEF IInv, TypeOK
<1>7. rep[1].val = NO_HANDLE \/ IsOpen("dir", rep[1].val)
  BY <1>2 DEF IInv, AnswerHolds
<1>8. DirLive'
  BY <1>2, <1>4, <1>7 DEF DirLive, IsOpen
<1>9. FileLive'
  <2>1. UnderWay = 0
    BY <1>2 DEF UnderWay
  <2>2. QED BY <1>1, <1>2, <2>1 DEF IInv, FileLive, InUse
<1>10. IntLive'
  BY <1>1, IntSideKept DEF IntSide
<1>11. QED BY <1>2, <1>6, <1>8, <1>9, <1>10 DEF IInv

LEMMA ReceiveReadDirInv == ASSUME IInv, ReceiveReadDir PROVE IInv'
<1>1. Receives("readdir") /\ listing' = [listing EXCEPT !.host = "end"] /\ UNCHANGED <<file, dir, stream>>
  BY DEF ReceiveReadDir, fs
<1>2. /\ pc = "readdir" /\ rep # <<>> /\ pc' = "app" /\ req' = <<>> /\ rep' = <<>>
      /\ UNCHANGED <<handles, up, due>>
      /\ Turns' /\ WithinFile' /\ AnswerHolds' /\ ClosesOthers' /\ UnderWay' = 0
  BY <1>1, Returned DEF Waits
<1>3. listing \in Listings /\ listing.host # "no"
  BY <1>2 DEF IInv, TypeOK, Turns
<1>4. listing' \in Listings
  BY <1>1, <1>3 DEF Listings
<1>5. TypeOK'
  BY <1>1, <1>2, <1>4 DEF IInv, TypeOK
<1>6. DirLive'
  BY <1>1, <1>2, <1>3 DEF IInv, DirLive, IsOpen
<1>7. FileLive'
  <2>1. UnderWay = 0
    BY <1>2 DEF UnderWay
  <2>2. QED BY <1>1, <1>2, <2>1 DEF IInv, FileLive, InUse
<1>8. IntLive'
  BY <1>1, IntSideKept DEF IntSide
<1>9. QED BY <1>2, <1>5, <1>6, <1>7, <1>8 DEF IInv

LEMMA ReceiveOpenInv == ASSUME IInv, ReceiveOpen PROVE IInv'
<1>1. /\ Receives("open") /\ file' = [file EXCEPT !.host.h = Head(rep).val]
      /\ stream' = [stream EXCEPT !.host = Opened(Head(rep).name)] /\ UNCHANGED <<dir, listing>>
  BY DEF ReceiveOpen
<1>2. /\ pc = "open" /\ rep # <<>> /\ pc' = "app" /\ req' = <<>> /\ rep' = <<>>
      /\ Head(rep) = rep[1] /\ rep[1] \in Replies /\ UNCHANGED <<handles, up, due>>
      /\ Turns' /\ WithinFile' /\ AnswerHolds' /\ ClosesOthers' /\ UnderWay' = 0
  BY <1>1, Returned DEF Waits
<1>3. file \in FileObjects /\ stream \in [FsName -> Streams] /\ rep[1].val \in Byte
  BY <1>2 DEF IInv, TypeOK, Replies
<1>4. /\ IsOpen("file", rep[1].val) /\ rep[1].name \in HostName
      /\ handles[rep[1].val + 1].name = rep[1].name /\ handles[rep[1].val + 1].pos = 0
  BY <1>2 DEF IInv, AnswerHolds
<1>5. file' \in FileObjects /\ file'.int = file.int /\ file'.host.h = rep[1].val
  BY <1>1, <1>2, <1>3, FileFields
<1>6. Opened(rep[1].name) \in Streams
  BY <1>4, ClosedType DEF FileName
<1>7. /\ stream' \in [FsName -> Streams] /\ stream'.int = stream.int
      /\ stream'.host = Opened(rep[1].name)
  BY <1>1, <1>2, <1>3, <1>6, StreamSet
<1>8. stream'.host.name = rep[1].name /\ stream'.host.got = 0
  BY <1>7 DEF Opened, Closed
<1>9. TypeOK'
  BY <1>1, <1>2, <1>5, <1>7 DEF IInv, TypeOK
<1>10. FileLive'
  <2>1. 0 <= HostSize[rep[1].name]
    BY <1>4, SizeAssumption DEF HostName
  <2>2. QED BY <1>2, <1>4, <1>5, <1>8, <2>1 DEF FileLive, IsOpen
<1>11. DirLive'
  BY <1>1, <1>2 DEF IInv, DirLive, IsOpen
<1>12. IntLive'
  BY <1>5, <1>7, IntSideKept DEF IntSide
<1>13. QED BY <1>2, <1>9, <1>10, <1>11, <1>12 DEF IInv

LEMMA ReceiveEofInv == ASSUME IInv, ReceiveEof PROVE IInv'
<1>1. Receives("eof") /\ UNCHANGED <<file, dir, listing>>
  BY DEF ReceiveEof, fs
<1>2. /\ pc = "eof" /\ rep # <<>> /\ pc' = "app" /\ req' = <<>> /\ rep' = <<>>
      /\ UNCHANGED <<handles, up, due>>
      /\ Turns' /\ WithinFile' /\ AnswerHolds' /\ ClosesOthers' /\ UnderWay' = 0
  BY <1>1, Returned DEF Waits
<1>3. stream \in [FsName -> Streams] /\ stream.host \in Streams
  BY StreamOf DEF IInv, TypeOK
<1>4. PICK e \in {"unknown", "more", "end"} :
        stream' = [stream EXCEPT !.host = [stream.host EXCEPT !.ended = e]]
  BY DEF ReceiveEof
<1> DEFINE s == [stream.host EXCEPT !.ended = e]
<1>5. s \in Streams /\ s.name = stream.host.name /\ s.got = stream.host.got
  BY <1>3, StreamFields DEF Streams
<1> HIDE DEF s
<1>6. stream' \in [FsName -> Streams] /\ stream'.int = stream.int /\ stream'.host = s
  BY <1>3, <1>4, <1>5, StreamSet DEF s
<1>7. TypeOK'
  BY <1>1, <1>2, <1>6 DEF IInv, TypeOK
<1>8. FileLive'
  <2>1. UnderWay = 0
    BY <1>2 DEF UnderWay
  <2>2. QED BY <1>1, <1>2, <1>5, <1>6, <2>1 DEF IInv, FileLive, InUse
<1>9. DirLive'
  BY <1>1, <1>2 DEF IInv, DirLive, IsOpen
<1>10. IntLive'
  BY <1>1, <1>6, IntSideKept DEF IntSide
<1>11. QED BY <1>2, <1>7, <1>8, <1>9, <1>10 DEF IInv

LEMMA ReceiveDataInv == ASSUME IInv, ReceiveData PROVE IInv'
<1> DEFINE c == [name |-> rep[1].name, ofs |-> rep[1].ofs, len |-> rep[1].len]
           s == [stream.host EXCEPT !.got = stream.host.got + rep[1].len, !.ended = "unknown", !.chunk = c]
<1>1. Receives("read") /\ UNCHANGED <<file, dir, listing>>
  BY DEF ReceiveData, fs
<1>2. /\ pc = "read" /\ rep # <<>> /\ pc' = "app" /\ req' = <<>> /\ rep' = <<>>
      /\ Head(rep) = rep[1] /\ rep[1] \in Replies /\ UNCHANGED <<handles, up, due>>
      /\ Turns' /\ WithinFile' /\ AnswerHolds' /\ ClosesOthers' /\ UnderWay' = 0
  BY <1>1, Returned DEF Waits
<1>3. stream \in [FsName -> Streams] /\ stream.host \in Streams
  BY StreamOf DEF IInv, TypeOK
<1>4. stream' = [stream EXCEPT !.host = s]
  BY <1>2 DEF ReceiveData
<1>5. InUse("host") /\ stream.host.name \in HostName /\ stream.host.got \in Nat
  BY <1>2, <1>3 DEF IInv, Turns, FileLive, Streams
<1>6. rep[1].len \in Nat /\ rep[1].ofs \in Nat /\ rep[1].name = stream.host.name
  BY <1>2 DEF Replies, IInv, AnswerHolds
<1>7. c \in Chunks
  BY <1>5, <1>6 DEF Chunks, FileName
<1> HIDE DEF c
<1>8. s \in Streams
  <2>1. stream.host.got + rep[1].len \in Nat
    BY <1>5, <1>6
  <2>2. QED BY <1>3, <1>7, <2>1, StreamFields
<1>9. s.name = stream.host.name /\ s.got = stream.host.got + rep[1].len
  BY <1>3 DEF Streams
<1> HIDE DEF s
<1>10. stream' \in [FsName -> Streams] /\ stream'.int = stream.int /\ stream'.host = s
  BY <1>3, <1>4, <1>8, StreamSet
<1>11. TypeOK'
  BY <1>1, <1>2, <1>10 DEF IInv, TypeOK
<1>12. FileLive'
  <2>1. UnderWay = rep[1].len
    BY <1>2 DEF UnderWay
  <2>2. HostSize[stream.host.name] \in Nat /\ rep[1].len <= HostSize[stream.host.name] - stream.host.got
    BY <1>2, <1>5, SizeAssumption DEF IInv, AnswerHolds, HostName
  <2>3. s.got <= HostSize[s.name]
    BY <1>5, <1>6, <1>9, <2>2
  <2>4. s.got + 0 = s.got
    BY <1>5, <1>6, <1>9
  <2>5. QED BY <1>1, <1>2, <1>5, <1>9, <1>10, <2>1, <2>3, <2>4 DEF IInv, FileLive
<1>13. DirLive'
  BY <1>1, <1>2 DEF IInv, DirLive, IsOpen
<1>14. IntLive'
  BY <1>1, <1>10, IntSideKept DEF IntSide
<1>15. QED BY <1>2, <1>11, <1>12, <1>13, <1>14 DEF IInv

-----------------------------------------------------------------------------
(* The host.                                                               *)

\* The host serves a call: nothing else is under way.
LEMMA Served ==
    ASSUME IInv, NEW c \in Waits, Serves(c)
    PROVE  /\ pc = c /\ rep = <<>> /\ req' = <<>> /\ Len(req') = 0
           /\ Head(req) = req[1] /\ req[1] \in Frames
           /\ UNCHANGED <<file, dir, pc, stream, listing, due>>
           /\ c \in {"eof", "read"} => InUse("host") /\ req[1].h = file.host.h
           /\ c = "open" => ~InUse("host")
           /\ c = "readdir" => listing.host # "no"
<1>1. /\ req # <<>> /\ Head(req).cmd = c /\ req' = Tail(req) /\ req \in Seq(Frames)
      /\ UNCHANGED <<file, dir, pc, stream, listing, due>>
  BY DEF Serves, fs, IInv, TypeOK
<1>2. /\ Head(req) = req[1] /\ req[1] \in Frames /\ Len(req) \in Nat /\ Len(req) > 0
      /\ Tail(req) \in Seq(Frames) /\ Len(Tail(req)) = Len(req) - 1
  BY <1>1, Taken
<1>3. c \notin Unanswered
  BY DEF Waits, Unanswered
<1>4. 1 \in 1 .. Len(req) /\ (Len(req) # 1 => 1 \in 1 .. Len(req) - 1)
  BY <1>2
<1>5. pc # "app"
  BY <1>1, <1>2, <1>3, <1>4 DEF IInv, Turns, Quiet
<1>6. /\ rep = <<>> /\ Quiet(Len(req) - 1) /\ req[Len(req)].cmd = pc
      /\ pc \in {"eof", "read"} => req[Len(req)].h = file.host.h
  BY <1>1, <1>5 DEF IInv, Turns
<1>7. Len(req) = 1
  BY <1>1, <1>2, <1>3, <1>4, <1>6 DEF Quiet
<1>8. pc = c /\ (c \in {"eof", "read"} => InUse("host") /\ req[1].h = file.host.h)
  BY <1>1, <1>2, <1>6, <1>7 DEF IInv, Turns
<1>9. Len(Tail(req)) = 0
  BY <1>2, <1>7
<1>10. Tail(req) = <<>>
  BY <1>2, <1>9, EmptyOrNot
<1>11. (c = "open" => ~InUse("host")) /\ (c = "readdir" => listing.host # "no")
  BY <1>8 DEF IInv, Turns
<1>12. QED BY <1>1, <1>2, <1>6, <1>8, <1>9, <1>10, <1>11

\* What is left to show of a step in which the host serves a call.
LEMMA ServedInv ==
    ASSUME IInv, NEW c \in Waits, Serves(c), up' \in BOOLEAN, handles' \in Seq(Handles),
           rep' = <<>> \/ \E r \in Replies : rep' = <<r>>,
           WithinFile', AnswerHolds', FileLive', DirLive'
    PROVE  IInv'
<1>1. /\ pc = c /\ req' = <<>> /\ Len(req') = 0 /\ UNCHANGED <<file, dir, pc, stream, listing, due>>
      /\ c \in {"eof", "read"} => InUse("host")
      /\ c = "open" => ~InUse("host")
      /\ c = "readdir" => listing.host # "no"
  BY Served
<1>2. rep' \in Seq(Replies) /\ Len(rep') <= 1
  <2>1. CASE rep' = <<>>
    BY <2>1
  <2>2. ASSUME NEW r \in Replies, rep' = <<r>>
        PROVE  rep' \in Seq(Replies) /\ Len(rep') <= 1
    BY <2>2, OneOrNone
  <2>3. QED BY <2>1, <2>2
<1>3. TypeOK'
  <2>1. req' \in Seq(Frames)
    BY <1>1
  <2>2. QED BY <1>1, <1>2, <2>1 DEF IInv, TypeOK
<1>4. Turns'
  BY <1>1, <1>2 DEF Turns, Waits, InUse
<1>5. ClosesOthers'
  BY <1>1 DEF ClosesOthers
<1>6. IntLive'
  BY <1>1, IntSideKept DEF IntSide
<1>7. QED BY <1>3, <1>4, <1>5, <1>6 DEF IInv

\* A new handle comes after those there are.
LEMMA Listed1 ==
    ASSUME handles \in Seq(Handles), NEW x \in Handles, handles' = Append(handles, x)
    PROVE  /\ handles' \in Seq(Handles) /\ Len(handles) \in Nat /\ Len(handles') = Len(handles) + 1
           /\ handles'[Len(handles) + 1] = x
           /\ \A i \in 1 .. Len(handles) : handles'[i] = handles[i]
           /\ \A i \in 1 .. Len(handles') : i \in 1 .. Len(handles) \/ i = Len(handles) + 1
           /\ \A k \in {"file", "dir"}, h \in Byte : IsOpen(k, h) => IsOpen(k, h)'
<1>1. /\ handles' \in Seq(Handles) /\ Len(handles) \in Nat /\ Len(handles') = Len(handles) + 1
      /\ handles'[Len(handles) + 1] = x
      /\ \A i \in 1 .. Len(handles) : handles'[i] = handles[i]
  BY Sent
<1>2. \A i \in 1 .. Len(handles') : i \in 1 .. Len(handles) \/ i = Len(handles) + 1
  BY <1>1
<1>3. ASSUME NEW k \in {"file", "dir"}, NEW h \in Byte, IsOpen(k, h)
      PROVE  IsOpen(k, h)'
  <2>1. h \in Nat /\ h < Len(handles)
    BY <1>3, SizeAssumption DEF Byte, IsOpen
  <2>2. h + 1 \in 1 .. Len(handles) /\ h < Len(handles')
    BY <1>1, <2>1
  <2>3. QED BY <1>1, <1>3, <2>2 DEF IsOpen
<1>4. QED BY <1>1, <1>2, <1>3

\* The host opens something and sends its handle, if that fits its byte.
NewFor(c, x, n) ==
    \/ c = "opendir" /\ x.kind = "dir"
    \/ c = "open" /\ x.kind = "file" /\ x.name = n /\ n \in HostName /\ x.pos = 0

LEMMA NewHandleInv ==
    ASSUME IInv, NEW c \in {"opendir", "open"}, Serves(c), NEW x \in Handles,
           NEW n \in Path, NewHandle(x, n), NewFor(c, x, n)
    PROVE  IInv'
<1> DEFINE r == [Reply(1, Len(handles)) EXCEPT !.name = n]
<1>1. /\ pc = c /\ rep = <<>> /\ UNCHANGED <<file, dir, pc, stream, listing>>
      /\ c = "open" => ~InUse("host")
  BY Served DEF Waits
<1>2. handles \in Seq(Handles) /\ handles' = Append(handles, x) /\ up \in BOOLEAN
  BY DEF NewHandle, IInv, TypeOK
<1>3. /\ handles' \in Seq(Handles) /\ Len(handles) \in Nat /\ Len(handles') = Len(handles) + 1
      /\ handles'[Len(handles) + 1] = x
      /\ \A i \in 1 .. Len(handles) : handles'[i] = handles[i]
      /\ \A i \in 1 .. Len(handles') : i \in 1 .. Len(handles) \/ i = Len(handles) + 1
      /\ \A k \in {"file", "dir"}, h \in Byte : IsOpen(k, h) => IsOpen(k, h)'
  BY <1>2, Listed1
<1>4. /\ up' \in BOOLEAN
      /\ \/ rep' = <<>>
         \/ rep' = Append(rep, r) /\ Len(handles) <= NO_HANDLE
  <2>1. Exhausted \/ Len(handles) <= NO_HANDLE
    BY <1>3, SizeAssumption DEF Exhausted
  <2>2. CASE Exhausted
    BY <1>1, <2>2 DEF NewHandle, Raises
  <2>3. CASE ~Exhausted
    BY <1>2, <2>1, <2>3 DEF NewHandle, Answers
  <2>4. QED BY <2>2, <2>3
<1>5. r.len = 1 /\ r.val = Len(handles) /\ r.name = n /\ r.ofs = 0
  BY DEF Reply
<1>6. Len(handles) <= NO_HANDLE => r \in Replies
  BY <1>3, SizeAssumption DEF Reply, Replies, Byte
<1> HIDE DEF r
<1>7. \/ rep' = <<>>
      \/ rep' = <<r>> /\ r \in Replies /\ rep'[1] = r
  BY <1>1, <1>4, <1>6, OneOrNone
<1>8. WithinFile'
  <2>1. ASSUME NEW i \in 1 .. Len(handles'), handles'[i].kind = "file"
        PROVE  handles'[i].name \in HostName /\ handles'[i].pos <= HostSize[handles'[i].name]
    <3>1. CASE i \in 1 .. Len(handles)
      BY <1>3, <2>1, <3>1 DEF IInv, WithinFile
    <3>2. CASE i = Len(handles) + 1
      <4>1. handles'[i] = x /\ x.name \in HostName /\ x.pos = 0
        BY <1>3, <2>1, <3>2 DEF NewFor
      <4>2. HostSize[x.name] \in Nat
        BY <4>1, SizeAssumption DEF HostName
      <4>3. QED BY <4>1, <4>2
    <3>3. QED BY <1>3, <3>1, <3>2
  <2>2. QED BY <2>1 DEF WithinFile
<1>9. AnswerHolds'
  <2>1. Len(handles) < Len(handles') /\ handles'[Len(handles) + 1] = x
    BY <1>3
  <2>2. QED BY <1>1, <1>3, <1>5, <1>7, <2>1 DEF AnswerHolds, IsOpen, NewFor
<1>10. FileLive'
  <2>1. CASE c = "open"
    BY <1>1, <2>1 DEF FileLive, InUse
  <2>2. CASE c = "opendir" /\ InUse("host")
    <3>1. UnderWay = 0 /\ UnderWay' = 0
      BY <1>1, <2>2 DEF UnderWay
    <3>2. file.host.h \in Nat
      BY SizeAssumption DEF IInv, TypeOK, FileObjects, Byte
    <3>3. file.host.h + 1 \in 1 .. Len(handles) /\ file.host.h < Len(handles')
      BY <1>3, <2>2, <3>2 DEF IInv, FileLive
    <3>4. QED BY <1>1, <1>3, <2>2, <3>1, <3>3 DEF IInv, FileLive, InUse
  <2>3. QED BY <1>1, <2>1, <2>2 DEF FileLive, InUse
<1>11. DirLive'
  <2>1. dir.host.h \in Byte
    BY DEF IInv, TypeOK, DirObjects
  <2>2. QED BY <1>1, <1>3, <2>1 DEF IInv, DirLive
<1>12. \/ rep' = <<>>
       \/ \E a \in Replies : rep' = <<a>>
  BY <1>7
<1>13. QED BY <1>3, <1>4, <1>8, <1>9, <1>10, <1>11, <1>12, ServedInv DEF Waits

LEMMA HostOpenDirInv == ASSUME IInv, HostOpenDir PROVE IInv'
<1>1. Serves("opendir")
  BY DEF HostOpenDir
<1>2. /\ pc = "opendir" /\ rep = <<>> /\ UNCHANGED <<file, dir, pc, stream, listing>>
  BY <1>1, Served DEF Waits
<1>3. CASE Head(req).name = Here
  <2>1. Handle("dir", Here, Cardinality(HostName)) \in Handles
    BY SizeAssumption, FS_CardinalityType, Paths DEF Handle, Handles, HostName
  <2>2. Handle("dir", Here, Cardinality(HostName)).kind = "dir"
    BY DEF Handle
  <2>3. NewHandle(Handle("dir", Here, Cardinality(HostName)), Here)
    BY <1>3 DEF HostOpenDir
  <2>4. QED BY <1>1, <2>1, <2>2, <2>3, Paths, NewHandleInv DEF NewFor
<1>4. CASE Head(req).name # Here
  <2> DEFINE r == Reply(1, NO_HANDLE)
  <2>1. r \in Replies /\ r.val = NO_HANDLE
    BY Bytes, Paths DEF Reply, Replies
  <2>2. rep' = Append(rep, r) /\ UNCHANGED <<handles, up>>
    BY <1>4 DEF HostOpenDir, Answers
  <2> HIDE DEF r
  <2>3. rep' = <<r>> /\ rep'[1] = r
    BY <1>2, <2>1, <2>2, OneOrNone
  <2>4. WithinFile' /\ AnswerHolds' /\ DirLive'
    BY <1>2, <2>1, <2>2, <2>3 DEF IInv, WithinFile, AnswerHolds, DirLive, IsOpen
  <2>5. FileLive'
    <3>1. UnderWay = 0 /\ UnderWay' = 0
      BY <1>2 DEF UnderWay
    <3>2. QED BY <1>2, <2>2, <3>1 DEF IInv, FileLive, InUse
  <2>6. handles' \in Seq(Handles) /\ up' \in BOOLEAN
    BY <2>2 DEF IInv, TypeOK
  <2>7. QED BY <1>1, <2>1, <2>3, <2>4, <2>5, <2>6, ServedInv DEF Waits
<1>5. QED BY <1>3, <1>4

LEMMA HostOpenInv == ASSUME IInv, HostOpen PROVE IInv'
<1> DEFINE n == Head(req).name
           x == Handle("file", n, 0)
<1>1. Serves("open")
  BY DEF HostOpen
<1>2. /\ pc = "open" /\ rep = <<>> /\ UNCHANGED <<file, dir, pc, stream, listing>> /\ ~InUse("host")
  BY <1>1, Served DEF Waits
<1>3. CASE n \in HostName
  <2>1. x \in Handles /\ x.kind = "file" /\ x.name = n /\ x.pos = 0
    BY <1>3, Paths DEF Handle, Handles
  <2>2. NewHandle(x, n)
    BY <1>3 DEF HostOpen
  <2>3. n \in Path
    BY <1>3, Paths
  <2> HIDE DEF n, x
  <2>4. QED BY <1>1, <1>3, <2>1, <2>2, <2>3, NewHandleInv DEF NewFor
<1>4. CASE n \notin HostName
  <2>1. up' = FALSE /\ rep' = <<>> /\ UNCHANGED handles
    BY <1>2, <1>4 DEF HostOpen, Raises
  <2>2. WithinFile' /\ AnswerHolds' /\ FileLive' /\ DirLive'
    BY <1>2, <2>1 DEF IInv, WithinFile, AnswerHolds, FileLive, DirLive, IsOpen, InUse
  <2>3. handles' \in Seq(Handles) /\ up' \in BOOLEAN
    BY <2>1 DEF IInv, TypeOK
  <2>4. QED BY <1>1, <2>1, <2>2, <2>3, ServedInv DEF Waits
<1>5. QED BY <1>3, <1>4

\* A step of the host that changes one handle, x to y.
Changed(i, y) ==
    /\ i \in 1 .. Len(handles) /\ y \in Handles
    /\ handles' = [handles EXCEPT ![i] = y]

LEMMA ChangedOne ==
    ASSUME handles \in Seq(Handles), NEW i, NEW y, Changed(i, y)
    PROVE  /\ handles' \in Seq(Handles) /\ Len(handles') = Len(handles) /\ Len(handles) \in Nat
           /\ handles'[i] = y
           /\ \A j \in 1 .. Len(handles) : j # i => handles'[j] = handles[j]
BY ExceptSeq, LenProperties DEF Changed

\* The handles the device holds are among those of the host, unless they are NO_HANDLE.
LEMMA Held ==
    ASSUME IInv
    PROVE  /\ handles \in Seq(Handles) /\ Len(handles) \in Nat
           /\ file.host.h \in Nat /\ dir.host.h \in Nat
           /\ InUse("host") => file.host.h + 1 \in 1 .. Len(handles)
           /\ listing.host # "no" /\ dir.host.h # NO_HANDLE => dir.host.h + 1 \in 1 .. Len(handles)
<1>1. handles \in Seq(Handles) /\ file \in FileObjects /\ dir \in DirObjects
  BY DEF IInv, TypeOK
<1>2. Len(handles) \in Nat
  BY <1>1, LenProperties
<1>3. file.host.h \in Byte /\ dir.host.h \in Byte
  BY <1>1 DEF FileObjects, DirObjects
<1>4. file.host.h \in Nat /\ dir.host.h \in Nat
  BY <1>3, SizeAssumption DEF Byte
<1>5. InUse("host") => file.host.h + 1 \in 1 .. Len(handles)
  BY <1>2, <1>4 DEF IInv, FileLive
<1>6. listing.host # "no" /\ dir.host.h # NO_HANDLE => dir.host.h + 1 \in 1 .. Len(handles)
  BY <1>2, <1>4 DEF IInv, DirLive, IsOpen
<1>7. QED BY <1>1, <1>2, <1>4, <1>5, <1>6

LEMMA HostReadDirInv == ASSUME IInv, HostReadDir PROVE IInv'
<1> DEFINE h == req[1].h
           i == h + 1
           p == IF handles[i].pos = 0 THEN 0 ELSE handles[i].pos - 1
<1>1. Serves("readdir")
  BY DEF HostReadDir
<1>2. /\ pc = "readdir" /\ rep = <<>> /\ UNCHANGED <<file, dir, pc, stream, listing>>
      /\ Head(req) = req[1] /\ req[1] \in Frames
  BY <1>1, Served DEF Waits
<1>3. h \in Nat /\ up \in BOOLEAN
  BY <1>2, SizeAssumption DEF Frames, Byte, IInv, TypeOK
<1>4. UnderWay = 0 /\ UnderWay' = 0
  BY <1>2 DEF UnderWay
<1>5. CASE UNCHANGED handles /\ (Answers(Reply(0, 0)) \/ Raises)
  <2>1. handles' \in Seq(Handles)
    BY <1>5 DEF IInv, TypeOK
  <2>2. WithinFile' /\ FileLive' /\ DirLive'
    BY <1>2, <1>4, <1>5 DEF IInv, WithinFile, FileLive, DirLive, IsOpen, InUse
  <2>3. AnswerHolds'
    BY <1>2 DEF AnswerHolds
  <2>4. up' \in BOOLEAN /\ (rep' = <<>> \/ rep' = Append(<<>>, Reply(0, 0)))
    BY <1>2, <1>3, <1>5 DEF Answers, Raises
  <2>5. Reply(0, 0) \in Replies
    BY Bytes, Paths DEF Reply, Replies
  <2>6. rep' = <<>> \/ \E r \in Replies : rep' = <<r>>
    BY <2>4, <2>5, OneOrNone
  <2>7. QED BY <1>1, <2>1, <2>2, <2>3, <2>4, <2>6, ServedInv DEF Waits
<1>6. CASE /\ h < Len(handles) /\ handles[i].kind = "dir"
           /\ handles' = [handles EXCEPT ![i].pos = IF @ = 0 THEN 0 ELSE @ - 1]
           /\ Answers(Reply(Least(handles[i].pos, 1), 0))
  <2> DEFINE x == handles[i]
             y == [x EXCEPT !.pos = p]
  <2>1. i \in 1 .. Len(handles) /\ handles \in Seq(Handles)
    BY <1>3, <1>6, Held
  <2>2. x \in Handles
    BY <2>1, ElementOfSeq
  <2>3. x.pos \in Nat
    BY <2>2 DEF Handles
  <2>4. p \in Nat
    BY <2>3
  <2>5. handles' = [handles EXCEPT ![i] = y]
    BY <1>6
  <2> HIDE DEF p
  <2>6. y \in Handles /\ y.kind = x.kind /\ y.name = x.name
    BY <2>2, <2>4 DEF Handles
  <2>7. x.kind = "dir"
    BY <1>6
  <2> HIDE DEF x, y, i
  <2>8. /\ handles' \in Seq(Handles) /\ Len(handles') = Len(handles) /\ Len(handles) \in Nat
        /\ handles'[i] = y
        /\ \A j \in 1 .. Len(handles) : j # i => handles'[j] = handles[j]
    BY <2>1, <2>5, <2>6, ChangedOne DEF Changed
  <2>9. WithinFile'
    BY <2>6, <2>7, <2>8 DEF IInv, WithinFile
  <2>10. FileLive'
    BY <1>2, <1>4, <2>7, <2>8, Held DEF IInv, FileLive, InUse, x
  <2>11. DirLive'
    BY <1>2, <2>6, <2>7, <2>8, Held DEF IInv, DirLive, IsOpen, x
  <2>12. AnswerHolds'
    BY <1>2 DEF AnswerHolds
  <2>13. Reply(Least(x.pos, 1), 0) \in Replies
    BY <2>3, Bytes, Paths DEF Reply, Replies, Least
  <2>14. rep' = <<Reply(Least(x.pos, 1), 0)>> /\ up' \in BOOLEAN
    BY <1>2, <1>3, <1>6, <2>13, OneOrNone DEF Answers, x, i
  <2>15. \E r \in Replies : rep' = <<r>>
    BY <2>13, <2>14
  <2>16. QED BY <1>1, <2>8, <2>9, <2>10, <2>11, <2>12, <2>14, <2>15, ServedInv DEF Waits
<1>7. QED
  BY <1>2, <1>3, <1>5, <1>6, Held DEF HostReadDir, IsOpen

\* The host closes a handle, or ends: no answer.  Later frames are as before.
LEMMA ClosedInv ==
    ASSUME IInv, req # <<>>, req[1].cmd \in Unanswered, req' = Tail(req), UNCHANGED rep,
           UNCHANGED <<fs, pc, stream, listing, due>>, up' \in BOOLEAN,
           UNCHANGED handles \/ Changed(req[1].h + 1, Gone)
    PROVE  IInv'
<1>1. req \in Seq(Frames) /\ UNCHANGED <<file, dir, pc, stream, listing, due>>
  BY DEF IInv, TypeOK, fs
<1>2. /\ Len(req) \in Nat /\ Len(req) > 0 /\ req' \in Seq(Frames) /\ Len(req') = Len(req) - 1
      /\ \A i \in 1 .. Len(req) - 1 : req'[i] = req[i + 1]
  BY <1>1, Taken
<1>3. \A i \in 1 .. Len(req') : i + 1 \in 1 .. Len(req) /\ req'[i] = req[i + 1]
  BY <1>2
<1>4. rep = <<>>
  BY DEF IInv, Turns
<1>5. Turns'
  <2>1. CASE pc = "app"
    BY <1>1, <1>3, <1>4, <2>1 DEF IInv, Turns, Quiet
  <2>2. CASE pc # "app"
    <3>1. /\ \A i \in 1 .. Len(req) - 1 : req[i].cmd \in Unanswered
          /\ req[Len(req)].cmd = pc /\ (pc \in {"eof", "read"} => req[Len(req)].h = file.host.h)
      BY <2>2 DEF IInv, Turns, Quiet
    <3>2. pc \notin Unanswered
      BY DEF IInv, TypeOK, Unanswered
    <3>3. Len(req) # 1
      BY <3>1, <3>2
    <3>4. Len(req') > 0 /\ Len(req') \in Nat /\ Len(req') + 1 = Len(req)
      BY <1>2, <3>3
    <3>5. req' # <<>>
      BY <1>2, <3>4, EmptyOrNot
    <3>6. Len(req') \in 1 .. Len(req')
      BY <3>4
    <3>7. req'[Len(req')] = req[Len(req)]
      BY <1>3, <3>4, <3>6
    <3>8. \A i \in 1 .. Len(req') - 1 : i + 1 \in 1 .. Len(req) - 1 /\ req'[i] = req[i + 1]
      BY <1>2
    <3>9. ASSUME NEW i \in 1 .. Len(req') - 1 PROVE req'[i].cmd \in Unanswered
      <4>1. i + 1 \in 1 .. Len(req) - 1 /\ req'[i] = req[i + 1]
        BY <3>8
      <4>2. QED BY <3>1, <4>1
    <3>10. (pc \in {"eof", "read"} => InUse("host")) /\ (pc = "open" => ~InUse("host"))
           /\ (pc = "readdir" => listing.host # "no")
      BY DEF IInv, Turns
    <3>11. QED BY <1>1, <1>4, <2>2, <3>1, <3>5, <3>7, <3>9, <3>10 DEF Turns, InUse, Quiet
  <2>3. QED BY <2>1, <2>2
<1>6. ClosesOthers'
  BY <1>1, <1>3 DEF IInv, ClosesOthers, InUse
<1>7. 1 \in 1 .. Len(req)
  BY <1>2
<1>8. /\ InUse("host") /\ file.host.h # NO_HANDLE => req[1].h # file.host.h
      /\ listing.host # "no" /\ dir.host.h # NO_HANDLE => req[1].h # dir.host.h
  BY <1>7 DEF IInv, ClosesOthers
<1>9. UnderWay = 0 /\ UnderWay' = 0 /\ AnswerHolds'
  BY <1>4 DEF UnderWay, AnswerHolds
<1>10. handles' \in Seq(Handles) /\ WithinFile' /\ FileLive' /\ DirLive'
  <2>1. CASE UNCHANGED handles
    BY <1>1, <1>9, <2>1 DEF IInv, TypeOK, WithinFile, FileLive, DirLive, InUse, IsOpen
  <2>2. CASE Changed(req[1].h + 1, Gone)
    <3> DEFINE i == req[1].h + 1
    <3>1. Gone.kind = "closed"
      BY DEF Gone, Handle
    <3>2. /\ handles' \in Seq(Handles) /\ Len(handles') = Len(handles) /\ Len(handles) \in Nat
          /\ handles'[i] = Gone
          /\ \A j \in 1 .. Len(handles) : j # i => handles'[j] = handles[j]
      BY <2>2, Held, ChangedOne
    <3>3. req[1].h \in Nat
      <4>1. req[1] \in Frames
        BY <1>1, Taken
      <4>2. QED BY <4>1, SizeAssumption DEF Frames, Byte
    <3>4. WithinFile'
      BY <3>1, <3>2 DEF IInv, WithinFile
    <3>5. InUse("host") /\ i = file.host.h + 1 => file.host.h = NO_HANDLE
      BY <1>8, <3>3, Held
    <3>6. FileLive'
      BY <1>1, <1>9, <3>1, <3>2, <3>5, Held DEF IInv, FileLive, InUse
    <3>7. listing.host # "no" /\ dir.host.h # NO_HANDLE => i # dir.host.h + 1
      BY <1>8, <3>3, Held
    <3>8. DirLive'
      BY <1>1, <3>2, <3>7, Held DEF IInv, DirLive, IsOpen
    <3>9. QED BY <3>2, <3>4, <3>6, <3>8
  <2>3. QED BY <2>1, <2>2
<1>11. TypeOK'
  BY <1>1, <1>2, <1>4, <1>10 DEF IInv, TypeOK
<1>12. IntLive'
  BY <1>1, IntSideKept DEF IntSide
<1>13. QED BY <1>5, <1>6, <1>9, <1>10, <1>11, <1>12 DEF IInv

LEMMA HostCloseInv == ASSUME IInv, HostClose \/ HostCloseDir PROVE IInv'
<1>1. /\ req # <<>> /\ Head(req).cmd \in Unanswered /\ req' = Tail(req)
      /\ UNCHANGED <<fs, pc, stream, listing, due>>
  BY DEF HostClose, HostCloseDir, Serves, Unanswered
<1>2. req \in Seq(Frames) /\ up \in BOOLEAN
  BY DEF IInv, TypeOK
<1>3. Head(req) = req[1] /\ req[1] \in Frames
  BY <1>1, <1>2, Taken
<1>4. req[1].h \in Nat
  BY <1>3, SizeAssumption DEF Frames, Byte
<1>5. Gone \in Handles
  BY Paths DEF Gone, Handle, Handles
<1>6. req[1].h < Len(handles) => req[1].h + 1 \in 1 .. Len(handles)
  BY <1>4, Held
<1>7. /\ UNCHANGED rep /\ up' \in BOOLEAN
      /\ \/ UNCHANGED handles
         \/ req[1].h < Len(handles) /\ handles' = [handles EXCEPT ![req[1].h + 1] = Gone]
  <2>1. CASE HostClose
    BY <1>2, <1>3, <2>1 DEF HostClose, Silent, Raises, IsOpen
  <2>2. CASE HostCloseDir
    <3>1. req[1].h >= Len(handles) \/ req[1].h < Len(handles)
      BY <1>4, Held
    <3>2. CASE req[1].h >= Len(handles)
      BY <1>2, <1>3, <2>2, <3>2 DEF HostCloseDir, Raises
    <3>3. CASE ~(req[1].h >= Len(handles))
      BY <1>2, <1>3, <2>2, <3>1, <3>3 DEF HostCloseDir, Silent
    <3>4. QED BY <3>2, <3>3
  <2>3. QED BY <2>1, <2>2
<1>8. UNCHANGED handles \/ Changed(req[1].h + 1, Gone)
  BY <1>5, <1>6, <1>7 DEF Changed
<1>9. QED BY <1>1, <1>3, <1>7, <1>8, ClosedInv

LEMMA HostEofInv == ASSUME IInv, HostEof PROVE IInv'
<1> DEFINE i == file.host.h + 1
           v == IF handles[i].pos = HostSize[handles[i].name] THEN 1 ELSE 0
           r == Reply(1, v)
<1>1. Serves("eof")
  BY DEF HostEof
<1>2. /\ pc = "eof" /\ rep = <<>> /\ UNCHANGED <<file, dir, pc, stream, listing>>
      /\ Head(req).h = file.host.h /\ InUse("host")
  BY <1>1, Served DEF Waits
<1>3. r \in Replies /\ r.val = v /\ up \in BOOLEAN
  BY Bytes, Paths DEF Reply, Replies, IInv, TypeOK
<1>4. handles' = handles /\ handles \in Seq(Handles)
  BY DEF HostEof, IInv, TypeOK
<1>5. \/ rep' = <<>> /\ up' = FALSE
      \/ rep' = Append(<<>>, r) /\ up' = up /\ handles[i].kind = "file"
  BY <1>2 DEF HostEof, Raises, Answers, IsOpen
<1>6. handles[i].kind = "file" => v = IF stream.host.got = HostSize[stream.host.name] THEN 1 ELSE 0
  <2>1. UnderWay = 0
    BY <1>2 DEF UnderWay
  <2>2. stream.host.got + 0 = stream.host.got
    BY StreamOf DEF IInv, TypeOK, Streams
  <2>3. QED BY <1>2, <2>1, <2>2 DEF IInv, FileLive
<1> HIDE DEF r, v
<1>7. \/ rep' = <<>>
      \/ rep' = <<r>> /\ rep'[1] = r /\ handles[i].kind = "file"
  BY <1>3, <1>5, OneOrNone
<1>8. AnswerHolds'
  BY <1>2, <1>3, <1>6, <1>7 DEF AnswerHolds
<1>9. UnderWay = 0 /\ UnderWay' = 0
  BY <1>2 DEF UnderWay
<1>10. WithinFile' /\ FileLive' /\ DirLive'
  BY <1>2, <1>4, <1>9 DEF IInv, WithinFile, FileLive, DirLive, IsOpen, InUse
<1>11. up' \in BOOLEAN /\ (rep' = <<>> \/ \E a \in Replies : rep' = <<a>>)
  BY <1>3, <1>5, <1>7
<1>12. QED BY <1>1, <1>4, <1>8, <1>10, <1>11, ServedInv DEF Waits

LEMMA HostReadInv == ASSUME IInv, HostRead PROVE IInv'
<1> DEFINE h == file.host.h
           i == h + 1
           x == handles[i]
           n == Least(MAX_BUF, HostSize[x.name] - x.pos)
           r == [len |-> n, val |-> 0, name |-> x.name, ofs |-> x.pos]
           y == [x EXCEPT !.pos = x.pos + n]
<1>1. Serves("read")
  BY DEF HostRead
<1>2. /\ pc = "read" /\ rep = <<>> /\ UNCHANGED <<file, dir, pc, stream, listing>>
      /\ Head(req).h = file.host.h /\ InUse("host")
  BY <1>1, Served DEF Waits
<1>3. UnderWay = 0 /\ up \in BOOLEAN
  BY <1>2 DEF UnderWay, IInv, TypeOK
<1>4. CASE ~IsOpen("file", h)
  <2>1. rep' = <<>> /\ up' = FALSE /\ handles' = handles
    BY <1>2, <1>4 DEF HostRead, Raises
  <2>2. UnderWay' = 0
    BY <2>1 DEF UnderWay
  <2>3. handles' \in Seq(Handles) /\ AnswerHolds' /\ WithinFile' /\ FileLive' /\ DirLive'
    BY <1>2, <1>3, <2>1, <2>2
    DEF IInv, TypeOK, AnswerHolds, WithinFile, FileLive, DirLive, IsOpen, InUse
  <2>4. QED BY <1>1, <2>1, <2>3, ServedInv DEF Waits
<1>5. CASE IsOpen("file", h)
  <2>1. handles' = [handles EXCEPT ![i].pos = @ + n] /\ Answers(r)
    BY <1>2, <1>5 DEF HostRead
  <2>2. i \in 1 .. Len(handles) /\ handles \in Seq(Handles)
    BY <1>2, Held
  <2>3. x \in Handles /\ x.kind = "file"
    BY <1>5, <2>2, ElementOfSeq DEF IsOpen
  <2>4. stream.host.got \in Nat
    BY StreamOf DEF IInv, TypeOK, Streams
  <2>5. x.name = stream.host.name /\ x.pos = stream.host.got
    BY <1>2, <1>3, <2>3, <2>4 DEF IInv, FileLive
  <2>6. x.name \in HostName /\ x.pos <= HostSize[x.name] /\ HostSize[x.name] \in Nat /\ x.pos \in Nat
    BY <2>2, <2>3, <2>4, <2>5, SizeAssumption DEF IInv, WithinFile, HostName
  <2>7. /\ n \in Nat /\ n <= HostSize[x.name] - x.pos /\ x.pos + n <= HostSize[x.name]
        /\ n = 0 => x.pos = HostSize[x.name]
    BY <2>6, SizeAssumption DEF Least
  <2>8. x.name \in Path
    BY <2>6, Paths
  <2> HIDE DEF n
  <2>9. r \in Replies
    BY <2>6, <2>7, <2>8, Bytes DEF Replies
  <2>10. y \in Handles /\ y.kind = "file" /\ y.name = x.name /\ y.pos = x.pos + n
    BY <2>3, <2>6, <2>7 DEF Handles
  <2>11. Changed(i, y)
    BY <2>1, <2>2, <2>10 DEF Changed
  <2>12. r.len = n /\ r.name = x.name /\ r.ofs = x.pos
    OBVIOUS
  <2>13. rep' = Append(<<>>, r) /\ up' = up
    BY <1>2, <2>1 DEF Answers
  <2> HIDE DEF y, x, r, i
  <2>14. rep' = <<r>> /\ rep'[1] = r /\ rep' # <<>>
    BY <2>9, <2>13, OneOrNone
  <2>15. /\ handles' \in Seq(Handles) /\ Len(handles') = Len(handles) /\ handles'[i] = y
         /\ \A j \in 1 .. Len(handles) : j # i => handles'[j] = handles[j]
    BY <2>2, <2>11, ChangedOne
  <2>16. WithinFile'
    BY <2>6, <2>7, <2>10, <2>15 DEF IInv, WithinFile
  <2>17. AnswerHolds'
    BY <1>2, <2>5, <2>7, <2>12, <2>14 DEF AnswerHolds
  <2>18. UnderWay' = n
    BY <1>2, <2>12, <2>14 DEF UnderWay
  <2>19. FileLive'
    BY <1>2, <2>5, <2>10, <2>15, <2>18 DEF IInv, FileLive, InUse, i
  <2>20. DirLive'
    <3>1. listing.host # "no" /\ dir.host.h # NO_HANDLE => dir.host.h + 1 # i
      BY <2>3 DEF IInv, DirLive, IsOpen, x
    <3>2. QED BY <1>2, <2>15, <3>1, Held DEF IInv, DirLive, IsOpen
  <2>21. up' \in BOOLEAN /\ \E a \in Replies : rep' = <<a>>
    BY <1>3, <2>9, <2>13, <2>14
  <2>22. QED BY <1>1, <2>15, <2>16, <2>17, <2>19, <2>20, <2>21, ServedInv DEF Waits
<1>6. QED BY <1>4, <1>5

LEMMA HostUnknownInv == ASSUME IInv, HostUnknown PROVE IInv'
<1>1. Serves("write") /\ UNCHANGED <<rep, up, handles>>
  BY DEF HostUnknown, Silent
<1>2. pc = "write" /\ rep = <<>> /\ UNCHANGED <<file, dir, pc, stream, listing>>
  BY <1>1, Served DEF Waits
<1>3. UnderWay = 0 /\ UnderWay' = 0
  BY <1>1, <1>2 DEF UnderWay
<1>4. handles' \in Seq(Handles) /\ up' \in BOOLEAN /\ rep' = <<>>
  BY <1>1, <1>2 DEF IInv, TypeOK
<1>5. AnswerHolds' /\ WithinFile' /\ FileLive' /\ DirLive'
  BY <1>1, <1>2, <1>3 DEF IInv, AnswerHolds, WithinFile, FileLive, DirLive, IsOpen, InUse
<1>6. QED BY <1>1, <1>4, <1>5, ServedInv DEF Waits

-----------------------------------------------------------------------------
(* The invariant.                                                          *)

LEMMA InitInv == Init => IInv
<1> SUFFICES ASSUME Init PROVE IInv
  OBVIOUS
<1>1. file \in FileObjects /\ dir \in DirObjects
  BY Bytes DEF Init, FileObjects, DirObjects, IntFile, LocalDir
<1>2. stream \in [FsName -> Streams] /\ stream.int = Closed /\ stream.host = Closed
  BY ClosedType DEF Init, FsName
<1>3. listing \in Listings /\ listing.host = "no"
  BY DEF Init, Listings
<1>4. rep = <<>> /\ req = <<>> /\ handles = <<>> /\ Len(req) = 0 /\ Len(handles) = 0
  BY DEF Init
<1>5. req \in Seq(Frames) /\ rep \in Seq(Replies) /\ handles \in Seq(Handles)
  BY <1>4
<1>6. TypeOK
  BY <1>1, <1>2, <1>3, <1>5 DEF Init, TypeOK
<1>7. ~InUse("int") /\ ~InUse("host")
  BY <1>2 DEF InUse, Closed
<1>8. Turns /\ WithinFile /\ AnswerHolds /\ ClosesOthers
  BY <1>4 DEF Init, Turns, Quiet, WithinFile, AnswerHolds, ClosesOthers
<1>9. FileLive /\ DirLive /\ IntLive
  BY <1>3, <1>7 DEF FileLive, DirLive, IntLive
<1>10. QED BY <1>6, <1>8, <1>9 DEF IInv

LEMMA StepInv == IInv /\ [Next]_vars => IInv'
<1> SUFFICES ASSUME IInv, [Next]_vars PROVE IInv'
  OBVIOUS
<1>1. CASE App
  <2>1. ASSUME NEW m \in Listed, OpenDirLocal(m) \/ ReadDirLocal(m) \/ CloseDirLocal(m) PROVE IInv'
    BY <2>1, LocalDirInv, ListedAssumption
  <2>2. ASSUME NEW n \in FileName, OpenInt(n) PROVE IInv'
    BY <2>2, OpenIntInv
  <2>3. CASE EofInt
    BY <2>3, EofIntInv
  <2>4. CASE ReadInt
    BY <2>4, ReadIntInv
  <2>5. CASE CloseInt
    BY <2>5, CloseIntInv
  <2>6. CASE \/ \E p \in {Here} \cup Missing : OpenDirHost(p)
             \/ \E n \in FileName : OpenHost(n)
             \/ ReadDirHost \/ EofHost \/ ReadHost \/ WriteHost
    BY <2>6, CallsInv
  <2>7. CASE CloseDirHost
    BY <2>7, CloseDirHostInv
  <2>8. CASE CloseHost
    BY <2>8, CloseHostInv
  <2>9. QED BY <1>1, <2>1, <2>2, <2>3, <2>4, <2>5, <2>6, <2>7, <2>8 DEF App
<1>2. CASE Receive
  BY <1>2, SkipEmptyInv, ReceiveOpenDirInv, ReceiveReadDirInv, ReceiveOpenInv, ReceiveEofInv,
     ReceiveDataInv DEF Receive
<1>3. CASE Host
  BY <1>3, HostOpenDirInv, HostReadDirInv, HostOpenInv, HostCloseInv, HostEofInv, HostReadInv,
     HostUnknownInv DEF Host
<1>4. CASE UNCHANGED vars
  <2>1. UNCHANGED HostSide /\ UNCHANGED IntSide /\ TypeOK'
    BY <1>4 DEF vars, HostSide, IntSide, IInv, TypeOK
  <2>2. QED BY <2>1, HostSideKept, IntSideKept DEF IInv
<1>5. QED BY <1>1, <1>2, <1>3, <1>4 DEF Next

LEMMA Invariance == Spec => []IInv
BY InitInv, StepInv, PTL DEF Spec

-----------------------------------------------------------------------------
(* What holds of every content of the two file systems.                    *)

\* The types, and with them that every handle on the wire and in the objects of the
\* device fits its byte, also when the host has given more than there are (bytes([hi])
\* in files_host.py raises before such a handle is sent).
THEOREM TypeCorrect == Spec => []TypeOK
BY Invariance, PTL DEF IInv

\* The handle in the file object and in the directory object of fs_host.h is that of an
\* open file of the name that was opened, or of an open directory, unless it is NO_HANDLE.
THEOREM HandleAlive == Spec => []HandleLive
<1>1. IInv => HandleLive
  <2> SUFFICES ASSUME IInv PROVE HandleLive
    OBVIOUS
  <2>1. listing.host # "no" /\ dir.host.h # NO_HANDLE => IsOpen("dir", dir.host.h)
    BY DEF IInv, DirLive
  <2>2. InUse("host") /\ file.host.h # NO_HANDLE =>
          /\ IsOpen("file", file.host.h)
          /\ handles[file.host.h + 1].name = stream.host.name
    BY DEF IInv, FileLive, IsOpen
  <2>3. QED BY <2>1, <2>2 DEF HandleLive
<1>2. QED BY <1>1, Invariance, PTL

-----------------------------------------------------------------------------
(* Reading is a stream, on both mounts.                                    *)

IntSteps == EofInt \/ ReadInt \/ CloseInt \/ \E n \in FileName : OpenInt(n)
HostSteps == ReceiveOpen \/ ReceiveEof \/ ReceiveData \/ CloseHost

\* What changes the stream of a mount.
LEMMA OtherSteps ==
    ASSUME IInv, [Next]_vars
    PROVE  (IntSteps \/ UNCHANGED stream.int) /\ (HostSteps \/ UNCHANGED stream.host)
<1>1. stream \in [FsName -> Streams]
  BY DEF IInv, TypeOK
<1>2. CASE IntSteps
  <2>1. UNCHANGED stream \/ \E s : stream' = [stream EXCEPT !.int = s]
    BY <1>2 DEF IntSteps, EofInt, ReadInt, CloseInt, OpenInt
  <2>2. UNCHANGED stream.host
    BY <1>1, <2>1 DEF FsName
  <2>3. QED BY <1>2, <2>2
<1>3. CASE HostSteps
  <2>1. \E s : stream' = [stream EXCEPT !.host = s]
    BY <1>3 DEF HostSteps, ReceiveOpen, ReceiveEof, ReceiveData, CloseHost
  <2>2. UNCHANGED stream.int
    BY <1>1, <2>1 DEF FsName
  <2>3. QED BY <1>3, <2>2
<1>4. CASE \/ UNCHANGED vars
           \/ \E m \in Listed : OpenDirLocal(m) \/ ReadDirLocal(m) \/ CloseDirLocal(m)
           \/ \E n \in FileName : OpenHost(n)
           \/ \E p \in {Here} \cup Missing : OpenDirHost(p)
           \/ ReadDirHost \/ CloseDirHost \/ EofHost \/ ReadHost \/ WriteHost
           \/ SkipEmpty \/ ReceiveOpenDir \/ ReceiveReadDir \/ Host
  <2>1. UNCHANGED stream
    BY <1>4 DEF vars, OpenDirLocal, ReadDirLocal, CloseDirLocal, OpenHost, OpenDirHost, ReadDirHost,
       CloseDirHost, EofHost, ReadHost, WriteHost, SkipEmpty, ReceiveOpenDir, ReceiveReadDir, Host,
       HostOpenDir, HostReadDir, HostCloseDir, HostOpen, HostClose, HostEof, HostRead, HostUnknown, Serves
  <2>2. QED BY <2>1
<1>5. QED BY <1>2, <1>3, <1>4 DEF Next, App, Receive, IntSteps, HostSteps

\* An internal file: what fs_int_fread copies and fs_int_feof says is what is there.
LEMMA IntStreamStep ==
    ASSUME IInv, [Next]_vars
    PROVE  IntStream!Next \/ UNCHANGED stream.int
<1>1. stream \in [FsName -> Streams] /\ stream.int \in Streams /\ stream.int.got \in Nat
  BY StreamOf DEF IInv, TypeOK, Streams
<1>2. file.int \in IntFile /\ file.int.pos \in Nat /\ file.int.size \in Nat
  BY FileFields DEF IInv, TypeOK, IntFile
<1>3. InUse("int") =>
        /\ file.int.name = stream.int.name /\ file.int.pos = stream.int.got
        /\ file.int.size = IntFileSize(stream.int.name) /\ file.int.pos <= file.int.size
  BY DEF IInv, IntLive
<1>4. ASSUME NEW n \in FileName, OpenInt(n) PROVE IntStream!Next \/ UNCHANGED stream.int
  <2>1. CASE Entries(n) = {}
    BY <1>4, <2>1 DEF OpenInt
  <2>2. CASE Entries(n) # {}
    <3>1. n \in IntName /\ stream.int.name = "none" /\ stream' = [stream EXCEPT !.int = Opened(n)]
      BY <1>4, <2>2, FirstEntryType DEF OpenInt, InUse
    <3>2. stream'.int = Opened(n)
      BY <1>1, <3>1 DEF FsName
    <3>3. IntStream!Open
      BY <3>1, <3>2 DEF IntStream!Open, IntStream!Nothing, Opened, Closed
    <3>4. QED BY <3>3 DEF IntStream!Next
  <2>3. QED BY <2>1, <2>2
<1>5. CASE EofInt
  <2> DEFINE e == IF file.int.pos >= file.int.size THEN "end" ELSE "more"
             s == [stream.int EXCEPT !.ended = e]
  <2>1. InUse("int") /\ stream' = [stream EXCEPT !.int = s]
    BY <1>5 DEF EofInt
  <2>2. stream'.int = s
    BY <1>1, <2>1 DEF FsName
  <2>3. e = IF stream.int.got = IntFileSize(stream.int.name) THEN "end" ELSE "more"
    BY <1>2, <1>3, <2>1
  <2> HIDE DEF e
  <2>4. s.name = stream.int.name /\ s.got = stream.int.got /\ s.chunk = stream.int.chunk /\ s.ended = e
    BY <1>1 DEF Streams
  <2>5. IntStream!Eof
    BY <2>1, <2>2, <2>3, <2>4 DEF IntStream!Eof, InUse
  <2>6. QED BY <2>5 DEF IntStream!Next
<1>6. CASE ReadInt
  <2> DEFINE n == Least(Ask, file.int.size - file.int.pos)
             c == [name |-> file.int.name, ofs |-> file.int.pos, len |-> n]
             s == [stream.int EXCEPT !.got = @ + n, !.ended = "unknown", !.chunk = c]
  <2>1. InUse("int") /\ stream' = [stream EXCEPT !.int = s]
    BY <1>6 DEF ReadInt
  <2>2. stream'.int = s
    BY <1>1, <2>1 DEF FsName
  <2>3. n \in 0 .. IntFileSize(stream.int.name) - stream.int.got
    BY <1>2, <1>3, <2>1, SizeAssumption DEF Least
  <2>4. n = 0 => stream.int.got = IntFileSize(stream.int.name)
    BY <1>2, <1>3, <2>1, SizeAssumption DEF Least
  <2> HIDE DEF n
  <2>5. /\ s.name = stream.int.name /\ s.got = stream.int.got + n /\ s.ended = "unknown"
        /\ s.chunk = [name |-> stream.int.name, ofs |-> stream.int.got, len |-> n]
    BY <1>1, <1>3, <2>1 DEF Streams
  <2>6. IntStream!Read
    BY <2>1, <2>2, <2>3, <2>4, <2>5 DEF IntStream!Read, InUse
  <2>7. QED BY <2>6 DEF IntStream!Next
<1>7. CASE CloseInt
  <2>1. stream'.int = Closed
    BY <1>1, <1>7 DEF CloseInt, FsName
  <2>2. IntStream!Close
    BY <2>1 DEF IntStream!Close, IntStream!Nothing, Closed
  <2>3. QED BY <2>2 DEF IntStream!Next
<1>8. QED BY <1>4, <1>5, <1>6, <1>7, OtherSteps DEF IntSteps

\* A file of the host: what arrives is what is there, though the host keeps the position
\* and the device the handle.
LEMMA HostStreamStep ==
    ASSUME IInv, [Next]_vars
    PROVE  HostStream!Next \/ UNCHANGED stream.host
<1>1. stream \in [FsName -> Streams] /\ stream.host \in Streams /\ stream.host.got \in Nat
  BY StreamOf DEF IInv, TypeOK, Streams
<1>2. CASE ReceiveOpen
  <2>1. pc = "open" /\ rep # <<>> /\ Head(rep) = rep[1]
    BY <1>2, Returned DEF ReceiveOpen, Waits
  <2>2. stream.host.name = "none" /\ rep[1].name \in HostName
    BY <2>1 DEF IInv, Turns, InUse, AnswerHolds
  <2>3. stream'.host = Opened(rep[1].name)
    BY <1>1, <1>2, <2>1 DEF ReceiveOpen, FsName
  <2>4. HostStream!Open
    BY <2>2, <2>3 DEF HostStream!Open, HostStream!Nothing, Opened, Closed
  <2>5. QED BY <2>4 DEF HostStream!Next
<1>3. CASE ReceiveEof
  <2> DEFINE e == IF rep[1].val = 0 THEN "more" ELSE "end"
             s == [stream.host EXCEPT !.ended = e]
  <2>1. pc = "eof" /\ rep # <<>> /\ Head(rep) = rep[1]
    BY <1>3, Returned DEF ReceiveEof, Waits
  <2>2. /\ InUse("host")
        /\ rep[1].val = IF stream.host.got = HostSize[stream.host.name] THEN 1 ELSE 0
    BY <2>1 DEF IInv, Turns, AnswerHolds
  <2>3. stream' = [stream EXCEPT !.host = s]
    BY <1>3, <2>1 DEF ReceiveEof
  <2>4. stream'.host = s
    BY <1>1, <2>3 DEF FsName
  <2>5. e = IF stream.host.got = HostFileSize(stream.host.name) THEN "end" ELSE "more"
    BY <2>2 DEF HostFileSize
  <2> HIDE DEF e
  <2>6. s.name = stream.host.name /\ s.got = stream.host.got /\ s.chunk = stream.host.chunk /\ s.ended = e
    BY <1>1 DEF Streams
  <2>7. HostStream!Eof
    BY <2>2, <2>4, <2>5, <2>6 DEF HostStream!Eof, InUse
  <2>8. QED BY <2>7 DEF HostStream!Next
<1>4. CASE ReceiveData
  <2> DEFINE n == rep[1].len
             c == [name |-> rep[1].name, ofs |-> rep[1].ofs, len |-> n]
             s == [stream.host EXCEPT !.got = @ + n, !.ended = "unknown", !.chunk = c]
  <2>1. pc = "read" /\ rep # <<>> /\ Head(rep) = rep[1] /\ rep[1] \in Replies
    BY <1>4, Returned DEF ReceiveData, Waits
  <2>2. /\ InUse("host") /\ rep[1].name = stream.host.name /\ rep[1].ofs = stream.host.got
        /\ n <= HostSize[stream.host.name] - stream.host.got
        /\ n = 0 => stream.host.got = HostSize[stream.host.name]
    BY <2>1 DEF IInv, Turns, AnswerHolds
  <2>3. HostSize[stream.host.name] \in Nat
    BY <2>2, SizeAssumption DEF IInv, FileLive, HostName
  <2>4. stream' = [stream EXCEPT !.host = s]
    BY <1>4, <2>1 DEF ReceiveData
  <2>5. stream'.host = s
    BY <1>1, <2>4 DEF FsName
  <2>6. n \in Nat
    BY <2>1 DEF Replies
  <2> HIDE DEF n
  <2>7. n \in 0 .. HostFileSize(stream.host.name) - stream.host.got
    BY <1>1, <2>2, <2>3, <2>6 DEF HostFileSize
  <2>8. /\ s.name = stream.host.name /\ s.got = stream.host.got + n /\ s.ended = "unknown"
        /\ s.chunk = [name |-> stream.host.name, ofs |-> stream.host.got, len |-> n]
    BY <1>1, <2>2 DEF Streams
  <2>9. HostStream!Read
    BY <2>2, <2>5, <2>7, <2>8 DEF HostStream!Read, HostFileSize, InUse
  <2>10. QED BY <2>9 DEF HostStream!Next
<1>5. CASE CloseHost
  <2>1. stream'.host = Closed
    BY <1>1, <1>5 DEF CloseHost, FsName
  <2>2. HostStream!Close
    BY <2>1 DEF HostStream!Close, HostStream!Nothing, Closed
  <2>3. QED BY <2>2 DEF HostStream!Next
<1>6. QED BY <1>2, <1>3, <1>4, <1>5, OtherSteps DEF HostSteps

\* The file layer implements a stream on each mount: every byte of the file that was
\* opened once and in order, its end where it is, whatever is done to the other mount and
\* to directories in between, for every size of files, frames and reads.
THEOREM StreamsImplemented == Spec => ReadsAreStreams
<1>1. Init => IntStream!Init /\ HostStream!Init
  BY DEF Init, IntStream!Init, HostStream!Init, IntStream!Nothing, HostStream!Nothing, Closed, FsName
<1>2. IInv /\ [Next]_vars =>
        [IntStream!Next]_<<stream.int.name, stream.int.got, stream.int.chunk, stream.int.ended>>
  BY IntStreamStep
<1>3. IInv /\ [Next]_vars =>
        [HostStream!Next]_<<stream.host.name, stream.host.got, stream.host.chunk, stream.host.ended>>
  BY HostStreamStep
<1>4. QED
  BY <1>1, <1>2, <1>3, Invariance, PTL DEF Spec, ReadsAreStreams, IntStream!Spec, HostStream!Spec
==============================================================================
