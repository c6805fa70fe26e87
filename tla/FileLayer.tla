------------------------------ MODULE FileLayer ------------------------------
(***************************************************************************)
(* The file layer of the library: fileio.h over fs_root.h, which has the    *)
(* mounts "int" (fs_internal.h), "host" (fs_host.h) and "nul", in which     *)
(* nothing can be opened (fs_null.h), and the host that serves "host"       *)
(* (examples/files/files_host.py).                                          *)
(*                                                                          *)
(* The program on the device calls opendir, readdir, closedir, fopen, feof, *)
(* fread, fwrite and fclose in any order in which it uses what is open, one *)
(* file and one directory of each file system at a time.  Calls to "host"   *)
(* send a frame of the plain binary protocol (driver/host.h) and wait; the  *)
(* emulator delivers frames in order.  A file's contents are positions.     *)
(***************************************************************************)
EXTENDS Integers, Sequences, FiniteSets

CONSTANTS
    IntDir,         \* FS_INTERNAL_FILES: a sequence of names and sizes
    HostSize,       \* the size of each file in the host's directory
    Missing,        \* names of no file
    Listed,         \* the directories on the device that are listed: of "root" and "int"
    Ask,            \* the number of bytes fread is asked for
    MAX_BUF,        \* the number of bytes the host sends: 32
    NO_HANDLE       \* FS_HOST_NO_HANDLE, the greatest byte: 0xff

ASSUME SizeAssumption ==
    /\ IntDir \in Seq([name : STRING, size : Nat])
    /\ HostSize \in [DOMAIN HostSize -> Nat] /\ IsFiniteSet(DOMAIN HostSize)
    /\ Ask \in Nat \ {0} /\ MAX_BUF \in Nat \ {0} /\ NO_HANDLE \in Nat \ {0}
ASSUME ListedAssumption == Listed \subseteq {"root", "int"}
ASSUME NameAssumption ==
    LET names == DOMAIN HostSize \cup {IntDir[i].name : i \in DOMAIN IntDir}
    IN  Missing \cap names = {} /\ "none" \notin names

VARIABLES
    file,       \* fs_int_tmpFile and fs_host_tmpFile
    dir,        \* the temporary directory of "root", "int" and "host"
    pc,         \* "app", or the call to the host file system that waits for an answer
    req, rep,   \* frames from and to the device
    handles,    \* the host's list of handles
    up,         \* the host is running
    stream,     \* history: what the program has open on each mount and has got of it
    listing,    \* history: "no", or "on" or "end" of what the program lists of each mount
    due         \* history: the call has an answer

fs     == <<file, dir>>
link   == <<req, rep>>
vars   == <<file, dir, pc, req, rep, handles, up, stream, listing, due>>

IntName  == {IntDir[i].name : i \in DOMAIN IntDir}
HostName == DOMAIN HostSize
FileName == IntName \cup HostName \cup Missing
Here     == ""      \* the name of a mount's own directory
Path     == FileName \cup {Here, "none"}
FsName   == {"int", "host"}
Mounts   == 3

Closed   == [name |-> "none", got |-> 0, ended |-> "unknown",
             chunk |-> [name |-> "none", ofs |-> 0, len |-> 0]]
Opened(n) == [Closed EXCEPT !.name = n]
Frame(c, n, h) == [cmd |-> c, name |-> n, h |-> h]
Reply(l, v) == [len |-> l, val |-> v, name |-> "none", ofs |-> 0]

\* The first entry of this name, and the number of bytes of a file.
Entries(n) == {i \in DOMAIN IntDir : IntDir[i].name = n}
FirstEntry(n) == CHOOSE i \in Entries(n) : \A j \in Entries(n) : i <= j
IntFileSize(n) == IntDir[FirstEntry(n)].size
HostFileSize(n) == HostSize[n]

InUse(m) == stream[m].name # "none"
Least(a, b) == IF a < b THEN a ELSE b

\* handles[i] of the host is element i + 1 here.
Handle(kind, n, p) == [kind |-> kind, name |-> n, pos |-> p]
Gone == Handle("closed", "none", 0)
IsOpen(kind, h) == h < Len(handles) /\ handles[h + 1].kind = kind

Init ==
    /\ file = [int |-> [name |-> "none", pos |-> 0, size |-> 0], host |-> [h |-> 0]]
    /\ dir = [root |-> [pos |-> 0, count |-> 0], int |-> [pos |-> 0, count |-> 0],
              host |-> [h |-> 0, pos |-> 0]]
    /\ pc = "app" /\ req = <<>> /\ rep = <<>> /\ handles = <<>> /\ up = TRUE
    /\ stream = [m \in FsName |-> Closed]
    /\ listing = [root |-> "no", int |-> "no", host |-> "no"]
    /\ due = TRUE

-----------------------------------------------------------------------------
(* The root and the internal file system: a call is one step.              *)

Local == UNCHANGED <<pc, req, rep, handles, up, due>>

OpenDirLocal(m) ==
    /\ pc = "app" /\ listing[m] = "no"
    /\ dir' = [dir EXCEPT ![m] = [pos |-> 0, count |-> IF m = "root" THEN Mounts ELSE Len(IntDir)]]
    /\ listing' = [listing EXCEPT ![m] = "on"]
    /\ UNCHANGED <<file, stream>> /\ Local

ReadDirLocal(m) ==
    /\ pc = "app" /\ listing[m] = "on"
    /\ IF dir[m].pos >= dir[m].count
       THEN UNCHANGED dir /\ listing' = [listing EXCEPT ![m] = "end"]
       ELSE dir' = [dir EXCEPT ![m].pos = @ + 1] /\ UNCHANGED listing
    /\ UNCHANGED <<file, stream>> /\ Local

CloseDirLocal(m) ==
    /\ pc = "app" /\ listing[m] # "no"
    /\ dir' = [dir EXCEPT ![m].count = 0]
    /\ listing' = [listing EXCEPT ![m] = "no"]
    /\ UNCHANGED <<file, stream>> /\ Local

\* fs_int_fopen: searches with its own directory functions.
OpenInt(n) ==
    /\ pc = "app" /\ ~InUse("int")
    /\ IF Entries(n) = {}
       THEN /\ dir' = [dir EXCEPT !.int = [pos |-> Len(IntDir), count |-> 0]]
            /\ UNCHANGED <<file, stream>>
       ELSE /\ dir' = [dir EXCEPT !.int = [pos |-> FirstEntry(n), count |-> 0]]
            /\ file' = [file EXCEPT !.int = [name |-> n, pos |-> 0, size |-> IntFileSize(n)]]
            /\ stream' = [stream EXCEPT !.int = Opened(n)]
    /\ UNCHANGED listing /\ Local

EofInt ==
    /\ pc = "app" /\ InUse("int")
    /\ stream' = [stream EXCEPT !.int.ended =
                    IF file.int.pos >= file.int.size THEN "end" ELSE "more"]
    /\ UNCHANGED <<file, dir, listing>> /\ Local

ReadInt ==
    LET f == file.int
        n == Least(Ask, f.size - f.pos)
    IN  /\ pc = "app" /\ InUse("int")
        /\ file' = [file EXCEPT !.int.pos = @ + n]
        /\ stream' = [stream EXCEPT !.int.got = @ + n, !.int.ended = "unknown",
                        !.int.chunk = [name |-> f.name, ofs |-> f.pos, len |-> n]]
        /\ UNCHANGED <<dir, listing>> /\ Local

CloseInt ==
    /\ pc = "app" /\ InUse("int")
    /\ file' = [file EXCEPT !.int.pos = 0, !.int.size = 0]
    /\ stream' = [stream EXCEPT !.int = Closed]
    /\ UNCHANGED <<dir, listing>> /\ Local

-----------------------------------------------------------------------------
(* fs_host.h: send a command, and for most of them wait for the answer.     *)

Call(c, n, h, answered) ==
    /\ pc = "app" /\ pc' = c /\ req' = Append(req, Frame(c, n, h)) /\ due' = answered
    /\ UNCHANGED <<rep, handles, up>>
Tell(c, h) ==
    /\ pc = "app" /\ req' = Append(req, Frame(c, "none", h))
    /\ UNCHANGED <<pc, rep, handles, up, due>>

Exhausted == Len(handles) > NO_HANDLE

OpenDirHost(p) ==
    /\ listing.host = "no"
    /\ Call("opendir", p, 0, up /\ ~Exhausted)
    /\ UNCHANGED <<fs, stream, listing>>

\* An entry is left when the listing of the program ends with the host's.
ReadDirHost ==
    LET h == dir.host.h
    IN  /\ listing.host = "on"
        /\ Call("readdir", "none", h, up /\ IsOpen("dir", h) /\ handles[h + 1].pos > 0)
        /\ UNCHANGED <<fs, stream, listing>>

CloseDirHost ==
    /\ listing.host # "no"
    /\ Tell("closedir", dir.host.h)
    /\ dir' = [dir EXCEPT !.host.h = 0]
    /\ listing' = [listing EXCEPT !.host = "no"]
    /\ UNCHANGED <<file, stream>>

OpenHost(n) ==
    /\ ~InUse("host")
    /\ Call("open", n, 0, up /\ ~Exhausted /\ n \in HostName)
    /\ UNCHANGED <<fs, stream, listing>>

EofHost ==
    /\ InUse("host")
    /\ Call("eof", "none", file.host.h, up)
    /\ UNCHANGED <<fs, stream, listing>>

ReadHost ==
    /\ InUse("host")
    /\ Call("read", "none", file.host.h, up /\ stream.host.got < HostSize[stream.host.name])
    /\ UNCHANGED <<fs, stream, listing>>

WriteHost ==
    /\ InUse("host")
    /\ Call("write", "none", 0, FALSE)
    /\ UNCHANGED <<fs, stream, listing>>

CloseHost ==
    /\ InUse("host")
    /\ Tell("close", file.host.h)
    /\ file' = [file EXCEPT !.host.h = 0]
    /\ stream' = [stream EXCEPT !.host = Closed]
    /\ UNCHANGED <<dir, listing>>

\* host_receive_frame_binary skips zeros before the length: a frame of no bytes is
\* not seen.
SkipEmpty ==
    /\ pc # "app" /\ rep # <<>> /\ Head(rep).len = 0
    /\ rep' = Tail(rep)
    /\ UNCHANGED <<fs, pc, req, handles, up, stream, listing, due>>

Receives(c) ==
    /\ pc = c /\ rep # <<>> /\ Head(rep).len > 0
    /\ rep' = Tail(rep) /\ pc' = "app"
    /\ UNCHANGED <<req, handles, up, due>>

\* No handle is refused, NO_HANDLE neither.
ReceiveOpenDir ==
    /\ Receives("opendir")
    /\ dir' = [dir EXCEPT !.host = [h |-> Head(rep).val, pos |-> 0]]
    /\ listing' = [listing EXCEPT !.host = "on"]
    /\ UNCHANGED <<file, stream>>

\* fs_host_receive_asciiz returns FS_HOST_OK, which fs_host_readdir takes for a
\* length of 0: it returns NULL.
ReceiveReadDir ==
    /\ Receives("readdir")
    /\ listing' = [listing EXCEPT !.host = "end"]
    /\ UNCHANGED <<fs, stream>>

ReceiveOpen ==
    /\ Receives("open")
    /\ file' = [file EXCEPT !.host.h = Head(rep).val]
    /\ stream' = [stream EXCEPT !.host = Opened(Head(rep).name)]
    /\ UNCHANGED <<dir, listing>>

ReceiveEof ==
    /\ Receives("eof")
    /\ stream' = [stream EXCEPT !.host.ended = IF Head(rep).val = 0 THEN "more" ELSE "end"]
    /\ UNCHANGED <<fs, listing>>

ReceiveData ==
    LET r == Head(rep)
    IN  /\ Receives("read")
        /\ stream' = [stream EXCEPT !.host.got = @ + r.len, !.host.ended = "unknown",
                        !.host.chunk = [name |-> r.name, ofs |-> r.ofs, len |-> r.len]]
        /\ UNCHANGED <<fs, listing>>

-----------------------------------------------------------------------------
(* files_host.py: handle_frame.  An exception ends the host.               *)

Serves(c) ==
    /\ up /\ req # <<>> /\ Head(req).cmd = c
    /\ req' = Tail(req)
    /\ UNCHANGED <<fs, pc, stream, listing, due>>
Answers(r) == rep' = Append(rep, r) /\ UNCHANGED up
Silent     == UNCHANGED <<rep, up>>
Raises     == up' = FALSE /\ UNCHANGED rep

\* Mutant of NewHandle: a handle beyond a byte is sent.
NewHandle_NoLimit(x, n) ==
    /\ handles' = Append(handles, x)
    /\ Answers([Reply(1, Len(handles)) EXCEPT !.name = n])

\* The handle is appended before bytes([hi]) finds that it does not fit.
NewHandle(x, n) ==
    /\ handles' = Append(handles, x)
    /\ IF Exhausted THEN Raises ELSE Answers([Reply(1, Len(handles)) EXCEPT !.name = n])

\* Only the mount's own directory exists: "" becomes ".".
HostOpenDir ==
    /\ Serves("opendir")
    /\ IF Head(req).name = Here
       THEN NewHandle(Handle("dir", Here, Cardinality(HostName)), Here)
       ELSE Answers(Reply(1, NO_HANDLE)) /\ UNCHANGED handles

HostReadDir ==
    LET h == Head(req).h
    IN  /\ Serves("readdir")
        /\ IF h >= Len(handles)
           THEN Answers(Reply(0, 0)) /\ UNCHANGED handles
           ELSE IF ~IsOpen("dir", h)
           THEN Raises /\ UNCHANGED handles
           ELSE /\ handles' = [handles EXCEPT ![h + 1].pos = IF @ = 0 THEN 0 ELSE @ - 1]
                /\ Answers(Reply(Least(handles[h + 1].pos, 1), 0))

HostCloseDir ==
    LET h == Head(req).h
    IN  /\ Serves("closedir")
        /\ IF h >= Len(handles)
           THEN Raises /\ UNCHANGED handles
           ELSE handles' = [handles EXCEPT ![h + 1] = Gone] /\ Silent

HostOpen ==
    LET n == Head(req).name
    IN  /\ Serves("open")
        /\ IF n \in HostName
           THEN NewHandle(Handle("file", n, 0), n)
           ELSE Raises /\ UNCHANGED handles

\* Mutant of HostClose: the list gets shorter, and later handles move.
HostClose_Removes ==
    LET h == Head(req).h
    IN  /\ Serves("close")
        /\ IF IsOpen("file", h)
           THEN handles' = SubSeq(handles, 1, h) \o SubSeq(handles, h + 2, Len(handles)) /\ Silent
           ELSE Raises /\ UNCHANGED handles

HostClose ==
    LET h == Head(req).h
    IN  /\ Serves("close")
        /\ IF IsOpen("file", h)
           THEN handles' = [handles EXCEPT ![h + 1] = Gone] /\ Silent
           ELSE Raises /\ UNCHANGED handles

\* Mutant of HostEof: the end is reported when one byte is left.
HostEof_Early ==
    LET h == Head(req).h
        f == handles[h + 1]
    IN  /\ Serves("eof")
        /\ UNCHANGED handles
        /\ IF IsOpen("file", h)
           THEN Answers(Reply(1, IF f.pos + 1 >= HostSize[f.name] THEN 1 ELSE 0))
           ELSE Raises

\* Mutant of HostEof: the answer "not at the end" is empty.
HostEof_Empty ==
    LET h == Head(req).h
        f == handles[h + 1]
    IN  /\ Serves("eof")
        /\ UNCHANGED handles
        /\ IF IsOpen("file", h)
           THEN Answers(IF f.pos = HostSize[f.name] THEN Reply(1, 1) ELSE Reply(0, 0))
           ELSE Raises

HostEof ==
    LET h == Head(req).h
        f == handles[h + 1]
    IN  /\ Serves("eof")
        /\ UNCHANGED handles
        /\ IF IsOpen("file", h)
           THEN Answers(Reply(1, IF f.pos = HostSize[f.name] THEN 1 ELSE 0))
           ELSE Raises

\* The number of bytes asked for is not looked at.
HostRead ==
    LET h == Head(req).h
        f == handles[h + 1]
        n == Least(MAX_BUF, HostSize[f.name] - f.pos)
    IN  /\ Serves("read")
        /\ IF IsOpen("file", h)
           THEN /\ handles' = [handles EXCEPT ![h + 1].pos = @ + n]
                /\ Answers([len |-> n, val |-> 0, name |-> f.name, ofs |-> f.pos])
           ELSE Raises /\ UNCHANGED handles

HostUnknown == Serves("write") /\ Silent /\ UNCHANGED handles
-----------------------------------------------------------------------------

App ==
    \/ \E m \in Listed : OpenDirLocal(m) \/ ReadDirLocal(m) \/ CloseDirLocal(m)
    \/ \E n \in FileName : OpenInt(n) \/ OpenHost(n)
    \/ EofInt \/ ReadInt \/ CloseInt
    \/ \E p \in {Here} \cup Missing : OpenDirHost(p)
    \/ ReadDirHost \/ CloseDirHost
    \/ EofHost \/ ReadHost \/ WriteHost \/ CloseHost
Receive ==
    \/ SkipEmpty
    \/ ReceiveOpenDir \/ ReceiveReadDir \/ ReceiveOpen \/ ReceiveEof \/ ReceiveData
Host ==
    \/ HostOpenDir \/ HostReadDir \/ HostCloseDir
    \/ HostOpen \/ HostClose \/ HostEof \/ HostRead \/ HostUnknown

Next == App \/ Receive \/ Host
Spec == Init /\ [][Next]_vars

\* The device reads the port until a frame is there; the host reads and handles
\* frames in a loop.  The program calls when it likes.
FairSpec == Spec /\ WF_vars(Receive) /\ WF_vars(Host)

-----------------------------------------------------------------------------
(* Properties                                                              *)

Byte  == 0..NO_HANDLE
IntFile  == [name : IntName \cup {"none"}, pos : Nat, size : Nat]
LocalDir == [pos : Nat, count : Nat]
FileObjects == [int : IntFile, host : [h : Byte]]
DirObjects  == [root : LocalDir, int : LocalDir, host : [h : Byte, pos : Nat]]
Replies  == [len : Nat, val : Byte, name : Path, ofs : Nat]
Handles  == [kind : {"file", "dir", "closed"}, name : Path, pos : Nat]
Listings == [root : {"no", "on", "end"}, int : {"no", "on", "end"}, host : {"no", "on", "end"}]
Frames == [cmd : {"opendir", "readdir", "closedir", "open", "eof", "read", "write", "close"},
           name : Path, h : Byte]
Chunks  == [name : FileName \cup {"none"}, ofs : Nat, len : Nat]
Streams == [name : FileName \cup {"none"}, got : Nat, ended : {"unknown", "more", "end"},
            chunk : Chunks]

\* Types; every handle on the wire and in the device's objects fits its byte.
TypeOK ==
    /\ file \in FileObjects /\ dir \in DirObjects
    /\ pc \in {"app", "opendir", "readdir", "open", "eof", "read", "write"}
    /\ req \in Seq(Frames) /\ up \in BOOLEAN /\ due \in BOOLEAN
    /\ rep \in Seq(Replies) /\ handles \in Seq(Handles)
    /\ stream \in [FsName -> Streams] /\ listing \in Listings

\* While a program has a file of the host open, the number in the device's one file
\* object is that of an open file of this name on the host, and not that of any
\* other, however many files and directories were opened and closed before.  The
\* same of a directory.  Except of NO_HANDLE itself: it is the number of the 256th
\* handle, too, which the closedir of a directory that does not exist then closes.
HandleLive ==
    /\ InUse("host") /\ file.host.h # NO_HANDLE =>
        /\ IsOpen("file", file.host.h)
        /\ handles[file.host.h + 1].name = stream.host.name
    /\ listing.host # "no" /\ dir.host.h # NO_HANDLE => IsOpen("dir", dir.host.h)

\* fread and feof on "int" and on "host" are those of a stream, whatever is done to
\* files and directories of the other mounts in between: the data of the file that
\* was opened, each byte once and in order, and its end where it is.
IntStream == INSTANCE FileStream WITH
    Name <- IntName, Size <- IntFileSize,
    name <- stream.int.name, got <- stream.int.got,
    chunk <- stream.int.chunk, ended <- stream.int.ended
HostStream == INSTANCE FileStream WITH
    Name <- HostName, Size <- HostFileSize,
    name <- stream.host.name, got <- stream.host.got,
    chunk <- stream.host.chunk, ended <- stream.host.ended
ReadsAreStreams == IntStream!Spec /\ HostStream!Spec

\* A call that has an answer returns: a file that exists while there are handles,
\* data before the end of a file, an entry before the end of a directory; unless one
\* of the frames sent before it, as the closedir of a directory that never was, ends
\* the host.
CallsReturn == (pc # "app" /\ due) ~> (pc = "app" \/ ~up)
=============================================================================
