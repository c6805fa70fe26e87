------------------------------ MODULE ParaBuddy ------------------------------
(***************************************************************************)
(* Files behind the printer port: fs_parabuddy.h over driver/parabuddy.h,   *)
(* and the "ParallelBuddy", a microcontroller with an SD card whose sketch   *)
(* is no source of this tree and is modelled by how it answers.             *)
(*                                                                          *)
(* A call sends one frame and receives at most one.  Frames have a type but *)
(* no number; the device waits for an answer only so long; a frame may be   *)
(* lost, or arrive when its call has given up.  The program on the device   *)
(* uses one directory or one file at a time, as monitor.c does (ls, cat).   *)
(***************************************************************************)
EXTENDS Integers, Sequences, FiniteSets

CONSTANTS
    Slots,          \* VPB_MAX_DIRS and VPB_MAX_FILES of the sketch: 2
    Size,           \* entries of a directory, pieces of a file
    PB_NO_HANDLE,   \* 0xff
    MaxFaults,      \* bound on frames lost and devices restarted
    MaxLate         \* bound on calls that give up too early

Kind == {"dir", "file"}
ASSUME BuddyAssumption ==
    /\ Slots \in Nat \ {0} /\ Size \in [Kind -> Nat]
    /\ PB_NO_HANDLE \in Nat /\ PB_NO_HANDLE >= Slots /\ MaxFaults \in Nat /\ MaxLate \in Nat

VARIABLES
    pc,             \* "idle", or the call that waits: "open", "get" (an entry, a piece), "eof"
    kind, open,     \* what the program uses; "no", "yes", or "end" when there is no more of it
    handle,         \* userData of fs_pb_tmpDir or fs_pb_tmpFile
    name,           \* fs_pb_tmpName: the number of an entry, 0 the empty string
    req, ans,       \* frames to and from the buddy; own: of the call that is waiting
    used, at,       \* the sketch's slots in use, and how far it is in the directory and the file
    up, wild,       \* the sketch runs; it wrote before one of its arrays
    got,            \* history: the last entry or piece the program got
    faults, late    \* frames lost and restarts; calls that gave up on an answer to come

device == <<pc, kind, open, handle, name, got>>
buddy  == <<used, at, up, wild>>
vars   == <<device, req, ans, buddy, faults, late>>

Init ==
    /\ pc = "idle" /\ kind = "dir" /\ open = "no" /\ handle = 0 /\ name = 0
    /\ req = <<>> /\ ans = <<>>
    /\ used = [k \in Kind |-> {}] /\ at = [k \in Kind |-> 0] /\ up = TRUE /\ wild = FALSE
    /\ got = 0 /\ faults = 0 /\ late = 0

-----------------------------------------------------------------------------
(* The device.                                                             *)

\* pb_file_close, pb_file_closedir and, by the sketch, FILE_EOF have no answer.
Answered == {"open", "get"}

\* A sketch that died reads nothing.
Send(c, k) ==
    LET f == [cmd |-> c, kind |-> k, h |-> handle, own |-> c \in Answered]
    IN  req' = IF up THEN Append(req, f) ELSE req

Disown(q) == [i \in DOMAIN q |-> [q[i] EXCEPT !.own = FALSE]]
Coming == (up /\ \E i \in DOMAIN req : req[i].own) \/ \E i \in DOMAIN ans : ans[i].own

Open(k) ==
    /\ pc = "idle" /\ open = "no"
    /\ Send("open", k) /\ pc' = "open" /\ kind' = k
    /\ UNCHANGED <<open, handle, name, got, ans, buddy, faults, late>>

\* Mutant: the request is sent twice, to be sure.
Get_Twice ==
    /\ pc = "idle" /\ open = "yes" /\ pc' = "get"
    /\ LET f == [cmd |-> "get", kind |-> kind, h |-> handle, own |-> TRUE]
       IN  req' = IF up THEN req \o <<f, f>> ELSE req
    /\ UNCHANGED <<kind, open, handle, name, got, ans, buddy, faults, late>>

\* fs_pb_readdir; fs_pb_fread.
Get ==
    /\ pc = "idle" /\ open = "yes"
    /\ Send("get", kind) /\ pc' = "get"
    /\ UNCHANGED <<kind, open, handle, name, got, ans, buddy, faults, late>>

Eof ==
    /\ pc = "idle" /\ open = "yes" /\ kind = "file"
    /\ Send("eof", kind) /\ pc' = "eof"
    /\ UNCHANGED <<kind, open, handle, name, got, ans, buddy, faults, late>>

\* Mutant: closing forgets the handle and does not tell the buddy.
Close_LocalOnly ==
    /\ pc = "idle" /\ open = "end"
    /\ open' = "no" /\ handle' = 0 /\ got' = 0
    /\ UNCHANGED <<pc, kind, name, req, ans, buddy, faults, late>>

Close ==
    /\ pc = "idle" /\ open = "end"
    /\ Send("close", kind)
    /\ open' = "no" /\ handle' = 0 /\ got' = 0
    /\ UNCHANGED <<pc, kind, name, ans, buddy, faults, late>>

\* Mutant: a frame of another type stays in the buffer.
Receive_Peeks(expected) ==
    /\ ans # <<>> /\ pc' = "idle"
    /\ ans' = Disown(IF Head(ans).kind = expected THEN Tail(ans) ELSE ans)
    /\ req' = Disown(req)
    /\ UNCHANGED <<kind, buddy, faults, late>>

\* pb_receiveFrame takes what comes; only the type tells it from another call's answer.
Receive(expected) ==
    /\ ans # <<>> /\ pc' = "idle"
    /\ ans' = Disown(Tail(ans)) /\ req' = Disown(req)
    /\ UNCHANGED <<kind, buddy, faults, late>>
Fits(expected) == Head(ans).kind = expected

Opened(h) ==
    /\ open' = IF h = PB_NO_HANDLE THEN "no" ELSE "yes"
    /\ handle' = IF h = PB_NO_HANDLE THEN 0 ELSE h
    /\ got' = 0 /\ UNCHANGED name

ReceiveHandle ==
    /\ pc = "open" /\ Receive("byte")
    /\ Opened(IF Fits("byte") THEN Head(ans).val ELSE PB_NO_HANDLE)

\* Mutant: an empty answer is not terminated, so that the old name stays.
Listed_KeepsName(n) ==
    /\ name' = IF n = 0 THEN name ELSE n
    /\ got' = name' /\ open' = IF name' = 0 THEN "end" ELSE "yes"
    /\ UNCHANGED handle

\* fs_pb_readdir looks at the name only: after a failed call at the one before.
Listed(n) ==
    /\ name' = n /\ got' = n
    /\ open' = IF n = 0 THEN "end" ELSE "yes"
    /\ UNCHANGED handle

\* An answer of another type cuts the name off at its own length.
ReceiveName ==
    /\ pc = "get" /\ kind = "dir" /\ Receive("asciiz")
    /\ Listed(IF Fits("asciiz") THEN Head(ans).val
              ELSE IF Fits("data") /\ Head(ans).val = 0 THEN 0 ELSE name)

\* cat and load end at a read of nothing.
Got(n) ==
    /\ open' = IF n = 0 THEN "end" ELSE "yes"
    /\ got' = IF n = 0 THEN got ELSE n
    /\ UNCHANGED <<handle, name>>

ReceiveData ==
    /\ pc = "get" /\ kind = "file" /\ Receive("data")
    /\ Got(IF Fits("data") THEN Head(ans).val ELSE 0)

\* An answer to pb_file_eof comes of another call only: the value 0 is "not at the end".
AtEof(r) ==
    /\ open' = IF r = 0 THEN "yes" ELSE "end"
    /\ UNCHANGED <<handle, name, got>>

ReceiveEof ==
    /\ pc = "eof" /\ Receive("byte")
    /\ AtEof(IF Fits("byte") THEN Head(ans).val ELSE 1)

\* PB_RECEIVE_TIMEOUT: the call fails.
Timeout ==
    /\ pc # "idle" /\ pc' = "idle"
    /\ Coming => late < MaxLate
    /\ late' = IF Coming THEN late + 1 ELSE late
    /\ req' = Disown(req) /\ ans' = Disown(ans)
    /\ CASE pc = "open" -> Opened(PB_NO_HANDLE)
         [] pc = "get" /\ kind = "dir" -> Listed(name)
         [] pc = "get" /\ kind = "file" -> Got(0)
         [] pc = "eof" -> AtEof(1)
    /\ UNCHANGED <<kind, buddy, faults>>

\* The device is switched off and on; the buddy is not.
Restart ==
    /\ faults < MaxFaults /\ faults' = faults + 1
    /\ Coming => late < MaxLate
    /\ late' = IF Coming THEN late + 1 ELSE late
    /\ req' = Disown(req) /\ ans' = Disown(ans)
    /\ pc' = "idle" /\ kind' = "dir" /\ open' = "no" /\ handle' = 0 /\ name' = 0 /\ got' = 0
    /\ UNCHANGED buddy

-----------------------------------------------------------------------------
(* The line.                                                               *)

LoseRequest ==
    /\ req # <<>> /\ req' = Tail(req)
    /\ faults < MaxFaults /\ faults' = faults + 1
    /\ UNCHANGED <<device, ans, buddy, late>>

LoseAnswer ==
    /\ ans # <<>> /\ ans' = Tail(ans)
    /\ faults < MaxFaults /\ faults' = faults + 1
    /\ UNCHANGED <<device, req, buddy, late>>

\* The device samples the line only inside a call.
Unheard ==
    /\ pc = "idle" /\ ans # <<>> /\ ans' = Tail(ans)
    /\ UNCHANGED <<device, req, buddy, faults, late>>

-----------------------------------------------------------------------------
(* The buddy.                                                              *)

Serves(c) ==
    /\ up /\ req # <<>> /\ Head(req).cmd = c /\ req' = Tail(req)
    /\ UNCHANGED <<device, faults, late>>
Answer(t, v) == ans' = Append(ans, [kind |-> t, val |-> v, own |-> Head(req).own])
Free(k) == (0 .. Slots - 1) \ used[k]

\* The slot is looked for first and not tested: without one, -1 is written at and returned.
BuddyOpen ==
    /\ Serves("open")
    /\ LET k == Head(req).kind
           j == CHOOSE i \in Free(k) : \A f \in Free(k) : i <= f
       IN  \/ Answer("byte", PB_NO_HANDLE) /\ UNCHANGED <<used, at, wild>>
           \/ /\ at' = [at EXCEPT ![k] = 0]
              /\ IF Free(k) = {}
                 THEN Answer("byte", PB_NO_HANDLE) /\ wild' = TRUE /\ UNCHANGED used
                 ELSE Answer("byte", j) /\ used' = [used EXCEPT ![k] = @ \cup {j}] /\ UNCHANGED wild
    /\ UNCHANGED up

\* All slots of a kind share one position; an empty slot is a null pointer.
BuddyGet ==
    /\ Serves("get")
    /\ LET k == Head(req).kind
           t == IF k = "dir" THEN "asciiz" ELSE "data"
       IN  IF Head(req).h \notin used[k]
           THEN up' = FALSE /\ UNCHANGED <<ans, at>>
           ELSE /\ Answer(t, IF at[k] < Size[k] THEN at[k] + 1 ELSE 0)
                /\ at' = [at EXCEPT ![k] = IF @ < Size[k] THEN @ + 1 ELSE @]
                /\ UNCHANGED up
    /\ UNCHANGED <<used, wild>>

BuddyClose ==
    /\ Serves("close") /\ UNCHANGED <<ans, wild>>
    /\ LET k == Head(req).kind
       IN  IF Head(req).h \notin used[k]
           THEN up' = FALSE /\ UNCHANGED <<used, at>>
           ELSE /\ used' = [used EXCEPT ![k] = @ \ {Head(req).h}]
                /\ at' = [at EXCEPT ![k] = Size[k]]
                /\ UNCHANGED up

\* FILE_EOF: an unknown command.
BuddyUnknown == Serves("eof") /\ UNCHANGED <<ans, buddy>>

-----------------------------------------------------------------------------

Program == (\E k \in Kind : Open(k)) \/ Get \/ Eof \/ Close
Answers == ReceiveHandle \/ ReceiveName \/ ReceiveData \/ ReceiveEof
Line    == LoseRequest \/ LoseAnswer \/ Unheard
Buddy   == BuddyOpen \/ BuddyGet \/ BuddyClose \/ BuddyUnknown

Next == Program \/ Answers \/ Timeout \/ Restart \/ Line \/ Buddy
Spec == Init /\ [][Next]_vars

\* A listing, once begun, goes on; calls return at the latest with their timeout; the buddy serves.
FairSpec == Spec /\ WF_vars(Get) /\ WF_vars(Answers) /\ WF_vars(Timeout) /\ WF_vars(Buddy)

-----------------------------------------------------------------------------

\* Types; what is open has a handle that is one of the sketch's slots.
TypeOK ==
    /\ pc \in {"idle", "open", "get", "eof"} /\ kind \in Kind /\ open \in {"no", "yes", "end"}
    /\ handle \in 0 .. Slots - 1 /\ name \in 0 .. Size["dir"]
    /\ got \in 0 .. (Size["dir"] + Size["file"])
    /\ used \in [Kind -> SUBSET (0 .. Slots - 1)] /\ at \in [Kind -> Nat]
    /\ faults \in 0 .. MaxFaults /\ late \in 0 .. MaxLate

\* The device runs behind by no more answers than calls have given up too early; it never
\* catches up by itself, but does not fall back further either.
LagIsLate ==
    LET come   == {i \in DOMAIN ans : ~ans[i].own}
        toCome == {i \in DOMAIN req : up /\ req[i].cmd \in Answered /\ ~req[i].own}
    IN  Cardinality(come) + Cardinality(toCome) <= late

\* While no call gave up too early, whatever was lost, an answer is the waiting call's, is of
\* its type, and brings the next piece of the file or a later entry of the directory.
AnswersFit ==
    late = 0 /\ ans # <<>> =>
        LET a == Head(ans) IN
        /\ Len(ans) = 1 /\ pc # "eof" /\ pc # "idle"
        /\ pc = "open" <=> a.kind = "byte"
        /\ pc = "get" /\ kind = "dir" => a.kind = "asciiz" /\ (a.val = 0 \/ a.val > got)
        /\ pc = "get" /\ kind = "file" =>
               a.kind = "data" /\ a.val = IF got = Size["file"] THEN 0 ELSE got + 1

\* While no call gave up too early, a slot of the sketch belongs to what the program uses, to
\* a close on its way, or was lost to a fault; its arrays are overrun only by that many faults.
SlotsAccounted ==
    late = 0 =>
        LET closing == {i \in DOMAIN req : req[i].cmd = "close"}
            using   == IF open # "no" \/ pc = "open" THEN 1 ELSE 0
        IN  /\ Cardinality(used["dir"]) + Cardinality(used["file"])
                   <= using + Cardinality(closing) + faults
            /\ wild => faults >= Slots

\* A listing ends, though a failed call reports the last name again, unless the sketch dies.
ListingEnds == (open = "yes" /\ kind = "dir") ~> (open # "yes" \/ kind # "dir" \/ ~up)
=============================================================================
