------------------------------ MODULE HostLink ------------------------------
(***************************************************************************)
(* The link between a VGL device and its host under the "binary safe"      *)
(* protocol: the device's half is HOST_PROTOCOL_BINARY_SAFE of             *)
(* include/driver/host.h, the host's half Protocol_binary_safe and the     *)
(* Host loop of tools/host.py.  A frame is                                 *)
(*                                                                         *)
(*      length | payload ... | checksum high | checksum low                *)
(*                                                                         *)
(* and is answered by one status byte: ACK, or NAK, upon which the sender  *)
(* repeats the frame.  There is no sequence number and no timeout.         *)
(*                                                                         *)
(* The device runs an application that sends one request at a time and,    *)
(* when the request has a reply, receives it.  The host loops receiving a  *)
(* frame, handling it and sending the reply.  Bytes travel one by one and  *)
(* in order, but a bounded number of them may be garbled, lost, or come so *)
(* late that the device's polling read gives up on them.                   *)
(***************************************************************************)
EXTENDS Integers, Sequences

CONSTANTS
    Request,        \* the request payloads: non-empty byte sequences
    Reply,          \* function from Request to the reply payload; NoReply: the handler sends none
    Check(_),       \* the checksum of a payload, see HostChecksum
    HostMaxData,    \* HOST_MAX_DATA: the size of the device's receive buffer, 144
    Pad,            \* zero bytes the host sends before a frame, 16 (bounded in the runs)
    Trail,          \* zero bytes finish_frame appends: 3 for MAME, 0 for the serial driver
    Blocking,       \* TRUE: host_receive_byte waits for a byte (MAME); FALSE: it may return -1
    ChecksumDefined,\* FALSE: the name BDOS_HOST_CHECK_INIT is unknown to tools/host.py
    Garble,         \* what a garbled byte may turn into
    MaxRequest,     \* bound: requests the application makes
    MaxSend,        \* bound: frames each side sends, repetitions included
    MaxGarble, MaxLose, MaxLate,   \* bounds: faults of each kind
    MaxFault        \* bound: faults of all kinds together

NoReply == <<>>
Byte    == 0..255
Word    == 0..65535         \* a checksum
ACK     == 170              \* HOST_STATUS_ACK, 0xAA
NAK     == 153              \* HOST_STATUS_NAK, 0x99
None    == -1               \* host_receive_byte saw no start bit in time
Payload == Request \cup {Reply[r] : r \in Request}

ASSUME RequestAssumption ==
    \A r \in Request : r \in Seq(Byte) /\ Len(r) \in 1..255
ASSUME ReplyAssumption ==
    \A r \in Request : Reply[r] \in Seq(Byte) /\ Len(Reply[r]) \in 0..255
ASSUME CheckAssumption == \A m \in Payload : Check(m) \in Word
ASSUME MaxDataAssumption == HostMaxData \in 1..254
ASSUME BoundsAssumption ==
    /\ Pad \in Nat /\ Trail \in Nat /\ MaxRequest \in Nat /\ MaxSend \in Nat
    /\ MaxGarble \in Nat /\ MaxLose \in Nat /\ MaxLate \in Nat /\ MaxFault \in Nat
ASSUME FlagsAssumption ==
    Blocking \in BOOLEAN /\ ChecksumDefined \in BOOLEAN /\ Garble \subseteq Byte

VARIABLES
    dpc,        \* where the device is
    dreq,       \* the request frame it is sending
    dlen,       \* l of the frame it is receiving
    dbuf,       \* what it has put into the receive buffer
    dhi,        \* first checksum byte received
    hpc,        \* where the host is
    hlen,       \* l of the frame it is receiving
    hbuf,       \* data received so far
    hhi,        \* first checksum byte received
    hout,       \* the reply the host is sending
    d2h, h2d,   \* the bytes under way in each direction
    dsends, hsends,            \* frames sent by each side, repetitions included
    garbled, lost, late,       \* faults so far
    asked,      \* history: requests the application made
    handled,    \* history: frames the host accepted and handed to handle_frame
    answers     \* history: what each finished request returned to the application

dvars == <<dpc, dreq, dlen, dbuf, dhi>>
hvars == <<hpc, hlen, hbuf, hhi, hout>>
faults == <<garbled, lost, late>>
history == <<asked, handled, answers>>
vars == <<dvars, hvars, d2h, h2d, dsends, hsends, faults, history>>

MoreFaults == garbled + lost + late < MaxFault

Zeros(n) == [i \in 1..n |-> 0]
Frame(m) == <<Len(m)>> \o m \o <<Check(m) \div 256, Check(m) % 256>>

Init ==
    /\ dpc = "idle" /\ dreq = <<>> /\ dlen = 0 /\ dbuf = <<>> /\ dhi = 0
    /\ hpc = "len" /\ hlen = 0 /\ hbuf = <<>> /\ hhi = 0 /\ hout = <<>>
    /\ d2h = <<>> /\ h2d = <<>>
    /\ dsends = 0 /\ hsends = 0
    /\ garbled = 0 /\ lost = 0 /\ late = 0
    /\ asked = <<>> /\ handled = <<>> /\ answers = <<>>

-----------------------------------------------------------------------------
(* The device: host_send_frame_binary_safe, host_receive_frame_binary_safe. *)

\* The application calls host_send_frame with its next request.
DevAsk(r) ==
    /\ dpc = "idle" /\ Len(asked) < MaxRequest
    /\ dpc' = "send" /\ dreq' = r
    /\ asked' = Append(asked, r)
    /\ UNCHANGED <<dlen, dbuf, dhi, hvars, d2h, h2d, dsends, hsends, faults, handled, answers>>

\* One turn of the retransmission loop: length, data and checksum go out.
DevSend ==
    /\ dpc = "send" /\ dsends < MaxSend
    /\ d2h' = d2h \o Frame(dreq)
    /\ dsends' = dsends + 1
    /\ dpc' = "status"
    /\ UNCHANGED <<dreq, dlen, dbuf, dhi, hvars, h2d, hsends, faults, history>>

\* Mutants of DevStatus: a zero byte counts as an answer; a frame not
\* acknowledged is given up.
DevStatus_ZeroAnswers ==
    /\ dpc = "status" /\ h2d # <<>>
    /\ h2d' = Tail(h2d)
    /\ \/ Head(h2d) # ACK /\ dpc' = "send" /\ UNCHANGED answers
       \/ /\ Head(h2d) = ACK
          /\ IF Reply[dreq] = NoReply
             THEN dpc' = "idle" /\ answers' = Append(answers, NoReply)
             ELSE dpc' = "len" /\ UNCHANGED answers
    /\ UNCHANGED <<dreq, dlen, dbuf, dhi, hvars, d2h, dsends, hsends, faults, asked, handled>>
DevStatus_GivesUp ==
    /\ dpc = "status" /\ h2d # <<>>
    /\ h2d' = Tail(h2d)
    /\ \/ Head(h2d) = 0 /\ UNCHANGED <<dpc, answers>>
       \/ Head(h2d) \notin {0, ACK} /\ dpc' = "idle" /\ UNCHANGED answers
       \/ /\ Head(h2d) = ACK
          /\ IF Reply[dreq] = NoReply
             THEN dpc' = "idle" /\ answers' = Append(answers, NoReply)
             ELSE dpc' = "len" /\ UNCHANGED answers
    /\ UNCHANGED <<dreq, dlen, dbuf, dhi, hvars, d2h, dsends, hsends, faults, asked, handled>>

\* Bytes <= 0 are skipped; only ACK ends the loop, any other repeats the frame.
\* A request without reply is finished here, the others go on to receive.
DevStatus ==
    /\ dpc = "status" /\ h2d # <<>>
    /\ h2d' = Tail(h2d)
    /\ \/ Head(h2d) = 0 /\ UNCHANGED <<dpc, answers>>
       \/ Head(h2d) \notin {0, ACK} /\ dpc' = "send" /\ UNCHANGED answers
       \/ /\ Head(h2d) = ACK
          /\ IF Reply[dreq] = NoReply
             THEN dpc' = "idle" /\ answers' = Append(answers, NoReply)
             ELSE dpc' = "len" /\ UNCHANGED answers
    /\ UNCHANGED <<dreq, dlen, dbuf, dhi, hvars, d2h, dsends, hsends, faults, asked, handled>>

\* Mutant of DevLen: the length is not checked.
DevLen_NoMax ==
    /\ dpc = "len" /\ h2d # <<>>
    /\ h2d' = Tail(h2d)
    /\ IF Head(h2d) = 0
       THEN UNCHANGED <<dpc, dlen, dbuf>>
       ELSE dlen' = Head(h2d) /\ dbuf' = <<>> /\ dpc' = "data"
    /\ UNCHANGED <<dreq, dhi, hvars, d2h, dsends, hsends, faults, history>>

\* Wait for a non-zero length; one above HOST_MAX_DATA is answered with NAK at
\* once, the bytes that follow it staying in the line.
DevLen ==
    /\ dpc = "len" /\ h2d # <<>>
    /\ h2d' = Tail(h2d)
    /\ \/ Head(h2d) = 0 /\ UNCHANGED <<dpc, dlen, dbuf, d2h>>
       \/ /\ Head(h2d) > HostMaxData
          /\ d2h' = Append(d2h, NAK)
          /\ UNCHANGED <<dpc, dlen, dbuf>>
       \/ /\ Head(h2d) \in 1..HostMaxData
          /\ dlen' = Head(h2d) /\ dbuf' = <<>> /\ dpc' = "data"
          /\ UNCHANGED d2h
    /\ UNCHANGED <<dreq, dhi, hvars, dsends, hsends, faults, history>>

\* host_receive_byte in the middle of a frame: the byte at the head of the line,
\* or None when the line is silent (never with a blocking driver), or None
\* although the byte is still to come.
DevBytes == (IF h2d = <<>> THEN {} ELSE {Head(h2d)}) \cup (IF Blocking THEN {} ELSE {None})
DevReads(b) ==
    IF b = None
    THEN /\ UNCHANGED h2d
         /\ IF h2d = <<>> THEN UNCHANGED late ELSE MoreFaults /\ late < MaxLate /\ late' = late + 1
    ELSE h2d' = Tail(h2d) /\ UNCHANGED late

\* Mutant of DevData: the received int is stored without cutting it to a byte.
DevData_KeepsInt ==
    /\ dpc = "data"
    /\ \E b \in DevBytes : DevReads(b) /\ dbuf' = Append(dbuf, b)
    /\ dpc' = IF Len(dbuf) + 1 < dlen THEN "data" ELSE "hi"
    /\ UNCHANGED <<dreq, dlen, dhi, hvars, d2h, dsends, hsends, garbled, lost, history>>

\* c is a byte: -1 is stored as 0xFF.
DevData ==
    /\ dpc = "data"
    /\ \E b \in DevBytes :
          /\ DevReads(b)
          /\ dbuf' = Append(dbuf, b % 256)
    /\ dpc' = IF Len(dbuf) + 1 < dlen THEN "data" ELSE "hi"
    /\ UNCHANGED <<dreq, dlen, dhi, hvars, d2h, dsends, hsends, garbled, lost, history>>

DevHi ==
    /\ dpc = "hi"
    /\ \E b \in DevBytes : DevReads(b) /\ dhi' = b % 256
    /\ dpc' = "lo"
    /\ UNCHANGED <<dreq, dlen, dbuf, hvars, d2h, dsends, hsends, garbled, lost, history>>

\* (check_received << 8) | -1 is 0xFFFF in a 16-bit word, whatever the high byte.
DevCheckReceived(b) == IF b = None THEN 65535 ELSE dhi * 256 + b

\* Mutants of DevLo: the checksum is not compared; a match returns before it is
\* acknowledged.
DevLo_NoCheck ==
    /\ dpc = "lo"
    /\ \E b \in DevBytes : DevReads(b)
    /\ d2h' = Append(d2h, ACK) /\ dpc' = "idle" /\ answers' = Append(answers, dbuf)
    /\ UNCHANGED <<dreq, dlen, dbuf, dhi, hvars, dsends, hsends, garbled, lost, asked, handled>>
DevLo_NoAck ==
    /\ dpc = "lo"
    /\ \E b \in DevBytes :
          /\ DevReads(b)
          /\ IF DevCheckReceived(b) = Check(dbuf)
             THEN dpc' = "idle" /\ answers' = Append(answers, dbuf) /\ UNCHANGED d2h
             ELSE d2h' = Append(d2h, NAK) /\ dpc' = "len" /\ UNCHANGED answers
    /\ UNCHANGED <<dreq, dlen, dbuf, dhi, hvars, dsends, hsends, garbled, lost, asked, handled>>

\* Matching checksum: ACK and return to the application, which asked for the
\* reply.  Otherwise NAK and wait for another length.
DevLo ==
    /\ dpc = "lo"
    /\ \E b \in DevBytes :
          /\ DevReads(b)
          /\ IF DevCheckReceived(b) = Check(dbuf)
             THEN /\ d2h' = Append(d2h, ACK)
                  /\ dpc' = "idle"
                  /\ answers' = Append(answers, dbuf)
             ELSE /\ d2h' = Append(d2h, NAK)
                  /\ dpc' = "len"
                  /\ UNCHANGED answers
    /\ UNCHANGED <<dreq, dlen, dbuf, dhi, hvars, dsends, hsends, garbled, lost, asked, handled>>

Device == (\E r \in Request : DevAsk(r)) \/ DevSend \/ DevStatus \/ DevLen \/ DevData \/ DevHi \/ DevLo

-----------------------------------------------------------------------------
(* The host: Protocol_binary_safe inside Host.update.  read_byte blocks.   *)

\* Any length is taken, zero included.
HostLen ==
    /\ hpc = "len" /\ d2h # <<>>
    /\ hlen' = Head(d2h) /\ d2h' = Tail(d2h) /\ hbuf' = <<>>
    /\ hpc' = IF Head(d2h) = 0 THEN "hi" ELSE "data"
    /\ UNCHANGED <<dvars, hhi, hout, h2d, dsends, hsends, faults, history>>

HostData ==
    /\ hpc = "data" /\ d2h # <<>>
    /\ hbuf' = Append(hbuf, Head(d2h)) /\ d2h' = Tail(d2h)
    /\ hpc' = IF Len(hbuf) + 1 < hlen THEN "data" ELSE "hi"
    /\ UNCHANGED <<dvars, hlen, hhi, hout, h2d, dsends, hsends, faults, history>>

HostHi ==
    /\ hpc = "hi" /\ d2h # <<>>
    /\ hhi' = Head(d2h) /\ d2h' = Tail(d2h)
    /\ hpc' = "lo"
    /\ UNCHANGED <<dvars, hlen, hbuf, hout, h2d, dsends, hsends, faults, history>>

\* Mutants of HostLo: a matching frame is not acknowledged; the checksum is not
\* compared; the frame is acknowledged before it is checked.
HostLo_NoAck ==
    /\ hpc = "lo" /\ d2h # <<>>
    /\ d2h' = Tail(d2h)
    /\ IF hhi * 256 + Head(d2h) = Check(hbuf)
       THEN /\ hpc' = "handle" /\ UNCHANGED h2d
            /\ handled' = Append(handled, [data |-> hbuf, during |-> Len(asked)])
       ELSE h2d' = h2d \o <<NAK>> \o Zeros(Trail) /\ hpc' = "len" /\ UNCHANGED handled
    /\ UNCHANGED <<dvars, hlen, hbuf, hhi, hout, dsends, hsends, faults, asked, answers>>
HostLo_NoCheck ==
    /\ hpc = "lo" /\ d2h # <<>>
    /\ d2h' = Tail(d2h) /\ h2d' = h2d \o <<ACK>> \o Zeros(Trail) /\ hpc' = "handle"
    /\ handled' = Append(handled, [data |-> hbuf, during |-> Len(asked)])
    /\ UNCHANGED <<dvars, hlen, hbuf, hhi, hout, dsends, hsends, faults, asked, answers>>
HostLo_AckFirst ==
    /\ hpc = "lo" /\ d2h # <<>>
    /\ d2h' = Tail(d2h) /\ h2d' = h2d \o <<ACK>> \o Zeros(Trail)
    /\ IF hhi * 256 + Head(d2h) = Check(hbuf)
       THEN hpc' = "handle" /\ handled' = Append(handled, [data |-> hbuf, during |-> Len(asked)])
       ELSE hpc' = "len" /\ UNCHANGED handled
    /\ UNCHANGED <<dvars, hlen, hbuf, hhi, hout, dsends, hsends, faults, asked, answers>>

\* bdos_host_checksum raises NameError where its constant is not defined: update
\* reports the failure and stops running.  A mismatch is answered with NAK, a
\* match with ACK, and the data goes to handle_frame.
HostLo ==
    /\ hpc = "lo" /\ d2h # <<>>
    /\ d2h' = Tail(d2h)
    /\ \/ /\ ~ChecksumDefined
          /\ hpc' = "stopped"
          /\ UNCHANGED <<h2d, handled>>
       \/ /\ ChecksumDefined /\ hhi * 256 + Head(d2h) # Check(hbuf)
          /\ h2d' = h2d \o <<NAK>> \o Zeros(Trail)
          /\ hpc' = "len"
          /\ UNCHANGED handled
       \/ /\ ChecksumDefined /\ hhi * 256 + Head(d2h) = Check(hbuf)
          /\ h2d' = h2d \o <<ACK>> \o Zeros(Trail)
          /\ hpc' = "handle"
          /\ handled' = Append(handled, [data |-> hbuf, during |-> Len(asked)])
    /\ UNCHANGED <<dvars, hlen, hbuf, hhi, hout, dsends, hsends, faults, asked, answers>>

\* handle_frame: an empty frame and one it does not know get no reply.
HostHandle ==
    /\ hpc = "handle"
    /\ IF hbuf \in Request /\ Reply[hbuf] # NoReply
       THEN hout' = Reply[hbuf] /\ hpc' = "send"
       ELSE hpc' = "len" /\ UNCHANGED hout
    /\ UNCHANGED <<dvars, hlen, hbuf, hhi, d2h, h2d, dsends, hsends, faults, history>>

\* One turn of the host's retransmission loop: padding and frame go out.
HostSend ==
    /\ hpc = "send" /\ hsends < MaxSend
    /\ h2d' = h2d \o Zeros(Pad) \o Frame(hout) \o Zeros(Trail)
    /\ hsends' = hsends + 1
    /\ hpc' = "status"
    /\ UNCHANGED <<dvars, hlen, hbuf, hhi, hout, d2h, dsends, faults, history>>

\* Whatever byte comes first is the answer; only ACK ends the loop.
HostStatus ==
    /\ hpc = "status" /\ d2h # <<>>
    /\ d2h' = Tail(d2h)
    /\ hpc' = IF Head(d2h) = ACK THEN "len" ELSE "send"
    /\ UNCHANGED <<dvars, hlen, hbuf, hhi, hout, h2d, dsends, hsends, faults, history>>

Host == HostLen \/ HostData \/ HostHi \/ HostLo \/ HostHandle \/ HostSend \/ HostStatus

-----------------------------------------------------------------------------
(* The line.  A fault strikes the byte about to be read.                   *)

GarbleD2H == /\ d2h # <<>> /\ MoreFaults /\ garbled < MaxGarble
             /\ \E b \in Garble : d2h' = <<b>> \o Tail(d2h)
             /\ garbled' = garbled + 1
             /\ UNCHANGED <<dvars, hvars, h2d, dsends, hsends, lost, late, history>>
GarbleH2D == /\ h2d # <<>> /\ MoreFaults /\ garbled < MaxGarble
             /\ \E b \in Garble : h2d' = <<b>> \o Tail(h2d)
             /\ garbled' = garbled + 1
             /\ UNCHANGED <<dvars, hvars, d2h, dsends, hsends, lost, late, history>>
LoseD2H   == /\ d2h # <<>> /\ MoreFaults /\ lost < MaxLose
             /\ d2h' = Tail(d2h)
             /\ lost' = lost + 1
             /\ UNCHANGED <<dvars, hvars, h2d, dsends, hsends, garbled, late, history>>
LoseH2D   == /\ h2d # <<>> /\ MoreFaults /\ lost < MaxLose
             /\ h2d' = Tail(h2d)
             /\ lost' = lost + 1
             /\ UNCHANGED <<dvars, hvars, d2h, dsends, hsends, garbled, late, history>>

Line == GarbleD2H \/ GarbleH2D \/ LoseD2H \/ LoseH2D

Next == Device \/ Host \/ Line
Spec == Init /\ [][Next]_vars

\* Both programs run on: neither stops while it has a byte to read or to send.
FairSpec == Spec /\ WF_vars(Device) /\ WF_vars(Host)

-----------------------------------------------------------------------------
(* Properties                                                              *)

\* Type correctness of both ends and the line.
TypeOK ==
    /\ dpc \in {"idle", "send", "status", "len", "data", "hi", "lo"}
    /\ dreq \in Request \cup {<<>>}
    /\ dlen \in Byte /\ dbuf \in Seq(Byte) /\ dhi \in Byte
    /\ hpc \in {"len", "data", "hi", "lo", "handle", "send", "status", "stopped"}
    /\ hlen \in Byte /\ hbuf \in Seq(Byte) /\ hhi \in Byte
    /\ hout \in Seq(Byte)
    /\ d2h \in Seq(Byte) /\ h2d \in Seq(Byte)
    /\ dsends \in 0..MaxSend /\ hsends \in 0..MaxSend
    /\ garbled \in 0..MaxGarble /\ lost \in 0..MaxLose /\ late \in 0..MaxLate
    /\ asked \in Seq(Request)
    /\ handled \in Seq([data : Seq(Byte), during : Nat])
    /\ answers \in Seq(Seq(Byte))

\* host_receive_frame_binary_safe never writes past data[HOST_MAX_DATA - 1],
\* whatever lengths the line makes of the frames: while bytes are being stored
\* there is room for the next, and it stops at the announced length.
BufferBounded ==
    /\ Len(dbuf) <= HostMaxData
    /\ dpc = "data" => Len(dbuf) < dlen /\ dlen <= HostMaxData
    /\ dpc \in {"hi", "lo"} => Len(dbuf) = dlen

\* host_send_frame / host_receive_frame return in step with their callers: there
\* is one request outstanding, and it is the one dreq holds, exactly while the
\* device is inside one of the two.
OneOutstanding ==
    /\ dpc = "idle" => Len(asked) = Len(answers)
    /\ dpc # "idle" => Len(asked) = Len(answers) + 1 /\ dreq = asked[Len(asked)]

\* What handle_frame gets is a request the device made, now or earlier: garbled
\* lengths, stale bytes and repetitions never add up to another frame.
Integrity ==
    \A i \in 1..Len(handled) : \E j \in 1..handled[i].during : handled[i].data = asked[j]

\* host_receive_frame returns the reply to the request just sent, although the
\* host may have handled that request or an earlier one several times and
\* frames carry nothing that tells one reply from another.
ReplyMatches == \A i \in 1..Len(answers) : answers[i] = Reply[asked[i]]

\* A request the device considers finished has been handled, once the host has
\* read all there is to read: an ACK meant for an earlier copy may end the
\* retransmission of a later request, but does not make the host miss it.
Delivered ==
    d2h = <<>> /\ hpc = "len" =>
        \A i \in 1..Len(answers) :
            \E j \in 1..Len(handled) : handled[j].data = asked[i] /\ handled[j].during >= i

\* With a line that is only slow, no reading position and no wrong length can
\* leave both ends waiting for each other: the device's polling read gives up
\* in the middle of a frame, and answers NAK.  (A lost byte or a garbled length
\* can: then the host reads on for bytes that nobody will send.  So can two late
\* bytes, when the frame of a request holds a byte like an ACK: see FramesClear
\* in HostLinkProofs.)
DeviceWaits == h2d = <<>> /\ (dpc \in {"status", "len"} \/ (Blocking /\ dpc \in {"data", "hi", "lo"}))
HostWaits   == d2h = <<>> /\ hpc \in {"len", "data", "hi", "lo", "status"}
NoHang      == garbled = 0 /\ lost = 0 => ~(DeviceWaits /\ HostWaits)

\* On a line that loses, garbles and delays nothing every frame is handled exactly once
\* and in order, and every answer belongs to its request (HostRpc), whatever padding lies
\* around the frames.  (A lost byte may have a frame sent and handled again: what holds
\* then is Delivered and ReplyMatches.)
Served == [i \in 1..Len(handled) |-> handled[i].data]
Rpc == INSTANCE HostRpc WITH served <- Served
ExactlyOnce == Rpc!Spec

\* Every request is finished, the reply being received where there is one.
RequestsFinish == \A n \in 1..MaxRequest : Len(asked) = n ~> Len(answers) >= n
=============================================================================
