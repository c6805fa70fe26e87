--------------------------- MODULE HostLinkProofs ---------------------------
(***************************************************************************)
(* Theorems about HostLink for every value of its constants: any set of    *)
(* requests, any checksum, any padding and any number of faults.           *)
(* Where the line has had no fault yet, HostLink implements HostRpc: there  *)
(* the invariant is the list of the states of one exchange, with the bytes *)
(* that are under way in each.  Where the line is only slow, the invariant *)
(* is the host's way through the bytes under way: which of them it will    *)
(* take for an answer, and which for the frame of which request.           *)
(***************************************************************************)
EXTENDS HostLink, SequenceTheorems, TLAPS

\* What the types of dreq and hout leave open: whoever is sending has a payload.
SendersHold ==
    /\ dpc # "idle" => dreq \in Request
    /\ hpc \in {"send", "status"} => hout \in Payload

\* Every payload is a byte sequence short enough for its length to be one byte.
LEMMA PayloadType ==
    ASSUME NEW m \in Payload
    PROVE  m \in Seq(Byte) /\ Len(m) \in Byte
BY RequestAssumption, ReplyAssumption DEF Payload, Byte

\* The two bytes of a checksum, and the checksum they add up to.
LEMMA TwoBytes ==
    ASSUME NEW c \in Word
    PROVE  c \div 256 \in Byte /\ c % 256 \in Byte /\ (c \div 256) * 256 + (c % 256) = c
<1>1. c \in Nat /\ c <= 65535
  BY DEF Word
<1>2. c \div 256 \in Nat /\ c \div 256 <= 255 /\ c % 256 \in 0..255
  BY <1>1, Z3
<1>3. c = 256 * (c \div 256) + (c % 256)
  BY <1>1, Z3
<1>4. (c \div 256) * 256 + (c % 256) = c
  BY <1>2, <1>3
<1>5. QED BY <1>2, <1>4 DEF Byte

\* What host_send_frame and send_frame put on the line are bytes.
LEMMA FrameType ==
    ASSUME NEW m \in Payload
    PROVE  Frame(m) \in Seq(Byte)
<1>1. m \in Seq(Byte) /\ Len(m) \in Byte
  BY PayloadType
<1>2. Check(m) \div 256 \in Byte /\ Check(m) % 256 \in Byte
  BY CheckAssumption, TwoBytes
<1>3. <<Len(m)>> \in Seq(Byte) /\ <<Check(m) \div 256, Check(m) % 256>> \in Seq(Byte)
  BY <1>1, <1>2
<1>4. QED
  BY <1>1, <1>3, ConcatProperties, Zenon DEF Frame

\* Padding and trailing zeros are bytes.
LEMMA ZerosType == ASSUME NEW n \in Nat PROVE Zeros(n) \in Seq(Byte)
<1> DEFINE e(i) == 0
<1>1. \A i \in 1..n : e(i) \in Byte
  BY DEF Byte
<1> HIDE DEF e
<1>2. [i \in 1..n |-> e(i)] \in Seq(Byte)
  BY <1>1, IsASeq
<1>3. QED
  BY <1>2 DEF Zeros, e

\* A byte read in the middle of a frame, or the -1 of a silent line, leaves a
\* line of bytes; c takes it modulo 256.
LEMMA ReadType ==
    ASSUME h2d \in Seq(Byte), late \in 0..MaxLate,
           NEW b \in DevBytes, DevReads(b)
    PROVE  /\ h2d' \in Seq(Byte)
           /\ late' \in 0..MaxLate
           /\ b \in Byte \cup {None}
           /\ b % 256 \in Byte
<1>1. h2d # <<>> => Head(h2d) \in Byte /\ Tail(h2d) \in Seq(Byte)
  BY HeadTailProperties
<1>2. b \in Byte \cup {None}
  BY <1>1 DEF DevBytes
<1>3. b % 256 \in Byte
  BY <1>2 DEF Byte, None
<1>4. h2d' \in Seq(Byte) /\ late' \in 0..MaxLate
  <2>1. CASE b = None
    BY <2>1, BoundsAssumption DEF DevReads
  <2>2. CASE b # None
    BY <2>2, <1>1 DEF DevReads, DevBytes
  <2>3. QED BY <2>1, <2>2
<1>5. QED BY <1>2, <1>3, <1>4

-----------------------------------------------------------------------------

LEMMA InitInv == Init => TypeOK /\ SendersHold
BY BoundsAssumption DEF Init, TypeOK, SendersHold, Byte

LEMMA DeviceType ==
    ASSUME TypeOK, SendersHold, Device
    PROVE  TypeOK' /\ SendersHold'
<1> USE DEF TypeOK, SendersHold, dvars, hvars, faults, history
<1>1. ASSUME NEW r \in Request, DevAsk(r) PROVE TypeOK' /\ SendersHold'
  BY <1>1 DEF DevAsk
<1>2. CASE DevSend
  <2>1. d2h' \in Seq(Byte)
    <3>1. Frame(dreq) \in Seq(Byte)
      BY <1>2, FrameType DEF DevSend, Payload
    <3>2. QED BY <3>1, <1>2, ConcatProperties DEF DevSend
  <2>2. dsends' \in 0..MaxSend
    BY <1>2, BoundsAssumption DEF DevSend
  <2>3. QED BY <1>2, <2>1, <2>2 DEF DevSend
<1>3. CASE DevStatus
  <2>1. h2d' \in Seq(Byte)
    BY <1>3, HeadTailProperties DEF DevStatus
  <2>2. answers' \in Seq(Seq(Byte))
    <3>1. NoReply \in Seq(Byte)
      BY EmptySeq DEF NoReply
    <3>2. Append(answers, NoReply) \in Seq(Seq(Byte))
      BY <3>1, AppendProperties
    <3>3. QED BY <1>3, <3>2 DEF DevStatus
  <2>3. QED BY <1>3, <2>1, <2>2 DEF DevStatus
<1>4. CASE DevLen
  <2>1. Head(h2d) \in Byte /\ h2d' \in Seq(Byte)
    BY <1>4, HeadTailProperties DEF DevLen
  <2>2. d2h' \in Seq(Byte)
    <3>1. NAK \in Byte
      BY DEF NAK, Byte
    <3>2. Append(d2h, NAK) \in Seq(Byte)
      BY <3>1, AppendProperties
    <3>3. QED BY <1>4, <3>2 DEF DevLen
  <2>3. dlen' \in Byte /\ dbuf' \in Seq(Byte)
    BY <1>4, <2>1, EmptySeq DEF DevLen
  <2>4. QED BY <1>4, <2>1, <2>2, <2>3 DEF DevLen
<1>5. CASE DevData
  <2>1. PICK b \in DevBytes : DevReads(b) /\ dbuf' = Append(dbuf, b % 256)
    BY <1>5 DEF DevData
  <2>2. h2d' \in Seq(Byte) /\ late' \in 0..MaxLate /\ b % 256 \in Byte
    BY <2>1, ReadType
  <2>3. dbuf' \in Seq(Byte)
    BY <2>1, <2>2
  <2>4. QED BY <1>5, <2>2, <2>3 DEF DevData
<1>6. CASE DevHi
  <2>1. PICK b \in DevBytes : DevReads(b) /\ dhi' = b % 256
    BY <1>6 DEF DevHi
  <2>2. h2d' \in Seq(Byte) /\ late' \in 0..MaxLate /\ b % 256 \in Byte
    BY <2>1, ReadType
  <2>3. QED BY <1>6, <2>1, <2>2 DEF DevHi
<1>7. CASE DevLo
  <2>1. PICK b \in DevBytes : DevReads(b)
    BY <1>7 DEF DevLo
  <2>2. h2d' \in Seq(Byte) /\ late' \in 0..MaxLate
    BY <2>1, ReadType
  <2>3. d2h' \in Seq(Byte) /\ answers' \in Seq(Seq(Byte)) /\ dpc' \in {"idle", "len"}
    <3>1. ACK \in Byte /\ NAK \in Byte
      BY DEF ACK, NAK, Byte
    <3>2. Append(d2h, ACK) \in Seq(Byte) /\ Append(d2h, NAK) \in Seq(Byte)
      BY <3>1, AppendProperties
    <3>3. Append(answers, dbuf) \in Seq(Seq(Byte))
      BY AppendProperties
    <3>4. QED BY <1>7, <3>2, <3>3 DEF DevLo
  <2>4. QED BY <1>7, <2>2, <2>3 DEF DevLo
<1>8. QED
  BY <1>1, <1>2, <1>3, <1>4, <1>5, <1>6, <1>7 DEF Device

LEMMA HostType ==
    ASSUME TypeOK, SendersHold, Host
    PROVE  TypeOK' /\ SendersHold'
<1> USE DEF TypeOK, SendersHold, dvars, hvars, faults, history
<1>1. ASSUME d2h # <<>> PROVE Head(d2h) \in Byte /\ Tail(d2h) \in Seq(Byte)
  BY <1>1, HeadTailProperties
<1>2. CASE HostLen
  BY <1>1, <1>2 DEF HostLen
<1>3. CASE HostData
  BY <1>1, <1>3 DEF HostData
<1>4. CASE HostHi
  BY <1>1, <1>4 DEF HostHi
<1>5. CASE HostLo
  <2>1. d2h' \in Seq(Byte)
    BY <1>1, <1>5 DEF HostLo
  <2>2. Zeros(Trail) \in Seq(Byte) /\ <<ACK>> \in Seq(Byte) /\ <<NAK>> \in Seq(Byte)
    BY ZerosType, BoundsAssumption DEF ACK, NAK, Byte
  <2>3. h2d' \in Seq(Byte)
    <3>1. /\ h2d \o <<ACK>> \o Zeros(Trail) \in Seq(Byte)
          /\ h2d \o <<NAK>> \o Zeros(Trail) \in Seq(Byte)
      BY <2>2, ConcatProperties
    <3>2. QED BY <1>5, <3>1 DEF HostLo
  <2>4. handled' \in Seq([data : Seq(Byte), during : Nat])
    <3>1. [data |-> hbuf, during |-> Len(asked)] \in [data : Seq(Byte), during : Nat]
      BY LenProperties
    <3>2. Append(handled, [data |-> hbuf, during |-> Len(asked)])
             \in Seq([data : Seq(Byte), during : Nat])
      BY <3>1, AppendProperties
    <3>3. QED BY <1>5, <3>2 DEF HostLo
  <2>5. hpc' \in {"stopped", "len", "handle"}
    BY <1>5 DEF HostLo
  <2>6. QED BY <1>5, <2>1, <2>3, <2>4, <2>5 DEF HostLo
<1>6. CASE HostHandle
  <2>1. hbuf \in Request => Reply[hbuf] \in Payload
    BY DEF Payload
  <2>2. hout' \in Seq(Byte)
    BY <1>6, <2>1, PayloadType DEF HostHandle
  <2>3. QED BY <1>6, <2>1, <2>2 DEF HostHandle
<1>7. CASE HostSend
  <2>1. Zeros(Pad) \in Seq(Byte) /\ Zeros(Trail) \in Seq(Byte)
    BY ZerosType, BoundsAssumption
  <2>2. Frame(hout) \in Seq(Byte)
    BY <1>7, FrameType DEF HostSend
  <2>3. h2d' \in Seq(Byte)
    BY <1>7, <2>1, <2>2, ConcatProperties DEF HostSend
  <2>4. hsends' \in 0..MaxSend
    BY <1>7, BoundsAssumption DEF HostSend
  <2>5. QED BY <1>7, <2>3, <2>4 DEF HostSend
<1>8. CASE HostStatus
  BY <1>1, <1>8 DEF HostStatus
<1>9. QED
  BY <1>2, <1>3, <1>4, <1>5, <1>6, <1>7, <1>8 DEF Host

LEMMA LineType ==
    ASSUME TypeOK, SendersHold, Line
    PROVE  TypeOK' /\ SendersHold'
<1> USE BoundsAssumption DEF TypeOK, SendersHold, dvars, hvars, faults, history
<1>1. \A b \in Garble : <<b>> \in Seq(Byte)
  BY FlagsAssumption
<1>2. d2h # <<>> => Tail(d2h) \in Seq(Byte)
  BY HeadTailProperties
<1>3. h2d # <<>> => Tail(h2d) \in Seq(Byte)
  BY HeadTailProperties
<1>4. CASE GarbleD2H
  <2>1. d2h' \in Seq(Byte)
    BY <1>1, <1>2, <1>4, ConcatProperties DEF GarbleD2H
  <2>2. QED BY <1>4, <2>1 DEF GarbleD2H
<1>5. CASE GarbleH2D
  <2>1. h2d' \in Seq(Byte)
    BY <1>1, <1>3, <1>5, ConcatProperties DEF GarbleH2D
  <2>2. QED BY <1>5, <2>1 DEF GarbleH2D
<1>6. CASE LoseD2H
  BY <1>2, <1>6 DEF LoseD2H
<1>7. CASE LoseH2D
  BY <1>3, <1>7 DEF LoseH2D
<1>8. QED
  BY <1>4, <1>5, <1>6, <1>7 DEF Line

\* Type correctness: both ends and the line stay within their types whatever
\* bytes are garbled, lost or late (host.h, tools/host.py).
THEOREM TypeCorrect == Spec => [](TypeOK /\ SendersHold)
<1>1. Init => TypeOK /\ SendersHold
  BY InitInv
<1>2. TypeOK /\ SendersHold /\ [Next]_vars => TypeOK' /\ SendersHold'
  <2> SUFFICES ASSUME TypeOK, SendersHold, [Next]_vars
               PROVE  TypeOK' /\ SendersHold'
    OBVIOUS
  <2>1. CASE UNCHANGED vars
    BY <2>1 DEF vars, dvars, hvars, faults, history, TypeOK, SendersHold
  <2>2. CASE Next
    BY <2>2, DeviceType, HostType, LineType DEF Next
  <2>3. QED BY <2>1, <2>2
<1>3. QED
  BY <1>1, <1>2, PTL DEF Spec

-----------------------------------------------------------------------------
(* The receive buffer                                                      *)

\* What a byte stored does to the lengths.
LEMMA StoreOne ==
    ASSUME dbuf \in Seq(Byte), NEW b \in Byte
    PROVE  Len(dbuf) \in Nat /\ Len(Append(dbuf, b)) = Len(dbuf) + 1
BY LenProperties, AppendProperties

\* No overflow of the receive buffer: for every buffer size, every line and
\* every number of faults, host_receive_frame_binary_safe stores at most
\* HOST_MAX_DATA bytes, and stores one only while it has room (host.h:178-198).
THEOREM BufferSafe == Spec => []BufferBounded
<1>1. Init => BufferBounded
  BY MaxDataAssumption DEF Init, BufferBounded
<1>2. TypeOK /\ SendersHold /\ BufferBounded /\ [Next]_vars => BufferBounded'
  <2> SUFFICES ASSUME TypeOK, BufferBounded, [Next]_vars
               PROVE  BufferBounded'
    OBVIOUS
  <2> USE DEF BufferBounded
  <2>1. Len(dbuf) \in Nat /\ dlen \in 0..255 /\ HostMaxData \in 1..254
    BY MaxDataAssumption, LenProperties DEF TypeOK, Byte
  <2>2. ASSUME NEW r \in Request, DevAsk(r) PROVE BufferBounded'
    BY <2>2 DEF DevAsk
  <2>3. CASE DevSend
    BY <2>3 DEF DevSend
  <2>4. CASE DevStatus
    BY <2>4 DEF DevStatus
  <2>5. CASE DevLen
    <3>1. CASE Head(h2d) \in 1..HostMaxData /\ dlen' = Head(h2d) /\ dbuf' = <<>> /\ dpc' = "data"
      BY <2>1, <3>1
    <3>2. CASE UNCHANGED <<dpc, dlen, dbuf>>
      BY <3>2
    <3>3. QED BY <2>5, <3>1, <3>2 DEF DevLen
  <2>6. CASE DevData
    <3>1. PICK b \in DevBytes : DevReads(b) /\ dbuf' = Append(dbuf, b % 256)
      BY <2>6 DEF DevData
    <3>2. b % 256 \in Byte
      BY <3>1, ReadType DEF TypeOK
    <3>3. Len(dbuf') = Len(dbuf) + 1
      BY <3>1, <3>2, StoreOne DEF TypeOK
    <3>4. Len(dbuf) < dlen /\ dlen <= HostMaxData /\ dlen' = dlen
      BY <2>6 DEF DevData
    <3>5. CASE Len(dbuf) + 1 < dlen
      <4>1. dpc' = "data"
        BY <2>6, <3>5 DEF DevData
      <4>2. QED BY <2>1, <3>3, <3>4, <3>5, <4>1
    <3>6. CASE ~(Len(dbuf) + 1 < dlen)
      <4>1. dpc' = "hi"
        BY <2>6, <3>6 DEF DevData
      <4>2. Len(dbuf') = dlen'
        BY <2>1, <3>3, <3>4, <3>6
      <4>3. QED BY <2>1, <3>4, <4>1, <4>2
    <3>7. QED BY <3>5, <3>6
  <2>7. CASE DevHi
    BY <2>7 DEF DevHi
  <2>8. CASE DevLo
    <3>1. dpc' \in {"idle", "len"} /\ UNCHANGED <<dbuf, dlen>>
      BY <2>8 DEF DevLo
    <3>2. QED BY <3>1
  <2>9. CASE Host
    BY <2>9 DEF Host, HostLen, HostData, HostHi, HostLo, HostHandle, HostSend, HostStatus, dvars
  <2>10. CASE Line
    BY <2>10 DEF Line, GarbleD2H, GarbleH2D, LoseD2H, LoseH2D, dvars
  <2>11. CASE UNCHANGED vars
    BY <2>11 DEF vars, dvars
  <2>12. QED
    BY <2>2, <2>3, <2>4, <2>5, <2>6, <2>7, <2>8, <2>9, <2>10, <2>11 DEF Next, Device
<1>3. QED
  BY <1>1, <1>2, TypeCorrect, PTL DEF Spec

-----------------------------------------------------------------------------
(* The calls of the application                                            *)

\* One request at a time: under any faults the device is inside
\* host_send_frame or host_receive_frame exactly while one request is
\* unanswered, and the frame it repeats is that request (host.h:119-230).
THEOREM CallsInStep == Spec => []OneOutstanding
<1>1. Init => OneOutstanding
  BY DEF Init, OneOutstanding
<1>2. TypeOK /\ SendersHold /\ OneOutstanding /\ [Next]_vars => OneOutstanding'
  <2> SUFFICES ASSUME TypeOK, OneOutstanding, [Next]_vars
               PROVE  OneOutstanding'
    OBVIOUS
  <2> USE DEF OneOutstanding
  <2>1. /\ asked \in Seq(Request) /\ answers \in Seq(Seq(Byte)) /\ dbuf \in Seq(Byte)
        /\ Len(asked) \in Nat /\ Len(answers) \in Nat
        /\ NoReply \in Seq(Byte)
    BY LenProperties, EmptySeq DEF TypeOK, NoReply
  <2>2. ASSUME NEW a \in Seq(Byte), answers' = Append(answers, a) PROVE Len(answers') = Len(answers) + 1
    BY <2>1, <2>2, AppendProperties
  <2>3. ASSUME NEW r \in Request, DevAsk(r) PROVE OneOutstanding'
    <3>1. Len(asked') = Len(asked) + 1 /\ asked'[Len(asked')] = r
      BY <2>1, <2>3, AppendProperties DEF DevAsk
    <3>2. QED BY <2>1, <2>3, <3>1 DEF DevAsk
  <2>4. CASE DevSend
    BY <2>4 DEF DevSend, history
  <2>5. CASE DevStatus
    <3>1. CASE answers' = Append(answers, NoReply) /\ dpc' = "idle"
      BY <2>1, <2>2, <2>5, <3>1 DEF DevStatus
    <3>2. CASE UNCHANGED answers /\ dpc' # "idle"
      BY <2>5, <3>2 DEF DevStatus
    <3>3. QED BY <2>5, <3>1, <3>2 DEF DevStatus
  <2>6. CASE DevLen
    BY <2>6 DEF DevLen, history
  <2>7. CASE DevData
    BY <2>7 DEF DevData, history
  <2>8. CASE DevHi
    BY <2>8 DEF DevHi, history
  <2>9. CASE DevLo
    <3>1. CASE answers' = Append(answers, dbuf) /\ dpc' = "idle"
      BY <2>1, <2>2, <2>9, <3>1 DEF DevLo
    <3>2. CASE UNCHANGED answers /\ dpc' = "len"
      BY <2>9, <3>2 DEF DevLo
    <3>3. QED BY <2>9, <3>1, <3>2 DEF DevLo
  <2>10. CASE Host
    BY <2>10 DEF Host, HostLen, HostData, HostHi, HostLo, HostHandle, HostSend, HostStatus, dvars, history
  <2>11. CASE Line
    BY <2>11 DEF Line, GarbleD2H, GarbleH2D, LoseD2H, LoseH2D, dvars, history
  <2>12. CASE UNCHANGED vars
    BY <2>12 DEF vars, dvars, history
  <2>13. QED
    BY <2>3, <2>4, <2>5, <2>6, <2>7, <2>8, <2>9, <2>10, <2>11, <2>12 DEF Next, Device
<1>3. QED
  BY <1>1, <1>2, TypeCorrect, PTL DEF Spec

-----------------------------------------------------------------------------
(* The link without faults                                                 *)

\* No byte has been garbled, lost or late.
FaultFree == garbled = 0 /\ lost = 0 /\ late = 0

\* The bytes s are the bytes x after any number of zeros, which the reader skips.
Padded(s, x) == \E k \in 0..Len(s) : s = Zeros(k) \o x

\* The two checksum bytes of a frame.
Checks(m) == <<Check(m) \div 256, Check(m) % 256>>

\* The host will read the bytes x as a new frame: at once, after a frame that
\* has no reply, or after the ACK that ends its retransmission loop.
Settled(x) ==
    \/ hpc = "len" /\ d2h = x
    \/ hpc = "handle" /\ ~(hbuf \in Request /\ Reply[hbuf] # NoReply) /\ d2h = x
    \/ hpc = "status" /\ d2h = <<ACK>> \o x

\* The host is inside the frame of r, or has stopped over its checksum.
Reading(r) ==
    \/ hpc = "data" /\ hlen = Len(r) /\ Len(hbuf) < hlen /\ hbuf \o d2h = r \o Checks(r)
    \/ hpc = "hi" /\ hbuf = r /\ d2h = Checks(r)
    \/ hpc = "lo" /\ hbuf = r /\ hhi = Check(r) \div 256 /\ d2h = <<Check(r) % 256>>
    \/ hpc = "stopped"

\* The host has acknowledged r and s is what follows the acknowledgement.
Replying(r, s) ==
    \/ hpc = "handle" /\ hbuf = r /\ Padded(s, <<>>)
    \/ hpc = "len" /\ Reply[r] = NoReply /\ Padded(s, <<>>)
    \/ hpc = "send" /\ Reply[r] # NoReply /\ hout = Reply[r] /\ Padded(s, <<>>)
    \/ /\ hpc = "status" /\ Reply[r] # NoReply /\ hout = Reply[r]
       /\ Padded(s, Frame(Reply[r]) \o Zeros(Trail))

\* The device is inside the frame of the reply m.
Arriving(m) ==
    \/ /\ dpc = "data" /\ dlen = Len(m) /\ Len(dbuf) < dlen
       /\ dbuf \o h2d = m \o (Checks(m) \o Zeros(Trail))
    \/ dpc = "hi" /\ dbuf = m /\ h2d = Checks(m) \o Zeros(Trail)
    \/ dpc = "lo" /\ dbuf = m /\ dhi = Check(m) \div 256 /\ h2d = <<Check(m) % 256>> \o Zeros(Trail)

\* One exchange, from call to return.
AtRest   == dpc = "idle" /\ Len(handled) = Len(asked) /\ Settled(<<>>) /\ Padded(h2d, <<>>)
ToSend   == dpc = "send" /\ Len(handled) + 1 = Len(asked) /\ Settled(<<>>) /\ Padded(h2d, <<>>)
OnItsWay == /\ dpc = "status" /\ Len(handled) + 1 = Len(asked) /\ Padded(h2d, <<>>)
            /\ Settled(Frame(dreq)) \/ Reading(dreq)
Accepted == /\ dpc = "status" /\ Len(handled) = Len(asked) /\ d2h = <<>>
            /\ \E s \in Seq(Byte) : Padded(h2d, <<ACK>> \o s) /\ Replying(dreq, s)
Awaiting == /\ dpc = "len" /\ Len(handled) = Len(asked) /\ d2h = <<>>
            /\ Reply[dreq] # NoReply /\ Replying(dreq, h2d)
Received == /\ Len(handled) = Len(asked) /\ d2h = <<>> /\ hpc = "status"
            /\ Reply[dreq] # NoReply /\ Arriving(Reply[dreq])

Exchange == AtRest \/ ToSend \/ OnItsWay \/ Accepted \/ Awaiting \/ Received

\* What was handled and answered so far.
InOrder ==
    /\ \A i \in 1..Len(handled) : handled[i].data = asked[i] /\ handled[i].during = i
    /\ \A i \in 1..Len(answers) : answers[i] = Reply[asked[i]]

\* Every reply fits the device's receive buffer.
RepliesFit == \A r \in Request : Len(Reply[r]) <= HostMaxData

-----------------------------------------------------------------------------
(* Sequences of bytes                                                      *)

\* Reading the first byte of s moves it from the line to the buffer.
LEMMA MoveHead ==
    ASSUME NEW s \in Seq(Byte), NEW t \in Seq(Byte), t # <<>>
    PROVE  Append(s, Head(t)) \o Tail(t) = s \o t
<1>1. /\ Head(t) \in Byte /\ Tail(t) \in Seq(Byte) /\ Len(Tail(t)) = Len(t) - 1
      /\ \A i \in 1..Len(Tail(t)) : Tail(t)[i] = t[i + 1]
  BY HeadTailProperties
<1>2. Head(t) = t[1]
  OBVIOUS
<1>3. /\ Append(s, Head(t)) \in Seq(Byte) /\ Len(Append(s, Head(t))) = Len(s) + 1
      /\ \A i \in 1..Len(s) : Append(s, Head(t))[i] = s[i]
      /\ Append(s, Head(t))[Len(s) + 1] = Head(t)
  BY <1>1, AppendProperties
<1> DEFINE u == Append(s, Head(t)) \o Tail(t)
           v == s \o t
<1>4. Len(s) \in Nat /\ Len(t) \in Nat /\ Len(t) # 0
  BY LenProperties, EmptySeq
<1>5. /\ u \in Seq(Byte) /\ Len(u) = Len(s) + 1 + (Len(t) - 1)
      /\ \A i \in 1..Len(s) + 1 + (Len(t) - 1) :
            u[i] = IF i <= Len(s) + 1 THEN Append(s, Head(t))[i] ELSE Tail(t)[i - (Len(s) + 1)]
  BY <1>1, <1>3, ConcatProperties
<1>6. /\ v \in Seq(Byte) /\ Len(v) = Len(s) + Len(t)
      /\ \A i \in 1..Len(s) + Len(t) : v[i] = IF i <= Len(s) THEN s[i] ELSE t[i - Len(s)]
  BY ConcatProperties
<1> HIDE DEF u, v
<1>7. ASSUME NEW i \in 1..Len(u) PROVE u[i] = v[i]
  <2>1. CASE i <= Len(s)
    BY <1>3, <1>4, <1>5, <1>6, <2>1
  <2>2. CASE i = Len(s) + 1
    BY <1>2, <1>3, <1>4, <1>5, <1>6, <2>2
  <2>3. CASE i > Len(s) + 1
    <3>1. u[i] = Tail(t)[i - (Len(s) + 1)] /\ v[i] = t[i - Len(s)]
      BY <1>4, <1>5, <1>6, <2>3
    <3>2. i - (Len(s) + 1) \in 1..Len(Tail(t)) /\ (i - (Len(s) + 1)) + 1 = i - Len(s)
      BY <1>1, <1>4, <1>5, <2>3
    <3>3. QED BY <1>1, <3>1, <3>2
  <2>4. QED BY <1>4, <1>5, <2>1, <2>2, <2>3
<1>8. Len(u) = Len(v)
  BY <1>4, <1>5, <1>6
<1>9. u = v
  BY <1>5, <1>6, <1>7, <1>8, SeqEqual
<1>10. QED BY <1>9 DEF u, v

\* The first byte of a concatenation is that of its first part.
LEMMA ConcatHead ==
    ASSUME NEW s \in Seq(Byte), NEW t \in Seq(Byte), s # <<>>
    PROVE  s \o t # <<>> /\ Head(s \o t) = Head(s) /\ Tail(s \o t) = Tail(s) \o t
<1>1. /\ Head(s) \in Byte /\ Tail(s) \in Seq(Byte) /\ Len(Tail(s)) = Len(s) - 1
      /\ \A i \in 1..Len(Tail(s)) : Tail(s)[i] = s[i + 1]
  BY HeadTailProperties
<1>2. Len(s) \in Nat /\ Len(t) \in Nat /\ Len(s) # 0
  BY LenProperties, EmptySeq
<1> DEFINE v == s \o t
           w == Tail(s) \o t
<1>3. /\ v \in Seq(Byte) /\ Len(v) = Len(s) + Len(t)
      /\ \A i \in 1..Len(s) + Len(t) : v[i] = IF i <= Len(s) THEN s[i] ELSE t[i - Len(s)]
  BY ConcatProperties
<1>4. /\ w \in Seq(Byte) /\ Len(w) = Len(s) - 1 + Len(t)
      /\ \A i \in 1..Len(s) - 1 + Len(t) :
            w[i] = IF i <= Len(s) - 1 THEN Tail(s)[i] ELSE t[i - (Len(s) - 1)]
  BY <1>1, ConcatProperties
<1> HIDE DEF v, w
<1>5. v # <<>>
  BY <1>2, <1>3, EmptySeq
<1>6. /\ Tail(v) \in Seq(Byte) /\ Len(Tail(v)) = Len(v) - 1
      /\ \A i \in 1..Len(Tail(v)) : Tail(v)[i] = v[i + 1]
  BY <1>3, <1>5, HeadTailProperties
<1>7. Head(v) = Head(s)
  <2>1. Head(v) = v[1] /\ Head(s) = s[1]
    OBVIOUS
  <2>2. v[1] = s[1]
    BY <1>2, <1>3
  <2>3. QED BY <2>1, <2>2
<1>8. ASSUME NEW i \in 1..Len(w) PROVE w[i] = Tail(v)[i]
  <2>1. i + 1 \in 1..Len(v) /\ Tail(v)[i] = v[i + 1] /\ i \in Nat
    BY <1>2, <1>3, <1>4, <1>6
  <2>2. CASE i <= Len(s) - 1
    BY <1>1, <1>2, <1>3, <1>4, <2>1, <2>2
  <2>3. CASE ~(i <= Len(s) - 1)
    <3>1. i - (Len(s) - 1) = (i + 1) - Len(s)
      BY <1>2, <2>1
    <3>2. w[i] = t[i - (Len(s) - 1)]
      BY <1>4, <2>1, <2>3
    <3>3. v[i + 1] = t[(i + 1) - Len(s)]
      BY <1>2, <1>3, <2>1, <2>3
    <3>4. QED BY <2>1, <3>1, <3>2, <3>3
  <2>4. QED BY <2>2, <2>3
<1>9. w = Tail(v)
  <2>1. Len(w) = Len(Tail(v))
    BY <1>2, <1>3, <1>4, <1>6
  <2>2. QED BY <1>4, <1>6, <1>8, <2>1, SeqEqual
<1>10. QED BY <1>5, <1>7, <1>9 DEF v, w

\* Two ways to cut one sequence at the same place have the same parts.
LEMMA CutEqual ==
    ASSUME NEW s \in Seq(Byte), NEW t \in Seq(Byte), NEW u \in Seq(Byte), NEW v \in Seq(Byte),
           s \o t = u \o v, Len(s) = Len(u)
    PROVE  s = u /\ t = v
<1>1. Len(s) \in Nat /\ Len(t) \in Nat /\ Len(v) \in Nat
  BY LenProperties
<1> DEFINE w == s \o t
<1>2. /\ w \in Seq(Byte) /\ Len(w) = Len(s) + Len(t)
      /\ \A i \in 1..Len(s) + Len(t) : w[i] = IF i <= Len(s) THEN s[i] ELSE t[i - Len(s)]
  BY ConcatProperties
<1>3. /\ Len(w) = Len(u) + Len(v)
      /\ \A i \in 1..Len(u) + Len(v) : w[i] = IF i <= Len(u) THEN u[i] ELSE v[i - Len(u)]
  BY ConcatProperties
<1> HIDE DEF w
<1>4. Len(t) = Len(v)
  BY <1>1, <1>2, <1>3
<1>5. \A i \in 1..Len(s) : s[i] = u[i]
  BY <1>1, <1>2, <1>3
<1>6. s = u
  BY <1>5, SeqEqual
<1>7. ASSUME NEW i \in 1..Len(t) PROVE t[i] = v[i]
  <2>1. Len(s) + i \in 1..Len(s) + Len(t) /\ ~(Len(s) + i <= Len(s)) /\ (Len(s) + i) - Len(s) = i
    BY <1>1
  <2>2. w[Len(s) + i] = t[i]
    BY <1>2, <2>1
  <2>3. w[Len(s) + i] = v[i]
    BY <1>3, <1>4, <2>1
  <2>4. QED BY <2>2, <2>3
<1>8. t = v
  BY <1>4, <1>7, SeqEqual
<1>9. QED BY <1>6, <1>8

\* Zeros are read one by one.
LEMMA ZerosStep ==
    ASSUME NEW k \in Nat
    PROVE  /\ k = 0 => Zeros(k) = <<>>
           /\ k > 0 => Zeros(k) # <<>> /\ Head(Zeros(k)) = 0 /\ Tail(Zeros(k)) = Zeros(k - 1)
<1> DEFINE z == Zeros(k)
           y == Zeros(k - 1)
<1>1. z \in Seq(Byte) /\ Len(z) = k /\ \A i \in 1..k : z[i] = 0
  BY ZerosType, LenProperties DEF Zeros
<1>2. k > 0 => y \in Seq(Byte) /\ Len(y) = k - 1 /\ \A i \in 1..k - 1 : y[i] = 0
  <2>1. k > 0 => k - 1 \in Nat
    OBVIOUS
  <2>2. QED BY <2>1, ZerosType, LenProperties DEF Zeros
<1> HIDE DEF z, y
<1>3. k = 0 => z = <<>>
  BY <1>1, EmptySeq
<1>4. ASSUME k > 0 PROVE z # <<>> /\ Head(z) = 0 /\ Tail(z) = y
  <2>1. z # <<>>
    BY <1>1, <1>4, EmptySeq
  <2>2. Head(z) = z[1] /\ z[1] = 0
    BY <1>1, <1>4
  <2>3. /\ Tail(z) \in Seq(Byte) /\ Len(Tail(z)) = k - 1
        /\ \A i \in 1..Len(Tail(z)) : Tail(z)[i] = z[i + 1]
    BY <1>1, <2>1, HeadTailProperties
  <2>4. \A i \in 1..Len(Tail(z)) : Tail(z)[i] = y[i]
    BY <1>1, <1>2, <1>4, <2>3
  <2>5. Tail(z) = y
    BY <1>2, <1>4, <2>3, <2>4, SeqEqual
  <2>6. QED BY <2>1, <2>2, <2>5
<1>5. QED BY <1>3, <1>4 DEF z, y

-----------------------------------------------------------------------------
(* Bytes after zeros                                                       *)

\* Zeros before x are padding.
LEMMA PaddedZeros ==
    ASSUME NEW n \in Nat, NEW x \in Seq(Byte)
    PROVE  Padded(Zeros(n) \o x, x)
<1>1. Zeros(n) \in Seq(Byte) /\ Len(Zeros(n)) = n
  BY ZerosType, LenProperties DEF Zeros
<1>2. n \in 0..Len(Zeros(n) \o x)
  <2>1. Len(Zeros(n) \o x) = n + Len(x) /\ Len(x) \in Nat
    BY <1>1, ConcatProperties, LenProperties
  <2>2. QED BY <2>1
<1>3. QED BY <1>2 DEF Padded

\* x alone is x after no zeros; zeros alone are the empty sequence after them.
LEMMA PaddedSelf ==
    /\ \A x \in Seq(Byte) : Padded(x, x)
    /\ \A n \in Nat : Padded(Zeros(n), <<>>)
<1>1. ASSUME NEW x \in Seq(Byte) PROVE Padded(x, x)
  <2>1. Zeros(0) \o x = x
    BY ZerosStep, ConcatEmptySeq
  <2>2. QED BY <2>1, PaddedZeros
<1>2. ASSUME NEW n \in Nat PROVE Padded(Zeros(n), <<>>)
  <2>1. Zeros(n) \o <<>> = Zeros(n) /\ <<>> \in Seq(Byte)
    BY ZerosType, ConcatEmptySeq, EmptySeq
  <2>2. QED BY <2>1, PaddedZeros
<1>3. QED BY <1>1, <1>2

\* Bytes that follow do not disturb the padding.
LEMMA PaddedThen ==
    ASSUME NEW s \in Seq(Byte), NEW x \in Seq(Byte), NEW y \in Seq(Byte), Padded(s, x)
    PROVE  Padded(s \o y, x \o y)
<1>1. PICK k \in 0..Len(s) : s = Zeros(k) \o x
  BY DEF Padded
<1>2. k \in Nat /\ Zeros(k) \in Seq(Byte)
  BY LenProperties, ZerosType
<1>3. s \o y = Zeros(k) \o (x \o y) /\ x \o y \in Seq(Byte)
  BY <1>1, <1>2, ConcatAssociative, ConcatProperties
<1>4. QED BY <1>2, <1>3, PaddedZeros

\* The first byte is padding, or there is none.
LEMMA PaddedRead ==
    ASSUME NEW s \in Seq(Byte), NEW x \in Seq(Byte), Padded(s, x), s # <<>>
    PROVE  (Head(s) = 0 /\ Padded(Tail(s), x)) \/ s = x
<1>1. PICK k \in 0..Len(s) : s = Zeros(k) \o x
  BY DEF Padded
<1>2. k \in Nat /\ Zeros(k) \in Seq(Byte)
  BY LenProperties, ZerosType
<1>3. CASE k = 0
  BY <1>1, <1>3, ZerosStep, ConcatEmptySeq
<1>4. CASE k > 0
  <2>1. Zeros(k) # <<>> /\ Head(Zeros(k)) = 0 /\ Tail(Zeros(k)) = Zeros(k - 1) /\ k - 1 \in Nat
    BY <1>2, <1>4, ZerosStep
  <2>2. Head(Zeros(k) \o x) = Head(Zeros(k)) /\ Tail(Zeros(k) \o x) = Tail(Zeros(k)) \o x
    BY <1>2, <2>1, ConcatHead
  <2>3. Head(s) = 0 /\ Tail(s) = Zeros(k - 1) \o x
    BY <1>1, <2>1, <2>2, Zenon
  <2>4. QED BY <2>1, <2>3, PaddedZeros
<1>5. QED BY <1>2, <1>3, <1>4

\* Padding before padding is padding.
LEMMA PaddedTwice ==
    ASSUME NEW s \in Seq(Byte), NEW n \in Nat, NEW x \in Seq(Byte), Padded(s, <<>>)
    PROVE  Padded(s \o (Zeros(n) \o x), x)
<1>1. PICK k \in 0..Len(s) : s = Zeros(k) \o <<>>
  BY DEF Padded
<1>2. k \in Nat /\ Zeros(k) \in Seq(Byte) /\ Zeros(n) \in Seq(Byte) /\ k + n \in Nat
  BY LenProperties, ZerosType
<1>3. s = Zeros(k)
  BY <1>1, <1>2, ConcatEmptySeq
<1>4. Zeros(k) \o Zeros(n) = Zeros(k + n)
  <2> DEFINE a == Zeros(k)
             b == Zeros(n)
             u == a \o b
             w == Zeros(k + n)
  <2>1. a \in Seq(Byte) /\ Len(a) = k /\ \A i \in 1..k : a[i] = 0
    BY <1>2, LenProperties DEF Zeros
  <2>2. b \in Seq(Byte) /\ Len(b) = n /\ \A i \in 1..n : b[i] = 0
    BY <1>2, LenProperties DEF Zeros
  <2>3. w \in Seq(Byte) /\ Len(w) = k + n /\ \A i \in 1..k + n : w[i] = 0
    BY <1>2, ZerosType, LenProperties DEF Zeros
  <2> HIDE DEF a, b, w
  <2>4. /\ u \in Seq(Byte) /\ Len(u) = Len(a) + Len(b)
        /\ \A i \in 1..Len(a) + Len(b) : u[i] = IF i <= Len(a) THEN a[i] ELSE b[i - Len(a)]
    BY <2>1, <2>2, ConcatProperties
  <2> HIDE DEF u
  <2>5. ASSUME NEW i \in 1..k + n PROVE u[i] = 0
    <3>1. CASE i <= k
      BY <2>1, <2>2, <2>4, <3>1
    <3>2. CASE ~(i <= k)
      <4>1. i - k \in 1..n
        BY <1>2, <3>2
      <4>2. u[i] = b[i - k]
        BY <2>1, <2>2, <2>4, <3>2
      <4>3. QED BY <2>2, <4>1, <4>2
    <3>3. QED BY <3>1, <3>2
  <2>6. u = w
    BY <2>1, <2>2, <2>3, <2>4, <2>5, SeqEqual
  <2>7. QED BY <2>6 DEF a, b, u, w
<1>5. s \o (Zeros(n) \o x) = Zeros(k + n) \o x
  <2>1. s \o (Zeros(n) \o x) = (Zeros(k) \o Zeros(n)) \o x
    BY <1>2, <1>3, ConcatAssociative
  <2>2. QED BY <1>4, <2>1
<1>6. QED BY <1>2, <1>5, PaddedZeros

-----------------------------------------------------------------------------
(* Frames                                                                  *)

\* The checksum bytes of a payload add up to its checksum.
LEMMA ChecksType ==
    ASSUME NEW m \in Payload
    PROVE  /\ Checks(m) \in Seq(Byte) /\ Checks(m) # <<>>
           /\ Head(Checks(m)) = Check(m) \div 256 /\ Tail(Checks(m)) = <<Check(m) % 256>>
           /\ Check(m) \div 256 \in Byte /\ Check(m) % 256 \in Byte
           /\ (Check(m) \div 256) * 256 + (Check(m) % 256) = Check(m)
<1>1. /\ Check(m) \div 256 \in Byte /\ Check(m) % 256 \in Byte
      /\ (Check(m) \div 256) * 256 + (Check(m) % 256) = Check(m)
  BY CheckAssumption, TwoBytes
<1>2. QED BY <1>1 DEF Checks

\* A frame is its length, then payload and checksum.
LEMMA FrameParts ==
    ASSUME NEW m \in Payload, NEW s \in Seq(Byte)
    PROVE  /\ Frame(m) \in Seq(Byte) /\ Frame(m) # <<>>
           /\ Head(Frame(m) \o s) = Len(m)
           /\ Tail(Frame(m) \o s) = m \o (Checks(m) \o s)
           /\ Head(Frame(m)) = Len(m) /\ Tail(Frame(m)) = m \o Checks(m)
<1>1. m \in Seq(Byte) /\ Len(m) \in Byte /\ Checks(m) \in Seq(Byte) /\ <<Len(m)>> \in Seq(Byte)
  BY PayloadType, ChecksType
<1>2. m \o Checks(m) \in Seq(Byte)
  BY <1>1, ConcatProperties
<1>3. Frame(m) = <<Len(m)>> \o (m \o Checks(m))
  BY <1>1, ConcatAssociative DEF Frame, Checks
<1>4. <<Len(m)>> # <<>> /\ Head(<<Len(m)>>) = Len(m) /\ Tail(<<Len(m)>>) = <<>>
  OBVIOUS
<1>5. Frame(m) # <<>> /\ Head(Frame(m)) = Len(m) /\ Tail(Frame(m)) = m \o Checks(m)
  BY <1>1, <1>2, <1>3, <1>4, ConcatHead, ConcatEmptySeq
<1>6. Frame(m) \in Seq(Byte)
  BY FrameType
<1>7. Head(Frame(m) \o s) = Len(m) /\ Tail(Frame(m) \o s) = (m \o Checks(m)) \o s
  BY <1>5, <1>6, ConcatHead
<1>8. (m \o Checks(m)) \o s = m \o (Checks(m) \o s)
  BY <1>1, ConcatAssociative
<1>9. QED BY <1>5, <1>6, <1>7, <1>8

-----------------------------------------------------------------------------
(* One exchange, step by step                                              *)

\* What a step does to the history: nothing, or one of the three events.
Keeps   == UNCHANGED history
Asks    == /\ Len(handled) = Len(asked) /\ Len(answers) = Len(asked)
           /\ \E r \in Request : asked' = Append(asked, r)
           /\ UNCHANGED <<handled, answers>>
Serves  == /\ Len(handled) + 1 = Len(asked)
           /\ handled' = Append(handled, [data |-> asked[Len(asked)], during |-> Len(asked)])
           /\ UNCHANGED <<asked, answers>>
Returns == /\ Len(handled) = Len(asked) /\ Len(answers) + 1 = Len(asked)
           /\ answers' = Append(answers, Reply[asked[Len(asked)]])
           /\ UNCHANGED <<asked, handled>>
Event   == Keeps \/ Asks \/ Serves \/ Returns

\* The states the lemmas start from.
Sound == TypeOK /\ SendersHold /\ OneOutstanding /\ RepliesFit

LEMMA SoundTypes ==
    ASSUME Sound
    PROVE  /\ d2h \in Seq(Byte) /\ h2d \in Seq(Byte) /\ dbuf \in Seq(Byte) /\ hbuf \in Seq(Byte)
           /\ <<>> \in Seq(Byte) /\ <<ACK>> \in Seq(Byte) /\ Zeros(Trail) \in Seq(Byte)
           /\ Zeros(Pad) \in Seq(Byte) /\ Pad \in Nat /\ Trail \in Nat /\ NoReply = <<>>
           /\ dpc # "idle" => dreq \in Request /\ dreq \in Payload /\ Reply[dreq] \in Payload
           /\ dpc # "idle" => Len(dreq) \in 1..255 /\ Len(Reply[dreq]) \in 0..HostMaxData
           /\ dpc # "idle" => dreq = asked[Len(asked)]
           /\ Len(asked) \in Nat /\ Len(handled) \in Nat /\ Len(answers) \in Nat
           /\ Len(dbuf) \in Nat /\ Len(hbuf) \in Nat /\ dlen \in 0..255 /\ hlen \in 0..255
<1>1. TypeOK /\ SendersHold /\ OneOutstanding /\ RepliesFit
  BY DEF Sound
<1>2. <<ACK>> \in Seq(Byte) /\ Zeros(Trail) \in Seq(Byte) /\ Zeros(Pad) \in Seq(Byte)
  BY ZerosType, BoundsAssumption DEF ACK, Byte
<1>3. dpc # "idle" => dreq \in Request /\ dreq \in Payload /\ Reply[dreq] \in Payload
  BY <1>1 DEF SendersHold, Payload
<1>4. dpc # "idle" => Len(dreq) \in 1..255 /\ Len(Reply[dreq]) \in 0..HostMaxData
  <2>1. dpc # "idle" => Len(Reply[dreq]) <= HostMaxData /\ Len(Reply[dreq]) \in Nat
    BY <1>1, <1>3, ReplyAssumption DEF RepliesFit
  <2>2. QED BY <1>3, <2>1, RequestAssumption, MaxDataAssumption
<1>5. dpc # "idle" => dreq = asked[Len(asked)]
  BY <1>1 DEF OneOutstanding
<1>6. /\ d2h \in Seq(Byte) /\ h2d \in Seq(Byte) /\ dbuf \in Seq(Byte) /\ hbuf \in Seq(Byte)
      /\ asked \in Seq(Request) /\ handled \in Seq([data : Seq(Byte), during : Nat])
      /\ answers \in Seq(Seq(Byte)) /\ dlen \in 0..255 /\ hlen \in 0..255
  BY <1>1 DEF TypeOK, Byte
<1>7. /\ Len(asked) \in Nat /\ Len(handled) \in Nat /\ Len(answers) \in Nat
      /\ Len(dbuf) \in Nat /\ Len(hbuf) \in Nat
  BY <1>6, LenProperties
<1>8. QED
  BY <1>2, <1>3, <1>4, <1>5, <1>6, <1>7, EmptySeq, BoundsAssumption DEF NoReply

\* A read in the middle of a frame that arrives takes its next byte.
LEMMA ReadNext ==
    ASSUME Sound, FaultFree, FaultFree', h2d # <<>>, NEW b \in DevBytes, DevReads(b)
    PROVE  b = Head(h2d) /\ h2d' = Tail(h2d) /\ b \in Byte /\ b % 256 = b /\ b # None
<1>1. b # None
  BY DEF FaultFree, DevReads
<1>2. b = Head(h2d) /\ h2d' = Tail(h2d)
  BY <1>1 DEF DevBytes, DevReads
<1>3. Head(h2d) \in Byte
  BY SoundTypes, HeadTailProperties
<1>4. b % 256 = b
  <2>1. \A n \in Byte : n % 256 = n
    BY DEF Byte
  <2>2. b \in Byte
    BY <1>2, <1>3
  <2>3. QED BY <2>1, <2>2
<1>5. QED BY <1>1, <1>2, <1>3, <1>4

LEMMA AskStep ==
    ASSUME Sound, Exchange, NEW r \in Request, DevAsk(r)
    PROVE  Exchange' /\ Asks
<1>1. AtRest
  BY DEF Exchange, AtRest, ToSend, OnItsWay, Accepted, Awaiting, Received, Arriving, DevAsk
<1>2. Len(answers) = Len(asked) /\ Len(handled) = Len(asked)
  BY <1>1 DEF Sound, OneOutstanding, AtRest
<1>3. asked \in Seq(Request) /\ Len(asked') = Len(asked) + 1
  BY AppendProperties DEF Sound, TypeOK, DevAsk
<1>4. ToSend'
  BY <1>1, <1>2, <1>3 DEF AtRest, ToSend, DevAsk, Settled, hvars
<1>5. Asks
  BY <1>2 DEF Asks, DevAsk
<1>6. QED BY <1>4, <1>5 DEF Exchange

LEMMA SendStep ==
    ASSUME Sound, Exchange, DevSend
    PROVE  Exchange' /\ Keeps
<1>1. ToSend
  BY DEF Exchange, AtRest, ToSend, OnItsWay, Accepted, Awaiting, Received, Arriving, DevSend
<1>2. dreq \in Payload /\ Frame(dreq) \in Seq(Byte)
  BY <1>1, SoundTypes, FrameParts DEF ToSend
<1>3. <<>> \o Frame(dreq) = Frame(dreq) /\ (<<ACK>> \o <<>>) \o Frame(dreq) = <<ACK>> \o Frame(dreq)
  BY <1>2, SoundTypes, ConcatEmptySeq
<1>4. Settled(Frame(dreq))'
  BY <1>1, <1>3 DEF ToSend, Settled, DevSend, hvars
<1>5. OnItsWay'
  BY <1>1, <1>4 DEF ToSend, OnItsWay, DevSend, history, Settled
<1>6. QED BY <1>5 DEF Exchange, Keeps, DevSend

LEMMA StatusStep ==
    ASSUME Sound, Exchange, DevStatus
    PROVE  Exchange' /\ (Keeps \/ Returns)
<1>1. OnItsWay \/ Accepted
  BY DEF Exchange, AtRest, ToSend, OnItsWay, Accepted, Awaiting, Received, Arriving, DevStatus
<1>2. /\ d2h \in Seq(Byte) /\ h2d \in Seq(Byte) /\ <<>> \in Seq(Byte) /\ <<ACK>> \in Seq(Byte)
      /\ dreq = asked[Len(asked)] /\ NoReply = <<>>
  BY SoundTypes DEF DevStatus
<1>3. h2d # <<>> /\ h2d' = Tail(h2d) /\ dpc = "status" /\ ACK # 0
  BY DEF DevStatus, ACK
<1>4. CASE OnItsWay
  <2>1. Head(h2d) = 0 /\ Padded(h2d', <<>>)
    BY <1>2, <1>3, <1>4, PaddedRead DEF OnItsWay
  <2>2. dpc' = dpc /\ answers' = answers
    BY <1>3, <2>1 DEF DevStatus
  <2>3. OnItsWay'
    BY <1>4, <2>1, <2>2 DEF OnItsWay, DevStatus, Settled, Reading, hvars
  <2>4. QED BY <2>2, <2>3 DEF Exchange, Keeps, DevStatus, history
<1>5. CASE Accepted
  <2>1. PICK s \in Seq(Byte) : Padded(h2d, <<ACK>> \o s) /\ Replying(dreq, s)
    BY <1>5 DEF Accepted
  <2>2. <<ACK>> \o s \in Seq(Byte)
    BY <1>2, ConcatProperties
  <2>3. <<ACK>> # <<>> /\ Head(<<ACK>>) = ACK /\ Tail(<<ACK>>) = <<>>
    OBVIOUS
  <2>4. Head(<<ACK>> \o s) = ACK /\ Tail(<<ACK>> \o s) = s
    BY <1>2, <2>3, ConcatHead, ConcatEmptySeq
  <2>5. CASE Head(h2d) = 0 /\ Padded(Tail(h2d), <<ACK>> \o s)
    <3>1. dpc' = dpc /\ answers' = answers
      BY <1>3, <2>5 DEF DevStatus
    <3>2. Replying(dreq, s)'
      BY <2>1 DEF Replying, DevStatus, hvars
    <3>3. Accepted'
      BY <1>3, <1>5, <2>5, <3>1, <3>2 DEF Accepted, DevStatus
    <3>4. QED BY <3>1, <3>3 DEF Exchange, Keeps, DevStatus, history
  <2>6. CASE h2d = <<ACK>> \o s
    <3>1. Head(h2d) = ACK /\ h2d' = s
      BY <1>3, <2>4, <2>6
    <3>2. CASE Reply[dreq] = NoReply
      <4>1. dpc' = "idle" /\ answers' = Append(answers, NoReply)
        BY <1>3, <3>1, <3>2 DEF DevStatus
      <4>2. Settled(<<>>)' /\ Padded(h2d', <<>>)
        BY <1>5, <2>1, <3>1, <3>2 DEF Accepted, Replying, Settled, DevStatus, hvars
      <4>3. AtRest'
        BY <1>5, <4>1, <4>2 DEF AtRest, Accepted, DevStatus
      <4>4. Returns
        BY <1>2, <1>3, <1>5, <3>2, <4>1 DEF Returns, Accepted, Sound, OneOutstanding, DevStatus
      <4>5. QED BY <4>3, <4>4 DEF Exchange
    <3>3. CASE Reply[dreq] # NoReply
      <4>1. dpc' = "len" /\ answers' = answers
        BY <1>3, <3>1, <3>3 DEF DevStatus
      <4>2. Replying(dreq, h2d)'
        BY <2>1, <3>1 DEF Replying, DevStatus, hvars
      <4>3. Awaiting'
        BY <1>5, <3>3, <4>1, <4>2 DEF Awaiting, Accepted, DevStatus
      <4>4. QED BY <4>1, <4>3 DEF Exchange, Keeps, DevStatus, history
    <3>4. QED BY <3>2, <3>3
  <2>7. QED BY <1>2, <1>3, <2>1, <2>2, <2>5, <2>6, PaddedRead
<1>6. QED BY <1>1, <1>4, <1>5

LEMMA LenStep ==
    ASSUME Sound, Exchange, DevLen
    PROVE  Exchange' /\ Keeps
<1>1. Awaiting
  BY DEF Exchange, AtRest, ToSend, OnItsWay, Accepted, Awaiting, Received, Arriving, DevLen
<1> DEFINE m == Reply[dreq]
<1>2. /\ h2d \in Seq(Byte) /\ <<>> \in Seq(Byte) /\ Zeros(Trail) \in Seq(Byte)
      /\ m \in Payload /\ Len(m) \in 0..HostMaxData /\ m \in Seq(Byte) /\ m # <<>>
  BY <1>1, SoundTypes, PayloadType DEF Awaiting
<1>3. Len(m) \in 1..HostMaxData
  BY <1>2, EmptySeq
<1>4. h2d # <<>> /\ h2d' = Tail(h2d) /\ hpc' = hpc /\ hbuf' = hbuf /\ hout' = hout /\ dreq' = dreq
  BY DEF DevLen, hvars
<1>5. Keeps
  BY DEF Keeps, DevLen
<1>6. CASE Head(h2d) = 0 /\ Replying(dreq, Tail(h2d))
  <2>1. dpc' = dpc /\ d2h' = d2h
    BY <1>3, <1>6, MaxDataAssumption DEF DevLen
  <2>2. Replying(dreq, h2d)'
    BY <1>4, <1>6 DEF Replying
  <2>3. Awaiting'
    BY <1>1, <1>4, <1>5, <2>1, <2>2 DEF Awaiting, Keeps, history
  <2>4. QED BY <1>5, <2>3 DEF Exchange
<1>7. CASE hpc = "status" /\ h2d = Frame(m) \o Zeros(Trail)
  <2>1. Head(h2d) = Len(m) /\ Tail(h2d) = m \o (Checks(m) \o Zeros(Trail))
    BY <1>2, <1>7, FrameParts
  <2>2. /\ dlen' = Len(m) /\ dbuf' = <<>> /\ dpc' = "data" /\ d2h' = d2h
    BY <1>3, <2>1, MaxDataAssumption DEF DevLen
  <2>3. dbuf' \o h2d' = m \o (Checks(m) \o Zeros(Trail))
    <3>1. Checks(m) \o Zeros(Trail) \in Seq(Byte)
      BY <1>2, ChecksType, ConcatProperties
    <3>2. m \o (Checks(m) \o Zeros(Trail)) \in Seq(Byte)
      BY <1>2, <3>1, ConcatProperties
    <3>3. QED BY <1>4, <2>1, <2>2, <3>2, ConcatEmptySeq
  <2>4. Len(dbuf') < dlen'
    BY <1>3, <2>2, EmptySeq
  <2>5. Arriving(m)'
    BY <1>4, <2>2, <2>3, <2>4 DEF Arriving, Checks
  <2>6. Received'
    BY <1>1, <1>4, <1>5, <1>7, <2>2, <2>5 DEF Awaiting, Received, Keeps, history
  <2>7. QED BY <1>5, <2>6 DEF Exchange
<1>8. (Head(h2d) = 0 /\ Replying(dreq, Tail(h2d))) \/ (hpc = "status" /\ h2d = Frame(m) \o Zeros(Trail))
  <2>1. Replying(dreq, h2d) /\ m # NoReply
    BY <1>1 DEF Awaiting
  <2>2. CASE Padded(h2d, <<>>) /\ hpc # "status"
    <3>1. Head(h2d) = 0 /\ Padded(Tail(h2d), <<>>)
      BY <1>2, <1>4, <2>2, PaddedRead
    <3>2. QED BY <2>1, <2>2, <3>1 DEF Replying
  <2>3. CASE hpc = "status" /\ hout = m /\ Padded(h2d, Frame(m) \o Zeros(Trail))
    <3>1. Frame(m) \o Zeros(Trail) \in Seq(Byte)
      BY <1>2, FrameParts, ConcatProperties
    <3>2. QED BY <1>2, <1>4, <2>1, <2>3, <3>1, PaddedRead DEF Replying
  <2>4. QED BY <2>1, <2>2, <2>3 DEF Replying
<1>9. QED BY <1>6, <1>7, <1>8

\* Part of m is in the buffer s, the rest of m and then x are on the line t.
InPart(s, t, m, x) == s \o t = m \o x /\ Len(s) < Len(m)

\* The next byte goes into the buffer; the last byte of m completes it.
MovesOn(s, t, m, x) ==
    /\ t # <<>>
    /\ Append(s, Head(t)) \o Tail(t) = m \o x
    /\ Len(Append(s, Head(t))) = Len(s) + 1
    /\ Len(s) + 1 = Len(m) => Append(s, Head(t)) = m /\ Tail(t) = x

\* Reading data, on either side.
LEMMA ReadData ==
    ASSUME NEW m \in Seq(Byte), NEW x \in Seq(Byte), NEW s \in Seq(Byte), NEW t \in Seq(Byte),
           InPart(s, t, m, x)
    PROVE  MovesOn(s, t, m, x)
<1> USE DEF InPart
<1>1. t # <<>>
  <2>1. SUFFICES ASSUME t = <<>> PROVE FALSE
    OBVIOUS
  <2>2. s = m \o x
    BY <2>1, ConcatEmptySeq
  <2>3. Len(m \o x) = Len(m) + Len(x) /\ Len(x) \in Nat /\ Len(m) \in Nat /\ Len(s) \in Nat
    BY ConcatProperties, LenProperties
  <2>4. QED BY <2>2, <2>3
<1>2. Head(t) \in Byte /\ Tail(t) \in Seq(Byte)
  BY <1>1, HeadTailProperties
<1>3. Append(s, Head(t)) \in Seq(Byte) /\ Len(Append(s, Head(t))) = Len(s) + 1
  BY <1>2, AppendProperties
<1>4. Append(s, Head(t)) \o Tail(t) = m \o x
  BY <1>1, MoveHead
<1>5. QED BY <1>1, <1>2, <1>3, <1>4, CutEqual DEF MovesOn

LEMMA DataStep ==
    ASSUME Sound, FaultFree, FaultFree', Exchange, DevData
    PROVE  Exchange' /\ Keeps
<1> DEFINE m == Reply[dreq]
           x == Checks(m) \o Zeros(Trail)
<1>1. Received /\ dpc = "data" /\ dlen = Len(m) /\ Len(dbuf) < dlen /\ dbuf \o h2d = m \o x
  BY DEF Exchange, AtRest, ToSend, OnItsWay, Accepted, Awaiting, Received, Arriving, DevData
<1>2. /\ m \in Seq(Byte) /\ x \in Seq(Byte) /\ dbuf \in Seq(Byte) /\ h2d \in Seq(Byte)
      /\ Len(dbuf) \in Nat /\ Len(m) \in Nat
  <2>1. m \in Payload /\ Zeros(Trail) \in Seq(Byte) /\ dbuf \in Seq(Byte) /\ h2d \in Seq(Byte)
    BY <1>1, SoundTypes
  <2>2. QED BY <2>1, PayloadType, ChecksType, ConcatProperties, LenProperties
<1> HIDE DEF x
<1>3. /\ h2d # <<>> /\ Append(dbuf, Head(h2d)) \o Tail(h2d) = m \o x
      /\ Len(Append(dbuf, Head(h2d))) = Len(dbuf) + 1
      /\ Len(dbuf) + 1 = Len(m) => Append(dbuf, Head(h2d)) = m /\ Tail(h2d) = x
  <2>1. InPart(dbuf, h2d, m, x)
    BY <1>1 DEF InPart
  <2>2. MovesOn(dbuf, h2d, m, x)
    BY <1>2, <2>1, ReadData
  <2>3. QED BY <2>2 DEF MovesOn
<1>4. PICK b \in DevBytes : DevReads(b) /\ dbuf' = Append(dbuf, b % 256)
  BY DEF DevData
<1>5. dbuf' = Append(dbuf, Head(h2d)) /\ h2d' = Tail(h2d)
  BY <1>3, <1>4, ReadNext
<1>6. /\ dreq' = dreq /\ dlen' = dlen /\ d2h' = d2h /\ hpc' = hpc /\ Keeps
      /\ dpc' = IF Len(dbuf) + 1 < dlen THEN "data" ELSE "hi"
  BY DEF DevData, hvars, Keeps
<1>7. Arriving(m)'
  <2>1. CASE Len(dbuf) + 1 < dlen
    <3>1. dpc' = "data" /\ dlen' = Len(m) /\ Len(dbuf') < dlen' /\ dbuf' \o h2d' = m \o x
      BY <1>1, <1>3, <1>5, <1>6, <2>1
    <3>2. QED BY <1>6, <3>1 DEF Arriving, x, Checks
  <2>2. CASE ~(Len(dbuf) + 1 < dlen)
    <3>1. Len(dbuf) + 1 = Len(m)
      BY <1>1, <1>2, <2>2
    <3>2. dpc' = "hi" /\ dbuf' = m /\ h2d' = x
      BY <1>3, <1>5, <1>6, <2>2, <3>1
    <3>3. QED BY <1>6, <3>2 DEF Arriving, x, Checks
  <2>3. QED BY <2>1, <2>2
<1>8. Received'
  BY <1>1, <1>6, <1>7 DEF Received, Keeps, history
<1>9. QED BY <1>6, <1>8 DEF Exchange

LEMMA HiStep ==
    ASSUME Sound, FaultFree, FaultFree', Exchange, DevHi
    PROVE  Exchange' /\ Keeps
<1> DEFINE m == Reply[dreq]
           x == Checks(m) \o Zeros(Trail)
<1>1. Received /\ dpc = "hi" /\ dbuf = m /\ h2d = x
  BY DEF Exchange, AtRest, ToSend, OnItsWay, Accepted, Awaiting, Received, Arriving, DevHi
<1>2. m \in Payload /\ Zeros(Trail) \in Seq(Byte)
  BY <1>1, SoundTypes
<1>3. h2d # <<>> /\ Head(h2d) = Check(m) \div 256 /\ Tail(h2d) = <<Check(m) % 256>> \o Zeros(Trail)
  <2>1. /\ Checks(m) \in Seq(Byte) /\ Checks(m) # <<>>
        /\ Head(Checks(m)) = Check(m) \div 256 /\ Tail(Checks(m)) = <<Check(m) % 256>>
    BY <1>2, ChecksType
  <2>2. x # <<>> /\ Head(x) = Head(Checks(m)) /\ Tail(x) = Tail(Checks(m)) \o Zeros(Trail)
    BY <1>2, <2>1, ConcatHead
  <2>3. QED BY <1>1, <2>1, <2>2
<1>4. PICK b \in DevBytes : DevReads(b) /\ dhi' = b % 256
  BY DEF DevHi
<1>5. dhi' = Head(h2d) /\ h2d' = Tail(h2d)
  BY <1>3, <1>4, ReadNext
<1>6. dreq' = dreq /\ dbuf' = dbuf /\ d2h' = d2h /\ hpc' = hpc /\ dpc' = "lo" /\ Keeps
  BY DEF DevHi, hvars, Keeps
<1>7. Arriving(m)'
  BY <1>1, <1>3, <1>5, <1>6 DEF Arriving
<1>8. Received'
  BY <1>1, <1>6, <1>7 DEF Received, Keeps, history
<1>9. QED BY <1>6, <1>8 DEF Exchange

LEMMA LoStep ==
    ASSUME Sound, FaultFree, FaultFree', Exchange, DevLo
    PROVE  Exchange' /\ Returns
<1> DEFINE m == Reply[dreq]
<1>1. Received /\ dpc = "lo" /\ dbuf = m /\ dhi = Check(m) \div 256 /\ h2d = <<Check(m) % 256>> \o Zeros(Trail)
  BY DEF Exchange, AtRest, ToSend, OnItsWay, Accepted, Awaiting, Received, Arriving, DevLo
<1>2. /\ m \in Payload /\ Zeros(Trail) \in Seq(Byte) /\ Trail \in Nat
      /\ d2h \in Seq(Byte) /\ <<>> \in Seq(Byte) /\ <<ACK>> \in Seq(Byte)
      /\ dreq = asked[Len(asked)]
  BY <1>1, SoundTypes
<1>3. h2d # <<>> /\ Head(h2d) = Check(m) % 256 /\ Tail(h2d) = Zeros(Trail)
  <2>1. Check(m) % 256 \in Byte
    BY <1>2, ChecksType
  <2>2. /\ <<Check(m) % 256>> \in Seq(Byte) /\ <<Check(m) % 256>> # <<>>
        /\ Head(<<Check(m) % 256>>) = Check(m) % 256 /\ Tail(<<Check(m) % 256>>) = <<>>
    BY <2>1
  <2>3. QED BY <1>1, <1>2, <2>2, ConcatHead, ConcatEmptySeq
<1>4. PICK b \in DevBytes :
          /\ DevReads(b)
          /\ DevCheckReceived(b) = Check(dbuf) =>
                d2h' = Append(d2h, ACK) /\ dpc' = "idle" /\ answers' = Append(answers, dbuf)
  BY DEF DevLo
<1>5. b = Check(m) % 256 /\ b # None /\ h2d' = Zeros(Trail)
  BY <1>3, <1>4, ReadNext
<1>6. DevCheckReceived(b) = Check(dbuf)
  BY <1>1, <1>2, <1>5, ChecksType DEF DevCheckReceived
<1>7. d2h' = <<ACK>> \o <<>> /\ dpc' = "idle" /\ answers' = Append(answers, m)
  <2>1. d2h = <<>>
    BY <1>1 DEF Received
  <2>2. Append(<<>>, ACK) = <<ACK>> /\ <<ACK>> \o <<>> = <<ACK>>
    BY <1>2, ConcatEmptySeq
  <2>3. QED BY <1>1, <1>4, <1>6, <2>1, <2>2
<1>8. UNCHANGED <<asked, handled, hpc>> /\ Len(handled) = Len(asked) /\ hpc = "status"
  BY <1>1 DEF DevLo, hvars, Received
<1>9. AtRest'
  <2>1. Padded(h2d', <<>>)
    BY <1>2, <1>5, PaddedSelf
  <2>2. QED BY <1>7, <1>8, <2>1 DEF AtRest, Settled
<1>10. Returns
  BY <1>1, <1>2, <1>7, <1>8 DEF Returns, Sound, OneOutstanding
<1>11. QED BY <1>9, <1>10 DEF Exchange

LEMMA HostLenStep ==
    ASSUME Sound, Exchange, HostLen
    PROVE  Exchange' /\ Keeps
<1>1. hpc = "len" /\ d2h # <<>>
  BY DEF HostLen
<1>2. OnItsWay /\ d2h = Frame(dreq)
  BY <1>1 DEF Exchange, AtRest, ToSend, OnItsWay, Accepted, Awaiting, Received, Settled, Reading
<1>3. /\ dreq \in Payload /\ Len(dreq) \in 1..255 /\ dreq \in Seq(Byte) /\ <<>> \in Seq(Byte)
      /\ dreq \o Checks(dreq) \in Seq(Byte)
  BY <1>2, SoundTypes, PayloadType, ChecksType, ConcatProperties DEF OnItsWay
<1>4. Head(d2h) = Len(dreq) /\ Tail(d2h) = dreq \o Checks(dreq)
  BY <1>2, <1>3, FrameParts
<1>5. /\ hlen' = Len(dreq) /\ hbuf' = <<>> /\ d2h' = dreq \o Checks(dreq) /\ hpc' = "data"
      /\ UNCHANGED <<dreq, dpc, h2d>> /\ Keeps
  <2>1. Head(d2h) # 0
    <3>1. \A n \in 1..255 : n # 0
      OBVIOUS
    <3>2. QED BY <1>3, <1>4, <3>1, Zenon
  <2>2. hlen' = Head(d2h) /\ hbuf' = <<>> /\ d2h' = Tail(d2h) /\ hpc' = "data"
    BY <2>1 DEF HostLen
  <2>3. UNCHANGED <<dreq, dpc, h2d>> /\ Keeps
    BY DEF HostLen, dvars, Keeps
  <2>4. QED BY <1>4, <2>2, <2>3
<1>6. Len(hbuf') < hlen' /\ hbuf' \o d2h' = dreq \o Checks(dreq)
  <2>1. <<>> \o (dreq \o Checks(dreq)) = dreq \o Checks(dreq)
    BY <1>3, ConcatEmptySeq
  <2>2. \A n \in 1..255 : 0 < n
    OBVIOUS
  <2>3. Len(<<>>) = 0
    BY EmptySeq
  <2>4. 0 < Len(dreq)
    BY <1>3, <2>2, Zenon
  <2>5. QED BY <1>5, <2>1, <2>3, <2>4, Zenon
<1>7. Reading(dreq)'
  BY <1>5, <1>6 DEF Reading, Checks
<1>8. OnItsWay'
  BY <1>2, <1>5, <1>7 DEF OnItsWay, Keeps, history
<1>9. QED BY <1>5, <1>8 DEF Exchange

LEMMA HostDataStep ==
    ASSUME Sound, Exchange, HostData
    PROVE  Exchange' /\ Keeps
<1> DEFINE x == Checks(dreq)
<1>1. OnItsWay /\ hlen = Len(dreq) /\ Len(hbuf) < hlen /\ hbuf \o d2h = dreq \o x
  BY DEF Exchange, AtRest, ToSend, OnItsWay, Accepted, Awaiting, Received, Settled, Reading, Replying, HostData
<1>2. /\ dreq \in Seq(Byte) /\ x \in Seq(Byte) /\ hbuf \in Seq(Byte) /\ d2h \in Seq(Byte)
      /\ Len(hbuf) \in Nat /\ Len(dreq) \in Nat
  BY <1>1, SoundTypes, PayloadType, ChecksType, LenProperties DEF OnItsWay
<1> HIDE DEF x
<1>3. MovesOn(hbuf, d2h, dreq, x)
  BY <1>1, <1>2, ReadData DEF InPart
<1>4. /\ hbuf' = Append(hbuf, Head(d2h)) /\ d2h' = Tail(d2h) /\ Keeps
      /\ UNCHANGED <<dreq, dpc, h2d, hlen>>
      /\ hpc' = IF Len(hbuf) + 1 < hlen THEN "data" ELSE "hi"
  BY DEF HostData, dvars, Keeps
<1>5. Reading(dreq)'
  <2>1. CASE Len(hbuf) + 1 < hlen
    <3>1. hpc' = "data" /\ hlen' = Len(dreq) /\ Len(hbuf') < hlen' /\ hbuf' \o d2h' = dreq \o x
      BY <1>1, <1>3, <1>4, <2>1 DEF MovesOn
    <3>2. QED BY <1>4, <3>1 DEF Reading, x, Checks
  <2>2. CASE ~(Len(hbuf) + 1 < hlen)
    <3>1. Len(hbuf) + 1 = Len(dreq)
      BY <1>1, <1>2, <2>2
    <3>2. hpc' = "hi" /\ hbuf' = dreq /\ d2h' = x
      BY <1>3, <1>4, <2>2, <3>1 DEF MovesOn
    <3>3. QED BY <1>4, <3>2 DEF Reading, x, Checks
  <2>3. QED BY <2>1, <2>2
<1>6. OnItsWay'
  BY <1>1, <1>4, <1>5 DEF OnItsWay, Keeps, history
<1>7. QED BY <1>4, <1>6 DEF Exchange

LEMMA HostHiStep ==
    ASSUME Sound, Exchange, HostHi
    PROVE  Exchange' /\ Keeps
<1>1. OnItsWay /\ hbuf = dreq /\ d2h = Checks(dreq)
  BY DEF Exchange, AtRest, ToSend, OnItsWay, Accepted, Awaiting, Received, Settled, Reading, Replying, HostHi
<1>2. Head(d2h) = Check(dreq) \div 256 /\ Tail(d2h) = <<Check(dreq) % 256>>
  BY <1>1, SoundTypes, ChecksType DEF OnItsWay
<1>3. /\ hhi' = Head(d2h) /\ d2h' = Tail(d2h) /\ hpc' = "lo" /\ hbuf' = hbuf /\ Keeps
      /\ UNCHANGED <<dreq, dpc, h2d>>
  BY DEF HostHi, dvars, Keeps
<1>4. Reading(dreq)'
  BY <1>1, <1>2, <1>3 DEF Reading
<1>5. OnItsWay'
  BY <1>1, <1>3, <1>4 DEF OnItsWay, Keeps, history
<1>6. QED BY <1>3, <1>5 DEF Exchange

LEMMA HostLoStep ==
    ASSUME Sound, Exchange, HostLo
    PROVE  Exchange' /\ (Keeps \/ Serves)
<1>1. OnItsWay /\ hbuf = dreq /\ hhi = Check(dreq) \div 256 /\ d2h = <<Check(dreq) % 256>>
  BY DEF Exchange, AtRest, ToSend, OnItsWay, Accepted, Awaiting, Received, Settled, Reading, Replying, HostLo
<1>2. /\ dreq \in Payload /\ h2d \in Seq(Byte) /\ <<>> \in Seq(Byte) /\ <<ACK>> \in Seq(Byte)
      /\ Zeros(Trail) \in Seq(Byte) /\ Trail \in Nat /\ dreq = asked[Len(asked)]
  BY <1>1, SoundTypes DEF OnItsWay
<1>3. hhi * 256 + Head(d2h) = Check(hbuf) /\ Tail(d2h) = <<>>
  <2>1. Head(d2h) = Check(dreq) % 256 /\ Tail(d2h) = <<>>
    BY <1>1
  <2>2. QED BY <1>1, <1>2, <2>1, ChecksType
<1>4. UNCHANGED <<dreq, dpc, hbuf, asked, answers>>
  BY DEF HostLo, dvars
<1>5. CASE ChecksumDefined
  <2>1. /\ d2h' = <<>> /\ h2d' = h2d \o <<ACK>> \o Zeros(Trail) /\ hpc' = "handle"
        /\ handled' = Append(handled, [data |-> hbuf, during |-> Len(asked)])
    BY <1>3, <1>5 DEF HostLo
  <2>2. Padded(h2d', <<ACK>> \o Zeros(Trail))
    <3>1. Padded(h2d, <<>>)
      BY <1>1 DEF OnItsWay
    <3>2. <<ACK>> \o Zeros(Trail) \in Seq(Byte)
      BY <1>2, ConcatProperties
    <3>3. <<>> \o (<<ACK>> \o Zeros(Trail)) = <<ACK>> \o Zeros(Trail)
      BY <3>2, ConcatEmptySeq
    <3>4. h2d' = h2d \o (<<ACK>> \o Zeros(Trail))
      BY <1>2, <2>1, ConcatAssociative
    <3>5. QED BY <1>2, <3>1, <3>2, <3>3, <3>4, PaddedThen
  <2>3. Replying(dreq, Zeros(Trail))'
    <3>1. Padded(Zeros(Trail), <<>>)
      BY <1>2, PaddedSelf
    <3>2. QED BY <1>1, <1>4, <2>1, <3>1 DEF Replying, Padded, Zeros
  <2>4. Serves
    BY <1>1, <1>2, <1>4, <2>1 DEF Serves, OnItsWay
  <2>5. Len(handled') = Len(asked')
    <3>1. handled \in Seq([data : Seq(Byte), during : Nat])
      BY DEF Sound, TypeOK
    <3>2. [data |-> hbuf, during |-> Len(asked)] \in [data : Seq(Byte), during : Nat]
      BY SoundTypes
    <3>3. Len(handled') = Len(handled) + 1
      BY <2>1, <3>1, <3>2, AppendProperties
    <3>4. QED BY <1>1, <1>4, <3>3 DEF OnItsWay
  <2>6. Accepted'
    BY <1>1, <1>2, <1>4, <2>1, <2>2, <2>3, <2>5 DEF Accepted, OnItsWay
  <2>7. QED BY <2>4, <2>6 DEF Exchange
<1>6. CASE ~ChecksumDefined
  <2>1. hpc' = "stopped" /\ UNCHANGED <<h2d, handled>>
    BY <1>6 DEF HostLo
  <2>2. Reading(dreq)'
    BY <2>1 DEF Reading
  <2>3. OnItsWay'
    BY <1>1, <1>4, <2>1, <2>2 DEF OnItsWay
  <2>4. QED BY <1>4, <2>1, <2>3 DEF Exchange, Keeps, history
<1>7. QED BY <1>5, <1>6

LEMMA HandleStep ==
    ASSUME Sound, Exchange, HostHandle
    PROVE  Exchange' /\ Keeps
<1>1. /\ UNCHANGED <<dpc, dreq, dlen, dbuf, dhi, hbuf, d2h, h2d>> /\ Keeps /\ hpc = "handle"
  BY DEF HostHandle, dvars, Keeps
<1>2. UNCHANGED <<asked, handled, answers>>
  BY <1>1 DEF Keeps, history
<1>3. ASSUME NEW z, Settled(z) PROVE Settled(z)'
  BY <1>1, <1>3 DEF Settled, HostHandle
<1>4. ASSUME NEW z, Replying(dreq, z), dreq \in Request PROVE Replying(dreq, z)'
  <2>1. hbuf = dreq /\ Padded(z, <<>>)
    BY <1>1, <1>4 DEF Replying
  <2>2. CASE Reply[dreq] # NoReply
    <3>1. hout' = Reply[dreq] /\ hpc' = "send"
      BY <1>4, <2>1, <2>2 DEF HostHandle
    <3>2. QED BY <1>1, <2>1, <2>2, <3>1 DEF Replying, Padded, Zeros
  <2>3. CASE Reply[dreq] = NoReply
    <3>1. hpc' = "len"
      BY <2>1, <2>3 DEF HostHandle
    <3>2. QED BY <1>1, <2>1, <2>3, <3>1 DEF Replying, Padded, Zeros
  <2>4. QED BY <2>2, <2>3
<1>5. ~Reading(dreq) /\ ~Received
  BY <1>1 DEF Reading, Received
<1>6. CASE AtRest
  <2>1. AtRest'
    BY <1>1, <1>2, <1>3, <1>6 DEF AtRest
  <2>2. QED BY <1>1, <2>1 DEF Exchange
<1>7. CASE ToSend
  <2>1. ToSend'
    BY <1>1, <1>2, <1>3, <1>7 DEF ToSend
  <2>2. QED BY <1>1, <2>1 DEF Exchange
<1>8. CASE OnItsWay
  <2>1. Settled(Frame(dreq))'
    <3>1. Settled(Frame(dreq))
      BY <1>5, <1>8 DEF OnItsWay
    <3>2. hpc' = "len" /\ d2h' = Frame(dreq)
      BY <1>1, <3>1 DEF Settled, HostHandle
    <3>3. QED BY <1>1, <3>2 DEF Settled
  <2>2. OnItsWay'
    BY <1>1, <1>2, <1>8, <2>1 DEF OnItsWay, Settled
  <2>3. QED BY <1>1, <2>2 DEF Exchange
<1>9. CASE Accepted
  <2>1. dreq \in Request
    BY <1>9, SoundTypes DEF Accepted
  <2>2. PICK s \in Seq(Byte) : Padded(h2d, <<ACK>> \o s) /\ Replying(dreq, s)
    BY <1>9 DEF Accepted
  <2>3. Replying(dreq, s)'
    BY <1>4, <2>1, <2>2
  <2>4. Accepted'
    BY <1>1, <1>2, <1>9, <2>2, <2>3 DEF Accepted
  <2>5. QED BY <1>1, <2>4 DEF Exchange
<1>10. CASE Awaiting
  <2>1. dreq \in Request
    BY <1>10, SoundTypes DEF Awaiting
  <2>2. Replying(dreq, h2d)'
    <3>1. Replying(dreq, h2d)
      BY <1>10 DEF Awaiting
    <3>2. hbuf = dreq /\ Padded(h2d, <<>>)
      BY <1>1, <3>1 DEF Replying
    <3>3. hout' = Reply[dreq] /\ hpc' = "send"
      BY <1>10, <2>1, <3>2 DEF HostHandle, Awaiting
    <3>4. QED BY <1>1, <1>10, <3>2, <3>3 DEF Replying, Awaiting
  <2>3. Awaiting'
    BY <1>1, <1>2, <1>10, <2>2 DEF Awaiting
  <2>4. QED BY <1>1, <2>3 DEF Exchange
<1>11. QED BY <1>5, <1>6, <1>7, <1>8, <1>9, <1>10 DEF Exchange

LEMMA ReplyStep ==
    ASSUME Sound, Exchange, HostSend
    PROVE  Exchange' /\ Keeps
<1> DEFINE m == Reply[dreq]
           y == Frame(m) \o Zeros(Trail)
           z == Zeros(Pad) \o y
<1>1. hpc = "send"
  BY DEF HostSend
<1>2. Accepted \/ Awaiting
  BY <1>1 DEF Exchange, AtRest, ToSend, OnItsWay, Accepted, Awaiting, Received, Settled, Reading, Replying
<1>3. hout = m /\ m # NoReply
  BY <1>1, <1>2 DEF Accepted, Awaiting, Replying
<1>4. /\ m \in Payload /\ h2d \in Seq(Byte) /\ <<>> \in Seq(Byte) /\ <<ACK>> \in Seq(Byte)
      /\ Zeros(Trail) \in Seq(Byte) /\ Zeros(Pad) \in Seq(Byte) /\ Pad \in Nat
  BY <1>2, SoundTypes DEF Accepted, Awaiting
<1>5. Frame(m) \in Seq(Byte) /\ y \in Seq(Byte) /\ z \in Seq(Byte)
  BY <1>4, FrameParts, ConcatProperties
<1>6. h2d' = h2d \o z
  <2>1. h2d' = ((h2d \o Zeros(Pad)) \o Frame(m)) \o Zeros(Trail)
    BY <1>3 DEF HostSend
  <2>2. ((h2d \o Zeros(Pad)) \o Frame(m)) \o Zeros(Trail) = (h2d \o Zeros(Pad)) \o y
    <3> HIDE DEF m
    <3>1. h2d \o Zeros(Pad) \in Seq(Byte)
      BY <1>4, ConcatProperties
    <3>2. QED BY <1>4, <1>5, <3>1, ConcatAssociative
  <2>3. (h2d \o Zeros(Pad)) \o y = h2d \o z
    <3> HIDE DEF m, y
    <3>1. QED BY <1>4, <1>5, ConcatAssociative
  <2>4. QED BY <2>1, <2>2, <2>3
<1>7. UNCHANGED <<dpc, dreq, hout, d2h>> /\ hpc' = "status" /\ Keeps
  BY DEF HostSend, dvars, Keeps
<1>8. UNCHANGED <<asked, handled, answers>>
  BY <1>7 DEF Keeps, history
<1>9. ASSUME NEW s \in Seq(Byte), Replying(dreq, s) PROVE Replying(dreq, s \o z)'
  <2>1. Padded(s, <<>>)
    BY <1>1, <1>9 DEF Replying
  <2>2. Padded(s \o z, y)
    BY <1>4, <1>5, <2>1, PaddedTwice
  <2>3. QED BY <1>3, <1>7, <2>2 DEF Replying
<1>10. CASE Accepted
  <2>1. PICK s \in Seq(Byte) : Padded(h2d, <<ACK>> \o s) /\ Replying(dreq, s)
    BY <1>10 DEF Accepted
  <2>2. Replying(dreq, s \o z)' /\ s \o z \in Seq(Byte)
    BY <1>5, <1>9, <2>1, ConcatProperties
  <2>3. Padded(h2d', <<ACK>> \o (s \o z))
    <3>1. <<ACK>> \o s \in Seq(Byte) /\ (<<ACK>> \o s) \o z = <<ACK>> \o (s \o z)
      <4> HIDE DEF m, y, z
      <4>1. <<ACK>> \o s \in Seq(Byte)
        BY <1>4, ConcatProperties
      <4>2. (<<ACK>> \o s) \o z = <<ACK>> \o (s \o z)
        BY <1>4, <1>5, ConcatAssociative
      <4>3. QED BY <4>1, <4>2
    <3>2. Padded(h2d \o z, (<<ACK>> \o s) \o z)
      BY <1>4, <1>5, <2>1, <3>1, PaddedThen
    <3>3. QED BY <1>6, <3>1, <3>2
  <2>4. Accepted'
    BY <1>7, <1>8, <1>10, <2>2, <2>3 DEF Accepted
  <2>5. QED BY <1>7, <2>4 DEF Exchange
<1>11. CASE Awaiting
  <2>1. Replying(dreq, h2d)
    BY <1>11 DEF Awaiting
  <2>2. Padded(h2d', y)
    BY <1>1, <1>4, <1>5, <1>6, <2>1, PaddedTwice DEF Replying
  <2>3. Replying(dreq, h2d)'
    BY <1>3, <1>7, <2>2 DEF Replying
  <2>4. Awaiting'
    BY <1>7, <1>8, <1>11, <2>3 DEF Awaiting
  <2>5. QED BY <1>7, <2>4 DEF Exchange
<1>12. QED BY <1>2, <1>10, <1>11

LEMMA HostStatusStep ==
    ASSUME Sound, Exchange, HostStatus
    PROVE  Exchange' /\ Keeps
<1>1. hpc = "status" /\ d2h # <<>>
  BY DEF HostStatus
<1>2. AtRest \/ ToSend \/ (OnItsWay /\ Settled(Frame(dreq)))
  BY <1>1 DEF Exchange, OnItsWay, Accepted, Awaiting, Received, Reading
<1>3. UNCHANGED <<dpc, dreq, hbuf, h2d>> /\ Keeps
  BY DEF HostStatus, dvars, Keeps
<1>4. UNCHANGED <<asked, handled, answers>>
  BY <1>3 DEF Keeps, history
<1>5. ASSUME NEW x \in Seq(Byte), Settled(x) PROVE hpc' = "len" /\ d2h' = x
  <2>1. d2h = <<ACK>> \o x
    BY <1>1, <1>5 DEF Settled
  <2>2. <<ACK>> \in Seq(Byte) /\ <<ACK>> # <<>> /\ Head(<<ACK>>) = ACK /\ Tail(<<ACK>>) = <<>>
    BY SoundTypes
  <2>3. Head(d2h) = ACK /\ Tail(d2h) = x
    BY <2>1, <2>2, ConcatHead, ConcatEmptySeq
  <2>4. QED BY <2>3 DEF HostStatus
<1>6. <<>> \in Seq(Byte) /\ (dpc # "idle" => Frame(dreq) \in Seq(Byte))
  BY SoundTypes, FrameParts
<1>7. CASE AtRest
  <2>1. AtRest'
    BY <1>3, <1>4, <1>5, <1>6, <1>7 DEF AtRest, Settled
  <2>2. QED BY <1>3, <2>1 DEF Exchange
<1>8. CASE ToSend
  <2>1. ToSend'
    BY <1>3, <1>4, <1>5, <1>6, <1>8 DEF ToSend, Settled
  <2>2. QED BY <1>3, <2>1 DEF Exchange
<1>9. CASE OnItsWay /\ Settled(Frame(dreq))
  <2>1. hpc' = "len" /\ d2h' = Frame(dreq)
    BY <1>5, <1>6, <1>9 DEF OnItsWay
  <2>2. OnItsWay'
    BY <1>3, <1>4, <1>9, <2>1 DEF OnItsWay, Settled
  <2>3. QED BY <1>3, <2>2 DEF Exchange
<1>10. QED BY <1>2, <1>7, <1>8, <1>9

-----------------------------------------------------------------------------
(* The fault-free link keeps its order                                     *)

LEMMA ExchangeStep ==
    ASSUME Sound, FaultFree, FaultFree', Exchange, [Next]_vars
    PROVE  Exchange' /\ Event
<1>1. CASE Device
  <2>1. CASE \E r \in Request : DevAsk(r)
    BY <2>1, AskStep DEF Event
  <2>2. CASE DevSend
    BY <2>2, SendStep DEF Event
  <2>3. CASE DevStatus
    BY <2>3, StatusStep DEF Event
  <2>4. CASE DevLen
    BY <2>4, LenStep DEF Event
  <2>5. CASE DevData
    BY <2>5, DataStep DEF Event
  <2>6. CASE DevHi
    BY <2>6, HiStep DEF Event
  <2>7. CASE DevLo
    BY <2>7, LoStep DEF Event
  <2>8. QED BY <1>1, <2>1, <2>2, <2>3, <2>4, <2>5, <2>6, <2>7 DEF Device
<1>2. CASE Host
  <2>1. CASE HostLen
    BY <2>1, HostLenStep DEF Event
  <2>2. CASE HostData
    BY <2>2, HostDataStep DEF Event
  <2>3. CASE HostHi
    BY <2>3, HostHiStep DEF Event
  <2>4. CASE HostLo
    BY <2>4, HostLoStep DEF Event
  <2>5. CASE HostHandle
    BY <2>5, HandleStep DEF Event
  <2>6. CASE HostSend
    BY <2>6, ReplyStep DEF Event
  <2>7. CASE HostStatus
    BY <2>7, HostStatusStep DEF Event
  <2>8. QED BY <1>2, <2>1, <2>2, <2>3, <2>4, <2>5, <2>6, <2>7 DEF Host
<1>3. CASE Line
  BY <1>3 DEF Line, GarbleD2H, GarbleH2D, LoseD2H, LoseH2D, FaultFree
<1>4. CASE UNCHANGED vars
  <2>1. Keeps
    BY <1>4 DEF vars, Keeps
  <2>2. /\ UNCHANGED <<dpc, dreq, dlen, dbuf, dhi, hpc, hlen, hbuf, hhi, hout, d2h, h2d>>
        /\ UNCHANGED <<asked, handled, answers>>
    BY <1>4 DEF vars, dvars, hvars, history
  <2>3. Exchange'
    <3>1. CASE AtRest
      BY <2>2, <3>1 DEF Exchange, AtRest, Settled
    <3>2. CASE ToSend
      BY <2>2, <3>2 DEF Exchange, ToSend, Settled
    <3>3. CASE OnItsWay
      <4>1. Settled(Frame(dreq)) => Settled(Frame(dreq))'
        BY <2>2 DEF Settled
      <4>2. Reading(dreq) => Reading(dreq)'
        BY <2>2 DEF Reading
      <4>3. OnItsWay'
        BY <2>2, <3>3, <4>1, <4>2 DEF OnItsWay
      <4>4. QED BY <4>3 DEF Exchange
    <3>4. CASE Accepted
      <4>1. PICK s \in Seq(Byte) : Padded(h2d, <<ACK>> \o s) /\ Replying(dreq, s)
        BY <3>4 DEF Accepted
      <4>2. Replying(dreq, s)'
        BY <2>2, <4>1 DEF Replying
      <4>3. Accepted'
        BY <2>2, <3>4, <4>1, <4>2 DEF Accepted
      <4>4. QED BY <4>3 DEF Exchange
    <3>5. CASE Awaiting
      <4>1. Replying(dreq, h2d)'
        BY <2>2, <3>5 DEF Awaiting, Replying
      <4>2. Awaiting'
        BY <2>2, <3>5, <4>1 DEF Awaiting
      <4>3. QED BY <4>2 DEF Exchange
    <3>6. CASE Received
      <4>1. Arriving(Reply[dreq])'
        BY <2>2, <3>6 DEF Received, Arriving
      <4>2. Received'
        BY <2>2, <3>6, <4>1 DEF Received
      <4>3. QED BY <4>2 DEF Exchange
    <3>7. QED BY <3>1, <3>2, <3>3, <3>4, <3>5, <3>6 DEF Exchange
  <2>4. QED BY <2>1, <2>3 DEF Event
<1>5. QED BY <1>1, <1>2, <1>3, <1>4 DEF Next

\* Faults are counted and never forgotten.
LEMMA FaultsStay ==
    ASSUME TypeOK, [Next]_vars, FaultFree'
    PROVE  FaultFree
<1>1. garbled \in Nat /\ lost \in Nat /\ late \in Nat
  BY BoundsAssumption DEF TypeOK
<1>2. /\ garbled' = garbled \/ garbled' = garbled + 1
      /\ lost' = lost \/ lost' = lost + 1
      /\ late' = late \/ late' = late + 1
  <2>1. CASE Device
    BY <2>1 DEF Device, DevAsk, DevSend, DevStatus, DevLen, DevData, DevHi, DevLo, DevReads, faults
  <2>2. CASE Host
    BY <2>2 DEF Host, HostLen, HostData, HostHi, HostLo, HostHandle, HostSend, HostStatus, faults
  <2>3. CASE Line
    BY <2>3 DEF Line, GarbleD2H, GarbleH2D, LoseD2H, LoseH2D
  <2>4. CASE UNCHANGED vars
    BY <2>4 DEF vars, faults
  <2>5. QED BY <2>1, <2>2, <2>3, <2>4 DEF Next
<1>3. QED BY <1>1, <1>2 DEF FaultFree

LEMMA InOrderStep ==
    ASSUME Sound, InOrder, Event
    PROVE  InOrder'
<1>1. /\ asked \in Seq(Request) /\ handled \in Seq([data : Seq(Byte), during : Nat])
      /\ answers \in Seq(Seq(Byte))
      /\ Len(asked) \in Nat /\ Len(handled) \in Nat /\ Len(answers) \in Nat
  BY SoundTypes DEF Sound, TypeOK
<1>2. /\ \A i \in 1..Len(handled) : handled[i].data = asked[i] /\ handled[i].during = i
      /\ \A i \in 1..Len(answers) : answers[i] = Reply[asked[i]]
  BY DEF InOrder
<1>3. CASE Keeps
  BY <1>2, <1>3 DEF Keeps, history, InOrder
<1>4. CASE Asks
  <2>1. PICK r \in Request : asked' = Append(asked, r)
    BY <1>4 DEF Asks
  <2>2. \A i \in 1..Len(asked) : asked'[i] = asked[i]
    BY <1>1, <2>1, AppendProperties
  <2>3. Len(handled) = Len(asked) /\ Len(answers) = Len(asked) /\ handled' = handled /\ answers' = answers
    BY <1>4 DEF Asks
  <2>4. QED BY <1>2, <2>2, <2>3 DEF InOrder
<1>5. CASE Serves
  <2> DEFINE h == [data |-> asked[Len(asked)], during |-> Len(asked)]
  <2>1. Len(handled) + 1 = Len(asked) /\ handled' = Append(handled, h) /\ asked' = asked /\ answers' = answers
    BY <1>5 DEF Serves
  <2>2. h \in [data : Seq(Byte), during : Nat]
    <3>1. asked[Len(asked)] \in Request
      BY <1>1, <2>1, ElementOfSeq
    <3>2. QED BY <1>1, <3>1, RequestAssumption
  <2>3. h.data = asked[Len(handled) + 1] /\ h.during = Len(handled) + 1
    BY <2>1
  <2> HIDE DEF h
  <2>4. /\ Len(handled') = Len(handled) + 1 /\ handled'[Len(handled) + 1] = h
        /\ \A i \in 1..Len(handled) : handled'[i] = handled[i]
    BY <1>1, <2>1, <2>2, AppendProperties
  <2>5. ASSUME NEW i \in 1..Len(handled) + 1
        PROVE  handled'[i].data = asked[i] /\ handled'[i].during = i
    <3>1. CASE i = Len(handled) + 1
      BY <2>3, <2>4, <3>1
    <3>2. CASE i \in 1..Len(handled)
      BY <1>2, <2>4, <3>2
    <3>3. QED BY <1>1, <3>1, <3>2
  <2>6. QED BY <1>2, <2>1, <2>4, <2>5 DEF InOrder
<1>6. CASE Returns
  <2> DEFINE a == Reply[asked[Len(asked)]]
  <2>1. /\ Len(answers) + 1 = Len(asked) /\ answers' = Append(answers, a)
        /\ asked' = asked /\ handled' = handled
    BY <1>6 DEF Returns
  <2>2. a \in Seq(Byte)
    <3>1. asked[Len(asked)] \in Request
      BY <1>1, <2>1, ElementOfSeq
    <3>2. QED BY <3>1, ReplyAssumption
  <2>3. a = Reply[asked[Len(answers) + 1]]
    BY <2>1
  <2> HIDE DEF a
  <2>4. /\ Len(answers') = Len(answers) + 1 /\ answers'[Len(answers) + 1] = a
        /\ \A i \in 1..Len(answers) : answers'[i] = answers[i]
    BY <1>1, <2>1, <2>2, AppendProperties
  <2>5. ASSUME NEW i \in 1..Len(answers) + 1 PROVE answers'[i] = Reply[asked[i]]
    <3>1. CASE i = Len(answers) + 1
      BY <2>3, <2>4, <3>1
    <3>2. CASE i \in 1..Len(answers)
      BY <1>2, <2>4, <3>2
    <3>3. QED BY <1>1, <3>1, <3>2
  <2>6. QED BY <1>2, <2>1, <2>4, <2>5 DEF InOrder
<1>7. QED BY <1>3, <1>4, <1>5, <1>6 DEF Event

\* Each step of the link is a step of HostRpc, or none.
LEMMA EventIsRpc ==
    ASSUME Sound, Event
    PROVE  [Rpc!Next]_(Rpc!vars)
<1>1. /\ asked \in Seq(Request) /\ handled \in Seq([data : Seq(Byte), during : Nat])
      /\ Len(asked) \in Nat /\ Len(handled) \in Nat /\ Len(answers) \in Nat
  BY SoundTypes DEF Sound, TypeOK
<1>2. Len(Served) = Len(handled)
  BY <1>1, LenProperties DEF Served
<1>3. CASE Keeps
  BY <1>3 DEF Keeps, history, Rpc!vars, Served
<1>4. CASE Asks
  <2>1. Served' = Served
    BY <1>4 DEF Asks, Served
  <2>2. Rpc!Ask
    BY <1>4, <2>1 DEF Asks, Rpc!Ask
  <2>3. QED BY <2>2 DEF Rpc!Next
<1>5. CASE Serves
  <2> DEFINE h == [data |-> asked[Len(asked)], during |-> Len(asked)]
  <2>1. /\ Len(handled) + 1 = Len(asked) /\ handled' = Append(handled, h)
        /\ asked' = asked /\ answers' = answers
    BY <1>5 DEF Serves
  <2>2. asked[Len(asked)] \in Seq(Byte)
    <3>1. asked[Len(asked)] \in Request
      BY <1>1, <2>1, ElementOfSeq
    <3>2. QED BY <3>1, RequestAssumption
  <2>3. h \in [data : Seq(Byte), during : Nat] /\ h.data = asked[Len(handled) + 1]
    BY <1>1, <2>1, <2>2
  <2> HIDE DEF h
  <2>4. /\ Len(handled') = Len(handled) + 1 /\ handled'[Len(handled) + 1] = h
        /\ \A i \in 1..Len(handled) : handled'[i] = handled[i]
    BY <1>1, <2>1, <2>3, AppendProperties
  <2>5. Served' = Append(Served, h.data)
    <3> DEFINE e(i) == handled[i].data
               f(i) == handled'[i].data
               n == Len(handled)
               s == [i \in 1..n |-> e(i)]
               t == [i \in 1..n + 1 |-> f(i)]
    <3>1. ASSUME NEW i \in 1..n PROVE e(i) \in Seq(Byte)
      <4>1. handled[i] \in [data : Seq(Byte), during : Nat]
        BY <1>1, ElementOfSeq
      <4>2. QED BY <4>1
    <3>2. \A i \in 1..n + 1 : f(i) = IF i = n + 1 THEN h.data ELSE e(i)
      BY <1>1, <2>4
    <3>3. h.data \in Seq(Byte)
      BY <2>3
    <3>4. ASSUME NEW i \in 1..n + 1 PROVE f(i) \in Seq(Byte)
      <4> HIDE DEF e, f
      <4>1. CASE i = n + 1
        BY <3>2, <3>3, <4>1
      <4>2. CASE i # n + 1
        <5>1. i \in 1..n
          BY <1>1, <4>2
        <5>2. e(i) \in Seq(Byte)
          BY <3>1, <5>1
        <5>3. QED BY <3>2, <4>2, <5>2
      <4>3. QED BY <4>1, <4>2
    <3> HIDE DEF e, f
    <3>5. s \in Seq(Seq(Byte)) /\ Len(s) = n
      BY <1>1, <3>1, IsASeq, LenProperties
    <3>6. t \in Seq(Seq(Byte)) /\ Len(t) = n + 1
      <4>1. n + 1 \in Nat
        BY <1>1
      <4>2. QED BY <3>4, <4>1, IsASeq, LenProperties
    <3>7. /\ Append(s, h.data) \in Seq(Seq(Byte)) /\ Len(Append(s, h.data)) = n + 1
          /\ \A i \in 1..n : Append(s, h.data)[i] = s[i]
          /\ Append(s, h.data)[n + 1] = h.data
      BY <3>3, <3>5, AppendProperties
    <3>8. \A i \in 1..n + 1 : t[i] = Append(s, h.data)[i]
      BY <1>1, <3>2, <3>7
    <3>9. t = Append(s, h.data)
      BY <3>6, <3>7, <3>8, SeqEqual
    <3>10. Served = s /\ Served' = t
      BY <2>4 DEF Served, e, f
    <3>11. QED BY <3>9, <3>10
  <2>6. Rpc!Serve
    BY <1>1, <1>2, <2>1, <2>3, <2>5 DEF Rpc!Serve
  <2>7. QED BY <2>6 DEF Rpc!Next
<1>6. CASE Returns
  <2>1. Served' = Served
    BY <1>6 DEF Returns, Served
  <2>2. Rpc!Answer
    BY <1>1, <1>2, <1>6, <2>1 DEF Returns, Rpc!Answer
  <2>3. QED BY <2>2 DEF Rpc!Next
<1>7. QED BY <1>3, <1>4, <1>5, <1>6 DEF Event

-----------------------------------------------------------------------------
(* Theorems about the fault-free link                                      *)

\* As long as no byte is garbled, lost or late, the bytes under way are those
\* of one exchange, and what was handled and answered is in order.
InExchange == FaultFree => Exchange /\ InOrder

LEMMA InitExchange == Init => InExchange
<1>1. SUFFICES ASSUME Init PROVE Exchange /\ InOrder
  BY DEF InExchange
<1>2. Padded(<<>>, <<>>)
  BY PaddedSelf, EmptySeq
<1>3. AtRest
  BY <1>1, <1>2 DEF Init, AtRest, Settled
<1>4. InOrder
  BY <1>1, EmptySeq DEF Init, InOrder
<1>5. QED BY <1>3, <1>4 DEF Exchange

THEOREM ExchangeKept ==
    ASSUME RepliesFit
    PROVE  Spec => []InExchange
<1>1. TypeOK /\ SendersHold /\ OneOutstanding /\ InExchange /\ [Next]_vars => InExchange'
  <2>1. SUFFICES ASSUME TypeOK, SendersHold, OneOutstanding, InExchange, [Next]_vars, FaultFree'
                 PROVE  Exchange' /\ InOrder'
    BY DEF InExchange
  <2>2. Sound
    BY <2>1, RepliesFit DEF Sound
  <2>3. FaultFree /\ Exchange /\ InOrder
    BY <2>1, FaultsStay DEF InExchange
  <2>4. QED BY <2>1, <2>2, <2>3, ExchangeStep, InOrderStep
<1>2. QED
  BY <1>1, InitExchange, TypeCorrect, CallsInStep, PTL DEF Spec

\* The fault-free link is the remote procedure call of HostRpc: as long as no
\* byte is garbled, lost or late, for any requests, any padding, any checksum
\* and either kind of read, every request is handled exactly once, in order, and
\* what host_receive_frame returns is the reply to the request just sent.  The
\* replies must fit the receive buffer: the device refuses a longer one for ever.
THEOREM LinkIsRpc ==
    ASSUME RepliesFit
    PROVE  Spec /\ []FaultFree => ExactlyOnce
<1>1. Init => Rpc!Init
  <2>1. [i \in 1..0 |-> handled[i].data] = <<>>
    OBVIOUS
  <2>2. ASSUME Init PROVE Served = <<>>
    <3>1. handled = <<>> /\ Len(handled) = 0
      BY <2>2, EmptySeq DEF Init
    <3>2. QED BY <2>1, <3>1 DEF Served
  <2>3. QED BY <2>2 DEF Init, Rpc!Init
<1>2. TypeOK /\ SendersHold /\ OneOutstanding /\ InExchange /\ FaultFree /\ FaultFree' /\ [Next]_vars
         => [Rpc!Next]_(Rpc!vars)
  BY RepliesFit, ExchangeStep, EventIsRpc DEF Sound, InExchange
<1>3. Spec => []InExchange
  BY RepliesFit, ExchangeKept
<1>4. QED
  BY <1>1, <1>2, <1>3, TypeCorrect, CallsInStep, PTL DEF Spec, ExactlyOnce, Rpc!Spec

\* The instance of the run: where no fault is possible, no hypothesis on the
\* behaviour is left.
THEOREM NoFaultsIsRpc ==
    ASSUME RepliesFit, MaxFault = 0
    PROVE  Spec => ExactlyOnce
<1>1. Init => FaultFree
  BY DEF Init, FaultFree
<1>2. FaultFree /\ [Next]_vars => FaultFree'
  <2>1. SUFFICES ASSUME FaultFree, [Next]_vars PROVE UNCHANGED faults
    BY DEF FaultFree, faults
  <2>2. ~MoreFaults
    BY <2>1, MaxFault = 0 DEF FaultFree, MoreFaults
  <2>3. CASE Device
    BY <2>2, <2>3 DEF Device, DevAsk, DevSend, DevStatus, DevLen, DevData, DevHi, DevLo, DevReads, faults
  <2>4. CASE Host
    BY <2>4 DEF Host, HostLen, HostData, HostHi, HostLo, HostHandle, HostSend, HostStatus
  <2>5. CASE Line
    BY <2>2, <2>5 DEF Line, GarbleD2H, GarbleH2D, LoseD2H, LoseH2D
  <2>6. CASE UNCHANGED vars
    BY <2>6 DEF vars
  <2>7. QED BY <2>1, <2>3, <2>4, <2>5, <2>6 DEF Next
<1>3. Spec => []FaultFree
  BY <1>1, <1>2, PTL DEF Spec
<1>4. Spec /\ []FaultFree => ExactlyOnce
  BY RepliesFit, LinkIsRpc
<1>5. QED BY <1>3, <1>4, PTL

\* Nothing but padding holds nothing else.
LEMMA PaddedEmpty ==
    ASSUME NEW x \in Seq(Byte), Padded(<<>>, x)
    PROVE  x = <<>>
<1>1. PICK k \in 0..Len(<<>>) : <<>> = Zeros(k) \o x
  BY DEF Padded
<1>2. k \in Nat
  BY <1>1, EmptySeq
<1>3. Zeros(k) \in Seq(Byte)
  BY <1>2, ZerosType
<1>4. Len(x) = 0
  <2>1. Len(Zeros(k) \o x) = Len(Zeros(k)) + Len(x) /\ Len(Zeros(k)) \in Nat /\ Len(x) \in Nat
    BY <1>3, ConcatProperties, LenProperties
  <2>2. Len(Zeros(k) \o x) = 0
    BY <1>1, EmptySeq
  <2>3. QED BY <2>1, <2>2
<1>5. QED BY <1>4, EmptySeq

\* In an exchange there is always a byte under way to one who waits.
LEMMA NobodyHangs ==
    ASSUME Sound, Exchange, DeviceWaits, HostWaits
    PROVE  FALSE
<1>1. /\ d2h = <<>> /\ h2d = <<>> /\ dpc \in {"status", "len", "data", "hi", "lo"}
      /\ hpc \in {"len", "data", "hi", "lo", "status"}
  BY DEF DeviceWaits, HostWaits
<1>2. /\ dreq \in Payload /\ Reply[dreq] \in Payload /\ <<>> \in Seq(Byte)
      /\ <<ACK>> \in Seq(Byte) /\ <<ACK>> # <<>> /\ Zeros(Trail) \in Seq(Byte)
  BY <1>1, SoundTypes
<1>3. ASSUME NEW x \in Seq(Byte) PROVE <<ACK>> \o x # <<>> /\ <<ACK>> \o x \in Seq(Byte)
  BY <1>2, ConcatHead, ConcatProperties
<1>4. ASSUME NEW m \in Payload
      PROVE  /\ Frame(m) # <<>> /\ Frame(m) \in Seq(Byte)
             /\ Frame(m) \o Zeros(Trail) # <<>> /\ Frame(m) \o Zeros(Trail) \in Seq(Byte)
             /\ Checks(m) # <<>> /\ Checks(m) \in Seq(Byte)
             /\ Checks(m) \o Zeros(Trail) # <<>> /\ Checks(m) \o Zeros(Trail) \in Seq(Byte)
             /\ <<Check(m) % 256>> \o Zeros(Trail) # <<>>
             /\ m \in Seq(Byte)
  <2>1. Frame(m) # <<>> /\ Frame(m) \in Seq(Byte) /\ m \in Seq(Byte)
    BY <1>2, FrameParts, PayloadType
  <2>2. Checks(m) # <<>> /\ Checks(m) \in Seq(Byte) /\ <<Check(m) % 256>> \in Seq(Byte)
    BY ChecksType
  <2>3. <<Check(m) % 256>> # <<>>
    OBVIOUS
  <2>4. QED BY <1>2, <2>1, <2>2, <2>3, ConcatHead, ConcatProperties
<1>5. OnItsWay \/ Accepted \/ Awaiting \/ Received
  BY <1>1 DEF Exchange, AtRest, ToSend
<1>6. CASE OnItsWay
  <2>1. ~Settled(Frame(dreq))
    BY <1>1, <1>2, <1>3, <1>4 DEF Settled
  <2>2. ~Reading(dreq)
    <3>1. ASSUME InPart(hbuf, d2h, dreq, Checks(dreq)) PROVE FALSE
      <4>1. MovesOn(hbuf, d2h, dreq, Checks(dreq))
        BY <1>2, <1>4, <3>1, ReadData, SoundTypes
      <4>2. QED BY <1>1, <4>1 DEF MovesOn
    <3>2. QED BY <1>1, <1>2, <1>4, <3>1 DEF Reading, InPart
  <2>3. QED BY <1>6, <2>1, <2>2 DEF OnItsWay
<1>7. CASE Accepted
  BY <1>1, <1>3, <1>7, PaddedEmpty DEF Accepted
<1>8. CASE Awaiting
  <2>1. Replying(dreq, <<>>) /\ Reply[dreq] # NoReply
    BY <1>1, <1>8 DEF Awaiting
  <2>2. Padded(<<>>, Frame(Reply[dreq]) \o Zeros(Trail))
    BY <1>1, <2>1 DEF Replying
  <2>3. QED BY <1>2, <1>4, <2>2, PaddedEmpty
<1>9. CASE Received
  <2> DEFINE m == Reply[dreq]
             x == Checks(m) \o Zeros(Trail)
  <2>1. Arriving(m)
    BY <1>9 DEF Received
  <2>2. CASE InPart(dbuf, h2d, m, x)
    <3>1. MovesOn(dbuf, h2d, m, x)
      BY <1>2, <1>4, <2>2, ReadData, SoundTypes
    <3>2. QED BY <1>1, <3>1 DEF MovesOn
  <2>3. h2d = x \/ h2d = <<Check(m) % 256>> \o Zeros(Trail) \/ InPart(dbuf, h2d, m, x)
    BY <2>1 DEF Arriving, InPart
  <2>4. QED BY <1>1, <1>2, <1>4, <2>2, <2>3
<1>10. QED BY <1>5, <1>6, <1>7, <1>8, <1>9

\* On a fault-free line, for every value of the constants: the two ends never
\* wait for each other, what the host handles is what the device sent, a
\* finished request has been handled, and each answer is that of its request.
\* The run link_faults checks the same four against one fault, on its instance.
THEOREM FaultFreeIsSafe ==
    ASSUME RepliesFit
    PROVE  Spec => [](FaultFree => NoHang /\ Integrity /\ Delivered /\ ReplyMatches)
<1>1. TypeOK /\ SendersHold /\ OneOutstanding /\ InExchange
         => (FaultFree => NoHang /\ Integrity /\ Delivered /\ ReplyMatches)
  <2>1. SUFFICES ASSUME TypeOK, SendersHold, OneOutstanding, Exchange, InOrder
                 PROVE  NoHang /\ Integrity /\ Delivered /\ ReplyMatches
    BY DEF InExchange
  <2>2. Sound
    BY <2>1, RepliesFit DEF Sound
  <2>3. NoHang
    BY <2>1, <2>2, NobodyHangs DEF NoHang
  <2>4. Len(asked) \in Nat /\ Len(handled) \in Nat /\ Len(answers) \in Nat
    BY <2>2, SoundTypes
  <2>5. Integrity
    <3>1. ASSUME NEW i \in 1..Len(handled)
          PROVE  \E j \in 1..handled[i].during : handled[i].data = asked[j]
      <4>1. handled[i].data = asked[i] /\ handled[i].during = i
        BY <2>1 DEF InOrder
      <4>2. i \in 1..handled[i].during
        BY <2>4, <4>1
      <4>3. QED BY <4>1, <4>2
    <3>2. QED BY <3>1 DEF Integrity
  <2>6. Delivered
    <3>1. Len(answers) <= Len(handled)
      <4>1. Len(handled) = Len(asked) \/ (Len(handled) + 1 = Len(asked) /\ dpc # "idle")
        BY <2>1 DEF Exchange, AtRest, ToSend, OnItsWay, Accepted, Awaiting, Received
      <4>2. Len(answers) = Len(asked) \/ Len(answers) + 1 = Len(asked)
        BY <2>1 DEF OneOutstanding
      <4>3. dpc # "idle" => Len(asked) = Len(answers) + 1
        BY <2>1 DEF OneOutstanding
      <4>4. QED BY <2>4, <4>1, <4>2, <4>3
    <3>2. ASSUME NEW i \in 1..Len(answers)
          PROVE  \E j \in 1..Len(handled) : handled[j].data = asked[i] /\ handled[j].during >= i
      <4>1. i \in 1..Len(handled) /\ i >= i
        BY <2>4, <3>1
      <4>2. handled[i].data = asked[i] /\ handled[i].during = i
        BY <2>1, <4>1 DEF InOrder
      <4>3. QED BY <4>1, <4>2
    <3>3. QED BY <3>2 DEF Delivered
  <2>7. ReplyMatches
    BY <2>1 DEF InOrder, ReplyMatches
  <2>8. QED BY <2>3, <2>5, <2>6, <2>7
<1>2. Spec => []InExchange
  BY RepliesFit, ExchangeKept
<1>3. QED
  BY <1>1, <1>2, TypeCorrect, CallsInStep, PTL

\* A driver that waits for each byte, as MAME's does, takes none for late.
OnTime == late = 0
LEMMA WaitingIsOnTime ==
    ASSUME Blocking
    PROVE  Spec => []OnTime
<1>1. Init => OnTime
  BY DEF Init, OnTime
<1>2. ASSUME TypeOK, OnTime, [Next]_vars PROVE OnTime'
  <2>1. ASSUME NEW b \in DevBytes, DevReads(b) PROVE OnTime'
    <3>1. h2d # <<>> /\ b = Head(h2d)
      BY Blocking DEF DevBytes
    <3>2. b # None
      <4>1. h2d \in Seq(Byte)
        BY <1>2 DEF TypeOK
      <4>2. Head(h2d) \in Byte
        BY <3>1, <4>1, HeadTailProperties
      <4>3. None \notin Byte
        BY DEF Byte, None
      <4>4. b \in Byte
        BY <3>1, <4>2
      <4>5. QED BY <4>3, <4>4
    <3>3. QED BY <1>2, <2>1, <3>2 DEF DevReads, OnTime
  <2>2. CASE Device
    BY <1>2, <2>1, <2>2
       DEF Device, DevAsk, DevSend, DevStatus, DevLen, DevData, DevHi, DevLo, faults, OnTime
  <2>3. CASE Host
    BY <1>2, <2>3
       DEF Host, HostLen, HostData, HostHi, HostLo, HostHandle, HostSend, HostStatus, faults, OnTime
  <2>4. CASE Line
    BY <1>2, <2>4 DEF Line, GarbleD2H, GarbleH2D, LoseD2H, LoseH2D, OnTime
  <2>5. CASE UNCHANGED vars
    BY <1>2, <2>5 DEF vars, faults, OnTime
  <2>6. QED BY <1>2, <2>2, <2>3, <2>4, <2>5 DEF Next
<1>3. QED BY <1>1, <1>2, TypeCorrect, PTL DEF Spec

\* With a driver that waits for each byte the two ends never wait for each other
\* unless a byte was garbled or lost, whatever the requests, the checksum and the
\* padding are and however slow the line is.
THEOREM WaitingNeverHangs ==
    ASSUME RepliesFit, Blocking
    PROVE  Spec => []NoHang
<1>1. OnTime /\ (FaultFree => NoHang /\ Integrity /\ Delivered /\ ReplyMatches) => NoHang
  BY DEF OnTime, FaultFree, NoHang
<1>2. Spec => []OnTime
  BY Blocking, WaitingIsOnTime
<1>3. Spec => [](FaultFree => NoHang /\ Integrity /\ Delivered /\ ReplyMatches)
  BY RepliesFit, FaultFreeIsSafe
<1>4. QED BY <1>1, <1>2, <1>3, PTL
-----------------------------------------------------------------------------
(* A line that is only slow                                                *)

\* No byte has been garbled or lost; any number may have come late.
Slow == garbled = 0 /\ lost = 0

\* No byte of a request's frame looks like an ACK, and no reply's length does.
FramesClear ==
    \A r \in Request :
        /\ \A i \in 1..Len(Frame(r)) : Frame(r)[i] # ACK
        /\ Len(Reply[r]) # ACK

\* Where the host's reader is: -1 waiting for the answer to a reply, 0 in front of a
\* frame, k >= 1 behind the first k bytes of the frame of r.
After(r) == IF Reply[r] = NoReply THEN 0 ELSE -1

\* The byte b takes the reader from place k, in the frame of r, to place l, of q.
Goes(r, k, b, q, l) ==
    \/ k = -1 /\ l = IF b = ACK THEN 0 ELSE -1
    \/ k = 0 /\ l = 1 /\ b = Frame(q)[1]
    \/ k >= 1 /\ k + 1 < Len(r) + 3 /\ l = k + 1 /\ q = r /\ b = Frame(r)[k + 1]
    \/ k >= 1 /\ k + 1 = Len(r) + 3 /\ l = After(r) /\ b = Frame(r)[k + 1]

\* The way of the reader through the bytes d, in frames of requests of A.
Places == -1..257
Ways(d)   == [1..Len(d) + 1 -> Places]
Owners(d, A) == [1..Len(d) + 1 -> A \cup {<<>>}]
Way(d, A, of, at) ==
    /\ at \in Ways(d) /\ of \in Owners(d, A)
    /\ \A i \in 1..Len(d) + 1 : at[i] >= 1 => of[i] \in A /\ at[i] <= Len(of[i]) + 2
    /\ \A i \in 1..Len(d) : Goes(of[i], at[i], d[i], of[i + 1], at[i + 1])

Asked == {asked[j] : j \in 1..Len(asked)}

\* A host with the program counter pc, and so on, is at place k of r.
HostIs(r, k, pc, len, buf, hi) ==
    \/ k = 0 /\ (pc = "len" \/ (pc = "handle" /\ Reply[buf] = NoReply))
    \/ k = -1 /\ (pc \in {"send", "status"} \/ (pc = "handle" /\ Reply[buf] # NoReply))
    \/ /\ pc = "data" /\ k \in 1..Len(r) /\ len = Len(r)
       /\ Len(buf) = k - 1 /\ \A i \in 1..k - 1 : buf[i] = r[i]
    \/ pc = "hi" /\ k = Len(r) + 1 /\ buf = r
    \/ pc = "lo" /\ k = Len(r) + 2 /\ buf = r /\ hi = Check(r) \div 256
HostAt(r, k)   == HostIs(r, k, hpc, hlen, hbuf, hhi)
HostNext(r, k) == HostIs(r, k, hpc', hlen', hbuf', hhi')

\* The host will be at place k when it has read what a device at pc, sending req, sent.
DevIs(k, pc, req) ==
    \/ pc = "idle" /\ k = 0
    \/ pc = "send" /\ (k = 0 \/ (k = -1 /\ Reply[req] # NoReply))
    \/ pc = "status" /\ k = After(req)
    \/ pc \in {"len", "data", "hi", "lo"} /\ k = -1 /\ Reply[req] # NoReply
DevAt(k)   == DevIs(k, dpc, dreq)
DevNext(k) == DevIs(k, dpc', dreq')

\* Request i of those asked is handled, or it will be on this way, or it is still to be sent.
HandledIn(i, ask, hand) == \E j \in 1..Len(hand) : hand[j].data = ask[i] /\ hand[j].during >= i
Handled(i)     == HandledIn(i, asked, handled)
HandledNext(i) == HandledIn(i, asked', handled')
OnWay(x, of, at) == \E n \in DOMAIN at : at[n] >= 1 /\ of[n] = x
AllCome(of, at, ask, hand, pc, n) ==
    \A i \in 1..Len(ask) :
        HandledIn(i, ask, hand) \/ OnWay(ask[i], of, at) \/ (i = Len(ask) /\ pc = "send" /\ at[n] = 0)

OnCourse ==
    \E of \in Owners(d2h, Asked), at \in Ways(d2h) :
        /\ Way(d2h, Asked, of, at)
        /\ HostAt(of[1], at[1]) /\ DevAt(at[Len(d2h) + 1])
        /\ AllCome(of, at, asked, handled, dpc, Len(d2h) + 1)

\* A device that waits has not sent an ACK last; and when the host has read it all, there
\* is something for the device to read.
NoAckLast == dpc \in {"status", "len"} /\ d2h # <<>> => d2h[Len(d2h)] # ACK
Brings(s, Q) == \E i \in 1..Len(s) : s[i] \notin Q
Answered ==
    d2h = <<>> =>
        /\ dpc = "status" /\ hpc \in {"len", "handle"} => Brings(h2d, {0})
        /\ dpc \in {"status", "len"} /\ hpc = "status" => Brings(h2d, {0, ACK})

\* Who sends has something to send.
Sends ==
    /\ hpc = "handle" => hbuf \in Request
    /\ hpc \in {"send", "status"} => Len(hout) \notin {0, ACK}

\* Requests handled were handled among those asked.
DuringIsPast == \A i \in 1..Len(handled) : handled[i].during \in 0..Len(asked)

InCourse ==
    /\ Integrity /\ DuringIsPast /\ Sends
    /\ hpc # "stopped" => OnCourse /\ NoAckLast /\ Answered

-----------------------------------------------------------------------------
(* Ways through the bytes                                                  *)

LEMMA ConcatOf ==
    ASSUME NEW s \in Seq(Byte), NEW t \in Seq(Byte), NEW u, u = s \o t
    PROVE  /\ u \in Seq(Byte) /\ Len(u) = Len(s) + Len(t) /\ Len(s) \in Nat /\ Len(t) \in Nat
           /\ \A i \in 1..Len(s) + Len(t) : u[i] = IF i <= Len(s) THEN s[i] ELSE t[i - Len(s)]
BY ConcatProperties, LenProperties

\* The bytes of a request's frame.
LEMMA FrameBytes ==
    ASSUME NEW r \in Request
    PROVE  /\ r \in Seq(Byte) /\ Len(r) \in 1..255 /\ Frame(r) \in Seq(Byte) /\ Len(Frame(r)) = Len(r) + 3
           /\ Frame(r)[1] = Len(r) /\ \A i \in 1..Len(r) : Frame(r)[i + 1] = r[i]
           /\ Frame(r)[Len(r) + 2] = Check(r) \div 256 /\ Frame(r)[Len(r) + 3] = Check(r) % 256
<1>1. r \in Payload /\ r \in Seq(Byte) /\ Len(r) \in 1..255
  BY RequestAssumption DEF Payload
<1>2. Checks(r) \in Seq(Byte) /\ <<Len(r)>> \in Seq(Byte) /\ Frame(r) \in Seq(Byte)
  BY <1>1, ChecksType, FrameParts, PayloadType, EmptySeq
<1> DEFINE x == <<Len(r)>>
           y == x \o r
           c == Checks(r)
<1>3. Len(x) = 1 /\ x[1] = Len(r) /\ Len(c) = 2 /\ c[1] = Check(r) \div 256 /\ c[2] = Check(r) % 256
  BY DEF Checks
<1> DEFINE n == Len(r)
           f == Frame(r)
<1>4. f = y \o c /\ x \in Seq(Byte) /\ c \in Seq(Byte) /\ y = x \o r
  BY <1>2 DEF Frame, Checks
<1> HIDE DEF x, c, y, f
<1>5. /\ y \in Seq(Byte) /\ Len(y) = Len(x) + Len(r)
      /\ \A i \in 1..Len(x) + Len(r) : y[i] = IF i <= Len(x) THEN x[i] ELSE r[i - Len(x)]
  BY <1>1, <1>4, ConcatOf
<1>6. /\ Len(f) = Len(y) + Len(c)
      /\ \A i \in 1..Len(y) + Len(c) : f[i] = IF i <= Len(y) THEN y[i] ELSE c[i - Len(y)]
  BY <1>4, <1>5, ConcatOf
<1>7. n \in 1..255 /\ Len(y) = n + 1 /\ Len(f) = n + 3
  <2>1. n \in 1..255 /\ Len(y) = 1 + n
    BY <1>1, <1>3, <1>5
  <2> HIDE DEF n
  <2>2. Len(y) = n + 1 /\ Len(f) = Len(y) + 2
    BY <1>3, <1>6, <2>1
  <2>3. QED BY <2>1, <2>2
<1>8. \A i \in 1..n + 1 : y[i] = IF i <= 1 THEN x[i] ELSE r[i - 1]
  BY <1>3, <1>5, <1>7
<1>9. \A i \in 1..n + 3 : f[i] = IF i <= n + 1 THEN y[i] ELSE c[i - (n + 1)]
  BY <1>3, <1>4, <1>6, <1>7
<1>10. f[1] = n
  BY <1>3, <1>7, <1>8, <1>9
<1>11. ASSUME NEW i \in 1..n PROVE f[i + 1] = r[i]
  <2>1. i + 1 \in 1..n + 1 /\ i + 1 \in 1..n + 3 /\ ~(i + 1 <= 1) /\ (i + 1) - 1 = i /\ i + 1 <= n + 1
    BY <1>7
  <2>2. QED BY <1>8, <1>9, <2>1
<1>12. f[n + 2] = c[1] /\ f[n + 3] = c[2]
  <2>1. n + 2 \in 1..n + 3 /\ n + 3 \in 1..n + 3 /\ ~(n + 2 <= n + 1) /\ ~(n + 3 <= n + 1)
        /\ (n + 2) - (n + 1) = 1 /\ (n + 3) - (n + 1) = 2
    BY <1>7
  <2>2. QED BY <1>9, <2>1
<1>13. QED BY <1>1, <1>2, <1>3, <1>7, <1>10, <1>11, <1>12 DEF f

LEMMA FrameLen ==
    ASSUME NEW r \in Request
    PROVE  /\ r \in Seq(Byte) /\ Frame(r) \in Seq(Byte)
           /\ Len(r) \in 1..255 /\ Len(Frame(r)) = Len(r) + 3 /\ Len(Frame(r)) \in 4..258
<1>1. r \in Seq(Byte) /\ Frame(r) \in Seq(Byte) /\ Len(r) \in 1..255 /\ Len(Frame(r)) = Len(r) + 3
  BY FrameBytes
<1> DEFINE n == Len(r)
           m == Len(Frame(r))
<1>2. n \in 1..255 /\ m = n + 3
  BY <1>1
<1> HIDE DEF n, m
<1>3. m \in 4..258
  BY <1>2
<1>4. QED BY <1>1, <1>3 DEF m

\* The way behind the first byte.
Later(f, n) == [i \in 1..n |-> f[i + 1]]

LEMMA WayTail ==
    ASSUME NEW A, NEW d \in Seq(Byte), d # <<>>,
           NEW of \in Owners(d, A), NEW at \in Ways(d), Way(d, A, of, at)
    PROVE  LET n == Len(d)
               p == Later(of, n)
               q == Later(at, n)
           IN  /\ n \in Nat \ {0} /\ Len(Tail(d)) + 1 = n
               /\ p \in Owners(Tail(d), A) /\ q \in Ways(Tail(d)) /\ Way(Tail(d), A, p, q)
               /\ DOMAIN q = 1..n
               /\ \A i \in 1..n : p[i] = of[i + 1] /\ q[i] = at[i + 1]
               /\ Goes(of[1], at[1], Head(d), p[1], q[1])
               /\ of[1] \in A \cup {<<>>} /\ p[1] \in A \cup {<<>>} /\ at[1] \in Places /\ q[1] \in Places
               /\ at[1] >= 1 => of[1] \in A /\ at[1] <= Len(of[1]) + 2
               /\ q[1] >= 1 => p[1] \in A /\ q[1] <= Len(p[1]) + 2
<1> DEFINE n == Len(d)
           e == Tail(d)
           p == Later(of, n)
           q == Later(at, n)
<1>1. n \in Nat \ {0} /\ Len(e) + 1 = n /\ Head(d) = d[1] /\ \A i \in 1..Len(e) : e[i] = d[i + 1]
  <2>1. Len(d) \in Nat /\ Len(d) # 0
    BY EmptySeq
  <2>2. Len(e) = Len(d) - 1 /\ \A i \in 1..Len(e) : e[i] = d[i + 1]
    BY HeadTailProperties
  <2>3. QED BY <2>1, <2>2
<1>2. DOMAIN at = 1..n + 1 /\ DOMAIN of = 1..n + 1 /\ at \in [1..n + 1 -> Places] /\ of \in [1..n + 1 -> A \cup {<<>>}]
  BY DEF Owners, Ways
<1>3. /\ \A i \in 1..n + 1 : at[i] >= 1 => of[i] \in A /\ at[i] <= Len(of[i]) + 2
      /\ \A i \in 1..n : Goes(of[i], at[i], d[i], of[i + 1], at[i + 1])
  BY DEF Way
<1> HIDE DEF n, e
<1>4. \A i \in 1..n : i + 1 \in 1..n + 1
  BY <1>1
<1>5. \A i \in 1..n : p[i] = of[i + 1] /\ q[i] = at[i + 1]
  BY DEF Later
<1>6. q \in [1..n -> Places] /\ p \in [1..n -> A \cup {<<>>}] /\ DOMAIN q = 1..n
  BY <1>2, <1>4 DEF Later
<1> HIDE DEF p, q
<1>7. \A i \in 1..n : q[i] >= 1 => p[i] \in A /\ q[i] <= Len(p[i]) + 2
  BY <1>3, <1>4, <1>5
<1>8. ASSUME NEW i \in 1..Len(e) PROVE Goes(p[i], q[i], e[i], p[i + 1], q[i + 1])
  <2>1. i \in 1..n /\ i + 1 \in 1..n
    BY <1>1
  <2>2. Goes(of[i + 1], at[i + 1], d[i + 1], of[(i + 1) + 1], at[(i + 1) + 1])
    BY <1>3, <2>1
  <2>3. QED BY <1>1, <1>5, <2>1, <2>2
<1>9. Way(e, A, p, q) /\ p \in Owners(e, A) /\ q \in Ways(e)
  BY <1>1, <1>6, <1>7, <1>8 DEF Way, Owners, Ways
<1>10. 1 \in 1..n /\ 1 \in 1..n + 1 /\ 1 + 1 = 2
  BY <1>1
<1>11. Goes(of[1], at[1], Head(d), p[1], q[1])
  BY <1>1, <1>3, <1>5, <1>10
<1>12. /\ of[1] \in A \cup {<<>>} /\ at[1] \in Places
       /\ p[1] \in A \cup {<<>>} /\ q[1] \in Places
       /\ at[1] >= 1 => of[1] \in A /\ at[1] <= Len(of[1]) + 2
  BY <1>2, <1>3, <1>6, <1>10
<1>13. q[1] >= 1 => p[1] \in A /\ q[1] <= Len(p[1]) + 2
  BY <1>7, <1>10
<1>14. QED BY <1>1, <1>5, <1>6, <1>9, <1>11, <1>12, <1>13 DEF n, e, p, q

\* Two ways one after the other, where the first ends between two frames.
Joined(f, g, n, m) == [i \in 1..n + m + 1 |-> IF i <= n THEN f[i] ELSE g[i - n]]

LEMMA WayJoin ==
    ASSUME NEW A, NEW d \in Seq(Byte), NEW e \in Seq(Byte),
           NEW of \in Owners(d, A), NEW at \in Ways(d), Way(d, A, of, at),
           NEW og \in Owners(e, A), NEW au \in Ways(e), Way(e, A, og, au),
           at[Len(d) + 1] = au[1], au[1] \in {0, -1}
    PROVE  LET n == Len(d)
               m == Len(e)
               p == Joined(of, og, n, m)
               q == Joined(at, au, n, m)
           IN  /\ n \in Nat /\ m \in Nat /\ d \o e \in Seq(Byte) /\ Len(d \o e) = n + m
               /\ p \in Owners(d \o e, A) /\ q \in Ways(d \o e) /\ Way(d \o e, A, p, q)
               /\ DOMAIN q = 1..n + m + 1
               /\ q[1] = at[1] /\ (at[1] >= 1 => p[1] = of[1])
               /\ \A i \in 1..n + 1 : at[i] >= 1 => p[i] = of[i] /\ q[i] = at[i]
               /\ \A i \in 1..m + 1 : n + i \in 1..n + m + 1 /\ p[n + i] = og[i] /\ q[n + i] = au[i]
<1> DEFINE n == Len(d)
           m == Len(e)
           de == d \o e
           p == Joined(of, og, n, m)
           q == Joined(at, au, n, m)
<1>1. /\ n \in Nat /\ m \in Nat /\ de \in Seq(Byte) /\ Len(de) = n + m
      /\ \A i \in 1..n + m : de[i] = IF i <= n THEN d[i] ELSE e[i - n]
  BY ConcatProperties, LenProperties
<1>2. /\ at \in [1..n + 1 -> Places] /\ of \in [1..n + 1 -> A \cup {<<>>}]
      /\ au \in [1..m + 1 -> Places] /\ og \in [1..m + 1 -> A \cup {<<>>}]
  BY DEF Owners, Ways
<1>3. /\ \A i \in 1..n + 1 : at[i] >= 1 => of[i] \in A /\ at[i] <= Len(of[i]) + 2
      /\ \A i \in 1..n : Goes(of[i], at[i], d[i], of[i + 1], at[i + 1])
      /\ \A i \in 1..m + 1 : au[i] >= 1 => og[i] \in A /\ au[i] <= Len(og[i]) + 2
      /\ \A i \in 1..m : Goes(og[i], au[i], e[i], og[i + 1], au[i + 1])
  BY DEF Way
<1>4. at[n + 1] = au[1] /\ au[1] \in {0, -1}
  OBVIOUS
<1> HIDE DEF n, m, de
<1>5. /\ DOMAIN p = 1..n + m + 1 /\ DOMAIN q = 1..n + m + 1
      /\ \A i \in 1..n + m + 1 : /\ p[i] = IF i <= n THEN of[i] ELSE og[i - n]
                                 /\ q[i] = IF i <= n THEN at[i] ELSE au[i - n]
  BY DEF Joined
<1>6. ASSUME NEW i \in 1..n + m + 1
      PROVE  \/ i \in 1..n /\ i \in 1..n + 1 /\ p[i] = of[i] /\ q[i] = at[i]
             \/ i - n \in 1..m + 1 /\ p[i] = og[i - n] /\ q[i] = au[i - n]
  BY <1>1, <1>5
<1>7. p \in [1..n + m + 1 -> A \cup {<<>>}] /\ q \in [1..n + m + 1 -> Places]
  <2>1. \A i \in 1..n + m + 1 : p[i] \in A \cup {<<>>} /\ q[i] \in Places
    BY <1>2, <1>6
  <2>2. p = [i \in 1..n + m + 1 |-> p[i]] /\ q = [i \in 1..n + m + 1 |-> q[i]]
    BY DEF Joined
  <2> HIDE DEF p, q
  <2>3. QED BY <2>1, <2>2
<1> HIDE DEF p, q
<1>8. \A i \in 1..m + 1 : n + i \in 1..n + m + 1 /\ p[n + i] = og[i] /\ q[n + i] = au[i]
  <2>1. ASSUME NEW i \in 1..m + 1 PROVE n + i \in 1..n + m + 1 /\ ~(n + i <= n) /\ (n + i) - n = i
    BY <1>1
  <2>2. QED BY <1>5, <2>1
<1>9. \A i \in 1..n + 1 : q[i] = at[i] /\ (at[i] >= 1 => p[i] = of[i])
  <2>1. ASSUME NEW i \in 1..n + 1 PROVE q[i] = at[i] /\ (at[i] >= 1 => p[i] = of[i])
    <3>1. CASE i <= n
      BY <1>1, <1>5, <3>1
    <3>2. CASE ~(i <= n)
      <4>1. i = n + 1 /\ 1 \in 1..m + 1
        BY <1>1, <3>2
      <4>2. q[i] = au[1]
        BY <1>8, <4>1
      <4>3. QED BY <1>4, <4>1, <4>2
    <3>3. QED BY <3>1, <3>2
  <2>2. QED BY <2>1
<1>10. \A i \in 1..n + m + 1 : q[i] >= 1 => p[i] \in A /\ q[i] <= Len(p[i]) + 2
  BY <1>3, <1>6
<1>11. ASSUME NEW i \in 1..n + m PROVE Goes(p[i], q[i], de[i], p[i + 1], q[i + 1])
  <2>1. CASE i < n
    <3>1. i \in 1..n /\ i + 1 \in 1..n /\ i + 1 \in 1..n + m + 1 /\ i <= n /\ i + 1 <= n /\ i \in 1..n + m + 1
      BY <1>1, <2>1
    <3>2. QED BY <1>1, <1>3, <1>5, <3>1
  <2>2. CASE i = n
    <3>1. i \in 1..n /\ i \in 1..n + 1 /\ i \in 1..n + m + 1 /\ i <= n /\ 1 \in 1..m + 1
      BY <1>1, <2>2
    <3>2. p[i] = of[i] /\ q[i] = at[i] /\ de[i] = d[i] /\ q[i + 1] = at[i + 1] /\ q[i + 1] \in {0, -1}
      BY <1>1, <1>4, <1>5, <1>8, <2>2, <3>1
    <3>3. Goes(of[i], at[i], d[i], of[i + 1], at[i + 1])
      BY <1>3, <3>1
    <3> DEFINE k == at[i]
               l == at[i + 1]
    <3>4. k \in Places /\ l \in {0, -1} /\ Goes(of[i], k, d[i], of[i + 1], l)
      BY <1>2, <3>1, <3>2, <3>3
    <3> HIDE DEF k, l
    <3>5. Goes(of[i], k, d[i], p[i + 1], l)
      BY <3>4 DEF Goes, Places
    <3>6. QED BY <3>2, <3>5 DEF k, l
  <2>3. CASE i > n
    <3>1. /\ i - n \in 1..m /\ i - n \in 1..m + 1 /\ (i - n) + 1 \in 1..m + 1 /\ ~(i <= n)
          /\ n + (i - n) = i /\ n + ((i - n) + 1) = i + 1
      BY <1>1, <2>3
    <3>2. p[i] = og[i - n] /\ q[i] = au[i - n] /\ p[i + 1] = og[(i - n) + 1] /\ q[i + 1] = au[(i - n) + 1]
      BY <1>8, <3>1
    <3>3. QED BY <1>1, <1>3, <3>1, <3>2
  <2>4. QED BY <1>1, <2>1, <2>2, <2>3
<1>12. p \in Owners(de, A) /\ q \in Ways(de) /\ Way(de, A, p, q)
  BY <1>1, <1>7, <1>10, <1>11 DEF Way, Owners, Ways
<1>13. 1 \in 1..n + 1
  BY <1>1
<1>14. QED BY <1>1, <1>5, <1>8, <1>9, <1>12, <1>13 DEF n, m, de, p, q

\* More requests have been asked.
LEMMA WayMore ==
    ASSUME NEW A, NEW B, A \subseteq B, NEW d \in Seq(Byte),
           NEW of \in Owners(d, A), NEW at \in Ways(d), Way(d, A, of, at)
    PROVE  of \in Owners(d, B) /\ Way(d, B, of, at)
BY DEF Owners, Way

\* A status byte.
LEMMA StatusWay ==
    ASSUME NEW A, NEW b \in Byte
    PROVE  LET og == [i \in 1..2 |-> <<>>]
               au == [i \in 1..2 |-> IF i = 1 \/ b # ACK THEN -1 ELSE 0]
           IN  /\ <<b>> \in Seq(Byte) /\ og \in Owners(<<b>>, A) /\ au \in Ways(<<b>>)
               /\ Way(<<b>>, A, og, au)
               /\ Len(<<b>>) = 1 /\ au[1] = -1 /\ au[2] = IF b = ACK THEN 0 ELSE -1
<1> DEFINE og == [i \in 1..2 |-> <<>>]
           au == [i \in 1..2 |-> IF i = 1 \/ b # ACK THEN -1 ELSE 0]
<1>1. <<b>> \in Seq(Byte) /\ Len(<<b>>) = 1 /\ <<b>>[1] = b /\ 1 + 1 = 2
  OBVIOUS
<1>2. au[1] = -1 /\ au[2] = IF b = ACK THEN 0 ELSE -1
  OBVIOUS
<1>3. og \in Owners(<<b>>, A) /\ au \in Ways(<<b>>) /\ \A i \in 1..2 : ~(au[i] >= 1)
  BY <1>1 DEF Owners, Ways, Places
<1> HIDE DEF og, au
<1>4. \A i \in 1..Len(<<b>>) : Goes(og[i], au[i], <<b>>[i], og[i + 1], au[i + 1])
  BY <1>1, <1>2 DEF Goes
<1>5. Way(<<b>>, A, og, au)
  BY <1>1, <1>3, <1>4 DEF Way
<1>6. QED BY <1>1, <1>2, <1>3, <1>5 DEF og, au

\* A frame that the host takes as the bytes that answer its reply.
LEMMA FrameIgnored ==
    ASSUME FramesClear, NEW A, NEW r \in Request
    PROVE  LET n  == Len(Frame(r))
               og == [i \in 1..n + 1 |-> <<>>]
               au == [i \in 1..n + 1 |-> -1]
           IN  og \in Owners(Frame(r), A) /\ au \in Ways(Frame(r)) /\ Way(Frame(r), A, og, au)
<1> DEFINE f == Frame(r)
           n == Len(f)
           og == [i \in 1..n + 1 |-> <<>>]
           au == [i \in 1..n + 1 |-> -1]
<1>1. n \in Nat /\ \A i \in 1..n : f[i] # ACK
  BY FrameLen DEF FramesClear
<1> HIDE DEF f
<1>2. og \in Owners(f, A) /\ au \in Ways(f)
  BY DEF Owners, Ways, Places
<1>3. ASSUME NEW i \in 1..n + 1 PROVE au[i] = -1
  OBVIOUS
<1> HIDE DEF og, au
<1>4. \A i \in 1..n : Goes(og[i], au[i], f[i], og[i + 1], au[i + 1])
  <2>1. ASSUME NEW i \in 1..n PROVE au[i] = -1 /\ au[i + 1] = -1 /\ f[i] # ACK
    BY <1>1, <1>3
  <2>2. QED BY <2>1 DEF Goes
<1>5. Way(f, A, og, au)
  BY <1>2, <1>3, <1>4 DEF Way
<1>6. QED BY <1>2, <1>5 DEF f, og, au

\* A frame that the host reads as one.
LEMMA FrameRead ==
    ASSUME NEW A, NEW r \in A, A \subseteq Request
    PROVE  LET n  == Len(Frame(r))
               og == [i \in 1..n + 1 |-> r]
               au == [i \in 1..n + 1 |-> IF i = n + 1 THEN After(r) ELSE i - 1]
           IN  /\ n \in 4..258 /\ og \in Owners(Frame(r), A) /\ au \in Ways(Frame(r))
               /\ Way(Frame(r), A, og, au)
               /\ au[1] = 0 /\ au[n + 1] = After(r) /\ au[2] = 1 /\ og[2] = r
<1> DEFINE f == Frame(r)
           n == Len(f)
           og == [i \in 1..n + 1 |-> r]
           au == [i \in 1..n + 1 |-> IF i = n + 1 THEN After(r) ELSE i - 1]
<1>1. n \in 4..258 /\ n = Len(r) + 3 /\ r \in Request
  BY FrameLen
<1>2. After(r) \in {0, -1}
  BY DEF After
<1> HIDE DEF f, n
<1>3. ASSUME NEW i \in 1..n + 1 PROVE og[i] = r /\ au[i] = IF i = n + 1 THEN After(r) ELSE i - 1
  OBVIOUS
<1>4. og \in [1..n + 1 -> A \cup {<<>>}] /\ au \in [1..n + 1 -> Places]
  <2>1. ASSUME NEW i \in 1..n + 1 PROVE (IF i = n + 1 THEN After(r) ELSE i - 1) \in Places
    <3>1. CASE i = n + 1
      BY <1>2, <3>1 DEF Places
    <3>2. CASE i # n + 1
      <4>1. \A x \in 4..258 : \A y \in 1..x + 1 : y # x + 1 => y \in 1..258
        OBVIOUS
      <4>2. i \in 1..258
        BY <1>1, <3>2, <4>1
      <4>3. i - 1 \in Places
        BY <4>2 DEF Places
      <4>4. QED BY <3>2, <4>3
    <3>3. QED BY <3>1, <3>2
  <2>2. QED BY <2>1
<1> HIDE DEF og, au
<1>5. \A i \in 1..n + 1 : au[i] >= 1 => og[i] \in A /\ au[i] <= Len(og[i]) + 2
  BY <1>1, <1>2, <1>3
<1>6. ASSUME NEW i \in 1..n PROVE Goes(og[i], au[i], f[i], og[i + 1], au[i + 1])
  <2>1. /\ og[i] = r /\ og[i + 1] = r /\ au[i] = i - 1
        /\ au[i + 1] = IF i = n THEN After(r) ELSE i
    BY <1>1, <1>3
  <2>2. CASE i = 1
    <3>1. au[i] = 0 /\ au[i + 1] = 1 /\ f[i] = Frame(r)[1]
      BY <1>1, <2>1, <2>2 DEF f
    <3>2. QED BY <2>1, <3>1 DEF Goes
  <2>3. CASE i > 1 /\ i < n
    <3>1. /\ i - 1 >= 1 /\ (i - 1) + 1 < Len(r) + 3 /\ i = (i - 1) + 1
          /\ au[i] = i - 1 /\ au[i + 1] = i /\ f[i] = Frame(r)[(i - 1) + 1]
      BY <1>1, <2>1, <2>3 DEF f
    <3>2. QED BY <2>1, <3>1 DEF Goes
  <2>4. CASE i > 1 /\ i = n
    <3>1. /\ i - 1 >= 1 /\ (i - 1) + 1 = Len(r) + 3
          /\ au[i] = i - 1 /\ au[i + 1] = After(r) /\ f[i] = Frame(r)[(i - 1) + 1]
      BY <1>1, <2>1, <2>4 DEF f
    <3>2. QED BY <2>1, <3>1 DEF Goes
  <2>5. QED BY <1>1, <2>2, <2>3, <2>4
<1>7. og \in Owners(f, A) /\ au \in Ways(f) /\ Way(f, A, og, au)
  BY <1>4, <1>5, <1>6 DEF Way, Owners, Ways, n
<1>8. au[1] = 0 /\ au[n + 1] = After(r) /\ au[2] = 1 /\ og[2] = r
  BY <1>1, <1>3
<1>9. QED BY <1>1, <1>7, <1>8 DEF f, n, og, au
-----------------------------------------------------------------------------
(* What the host does on a slow line                                       *)

\* The states the lemmas start from.
OnLine == TypeOK /\ SendersHold /\ OneOutstanding

LEMMA AskedAre ==
    ASSUME OnLine
    PROVE  /\ Asked \subseteq Request /\ Len(asked) \in Nat /\ d2h \in Seq(Byte) /\ h2d \in Seq(Byte)
           /\ \A i \in 1..Len(asked) : asked[i] \in Asked
           /\ dpc # "idle" => dreq \in Asked /\ dreq = asked[Len(asked)] /\ Len(asked) \in 1..Len(asked)
<1>1. asked \in Seq(Request) /\ answers \in Seq(Seq(Byte)) /\ d2h \in Seq(Byte) /\ h2d \in Seq(Byte)
  BY DEF OnLine, TypeOK
<1>2. Len(asked) \in Nat /\ Len(answers) \in Nat /\ \A i \in 1..Len(asked) : asked[i] \in Request
  BY <1>1
<1>3. dpc # "idle" => dreq = asked[Len(asked)] /\ Len(asked) \in 1..Len(asked)
  BY <1>2 DEF OnLine, OneOutstanding
<1>4. QED BY <1>1, <1>2, <1>3 DEF Asked

\* The way after a step.
LEMMA CourseNext ==
    ASSUME NEW e, NEW A, NEW n, NEW of \in Owners(e, A), NEW at \in Ways(e), Way(e, A, of, at),
           d2h' = e, Asked' = A, n = Len(e) + 1,
           HostNext(of[1], at[1]), DevNext(at[n]), AllCome(of, at, asked', handled', dpc', n)
    PROVE  OnCourse'
<1>1. of \in Owners(d2h', Asked') /\ at \in Ways(d2h') /\ Way(d2h', Asked', of, at)
  OBVIOUS
<1>2. HostIs(of[1], at[1], hpc', hlen', hbuf', hhi') /\ DevIs(at[Len(d2h') + 1], dpc', dreq')
  BY DEF HostNext, DevNext
<1>3. AllCome(of, at, asked', handled', dpc', Len(d2h') + 1)
  OBVIOUS
<1>4. QED BY <1>1, <1>2, <1>3 DEF OnCourse, HostAt, DevAt

\* The host's step moves it to the next place, and a request read to its end is handled.
KeepsHandled == \A i \in 1..Len(asked) : Handled(i) => HandledNext(i)
Follows ==
    \A r \in Asked \cup {<<>>}, k \in Places, q \in Asked \cup {<<>>}, l \in Places :
        /\ HostAt(r, k) /\ Goes(r, k, Head(d2h), q, l)
        /\ k >= 1 => r \in Asked /\ k <= Len(r) + 2
        /\ l >= 1 => q \in Asked /\ l <= Len(q) + 2
        => /\ HostNext(q, l)
           /\ k >= 1 => \/ l >= 1 /\ q = r
                        \/ \A i \in 1..Len(asked) : asked[i] = r => HandledNext(i)

LEMMA HostReads ==
    ASSUME OnLine, OnCourse, d2h # <<>>, d2h' = Tail(d2h), UNCHANGED <<dpc, dreq, asked>>,
           KeepsHandled, Follows
    PROVE  OnCourse'
<1>1. PICK of \in Owners(d2h, Asked), at \in Ways(d2h) :
          /\ Way(d2h, Asked, of, at) /\ HostAt(of[1], at[1]) /\ DevAt(at[Len(d2h) + 1])
          /\ AllCome(of, at, asked, handled, dpc, Len(d2h) + 1)
  BY DEF OnCourse
<1> DEFINE n == Len(d2h)
           p == Later(of, n)
           q == Later(at, n)
           e == Tail(d2h)
<1>2. d2h \in Seq(Byte) /\ Asked' = Asked
  BY AskedAre DEF Asked
<1>3. /\ n \in Nat \ {0} /\ Len(e) + 1 = n
      /\ p \in Owners(e, Asked) /\ q \in Ways(e) /\ Way(e, Asked, p, q) /\ DOMAIN q = 1..n
      /\ \A i \in 1..n : p[i] = of[i + 1] /\ q[i] = at[i + 1]
  BY <1>1, <1>2, WayTail
<1>4. /\ Goes(of[1], at[1], Head(d2h), p[1], q[1])
      /\ of[1] \in Asked \cup {<<>>} /\ p[1] \in Asked \cup {<<>>} /\ at[1] \in Places /\ q[1] \in Places
      /\ at[1] >= 1 => of[1] \in Asked /\ at[1] <= Len(of[1]) + 2
      /\ q[1] >= 1 => p[1] \in Asked /\ q[1] <= Len(p[1]) + 2
  BY <1>1, <1>2, WayTail
<1>5. DOMAIN at = 1..n + 1
  BY DEF Ways
<1>6. AllCome(of, at, asked, handled, dpc, n + 1) /\ DevAt(at[n + 1])
  BY <1>1
<1> HIDE DEF n, p, q, e
<1>7. /\ HostNext(p[1], q[1])
      /\ at[1] >= 1 => \/ q[1] >= 1 /\ p[1] = of[1]
                       \/ \A i \in 1..Len(asked) : asked[i] = of[1] => HandledNext(i)
  <2> DEFINE r == of[1]
             k == at[1]
             s == p[1]
             l == q[1]
  <2>1. /\ HostAt(r, k) /\ Goes(r, k, Head(d2h), s, l)
        /\ r \in Asked \cup {<<>>} /\ s \in Asked \cup {<<>>} /\ k \in Places /\ l \in Places
        /\ k >= 1 => r \in Asked /\ k <= Len(r) + 2
        /\ l >= 1 => s \in Asked /\ l <= Len(s) + 2
    BY <1>1, <1>4
  <2> HIDE DEF r, k, s, l
  <2>2. /\ HostNext(s, l)
        /\ k >= 1 => \/ l >= 1 /\ s = r
                     \/ \A i \in 1..Len(asked) : asked[i] = r => HandledNext(i)
    BY <2>1 DEF Follows
  <2>3. QED BY <2>2 DEF r, k, s, l
<1>8. q[n] = at[n + 1]
  BY <1>3
<1>9. DevNext(q[n])
  BY <1>6, <1>8 DEF DevAt, DevNext
<1>10. ASSUME NEW i \in 1..Len(asked)
       PROVE  \/ HandledNext(i) \/ OnWay(asked[i], p, q)
              \/ i = Len(asked) /\ dpc = "send" /\ q[n] = 0
  <2>1. CASE Handled(i)
    BY <2>1 DEF KeepsHandled
  <2>2. CASE OnWay(asked[i], of, at)
    <3>1. PICK j \in 1..n + 1 : at[j] >= 1 /\ of[j] = asked[i]
      BY <1>5, <2>2 DEF OnWay
    <3>2. CASE j = 1
      <4>1. 1 \in 1..n
        BY <1>3
      <4>2. HandledNext(i) \/ (q[1] >= 1 /\ p[1] = asked[i])
        BY <1>7, <3>1, <3>2
      <4>3. QED BY <1>3, <4>1, <4>2 DEF OnWay
    <3>3. CASE j # 1
      <4>1. j - 1 \in 1..n /\ (j - 1) + 1 = j
        BY <1>3, <3>3
      <4>2. q[j - 1] = at[j] /\ p[j - 1] = of[j]
        BY <1>3, <4>1
      <4>3. QED BY <1>3, <3>1, <4>1, <4>2 DEF OnWay
    <3>4. QED BY <3>2, <3>3
  <2>3. CASE i = Len(asked) /\ dpc = "send" /\ at[n + 1] = 0
    BY <1>8, <2>3
  <2>4. QED BY <1>6, <2>1, <2>2, <2>3 DEF AllCome, Handled
<1>11. n = Len(e) + 1 /\ d2h' = e
  BY <1>3 DEF e
<1>12. AllCome(p, q, asked', handled', dpc', n)
  <2>1. asked' = asked /\ dpc' = dpc
    OBVIOUS
  <2>2. QED BY <1>10, <2>1 DEF AllCome, HandledNext
<1>13. QED BY <1>2, <1>3, <1>7, <1>9, <1>11, <1>12, CourseNext

\* Steps of the host that add no request to those handled.
LEMMA HandledStays ==
    ASSUME UNCHANGED <<asked, handled>>
    PROVE  KeepsHandled
BY DEF KeepsHandled, Handled, HandledNext

LEMMA AfterIs == \A r : After(r) \in {0, -1}
BY DEF After

LEMMA SlowHostLen ==
    ASSUME OnLine, OnCourse, HostLen
    PROVE  OnCourse'
<1>1. /\ hpc = "len" /\ d2h # <<>> /\ d2h' = Tail(d2h) /\ hlen' = Head(d2h) /\ hbuf' = <<>>
      /\ hpc' = IF Head(d2h) = 0 THEN "hi" ELSE "data"
      /\ UNCHANGED <<dpc, dreq, asked, handled>>
  BY DEF HostLen, dvars, history
<1>2. SUFFICES ASSUME NEW r \in Asked \cup {<<>>}, NEW k \in Places, NEW q \in Asked \cup {<<>>}, NEW l \in Places,
                      HostAt(r, k), Goes(r, k, Head(d2h), q, l), l >= 1 => q \in Asked
               PROVE  HostNext(q, l) /\ ~(k >= 1)
  <2>1. Follows
    BY <1>2 DEF Follows
  <2>2. QED BY <1>1, <2>1, HandledStays, HostReads
<1>3. k = 0 /\ l = 1 /\ Head(d2h) = Frame(q)[1]
  BY <1>1, <1>2 DEF HostAt, HostNext, HostIs, Goes
<1>4. q \in Request /\ Len(q) \in 1..255 /\ Head(d2h) = Len(q)
  BY <1>2, <1>3, AskedAre, FrameBytes
<1>5. hpc' = "data" /\ hlen' = Len(q) /\ Len(hbuf') = 0
  <2> DEFINE n == Len(q)
  <2>1. n \in 1..255 /\ Head(d2h) = n
    BY <1>4
  <2> HIDE DEF n
  <2>2. Head(d2h) # 0 /\ Len(<<>>) = 0
    BY <2>1
  <2>3. QED BY <1>1, <1>4, <2>2
<1>6. l \in 1..Len(q) /\ l - 1 = 0 /\ \A i \in 1..l - 1 : hbuf'[i] = q[i]
  <2> DEFINE n == Len(q)
  <2>1. n \in 1..255 /\ l = 1
    BY <1>3, <1>4
  <2> HIDE DEF n
  <2>2. l \in 1..n /\ l - 1 = 0 /\ \A i \in 1..l - 1 : FALSE
    BY <2>1
  <2>3. QED BY <2>2 DEF n
<1>7. QED BY <1>3, <1>5, <1>6 DEF HostNext, HostIs

LEMMA SlowHostData ==
    ASSUME OnLine, OnCourse, HostData
    PROVE  OnCourse'
<1>1. /\ hpc = "data" /\ d2h # <<>> /\ d2h' = Tail(d2h) /\ hlen' = hlen /\ hbuf' = Append(hbuf, Head(d2h))
      /\ hpc' = IF Len(hbuf) + 1 < hlen THEN "data" ELSE "hi"
      /\ UNCHANGED <<dpc, dreq, asked, handled>>
  BY DEF HostData, dvars, history
<1>2. SUFFICES ASSUME NEW r \in Asked \cup {<<>>}, NEW k \in Places, NEW q \in Asked \cup {<<>>}, NEW l \in Places,
                      HostAt(r, k), Goes(r, k, Head(d2h), q, l), k >= 1 => r \in Asked
               PROVE  HostNext(q, l) /\ l >= 1 /\ q = r
  <2>1. Follows
    BY <1>2 DEF Follows
  <2>2. QED BY <1>1, <2>1, HandledStays, HostReads
<1>3. /\ k \in 1..Len(r) /\ hlen = Len(r) /\ Len(hbuf) = k - 1 /\ \A i \in 1..k - 1 : hbuf[i] = r[i]
  BY <1>1, <1>2 DEF HostAt, HostNext, HostIs
<1>4. r \in Asked /\ r \in Request
  BY <1>2, <1>3, AskedAre
<1>5. r \in Seq(Byte) /\ Len(r) \in 1..255 /\ Frame(r)[k + 1] = r[k] /\ k \in 1..255
  <2>1. r \in Seq(Byte) /\ Len(r) \in 1..255 /\ \A i \in 1..Len(r) : Frame(r)[i + 1] = r[i]
    BY <1>4, FrameBytes
  <2> DEFINE n == Len(r)
  <2>2. n \in 1..255 /\ k \in 1..n
    BY <1>3, <2>1
  <2> HIDE DEF n
  <2>3. k \in 1..255
    BY <2>2
  <2>4. QED BY <1>3, <2>1, <2>3
<1>6. l = k + 1 /\ q = r /\ Head(d2h) = r[k]
  BY <1>2, <1>5, <1>3 DEF Goes
<1>7. hbuf \in Seq(Byte) /\ Head(d2h) \in Byte
  BY <1>1, AskedAre, HeadTailProperties DEF OnLine, TypeOK
<1>8. /\ hbuf' \in Seq(Byte) /\ Len(hbuf') = k /\ hbuf'[k] = r[k] /\ \A i \in 1..k - 1 : hbuf'[i] = r[i]
  <2>1. /\ hbuf' \in Seq(Byte) /\ Len(hbuf') = Len(hbuf) + 1 /\ hbuf'[Len(hbuf) + 1] = r[k]
        /\ \A i \in 1..Len(hbuf) : hbuf'[i] = hbuf[i]
    BY <1>1, <1>6, <1>7, AppendProperties
  <2>2. Len(hbuf) = k - 1 /\ Len(hbuf) + 1 = k
    BY <1>3, <1>5
  <2>3. QED BY <1>3, <2>1, <2>2
<1>9. \A i \in 1..k : hbuf'[i] = r[i]
  <2>1. \A i \in 1..k : i = k \/ i \in 1..k - 1
    BY <1>5
  <2>2. QED BY <1>8, <2>1
<1>10. CASE k < Len(r)
  <2>1. hpc' = "data" /\ l \in 1..Len(r) /\ l - 1 = k
    BY <1>1, <1>3, <1>5, <1>6, <1>10
  <2>2. QED BY <1>1, <1>3, <1>6, <1>8, <1>9, <2>1 DEF HostAt, HostNext, HostIs
<1>11. CASE k = Len(r)
  <2>1. hpc' = "hi" /\ l = Len(r) + 1 /\ l >= 1
    BY <1>1, <1>3, <1>5, <1>6, <1>11
  <2>2. hbuf' = r
    BY <1>5, <1>8, <1>9, <1>11, SeqEqual
  <2>3. QED BY <1>6, <2>1, <2>2 DEF HostAt, HostNext, HostIs
<1>12. QED BY <1>3, <1>5, <1>10, <1>11

LEMMA SlowHostHi ==
    ASSUME OnLine, OnCourse, HostHi
    PROVE  OnCourse'
<1>1. /\ hpc = "hi" /\ d2h # <<>> /\ d2h' = Tail(d2h) /\ hbuf' = hbuf /\ hhi' = Head(d2h) /\ hpc' = "lo"
      /\ UNCHANGED <<dpc, dreq, asked, handled>>
  BY DEF HostHi, dvars, history
<1>2. SUFFICES ASSUME NEW r \in Asked \cup {<<>>}, NEW k \in Places, NEW q \in Asked \cup {<<>>}, NEW l \in Places,
                      HostAt(r, k), Goes(r, k, Head(d2h), q, l), k >= 1 => r \in Asked
               PROVE  HostNext(q, l) /\ l >= 1 /\ q = r
  <2>1. Follows
    BY <1>2 DEF Follows
  <2>2. QED BY <1>1, <2>1, HandledStays, HostReads
<1>3. k = Len(r) + 1 /\ hbuf = r
  BY <1>1, <1>2 DEF HostAt, HostNext, HostIs
<1>4. /\ r \in {<<>>} \cup Asked /\ Len(r) \in Nat /\ k >= 1
  <2>1. r \in Request \/ r = <<>>
    BY <1>2, AskedAre
  <2>2. Len(r) \in Nat
    BY <2>1, RequestAssumption
  <2>3. QED BY <1>2, <1>3, <2>2
<1>5. r \in Request
  BY <1>2, <1>4, AskedAre
<1>6. Len(r) \in 1..255 /\ Frame(r)[Len(r) + 2] = Check(r) \div 256
  BY <1>5, FrameBytes
<1>7. (k + 1) < Len(r) + 3 /\ k + 1 = Len(r) + 2
  BY <1>3, <1>6
<1>8. l = Len(r) + 2 /\ q = r /\ Head(d2h) = Check(r) \div 256
  BY <1>2, <1>4, <1>6, <1>7 DEF Goes
<1>9. QED BY <1>1, <1>3, <1>6, <1>8 DEF HostAt, HostNext, HostIs

\* The frame of a request the device made is taken and acknowledged.
LEMMA SlowHostLo ==
    ASSUME OnLine, OnCourse, HostLo, hpc' # "stopped"
    PROVE  /\ OnCourse' /\ hbuf \in Asked
           /\ hpc' = "handle" /\ h2d' = h2d \o <<ACK>> \o Zeros(Trail)
           /\ handled' = Append(handled, [data |-> hbuf, during |-> Len(asked)])
<1>1. /\ hpc = "lo" /\ d2h # <<>> /\ d2h' = Tail(d2h) /\ hbuf' = hbuf
      /\ UNCHANGED <<dpc, dreq, asked>>
  BY DEF HostLo, dvars
<1>2. ASSUME NEW r \in Asked \cup {<<>>}, NEW k \in Places, NEW q, NEW l,
             HostAt(r, k), Goes(r, k, Head(d2h), q, l), k >= 1 => r \in Asked
      PROVE  hbuf = r /\ r \in Asked /\ l = After(r) /\ hhi * 256 + Head(d2h) = Check(hbuf)
  <2>1. k = Len(r) + 2 /\ hbuf = r /\ hhi = Check(r) \div 256
    BY <1>1, <1>2 DEF HostAt, HostNext, HostIs
  <2>2. Len(r) \in Nat
    <3>1. r \in Request \/ r = <<>>
      BY <1>2, AskedAre
    <3>2. QED BY <3>1, RequestAssumption
  <2>3. r \in Asked /\ r \in Request
    BY <1>2, <2>1, <2>2, AskedAre
  <2>4. Len(r) \in 1..255 /\ Frame(r)[Len(r) + 3] = Check(r) % 256
    BY <2>3, FrameBytes
  <2>5. k >= 1 /\ k + 1 = Len(r) + 3 /\ ~(k + 1 < Len(r) + 3)
    BY <2>1, <2>4
  <2>6. l = After(r) /\ Head(d2h) = Check(r) % 256
    BY <1>2, <2>1, <2>4, <2>5 DEF Goes
  <2>7. (Check(r) \div 256) * 256 + (Check(r) % 256) = Check(r)
    BY <2>3, ChecksType DEF Payload
  <2>8. QED BY <2>1, <2>3, <2>6, <2>7
<1>3. hbuf \in Asked /\ hhi * 256 + Head(d2h) = Check(hbuf)
  <2>1. PICK of \in Owners(d2h, Asked), at \in Ways(d2h) :
            Way(d2h, Asked, of, at) /\ HostAt(of[1], at[1])
    BY DEF OnCourse
  <2>2. d2h \in Seq(Byte)
    BY AskedAre
  <2> DEFINE p == Later(of, Len(d2h))[1]
             q == Later(at, Len(d2h))[1]
  <2>3. /\ Goes(of[1], at[1], Head(d2h), p, q)
        /\ of[1] \in Asked \cup {<<>>} /\ at[1] \in Places
        /\ at[1] >= 1 => of[1] \in Asked
    BY <1>1, <2>1, <2>2, WayTail
  <2> HIDE DEF p, q
  <2>4. QED BY <1>2, <2>1, <2>3
<1>4. /\ hpc' = "handle" /\ h2d' = h2d \o <<ACK>> \o Zeros(Trail)
      /\ handled' = Append(handled, [data |-> hbuf, during |-> Len(asked)])
  BY <1>3 DEF HostLo
<1> DEFINE new == [data |-> hbuf, during |-> Len(asked)]
<1>5. /\ Len(handled) \in Nat /\ Len(handled') = Len(handled) + 1 /\ handled'[Len(handled) + 1] = new
      /\ \A j \in 1..Len(handled) : handled'[j] = handled[j]
  <2>1. handled \in Seq([data : Seq(Byte), during : Nat]) /\ hbuf \in Seq(Byte)
    BY DEF OnLine, TypeOK
  <2>2. new \in [data : Seq(Byte), during : Nat]
    BY <2>1, AskedAre
  <2> HIDE DEF new
  <2>3. handled' = Append(handled, new)
    BY <1>4 DEF new
  <2>4. QED BY <2>1, <2>2, <2>3, AppendProperties
<1>6. KeepsHandled
  <2>1. ASSUME NEW i \in 1..Len(asked), Handled(i) PROVE HandledNext(i)
    <3>1. PICK j \in 1..Len(handled) : handled[j].data = asked[i] /\ handled[j].during >= i
      BY <2>1 DEF Handled, HandledIn
    <3>2. j \in 1..Len(handled') /\ handled'[j] = handled[j]
      BY <1>5
    <3>3. QED BY <1>1, <3>1, <3>2 DEF HandledNext, HandledIn
  <2>2. QED BY <2>1 DEF KeepsHandled
<1>7. ASSUME NEW i \in 1..Len(asked), asked[i] = hbuf PROVE HandledNext(i)
  <2>1. Len(handled) + 1 \in 1..Len(handled') /\ new.data = hbuf /\ new.during = Len(asked) /\ Len(asked) >= i
    BY <1>5, AskedAre
  <2>2. handled'[Len(handled) + 1].data = asked'[i] /\ handled'[Len(handled) + 1].during >= i
    BY <1>1, <1>5, <1>7, <2>1
  <2>3. QED BY <2>1, <2>2 DEF HandledNext, HandledIn
<1>8. Follows
  <2>1. SUFFICES ASSUME NEW r \in Asked \cup {<<>>}, NEW k \in Places, NEW q \in Asked \cup {<<>>},
                        NEW l \in Places, HostAt(r, k), Goes(r, k, Head(d2h), q, l), k >= 1 => r \in Asked
                 PROVE  HostNext(q, l) /\ \A i \in 1..Len(asked) : asked[i] = r => HandledNext(i)
    BY <2>1 DEF Follows
  <2>2. hbuf = r /\ l = After(r)
    BY <1>2, <2>1
  <2>3. HostNext(q, l)
    BY <1>1, <1>4, <2>2 DEF HostAt, HostNext, HostIs, After
  <2>4. QED BY <1>7, <2>2, <2>3
<1>9. OnCourse'
  BY <1>1, <1>6, <1>8, HostReads
<1>10. QED BY <1>3, <1>4, <1>9

LEMMA SlowHostStatus ==
    ASSUME OnLine, OnCourse, HostStatus
    PROVE  OnCourse'
<1>1. /\ hpc = "status" /\ d2h # <<>> /\ d2h' = Tail(d2h) /\ hpc' = IF Head(d2h) = ACK THEN "len" ELSE "send"
      /\ UNCHANGED <<dpc, dreq, asked, handled>>
  BY DEF HostStatus, dvars, history
<1>2. Follows
  <2>1. SUFFICES ASSUME NEW r \in Asked \cup {<<>>}, NEW k \in Places, NEW q \in Asked \cup {<<>>},
                        NEW l \in Places, HostAt(r, k), Goes(r, k, Head(d2h), q, l)
                 PROVE  HostNext(q, l) /\ ~(k >= 1)
    BY <2>1 DEF Follows
  <2>2. k = -1
    BY <1>1, <2>1 DEF HostAt, HostNext, HostIs
  <2>3. l = IF Head(d2h) = ACK THEN 0 ELSE -1
    BY <2>1, <2>2 DEF Goes
  <2>4. QED BY <1>1, <2>2, <2>3 DEF HostAt, HostNext, HostIs
<1>3. QED BY <1>1, <1>2, HandledStays, HostReads

\* Steps of the host that read nothing.
LEMMA SlowHostSends ==
    ASSUME OnLine, OnCourse, Sends, HostHandle \/ HostSend
    PROVE  OnCourse'
<1>1. UNCHANGED <<dpc, dreq, asked, handled, d2h>>
  BY DEF HostHandle, HostSend, dvars, history
<1>2. ASSUME NEW r \in Asked \cup {<<>>}, NEW k, HostAt(r, k) PROVE HostNext(r, k)
  <2>1. CASE HostHandle
    BY <1>2, <2>1 DEF HostHandle, HostAt, HostNext, HostIs, Sends
  <2>2. CASE HostSend
    BY <1>2, <2>2 DEF HostSend, HostAt, HostNext, HostIs
  <2>3. QED BY <2>1, <2>2
<1>3. PICK of \in Owners(d2h, Asked), at \in Ways(d2h) :
          /\ Way(d2h, Asked, of, at) /\ HostAt(of[1], at[1]) /\ DevAt(at[Len(d2h) + 1])
          /\ AllCome(of, at, asked, handled, dpc, Len(d2h) + 1)
  BY DEF OnCourse
<1>4. of[1] \in Asked \cup {<<>>}
  <2>1. 1 \in 1..Len(d2h) + 1
    BY AskedAre, LenProperties
  <2>2. QED BY <2>1 DEF Owners
<1>5. HostNext(of[1], at[1])
  BY <1>2, <1>3, <1>4
<1>6. Asked' = Asked
  BY <1>1 DEF Asked
<1>7. DevNext(at[Len(d2h) + 1]) /\ AllCome(of, at, asked', handled', dpc', Len(d2h) + 1)
  BY <1>1, <1>3 DEF DevAt, DevNext
<1>8. QED BY <1>1, <1>3, <1>5, <1>6, <1>7, CourseNext
-----------------------------------------------------------------------------
(* What the device does on a slow line                                     *)

\* A step that sends nothing.
LEMMA DevSilent ==
    ASSUME OnLine, OnCourse, UNCHANGED <<hvars, d2h, dreq, asked, handled>>, dpc # "send",
           \A k \in Places : DevAt(k) => DevNext(k)
    PROVE  OnCourse'
<1>1. PICK of \in Owners(d2h, Asked), at \in Ways(d2h) :
          /\ Way(d2h, Asked, of, at) /\ HostAt(of[1], at[1]) /\ DevAt(at[Len(d2h) + 1])
          /\ AllCome(of, at, asked, handled, dpc, Len(d2h) + 1)
  BY DEF OnCourse
<1>2. at[Len(d2h) + 1] \in Places
  <2>1. Len(d2h) + 1 \in 1..Len(d2h) + 1
    BY AskedAre, LenProperties
  <2>2. QED BY <2>1 DEF Ways
<1>3. DevNext(at[Len(d2h) + 1])
  BY <1>1, <1>2
<1>4. HostNext(of[1], at[1])
  BY <1>1 DEF HostAt, HostNext, hvars
<1>5. Asked' = Asked
  BY DEF Asked
<1>6. AllCome(of, at, asked', handled', dpc', Len(d2h) + 1)
  <2>1. \A i \in 1..Len(asked) : HandledIn(i, asked, handled) \/ OnWay(asked[i], of, at)
    BY <1>1 DEF AllCome
  <2>2. QED BY <2>1 DEF AllCome
<1>7. QED BY <1>1, <1>3, <1>4, <1>5, <1>6, CourseNext

\* A step that sends e: the host's way goes on through e.
Extends(e) ==
    \A k \in {0, -1} : DevAt(k) =>
        \E og \in Owners(e, Asked), au \in Ways(e) :
            /\ Way(e, Asked, og, au)
            /\ au[1] = k /\ DevNext(au[Len(e) + 1])
            /\ dpc = "send" /\ k = 0 => \E j \in 1..Len(e) + 1 : au[j] >= 1 /\ og[j] = dreq

LEMMA DevSends ==
    ASSUME OnLine, OnCourse, NEW e \in Seq(Byte), d2h' = d2h \o e,
           UNCHANGED <<hvars, asked, handled>>, Extends(e)
    PROVE  OnCourse'
<1>1. PICK of \in Owners(d2h, Asked), at \in Ways(d2h) :
          /\ Way(d2h, Asked, of, at) /\ HostAt(of[1], at[1]) /\ DevAt(at[Len(d2h) + 1])
          /\ AllCome(of, at, asked, handled, dpc, Len(d2h) + 1)
  BY DEF OnCourse
<1> DEFINE n == Len(d2h)
           m == Len(e)
           k == at[n + 1]
<1>2. d2h \in Seq(Byte) /\ Asked' = Asked /\ DOMAIN at = 1..n + 1
  BY AskedAre DEF Asked, Ways
<1>3. k \in {0, -1} /\ DevAt(k)
  BY <1>1, AfterIs DEF DevAt, DevIs
<1>4. PICK og \in Owners(e, Asked), au \in Ways(e) :
          /\ Way(e, Asked, og, au)
          /\ au[1] = k /\ DevNext(au[m + 1])
          /\ dpc = "send" /\ k = 0 => \E j \in 1..m + 1 : au[j] >= 1 /\ og[j] = dreq
  BY <1>3 DEF Extends
<1> DEFINE p == Joined(of, og, n, m)
           q == Joined(at, au, n, m)
           de == d2h \o e
<1>5. /\ n \in Nat /\ m \in Nat /\ Len(de) = n + m
      /\ p \in Owners(de, Asked) /\ q \in Ways(de) /\ Way(de, Asked, p, q)
      /\ DOMAIN q = 1..n + m + 1
      /\ q[1] = at[1] /\ (at[1] >= 1 => p[1] = of[1])
      /\ \A i \in 1..n + 1 : at[i] >= 1 => p[i] = of[i] /\ q[i] = at[i]
      /\ \A i \in 1..m + 1 : n + i \in 1..n + m + 1 /\ p[n + i] = og[i] /\ q[n + i] = au[i]
  BY <1>1, <1>2, <1>3, <1>4, WayJoin
<1>6. (at[1] >= 1 \/ at[1] \in {0, -1}) /\ of[1] \in Request \cup {<<>>}
  <2>1. 1 \in 1..n + 1
    BY <1>5
  <2>2. at[1] \in Places /\ of[1] \in Asked \cup {<<>>}
    BY <2>1 DEF Ways, Owners
  <2>3. \A x \in Places : x >= 1 \/ x \in {0, -1}
    BY DEF Places
  <2>4. Asked \subseteq Request
    BY AskedAre
  <2>5. QED BY <2>2, <2>3, <2>4
<1>7. AllCome(of, at, asked, handled, dpc, n + 1)
  BY <1>1
<1> HIDE DEF n, m, k, p, q, de
<1>8. HostNext(p[1], q[1])
  <2>1. HostNext(of[1], at[1])
    BY <1>1 DEF HostAt, HostNext, hvars
  <2>2. CASE at[1] >= 1
    BY <1>5, <2>1, <2>2
  <2>3. CASE at[1] \in {0, -1}
    <3>1. Len(of[1]) \in Nat
      BY <1>6, RequestAssumption
    <3>2. q[1] = at[1]
      BY <1>5
    <3>3. ASSUME NEW r, NEW x, HostNext(r, x), Len(r) \in Nat, x \in {0, -1}, NEW g PROVE HostNext(g, x)
      BY <3>3 DEF HostNext, HostIs
    <3>4. QED BY <2>1, <2>3, <3>1, <3>2, <3>3
  <2>4. QED BY <1>6, <2>2, <2>3
<1>9. q[n + m + 1] = au[m + 1] /\ n + m + 1 = Len(de) + 1
  <2>1. m + 1 \in 1..m + 1 /\ n + (m + 1) = n + m + 1
    BY <1>5
  <2>2. q[n + (m + 1)] = au[m + 1]
    BY <1>5, <2>1
  <2>3. QED BY <1>5, <2>1, <2>2
<1>10. DevNext(q[n + m + 1])
  BY <1>4, <1>9
<1>11. ASSUME NEW i \in 1..Len(asked) PROVE Handled(i) \/ OnWay(asked[i], p, q)
  <2>1. CASE OnWay(asked[i], of, at)
    <3>1. PICK j \in 1..n + 1 : at[j] >= 1 /\ of[j] = asked[i]
      BY <1>2, <2>1 DEF OnWay
    <3>2. j \in 1..n + m + 1
      BY <1>5
    <3>3. p[j] = asked[i] /\ q[j] >= 1
      BY <1>5, <3>1
    <3>4. QED BY <1>5, <3>2, <3>3 DEF OnWay
  <2>2. CASE i = Len(asked) /\ dpc = "send" /\ at[n + 1] = 0
    <3>1. PICK j \in 1..m + 1 : au[j] >= 1 /\ og[j] = dreq
      BY <1>4, <2>2 DEF k
    <3>2. n + j \in 1..n + m + 1 /\ p[n + j] = dreq /\ q[n + j] >= 1
      BY <1>5, <3>1
    <3>3. dreq = asked[i]
      BY <2>2, AskedAre
    <3>4. QED BY <1>5, <3>2, <3>3 DEF OnWay
  <2>3. QED BY <1>7, <2>1, <2>2 DEF AllCome, Handled
<1>12. AllCome(p, q, asked', handled', dpc', n + m + 1)
  <2>1. asked' = asked /\ handled' = handled
    OBVIOUS
  <2>2. QED BY <1>11, <2>1 DEF AllCome, Handled
<1>13. d2h' = de
  BY DEF de
<1>14. QED BY <1>2, <1>5, <1>8, <1>9, <1>10, <1>12, <1>13, CourseNext

LEMMA SlowAsk ==
    ASSUME OnLine, OnCourse, NEW r \in Request, DevAsk(r)
    PROVE  OnCourse'
<1>1. /\ dpc = "idle" /\ dpc' = "send" /\ asked' = Append(asked, r)
      /\ UNCHANGED <<hvars, d2h, handled>>
  BY DEF DevAsk
<1>2. PICK of \in Owners(d2h, Asked), at \in Ways(d2h) :
          /\ Way(d2h, Asked, of, at) /\ HostAt(of[1], at[1]) /\ DevAt(at[Len(d2h) + 1])
          /\ AllCome(of, at, asked, handled, dpc, Len(d2h) + 1)
  BY DEF OnCourse
<1>3. /\ Len(asked) \in Nat /\ Len(asked') = Len(asked) + 1
      /\ \A i \in 1..Len(asked) : asked'[i] = asked[i]
  <2>1. asked \in Seq(Request)
    BY DEF OnLine, TypeOK
  <2>2. QED BY <1>1, <2>1, AppendProperties, LenProperties
<1>4. Asked \subseteq Asked'
  <2>1. ASSUME NEW j \in 1..Len(asked) PROVE j \in 1..Len(asked') /\ asked'[j] = asked[j]
    BY <1>3
  <2>2. QED BY <2>1 DEF Asked
<1>5. d2h \in Seq(Byte)
  BY AskedAre
<1>7. HostNext(of[1], at[1])
  BY <1>1, <1>2 DEF HostAt, HostNext, hvars
<1>8. at[Len(d2h) + 1] = 0
  BY <1>1, <1>2 DEF DevAt, DevIs
<1>9. DevNext(at[Len(d2h) + 1])
  BY <1>1, <1>8 DEF DevNext, DevIs
<1>10. ASSUME NEW i \in 1..Len(asked')
       PROVE  \/ HandledNext(i) \/ OnWay(asked'[i], of, at)
              \/ i = Len(asked') /\ dpc' = "send" /\ at[Len(d2h) + 1] = 0
  <2>1. CASE i = Len(asked')
    BY <1>1, <1>8, <2>1
  <2>2. CASE i # Len(asked')
    <3>1. i \in 1..Len(asked) /\ asked'[i] = asked[i]
      BY <1>3, <2>2
    <3>2. HandledIn(i, asked, handled) \/ OnWay(asked[i], of, at)
      BY <1>1, <1>2, <3>1 DEF AllCome
    <3>3. handled' = handled
      BY <1>1
    <3>4. QED BY <3>1, <3>2, <3>3 DEF HandledIn, HandledNext
  <2>3. QED BY <2>1, <2>2
<1>11. AllCome(of, at, asked', handled', dpc', Len(d2h) + 1)
  BY <1>10 DEF AllCome, HandledNext
<1>12. d2h' = d2h
  BY <1>1
<1>13. of \in Owners(d2h, Asked') /\ Way(d2h, Asked', of, at)
  BY <1>2, <1>4, <1>5, WayMore
<1>14. QED BY <1>2, <1>7, <1>9, <1>11, <1>12, <1>13, CourseNext

LEMMA SlowSend ==
    ASSUME OnLine, FramesClear, OnCourse, DevSend
    PROVE  OnCourse'
<1>1. /\ dpc = "send" /\ d2h' = d2h \o Frame(dreq) /\ dpc' = "status" /\ dreq' = dreq
      /\ UNCHANGED <<hvars, asked, handled>>
  BY DEF DevSend, history
<1>2. dreq \in Asked /\ dreq \in Request /\ Asked \subseteq Request
  BY <1>1, AskedAre
<1> DEFINE f == Frame(dreq)
           n == Len(f)
<1>3. f \in Seq(Byte) /\ n \in Nat
  BY <1>2, FrameBytes
<1>4. ASSUME NEW k \in {0, -1}, DevAt(k)
      PROVE  \E og \in Owners(f, Asked), au \in Ways(f) :
                 /\ Way(f, Asked, og, au)
                 /\ au[1] = k /\ DevNext(au[n + 1])
                 /\ dpc = "send" /\ k = 0 => \E j \in 1..n + 1 : au[j] >= 1 /\ og[j] = dreq
  <2>1. CASE k = 0
    <3> DEFINE og == [i \in 1..n + 1 |-> dreq]
               au == [i \in 1..n + 1 |-> IF i = n + 1 THEN After(dreq) ELSE i - 1]
    <3>1. /\ n \in 4..258 /\ og \in Owners(f, Asked) /\ au \in Ways(f) /\ Way(f, Asked, og, au)
          /\ au[1] = 0 /\ au[n + 1] = After(dreq) /\ au[2] = 1 /\ og[2] = dreq
      BY <1>2, FrameRead
    <3> HIDE DEF og, au, n, f
    <3>2. DevNext(au[n + 1])
      BY <1>1, <3>1 DEF DevAt, DevNext, DevIs, After
    <3>3. 2 \in 1..n + 1
      BY <3>1
    <3>4. QED BY <2>1, <3>1, <3>2, <3>3
  <2>2. CASE k = -1
    <3> DEFINE og == [i \in 1..n + 1 |-> <<>>]
               au == [i \in 1..n + 1 |-> -1]
    <3>1. og \in Owners(f, Asked) /\ au \in Ways(f) /\ Way(f, Asked, og, au)
      BY <1>2, FrameIgnored
    <3>2. au[1] = -1 /\ au[n + 1] = -1
      BY <1>3
    <3> HIDE DEF og, au, n, f
    <3>3. Reply[dreq] # NoReply
      BY <1>1, <1>4, <2>2 DEF DevAt, DevNext, DevIs
    <3>4. DevNext(au[n + 1])
      BY <1>1, <3>2, <3>3 DEF DevAt, DevNext, DevIs, After
    <3>5. QED BY <2>2, <3>1, <3>2, <3>4
  <2>3. QED BY <2>1, <2>2
<1>5. Extends(f)
  BY <1>4 DEF Extends
<1>6. QED BY <1>1, <1>3, <1>5, DevSends

\* The status bytes that end the device's reading of a frame.
LEMMA SlowStatusByte ==
    ASSUME OnLine, OnCourse, NEW b \in Byte, d2h' = Append(d2h, b), dpc \in {"len", "lo"},
           dpc' = (IF b = ACK THEN "idle" ELSE "len"), UNCHANGED <<hvars, dreq, asked, handled>>
    PROVE  OnCourse'
<1> DEFINE e == <<b>>
           og == [i \in 1..2 |-> <<>>]
           au == [i \in 1..2 |-> IF i = 1 \/ b # ACK THEN -1 ELSE 0]
<1>1. /\ e \in Seq(Byte) /\ og \in Owners(e, Asked) /\ au \in Ways(e) /\ Way(e, Asked, og, au)
      /\ Len(e) = 1 /\ au[1] = -1 /\ au[2] = IF b = ACK THEN 0 ELSE -1
  BY StatusWay
<1> HIDE DEF e, og, au
<1>2. ASSUME NEW k \in {0, -1}, DevAt(k) PROVE k = -1 /\ DevNext(au[Len(e) + 1])
  <2>1. k = -1 /\ Reply[dreq] # NoReply
    BY <1>2 DEF DevAt, DevNext, DevIs
  <2>2. Len(e) + 1 = 2
    BY <1>1
  <2>3. au[2] = IF b = ACK THEN 0 ELSE -1
    BY <1>1
  <2>4. QED BY <2>1, <2>2, <2>3 DEF DevAt, DevNext, DevIs
<1>3. Extends(e)
  BY <1>1, <1>2 DEF Extends
<1>4. d2h' = d2h \o e
  <2>1. d2h \in Seq(Byte)
    BY AskedAre
  <2>2. QED BY <2>1, AppendIsConcat DEF e
<1>5. QED BY <1>1, <1>3, <1>4, DevSends

LEMMA SlowDevice ==
    ASSUME OnLine, FramesClear, OnCourse, Device
    PROVE  OnCourse'
<1> USE DEF history
<1>1. ASSUME NEW r \in Request, DevAsk(r) PROVE OnCourse'
  BY <1>1, SlowAsk
<1>2. CASE DevSend
  BY <1>2, SlowSend
<1>3. CASE DevStatus
  <2>1. /\ dpc = "status" /\ UNCHANGED <<hvars, d2h, dreq, asked, handled>>
        /\ \/ dpc' = "status" \/ dpc' = "send"
           \/ dpc' = IF Reply[dreq] = NoReply THEN "idle" ELSE "len"
    BY <1>3 DEF DevStatus
  <2>2. \A k \in Places : DevAt(k) => DevNext(k)
    BY <2>1 DEF DevAt, DevNext, DevIs, After
  <2>3. QED BY <2>1, <2>2, DevSilent
<1>4. CASE DevLen
  <2>1. dpc = "len" /\ UNCHANGED <<hvars, dreq, asked, handled>>
    BY <1>4 DEF DevLen
  <2>2. \/ d2h' = d2h /\ dpc' \in {"len", "data"}
        \/ d2h' = Append(d2h, NAK) /\ dpc' = "len"
    BY <1>4, <2>1 DEF DevLen
  <2>3. CASE d2h' = d2h /\ dpc' \in {"len", "data"}
    <3>1. \A k \in Places : DevAt(k) => DevNext(k)
      BY <2>1, <2>3 DEF DevAt, DevNext, DevIs
    <3>2. QED BY <2>1, <2>3, <3>1, DevSilent
  <2>4. CASE d2h' = Append(d2h, NAK) /\ dpc' = "len"
    <3>1. NAK \in Byte /\ NAK # ACK
      BY DEF NAK, ACK, Byte
    <3>2. QED BY <2>1, <2>4, <3>1, SlowStatusByte
  <2>5. QED BY <2>2, <2>3, <2>4
<1>5. CASE DevData \/ DevHi
  <2>1. /\ dpc \in {"data", "hi"} /\ dpc' \in {"data", "hi", "lo"}
        /\ UNCHANGED <<hvars, d2h, dreq, asked, handled>>
    BY <1>5 DEF DevData, DevHi
  <2>2. \A k \in Places : DevAt(k) => DevNext(k)
    BY <2>1 DEF DevAt, DevNext, DevIs
  <2>3. QED BY <2>1, <2>2, DevSilent
<1>6. CASE DevLo
  <2>1. /\ dpc = "lo" /\ UNCHANGED <<hvars, dreq, asked, handled>>
        /\ \/ d2h' = Append(d2h, ACK) /\ dpc' = "idle"
           \/ d2h' = Append(d2h, NAK) /\ dpc' = "len"
    BY <1>6 DEF DevLo
  <2>2. NAK \in Byte /\ NAK # ACK /\ ACK \in Byte
    BY DEF NAK, ACK, Byte
  <2>3. QED BY <2>1, <2>2, SlowStatusByte
<1>7. QED BY <1>1, <1>2, <1>3, <1>4, <1>5, <1>6 DEF Device
-----------------------------------------------------------------------------
(* What is left to read on a slow line                                     *)

\* Reading a byte of Q leaves the others.
LEMMA BringsOn ==
    ASSUME NEW s \in Seq(Byte), s # <<>>, NEW Q, Head(s) \in Q, Brings(s, Q)
    PROVE  Brings(Tail(s), Q)
<1>1. PICK i \in 1..Len(s) : s[i] \notin Q
  BY DEF Brings
<1>2. Head(s) = s[1] /\ Len(s) \in Nat
  OBVIOUS
<1>3. Len(Tail(s)) = Len(s) - 1 /\ \A j \in 1..Len(Tail(s)) : Tail(s)[j] = s[j + 1]
  BY HeadTailProperties
<1>4. i # 1
  BY <1>1, <1>2
<1>5. i - 1 \in 1..Len(Tail(s)) /\ (i - 1) + 1 = i
  BY <1>2, <1>3, <1>4
<1>6. QED BY <1>1, <1>3, <1>5 DEF Brings

\* What comes behind or in front takes nothing away.
LEMMA BringsBoth ==
    ASSUME NEW s \in Seq(Byte), NEW t \in Seq(Byte), NEW Q, Brings(s, Q) \/ Brings(t, Q)
    PROVE  Brings(s \o t, Q)
<1>1. /\ Len(s \o t) = Len(s) + Len(t) /\ Len(s) \in Nat /\ Len(t) \in Nat
      /\ \A i \in 1..Len(s) + Len(t) : (s \o t)[i] = IF i <= Len(s) THEN s[i] ELSE t[i - Len(s)]
  BY ConcatProperties, LenProperties
<1> DEFINE n == Len(s)
           m == Len(t)
           u == s \o t
<1>2. /\ Len(u) = n + m /\ n \in Nat /\ m \in Nat
      /\ \A i \in 1..n + m : u[i] = IF i <= n THEN s[i] ELSE t[i - n]
  BY <1>1
<1>3. CASE Brings(s, Q)
  <2>1. PICK i \in 1..n : s[i] \notin Q
    BY <1>3 DEF Brings
  <2> HIDE DEF n, m, u
  <2>2. i \in 1..n + m /\ i <= n
    BY <1>2
  <2>3. i \in 1..Len(u) /\ u[i] \notin Q
    BY <1>2, <2>1, <2>2
  <2>4. QED BY <2>3 DEF Brings, u
<1>4. CASE Brings(t, Q)
  <2>1. PICK i \in 1..m : t[i] \notin Q
    BY <1>4 DEF Brings
  <2> HIDE DEF n, m, u
  <2>2. n + i \in 1..n + m /\ ~(n + i <= n) /\ (n + i) - n = i
    BY <1>2
  <2>3. n + i \in 1..Len(u) /\ u[n + i] \notin Q
    BY <1>2, <2>1, <2>2
  <2>4. QED BY <2>3 DEF Brings, u
<1>5. QED BY <1>3, <1>4

\* The last byte on the line, when the first is read or others come.
LEMMA LastStays ==
    ASSUME NEW s \in Seq(Byte), s # <<>>
    PROVE  /\ Tail(s) # <<>> => Tail(s)[Len(Tail(s))] = s[Len(s)]
           /\ Tail(s) = <<>> => Head(s) = s[Len(s)]
<1>1. Head(s) = s[1] /\ Len(s) \in Nat /\ Tail(s) \in Seq(Byte)
  BY HeadTailProperties
<1>2. Len(Tail(s)) = Len(s) - 1 /\ \A j \in 1..Len(Tail(s)) : Tail(s)[j] = s[j + 1]
  BY HeadTailProperties
<1>3. Tail(s) # <<>> => Len(Tail(s)) \in 1..Len(Tail(s)) /\ Len(Tail(s)) + 1 = Len(s)
  <2>1. Tail(s) # <<>> => Len(Tail(s)) # 0
    BY <1>1, EmptySeq
  <2>2. QED BY <1>1, <1>2, <2>1
<1>4. Tail(s) = <<>> => Len(s) = 1
  <2>1. Tail(s) = <<>> => Len(Tail(s)) = 0
    BY EmptySeq
  <2>2. QED BY <1>1, <1>2, <2>1
<1>5. QED BY <1>1, <1>2, <1>3, <1>4

LEMMA LastOfFrame ==
    ASSUME FramesClear, NEW s \in Seq(Byte), NEW r \in Request
    PROVE  LET u == s \o Frame(r) IN u # <<>> /\ u[Len(u)] # ACK
<1> DEFINE f == Frame(r)
           n == Len(s)
           m == Len(f)
<1>1. f \in Seq(Byte) /\ m \in Nat /\ m >= 4 /\ \A i \in 1..m : f[i] # ACK
  <2>1. f \in Seq(Byte) /\ m \in 4..258 /\ \A i \in 1..m : f[i] # ACK
    BY FrameLen DEF FramesClear
  <2> HIDE DEF m
  <2>2. m \in Nat /\ m >= 4
    BY <2>1
  <2>3. QED BY <2>1, <2>2
<1> HIDE DEF f
<1>2. /\ s \o f \in Seq(Byte) /\ Len(s \o f) = n + m /\ n \in Nat
      /\ \A i \in 1..n + m : (s \o f)[i] = IF i <= n THEN s[i] ELSE f[i - n]
  BY <1>1, ConcatProperties, LenProperties
<1> DEFINE u == s \o f
<1>3. u \in Seq(Byte) /\ Len(u) = n + m /\ \A i \in 1..n + m : u[i] = IF i <= n THEN s[i] ELSE f[i - n]
  BY <1>2
<1> HIDE DEF n, m, u
<1>4. n + m \in 1..n + m /\ ~(n + m <= n) /\ (n + m) - n = m /\ m \in 1..m /\ n + m # 0
  BY <1>1, <1>2
<1>5. u[n + m] # ACK
  BY <1>1, <1>3, <1>4
<1>6. u # <<>>
  BY <1>3, <1>4, EmptySeq
<1>7. QED BY <1>3, <1>5, <1>6 DEF u, f

LEMMA NoAckLastStep ==
    ASSUME OnLine, FramesClear, NoAckLast, Device \/ Host
    PROVE  NoAckLast'
<1> USE DEF NoAckLast
<1>1. d2h \in Seq(Byte)
  BY AskedAre
<1>2. ASSUME NEW b \in Byte, b # ACK, d2h' = Append(d2h, b) PROVE d2h'[Len(d2h')] # ACK
  BY <1>1, <1>2, AppendProperties
<1>3. NAK \in Byte /\ NAK # ACK
  BY DEF NAK, ACK, Byte
<1>4. CASE \E r \in Request : DevAsk(r)
  BY <1>4 DEF DevAsk
<1>5. CASE DevSend
  <2>1. dreq \in Request /\ d2h' = d2h \o Frame(dreq)
    BY <1>5 DEF DevSend, OnLine, SendersHold
  <2>2. QED BY <1>1, <2>1, LastOfFrame
<1>6. CASE DevStatus
  BY <1>6 DEF DevStatus
<1>7. CASE DevLen
  <2>1. dpc = "len" /\ (d2h' = d2h \/ d2h' = Append(d2h, NAK))
    BY <1>7 DEF DevLen
  <2>2. QED BY <1>2, <1>3, <2>1
<1>8. CASE DevData \/ DevHi
  BY <1>8 DEF DevData, DevHi
<1>9. CASE DevLo
  <2>1. dpc' = "idle" \/ d2h' = Append(d2h, NAK)
    BY <1>9 DEF DevLo
  <2>2. QED BY <1>2, <1>3, <2>1
<1>10. CASE Host
  <2>1. dpc' = dpc /\ (d2h' = d2h \/ (d2h # <<>> /\ d2h' = Tail(d2h)))
    BY <1>10 DEF Host, HostLen, HostData, HostHi, HostLo, HostHandle, HostSend, HostStatus, dvars
  <2>2. QED BY <1>1, <2>1, LastStays
<1>11. QED BY <1>4, <1>5, <1>6, <1>7, <1>8, <1>9, <1>10 DEF Device

LEMMA AnsweredStep ==
    ASSUME OnLine, Sends, NoAckLast, Answered, Device \/ Host, hpc' # "stopped"
    PROVE  Answered'
<1> USE DEF Answered
<1>1. d2h \in Seq(Byte) /\ h2d \in Seq(Byte)
  BY AskedAre
<1>2. \A b \in Byte : Append(d2h, b) # <<>>
  BY <1>1, AppendProperties
<1>3. NAK \in Byte /\ ACK \in Byte /\ ACK # 0
  BY DEF NAK, ACK, Byte
<1>4. CASE (\E r \in Request : DevAsk(r)) \/ DevData \/ DevHi
  BY <1>4 DEF DevAsk, DevData, DevHi
<1>5. CASE DevSend
  <2>1. dreq \in Payload /\ d2h' = d2h \o Frame(dreq)
    BY <1>5 DEF DevSend, OnLine, SendersHold, Payload
  <2>2. Frame(dreq) \in Seq(Byte) /\ Frame(dreq) # <<>>
    BY <2>1, FrameParts, <1>1
  <2>3. d2h' # <<>>
    <3>1. Len(Frame(dreq)) # 0 /\ Len(Frame(dreq)) \in Nat /\ Len(d2h) \in Nat
      BY <1>1, <2>2, EmptySeq, LenProperties
    <3>2. Len(d2h') # 0
      BY <1>1, <2>1, <2>2, <3>1, ConcatProperties
    <3>3. QED BY <3>2
  <2>4. QED BY <2>3
<1>6. CASE DevStatus
  <2>1. /\ dpc = "status" /\ h2d # <<>> /\ h2d' = Tail(h2d) /\ d2h' = d2h /\ hpc' = hpc
        /\ \/ Head(h2d) = 0 /\ dpc' = "status"
           \/ dpc' = "send"
           \/ Head(h2d) = ACK /\ dpc' \in {"idle", "len"}
    BY <1>6 DEF DevStatus, hvars
  <2>2. Brings(h2d, {0}) /\ Head(h2d) = 0 => Brings(h2d', {0})
    BY <1>1, <2>1, BringsOn
  <2>3. Brings(h2d, {0, ACK}) /\ Head(h2d) \in {0, ACK} => Brings(h2d', {0, ACK})
    BY <1>1, <2>1, BringsOn
  <2>4. QED BY <2>1, <2>2, <2>3
<1>7. CASE DevLen
  <2>1. /\ dpc = "len" /\ h2d # <<>> /\ h2d' = Tail(h2d) /\ hpc' = hpc
        /\ \/ Head(h2d) = 0 /\ dpc' = "len" /\ d2h' = d2h
           \/ d2h' = Append(d2h, NAK)
           \/ dpc' = "data"
    BY <1>7 DEF DevLen, hvars
  <2>2. Brings(h2d, {0, ACK}) /\ Head(h2d) = 0 => Brings(h2d', {0, ACK})
    BY <1>1, <2>1, BringsOn
  <2>3. QED BY <1>2, <1>3, <2>1, <2>2
<1>8. CASE DevLo
  <2>1. d2h' = Append(d2h, ACK) \/ d2h' = Append(d2h, NAK)
    BY <1>8 DEF DevLo
  <2>2. QED BY <1>2, <1>3, <2>1
<1>9. CASE HostLen \/ HostData \/ HostHi
  BY <1>9 DEF HostLen, HostData, HostHi
<1>10. CASE HostLo
  <2>1. \/ hpc' = "handle" /\ h2d' = h2d \o <<ACK>> \o Zeros(Trail)
        \/ hpc' = "len" /\ h2d' = h2d \o <<NAK>> \o Zeros(Trail)
    BY <1>10 DEF HostLo
  <2>2. ASSUME NEW b \in {ACK, NAK} PROVE Brings(h2d \o <<b>> \o Zeros(Trail), {0})
    <3>1. <<b>> \in Seq(Byte) /\ Zeros(Trail) \in Seq(Byte)
      BY <1>3, ZerosType, BoundsAssumption
    <3>2. Brings(<<b>>, {0})
      <4>1. 1 \in 1..Len(<<b>>) /\ <<b>>[1] = b /\ b # 0
        BY DEF ACK, NAK
      <4>2. QED BY <4>1 DEF Brings
    <3>3. Brings(h2d \o <<b>>, {0}) /\ h2d \o <<b>> \in Seq(Byte)
      BY <1>1, <3>1, <3>2, BringsBoth, ConcatProperties
    <3>4. QED BY <3>1, <3>3, BringsBoth
  <2>3. Brings(h2d', {0})
    BY <2>1, <2>2
  <2>4. QED BY <2>1, <2>3
<1>11. CASE HostHandle
  BY <1>11 DEF HostHandle, dvars
<1>12. CASE HostSend
  <2>1. hpc = "send" /\ hpc' = "status" /\ h2d' = h2d \o Zeros(Pad) \o Frame(hout) \o Zeros(Trail)
    BY <1>12 DEF HostSend
  <2>2. hout \in Payload /\ Len(hout) \notin {0, ACK}
    BY <2>1 DEF OnLine, SendersHold, Sends
  <2>3. Zeros(Pad) \in Seq(Byte) /\ Zeros(Trail) \in Seq(Byte)
    BY ZerosType, BoundsAssumption
  <2>4. Frame(hout) \in Seq(Byte) /\ Frame(hout) # <<>> /\ Head(Frame(hout)) = Len(hout)
    BY <1>1, <2>2, FrameParts
  <2> DEFINE f == Frame(hout)
  <2>5. Brings(f, {0, ACK})
    <3>1. f \in Seq(Byte) /\ f # <<>> /\ Head(f) = Len(hout)
      BY <2>4
    <3> HIDE DEF f
    <3>2. Len(f) \in Nat /\ Len(f) # 0 /\ Head(f) = f[1]
      BY <3>1, EmptySeq
    <3>3. 1 \in 1..Len(f) /\ f[1] \notin {0, ACK}
      BY <2>2, <3>1, <3>2
    <3>4. QED BY <3>3 DEF Brings
  <2>6. h2d \o Zeros(Pad) \in Seq(Byte)
    BY <1>1, <2>3, ConcatProperties
  <2>7. Brings(h2d \o Zeros(Pad) \o f, {0, ACK}) /\ h2d \o Zeros(Pad) \o f \in Seq(Byte)
    BY <2>4, <2>5, <2>6, BringsBoth, ConcatProperties
  <2>8. Brings(h2d', {0, ACK})
    BY <2>1, <2>3, <2>7, BringsBoth
  <2>9. QED BY <2>1, <2>8
<1>13. CASE HostStatus
  <2>1. /\ hpc = "status" /\ d2h # <<>> /\ d2h' = Tail(d2h) /\ dpc' = dpc
        /\ \/ Head(d2h) = ACK /\ hpc' = "len"
           \/ hpc' = "send"
    BY <1>13 DEF HostStatus, dvars
  <2>2. d2h' = <<>> /\ dpc = "status" => Head(d2h) # ACK
    BY <1>1, <2>1, LastStays DEF NoAckLast
  <2>3. QED BY <2>1, <2>2
<1>14. QED
  BY <1>4, <1>5, <1>6, <1>7, <1>8, <1>9, <1>10, <1>11, <1>12, <1>13 DEF Device, Host

-----------------------------------------------------------------------------
(* The theorems about a slow line                                          *)

LEMMA InitSlow == Init => InCourse
<1>1. SUFFICES ASSUME Init PROVE InCourse
  OBVIOUS
<1> DEFINE of == [i \in 1..1 |-> <<>>]
           at == [i \in 1..1 |-> 0]
<1>2. d2h = <<>> /\ asked = <<>> /\ handled = <<>> /\ dpc = "idle" /\ hpc = "len"
  BY <1>1 DEF Init
<1>3. Len(d2h) = 0 /\ Len(asked) = 0 /\ Len(handled) = 0
  BY <1>2
<1>4. of \in Owners(d2h, Asked) /\ at \in Ways(d2h) /\ Way(d2h, Asked, of, at) /\ at[1] = 0
  BY <1>3 DEF Owners, Ways, Way, Places
<1>5. /\ HostAt(of[1], at[1]) /\ DevAt(at[Len(d2h) + 1])
      /\ AllCome(of, at, asked, handled, dpc, Len(d2h) + 1)
  BY <1>2, <1>3, <1>4 DEF HostAt, HostIs, DevAt, DevIs, AllCome
<1>6. OnCourse
  BY <1>4, <1>5 DEF OnCourse
<1>7. Integrity /\ DuringIsPast /\ Sends /\ NoAckLast /\ Answered
  BY <1>2, <1>3 DEF Integrity, DuringIsPast, Sends, NoAckLast, Answered
<1>8. QED BY <1>6, <1>7 DEF InCourse

LEMMA SendsStep ==
    ASSUME OnLine, FramesClear, Sends, Device \/ Host,
           HostLo /\ hpc' # "stopped" => hbuf \in Asked
    PROVE  Sends'
<1> USE DEF Sends
<1>1. CASE Device
  <2>1. UNCHANGED <<hpc, hbuf, hout>>
    BY <1>1 DEF Device, DevAsk, DevSend, DevStatus, DevLen, DevData, DevHi, DevLo, hvars
  <2>2. QED BY <2>1
<1>2. CASE HostLo
  <2>1. hpc' = "handle" => hbuf \in Request
    BY <1>2, AskedAre
  <2>2. hbuf' = hbuf /\ hpc' \in {"handle", "len", "stopped"}
    BY <1>2 DEF HostLo
  <2>3. QED BY <2>1, <2>2
<1>3. CASE HostHandle
  <2>1. \/ hpc' = "len"
        \/ hpc' = "send" /\ hbuf \in Request /\ hout' = Reply[hbuf] /\ Reply[hbuf] # NoReply
    BY <1>3 DEF HostHandle
  <2>2. ASSUME NEW r \in Request, Reply[r] # NoReply PROVE Len(Reply[r]) \notin {0, ACK}
    <3>1. Reply[r] \in Seq(Byte) /\ Len(Reply[r]) # ACK
      BY ReplyAssumption DEF FramesClear
    <3>2. QED BY <2>2, <3>1, EmptySeq DEF NoReply
  <2>3. QED BY <2>1, <2>2
<1>4. CASE HostLen \/ HostData \/ HostHi
  BY <1>4 DEF HostLen, HostData, HostHi
<1>5. CASE HostSend \/ HostStatus
  BY <1>5 DEF HostSend, HostStatus
<1>6. QED BY <1>1, <1>2, <1>3, <1>4, <1>5 DEF Host

LEMMA IntegrityStep ==
    ASSUME OnLine, Integrity, DuringIsPast, Device \/ Host, HostLo /\ hpc' # "stopped" => hbuf \in Asked
    PROVE  Integrity' /\ DuringIsPast'
<1>1. /\ handled \in Seq([data : Seq(Byte), during : Nat]) /\ Len(asked) \in Nat /\ hbuf \in Seq(Byte)
      /\ asked \in Seq(Request)
  BY AskedAre DEF OnLine, TypeOK
<1>2. ASSUME NEW i \in 1..Len(handled)
      PROVE  /\ handled[i].during \in 0..Len(asked)
             /\ \E j \in 1..handled[i].during : handled[i].data = asked[j]
  BY DEF Integrity, DuringIsPast
<1>3. CASE \E r \in Request : DevAsk(r)
  <2>1. PICK r \in Request : asked' = Append(asked, r) /\ handled' = handled
    BY <1>3 DEF DevAsk
  <2>2. Len(asked') = Len(asked) + 1 /\ \A j \in 1..Len(asked) : asked'[j] = asked[j]
    BY <1>1, <2>1, AppendProperties
  <2>3. ASSUME NEW i \in 1..Len(handled)
        PROVE  handled[i].during \in 0..Len(asked') /\ \E j \in 1..handled[i].during : handled[i].data = asked'[j]
    <3>1. PICK j \in 1..handled[i].during : handled[i].data = asked[j]
      BY <1>2
    <3>2. j \in 1..Len(asked) /\ handled[i].during \in 0..Len(asked')
      BY <1>1, <1>2, <2>2
    <3>3. QED BY <2>2, <3>1, <3>2
  <2>4. QED BY <2>1, <2>3 DEF Integrity, DuringIsPast
<1>4. CASE UNCHANGED <<asked, handled>>
  BY <1>4 DEF Integrity, DuringIsPast
<1>5. CASE HostLo
  <2> DEFINE new == [data |-> hbuf, during |-> Len(asked)]
  <2>1. /\ asked' = asked
        /\ \/ handled' = handled
           \/ handled' = Append(handled, new) /\ hpc' = "handle"
    BY <1>5 DEF HostLo
  <2>2. CASE handled' = handled
    BY <1>4, <2>1, <2>2
  <2>3. CASE handled' = Append(handled, new) /\ hpc' = "handle"
    <3>1. hbuf \in Asked
      BY <1>5, <2>3
    <3>2. new \in [data : Seq(Byte), during : Nat] /\ new.data = hbuf /\ new.during = Len(asked)
      BY <1>1
    <3> HIDE DEF new
    <3>3. /\ Len(handled') = Len(handled) + 1 /\ handled'[Len(handled) + 1] = new /\ Len(handled) \in Nat
          /\ \A i \in 1..Len(handled) : handled'[i] = handled[i]
      BY <1>1, <2>3, <3>2, AppendProperties
    <3>4. new.during \in 0..Len(asked) /\ \E j \in 1..new.during : new.data = asked[j]
      BY <1>1, <3>1, <3>2 DEF Asked
    <3>5. ASSUME NEW i \in 1..Len(handled')
          PROVE  /\ handled'[i].during \in 0..Len(asked)
                 /\ \E j \in 1..handled'[i].during : handled'[i].data = asked[j]
      <4>1. CASE i = Len(handled) + 1
        BY <3>3, <3>4, <4>1
      <4>2. CASE i # Len(handled) + 1
        <5>1. i \in 1..Len(handled) /\ handled'[i] = handled[i]
          BY <3>3, <4>2
        <5>2. QED BY <1>2, <5>1
      <4>3. QED BY <4>1, <4>2
    <3>6. QED BY <2>1, <3>5 DEF Integrity, DuringIsPast
  <2>4. QED BY <2>1, <2>2, <2>3
<1>6. UNCHANGED <<asked, handled>> \/ HostLo \/ \E r \in Request : DevAsk(r)
  BY DEF Device, Host, DevSend, DevStatus, DevLen, DevData, DevHi, DevLo,
         HostLen, HostData, HostHi, HostHandle, HostSend, HostStatus, history
<1>7. QED BY <1>3, <1>4, <1>5, <1>6

LEMMA SlowStep ==
    ASSUME OnLine, FramesClear, InCourse, Device \/ Host
    PROVE  InCourse'
<1>1. CASE hpc' = "stopped"
  <2>1. Sends /\ Integrity /\ DuringIsPast /\ (HostLo /\ hpc' # "stopped" => hbuf \in Asked)
    BY <1>1 DEF InCourse
  <2>2. Sends' /\ Integrity' /\ DuringIsPast'
    BY <2>1, SendsStep, IntegrityStep
  <2>3. QED BY <1>1, <2>2 DEF InCourse
<1>2. CASE hpc' # "stopped"
  <2>1. hpc # "stopped"
    BY <1>2 DEF Device, Host, DevAsk, DevSend, DevStatus, DevLen, DevData, DevHi, DevLo,
         HostLen, HostData, HostHi, HostLo, HostHandle, HostSend, HostStatus, hvars
  <2>2. Sends /\ Integrity /\ DuringIsPast /\ OnCourse /\ NoAckLast /\ Answered
    BY <2>1 DEF InCourse
  <2>3. HostLo /\ hpc' # "stopped" => hbuf \in Asked
    BY <2>2, SlowHostLo
  <2>4. Sends' /\ Integrity' /\ DuringIsPast'
    BY <2>2, <2>3, SendsStep, IntegrityStep
  <2>5. NoAckLast' /\ Answered'
    BY <1>2, <2>2, NoAckLastStep, AnsweredStep
  <2>6. OnCourse'
    BY <1>2, <2>2, SlowDevice, SlowHostLen, SlowHostData, SlowHostHi, SlowHostLo, SlowHostStatus,
       SlowHostSends DEF Host
  <2>7. QED BY <2>4, <2>5, <2>6 DEF InCourse
<1>3. QED BY <1>1, <1>2

\* Garbled and lost bytes are counted.
LEMMA SlowBefore ==
    ASSUME TypeOK, [Next]_vars, Slow'
    PROVE  Slow /\ (Device \/ Host \/ UNCHANGED vars)
<1>1. garbled \in Nat /\ lost \in Nat
  BY BoundsAssumption DEF TypeOK
<1>2. CASE Line
  <2>1. garbled' = garbled + 1 \/ lost' = lost + 1
    BY <1>2 DEF Line, GarbleD2H, GarbleH2D, LoseD2H, LoseH2D
  <2>2. QED BY <1>1, <2>1 DEF Slow
<1>3. CASE Device \/ Host
  <2>1. UNCHANGED <<garbled, lost>>
    BY <1>3 DEF Device, DevAsk, DevSend, DevStatus, DevLen, DevData, DevHi, DevLo, Host, HostLen,
       HostData, HostHi, HostLo, HostHandle, HostSend, HostStatus, faults
  <2>2. QED BY <1>3, <2>1 DEF Slow
<1>4. CASE UNCHANGED vars
  BY <1>4 DEF vars, faults, Slow
<1>5. QED BY <1>2, <1>3, <1>4 DEF Next

LEMMA InCourseStays ==
    ASSUME InCourse, UNCHANGED vars
    PROVE  InCourse'
<1> USE DEF vars, dvars, hvars, history, faults
<1>1. Integrity' /\ DuringIsPast' /\ Sends' /\ (NoAckLast => NoAckLast') /\ (Answered => Answered')
  BY DEF InCourse, Integrity, DuringIsPast, Sends, NoAckLast, Answered
<1>2. ASSUME OnCourse PROVE OnCourse'
  <2>1. PICK of \in Owners(d2h, Asked), at \in Ways(d2h) :
            /\ Way(d2h, Asked, of, at) /\ HostAt(of[1], at[1]) /\ DevAt(at[Len(d2h) + 1])
            /\ AllCome(of, at, asked, handled, dpc, Len(d2h) + 1)
    BY <1>2 DEF OnCourse
  <2>2. Asked' = Asked
    BY DEF Asked
  <2>3. HostNext(of[1], at[1]) /\ DevNext(at[Len(d2h) + 1])
    BY <2>1 DEF HostAt, HostNext, DevAt, DevNext
  <2>4. AllCome(of, at, asked', handled', dpc', Len(d2h) + 1) /\ d2h' = d2h
    BY <2>1
  <2>5. QED BY <2>1, <2>2, <2>3, <2>4, CourseNext
<1>3. hpc' = hpc
  OBVIOUS
<1>4. QED BY <1>1, <1>2, <1>3 DEF InCourse

LEMMA SlowInvariant ==
    ASSUME FramesClear
    PROVE  Spec => [](Slow => InCourse)
<1> DEFINE I == Slow => InCourse
<1>1. Init => I
  BY InitSlow
<1>2. TypeOK /\ SendersHold /\ OneOutstanding /\ I /\ [Next]_vars => I'
  <2>1. SUFFICES ASSUME OnLine, I, [Next]_vars, Slow' PROVE InCourse'
    BY DEF OnLine
  <2>2. Slow /\ (Device \/ Host \/ UNCHANGED vars)
    BY <2>1, SlowBefore DEF OnLine
  <2>3. QED BY <2>1, <2>2, SlowStep, InCourseStays
<1>3. Spec => [](TypeOK /\ SendersHold) /\ []OneOutstanding
  BY TypeCorrect, CallsInStep
<1> HIDE DEF I
<1>4. Spec => []I
  BY <1>1, <1>2, <1>3, PTL DEF Spec
<1>5. QED BY <1>4 DEF I

\* A device that polls and a host that reads never wait for each other, however many bytes
\* come late: unless one was garbled or lost, there is a byte under way for one of the two
\* (host_receive_byte, host_send_frame_binary_safe, host_receive_frame_binary_safe, Host.update).
THEOREM PollingNeverHangs ==
    ASSUME FramesClear, ~Blocking
    PROVE  Spec => []NoHang
<1>1. TypeOK /\ (Slow => InCourse) => NoHang
  <2>1. SUFFICES ASSUME TypeOK, Slow => InCourse, garbled = 0 /\ lost = 0, DeviceWaits, HostWaits PROVE FALSE
    BY DEF NoHang
  <2>2. /\ h2d = <<>> /\ d2h = <<>> /\ dpc \in {"status", "len"}
        /\ hpc \in {"len", "data", "hi", "lo", "status"}
    BY <2>1 DEF DeviceWaits, HostWaits
  <2>3. OnCourse /\ Answered
    BY <2>1, <2>2 DEF InCourse, Slow
  <2>4. Len(d2h) + 1 = 1 /\ Len(h2d) = 0
    BY <2>2
  <2>5. PICK of \in Owners(d2h, Asked), at \in Ways(d2h) :
            Way(d2h, Asked, of, at) /\ HostAt(of[1], at[1]) /\ DevAt(at[Len(d2h) + 1])
    BY <2>3 DEF OnCourse
  <2>6. at[1] \in {0, -1} /\ (dpc = "len" => at[1] = -1)
    BY <2>2, <2>4, <2>5 DEF DevAt, DevIs, After
  <2>7. hpc \in {"len", "status"} /\ (dpc = "len" => hpc = "status")
    <3>1. of[1] \in Request \cup {<<>>}
      <4>1. 1 \in 1..Len(d2h) + 1
        BY <2>4
      <4>2. of[1] \in Asked \cup {<<>>}
        BY <4>1 DEF Owners
      <4>3. Asked \subseteq Request
        BY <2>1 DEF Asked, TypeOK
      <4>4. QED BY <4>2, <4>3
    <3>2. Len(of[1]) \in Nat
      BY <3>1, RequestAssumption
    <3>3. QED BY <2>2, <2>5, <2>6, <3>2 DEF HostAt, HostIs
  <2>8. Brings(h2d, {0}) \/ Brings(h2d, {0, ACK})
    BY <2>2, <2>3, <2>7 DEF Answered
  <2>9. QED BY <2>4, <2>8 DEF Brings
<1>2. QED BY <1>1, SlowInvariant, TypeCorrect, PTL

\* On a line that is only slow the host handles nothing but requests the device made, and
\* each request that the device considers finished has been handled once the host has read
\* all there is, for any number of late bytes and of the repetitions they cause.
THEOREM SlowLineIsSafe ==
    ASSUME FramesClear
    PROVE  Spec => [](Slow => Integrity /\ Delivered)
<1>1. TypeOK /\ OneOutstanding /\ (Slow => InCourse) => (Slow => Integrity /\ Delivered)
  <2>1. SUFFICES ASSUME TypeOK, OneOutstanding, InCourse PROVE Integrity /\ Delivered
    OBVIOUS
  <2>2. Integrity
    BY <2>1 DEF InCourse
  <2>3. SUFFICES ASSUME d2h = <<>>, hpc = "len", NEW i \in 1..Len(answers) PROVE Handled(i)
    BY <2>2 DEF Delivered, Handled, HandledIn
  <2>4. PICK of \in Owners(d2h, Asked), at \in Ways(d2h) :
            /\ Way(d2h, Asked, of, at) /\ HostAt(of[1], at[1])
            /\ AllCome(of, at, asked, handled, dpc, Len(d2h) + 1)
    BY <2>1, <2>3 DEF InCourse, OnCourse
  <2>5. Len(d2h) + 1 = 1 /\ DOMAIN at = 1..1
    BY <2>3 DEF Ways
  <2>6. at[1] = 0
    BY <2>3, <2>4 DEF HostAt, HostIs
  <2>7. ~OnWay(asked[i], of, at)
    BY <2>5, <2>6 DEF OnWay
  <2>8. i \in 1..Len(asked) /\ ~(i = Len(asked) /\ dpc = "send")
    <3>1. Len(answers) \in Nat /\ Len(asked) \in Nat
      BY <2>1 DEF TypeOK
    <3>2. QED BY <2>1, <3>1 DEF OneOutstanding
  <2>9. QED BY <2>4, <2>7, <2>8 DEF AllCome, Handled
<1>2. QED BY <1>1, SlowInvariant, TypeCorrect, CallsInStep, PTL
=============================================================================
