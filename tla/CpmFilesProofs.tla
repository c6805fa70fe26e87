--------------------------- MODULE CpmFilesProofs ---------------------------
(***************************************************************************)
(* Theorems about CpmFiles for every set of mounts, files and FCBs, every  *)
(* frame size and every number of requests under way: types, that the BDOS *)
(* and the host stay in step, and that nothing is written behind a buffer; *)
(* and, for programs with one file of at most one module open at a time,   *)
(* that what they read is what they asked for; and about Fcb, that within  *)
(* one module (512 KB) device and host mean the same record.               *)
(***************************************************************************)
EXTENDS CpmFiles, SequenceTheorems, TLAPS

-----------------------------------------------------------------------------
(* The records of a module.                                                *)

\* The fields of an FCB that stands within the first module.
InModule(f) ==
    /\ f.cr \in 0..127 /\ f.ex \in 0..31 /\ f.s2 \in {0, OpenBit}

\* The host takes the record from cr and ex alone: record 128 * ex + cr, below 4096.
LEMMA RecordOfModule ==
    ASSUME NEW f, InModule(f)
    PROVE  /\ HostRecord(f) = f.ex * 128 + f.cr
           /\ HostRecord(f) \in 0..4095
<1>1. f.s2 % 16 = 0
    BY SMT DEF InModule, OpenBit
<1>2. f.cr \in 0..127 /\ f.ex \in 0..31
    BY DEF InModule
<1> QED
    BY <1>1, <1>2, SMT DEF HostRecord

\* The fields that Advance and Seek write are in the domain of an FCB.
HasFields(f) == {"cr", "ex", "s2", "r0", "r1"} \subseteq DOMAIN f /\ f = [x \in DOMAIN f |-> f[x]]

\* bdos_f_read_ leaves the FCB at the next record, as the host will read it,
\* whatever extent boundary is crossed, and in the same module but at its end.
THEOREM AdvanceMovesOne ==
    ASSUME NEW f, InModule(f), HasFields(f), NEW n \in Nat, n < 4096, HostRecord(f) = n
    PROVE  IF n < 4095
           THEN InModule(Advance(f)) /\ HostRecord(Advance(f)) = n + 1
           ELSE HostRecord(Advance(f)) = 16384
<1> DEFINE r == n + 1
           g == Advance(f)
<1>1. f.cr \in 0..127 /\ f.ex \in 0..31 /\ f.s2 % 2 = 0
    BY SMT DEF InModule, OpenBit
<1>2. r \in 1..4096 /\ (n < 4095 \/ n = 4095)
    OBVIOUS
<1>3. f.cr + f.ex * 128 + (f.s2 % 2) * 16384 + 1 = r
    <2>1. n = f.ex * 128 + f.cr
        BY RecordOfModule
    <2>2. (f.s2 % 2) * 16384 = 0
        BY SMT DEF InModule, OpenBit
    <2> DEFINE c == f.cr
               e == f.ex
               k == (f.s2 % 2) * 16384
    <2>3. c \in 0..127 /\ e \in 0..31
        BY <1>1
    <2>4. k = 0
        BY <2>2
    <2>5. n = e * 128 + c
        BY <2>1
    <2> SUFFICES c + e * 128 + k + 1 = n + 1
        OBVIOUS
    <2> HIDE DEF c, e, k
    <2> QED
        BY <2>3, <2>4, <2>5, SMT
<1>4. /\ g.cr = r % 128
      /\ g.ex = (r \div 128) % 32
      /\ g.s2 = OpenBit + (r \div 128) \div 32
    BY <1>3 DEF Advance, HasFields
<1> HIDE DEF r, g
<1>5. r = (r \div 128) * 128 + (r % 128) /\ r % 128 \in 0..127 /\ r \div 128 \in 0..32
    BY <1>2, SMT
<1>6. CASE n < 4095
    <2>1. r < 4096
        BY <1>6 DEF r
    <2>2. r \div 128 \in 0..31
        BY <1>2, <2>1, SMT
    <2>3. g.ex = r \div 128 /\ g.s2 = OpenBit
        BY <1>4, <2>2, SMT DEF OpenBit
    <2>4. InModule(g)
        BY <1>4, <1>5, <2>2, <2>3 DEF InModule
    <2>5. HostRecord(g) = g.ex * 128 + g.cr
        BY <2>4, RecordOfModule
    <2>6. HostRecord(g) = r
        BY <1>2, <1>4, <1>5, <2>3, <2>5, SMT
    <2> QED
        BY <1>6, <2>4, <2>6 DEF g, r
<1>7. CASE n = 4095
    <2>1. g.cr = 0 /\ g.ex = 0 /\ g.s2 = 129
        BY <1>4, <1>7, SMT DEF OpenBit, r
    <2>2. HostRecord(g) = 16384
        BY <2>1, SMT DEF HostRecord
    <2> QED
        BY <1>7, <2>2 DEF g
<1> QED
    BY <1>2, <1>6, <1>7

\* bdos_f_readrand_ puts the FCB at the random record asked for, as the host
\* will read it.
THEOREM SeekFinds ==
    ASSUME NEW f, HasFields(f), NEW rr \in Nat, rr < 4096
    PROVE  /\ InModule(Seek(f, rr % 256, rr \div 256))
           /\ HostRecord(Seek(f, rr % 256, rr \div 256)) = rr
<1> DEFINE r0 == rr % 256
           r1 == rr \div 256
           g  == Seek(f, r0, r1)
<1>1. rr = r1 * 256 + r0 /\ r0 \in 0..255 /\ r1 \in 0..15
    BY SMT
<1> HIDE DEF r0, r1
<1>2. /\ g.cr = r0 % 128
      /\ g.ex = r0 \div 128 + (r1 % 16) * 2
      /\ g.s2 = r1 \div 16
    BY DEF Seek, HasFields
<1> HIDE DEF g
<1>3. r0 = (r0 \div 128) * 128 + (r0 % 128) /\ r0 % 128 \in 0..127 /\ r0 \div 128 \in 0..1
    BY <1>1, SMT
<1>4. g.ex = r0 \div 128 + r1 * 2 /\ g.s2 = 0
    BY <1>1, <1>2, SMT
<1>5. InModule(g)
    BY <1>1, <1>2, <1>3, <1>4, SMT DEF InModule
<1>6. HostRecord(g) = rr
    BY <1>1, <1>2, <1>3, <1>4, <1>5, RecordOfModule, SMT
<1> QED
    BY <1>5, <1>6 DEF g, r0, r1

-----------------------------------------------------------------------------
(* The frames of a record.                                                 *)

\* The bytes of the record at ofs, the data frames they take, and the i-th of them
\* as bdos_host_receivedma keeps it.
Bytes(f, ofs) == Least(recsize, f.size - ofs)
Frames(n) == (n + DmaMtu - 1) \div DmaMtu
Piece(f, ofs, i) ==
    [file |-> f, ofs |-> ofs + (i - 1) * DmaMtu,
     len |-> Least(DmaMtu, Bytes(f, ofs) - (i - 1) * DmaMtu)]
Pieces(s, f, ofs, k) == Len(s) = k /\ \A i \in 1..k : s[i] = Piece(f, ofs, i)

\* What is left of the transfer after k data frames.
FramesLeft(h, f, ofs, k) ==
    LET all == Bytes(f, ofs)
        n   == Frames(all)
    IN  /\ Len(h) = n - k + (IF all < recsize THEN 1 ELSE 0)
        /\ \A i \in 1..n - k : h[i] = Chunk(f, ofs, all, k + i)
        /\ all < recsize => h[n - k + 1] = Status(26)

\* The BDOS has received some of the record, and the rest is under way.
InFile(f, ofs) == f \in HostFile /\ ofs \in Nat /\ ofs < f.size
Reading(f, ofs) ==
    /\ InFile(f, ofs)
    /\ \E k \in 0..Frames(Bytes(f, ofs)) :
          /\ total = Least(k * DmaMtu, Bytes(f, ofs)) /\ total < recsize
          /\ Pieces(got, f, ofs, k) /\ FramesLeft(h2d, f, ofs, k)

\* The host has accepted the read.
Accepted(f, ofs) ==
    /\ InFile(f, ofs) /\ h2d # <<>> /\ h2d[1] = Status(0) /\ FramesLeft(Tail(h2d), f, ofs, 0)

LEMMA Positive == DmaMtu \in Nat /\ DmaMtu >= 1 /\ DmaMtu <= 128
BY MtuAssumption

LEMMA Monotone ==
    ASSUME NEW i \in Nat, NEW j \in Nat, i <= j
    PROVE  i * DmaMtu <= j * DmaMtu /\ i * DmaMtu \in Nat /\ (i + 1) * DmaMtu = i * DmaMtu + DmaMtu
BY Positive

\* As few frames as hold the bytes.
LEMMA FrameCount ==
    ASSUME NEW n \in 1..recsize
    PROVE  LET m == Frames(n) IN m \in Nat /\ m >= 1 /\ (m - 1) * DmaMtu < n /\ n <= m * DmaMtu
BY Positive DEF Frames, recsize

LEMMA BytesRange ==
    ASSUME NEW f, NEW ofs, InFile(f, ofs)
    PROVE  /\ Bytes(f, ofs) \in 1..recsize /\ ofs \in Nat /\ f \in HostFile /\ f.size \in Nat
           /\ Bytes(f, ofs) < recsize => Bytes(f, ofs) = f.size - ofs
<1>1. f.size \in 0..MaxSize
  BY SMT DEF InFile, HostFile
<1>2. f.size \in Nat
  <2>1. MaxSize \in Nat
    BY SMT DEF MaxSize
  <2>2. QED BY <1>1, <2>1
<1>3. QED BY <1>2 DEF InFile, Bytes, Least, recsize

\* The first k frames hold k times DmaMtu bytes, all of them what there is.
LEMMA Amount ==
    ASSUME NEW all \in 1..recsize, NEW k \in 0..Frames(all)
    PROVE  /\ k \in Nat /\ k * DmaMtu \in Nat /\ Least(k * DmaMtu, all) \in 0..all
           /\ k < Frames(all) =>
                 /\ k * DmaMtu < all
                 /\ Least(DmaMtu, all - k * DmaMtu) \in 1..128
                 /\ Least(k * DmaMtu, all) + Least(DmaMtu, all - k * DmaMtu) = Least((k + 1) * DmaMtu, all)
           /\ Least(k * DmaMtu, all) = all <=> k = Frames(all)
<1> DEFINE n == Frames(all)
           a == k * DmaMtu
<1>1. n \in Nat /\ n >= 1 /\ (n - 1) * DmaMtu < all /\ all <= n * DmaMtu
  BY FrameCount
<1>2. n - 1 \in Nat /\ k \in Nat
  BY <1>1
<1>3. a \in Nat /\ (k + 1) * DmaMtu = a + DmaMtu
  BY <1>2, Monotone
<1>4. k < n => a < all
  <2> SUFFICES ASSUME k < n PROVE a < all
    OBVIOUS
  <2>1. k <= n - 1
    BY <1>1, <1>2
  <2>2. a <= (n - 1) * DmaMtu
    BY <1>2, <2>1, Monotone
  <2>3. (n - 1) * DmaMtu \in Nat /\ all \in Nat
    BY <1>2, Monotone
  <2> HIDE DEF a, n
  <2>4. QED BY <1>1, <1>3, <2>2, <2>3
<1>5. k = n => all <= a
  BY <1>1
<1>6. k <= n /\ (k < n \/ k = n)
  BY <1>1, <1>2
<1> HIDE DEF a, n
<1>7. k < n => Least(DmaMtu, all - a) \in 1..128 /\ Least(a, all) + Least(DmaMtu, all - a) = Least(a + DmaMtu, all)
  BY <1>3, <1>4, Positive DEF Least, recsize
<1>8. Least(a, all) = all <=> k = n
  BY <1>3, <1>4, <1>5, <1>6 DEF Least
<1>9. Least(a, all) \in 0..all
  BY <1>3 DEF Least
<1>10. QED BY <1>2, <1>3, <1>4, <1>7, <1>8, <1>9 DEF a, n

\* Data frames and what is kept of them have their types.
LEMMA PieceType ==
    ASSUME NEW f, NEW ofs, InFile(f, ofs), NEW i \in 1..Frames(Bytes(f, ofs))
    PROVE  LET all == Bytes(f, ofs)
               c   == Chunk(f, ofs, all, i)
           IN  /\ Piece(f, ofs, i) \in Segment
               /\ Piece(f, ofs, i).file = f
               /\ Piece(f, ofs, i).ofs = ofs + (i - 1) * DmaMtu
               /\ Piece(f, ofs, i).len = Least(DmaMtu, all - (i - 1) * DmaMtu)
               /\ [file |-> c.file, ofs |-> c.ofs, len |-> c.len - 1] = Piece(f, ofs, i)
               /\ c \in Answer /\ c.status = 32 /\ c.len - 1 = Least(DmaMtu, all - (i - 1) * DmaMtu)
<1> DEFINE all == Bytes(f, ofs)
           a == (i - 1) * DmaMtu
           l == Least(DmaMtu, all - a)
           c == Chunk(f, ofs, all, i)
<1>1. all \in 1..recsize /\ ofs \in Nat /\ f \in HostFile
  BY BytesRange
<1> HIDE DEF all
<1>2. Frames(all) \in Nat
  BY <1>1, FrameCount
<1>3. i - 1 \in 0..Frames(all) /\ i - 1 < Frames(all)
  BY <1>2 DEF all
<1>4. a \in Nat /\ l \in 1..128
  BY <1>1, <1>3, Amount
<1>5. c = [status |-> 32, len |-> 1 + l, file |-> f, ofs |-> ofs + a]
  BY DEF Chunk
<1>6. Piece(f, ofs, i) = [file |-> f, ofs |-> ofs + a, len |-> l]
  BY DEF Piece, all
<1> HIDE DEF a, l, c
<1>7. (1 + l) - 1 = l /\ 1 + l \in 2..129 /\ ofs + a \in Nat
  BY <1>1, <1>4
<1>8. f \in File
  BY <1>1 DEF File
<1>9. Piece(f, ofs, i) \in Segment
  BY <1>4, <1>6, <1>7, <1>8 DEF Segment
<1>10. c \in [status : {32}, len : 2..129, file : HostFile, ofs : Nat]
  BY <1>1, <1>5, <1>7
<1>11. c \in Answer
  BY <1>10, Zenon DEF Answer
<1>12. c.status = 32 /\ c.len = 1 + l /\ c.file = f /\ c.ofs = ofs + a
  BY <1>5
<1>13. QED BY <1>6, <1>7, <1>9, <1>11, <1>12 DEF a, l, c, all

LEMMA StatusType == \A v \in {0, 1, 26, 255} : Status(v) \in Answer /\ Status(v).status = v /\ Status(v).len = 1
<1>1. ASSUME NEW v \in {0, 1, 26, 255} PROVE Status(v) \in [status : {0, 1, 26, 255}, len : {1}]
  BY DEF Status
<1>2. ASSUME NEW v \in {0, 1, 26, 255} PROVE Status(v) \in Answer
  <2>1. Status(v) \in [status : {0, 1, 26, 255}, len : {1}]
    BY <1>1
  <2>2. QED BY <2>1, Zenon DEF Answer
<1>3. QED BY <1>2 DEF Status

\* What HOST_READ sends for a record.
LEMMA TransferFrames ==
    ASSUME NEW f, NEW ofs, InFile(f, ofs)
    PROVE  LET t == Transfer(f, ofs) IN
           t \in Seq(Answer) /\ t # <<>> /\ t[1] = Status(0) /\ FramesLeft(Tail(t), f, ofs, 0)
<1> DEFINE all == Bytes(f, ofs)
           n == Frames(all)
           m == IF all < recsize THEN n + 2 ELSE n + 1
           F(i) == IF i = 1 THEN Status(0)
                   ELSE IF i <= n + 1 THEN Chunk(f, ofs, all, i - 1) ELSE Status(26)
           t == [i \in 1..m |-> F(i)]
<1>1. all \in 1..recsize
  BY BytesRange
<1>2. n \in Nat /\ n >= 1
  BY <1>1, FrameCount
<1>3. t = Transfer(f, ofs)
  BY DEF Transfer, Bytes, Frames
<1> HIDE DEF n
<1>4. m \in Nat /\ m >= 2
  BY <1>2
<1>5. ASSUME NEW i \in 1..m PROVE F(i) \in Answer
  <2>1. CASE i = 1
    BY <2>1, StatusType
  <2>2. CASE i # 1 /\ i <= n + 1
    <3>1. i - 1 \in 1..n
      BY <1>2, <1>4, <2>2
    <3>2. Chunk(f, ofs, all, i - 1) \in Answer
      BY <3>1, PieceType DEF n
    <3>3. QED BY <2>2, <3>2
  <2>3. CASE i # 1 /\ ~ i <= n + 1
    BY <2>3, StatusType
  <2>4. QED BY <2>1, <2>2, <2>3
<1> HIDE DEF all, F
<1>6. t \in Seq(Answer) /\ Len(t) = m
  BY <1>4, <1>5
<1>7. \A i \in 1..m : t[i] = F(i)
  OBVIOUS
<1> HIDE DEF t
<1>8. t # <<>>
  BY <1>4, <1>6
<1>9. Tail(t) \in Seq(Answer) /\ Len(Tail(t)) = m - 1 /\ \A i \in 1..m - 1 : Tail(t)[i] = t[i + 1]
  BY <1>6, <1>8, HeadTailProperties
<1>10. t[1] = Status(0)
  BY <1>4, <1>7 DEF F
<1>11. ASSUME NEW i \in 1..n - 0 PROVE Tail(t)[i] = Chunk(f, ofs, all, 0 + i)
  <2>1. i \in 1..m - 1 /\ i + 1 \in 1..m /\ i + 1 # 1 /\ i + 1 <= n + 1 /\ (i + 1) - 1 = i /\ 0 + i = i
    BY <1>2, <1>4
  <2>2. Tail(t)[i] = F(i + 1)
    BY <1>7, <1>9, <2>1
  <2>3. QED BY <2>1, <2>2 DEF F
<1>12. ASSUME all < recsize PROVE Tail(t)[n - 0 + 1] = Status(26)
  <2>1. n - 0 + 1 = n + 1 /\ n + 1 \in 1..m - 1 /\ n + 2 \in 1..m /\ n + 2 # 1 /\ ~ n + 2 <= n + 1 /\ (n + 1) + 1 = n + 2
    BY <1>2, <1>12
  <2>2. Tail(t)[n + 1] = F(n + 2)
    BY <1>7, <1>9, <2>1
  <2>3. QED BY <2>1, <2>2 DEF F
<1>13. Len(Tail(t)) = n - 0 + (IF all < recsize THEN 1 ELSE 0)
  BY <1>2, <1>9
<1>14. FramesLeft(Tail(t), f, ofs, 0)
  BY <1>11, <1>12, <1>13 DEF FramesLeft, all, n
<1>15. QED BY <1>3, <1>6, <1>8, <1>10, <1>14

\* Taking the next data frame leaves the frames behind it.
LEMMA NextFrame ==
    ASSUME NEW f, NEW ofs, InFile(f, ofs), NEW h \in Seq(Answer),
           NEW k \in 0..Frames(Bytes(f, ofs)), FramesLeft(h, f, ofs, k)
    PROVE  LET all == Bytes(f, ofs)
               n   == Frames(all)
           IN  /\ k < n => /\ h # <<>> /\ Head(h) = Chunk(f, ofs, all, k + 1)
                           /\ FramesLeft(Tail(h), f, ofs, k + 1)
               /\ k = n /\ all < recsize => h = <<Status(26)>>
               /\ k = n /\ all = recsize => h = <<>>
<1> DEFINE all == Bytes(f, ofs)
           n == Frames(all)
           e == IF all < recsize THEN 1 ELSE 0
<1>1. all \in 1..recsize /\ recsize = 128
  BY BytesRange DEF recsize
<1>2. n \in Nat /\ n >= 1 /\ k \in Nat
  <2>1. n \in Nat /\ n >= 1
    BY <1>1, FrameCount
  <2>2. QED BY <2>1
<1>3. /\ Len(h) = n - k + e
      /\ \A i \in 1..n - k : h[i] = Chunk(f, ofs, all, k + i)
      /\ all < recsize => h[n - k + 1] = Status(26)
  BY DEF FramesLeft
<1> HIDE DEF n, all
<1>4. ASSUME k < n
      PROVE  h # <<>> /\ Head(h) = Chunk(f, ofs, all, k + 1) /\ FramesLeft(Tail(h), f, ofs, k + 1)
  <2>1. Len(h) >= 1 /\ 1 \in 1..n - k
    BY <1>2, <1>3, <1>4
  <2>2. h # <<>>
    BY <2>1, EmptySeq
  <2>3. /\ Head(h) = h[1] /\ Len(Tail(h)) = Len(h) - 1
        /\ \A i \in 1..Len(h) - 1 : Tail(h)[i] = h[i + 1]
    BY <2>2, HeadTailProperties
  <2>4. Len(Tail(h)) = n - (k + 1) + e
    BY <1>2, <1>3, <2>3
  <2>5. ASSUME NEW i \in 1..n - (k + 1) PROVE Tail(h)[i] = Chunk(f, ofs, all, (k + 1) + i)
    <3>1. i + 1 \in 1..n - k /\ i \in 1..Len(h) - 1 /\ k + (i + 1) = (k + 1) + i
      BY <1>2, <1>3
    <3>2. QED BY <1>3, <2>3, <3>1
  <2>6. ASSUME all < recsize PROVE Tail(h)[n - (k + 1) + 1] = Status(26)
    <3>1. n - (k + 1) + 1 = n - k /\ n - k \in 1..Len(h) - 1
      BY <1>2, <1>3, <1>4, <2>6
    <3>2. QED BY <1>3, <2>3, <2>6, <3>1
  <2>7. FramesLeft(Tail(h), f, ofs, k + 1)
    BY <2>4, <2>5, <2>6 DEF FramesLeft, n, all
  <2>8. QED BY <1>3, <2>1, <2>2, <2>3, <2>7
<1>5. ASSUME k = n, all < recsize PROVE h = <<Status(26)>>
  <2>1. Len(h) = 1 /\ h[1] = Status(26)
    BY <1>2, <1>3, <1>5
  <2>2. QED BY <2>1
<1>6. ASSUME k = n, all = recsize PROVE h = <<>>
  <2>1. Len(h) = 0
    BY <1>1, <1>2, <1>3, <1>6
  <2>2. QED BY <2>1, EmptySeq
<1>7. QED BY <1>4, <1>5, <1>6 DEF n, all

-----------------------------------------------------------------------------
(* What is under way while the BDOS waits.                                 *)

\* Requests that are not answered.
Quiet(fn) == fn \in {"close", "write"}

\* The request the BDOS waits for is under way, behind others that are not answered ...
Asked(fn) ==
    \/ pc = "open" /\ fn = "open"
    \/ pc = "entry" /\ fn \in {"sfirst", "snext"}
    \/ pc = "status" /\ fn = "read"
Waiting ==
    /\ h2d = <<>> /\ d2h # <<>>
    /\ Asked(d2h[Len(d2h)].fn) /\ \A i \in 1..Len(d2h) - 1 : Quiet(d2h[i].fn)

\* ... or was the one that stopped the host ...
Dropped == hpc = "stopped" /\ h2d = <<>> /\ d2h = <<>>

\* ... or its answer is.
OpenAnswer  == {Status(255)} \cup [status : {0}, len : {37}, fcb : Fcbs, file : HostFile]
EntryAnswer == {Status(255)} \cup [status : {0}, len : {33}, name : Name]
Replied ==
    /\ d2h = <<>>
    /\ \/ pc = "open" /\ Len(h2d) = 1 /\ h2d[1] \in OpenAnswer
       \/ pc = "entry" /\ Len(h2d) = 1 /\ h2d[1] \in EntryAnswer
       \/ /\ pc = "status"
          /\ (\E v \in {1, 255} : h2d = <<Status(v)>>) \/ \E f, ofs : Accepted(f, ofs)

\* The byte behind an FCB or behind the DMA area.
Behind == {a + 36 : a \in FcbAddr} \cup {d + 128 : d \in DmaAddr}

Sync ==
    /\ pc = "program" => h2d = <<>> /\ \A i \in 1..Len(d2h) : Quiet(d2h[i].fn)
    /\ pc \in {"open", "entry", "status"} => Waiting \/ Dropped \/ Replied
    /\ pc = "status" => got = <<>> /\ total = 0
    /\ pc = "data" => d2h = <<>> /\ \E f, ofs : Reading(f, ofs)
    /\ pc # "program" => call.at \in FcbAddr
    /\ total <= recsize /\ junk \subseteq Behind

IInv == TypeOK /\ Sync

-----------------------------------------------------------------------------
(* Types of FCBs.                                                          *)

\* Setting fields of an FCB to bytes leaves an FCB.
LEMMA FcbFields ==
    ASSUME NEW f \in Fcbs
    PROVE  /\ \A s \in Byte : [f EXCEPT !.s2 = s] \in Fcbs
           /\ \A d \in Byte, n \in Name \cup {AnyName}, s \in Byte :
                 /\ [f EXCEPT !.dr = d, !.name = n] \in Fcbs
                 /\ [f EXCEPT !.dr = d, !.name = n, !.ex = s] \in Fcbs
                 /\ [f EXCEPT !.dr = d, !.name = n, !.s2 = s] \in Fcbs
           /\ f.cr \in Byte /\ f.ex \in Byte /\ f.s2 \in Byte /\ f.dr \in Byte
           /\ f.name \in Name \cup {AnyName}
BY DEF Fcbs

\* Bytes stay bytes in the arithmetic on FCBs.
LEMMA RecordBound ==
    ASSUME NEW c \in Byte, NEW e \in Byte, NEW s \in Byte
    PROVE  LET n == c + e * 128 + (s % 2) * 16384 + 1 IN n \in Nat /\ n <= 49280
<1> DEFINE k == s % 2
<1>1. k \in 0..1
    BY SMT DEF Byte
<1> HIDE DEF k
<1>2. c + e * 128 + k * 16384 + 1 \in Nat /\ c + e * 128 + k * 16384 + 1 <= 49280
    BY <1>1, SMT DEF Byte
<1> QED BY <1>2, SMT DEF k

LEMMA Carries ==
    ASSUME NEW n \in Nat, n <= 49280
    PROVE  n % 128 \in Byte /\ (n \div 128) % 32 \in Byte /\ OpenBit + (n \div 128) \div 32 \in Byte
<1> DEFINE x == n \div 128
<1>1. x \in Nat /\ x <= 385 /\ n % 128 \in 0..127
    BY Z3
<1> HIDE DEF x
<1>2. x % 32 \in 0..31 /\ x \div 32 \in Nat /\ x \div 32 <= 12
    BY <1>1, Z3
<1>3. n % 128 \in Byte /\ x % 32 \in Byte /\ OpenBit + x \div 32 \in Byte
    BY <1>1, <1>2, SMT DEF Byte, OpenBit
<1> QED BY <1>3 DEF x

LEMMA AdvanceType ==
    ASSUME NEW f \in Fcbs
    PROVE  Advance(f) \in Fcbs
<1> DEFINE n == f.cr + f.ex * 128 + (f.s2 % 2) * 16384 + 1
           c == n % 128
           e == (n \div 128) % 32
           v == OpenBit + (n \div 128) \div 32
<1>1. n \in Nat /\ n <= 49280
    <2>1. f.cr \in Byte /\ f.ex \in Byte /\ f.s2 \in Byte
        BY FcbFields
    <2> QED BY <2>1, RecordBound
<1>2. Advance(f) = [f EXCEPT !.cr = c, !.ex = e, !.s2 = v]
    BY SMT DEF Advance
<1> HIDE DEF n
<1>3. c \in Byte /\ e \in Byte /\ v \in Byte
    BY <1>1, Carries, SMT
<1> HIDE DEF c, e, v
<1> QED BY <1>2, <1>3 DEF Fcbs

LEMMA SeekType ==
    ASSUME NEW f \in Fcbs, NEW r0 \in Byte, NEW r1 \in Byte
    PROVE  Seek(f, r0, r1) \in Fcbs
<1> DEFINE c == r0 % 128
           e == r0 \div 128 + (r1 % 16) * 2
           v == r1 \div 16
<1>1. r0 % 128 \in 0..127 /\ r0 \div 128 \in Nat /\ r0 \div 128 <= 1
    BY Z3 DEF Byte
<1>2. r1 % 16 \in 0..15 /\ r1 \div 16 \in Nat /\ r1 \div 16 <= 15
    BY Z3 DEF Byte
<1>3. c \in Byte /\ e \in Byte /\ v \in Byte
    BY <1>1, <1>2, SMT DEF Byte
<1>4. Seek(f, r0, r1) = [f EXCEPT !.r0 = r0, !.r1 = r1, !.cr = c, !.ex = e, !.s2 = v]
    BY DEF Seek
<1> HIDE DEF c, e, v
<1>5. QED BY <1>3, <1>4 DEF Fcbs

LEMMA ClosedType ==
    ASSUME NEW f \in Fcbs
    PROVE  Closed(f) \in Fcbs
<1>1. \A x \in Byte : x % OpenBit \in Byte
    BY SMT DEF Byte, OpenBit
<1>2. f.s2 \in Byte
    BY FcbFields
<1> QED BY <1>1, <1>2, FcbFields, Zenon DEF Closed

LEMMA NewFcbType == NoFcb \in Fcbs
BY SMT DEF NoFcb, Fcbs, Byte

LEMMA OpenedType ==
    ASSUME NEW f \in Fcbs, NEW file \in HostFile
    PROVE  OpenedFcb(f, file) \in Fcbs
<1>1. \A x \in Nat : OpenBit + ((x \div 524288) % OpenBit) \in Byte
    BY SMT DEF Byte, OpenBit
<1>2. file.size \in Nat
    <2>1. MaxSize \in Nat
        BY SMT DEF MaxSize
    <2>2. file.size \in 0..MaxSize
        BY SMT DEF HostFile
    <2> QED BY <2>1, <2>2, SMT
<1>3. OpenBit + ((file.size \div 524288) % OpenBit) \in Byte
    BY <1>1, <1>2, SMT
<1>4. \A d \in Byte, n \in Name \cup {AnyName}, s \in Byte :
         [NoFcb EXCEPT !.dr = d, !.name = n, !.s2 = s] \in Fcbs
    BY NewFcbType, FcbFields, Zenon
<1> DEFINE v == OpenBit + ((file.size \div 524288) % OpenBit)
<1>5. OpenedFcb(f, file) = [NoFcb EXCEPT !.dr = f.dr, !.name = f.name, !.s2 = v]
    BY SMT DEF OpenedFcb
<1>6. v \in Byte
    BY <1>3, SMT
<1>7. f.dr \in Byte /\ f.name \in Name \cup {AnyName}
    BY FcbFields
<1> HIDE DEF v
<1> QED BY <1>4, <1>5, <1>6, <1>7

\* The initial values and those of a call that reports an error.
LEMMA NoneTypes ==
    /\ NoFile \in File /\ NoCall \in Pending /\ NoRet \in Result
    /\ \A v \in Byte : [NoRet EXCEPT !.a = v] \in Result
<1>1. NoFile \in File
  BY DEF File
<1>2. NoCall \in Pending
  BY <1>1 DEF NoCall, Pending
<1>3. <<>> \in Seq(Segment)
  OBVIOUS
<1>4. NoRet \in Result
  BY <1>3 DEF NoRet, Result, Byte
<1>5. \A v \in Byte : [NoRet EXCEPT !.a = v] \in Result
  BY <1>4 DEF Result
<1>6. QED BY <1>1, <1>2, <1>4, <1>5

\* What the program passes to a call has its type.
LEMMA InputTypes ==
    /\ \A dr \in Drive, n \in Name \cup Pattern : dr \in Byte /\ n \in Name \cup {AnyName}
    /\ \A rr \in Rand : rr \in Nat /\ rr % 256 \in Byte /\ rr \div 256 \in Byte
<1>1. ASSUME NEW dr \in Drive, NEW n \in Name \cup Pattern PROVE dr \in Byte /\ n \in Name \cup {AnyName}
  BY InputAssumption, NameAssumption
<1>2. ASSUME NEW rr \in Rand PROVE rr \in Nat /\ rr % 256 \in Byte /\ rr \div 256 \in Byte
  <2>1. rr \in Nat /\ rr <= 65535
    <3>1. rr \in Word
      BY InputAssumption
    <3>2. QED BY <3>1, SMT DEF Word
  <2>2. rr % 256 \in 0..255 /\ rr \div 256 \in Nat /\ rr \div 256 <= 255
    BY <2>1, Z3
  <2>3. QED BY <2>1, <2>2 DEF Byte
<1>3. QED BY <1>1, <1>2

-----------------------------------------------------------------------------
(* The requests under way.                                                 *)

\* A request that is not answered joins others that are not.
LEMMA Untold ==
    ASSUME IInv, pc = "program", NEW q \in Request, Quiet(q.fn), d2h' = Append(d2h, q)
    PROVE  d2h' \in Seq(Request) /\ \A i \in 1..Len(d2h') : Quiet(d2h'[i].fn)
<1>1. d2h \in Seq(Request) /\ \A i \in 1..Len(d2h) : Quiet(d2h[i].fn)
  BY DEF IInv, TypeOK, Sync
<1>2. QED BY <1>1

\* A request that is answered is the last one under way.
LEMMA Asks ==
    ASSUME IInv, pc = "program", NEW q \in Request, d2h' = Append(d2h, q), h2d' = h2d,
           Asked(q.fn)'
    PROVE  d2h' \in Seq(Request) /\ d2h'[Len(d2h')] = q /\ Waiting'
<1>1. d2h \in Seq(Request) /\ h2d = <<>> /\ \A i \in 1..Len(d2h) : Quiet(d2h[i].fn)
  BY DEF IInv, TypeOK, Sync
<1>2. /\ d2h' \in Seq(Request) /\ Len(d2h') = Len(d2h) + 1 /\ d2h'[Len(d2h')] = q
      /\ Len(d2h) \in Nat /\ \A i \in 1..Len(d2h') - 1 : d2h'[i] = d2h[i]
  BY <1>1
<1>3. d2h' # <<>>
  BY <1>2, EmptySeq
<1>4. Asked(d2h[Len(d2h)].fn)'
  BY <1>2 DEF Asked
<1>5. QED BY <1>1, <1>2, <1>3, <1>4 DEF Waiting

-----------------------------------------------------------------------------
(* The calls keep both ends in step.                                       *)

LEMMA OpenKeeps ==
    ASSUME IInv, NEW a \in FcbAddr, NEW dr \in Drive, NEW n \in Name, Open(a, dr, n)
    PROVE  IInv'
<1> DEFINE f == [NoFcb EXCEPT !.dr = dr, !.name = n]
           q == [fn |-> "open", fcb |-> f]
<1>1. f \in Fcbs
  BY NewFcbType, InputTypes, FcbFields
<1>2. q \in Request
  BY <1>1 DEF Request, FnName
<1>3. pc = "program" /\ pc' = "open" /\ d2h' = Append(d2h, q) /\ h2d' = h2d
  BY DEF Open, Send
<1> HIDE DEF f
<1>4. Asked(q.fn)'
  BY <1>3 DEF Asked
<1>5. d2h' \in Seq(Request) /\ Waiting'
  BY <1>2, <1>3, <1>4, Asks
<1>6. call' \in Pending /\ call'.at = a
  BY NoneTypes DEF Open, NoCall, Pending, FnName
<1>7. TypeOK'
  BY <1>1, <1>3, <1>5, <1>6, NoneTypes DEF Open, IInv, TypeOK, host, f
<1>8. Sync'
  BY <1>3, <1>5, <1>6 DEF Open, IInv, Sync
<1>9. QED BY <1>7, <1>8 DEF IInv

LEMMA CloseKeeps ==
    ASSUME IInv, NEW a \in FcbAddr, Close(a)
    PROVE  IInv'
<1> DEFINE q == [fn |-> "close", fcb |-> fcb[a]]
<1>1. fcb[a] \in Fcbs
  BY DEF IInv, TypeOK
<1>2. q \in Request /\ Quiet(q.fn)
  BY <1>1 DEF Request, FnName, Quiet
<1>3. pc = "program" /\ pc' = "program" /\ d2h' = Append(d2h, q) /\ h2d' = h2d
  BY DEF Close, Send
<1>5. d2h' \in Seq(Request) /\ \A i \in 1..Len(d2h') : Quiet(d2h'[i].fn)
  BY <1>2, <1>3, Untold
<1>6. call' \in Pending /\ call'.at = a
  BY NoneTypes DEF Close, NoCall, Pending, FnName
<1>7. fcb' \in [FcbAddr -> Fcbs]
  <2>1. fcb' = [fcb EXCEPT ![a] = Closed(fcb[a])] /\ fcb \in [FcbAddr -> Fcbs]
    BY DEF Close, IInv, TypeOK
  <2>2. Closed(fcb[a]) \in Fcbs
    BY <1>1, ClosedType
  <2>3. QED BY <2>1, <2>2
<1>8. TypeOK'
  BY <1>3, <1>5, <1>6, <1>7, NoneTypes DEF Close, IInv, TypeOK, host
<1>9. Sync'
  BY <1>3, <1>5 DEF Close, IInv, Sync
<1>10. QED BY <1>8, <1>9 DEF IInv

LEMMA WriteKeeps ==
    ASSUME IInv, NEW a \in FcbAddr, Write(a)
    PROVE  IInv'
<1> DEFINE q == [fn |-> "write", fcb |-> fcb[a]]
<1>1. fcb[a] \in Fcbs
  BY DEF IInv, TypeOK
<1>2. q \in Request /\ Quiet(q.fn)
  BY <1>1 DEF Request, FnName, Quiet
<1>3. pc = "program" /\ pc' = "program" /\ d2h' = Append(d2h, q) /\ h2d' = h2d
  BY DEF Write, Send
<1>4. d2h' \in Seq(Request) /\ \A i \in 1..Len(d2h') : Quiet(d2h'[i].fn)
  BY <1>2, <1>3, Untold
<1>5. call' \in Pending
  BY NoneTypes DEF Write, NoCall, Pending, FnName
<1>6. TypeOK'
  BY <1>3, <1>4, <1>5, NoneTypes DEF Write, IInv, TypeOK, host, history
<1>7. Sync'
  BY <1>3, <1>4 DEF Write, IInv, Sync
<1>8. QED BY <1>6, <1>7 DEF IInv

LEMMA ReadKeeps ==
    ASSUME IInv, NEW a \in FcbAddr, Read(a)
    PROVE  IInv'
<1> DEFINE q == [fn |-> "read", fcb |-> fcb[a]]
<1>1. fcb[a] \in Fcbs /\ opened[a] \in File /\ next[a] \in Nat
  BY DEF IInv, TypeOK
<1>2. q \in Request
  BY <1>1 DEF Request, FnName
<1>3. pc = "program" /\ pc' = "status" /\ d2h' = Append(d2h, q) /\ h2d' = h2d
  BY DEF Read, Send
<1>4. Asked(q.fn)'
  BY <1>3 DEF Asked
<1>5. d2h' \in Seq(Request) /\ Waiting'
  BY <1>2, <1>3, <1>4, Asks
<1>6. call' \in Pending /\ call'.at = a
  BY <1>1 DEF Read, Pending, FnName
<1>7. TypeOK'
  BY <1>3, <1>5, <1>6 DEF Read, IInv, TypeOK, host, history
<1>8. total' = 0 /\ got' = <<>> /\ junk' = junk
  BY DEF Read
<1>9. Sync'
  BY <1>3, <1>5, <1>6, <1>8 DEF IInv, Sync, recsize
<1>10. QED BY <1>7, <1>9 DEF IInv

LEMMA ReadRandomKeeps ==
    ASSUME IInv, NEW a \in FcbAddr, NEW rr \in Rand, ReadRandom(a, rr)
    PROVE  IInv'
<1> DEFINE f == Seek(fcb[a], rr % 256, rr \div 256)
           q == [fn |-> "read", fcb |-> f]
<1>1. fcb[a] \in Fcbs /\ opened[a] \in File /\ rr \in Nat
  BY InputTypes DEF IInv, TypeOK
<1>2. f \in Fcbs
  BY <1>1, InputTypes, SeekType
<1>3. pc = "program" /\ pc' = "status" /\ d2h' = Append(d2h, q) /\ h2d' = h2d
  BY DEF ReadRandom, Send
<1>4. /\ fcb' = [fcb EXCEPT ![a] = f] /\ next' = [next EXCEPT ![a] = rr]
      /\ call' = [fn |-> "readrand", at |-> a, file |-> opened[a], rec |-> rr]
      /\ total' = 0 /\ got' = <<>> /\ junk' = junk
  BY DEF ReadRandom
<1> HIDE DEF f
<1>5. q \in Request /\ Asked(q.fn)'
  BY <1>2, <1>3 DEF Request, FnName, Asked
<1>6. d2h' \in Seq(Request) /\ Waiting'
  BY <1>3, <1>5, Asks
<1>7. call' \in Pending /\ call'.at = a
  BY <1>1, <1>4 DEF Pending
<1>8. TypeOK'
  BY <1>1, <1>2, <1>3, <1>4, <1>6, <1>7 DEF ReadRandom, IInv, TypeOK, host
<1>9. Sync'
  BY <1>3, <1>4, <1>6, <1>7 DEF IInv, Sync, recsize
<1>10. QED BY <1>8, <1>9 DEF IInv

\* The entry the search works on.
LEMMA SearchKeeps ==
    ASSUME IInv, NEW fn \in {"sfirst", "snext"}, NEW a \in FcbAddr, NEW f \in Fcbs, Search(fn, a, f),
           listing' \in Seq(HostFile), listed' \in Seq(Name)
    PROVE  IInv'
<1> DEFINE q == [fn |-> fn, fcb |-> f]
<1>1. q \in Request
  BY DEF Request, FnName
<1>2. pc = "program" /\ pc' = "entry" /\ d2h' = Append(d2h, q) /\ h2d' = h2d
  BY DEF Search, Send
<1>3. Asked(q.fn)'
  BY <1>2 DEF Asked
<1>4. d2h' \in Seq(Request) /\ Waiting'
  BY <1>1, <1>2, <1>3, Asks
<1>5. call' \in Pending /\ call'.at = a
  BY NoneTypes DEF Search, NoCall, Pending, FnName
<1>6. slot' \in 0..3
  BY DEF Search, IInv, TypeOK
<1>7. fcb' \in [FcbAddr -> Fcbs]
  BY DEF Search, IInv, TypeOK
<1>8. TypeOK'
  BY <1>2, <1>4, <1>5, <1>6, <1>7 DEF Search, IInv, TypeOK, host
<1>9. Sync'
  BY <1>2, <1>4, <1>5 DEF Search, IInv, Sync
<1>10. QED BY <1>8, <1>9 DEF IInv

\* The mount of a drive, and the one fcb.h means by it.
LEMMA MountTypes ==
    /\ \A m \in 1..Len(Mounts) : Mounts[m] \in Seq(HostFile)
    /\ \A dr \in Byte : /\ NamedMount(dr) \in 1..Len(Mounts)
                        /\ ~NoSuchMount(dr) => MountOf(dr) \in 1..Len(Mounts)
<1>1. Mounts \in Seq(Seq(HostFile)) /\ Mounts # <<>>
  BY MountsAssumption
<1>2. Len(Mounts) \in Nat /\ Len(Mounts) >= 1
  BY <1>1, EmptySeq
<1>3. \A m \in 1..Len(Mounts) : Mounts[m] \in Seq(HostFile)
  BY <1>1, ElementOfSeq
<1>4. \A dr \in Byte : /\ NamedMount(dr) \in 1..Len(Mounts)
                       /\ ~NoSuchMount(dr) => MountOf(dr) \in 1..Len(Mounts)
  BY <1>2 DEF NamedMount, NoSuchMount, MountOf, Byte
<1>5. QED BY <1>3, <1>4

LEMMA SearchFirstKeeps ==
    ASSUME IInv, NEW a \in FcbAddr, NEW dr \in Drive, NEW n \in Pattern, SearchFirst(a, dr, n)
    PROVE  IInv'
<1>1. fcb[a] \in Fcbs /\ dr \in Byte /\ n \in Name \cup {AnyName} /\ 0 \in Byte
  BY InputTypes DEF IInv, TypeOK, Byte
<1>2. PICK f \in Fcbs : f = [fcb[a] EXCEPT !.dr = dr, !.name = n, !.ex = 0]
  BY <1>1, FcbFields
<1>3. Search("sfirst", a, f) /\ listing' = Mounts[NamedMount(dr)] /\ listed' = <<>>
  BY <1>2 DEF SearchFirst
<1>4. listing' \in Seq(HostFile) /\ listed' \in Seq(Name)
  BY <1>1, <1>3, MountTypes
<1>5. QED BY <1>3, <1>4, SearchKeeps

LEMMA SearchNextKeeps ==
    ASSUME IInv, NEW a \in FcbAddr, SearchNext(a)
    PROVE  IInv'
<1>1. fcb[a] \in Fcbs /\ listing \in Seq(HostFile) /\ listed \in Seq(Name)
  BY DEF IInv, TypeOK
<1>2. Search("snext", a, fcb[a]) /\ listing' = listing /\ listed' = listed
  BY DEF SearchNext
<1>3. QED BY <1>1, <1>2, SearchKeeps

LEMMA SetDmaKeeps ==
    ASSUME IInv, NEW d \in DmaAddr, SetDma(d)
    PROVE  IInv'
<1>1. TypeOK'
  BY DEF SetDma, IInv, TypeOK, host, history
<1>2. Sync'
  BY DEF SetDma, IInv, Sync
<1>3. QED BY <1>1, <1>2 DEF IInv

LEMMA WarmBootKeeps ==
    ASSUME IInv, WarmBoot
    PROVE  IInv'
<1>1. TypeOK'
  BY NoneTypes, AddrAssumption DEF WarmBoot, IInv, TypeOK, host
<1>2. Sync'
  BY DEF WarmBoot, IInv, Sync
<1>3. QED BY <1>1, <1>2 DEF IInv

-----------------------------------------------------------------------------
(* The answers keep both ends in step.                                     *)

\* Neither answer is written further than one byte behind its buffer.
LEMMA OneByteBehind ==
    /\ \A a \in FcbAddr : Copied(a, 37) \ (a..a + 35) \subseteq Behind
    /\ \A d \in DmaAddr, s \in 0..3 : Copied(d + s * 32, 33) \ (d..d + 127) \subseteq Behind
    /\ Behind \subseteq Nat
<1>1. \A a \in FcbAddr : a \in Nat
  BY AddrAssumption
<1>2. \A d \in DmaAddr : d \in Nat
  BY AddrAssumption
<1>3. ASSUME NEW a \in FcbAddr, NEW x \in Copied(a, 37) \ (a..a + 35) PROVE x \in Behind
  <2>1. x = a + 36
    BY <1>1 DEF Copied
  <2>2. QED BY <2>1 DEF Behind
<1>4. ASSUME NEW d \in DmaAddr, NEW s \in 0..3, NEW x \in Copied(d + s * 32, 33) \ (d..d + 127)
      PROVE  x \in Behind
  <2>1. x = d + 128
    BY <1>2 DEF Copied
  <2>2. QED BY <2>1 DEF Behind
<1>5. Behind \subseteq Nat
  BY <1>1, <1>2 DEF Behind
<1>6. QED BY <1>3, <1>4, <1>5

\* What the BDOS receives while it waits.
LEMMA Heard ==
    ASSUME IInv, h2d # <<>>, pc \in {"open", "entry", "status"}
    PROVE  Replied /\ d2h = <<>> /\ call.at \in FcbAddr
BY DEF IInv, Sync, Waiting, Dropped, Replied

LEMMA ReceiveOpenKeeps ==
    ASSUME IInv, ReceiveOpen
    PROVE  IInv'
<1> DEFINE r == Head(h2d)
           a == call.at
<1>1. pc = "open" /\ h2d # <<>> /\ pc' = "program" /\ h2d' = Tail(h2d) /\ d2h' = d2h
  BY DEF ReceiveOpen
<1>2. d2h = <<>> /\ a \in FcbAddr /\ Len(h2d) = 1 /\ r \in OpenAnswer /\ h2d \in Seq(Answer)
  <2>1. d2h = <<>> /\ a \in FcbAddr /\ Len(h2d) = 1 /\ h2d[1] \in OpenAnswer /\ h2d \in Seq(Answer)
    BY <1>1, Heard DEF Replied, IInv, TypeOK
  <2>2. QED BY <1>1, <2>1
<1>3. h2d' = <<>>
  BY <1>1, <1>2
<1>4. r.status # 255 => r.len = 37 /\ r.fcb \in Fcbs /\ r.file \in HostFile
  BY <1>2 DEF OpenAnswer, Status
<1> HIDE DEF r, a
<1>5. junk' \subseteq Behind
  <2>1. junk \subseteq Behind
    BY DEF IInv, Sync
  <2>2. r.status = 255 => junk' = junk
    BY DEF ReceiveOpen, r
  <2>3. r.status # 255 => junk' = (Copied(a, 37) \ (a..a + 35))
    BY <1>4 DEF ReceiveOpen, r, a
  <2>4. QED BY <1>2, <2>1, <2>2, <2>3, OneByteBehind
<1>6. fcb' \in [FcbAddr -> Fcbs] /\ opened' \in [FcbAddr -> File] /\ next' \in [FcbAddr -> Nat] /\ ret' \in Result
  <2>1. fcb \in [FcbAddr -> Fcbs] /\ opened \in [FcbAddr -> File] /\ next \in [FcbAddr -> Nat]
    BY DEF IInv, TypeOK
  <2>2. CASE r.status = 255
    <3>1. ret' = [NoRet EXCEPT !.a = 255] /\ fcb' = fcb /\ opened' = opened /\ next' = next
      BY <2>2 DEF ReceiveOpen, r
    <3>2. 255 \in Byte
      BY DEF Byte
    <3>3. QED BY <2>1, <3>1, <3>2, NoneTypes
  <2>3. CASE r.status # 255
    <3>1. /\ ret' = NoRet /\ fcb' = [fcb EXCEPT ![a] = r.fcb] /\ opened' = [opened EXCEPT ![a] = r.file]
          /\ next' = [next EXCEPT ![a] = 0]
      BY <2>3 DEF ReceiveOpen, r, a
    <3>2. r.file \in File
      BY <1>4, <2>3 DEF File
    <3>3. QED BY <1>2, <1>4, <2>1, <2>3, <3>1, <3>2, NoneTypes
  <2>4. QED BY <2>2, <2>3
<1>7. junk' \subseteq Nat
  BY <1>5, OneByteBehind
<1>8. TypeOK'
  BY <1>1, <1>2, <1>3, <1>6, <1>7 DEF ReceiveOpen, IInv, TypeOK, host
<1>9. Sync'
  BY <1>1, <1>2, <1>3, <1>5 DEF ReceiveOpen, IInv, Sync
<1>10. QED BY <1>8, <1>9 DEF IInv

LEMMA ReceiveEntryKeeps ==
    ASSUME IInv, ReceiveEntry
    PROVE  IInv'
<1> DEFINE r == Head(h2d)
<1>1. pc = "entry" /\ h2d # <<>> /\ pc' = "program" /\ h2d' = Tail(h2d) /\ d2h' = d2h
  BY DEF ReceiveEntry
<1>2. d2h = <<>> /\ Len(h2d) = 1 /\ r \in EntryAnswer /\ h2d \in Seq(Answer)
  <2>1. d2h = <<>> /\ Len(h2d) = 1 /\ h2d[1] \in EntryAnswer /\ h2d \in Seq(Answer)
    BY <1>1, Heard DEF Replied, IInv, TypeOK
  <2>2. QED BY <1>1, <2>1
<1>3. h2d' = <<>>
  BY <1>1, <1>2
<1>4. r.status # 255 => r.len = 33 /\ r.name \in Name
  BY <1>2 DEF EntryAnswer, Status
<1> HIDE DEF r
<1>5. dma \in DmaAddr /\ slot \in 0..3 /\ slot \in Byte /\ 255 \in Byte
  BY DEF IInv, TypeOK, Byte
<1>6. junk' \subseteq Behind
  <2>1. junk \subseteq Behind
    BY DEF IInv, Sync
  <2>2. r.status = 255 => junk' = junk
    BY DEF ReceiveEntry, r
  <2>3. r.status # 255 => junk' = (Copied(dma + slot * 32, 33) \ (dma..dma + 127))
    BY <1>4 DEF ReceiveEntry, r
  <2>4. QED BY <1>5, <2>1, <2>2, <2>3, OneByteBehind
<1>7. ret' \in Result /\ listed' \in Seq(Name)
  <2>1. listed \in Seq(Name)
    BY DEF IInv, TypeOK
  <2>2. CASE r.status = 255
    <3>1. ret' = [NoRet EXCEPT !.a = 255] /\ listed' = listed
      BY <2>2 DEF ReceiveEntry, r
    <3>2. QED BY <1>5, <2>1, <3>1, NoneTypes
  <2>3. CASE r.status # 255
    <3>1. ret' = [NoRet EXCEPT !.a = slot, !.name = r.name] /\ listed' = Append(listed, r.name)
      BY <2>3 DEF ReceiveEntry, r
    <3>2. [NoRet EXCEPT !.a = slot, !.name = r.name] \in Result
      BY <1>4, <1>5, <2>3, NoneTypes DEF Result
    <3>3. QED BY <1>4, <2>1, <2>3, <3>1, <3>2
  <2>4. QED BY <2>2, <2>3
<1>8. junk' \subseteq Nat
  BY <1>6, OneByteBehind
<1>9. TypeOK'
  BY <1>1, <1>2, <1>3, <1>7, <1>8 DEF ReceiveEntry, IInv, TypeOK, host
<1>10. Sync'
  BY <1>1, <1>2, <1>3, <1>6 DEF ReceiveEntry, IInv, Sync
<1>11. QED BY <1>9, <1>10 DEF IInv

\* Before the first data frame.
LEMMA StartsReading ==
    ASSUME NEW f, NEW ofs, Accepted(f, ofs), h2d' = Tail(h2d), got' = <<>>, total' = 0
    PROVE  /\ InFile(f, ofs)
           /\ \E k \in 0..Frames(Bytes(f, ofs)) :
                 /\ total' = Least(k * DmaMtu, Bytes(f, ofs)) /\ total' < recsize
                 /\ Pieces(got', f, ofs, k) /\ FramesLeft(h2d', f, ofs, k)
<1>1. InFile(f, ofs) /\ FramesLeft(h2d', f, ofs, 0)
  BY DEF Accepted
<1>2. Bytes(f, ofs) \in 1..recsize
  BY <1>1, BytesRange
<1>3. Frames(Bytes(f, ofs)) \in Nat
  BY <1>2, FrameCount
<1>4. total' = Least(0 * DmaMtu, Bytes(f, ofs)) /\ total' < recsize
  <2>1. 0 * DmaMtu = 0
    BY Positive
  <2>2. 0 < Bytes(f, ofs)
    BY <1>2
  <2>3. 0 < recsize
    BY DEF recsize
  <2>4. QED BY <2>1, <2>2, <2>3 DEF Least
<1>5. Pieces(got', f, ofs, 0)
  BY DEF Pieces
<1>6. QED BY <1>1, <1>3, <1>4, <1>5

LEMMA ReceiveStatusKeeps ==
    ASSUME IInv, ReceiveStatus
    PROVE  IInv'
<1>1. pc = "status" /\ h2d # <<>> /\ h2d' = Tail(h2d) /\ d2h' = d2h /\ h2d \in Seq(Answer)
  BY DEF ReceiveStatus, IInv, TypeOK
<1>2. /\ d2h = <<>> /\ call.at \in FcbAddr /\ got = <<>> /\ total = 0
      /\ (\E v \in {1, 255} : h2d = <<Status(v)>>) \/ \E f, ofs : Accepted(f, ofs)
  BY <1>1, Heard DEF Replied, IInv, Sync
<1>3. got' = <<>> /\ total' = 0 /\ junk' = junk /\ call' = call
  BY <1>2 DEF ReceiveStatus
<1>4. CASE \E v \in {1, 255} : h2d = <<Status(v)>>
  <2>1. PICK v \in {1, 255} : h2d = <<Status(v)>>
    BY <1>4
  <2>2. Head(h2d).len = 1 /\ Head(h2d).status = v /\ h2d' = <<>>
    BY <1>1, <2>1, StatusType
  <2>3. pc' = "program" /\ ret' = [NoRet EXCEPT !.a = v]
    BY <2>2 DEF ReceiveStatus
  <2>4. ret' \in Result
    <3>1. v \in Byte
      BY DEF Byte
    <3>2. QED BY <2>3, <3>1, NoneTypes
  <2>5. TypeOK'
    BY <1>1, <2>2, <2>3, <2>4 DEF ReceiveStatus, IInv, TypeOK, host, history
  <2>6. Sync'
    BY <1>1, <1>2, <1>3, <2>2, <2>3 DEF IInv, Sync, recsize
  <2>7. QED BY <2>5, <2>6 DEF IInv
<1>5. CASE \E f, ofs : Accepted(f, ofs)
  <2>1. PICK f, ofs : Accepted(f, ofs)
    BY <1>5
  <2>2. Head(h2d).len = 1 /\ Head(h2d).status = 0
    BY <1>1, <2>1, StatusType DEF Accepted
  <2>3. pc' = "data" /\ ret' = ret
    BY <2>2 DEF ReceiveStatus
  <2>4. Reading(f, ofs)'
    BY <1>1, <1>3, <2>1, StartsReading DEF Reading
  <2>5. h2d' \in Seq(Answer)
    BY <1>1, HeadTailProperties
  <2>6. TypeOK'
    BY <1>1, <2>3, <2>5 DEF ReceiveStatus, IInv, TypeOK, host, history
  <2>7. Sync'
    BY <1>1, <1>2, <1>3, <2>3, <2>4 DEF IInv, Sync, recsize
  <2>8. QED BY <2>6, <2>7 DEF IInv
<1>6. QED BY <1>2, <1>4, <1>5

\* One data frame: the record is not yet complete, or it is and nothing is left under way.
LEMMA DataStep ==
    ASSUME IInv, NEW f, NEW ofs, Reading(f, ofs), ReceiveData
    PROVE  /\ got' \in Seq(Segment) /\ total' \in 0..recsize
           /\ \/ pc' = "data" /\ Reading(f, ofs)' /\ UNCHANGED <<fcb, junk, ret, next>>
              \/ /\ pc' = "program" /\ h2d' = <<>>
                 /\ Pieces(got', f, ofs, Frames(Bytes(f, ofs))) /\ ret' = [NoRet EXCEPT !.data = got']
                 /\ junk' = {}
                 /\ IF call.fn = "read"
                    THEN fcb' = [fcb EXCEPT ![call.at] = Advance(@)] /\ next' = [next EXCEPT ![call.at] = @ + 1]
                    ELSE UNCHANGED <<fcb, next>>
<1> DEFINE all == Bytes(f, ofs)
           n == Frames(all)
           r == Head(h2d)
<1>1. /\ InFile(f, ofs) /\ all \in 1..recsize /\ recsize = 128 /\ h2d \in Seq(Answer)
      /\ got \in Seq(Segment) /\ total \in Nat
  BY BytesRange DEF Reading, IInv, TypeOK, recsize
<1>2. n \in Nat /\ n >= 1
  BY <1>1, FrameCount
<1>3. PICK k \in 0..n : /\ total = Least(k * DmaMtu, all) /\ total < recsize
                        /\ Pieces(got, f, ofs, k) /\ FramesLeft(h2d, f, ofs, k)
  BY DEF Reading
<1>4. k \in Nat /\ k <= n
  BY <1>2
<1>5. CASE k < n
  <2>1. h2d # <<>> /\ r = Chunk(f, ofs, all, k + 1) /\ FramesLeft(Tail(h2d), f, ofs, k + 1)
    BY <1>1, <1>3, <1>5, NextFrame
  <2>2. k + 1 \in 1..n /\ k + 1 \in 0..n /\ (k + 1) - 1 = k
    BY <1>2, <1>4, <1>5
  <2>3. /\ Piece(f, ofs, k + 1) \in Segment /\ r.status = 32
        /\ [file |-> r.file, ofs |-> r.ofs, len |-> r.len - 1] = Piece(f, ofs, k + 1)
        /\ r.len - 1 = Least(DmaMtu, all - k * DmaMtu) /\ r \in Answer
    BY <1>1, <2>1, <2>2, PieceType
  <2>4. total + (r.len - 1) = Least((k + 1) * DmaMtu, all) /\ r.len - 1 \in 1..128
    BY <1>1, <1>3, <1>5, <2>3, Amount
  <2>5. Least((k + 1) * DmaMtu, all) \in 0..all /\ (Least((k + 1) * DmaMtu, all) = all <=> k + 1 = n)
    BY <1>1, <2>2, Amount
  <2>6. r.len \in Int
    <3>1. [r EXCEPT !.len = r.len].len = r.len
      OBVIOUS
    <3>2. r.len = 1 + Least(DmaMtu, all - k * DmaMtu)
      BY <2>1, <2>2 DEF Chunk
    <3>3. Least(DmaMtu, all - k * DmaMtu) \in 1..128
      BY <2>3, <2>4
    <3>4. QED BY <3>2, <3>3
  <2> HIDE DEF r, all, n
  <2>7. got' = Append(got, Piece(f, ofs, k + 1)) /\ total' = total + r.len - 1 /\ h2d' = Tail(h2d)
    BY <2>3 DEF ReceiveData, r
  <2>8. total' = Least((k + 1) * DmaMtu, all)
    BY <1>1, <2>4, <2>6, <2>7
  <2>9. total' \in 0..all /\ all \in Int /\ total' \in 0..recsize /\ h2d' \in Seq(Answer)
    <3>1. total' \in 0..all
      BY <2>5, <2>8
    <3>2. all \in Int /\ total' \in 0..recsize
      BY <1>1, <3>1
    <3>3. h2d' \in Seq(Answer)
      BY <1>1, <2>1, <2>7, HeadTailProperties
    <3>4. QED BY <3>1, <3>2, <3>3
  <2>10. got' \in Seq(Segment) /\ Pieces(got', f, ofs, k + 1)
    <3>1. got \in Seq(Segment) /\ Len(got) = k /\ \A i \in 1..k : got[i] = Piece(f, ofs, i)
      BY <1>1, <1>3 DEF Pieces
    <3>2. Len(got') = k + 1 /\ got'[k + 1] = Piece(f, ofs, k + 1) /\ \A i \in 1..k : got'[i] = got[i]
      BY <1>4, <2>3, <2>7, <3>1
    <3>3. got' \in Seq(Segment)
      BY <2>3, <2>7, <3>1
    <3>4. QED BY <1>4, <3>1, <3>2, <3>3 DEF Pieces
  <2>11. CASE total' < recsize
    <3>1. pc' = "data" /\ UNCHANGED <<fcb, junk, ret, next>>
      BY <2>3, <2>11 DEF ReceiveData, r
    <3>2. Reading(f, ofs)'
      BY <1>1, <2>1, <2>2, <2>7, <2>8, <2>10, <2>11 DEF Reading, all, n
    <3>3. QED BY <2>9, <2>10, <3>1, <3>2
  <2>12. CASE ~ total' < recsize
    <3>1. total' = recsize /\ total' = all
      BY <1>1, <2>9, <2>12
    <3>2. all = recsize /\ k + 1 = n
      BY <2>5, <2>8, <3>1
    <3>3. FramesLeft(h2d', f, ofs, k + 1) /\ k + 1 \in 0..Frames(Bytes(f, ofs))
      BY <2>1, <2>2, <2>7 DEF all, n
    <3>4. h2d' = <<>>
      BY <1>1, <2>9, <3>2, <3>3, NextFrame DEF all, n
    <3>5. Pieces(got', f, ofs, Frames(Bytes(f, ofs)))
      BY <2>10, <3>2 DEF all, n
    <3>6. QED BY <2>3, <2>9, <2>10, <2>12, <3>4, <3>5 DEF ReceiveData, r
  <2>13. QED BY <2>11, <2>12
<1>6. CASE k = n
  <2>1. all < recsize
    <3>1. Least(k * DmaMtu, all) = all
      BY <1>1, <1>6, Amount
    <3>2. QED BY <1>3, <3>1
  <2>2. h2d = <<Status(26)>>
    BY <1>1, <1>3, <1>6, <2>1, NextFrame
  <2>3. r.status = 26 /\ Tail(h2d) = <<>>
    BY <2>2, StatusType
  <2> HIDE DEF r, all, n
  <2>4. got' = got /\ total' = total /\ h2d' = <<>>
    BY <2>3 DEF ReceiveData, r
  <2>5. Pieces(got', f, ofs, Frames(Bytes(f, ofs)))
    BY <1>3, <1>6, <2>4 DEF all, n
  <2>6. total' \in 0..recsize
    <3>1. total \in Nat /\ total < recsize /\ recsize = 128
      BY <1>1, <1>3
    <3>2. QED BY <2>4, <3>1
  <2>7. QED BY <1>1, <2>3, <2>4, <2>5, <2>6 DEF ReceiveData, r
<1>7. QED BY <1>2, <1>4, <1>5, <1>6

LEMMA ReceiveDataKeeps ==
    ASSUME IInv, ReceiveData
    PROVE  IInv'
<1>1. pc = "data" /\ h2d # <<>> /\ h2d' = Tail(h2d) /\ d2h' = d2h /\ call' = call /\ h2d \in Seq(Answer)
  BY DEF ReceiveData, IInv, TypeOK
<1>2. d2h = <<>> /\ call.at \in FcbAddr /\ junk \subseteq Behind /\ junk \subseteq Nat
  BY <1>1 DEF IInv, Sync, TypeOK
<1>3. PICK f, ofs : Reading(f, ofs)
  BY <1>1 DEF IInv, Sync
<1>4. h2d' \in Seq(Answer)
  BY <1>1, HeadTailProperties
<1>5. got' \in Seq(Segment) /\ total' \in Nat /\ total' <= recsize
  <2>1. got' \in Seq(Segment) /\ total' \in 0..recsize
    BY <1>3, DataStep
  <2>2. QED BY <2>1 DEF recsize
<1>6. CASE pc' = "data" /\ Reading(f, ofs)' /\ UNCHANGED <<fcb, junk, ret, next>>
  <2>1. TypeOK'
    BY <1>1, <1>4, <1>5, <1>6 DEF ReceiveData, IInv, TypeOK, host
  <2>2. Sync'
    BY <1>1, <1>2, <1>5, <1>6 DEF Sync
  <2>3. QED BY <2>1, <2>2 DEF IInv
<1>7. CASE /\ pc' = "program" /\ h2d' = <<>> /\ ret' = [NoRet EXCEPT !.data = got']
           /\ junk' = {}
           /\ IF call.fn = "read"
              THEN fcb' = [fcb EXCEPT ![call.at] = Advance(@)] /\ next' = [next EXCEPT ![call.at] = @ + 1]
              ELSE UNCHANGED <<fcb, next>>
  <2>1. fcb \in [FcbAddr -> Fcbs] /\ next \in [FcbAddr -> Nat]
    BY DEF IInv, TypeOK
  <2>2. Advance(fcb[call.at]) \in Fcbs
    BY <1>2, <2>1, AdvanceType
  <2>3. fcb' \in [FcbAddr -> Fcbs] /\ next' \in [FcbAddr -> Nat]
    <3>1. CASE call.fn = "read"
      <4>1. next[call.at] + 1 \in Nat
        BY <1>2, <2>1
      <4>2. QED BY <1>2, <1>7, <2>1, <2>2, <3>1, <4>1
    <3>2. CASE call.fn # "read"
      BY <1>7, <2>1, <3>2
    <3>3. QED BY <3>1, <3>2
  <2>4. ret' \in Result
    BY <1>5, <1>7, NoneTypes DEF Result
  <2>5. junk' \subseteq Nat /\ junk' \subseteq Behind
    BY <1>2, <1>7
  <2>6. TypeOK'
    BY <1>1, <1>4, <1>5, <1>7, <2>3, <2>4, <2>5 DEF ReceiveData, IInv, TypeOK, host
  <2>7. Sync'
    BY <1>1, <1>2, <1>5, <1>7, <2>5 DEF Sync
  <2>8. QED BY <2>6, <2>7 DEF IInv
<1>8. QED BY <1>3, <1>6, <1>7, DataStep

-----------------------------------------------------------------------------
(* The host keeps both ends in step.                                       *)

\* The request the host takes: one that is not answered, or the last one, which
\* the BDOS waits for.
LEMMA Taken ==
    ASSUME IInv, d2h # <<>>, d2h' = Tail(d2h)
    PROVE  /\ Head(d2h) \in Request /\ d2h' \in Seq(Request) /\ h2d = <<>>
           /\ \/ /\ pc = "program" /\ Quiet(Head(d2h).fn)
                 /\ \A i \in 1..Len(d2h') : Quiet(d2h'[i].fn)
              \/ /\ pc \in {"open", "entry", "status"} /\ Quiet(Head(d2h).fn)
                 /\ h2d' = h2d /\ pc' = pc => Waiting'
              \/ /\ pc \in {"open", "entry", "status"} /\ Asked(Head(d2h).fn) /\ d2h' = <<>>
<1>1. d2h \in Seq(Request) /\ pc \in {"program", "open", "entry", "status", "data"}
  BY DEF IInv, TypeOK
<1>2. /\ Len(d2h) \in Nat /\ Len(d2h) >= 1 /\ Head(d2h) = d2h[1] /\ Head(d2h) \in Request
      /\ d2h' \in Seq(Request) /\ Len(d2h') = Len(d2h) - 1 /\ \A i \in 1..Len(d2h') : d2h'[i] = d2h[i + 1]
  <2>1. Len(d2h) \in Nat /\ Len(d2h) >= 1
    BY <1>1, EmptySeq
  <2>2. QED BY <1>1, <2>1, HeadTailProperties
<1>3. CASE pc = "program"
  <2>1. h2d = <<>> /\ \A i \in 1..Len(d2h) : Quiet(d2h[i].fn)
    BY <1>3 DEF IInv, Sync
  <2>2. \A i \in 1..Len(d2h') : i + 1 \in 1..Len(d2h)
    BY <1>2
  <2>3. QED BY <1>2, <1>3, <2>1, <2>2
<1>4. CASE pc \in {"open", "entry", "status"}
  <2>1. Waiting
    BY <1>4 DEF IInv, Sync, Dropped, Replied
  <2>2. CASE Len(d2h) = 1
    <3>1. Len(d2h') = 0
      BY <1>2, <2>2
    <3>2. d2h' = <<>>
      BY <1>2, <3>1, EmptySeq
    <3>3. QED BY <1>2, <1>4, <2>1, <2>2, <3>2 DEF Waiting
  <2>3. CASE Len(d2h) # 1
    <3>1. 1 \in 1..Len(d2h) - 1 /\ Len(d2h') >= 1 /\ Len(d2h') + 1 = Len(d2h) /\ Len(d2h') \in 1..Len(d2h')
      BY <1>2, <2>3
    <3>2. d2h'[Len(d2h')] = d2h[Len(d2h)] /\ d2h' # <<>>
      BY <1>2, <3>1, EmptySeq
    <3>3. ASSUME NEW i \in 1..Len(d2h') - 1 PROVE Quiet(d2h'[i].fn)
      <4>1. i \in 1..Len(d2h') /\ i + 1 \in 1..Len(d2h) - 1
        BY <1>2, <3>1
      <4>2. QED BY <1>2, <2>1, <4>1 DEF Waiting
    <3>4. ASSUME h2d' = h2d, pc' = pc PROVE Waiting'
      <4>1. Asked(d2h[Len(d2h)].fn) /\ h2d = <<>>
        BY <2>1 DEF Waiting
      <4>2. Asked(d2h[Len(d2h)].fn)'
        BY <3>2, <3>4, <4>1 DEF Asked
      <4>3. QED BY <3>2, <3>3, <3>4, <4>1, <4>2 DEF Waiting
    <3>5. QED BY <1>2, <1>4, <2>1, <3>1, <3>4 DEF Waiting
  <2>4. QED BY <2>2, <2>3
<1>5. pc # "data"
  BY DEF IInv, Sync
<1>6. QED BY <1>1, <1>3, <1>4, <1>5

\* A request that is not answered leaves the BDOS where it was.
LEMMA QuietTaken ==
    ASSUME IInv, d2h # <<>>, d2h' = Tail(d2h), Quiet(Head(d2h).fn), UNCHANGED <<device, h2d>>
    PROVE  /\ h2d' = <<>> /\ pc # "data"
           /\ pc = "program" => \A i \in 1..Len(d2h') : Quiet(d2h'[i].fn)
           /\ pc # "program" => Waiting'
<1>1. pc' = pc /\ h2d' = h2d
  BY DEF device
<1>2. ~Asked(Head(d2h).fn)
  BY DEF Quiet, Asked
<1>3. QED BY <1>1, <1>2, Taken

\* An answer is the only thing under way.
LEMMA Answers ==
    ASSUME IInv, d2h # <<>>, d2h' = Tail(d2h), ~Quiet(Head(d2h).fn)
    PROVE  /\ d2h' = <<>> /\ h2d = <<>> /\ Head(d2h) \in Request /\ Asked(Head(d2h).fn)
           /\ \A s : Append(h2d, s) = <<s>>
           /\ \A s \in Seq(Answer) : h2d \o s = s
<1>1. d2h' = <<>> /\ h2d = <<>> /\ Head(d2h) \in Request /\ Asked(Head(d2h).fn)
  BY Taken
<1>2. QED BY <1>1

LEMMA HostCrashKeeps ==
    ASSUME IInv, HostCrash
    PROVE  IInv'
<1>1. /\ d2h # <<>> /\ d2h' = Tail(d2h) /\ hpc' = "stopped" /\ UNCHANGED <<device, h2d>>
      /\ UNCHANGED <<dat, dirList, dirI, history>>
  BY DEF HostCrash
<1>2. d2h' \in Seq(Request) /\ h2d = <<>>
  BY <1>1, Taken
<1>3. TypeOK'
  BY <1>1, <1>2 DEF IInv, TypeOK, device, history
<1>4. pc = "program" => \A i \in 1..Len(d2h') : Quiet(d2h'[i].fn)
  BY <1>1, Taken
<1>5. pc # "data" /\ (pc # "program" => Waiting' \/ Dropped')
  BY <1>1, <1>2, Taken DEF Dropped, device
<1>6. UNCHANGED <<pc, got, total, call, junk>> /\ h2d' = h2d
  BY <1>1 DEF device
<1>7. Sync'
  BY <1>2, <1>4, <1>5, <1>6 DEF IInv, Sync
<1>8. QED BY <1>3, <1>7 DEF IInv

\* What is left to show of a request that is not answered.
LEMMA QuietKeeps ==
    ASSUME IInv, d2h # <<>>, d2h' = Tail(d2h), Quiet(Head(d2h).fn), UNCHANGED <<device, h2d, hpc, dirList, dirI, history>>,
           dat' \in File
    PROVE  IInv'
<1>1. d2h' \in Seq(Request)
  BY Taken
<1>2. TypeOK'
  BY <1>1 DEF IInv, TypeOK, device, history
<1>3. UNCHANGED <<pc, got, total, call, junk>> /\ h2d' = h2d
  BY DEF device
<1>4. Sync'
  BY <1>3, QuietTaken DEF IInv, Sync
<1>5. QED BY <1>2, <1>4 DEF IInv

LEMMA HostCloseKeeps ==
    ASSUME IInv, HostClose
    PROVE  IInv'
<1>1. /\ d2h # <<>> /\ d2h' = Tail(d2h) /\ Quiet(Head(d2h).fn) /\ UNCHANGED <<device, h2d, hpc, dirList, dirI, history>>
      /\ dat' = NoFile
  BY DEF HostClose, Take, Quiet
<1>2. QED BY <1>1, NoneTypes, QuietKeeps

LEMMA HostWriteKeeps ==
    ASSUME IInv, HostWrite
    PROVE  IInv'
<1>1. /\ d2h # <<>> /\ d2h' = Tail(d2h) /\ Quiet(Head(d2h).fn) /\ UNCHANGED <<device, h2d, hpc, dirList, dirI, history>>
      /\ dat' = dat
  BY DEF HostWrite, Take, Quiet, host
<1>2. dat \in File
  BY DEF IInv, TypeOK
<1>3. QED BY <1>1, <1>2, QuietKeeps

\* What is left to show of an answer.
LEMMA AnswerKeeps ==
    ASSUME IInv, d2h # <<>>, d2h' = Tail(d2h), ~Quiet(Head(d2h).fn), UNCHANGED <<device, hpc, history>>,
           h2d' \in Seq(Answer), dat' \in File, dirList' \in Seq(HostFile), dirI' \in Nat,
           d2h' = <<>> => Replied'
    PROVE  IInv'
<1>1. d2h' = <<>> /\ Asked(Head(d2h).fn)
  BY Answers
<1>2. pc \in {"open", "entry", "status"}
  BY <1>1 DEF Asked
<1>3. TypeOK'
  BY <1>1 DEF IInv, TypeOK, device, history
<1>4. UNCHANGED <<pc, got, total, call, junk>>
  BY DEF device
<1>5. Sync'
  BY <1>1, <1>2, <1>4 DEF IInv, Sync
<1>6. QED BY <1>3, <1>5 DEF IInv

\* The files a host finds are those of its mounts.
LEMMA Found ==
    ASSUME NEW m \in 1..Len(Mounts), NEW n, NEW file \in Lookup(m, n)
    PROVE  file \in HostFile /\ file # NoFile /\ \E i \in 1..Len(Mounts[m]) : file = Mounts[m][i]
<1>1. \E i \in 1..Len(Mounts[m]) : file = Mounts[m][i]
  BY DEF Lookup, InMount
<1>2. file \in HostFile
  BY <1>1, MountTypes, ElementOfSeq
<1>3. file # NoFile
  BY <1>2, NameAssumption DEF HostFile, NoFile
<1>4. QED BY <1>1, <1>2, <1>3

\* The file F_OPEN loads, and its answer.
LEMMA HostOpenDoes ==
    ASSUME IInv, HostOpen
    PROVE  /\ d2h # <<>> /\ d2h' = Tail(d2h) /\ Head(d2h).fn = "open" /\ ~Quiet(Head(d2h).fn)
           /\ pc = "open" /\ d2h' = <<>> /\ UNCHANGED <<device, hpc, dirList, dirI, history>>
           /\ \/ h2d' = <<Status(255)>> /\ dat' = dat
              \/ /\ dat' \in Lookup(MountOf(Head(d2h).fcb.dr), Head(d2h).fcb.name)
                 /\ MountOf(Head(d2h).fcb.dr) \in 1..Len(Mounts) /\ Head(d2h).fcb \in Fcbs
                 /\ h2d' = <<[status |-> 0, len |-> 37, fcb |-> OpenedFcb(Head(d2h).fcb, dat'), file |-> dat']>>
<1> DEFINE f == Head(d2h).fcb
           found == Lookup(MountOf(f.dr), f.name)
           ans == [status |-> 0, len |-> 37, fcb |-> OpenedFcb(f, dat'), file |-> dat']
<1>1. /\ d2h # <<>> /\ d2h' = Tail(d2h) /\ Head(d2h).fn = "open" /\ ~NoSuchMount(f.dr)
      /\ UNCHANGED <<device, hpc, dirList, dirI, history>>
  BY DEF HostOpen, Take
<1>2. ~Quiet(Head(d2h).fn)
  BY <1>1 DEF Quiet
<1>3. /\ d2h' = <<>> /\ h2d = <<>> /\ Head(d2h) \in Request /\ Asked(Head(d2h).fn)
      /\ \A s : Append(h2d, s) = <<s>>
  BY <1>1, <1>2, Answers
<1>4. pc = "open" /\ f \in Fcbs /\ f.dr \in Byte
  <2>1. pc = "open"
    BY <1>1, <1>3 DEF Asked
  <2>2. f \in Fcbs
    BY <1>3 DEF Request
  <2>3. QED BY <2>1, <2>2, FcbFields
<1>5. MountOf(f.dr) \in 1..Len(Mounts)
  BY <1>1, <1>4, MountTypes
<1>6. \/ h2d' = Append(h2d, Status(255)) /\ dat' = dat
      \/ dat' \in found /\ h2d' = Append(h2d, ans)
  BY DEF HostOpen
<1> HIDE DEF ans
<1>7. \/ h2d' = <<Status(255)>> /\ dat' = dat
      \/ dat' \in found /\ h2d' = <<ans>>
  BY <1>3, <1>6
<1>8. QED BY <1>1, <1>2, <1>3, <1>4, <1>5, <1>7 DEF ans

LEMMA HostOpenKeeps ==
    ASSUME IInv, HostOpen
    PROVE  IInv'
<1> DEFINE f == Head(d2h).fcb
           ans == [status |-> 0, len |-> 37, fcb |-> OpenedFcb(f, dat'), file |-> dat']
<1>1. dat \in File /\ dirList \in Seq(HostFile) /\ dirI \in Nat
  BY DEF IInv, TypeOK
<1>2. CASE h2d' = <<Status(255)>> /\ dat' = dat
  <2>1. h2d' \in Seq(Answer) /\ Len(h2d') = 1 /\ h2d'[1] \in OpenAnswer
    BY <1>2, StatusType DEF OpenAnswer
  <2>2. d2h' = <<>> => Replied'
    BY <2>1, HostOpenDoes DEF Replied, device
  <2>3. QED BY <1>1, <1>2, <2>1, <2>2, AnswerKeeps, HostOpenDoes
<1>3. CASE dat' \in Lookup(MountOf(f.dr), f.name) /\ MountOf(f.dr) \in 1..Len(Mounts) /\ f \in Fcbs /\ h2d' = <<ans>>
  <2>1. dat' \in HostFile /\ dat' \in File
    BY <1>3, Found DEF File
  <2>2. OpenedFcb(f, dat') \in Fcbs
    BY <1>3, <2>1, OpenedType
  <2>3. ans \in [status : {0}, len : {37}, fcb : Fcbs, file : HostFile]
    BY <2>1, <2>2
  <2> HIDE DEF ans
  <2>4. ans \in OpenAnswer /\ ans \in Answer
    BY <2>3, Zenon DEF OpenAnswer, Answer
  <2>5. h2d' \in Seq(Answer) /\ Len(h2d') = 1 /\ h2d'[1] \in OpenAnswer
    BY <1>3, <2>4
  <2>6. d2h' = <<>> => Replied'
    BY <2>5, HostOpenDoes DEF Replied, device
  <2>7. QED BY <1>1, <2>1, <2>5, <2>6, AnswerKeeps, HostOpenDoes
<1>4. QED BY <1>2, <1>3, HostOpenDoes

\* The names that the host lists are names, and those of two files differ.
LEMMA ZeroedNames ==
    /\ \A n \in Name : Zeroed[n] \in Name
    /\ \A m, l \in 1..Len(Mounts) : \A i \in 1..Len(Mounts[m]) : \A j \in 1..Len(Mounts[l]) :
           Zeroed[Mounts[m][i].name] = Zeroed[Mounts[l][j].name] => Mounts[m][i].name = Mounts[l][j].name
BY ZeroedAssumption, SMT

\* The listing F_SFIRST or F_SNEXT goes on with, and where it stands.
SearchList == IF Head(d2h).fn = "sfirst" THEN Mounts[MountOf(Head(d2h).fcb.dr)] ELSE dirList
SearchAt   == IF Head(d2h).fn = "sfirst" THEN 0 ELSE dirI
EntryOf(file) == [status |-> 0, len |-> 33, name |-> Zeroed[file.name]]

\* The next entry of the listing, or its end.
LEMMA HostSearchDoes ==
    ASSUME IInv, HostSearch
    PROVE  /\ d2h # <<>> /\ d2h' = Tail(d2h) /\ d2h' = <<>> /\ h2d = <<>> /\ pc = "entry" /\ ~Quiet(Head(d2h).fn)
           /\ Head(d2h).fn \in {"sfirst", "snext"} /\ UNCHANGED <<device, hpc, dat, history>>
           /\ SearchList \in Seq(HostFile) /\ SearchAt \in Nat
           /\ \/ /\ SearchAt >= Len(SearchList) /\ h2d' = <<Status(255)>> /\ dirList' = <<>> /\ dirI' = SearchAt
              \/ /\ SearchAt + 1 \in 1..Len(SearchList) /\ h2d' = <<EntryOf(SearchList[SearchAt + 1])>>
                 /\ dirList' = SearchList /\ dirI' = SearchAt + 1
<1> DEFINE req == Head(d2h)
           list == SearchList
           i == SearchAt
           ans == EntryOf(list[i + 1])
<1>1. /\ d2h # <<>> /\ d2h' = Tail(d2h) /\ req.fn \in {"sfirst", "snext"} /\ ~NoSuchMount(req.fcb.dr)
      /\ UNCHANGED <<device, hpc, dat, history>>
  BY DEF HostSearch, Take
<1>2. ~Quiet(req.fn)
  BY <1>1 DEF Quiet
<1>3. /\ d2h' = <<>> /\ h2d = <<>> /\ Head(d2h) \in Request /\ Asked(Head(d2h).fn)
      /\ \A s : Append(h2d, s) = <<s>>
  BY <1>1, <1>2, Answers
<1>4. pc = "entry" /\ req.fcb.dr \in Byte
  <2>1. pc = "entry"
    BY <1>1, <1>3 DEF Asked
  <2>2. req.fcb \in Fcbs
    BY <1>3 DEF Request
  <2>3. QED BY <2>1, <2>2, FcbFields
<1>5. dirList \in Seq(HostFile) /\ dirI \in Nat
  BY DEF IInv, TypeOK
<1>6. list \in Seq(HostFile) /\ i \in Nat
  BY <1>1, <1>4, <1>5, MountTypes DEF SearchList, SearchAt
<1>7. \/ i >= Len(list) /\ h2d' = Append(h2d, Status(255)) /\ dirList' = <<>> /\ dirI' = i
      \/ ~ i >= Len(list) /\ h2d' = Append(h2d, ans) /\ dirList' = list /\ dirI' = i + 1
  BY DEF HostSearch, SearchList, SearchAt, EntryOf
<1> HIDE DEF ans, i, list
<1>8. ~ i >= Len(list) => i + 1 \in 1..Len(list)
  BY <1>6
<1>9. \/ i >= Len(list) /\ h2d' = <<Status(255)>> /\ dirList' = <<>> /\ dirI' = i
      \/ i + 1 \in 1..Len(list) /\ h2d' = <<ans>> /\ dirList' = list /\ dirI' = i + 1
  BY <1>3, <1>7, <1>8
<1>10. QED BY <1>1, <1>2, <1>3, <1>4, <1>6, <1>9 DEF ans, i, list

LEMMA HostSearchKeeps ==
    ASSUME IInv, HostSearch
    PROVE  IInv'
<1> DEFINE list == SearchList
           i == SearchAt
           ans == EntryOf(list[i + 1])
<1>1. /\ d2h # <<>> /\ d2h' = Tail(d2h) /\ ~Quiet(Head(d2h).fn) /\ pc = "entry"
      /\ UNCHANGED <<device, hpc, dat, history>> /\ list \in Seq(HostFile) /\ i \in Nat
      /\ \/ h2d' = <<Status(255)>> /\ dirList' = <<>> /\ dirI' = i
         \/ i + 1 \in 1..Len(list) /\ h2d' = <<ans>> /\ dirList' = list /\ dirI' = i + 1
  BY HostSearchDoes
<1>2. dat \in File
  BY DEF IInv, TypeOK
<1> HIDE DEF list, i
<1>3. dirList' \in Seq(HostFile) /\ dirI' \in Nat
  <2>1. <<>> \in Seq(HostFile) /\ i + 1 \in Nat
    BY <1>1
  <2>2. QED BY <1>1, <2>1
<1>4. h2d' \in Seq(Answer) /\ Len(h2d') = 1 /\ h2d'[1] \in EntryAnswer
  <2>1. CASE h2d' = <<Status(255)>>
    BY <2>1, StatusType DEF EntryAnswer
  <2>2. CASE i + 1 \in 1..Len(list) /\ h2d' = <<ans>>
    <3>1. list[i + 1].name \in Name
      <4>1. list[i + 1] \in HostFile
        BY <1>1, <2>2, ElementOfSeq
      <4>2. QED BY <4>1, SMT DEF HostFile
    <3>2. ans \in [status : {0}, len : {33}, name : Name]
      BY <3>1, ZeroedNames DEF EntryOf
    <3> HIDE DEF ans
    <3>3. ans \in EntryAnswer /\ ans \in Answer
      BY <3>2, Zenon DEF EntryAnswer, Answer
    <3>4. QED BY <2>2, <3>3
  <2>3. QED BY <1>1, <2>1, <2>2
<1>5. d2h' = <<>> => Replied'
  BY <1>1, <1>4 DEF Replied, device
<1>6. QED BY <1>1, <1>2, <1>3, <1>4, <1>5, AnswerKeeps

\* What F_READ is answered with.
LEMMA HostReadDoes ==
    ASSUME IInv, HostRead
    PROVE  /\ d2h # <<>> /\ d2h' = Tail(d2h) /\ d2h' = <<>> /\ h2d = <<>> /\ pc = "status"
           /\ ~Quiet(Head(d2h).fn) /\ UNCHANGED <<device, host, history>>
           /\ HostRecord(Head(d2h).fcb) \in Nat
           /\ LET ofs == HostRecord(Head(d2h).fcb) * recsize IN
              /\ ofs \in Nat /\ h2d' \in Seq(Answer)
              /\ \/ dat = NoFile /\ h2d' = <<Status(255)>>
                 \/ dat # NoFile /\ ofs >= dat.size /\ h2d' = <<Status(1)>>
                 \/ \E f \in HostFile, o \in Nat : f = dat /\ o = ofs /\ o < f.size /\ Accepted(f, o)'
<1> DEFINE ofs == HostRecord(Head(d2h).fcb) * recsize
<1>1. /\ d2h # <<>> /\ d2h' = Tail(d2h) /\ Head(d2h).fn = "read" /\ UNCHANGED <<device, host, history>>
      /\ h2d' = h2d \o (IF dat = NoFile THEN <<Status(255)>>
                        ELSE IF ofs >= dat.size THEN <<Status(1)>> ELSE Transfer(dat, ofs))
  BY DEF HostRead, Take
<1>2. ~Quiet(Head(d2h).fn)
  BY <1>1 DEF Quiet
<1>3. /\ d2h' = <<>> /\ h2d = <<>> /\ Head(d2h) \in Request /\ Asked(Head(d2h).fn)
      /\ \A s \in Seq(Answer) : h2d \o s = s
  BY <1>1, <1>2, Answers
<1>4. pc = "status"
  BY <1>1, <1>3 DEF Asked
<1>5. HostRecord(Head(d2h).fcb) \in Nat /\ ofs \in Nat
  <2>1. Head(d2h).fcb \in Fcbs
    BY <1>3 DEF Request
  <2>2. Head(d2h).fcb.cr \in Byte /\ Head(d2h).fcb.ex \in Byte /\ Head(d2h).fcb.s2 \in Byte
    BY <2>1, FcbFields
  <2>3. \A s \in Byte : s % 16 \in Nat
    BY DEF Byte
  <2>4. \A m \in Nat, e \in Byte, c \in Byte : m * 16384 + e * 128 + c \in Nat
    BY DEF Byte
  <2>5. HostRecord(Head(d2h).fcb) \in Nat
    BY <2>2, <2>3, <2>4 DEF HostRecord
  <2>6. QED BY <2>5 DEF recsize
<1>6. dat \in File /\ (dat # NoFile => dat \in HostFile /\ dat.size \in Nat)
  <2>1. dat \in File
    BY DEF IInv, TypeOK
  <2>2. dat # NoFile => dat \in HostFile
    BY <2>1 DEF File
  <2>3. \A x \in HostFile : x.size \in Nat
    <3>1. MaxSize \in Nat
      BY SMT DEF MaxSize
    <3>2. \A x \in HostFile : x.size \in 0..MaxSize
      BY SMT DEF HostFile
    <3>3. QED BY <3>1, <3>2
  <2>4. QED BY <2>1, <2>2, <2>3
<1> HIDE DEF ofs
<1>7. CASE dat = NoFile
  <2>1. <<Status(255)>> \in Seq(Answer)
    BY StatusType
  <2>2. h2d' = <<Status(255)>>
    BY <1>1, <1>3, <1>7, <2>1
  <2>3. QED BY <1>1, <1>2, <1>3, <1>4, <1>5, <1>7, <2>1, <2>2 DEF ofs
<1>8. CASE dat # NoFile /\ ofs >= dat.size
  <2>1. <<Status(1)>> \in Seq(Answer)
    BY StatusType
  <2>2. h2d' = <<Status(1)>>
    BY <1>1, <1>3, <1>8, <2>1
  <2>3. QED BY <1>1, <1>2, <1>3, <1>4, <1>5, <1>8, <2>1, <2>2 DEF ofs
<1>9. CASE dat # NoFile /\ ~ ofs >= dat.size
  <2>1. InFile(dat, ofs) /\ ofs < dat.size
    BY <1>5, <1>6, <1>9 DEF InFile
  <2>2. LET t == Transfer(dat, ofs) IN
        t \in Seq(Answer) /\ t # <<>> /\ t[1] = Status(0) /\ FramesLeft(Tail(t), dat, ofs, 0)
    BY <2>1, TransferFrames
  <2>3. h2d' = Transfer(dat, ofs)
    BY <1>1, <1>3, <1>9, <2>2
  <2>4. InFile(dat, ofs) /\ h2d' # <<>> /\ h2d'[1] = Status(0) /\ FramesLeft(Tail(h2d'), dat, ofs, 0)
    BY <2>1, <2>2, <2>3
  <2>5. PICK f \in HostFile, o \in Nat : f = dat /\ o = ofs
    BY <1>5, <1>6, <1>9
  <2>6. Accepted(f, o)'
    BY <2>4, <2>5 DEF Accepted
  <2>7. o < f.size /\ h2d' \in Seq(Answer)
    BY <2>1, <2>2, <2>3, <2>5
  <2>8. QED BY <1>1, <1>2, <1>3, <1>4, <1>5, <2>5, <2>6, <2>7 DEF ofs
<1>10. QED BY <1>7, <1>8, <1>9

LEMMA HostReadKeeps ==
    ASSUME IInv, HostRead
    PROVE  IInv'
<1>1. dat \in File /\ dirList \in Seq(HostFile) /\ dirI \in Nat
  BY DEF IInv, TypeOK
<1>2. /\ d2h # <<>> /\ d2h' = Tail(d2h) /\ d2h' = <<>> /\ ~Quiet(Head(d2h).fn) /\ pc = "status"
      /\ UNCHANGED <<device, hpc, dat, dirList, dirI, history>> /\ h2d' \in Seq(Answer)
      /\ (\E v \in {1, 255} : h2d' = <<Status(v)>>) \/ \E f, ofs : Accepted(f, ofs)'
  BY HostReadDoes DEF host
<1>3. Replied'
  BY <1>2 DEF Replied, device
<1>4. QED BY <1>1, <1>2, <1>3, AnswerKeeps

-----------------------------------------------------------------------------
(* Both ends stay in step.                                                 *)

LEMMA InitSync == Init => IInv
<1> SUFFICES ASSUME Init PROVE IInv
  OBVIOUS
<1>1. NoFcb \in Fcbs /\ NoCall \in Pending /\ NoRet \in Result /\ NoFile \in File
  BY NoneTypes, NewFcbType
<1>2. DefaultDma \in DmaAddr
  BY AddrAssumption
<1>3. TypeOK
  BY <1>1, <1>2 DEF Init, TypeOK
<1>4. Sync
  BY DEF Init, Sync, recsize
<1>5. QED BY <1>3, <1>4 DEF IInv

LEMMA NextSync == IInv /\ [Next]_vars => IInv'
<1> SUFFICES ASSUME IInv, [Next]_vars PROVE IInv'
  OBVIOUS
<1>1. ASSUME Calls PROVE IInv'
  BY <1>1, OpenKeeps, CloseKeeps, WriteKeeps, ReadKeeps, ReadRandomKeeps, SearchFirstKeeps,
     SearchNextKeeps, SetDmaKeeps, WarmBootKeeps DEF Calls
<1>2. ASSUME Receive PROVE IInv'
  BY <1>2, ReceiveOpenKeeps, ReceiveEntryKeeps, ReceiveStatusKeeps, ReceiveDataKeeps DEF Receive
<1>3. ASSUME Host PROVE IInv'
  BY <1>3, HostCrashKeeps, HostOpenKeeps, HostCloseKeeps, HostWriteKeeps, HostSearchKeeps, HostReadKeeps DEF Host
<1>4. ASSUME UNCHANGED vars PROVE IInv'
  <2>1. TypeOK'
    BY <1>4 DEF IInv, TypeOK, vars, device, host, history
  <2>2. UNCHANGED <<pc, h2d, d2h, hpc, got, total, call, junk>>
    BY <1>4 DEF vars, device, host, history
  <2>3. Waiting \/ Dropped \/ Replied => Waiting' \/ Dropped' \/ Replied'
    BY <2>2 DEF Waiting, Dropped, Replied, Asked, Accepted
  <2>4. \A f, ofs : Reading(f, ofs) => Reading(f, ofs)'
    BY <2>2 DEF Reading
  <2>5. Sync'
    BY <2>2, <2>3, <2>4 DEF IInv, Sync
  <2>6. QED BY <2>1, <2>5 DEF IInv
<1>5. QED BY <1>1, <1>2, <1>3, <1>4 DEF Next

\* IInv is inductive, whatever the mounts and whatever the program calls.
THEOREM InvariantHolds == Spec => []IInv
<1>1. QED BY InitSync, NextSync, PTL DEF Spec

\* The state of both ends and the frames between them keep their types: an FCB is
\* made of bytes after any sequence of reads, random reads and closes.
THEOREM TypeCorrect == Spec => []TypeOK
<1>1. IInv => TypeOK
  BY DEF IInv
<1>2. QED BY <1>1, InvariantHolds, PTL

\* Frames are not labelled (bdos_host_receive_byte and its like take the next one):
\* when a call returns nothing of its answer is left to be taken for the next one's.
THEOREM StaysInStep == Spec => []InStep
<1>1. IInv => InStep
  BY DEF IInv, Sync, InStep
<1>2. QED BY <1>1, InvariantHolds, PTL

\* bdos_host_receivedma fills the DMA area and never goes on behind it;
\* bdos_host_receivefcb writes one byte too many and never another.
THEOREM NothingBehind == Spec => []DmaFits
<1>1. IInv => DmaFits
  <2>1. ASSUME IInv PROVE DmaFits
    <3>1. total <= recsize /\ junk \subseteq Behind /\ (pc = "data" => total < recsize)
      BY <2>1 DEF IInv, Sync, Reading
    <3>2. QED BY <3>1 DEF DmaFits, Behind
  <2>2. QED BY <2>1
<1>2. QED BY <1>1, InvariantHolds, PTL

-----------------------------------------------------------------------------
(* Programs that have one file open at a time, of at most one module.      *)

ModuleBytes == 524288
Small ==
    /\ OneFile /\ \A rr \in Rand : rr < 4096
    /\ \A m \in 1..Len(Mounts) : \A i \in 1..Len(Mounts[m]) : Mounts[m][i].size < ModuleBytes

\* Where an FCB stands.
At(f, n) == IF n < 4096 THEN InModule(f) /\ HostRecord(f) = n ELSE HostRecord(f) >= 4096

\* The loaded file is the open one, and nothing under way changes that.
Loaded ==
    /\ dat.size < ModuleBytes
    /\ \A a \in FcbAddr : opened[a] # NoFile =>
          /\ dat = opened[a] /\ pc # "open"
          /\ \A i \in 1..Len(d2h) : d2h[i].fn \notin {"open", "close"}
          /\ At(fcb[a], next[a])
          /\ \A b \in FcbAddr : opened[b] # NoFile => b = a
    /\ pc = "open" /\ h2d # <<>> /\ h2d[1].status = 0 => h2d[1].file = dat /\ At(h2d[1].fcb, 0)

\* The record that is asked for is the one that comes.
Served ==
    /\ pc \in {"open", "entry"} => call.fn \notin {"read", "readrand"}
    /\ pc \in {"status", "data"} =>
          /\ call.fn \in {"read", "readrand"} /\ opened[call.at] # NoFile
          /\ call.file = opened[call.at] /\ call.rec = next[call.at]
    /\ pc = "status" /\ d2h # <<>> => At(d2h[Len(d2h)].fcb, call.rec)
    /\ pc = "status" /\ h2d # <<>> =>
          \/ h2d = <<Status(1)>> /\ call.rec * recsize >= call.file.size
          \/ Accepted(call.file, call.rec * recsize)
    /\ pc = "data" => Reading(call.file, call.rec * recsize)

RInv == Loaded /\ Served /\ RightRecord /\ RightEnd

\* Positions, and what moves them.
LEMMA AtOpened ==
    ASSUME NEW f \in Fcbs, NEW file \in HostFile, file.size < ModuleBytes
    PROVE  At(OpenedFcb(f, file), 0)
<1> DEFINE g == OpenedFcb(f, file)
<1>1. file.size \in Nat
  <2>1. MaxSize \in Nat
    BY SMT DEF MaxSize
  <2>2. file.size \in 0..MaxSize
    BY SMT DEF HostFile
  <2>3. QED BY <2>1, <2>2
<1>2. g.cr = 0 /\ g.ex = 0 /\ g.s2 = OpenBit + ((file.size \div 524288) % OpenBit)
  BY DEF OpenedFcb, NoFcb
<1>3. file.size \div 524288 = 0
  BY <1>1, Z3 DEF ModuleBytes
<1>4. g.s2 = OpenBit
  BY <1>2, <1>3, SMT DEF OpenBit
<1> HIDE DEF g
<1>5. InModule(g)
  BY <1>2, <1>4, SMT DEF InModule
<1>6. HostRecord(g) = 0
  BY <1>2, <1>5, RecordOfModule
<1>7. QED BY <1>5, <1>6 DEF At, g

LEMMA AtAdvance ==
    ASSUME NEW f \in Fcbs, NEW n \in Nat, n < 4096, At(f, n)
    PROVE  At(Advance(f), n + 1)
<1>1. HasFields(f)
  BY DEF Fcbs, HasFields
<1>2. InModule(f) /\ HostRecord(f) = n
  BY DEF At
<1>3. IF n < 4095
      THEN InModule(Advance(f)) /\ HostRecord(Advance(f)) = n + 1
      ELSE HostRecord(Advance(f)) = 16384
  BY <1>1, <1>2, AdvanceMovesOne
<1>4. QED BY <1>3, SMT DEF At

LEMMA AtSeek ==
    ASSUME Small, NEW f \in Fcbs, NEW rr \in Rand
    PROVE  At(Seek(f, rr % 256, rr \div 256), rr)
<1>1. HasFields(f)
  BY DEF Fcbs, HasFields
<1>2. rr \in Nat /\ rr < 4096
  <2>1. rr \in Nat
    BY InputTypes
  <2>2. rr < 4096
    BY DEF Small
  <2>3. QED BY <2>1, <2>2
<1>3. InModule(Seek(f, rr % 256, rr \div 256)) /\ HostRecord(Seek(f, rr % 256, rr \div 256)) = rr
  BY <1>1, <1>2, SeekFinds
<1>4. QED BY <1>2, <1>3 DEF At

-----------------------------------------------------------------------------
(* What most steps leave alone.                                            *)

\* No read has returned.
LEMMA NotReturned ==
    ASSUME pc' # "program" \/ call'.fn \notin {"read", "readrand"}
    PROVE  RightRecord' /\ RightEnd'
BY DEF RightRecord, RightEnd, Returned

LEMMA SameReturned ==
    ASSUME RInv, UNCHANGED <<pc, call, ret>>
    PROVE  RightRecord' /\ RightEnd'
<1>1. RightRecord /\ RightEnd
  BY DEF RInv
<1>2. RightRecord'
  BY <1>1 DEF RightRecord, Returned
<1>3. RightEnd'
  BY <1>1 DEF RightEnd, Returned
<1>4. QED BY <1>2, <1>3

\* No file is open.
LEMMA NoneLoaded ==
    ASSUME dat'.size < ModuleBytes, \A a \in FcbAddr : opened'[a] = NoFile, pc' # "open" \/ h2d' = <<>>
    PROVE  Loaded'
BY DEF Loaded

\* The open file stays loaded, whatever is sent that neither opens nor closes one.
LEMMA LoadedStays ==
    ASSUME RInv, dat' = dat, opened' = opened, pc' # "open",
           \A a \in FcbAddr : opened[a] # NoFile => At(fcb'[a], next'[a]),
           \A i \in 1..Len(d2h') : d2h'[i].fn \in {"open", "close"} => \E j \in 1..Len(d2h) : d2h'[i] = d2h[j]
    PROVE  Loaded'
BY DEF RInv, Loaded

\* What a request adds to those under way.
LEMMA Joins ==
    ASSUME IInv, NEW q \in Request, d2h' = Append(d2h, q)
    PROVE  /\ Len(d2h') \in Nat /\ d2h'[Len(d2h')] = q
           /\ \A i \in 1..Len(d2h') : d2h'[i] = q \/ \E j \in 1..Len(d2h) : d2h'[i] = d2h[j]
<1>1. d2h \in Seq(Request)
  BY DEF IInv, TypeOK
<1>2. QED BY <1>1

\* What the host leaves of them.
LEMMA Leaves ==
    ASSUME IInv, d2h # <<>>, d2h' = Tail(d2h)
    PROVE  /\ Head(d2h) = d2h[1] /\ 1 \in 1..Len(d2h)
           /\ \A i \in 1..Len(d2h') : \E j \in 1..Len(d2h) : d2h'[i] = d2h[j]
           /\ d2h' # <<>> => d2h'[Len(d2h')] = d2h[Len(d2h)]
           /\ d2h' = <<>> => Head(d2h) = d2h[Len(d2h)]
<1>1. d2h \in Seq(Request)
  BY DEF IInv, TypeOK
<1>2. /\ Len(d2h) \in Nat /\ Len(d2h) >= 1 /\ Head(d2h) = d2h[1] /\ d2h' \in Seq(Request)
      /\ Len(d2h') = Len(d2h) - 1 /\ \A i \in 1..Len(d2h') : d2h'[i] = d2h[i + 1]
  <2>1. Len(d2h) \in Nat /\ Len(d2h) >= 1
    BY <1>1, EmptySeq
  <2>2. QED BY <1>1, <2>1, HeadTailProperties
<1>3. ASSUME NEW i \in 1..Len(d2h') PROVE \E j \in 1..Len(d2h) : d2h'[i] = d2h[j]
  <2>1. i + 1 \in 1..Len(d2h)
    BY <1>2
  <2>2. QED BY <1>2, <2>1
<1>4. ASSUME d2h' # <<>> PROVE d2h'[Len(d2h')] = d2h[Len(d2h)]
  <2>1. Len(d2h') \in Nat /\ Len(d2h') # 0
    BY <1>2, <1>4, EmptySeq
  <2>2. Len(d2h') \in 1..Len(d2h') /\ Len(d2h') + 1 = Len(d2h)
    BY <1>2, <2>1
  <2>3. QED BY <1>2, <2>2
<1>5. ASSUME d2h' = <<>> PROVE Head(d2h) = d2h[Len(d2h)]
  <2>1. Len(d2h') = 0
    BY <1>2, <1>5, EmptySeq
  <2>2. Len(d2h) = 1
    BY <1>2, <2>1
  <2>3. QED BY <1>2, <2>2
<1>6. QED BY <1>2, <1>3, <1>4, <1>5

LEMMA Associative ==
    /\ \A x, y, z \in Nat : (x + y) + z = x + (y + z)
    /\ 1..128 \subseteq Nat
OBVIOUS

\* All the frames of a record together are the record.
LEMMA PiecesCover ==
    ASSUME NEW f, NEW rec \in Nat, InFile(f, rec * recsize), NEW s \in Seq(Segment),
           Pieces(s, f, rec * recsize, Frames(Bytes(f, rec * recsize)))
    PROVE  Covers(s, f, rec)
<1> DEFINE ofs == rec * recsize
           all == Bytes(f, ofs)
           n == Frames(all)
           D(i) == (i - 1) * DmaMtu
           L(i) == Least(DmaMtu, all - D(i))
<1>1. all \in 1..recsize /\ ofs \in Nat /\ f.size \in Nat /\ n \in Nat /\ n >= 1
  BY BytesRange, FrameCount
<1>2. Len(s) = n /\ \A i \in 1..n : s[i] = Piece(f, ofs, i)
  BY DEF Pieces
<1>3. ASSUME NEW i \in 1..n PROVE s[i].file = f /\ s[i].ofs = ofs + D(i) /\ s[i].len = L(i)
  BY <1>2, PieceType
<1>4. ofs + all = Least((rec + 1) * recsize, f.size)
  <2>1. ofs < f.size /\ recsize \in Nat /\ (rec + 1) * recsize = ofs + recsize
    BY DEF InFile, recsize
  <2>2. all = Least(recsize, f.size - ofs)
    BY DEF Bytes
  <2> HIDE DEF ofs, all
  <2>3. QED BY <1>1, <2>1, <2>2 DEF Least
<1> HIDE DEF ofs
\* The i-th frame ends where the next one begins, and the last one with the record.
<1>5. ASSUME NEW i \in 1..n PROVE D(i) \in Nat /\ D(i) < all /\ L(i) \in 1..128 /\ D(i) + L(i) = Least(i * DmaMtu, all)
  <2>1. i - 1 \in 0..n /\ i - 1 < n /\ (i - 1) + 1 = i
    BY <1>1
  <2>2. /\ D(i) \in Nat /\ D(i) < all /\ L(i) \in 1..128
        /\ Least(D(i), all) + L(i) = Least(i * DmaMtu, all)
    BY <1>1, <2>1, Amount
  <2> HIDE DEF D, L, all
  <2>3. Least(D(i), all) = D(i)
    BY <2>2 DEF Least
  <2>4. QED BY <2>2, <2>3
<1>6. Least(n * DmaMtu, all) = all
  <2>1. n \in 0..n
    BY <1>1
  <2>2. QED BY <1>1, <2>1, Amount
<1>7. 1 \in 1..n /\ n \in 1..n
  BY <1>1
<1>8. D(1) = 0
  BY Positive
<1> HIDE DEF all, n, L
<1>9. s # <<>> /\ s[1].ofs = ofs
  <2>1. s[1].ofs = ofs + D(1)
    BY <1>3, <1>7
  <2>2. s # <<>>
    BY <1>1, <1>2, EmptySeq
  <2> HIDE DEF D
  <2>3. QED BY <1>1, <1>8, <2>1, <2>2
<1>10. s[Len(s)].ofs + s[Len(s)].len = Least((rec + 1) * recsize, f.size)
  <2>1. s[n].ofs = ofs + D(n) /\ s[n].len = L(n) /\ D(n) \in Nat /\ L(n) \in 1..128 /\ D(n) + L(n) = all
    BY <1>3, <1>5, <1>6, <1>7
  <2> HIDE DEF D
  <2>2. L(n) \in Nat
    BY <2>1, Associative
  <2>3. (ofs + D(n)) + L(n) = ofs + (D(n) + L(n))
    BY <1>1, <2>1, <2>2, Associative
  <2>4. QED BY <1>2, <1>4, <2>1, <2>3
<1>11. ASSUME NEW i \in 2..Len(s) PROVE s[i].ofs = s[i - 1].ofs + s[i - 1].len
  <2>1. i \in 1..n /\ i - 1 \in 1..n
    BY <1>1, <1>2
  <2>2. /\ s[i].ofs = ofs + D(i) /\ D(i) \in Nat /\ D(i) < all
        /\ s[i - 1].ofs = ofs + D(i - 1) /\ s[i - 1].len = L(i - 1)
        /\ D(i - 1) \in Nat /\ L(i - 1) \in 1..128 /\ D(i - 1) + L(i - 1) = Least((i - 1) * DmaMtu, all)
    BY <1>3, <1>5, <2>1
  <2>3. D(i) = (i - 1) * DmaMtu
    OBVIOUS
  <2> HIDE DEF D
  <2>4. Least(D(i), all) = D(i)
    BY <2>2 DEF Least
  <2>5. D(i - 1) + L(i - 1) = D(i)
    BY <2>2, <2>3, <2>4
  <2>6. L(i - 1) \in Nat
    BY <2>2, Associative
  <2>7. ofs + (D(i - 1) + L(i - 1)) = (ofs + D(i - 1)) + L(i - 1)
    BY <1>1, <2>2, <2>6, Associative
  <2>8. QED BY <2>2, <2>5, <2>7
<1>12. \A i \in 1..Len(s) : s[i].file = f
  BY <1>2, <1>3
<1>13. QED BY <1>9, <1>10, <1>11, <1>12 DEF Covers, ofs

-----------------------------------------------------------------------------
(* The calls keep the right file loaded.                                   *)

\* The files that are opened are small, and so is none at all.
LEMMA NoneSmall == NoFile.size < ModuleBytes
BY SMT DEF NoFile, ModuleBytes

LEMMA FoundSmall ==
    ASSUME Small, NEW m \in 1..Len(Mounts), NEW n, NEW file \in Lookup(m, n)
    PROVE  file.size < ModuleBytes
BY Found DEF Small

LEMMA OpenReads ==
    ASSUME Small, IInv, RInv, NEW a \in FcbAddr, NEW dr \in Drive, NEW n \in Name, Open(a, dr, n)
    PROVE  RInv'
<1>1. /\ pc' = "open" /\ h2d' = h2d /\ dat' = dat /\ opened' = [opened EXCEPT ![a] = NoFile]
      /\ call' = [NoCall EXCEPT !.fn = "open", !.at = a] /\ pc = "program"
      /\ \A b \in FcbAddr \ {a} : opened[b] = NoFile
  BY DEF Open, Send, Small, host
<1>2. h2d = <<>> /\ opened \in [FcbAddr -> File]
  BY <1>1 DEF IInv, Sync, TypeOK
<1>3. \A b \in FcbAddr : opened'[b] = NoFile
  BY <1>1, <1>2
<1>4. Loaded'
  BY <1>1, <1>2, <1>3, NoneLoaded DEF RInv, Loaded
<1>5. Served'
  BY <1>1 DEF Served, NoCall
<1>6. QED BY <1>1, <1>4, <1>5, NotReturned DEF RInv

LEMMA CloseReads ==
    ASSUME IInv, RInv, NEW a \in FcbAddr, Close(a)
    PROVE  RInv'
<1>1. /\ pc' = "program" /\ h2d' = h2d /\ dat' = dat /\ opened' = [opened EXCEPT ![a] = NoFile]
      /\ call' = [NoCall EXCEPT !.fn = "close", !.at = a] /\ opened[a] # NoFile
  BY DEF Close, Send, host
<1>2. opened \in [FcbAddr -> File]
  BY DEF IInv, TypeOK
<1>3. \A b \in FcbAddr : opened'[b] = NoFile
  BY <1>1, <1>2 DEF RInv, Loaded
<1>4. Loaded'
  BY <1>1, <1>3, NoneLoaded DEF RInv, Loaded
<1>5. Served'
  BY <1>1 DEF Served
<1>6. call'.fn = "close"
  BY <1>1 DEF NoCall
<1>7. QED BY <1>4, <1>5, <1>6, NotReturned DEF RInv

LEMMA WriteReads ==
    ASSUME IInv, RInv, NEW a \in FcbAddr, Write(a)
    PROVE  RInv'
<1> DEFINE q == [fn |-> "write", fcb |-> fcb[a]]
<1>1. /\ pc = "program" /\ pc' = "program" /\ UNCHANGED <<dat, opened, fcb, next, h2d>> /\ d2h' = Append(d2h, q)
      /\ call' = [NoCall EXCEPT !.fn = "write", !.at = a]
  BY DEF Write, Send, host, history
<1>2. q \in Request
  BY DEF IInv, TypeOK, Request, FnName
<1>3. \A i \in 1..Len(d2h') : d2h'[i] = q \/ \E j \in 1..Len(d2h) : d2h'[i] = d2h[j]
  BY <1>1, <1>2, Joins
<1>4. \A b \in FcbAddr : opened[b] # NoFile => At(fcb[b], next[b])
  BY DEF RInv, Loaded
<1>5. Loaded'
  BY <1>1, <1>3, <1>4, LoadedStays
<1>6. Served'
  BY <1>1 DEF Served
<1>7. call'.fn = "write"
  BY <1>1 DEF NoCall
<1>8. QED BY <1>5, <1>6, <1>7, NotReturned DEF RInv

\* What the program asks for is where its FCB stands.
LEMMA ReadReads ==
    ASSUME IInv, RInv, NEW a \in FcbAddr, Read(a)
    PROVE  RInv'
<1> DEFINE q == [fn |-> "read", fcb |-> fcb[a]]
<1>1. /\ pc = "program" /\ pc' = "status" /\ UNCHANGED <<dat, opened, fcb, next, h2d>> /\ d2h' = Append(d2h, q)
      /\ call' = [fn |-> "read", at |-> a, file |-> opened[a], rec |-> next[a]] /\ opened[a] # NoFile
  BY DEF Read, Send, host, history
<1>2. q \in Request
  BY DEF IInv, TypeOK, Request, FnName
<1>3. /\ \A i \in 1..Len(d2h') : d2h'[i] = q \/ \E j \in 1..Len(d2h) : d2h'[i] = d2h[j]
      /\ d2h'[Len(d2h')] = q
  BY <1>1, <1>2, Joins
<1>4. \A b \in FcbAddr : opened[b] # NoFile => At(fcb[b], next[b])
  BY DEF RInv, Loaded
<1>5. Loaded'
  BY <1>1, <1>3, <1>4, LoadedStays
<1>6. h2d = <<>>
  BY <1>1 DEF IInv, Sync
<1>7. Served'
  BY <1>1, <1>3, <1>4, <1>6 DEF Served
<1>8. QED BY <1>1, <1>5, <1>7, NotReturned DEF RInv

LEMMA ReadRandomReads ==
    ASSUME Small, IInv, RInv, NEW a \in FcbAddr, NEW rr \in Rand, ReadRandom(a, rr)
    PROVE  RInv'
<1> DEFINE f == Seek(fcb[a], rr % 256, rr \div 256)
           q == [fn |-> "read", fcb |-> f]
<1>1. /\ pc = "program" /\ pc' = "status" /\ UNCHANGED <<dat, opened, h2d>> /\ d2h' = Append(d2h, q)
      /\ fcb' = [fcb EXCEPT ![a] = f] /\ next' = [next EXCEPT ![a] = rr] /\ opened[a] # NoFile
      /\ call' = [fn |-> "readrand", at |-> a, file |-> opened[a], rec |-> rr]
  BY DEF ReadRandom, Send, host
<1>2. fcb[a] \in Fcbs /\ fcb \in [FcbAddr -> Fcbs] /\ next \in [FcbAddr -> Nat]
  BY DEF IInv, TypeOK
<1>3. f \in Fcbs /\ At(f, rr)
  BY <1>2, InputTypes, SeekType, AtSeek
<1> HIDE DEF f
<1>4. q \in Request
  BY <1>3 DEF Request, FnName
<1>5. /\ \A i \in 1..Len(d2h') : d2h'[i] = q \/ \E j \in 1..Len(d2h) : d2h'[i] = d2h[j]
      /\ d2h'[Len(d2h')] = q
  BY <1>1, <1>4, Joins
<1>6. fcb'[a] = f /\ next'[a] = rr
  BY <1>1, <1>2
<1>7. \A b \in FcbAddr : opened[b] # NoFile => At(fcb'[b], next'[b])
  <2>1. ASSUME NEW b \in FcbAddr, opened[b] # NoFile PROVE b = a
    BY <1>1, <2>1 DEF RInv, Loaded
  <2>2. QED BY <1>3, <1>6, <2>1
<1>8. Loaded'
  BY <1>1, <1>5, <1>7, LoadedStays
<1>9. h2d = <<>>
  BY <1>1 DEF IInv, Sync
<1>10. Served'
  BY <1>1, <1>3, <1>5, <1>6, <1>9 DEF Served
<1>11. QED BY <1>1, <1>8, <1>10, NotReturned DEF RInv

LEMMA SearchReads ==
    ASSUME IInv, RInv, NEW fn \in {"sfirst", "snext"}, NEW a \in FcbAddr, NEW f \in Fcbs, Search(fn, a, f)
    PROVE  RInv'
<1> DEFINE q == [fn |-> fn, fcb |-> f]
<1>1. /\ pc = "program" /\ pc' = "entry" /\ UNCHANGED <<dat, opened, next, h2d>> /\ d2h' = Append(d2h, q)
      /\ fcb' = [fcb EXCEPT ![a] = f] /\ opened[a] = NoFile
      /\ call' = [NoCall EXCEPT !.fn = fn, !.at = a]
  BY DEF Search, Send, host
<1>2. q \in Request
  BY DEF Request, FnName
<1>3. \A i \in 1..Len(d2h') : d2h'[i] = q \/ \E j \in 1..Len(d2h) : d2h'[i] = d2h[j]
  BY <1>1, <1>2, Joins
<1>4. fcb \in [FcbAddr -> Fcbs]
  BY DEF IInv, TypeOK
<1>5. \A b \in FcbAddr : opened[b] # NoFile => At(fcb'[b], next'[b])
  <2>1. ASSUME NEW b \in FcbAddr, opened[b] # NoFile PROVE fcb'[b] = fcb[b] /\ next' = next /\ At(fcb[b], next[b])
    BY <1>1, <1>4, <2>1 DEF RInv, Loaded
  <2>2. QED BY <2>1
<1>6. Loaded'
  BY <1>1, <1>3, <1>5, LoadedStays
<1>7. call'.fn = fn
  BY <1>1 DEF NoCall
<1>8. Served'
  BY <1>1, <1>7 DEF Served
<1>9. QED BY <1>1, <1>6, <1>8, NotReturned DEF RInv

LEMMA SearchFirstReads ==
    ASSUME IInv, RInv, NEW a \in FcbAddr, NEW dr \in Drive, NEW n \in Pattern, SearchFirst(a, dr, n)
    PROVE  RInv'
<1>1. fcb[a] \in Fcbs /\ dr \in Byte /\ n \in Name \cup {AnyName} /\ 0 \in Byte
  BY InputTypes DEF IInv, TypeOK, Byte
<1>2. PICK f \in Fcbs : f = [fcb[a] EXCEPT !.dr = dr, !.name = n, !.ex = 0]
  BY <1>1, FcbFields
<1>3. Search("sfirst", a, f)
  BY <1>2 DEF SearchFirst
<1>4. QED BY <1>3, SearchReads

LEMMA SearchNextReads ==
    ASSUME IInv, RInv, NEW a \in FcbAddr, SearchNext(a)
    PROVE  RInv'
<1>1. fcb[a] \in Fcbs /\ Search("snext", a, fcb[a])
  BY DEF IInv, TypeOK, SearchNext
<1>2. QED BY <1>1, SearchReads

LEMMA SetDmaReads ==
    ASSUME RInv, NEW d \in DmaAddr, SetDma(d)
    PROVE  RInv'
<1>1. UNCHANGED <<pc, call, ret, dat, opened, fcb, next, h2d, d2h>> /\ pc = "program"
  BY DEF SetDma, host, history
<1>2. Loaded'
  BY <1>1 DEF RInv, Loaded
<1>3. Served'
  BY <1>1 DEF RInv, Served
<1>4. QED BY <1>1, <1>2, <1>3, SameReturned DEF RInv

LEMMA WarmBootReads ==
    ASSUME RInv, WarmBoot
    PROVE  RInv'
<1>1. pc' = "program" /\ dat' = dat /\ call' = NoCall /\ \A a \in FcbAddr : opened'[a] = NoFile
  BY DEF WarmBoot, host
<1>2. Loaded'
  BY <1>1, NoneLoaded DEF RInv, Loaded
<1>3. Served'
  BY <1>1 DEF Served
<1>4. QED BY <1>1, <1>2, <1>3, NotReturned DEF RInv, NoCall

-----------------------------------------------------------------------------
(* The answers are the ones that were asked for.                           *)

LEMMA ReceiveOpenReads ==
    ASSUME IInv, RInv, ReceiveOpen
    PROVE  RInv'
<1> DEFINE r == Head(h2d)
           a == call.at
<1>1. pc = "open" /\ h2d # <<>> /\ pc' = "program" /\ h2d' = Tail(h2d) /\ UNCHANGED <<d2h, dat, call>>
  BY DEF ReceiveOpen, host
<1>2. d2h = <<>> /\ a \in FcbAddr /\ r = h2d[1] /\ r \in OpenAnswer
  <2>1. d2h = <<>> /\ a \in FcbAddr /\ Len(h2d) = 1 /\ h2d[1] \in OpenAnswer /\ h2d \in Seq(Answer)
    BY <1>1, Heard DEF Replied, IInv, TypeOK
  <2>2. QED BY <1>1, <2>1
<1>3. r.status # 255 => r.status = 0
  BY <1>2 DEF OpenAnswer, Status
<1>4. r.status = 0 => r.file = dat /\ At(r.fcb, 0)
  BY <1>1, <1>2 DEF RInv, Loaded
<1>5. \A b \in FcbAddr : opened[b] = NoFile
  BY <1>1 DEF RInv, Loaded
<1>6. fcb \in [FcbAddr -> Fcbs] /\ opened \in [FcbAddr -> File] /\ next \in [FcbAddr -> Nat]
  BY DEF IInv, TypeOK
<1> HIDE DEF r, a
<1>7. Loaded'
  <2>1. CASE r.status = 255
    <3>1. opened' = opened
      BY <2>1 DEF ReceiveOpen, r
    <3>2. QED BY <1>1, <1>5, <3>1, NoneLoaded DEF RInv, Loaded
  <2>2. CASE r.status # 255
    <3>1. /\ fcb' = [fcb EXCEPT ![a] = r.fcb] /\ opened' = [opened EXCEPT ![a] = r.file]
          /\ next' = [next EXCEPT ![a] = 0]
      BY <2>2 DEF ReceiveOpen, r, a
    <3>2. opened'[a] = dat' /\ At(fcb'[a], next'[a]) /\ \A b \in FcbAddr : b # a => opened'[b] = NoFile
      BY <1>1, <1>2, <1>3, <1>4, <1>5, <1>6, <2>2, <3>1
    <3>3. dat'.size < ModuleBytes
      BY <1>1 DEF RInv, Loaded
    <3>4. \A i \in 1..Len(d2h') : FALSE
      BY <1>1, <1>2
    <3>5. QED BY <1>1, <3>2, <3>3, <3>4 DEF Loaded
  <2>3. QED BY <2>1, <2>2
<1>8. call.fn \notin {"read", "readrand"}
  BY <1>1 DEF RInv, Served
<1>9. Served'
  BY <1>1 DEF Served
<1>10. QED BY <1>1, <1>7, <1>8, <1>9, NotReturned DEF RInv

LEMMA ReceiveEntryReads ==
    ASSUME IInv, RInv, ReceiveEntry
    PROVE  RInv'
<1>1. /\ pc = "entry" /\ pc' = "program" /\ UNCHANGED <<d2h, dat, call, opened, fcb, next>>
  BY DEF ReceiveEntry, host
<1>2. \A b \in FcbAddr : opened[b] # NoFile => At(fcb[b], next[b])
  BY DEF RInv, Loaded
<1>3. Loaded'
  BY <1>1, <1>2, LoadedStays
<1>4. call.fn \notin {"read", "readrand"}
  BY <1>1 DEF RInv, Served
<1>5. Served'
  BY <1>1 DEF Served
<1>6. QED BY <1>1, <1>3, <1>4, <1>5, NotReturned DEF RInv

LEMMA ReceiveStatusReads ==
    ASSUME IInv, RInv, ReceiveStatus
    PROVE  RInv'
<1> DEFINE ofs == call.rec * recsize
<1>1. /\ pc = "status" /\ h2d # <<>> /\ h2d' = Tail(h2d) /\ h2d \in Seq(Answer)
      /\ UNCHANGED <<d2h, dat, call, opened, fcb, next>>
  BY DEF ReceiveStatus, host, history, IInv, TypeOK
<1>2. got' = <<>> /\ total' = 0
  BY <1>1 DEF ReceiveStatus, IInv, Sync
<1>3. \A b \in FcbAddr : opened[b] # NoFile => At(fcb[b], next[b])
  BY DEF RInv, Loaded
<1>4. pc' # "open"
  BY DEF ReceiveStatus
<1>5. Loaded'
  BY <1>1, <1>3, <1>4, LoadedStays
<1>6. /\ call.fn \in {"read", "readrand"} /\ opened[call.at] # NoFile
      /\ call.file = opened[call.at] /\ call.rec = next[call.at]
      /\ (h2d = <<Status(1)>> /\ ofs >= call.file.size) \/ Accepted(call.file, ofs)
  BY <1>1 DEF RInv, Served
<1>7. CASE h2d = <<Status(1)>> /\ ofs >= call.file.size
  <2>1. Head(h2d).len = 1 /\ Head(h2d).status = 1
    BY <1>7, StatusType
  <2>2. pc' = "program" /\ ret' = [NoRet EXCEPT !.a = 1]
    BY <2>1 DEF ReceiveStatus
  <2>3. ret'.a = 1
    BY <2>2 DEF NoRet
  <2>4. RightRecord' /\ RightEnd'
    BY <1>1, <1>7, <2>3 DEF RightRecord, RightEnd
  <2>5. Served'
    BY <2>2 DEF Served
  <2>6. QED BY <1>5, <2>4, <2>5 DEF RInv
<1>8. CASE Accepted(call.file, ofs)
  <2>1. Head(h2d).len = 1 /\ Head(h2d).status = 0
    BY <1>1, <1>8, StatusType DEF Accepted
  <2>2. pc' = "data"
    BY <2>1 DEF ReceiveStatus
  <2>3. PICK f, o : f = call.file /\ o = ofs
    OBVIOUS
  <2>4. Accepted(f, o)
    BY <1>8, <2>3
  <2>5. Reading(f, o)'
    BY <1>1, <1>2, <2>4, StartsReading DEF Reading
  <2>6. Reading(call.file, call.rec * recsize)'
    BY <1>1, <2>3, <2>5 DEF Reading
  <2>7. Served'
    BY <1>1, <1>6, <2>2, <2>6 DEF Served
  <2>8. QED BY <1>5, <2>2, <2>7, NotReturned DEF RInv
<1>9. QED BY <1>6, <1>7, <1>8

LEMMA ReceiveDataReads ==
    ASSUME IInv, RInv, ReceiveData
    PROVE  RInv'
<1> DEFINE rec == call.rec
           a == call.at
<1>1. pc = "data" /\ UNCHANGED <<d2h, dat, call, opened>>
  BY DEF ReceiveData, host
<1>2. /\ call.fn \in {"read", "readrand"} /\ opened[a] # NoFile /\ call.file = opened[a] /\ rec = next[a]
      /\ Reading(call.file, rec * recsize)
  BY <1>1 DEF RInv, Served
<1>3. a \in FcbAddr /\ rec \in Nat /\ fcb \in [FcbAddr -> Fcbs] /\ next \in [FcbAddr -> Nat]
  BY <1>1, <1>2 DEF IInv, Sync, TypeOK
<1>4. PICK f, ofs : f = call.file /\ ofs = rec * recsize
  OBVIOUS
<1>5. Reading(f, ofs) /\ InFile(f, ofs) /\ f.size < ModuleBytes /\ f.size \in Nat /\ ofs \in Nat /\ ofs < f.size
  <2>1. Reading(f, ofs)
    BY <1>2, <1>4
  <2>2. InFile(f, ofs) /\ ofs < f.size
    BY <2>1 DEF Reading, InFile
  <2>3. f.size < ModuleBytes
    BY <1>2, <1>3, <1>4 DEF RInv, Loaded
  <2>4. QED BY <2>1, <2>2, <2>3, BytesRange
<1>6. \A b \in FcbAddr : opened[b] # NoFile => b = a /\ At(fcb[b], next[b])
  BY <1>2, <1>3 DEF RInv, Loaded
<1> HIDE DEF a
<1>7. CASE pc' = "data" /\ Reading(f, ofs)' /\ UNCHANGED <<fcb, junk, ret, next>>
  <2>1. Loaded'
    BY <1>1, <1>6, <1>7, LoadedStays
  <2>2. Reading(call.file, call.rec * recsize)'
    BY <1>1, <1>4, <1>7 DEF Reading
  <2>3. Served'
    BY <1>1, <1>2, <1>7, <2>2 DEF Served, a
  <2>4. QED BY <1>7, <2>1, <2>3, NotReturned DEF RInv
<1>8. CASE /\ pc' = "program" /\ h2d' = <<>> /\ got' \in Seq(Segment)
           /\ Pieces(got', f, ofs, Frames(Bytes(f, ofs))) /\ ret' = [NoRet EXCEPT !.data = got']
           /\ IF call.fn = "read"
              THEN fcb' = [fcb EXCEPT ![call.at] = Advance(@)] /\ next' = [next EXCEPT ![call.at] = @ + 1]
              ELSE UNCHANGED <<fcb, next>>
  <2>1. rec < 4096
    <3>1. ofs = rec * 128 /\ ofs < 524288
      BY <1>4, <1>5, SMT DEF recsize, ModuleBytes
    <3>2. QED BY <1>3, <3>1, SMT
  <2>2. \A b \in FcbAddr : opened[b] # NoFile => At(fcb'[b], next'[b])
    <3>1. At(fcb[a], next[a]) /\ fcb[a] \in Fcbs
      BY <1>2, <1>3, <1>6 DEF a
    <3>2. At(Advance(fcb[a]), next[a] + 1)
      BY <1>2, <1>3, <2>1, <3>1, AtAdvance DEF a
    <3>3. At(fcb'[a], next'[a])
      <4>1. CASE call.fn = "read"
        <5>1. fcb'[a] = Advance(fcb[a]) /\ next'[a] = next[a] + 1
          BY <1>3, <1>8, <4>1 DEF a
        <5>2. QED BY <3>2, <5>1
      <4>2. CASE call.fn # "read"
        BY <1>8, <3>1, <4>2
      <4>3. QED BY <4>1, <4>2
    <3>4. QED BY <1>6, <3>3
  <2>3. Loaded'
    BY <1>1, <1>8, <2>2, LoadedStays
  <2>4. ret'.a = 0 /\ ret'.data = got'
    BY <1>8 DEF NoRet
  <2>5. Covers(got', f, rec)
    BY <1>3, <1>4, <1>5, <1>8, PiecesCover
  <2>6. RightRecord'
    <3>1. Covers(ret.data, call.file, call.rec)'
      BY <1>1, <1>4, <2>4, <2>5 DEF Covers
    <3>2. QED BY <3>1 DEF RightRecord
  <2>7. RightEnd'
    <3>1. ~(call.rec * recsize >= call.file.size)
      BY <1>4, <1>5
    <3>2. QED BY <1>1, <2>4, <3>1 DEF RightEnd
  <2>8. Served'
    BY <1>8 DEF Served
  <2>9. QED BY <2>3, <2>6, <2>7, <2>8 DEF RInv
<1>9. QED BY <1>5, <1>7, <1>8, DataStep

-----------------------------------------------------------------------------
(* The host loads and reads the file that is open.                         *)

\* Requests the program's files do not depend on.
LEMMA OthersTaken ==
    ASSUME IInv, RInv, d2h # <<>>, d2h' = Tail(d2h), UNCHANGED <<device, dat, history>>,
           pc \in {"open", "status"} => h2d' = <<>>
    PROVE  RInv'
<1>1. UNCHANGED <<pc, call, ret, opened, fcb, next>>
  BY DEF device, history
<1>2. /\ \A i \in 1..Len(d2h') : \E j \in 1..Len(d2h) : d2h'[i] = d2h[j]
      /\ d2h' # <<>> => d2h'[Len(d2h')] = d2h[Len(d2h)]
  BY Leaves
<1>3. Loaded'
  <2>1. CASE pc = "open"
    <3>1. \A a \in FcbAddr : opened'[a] = NoFile
      BY <1>1, <2>1 DEF RInv, Loaded
    <3>2. QED BY <1>1, <2>1, <3>1, NoneLoaded DEF RInv, Loaded
  <2>2. CASE pc # "open"
    <3>1. \A b \in FcbAddr : opened[b] # NoFile => At(fcb[b], next[b])
      BY DEF RInv, Loaded
    <3>2. QED BY <1>1, <1>2, <2>2, <3>1, LoadedStays
  <2>3. QED BY <2>1, <2>2
<1>4. pc # "data"
  BY DEF IInv, Sync
<1>5. Served'
  BY <1>1, <1>2, <1>4 DEF RInv, Served
<1>6. QED BY <1>1, <1>3, <1>5, SameReturned DEF RInv

LEMMA HostCrashReads ==
    ASSUME IInv, RInv, HostCrash
    PROVE  RInv'
<1>1. d2h # <<>> /\ d2h' = Tail(d2h) /\ UNCHANGED <<device, dat, history, h2d>>
  BY DEF HostCrash
<1>2. QED BY <1>1, Taken, OthersTaken

LEMMA HostWriteReads ==
    ASSUME IInv, RInv, HostWrite
    PROVE  RInv'
<1>1. d2h # <<>> /\ d2h' = Tail(d2h) /\ UNCHANGED <<device, dat, history, h2d>>
  BY DEF HostWrite, Take, host
<1>2. QED BY <1>1, Taken, OthersTaken

LEMMA HostSearchReads ==
    ASSUME IInv, RInv, HostSearch
    PROVE  RInv'
<1>1. d2h # <<>> /\ d2h' = Tail(d2h) /\ UNCHANGED <<device, dat, history>> /\ Head(d2h).fn \in {"sfirst", "snext"}
  BY DEF HostSearch, Take
<1>2. ~Quiet(Head(d2h).fn)
  BY <1>1 DEF Quiet
<1>3. pc = "entry"
  BY <1>1, <1>2, Answers DEF Asked
<1>4. QED BY <1>1, <1>3, OthersTaken

\* The loaded file is dropped when no file is open any more.
LEMMA HostCloseReads ==
    ASSUME IInv, RInv, HostClose
    PROVE  RInv'
<1>1. /\ d2h # <<>> /\ d2h' = Tail(d2h) /\ UNCHANGED <<device, history, h2d>> /\ Head(d2h).fn = "close"
      /\ dat' = NoFile
  BY DEF HostClose, Take
<1>2. UNCHANGED <<pc, call, ret, opened, fcb, next>>
  BY <1>1 DEF device, history
<1>3. \A a \in FcbAddr : opened[a] = NoFile
  BY <1>1, Leaves DEF RInv, Loaded
<1>4. h2d' = <<>>
  BY <1>1, Taken
<1>5. Loaded'
  BY <1>1, <1>2, <1>3, <1>4, NoneLoaded, NoneSmall
<1>6. pc \notin {"status", "data"}
  BY <1>3 DEF IInv, Sync, RInv, Served
<1>7. Served'
  BY <1>2, <1>6 DEF RInv, Served
<1>8. QED BY <1>2, <1>5, <1>7, SameReturned DEF RInv

LEMMA HostOpenReads ==
    ASSUME Small, IInv, RInv, HostOpen
    PROVE  RInv'
<1> DEFINE f == Head(d2h).fcb
           ans == [status |-> 0, len |-> 37, fcb |-> OpenedFcb(f, dat'), file |-> dat']
<1>1. pc = "open" /\ d2h' = <<>> /\ UNCHANGED <<device, history>>
  BY HostOpenDoes
<1>2. UNCHANGED <<pc, call, ret, opened, fcb, next>>
  BY <1>1 DEF device, history
<1>3. \A a \in FcbAddr : opened[a] = NoFile
  BY <1>1 DEF RInv, Loaded
<1>4. Loaded'
  <2>1. CASE h2d' = <<Status(255)>> /\ dat' = dat
    <3>1. h2d'[1].status # 0
      BY <2>1, StatusType
    <3>2. dat'.size < ModuleBytes
      BY <2>1 DEF RInv, Loaded
    <3>3. QED BY <1>2, <1>3, <3>1, <3>2 DEF Loaded
  <2>2. CASE dat' \in Lookup(MountOf(f.dr), f.name) /\ MountOf(f.dr) \in 1..Len(Mounts) /\ f \in Fcbs /\ h2d' = <<ans>>
    <3>1. dat' \in HostFile /\ dat'.size < ModuleBytes
      BY <2>2, Found, FoundSmall
    <3>2. At(OpenedFcb(f, dat'), 0)
      BY <2>2, <3>1, AtOpened
    <3>3. h2d'[1].file = dat' /\ h2d'[1].fcb = OpenedFcb(f, dat')
      BY <2>2
    <3>4. At(h2d'[1].fcb, 0)
      BY <3>2, <3>3
    <3> HIDE DEF f, ans
    <3>5. QED BY <1>2, <1>3, <3>1, <3>3, <3>4 DEF Loaded
  <2>3. QED BY <2>1, <2>2, HostOpenDoes
<1>5. Served'
  BY <1>1, <1>2 DEF RInv, Served
<1>6. QED BY <1>2, <1>4, <1>5, SameReturned DEF RInv

\* The host reads the record the BDOS asked for, of the file that is open.
LEMMA HostReadReads ==
    ASSUME IInv, RInv, HostRead
    PROVE  RInv'
<1> DEFINE hr == HostRecord(Head(d2h).fcb)
           rec == call.rec
<1>1. /\ d2h # <<>> /\ d2h' = Tail(d2h) /\ d2h' = <<>> /\ pc = "status" /\ UNCHANGED <<device, dat, history>>
      /\ hr \in Nat /\ hr * recsize \in Nat
      /\ \/ dat = NoFile /\ h2d' = <<Status(255)>>
         \/ dat # NoFile /\ hr * recsize >= dat.size /\ h2d' = <<Status(1)>>
         \/ \E f \in HostFile, o \in Nat : f = dat /\ o = hr * recsize /\ o < f.size /\ Accepted(f, o)'
  BY HostReadDoes DEF host
<1>2. UNCHANGED <<pc, call, ret, opened, fcb, next>>
  BY <1>1 DEF device, history
<1>3. /\ call.fn \in {"read", "readrand"} /\ opened[call.at] # NoFile /\ call.file = opened[call.at]
      /\ rec = next[call.at] /\ At(Head(d2h).fcb, rec)
  BY <1>1, Leaves DEF RInv, Served
<1>4. call.at \in FcbAddr /\ rec \in Nat /\ dat \in File
  <2>1. call.at \in FcbAddr
    BY <1>1 DEF IInv, Sync
  <2>2. next \in [FcbAddr -> Nat] /\ dat \in File
    BY DEF IInv, TypeOK
  <2>3. QED BY <1>3, <2>1, <2>2
<1>5. dat = call.file /\ dat # NoFile /\ dat.size < ModuleBytes
  BY <1>3, <1>4 DEF RInv, Loaded
<1>6. dat.size \in Nat
  <2>1. dat \in HostFile
    BY <1>4, <1>5 DEF File
  <2>2. dat.size \in 0..MaxSize
    BY <2>1, SMT DEF HostFile
  <2>3. MaxSize \in Nat
    BY SMT DEF MaxSize
  <2>4. QED BY <2>2, <2>3
<1>7. hr = rec \/ (hr >= 4096 /\ rec >= 4096)
  BY <1>3, <1>4 DEF At
<1>8. hr >= 4096 => hr * recsize >= dat.size
  BY <1>1, <1>5, <1>6, SMT DEF recsize, ModuleBytes
<1>9. rec >= 4096 => rec * recsize >= dat.size
  BY <1>4, <1>5, <1>6, SMT DEF recsize, ModuleBytes
<1> HIDE DEF hr
<1>10. Loaded'
  <2>1. \A b \in FcbAddr : opened[b] # NoFile => At(fcb[b], next[b])
    BY DEF RInv, Loaded
  <2>2. \A i \in 1..Len(d2h') : \E j \in 1..Len(d2h) : d2h'[i] = d2h[j]
    BY <1>1, Leaves
  <2>3. QED BY <1>1, <1>2, <2>1, <2>2, LoadedStays
<1>11. \/ h2d' = <<Status(1)>> /\ rec * recsize >= call.file.size
       \/ Accepted(call.file, rec * recsize)'
  <2>1. CASE hr * recsize >= dat.size /\ h2d' = <<Status(1)>>
    <3>1. rec * recsize >= dat.size
      BY <1>7, <1>9, <2>1
    <3>2. QED BY <1>5, <2>1, <3>1
  <2>2. CASE \E f \in HostFile, o \in Nat : f = dat /\ o = hr * recsize /\ o < f.size /\ Accepted(f, o)'
    <3>1. PICK f \in HostFile, o \in Nat : f = dat /\ o = hr * recsize /\ o < f.size /\ Accepted(f, o)'
      BY <2>2
    <3>2. ~(hr * recsize >= dat.size)
      BY <1>1, <1>6, <3>1
    <3>3. hr = rec
      BY <1>7, <1>8, <3>2
    <3>4. f = call'.file /\ o = call'.rec * recsize
      BY <1>2, <1>5, <3>1, <3>3
    <3>5. QED BY <3>1, <3>4 DEF Accepted
  <2>3. QED BY <1>1, <1>5, <2>1, <2>2
<1>12. Served'
  BY <1>1, <1>2, <1>3, <1>11 DEF Served
<1>13. QED BY <1>2, <1>10, <1>12, SameReturned DEF RInv

-----------------------------------------------------------------------------
(* What a program reads is what it asked for.                              *)

LEMMA InitReads == Init => RInv
<1> SUFFICES ASSUME Init PROVE RInv
  OBVIOUS
<1>1. Loaded
  BY NoneSmall DEF Init, Loaded
<1>2. Served
  BY DEF Init, Served
<1>3. RightRecord /\ RightEnd
  BY DEF Init, RightRecord, RightEnd, Returned, NoCall
<1>4. QED BY <1>1, <1>2, <1>3 DEF RInv

LEMMA NextReads == Small /\ IInv /\ RInv /\ [Next]_vars => RInv'
<1> SUFFICES ASSUME Small, IInv, RInv, [Next]_vars PROVE RInv'
  OBVIOUS
<1>1. ASSUME Calls PROVE RInv'
  BY <1>1, OpenReads, CloseReads, WriteReads, ReadReads, ReadRandomReads, SearchFirstReads,
     SearchNextReads, SetDmaReads, WarmBootReads DEF Calls
<1>2. ASSUME Receive PROVE RInv'
  BY <1>2, ReceiveOpenReads, ReceiveEntryReads, ReceiveStatusReads, ReceiveDataReads DEF Receive
<1>3. ASSUME Host PROVE RInv'
  BY <1>3, HostCrashReads, HostOpenReads, HostCloseReads, HostWriteReads, HostSearchReads, HostReadReads DEF Host
<1>4. ASSUME UNCHANGED vars PROVE RInv'
  <2>1. UNCHANGED <<pc, call, ret, dat, opened, fcb, next, h2d, d2h, got, total>>
    BY <1>4 DEF vars, device, host, history
  <2>2. Loaded'
    BY <2>1 DEF RInv, Loaded
  <2>3. Served'
    BY <2>1 DEF RInv, Served, Accepted, Reading
  <2>4. QED BY <2>1, <2>2, <2>3, SameReturned DEF RInv
<1>5. QED BY <1>1, <1>2, <1>3, <1>4 DEF Next

\* With one file of at most one module open at a time, the host's loaded file is the
\* open one and both ends agree on the record: RInv is inductive beside IInv.
THEOREM ReadsHold ==
    ASSUME Small
    PROVE  Spec => [](IInv /\ RInv)
<1>1. Init => IInv /\ RInv
  BY InitSync, InitReads
<1>2. IInv /\ RInv /\ [Next]_vars => (IInv /\ RInv)'
  BY NextSync, NextReads
<1>3. QED BY <1>1, <1>2, PTL DEF Spec

\* A successful F_READ or F_READRAND leaves the record the program stands at in the
\* DMA area, of the file its FCB was opened on, complete and in order, for every
\* frame size, whatever was closed, written, searched or abandoned before.
THEOREM RecordIsRight ==
    ASSUME Small
    PROVE  Spec => []RightRecord
<1>1. RInv => RightRecord
  BY DEF RInv
<1>2. QED BY <1>1, ReadsHold, PTL

\* The end of the file is reported beyond its last record and only there.
THEOREM EndIsRight ==
    ASSUME Small
    PROVE  Spec => []RightEnd
<1>1. RInv => RightEnd
  BY DEF RInv
<1>2. QED BY <1>1, ReadsHold, PTL

\* Device and host compute the position with different arithmetic (bdos_f_read_,
\* bdos_f_readrand_, rn of handle_frame) and agree on it for every file of one module.
THEOREM PositionIsKept ==
    ASSUME Small
    PROVE  Spec => []PositionKept
<1>1. RInv => PositionKept
  BY DEF RInv, Loaded, At, PositionKept
<1>2. QED BY <1>1, ReadsHold, PTL

-----------------------------------------------------------------------------
(* Programs that use the default drive.                                    *)

\* dr is 0, or beyond the mounts: handle_frame and fcb.h mean the same mount by it.
DefaultDrive == \A dr \in Drive : dr = 0 \/ dr > Len(Mounts)

\* The host spells the names of the first mount as an FCB does or in lower case.
Spellable == \A i \in 1..Len(Mounts[1]) : Mounts[1][i].spelled \in {"exact", "lower"}

\* The host's listing stands where the program's search does, or has been dropped at its end.
Ended   == dirList = <<>> /\ Len(listed) = Len(listing)
Aligned == (dirList = listing /\ dirI = Len(listed)) \/ Ended

Lists ==
    /\ listing \in {<<>>, Mounts[1]}
    /\ Len(listed) <= Len(listing) /\ \A i \in 1..Len(listed) : listed[i] = Zeroed[listing[i].name]
    /\ pc # "entry" => Aligned
    /\ pc = "entry" /\ d2h # <<>> =>
          IF d2h[Len(d2h)].fn = "sfirst" THEN listed = <<>> /\ listing = Mounts[1] ELSE Aligned
    /\ pc = "entry" /\ h2d # <<>> =>
          IF h2d[1].status = 255
          THEN Ended
          ELSE /\ dirList = listing /\ Len(listed) < Len(listing) /\ dirI = Len(listed) + 1
               /\ h2d[1].name = Zeroed[listing[dirI].name]
    /\ pc \in {"open", "status", "data"} => call.fn \notin {"sfirst", "snext"}
    /\ Returned({"sfirst", "snext"}) /\ ret.a = 255 => Len(listed) = Len(listing)

\* A file could be opened if it is in the first mount.
Finds ==
    /\ \A i \in 1..Len(d2h) : d2h[i].fn \in {"open", "sfirst"} => d2h[i].fcb.dr \in Drive
    /\ pc = "open" /\ d2h # <<>> => d2h[Len(d2h)].fcb.name = fcb[call.at].name
    /\ pc = "open" /\ h2d # <<>> =>
          IF h2d[1].status = 255
          THEN Lookup(1, fcb[call.at].name) = {}
          ELSE Lookup(1, fcb[call.at].name) # {} /\ h2d[1].fcb.name = fcb[call.at].name
    /\ pc \in {"entry", "status", "data"} => call.fn # "open"
    /\ Returned({"open"}) => (ret.a = 255 <=> Lookup(1, fcb[call.at].name) = {})

DInv == Lists /\ Finds

LEMMA OneMount ==
    ASSUME DefaultDrive, NEW dr \in Drive
    PROVE  NamedMount(dr) = 1 /\ MountOf(dr) = 1 /\ 1 \in 1..Len(Mounts)
<1>1. Mounts \in Seq(Seq(HostFile)) /\ Mounts # <<>>
  BY MountsAssumption
<1>2. Len(Mounts) \in Nat /\ Len(Mounts) >= 1
  BY <1>1, EmptySeq
<1>3. dr \in Byte
  BY InputAssumption
<1>4. dr \in Nat
  BY <1>3 DEF Byte
<1>5. dr = 0 \/ dr > Len(Mounts)
  BY DEF DefaultDrive
<1>6. QED BY <1>2, <1>4, <1>5 DEF NamedMount, MountOf

\* Steps that do not concern a search ...
LEMMA ListsKept ==
    ASSUME Lists, pc # "entry", pc' # "entry", UNCHANGED <<listing, listed, dirList, dirI>>,
           call'.fn \notin {"sfirst", "snext"}
    PROVE  Lists'
<1>1. Aligned'
  BY DEF Lists, Aligned, Ended
<1>2. QED BY <1>1 DEF Lists, Returned

\* ... or the opening of a file ...
LEMMA FindsKept ==
    ASSUME Finds, pc' # "open", call'.fn # "open",
           \A i \in 1..Len(d2h') : d2h'[i].fn \in {"open", "sfirst"} =>
               d2h'[i].fcb.dr \in Drive \/ \E j \in 1..Len(d2h) : d2h'[i] = d2h[j]
    PROVE  Finds'
BY DEF Finds, Returned

\* ... or take a request that is not answered.
LEMMA QuietKept ==
    ASSUME IInv, DInv, d2h # <<>>, d2h' = Tail(d2h), UNCHANGED <<device, h2d, dirList, dirI, history>>
    PROVE  DInv'
<1>1. UNCHANGED <<pc, call, ret, fcb, h2d, dirList, dirI, listing, listed>>
  BY DEF device, history
<1>2. /\ \A i \in 1..Len(d2h') : \E j \in 1..Len(d2h) : d2h'[i] = d2h[j]
      /\ d2h' # <<>> => d2h'[Len(d2h')] = d2h[Len(d2h)]
  BY Leaves
<1>3. Lists'
  BY <1>1, <1>2 DEF DInv, Lists, Aligned, Ended, Returned
<1>4. Finds'
  <2>1. \A i \in 1..Len(d2h') : d2h'[i].fn \in {"open", "sfirst"} => d2h'[i].fcb.dr \in Drive
    BY <1>2 DEF DInv, Finds
  <2>2. pc' = "open" /\ d2h' # <<>> => d2h'[Len(d2h')].fcb.name = fcb'[call'.at].name
    BY <1>1, <1>2 DEF DInv, Finds
  <2>3. QED BY <1>1, <2>1, <2>2 DEF DInv, Finds, Returned
<1>5. QED BY <1>3, <1>4 DEF DInv

\* What a call that neither opens nor searches leaves.
LEMMA CallKept ==
    ASSUME IInv, DInv, pc = "program", pc' \notin {"open", "entry"}, call'.fn \notin {"open", "sfirst", "snext"},
           UNCHANGED <<listing, listed, dirList, dirI>>,
           \/ d2h' = d2h
           \/ \E q \in Request : d2h' = Append(d2h, q) /\ q.fn \notin {"open", "sfirst"}
    PROVE  DInv'
<1>1. Lists'
  BY ListsKept DEF DInv
<1>2. \A i \in 1..Len(d2h') : d2h'[i].fn \in {"open", "sfirst"} => \E j \in 1..Len(d2h) : d2h'[i] = d2h[j]
  BY Joins
<1>3. Finds'
  BY <1>2, FindsKept DEF DInv
<1>4. QED BY <1>1, <1>3 DEF DInv

-----------------------------------------------------------------------------
(* The calls and the directory.                                            *)

LEMMA OpenFinds ==
    ASSUME IInv, DInv, NEW a \in FcbAddr, NEW dr \in Drive, NEW n \in Name, Open(a, dr, n)
    PROVE  DInv'
<1> DEFINE f == [NoFcb EXCEPT !.dr = dr, !.name = n]
           q == [fn |-> "open", fcb |-> f]
<1>1. /\ pc = "program" /\ pc' = "open" /\ d2h' = Append(d2h, q) /\ fcb' = [fcb EXCEPT ![a] = f]
      /\ call' = [NoCall EXCEPT !.fn = "open", !.at = a] /\ UNCHANGED <<h2d, dirList, dirI, listing, listed>>
  BY DEF Open, Send, host
<1>2. h2d = <<>> /\ fcb \in [FcbAddr -> Fcbs]
  BY <1>1 DEF IInv, Sync, TypeOK
<1>3. f \in Fcbs /\ f.dr = dr /\ f.name = n
  <2>1. f \in Fcbs
    BY NewFcbType, InputTypes, FcbFields
  <2>2. QED BY <2>1 DEF NoFcb
<1> HIDE DEF f
<1>4. q \in Request
  BY <1>3 DEF Request, FnName
<1>5. /\ \A i \in 1..Len(d2h') : d2h'[i] = q \/ \E j \in 1..Len(d2h) : d2h'[i] = d2h[j]
      /\ d2h'[Len(d2h')] = q
  BY <1>1, <1>4, Joins
<1>6. call'.fn = "open" /\ call'.at = a
  BY <1>1 DEF NoCall
<1>7. Lists'
  BY <1>1, <1>6, ListsKept DEF DInv
<1>8. fcb'[call'.at] = f
  BY <1>1, <1>2, <1>6
<1>9. \A i \in 1..Len(d2h') : d2h'[i].fn \in {"open", "sfirst"} => d2h'[i].fcb.dr \in Drive
  BY <1>3, <1>5 DEF DInv, Finds
<1>10. Finds'
  BY <1>1, <1>2, <1>5, <1>8, <1>9 DEF Finds, Returned
<1>11. QED BY <1>7, <1>10 DEF DInv

LEMMA CloseFinds ==
    ASSUME IInv, DInv, NEW a \in FcbAddr, Close(a)
    PROVE  DInv'
<1> DEFINE q == [fn |-> "close", fcb |-> fcb[a]]
<1>1. /\ pc = "program" /\ pc' = "program" /\ d2h' = Append(d2h, q) /\ UNCHANGED <<dirList, dirI, listing, listed>>
      /\ call' = [NoCall EXCEPT !.fn = "close", !.at = a]
  BY DEF Close, Send, host
<1>2. q \in Request
  BY DEF IInv, TypeOK, Request, FnName
<1>3. call'.fn = "close" /\ q.fn = "close"
  BY <1>1 DEF NoCall
<1>4. QED BY <1>1, <1>2, <1>3, CallKept

LEMMA WriteFinds ==
    ASSUME IInv, DInv, NEW a \in FcbAddr, Write(a)
    PROVE  DInv'
<1> DEFINE q == [fn |-> "write", fcb |-> fcb[a]]
<1>1. /\ pc = "program" /\ pc' = "program" /\ d2h' = Append(d2h, q) /\ UNCHANGED <<dirList, dirI, listing, listed>>
      /\ call' = [NoCall EXCEPT !.fn = "write", !.at = a]
  BY DEF Write, Send, host, history
<1>2. q \in Request
  BY DEF IInv, TypeOK, Request, FnName
<1>3. call'.fn = "write" /\ q.fn = "write"
  BY <1>1 DEF NoCall
<1>4. QED BY <1>1, <1>2, <1>3, CallKept

LEMMA ReadFinds ==
    ASSUME IInv, DInv, NEW a \in FcbAddr, Read(a)
    PROVE  DInv'
<1> DEFINE q == [fn |-> "read", fcb |-> fcb[a]]
<1>1. /\ pc = "program" /\ pc' = "status" /\ d2h' = Append(d2h, q) /\ UNCHANGED <<dirList, dirI, listing, listed>>
      /\ call'.fn = "read"
  BY DEF Read, Send, host, history
<1>2. q \in Request /\ q.fn = "read"
  BY DEF IInv, TypeOK, Request, FnName
<1>3. QED BY <1>1, <1>2, CallKept

LEMMA ReadRandomFinds ==
    ASSUME IInv, DInv, NEW a \in FcbAddr, NEW rr \in Rand, ReadRandom(a, rr)
    PROVE  DInv'
<1> DEFINE f == Seek(fcb[a], rr % 256, rr \div 256)
           q == [fn |-> "read", fcb |-> f]
<1>1. /\ pc = "program" /\ pc' = "status" /\ d2h' = Append(d2h, q) /\ UNCHANGED <<dirList, dirI, listing, listed>>
      /\ call'.fn = "readrand"
  BY DEF ReadRandom, Send, host
<1>2. fcb[a] \in Fcbs
  BY DEF IInv, TypeOK
<1>3. f \in Fcbs
  BY <1>2, InputTypes, SeekType
<1> HIDE DEF f
<1>4. q \in Request /\ q.fn = "read"
  BY <1>3 DEF Request, FnName
<1>5. QED BY <1>1, <1>4, CallKept

\* A search first begins at the directory the host will list.
LEMMA SearchFirstFinds ==
    ASSUME DefaultDrive, IInv, DInv, NEW a \in FcbAddr, NEW dr \in Drive, NEW n \in Pattern, SearchFirst(a, dr, n)
    PROVE  DInv'
<1>1. fcb[a] \in Fcbs /\ dr \in Byte /\ n \in Name \cup {AnyName} /\ 0 \in Byte
  BY InputTypes DEF IInv, TypeOK, Byte
<1>2. PICK f \in Fcbs : f = [fcb[a] EXCEPT !.dr = dr, !.name = n, !.ex = 0]
  BY <1>1, FcbFields
<1> DEFINE q == [fn |-> "sfirst", fcb |-> f]
<1>3. /\ pc = "program" /\ pc' = "entry" /\ d2h' = Append(d2h, q) /\ h2d' = h2d
      /\ call' = [NoCall EXCEPT !.fn = "sfirst", !.at = a] /\ listing' = Mounts[NamedMount(dr)] /\ listed' = <<>>
  BY <1>2 DEF SearchFirst, Search, Send
<1>4. f.dr = dr
  BY <1>1, <1>2 DEF Fcbs
<1>5. q \in Request /\ q.fn = "sfirst"
  BY DEF Request, FnName
<1>6. /\ \A i \in 1..Len(d2h') : d2h'[i] = q \/ \E j \in 1..Len(d2h) : d2h'[i] = d2h[j]
      /\ d2h'[Len(d2h')] = q
  BY <1>3, <1>5, Joins
<1>7. h2d' = <<>> /\ listing' = Mounts[1] /\ Len(listing') \in Nat
  <2>1. h2d = <<>>
    BY <1>3 DEF IInv, Sync
  <2>2. listing' = Mounts[1] /\ Mounts[1] \in Seq(HostFile)
    BY <1>3, OneMount, MountTypes
  <2>3. QED BY <1>3, <2>1, <2>2
<1>8. call'.fn = "sfirst"
  BY <1>3 DEF NoCall
<1>9. Len(listed') = 0
  BY <1>3
<1>10. Lists'
  BY <1>3, <1>5, <1>6, <1>7, <1>9 DEF Lists, Returned
<1>11. Finds'
  BY <1>3, <1>4, <1>6, <1>8, FindsKept DEF DInv
<1>12. QED BY <1>10, <1>11 DEF DInv

LEMMA SearchNextFinds ==
    ASSUME IInv, DInv, NEW a \in FcbAddr, SearchNext(a)
    PROVE  DInv'
<1> DEFINE q == [fn |-> "snext", fcb |-> fcb[a]]
<1>1. /\ pc = "program" /\ pc' = "entry" /\ d2h' = Append(d2h, q) /\ UNCHANGED <<h2d, dirList, dirI, listing, listed>>
      /\ call' = [NoCall EXCEPT !.fn = "snext", !.at = a]
  BY DEF SearchNext, Search, Send, host
<1>2. q \in Request /\ q.fn = "snext"
  BY DEF IInv, TypeOK, Request, FnName
<1>3. /\ \A i \in 1..Len(d2h') : d2h'[i] = q \/ \E j \in 1..Len(d2h) : d2h'[i] = d2h[j]
      /\ d2h'[Len(d2h')] = q
  BY <1>1, <1>2, Joins
<1>4. h2d = <<>>
  BY <1>1 DEF IInv, Sync
<1>5. call'.fn = "snext"
  BY <1>1 DEF NoCall
<1>6. Aligned'
  BY <1>1 DEF DInv, Lists, Aligned, Ended
<1>7. Lists'
  BY <1>1, <1>2, <1>3, <1>4, <1>6 DEF DInv, Lists, Returned
<1>8. Finds'
  BY <1>1, <1>2, <1>3, <1>5, FindsKept DEF DInv
<1>9. QED BY <1>7, <1>8 DEF DInv

LEMMA SetDmaFinds ==
    ASSUME DInv, NEW d \in DmaAddr, SetDma(d)
    PROVE  DInv'
<1>1. UNCHANGED <<pc, call, ret, fcb, h2d, d2h, dirList, dirI, listing, listed>>
  BY DEF SetDma, host, history
<1>2. Lists'
  BY <1>1 DEF DInv, Lists, Aligned, Ended, Returned
<1>3. Finds'
  BY <1>1 DEF DInv, Finds, Returned
<1>4. QED BY <1>2, <1>3 DEF DInv

LEMMA WarmBootFinds ==
    ASSUME IInv, DInv, WarmBoot
    PROVE  DInv'
<1>1. pc = "program" /\ pc' = pc /\ call' = NoCall /\ UNCHANGED <<d2h, dirList, dirI, listing, listed>>
  BY DEF WarmBoot, host
<1>2. call'.fn = "none"
  BY <1>1 DEF NoCall
<1>3. QED BY <1>1, <1>2, CallKept

-----------------------------------------------------------------------------
(* The answers and the directory.                                          *)

LEMMA ReceiveOpenFinds ==
    ASSUME IInv, DInv, ReceiveOpen
    PROVE  DInv'
<1>1. /\ pc = "open" /\ h2d # <<>> /\ pc' = "program" /\ UNCHANGED <<d2h, call, dirList, dirI, listing, listed>>
  BY DEF ReceiveOpen, host
<1>2. d2h = <<>> /\ Len(h2d) = 1 /\ Head(h2d) = h2d[1]
  <2>1. d2h = <<>> /\ Len(h2d) = 1 /\ h2d \in Seq(Answer)
    BY <1>1, Heard DEF Replied, IInv, TypeOK
  <2>2. QED BY <1>1, <2>1
<1>3. Lists'
  BY <1>1, ListsKept DEF DInv, Lists
<1>4. /\ ret'.a = 255 <=> h2d[1].status = 255
      /\ fcb'[call'.at].name = fcb[call.at].name
  <2>1. CASE h2d[1].status = 255
    <3>1. ret' = [NoRet EXCEPT !.a = 255] /\ fcb' = fcb
      BY <1>2, <2>1 DEF ReceiveOpen
    <3>2. QED BY <1>1, <2>1, <3>1 DEF NoRet
  <2>2. CASE h2d[1].status # 255
    <3>1. ret' = NoRet /\ fcb' = [fcb EXCEPT ![call.at] = h2d[1].fcb]
      BY <1>2, <2>2 DEF ReceiveOpen
    <3>2. call.at \in FcbAddr /\ fcb \in [FcbAddr -> Fcbs]
      BY <1>1, Heard DEF IInv, TypeOK
    <3>3. fcb'[call.at] = h2d[1].fcb /\ h2d[1].fcb.name = fcb[call.at].name
      BY <1>1, <2>2, <3>1, <3>2 DEF DInv, Finds
    <3>4. QED BY <1>1, <2>2, <3>1, <3>3 DEF NoRet
  <2>3. QED BY <2>1, <2>2
<1>5. \A i \in 1..Len(d2h') : FALSE
  BY <1>1, <1>2
<1>6. Finds'
  BY <1>1, <1>4, <1>5 DEF DInv, Finds, Returned
<1>7. QED BY <1>3, <1>6 DEF DInv

\* The entry that comes is the next one of the directory.
LEMMA ReceiveEntryFinds ==
    ASSUME IInv, DInv, ReceiveEntry
    PROVE  DInv'
<1> DEFINE r == h2d[1]
<1>1. /\ pc = "entry" /\ h2d # <<>> /\ pc' = "program" /\ UNCHANGED <<d2h, call, dirList, dirI, listing>>
  BY DEF ReceiveEntry, host
<1>2. d2h = <<>> /\ Len(h2d) = 1 /\ Head(h2d) = r /\ listed \in Seq(Name) /\ listing \in Seq(HostFile) /\ slot \in 0..3
      /\ r \in EntryAnswer
  <2>1. d2h = <<>> /\ Len(h2d) = 1 /\ h2d \in Seq(Answer) /\ listed \in Seq(Name) /\ listing \in Seq(HostFile)
        /\ slot \in 0..3 /\ h2d[1] \in EntryAnswer
    BY <1>1, Heard DEF Replied, IInv, TypeOK
  <2>2. QED BY <1>1, <2>1
<1>3. /\ listing \in {<<>>, Mounts[1]}
      /\ Len(listed) <= Len(listing) /\ \A i \in 1..Len(listed) : listed[i] = Zeroed[listing[i].name]
      /\ r.status = 255 => Ended
      /\ r.status # 255 => /\ dirList = listing /\ Len(listed) < Len(listing) /\ dirI = Len(listed) + 1
                           /\ r.name = Zeroed[listing[dirI].name]
  BY <1>1 DEF DInv, Lists
<1>4. r.status # 255 => r.name \in Name
  BY <1>2 DEF EntryAnswer, Status
<1> HIDE DEF r
<1>5. Lists'
  <2>1. CASE r.status = 255
    <3>1. listed' = listed
      BY <1>2, <2>1 DEF ReceiveEntry
    <3>2. Ended'
      BY <1>1, <1>3, <2>1, <3>1 DEF Ended
    <3>3. QED BY <1>1, <1>3, <2>1, <3>1, <3>2 DEF Lists, Aligned, Ended
  <2>2. CASE r.status # 255
    <3>1. listed' = Append(listed, r.name) /\ ret' = [NoRet EXCEPT !.a = slot, !.name = r.name]
      BY <1>2, <2>2 DEF ReceiveEntry
    <3>2. /\ Len(listed') = Len(listed) + 1 /\ listed'[Len(listed) + 1] = r.name
          /\ \A i \in 1..Len(listed) : listed'[i] = listed[i]
      BY <1>2, <1>4, <2>2, <3>1
    <3>3. Len(listed) \in Nat /\ Len(listing) \in Nat
      BY <1>2
    <3>4. Len(listed') <= Len(listing) /\ \A i \in 1..Len(listed') : listed'[i] = Zeroed[listing[i].name]
      BY <1>3, <2>2, <3>2, <3>3
    <3>5. Aligned'
      BY <1>1, <1>3, <2>2, <3>2 DEF Aligned
    <3>6. ret'.a # 255
      <4>1. ret'.a = slot
        BY <3>1 DEF NoRet
      <4>2. QED BY <1>2, <4>1
    <3>7. QED BY <1>1, <1>3, <3>4, <3>5, <3>6 DEF Lists
  <2>3. QED BY <2>1, <2>2
<1>6. \A i \in 1..Len(d2h') : FALSE
  BY <1>1, <1>2
<1>7. call'.fn # "open"
  BY <1>1 DEF DInv, Finds
<1>8. Finds'
  BY <1>1, <1>6, <1>7, FindsKept DEF DInv
<1>9. QED BY <1>5, <1>8 DEF DInv

LEMMA ReceiveStatusFinds ==
    ASSUME DInv, ReceiveStatus
    PROVE  DInv'
<1>1. pc = "status" /\ pc' \in {"data", "program"} /\ UNCHANGED <<d2h, call, dirList, dirI, listing, listed>>
  BY DEF ReceiveStatus, host, history
<1>2. Lists'
  BY <1>1, ListsKept DEF DInv, Lists
<1>3. call'.fn # "open"
  BY <1>1 DEF DInv, Finds
<1>4. Finds'
  BY <1>1, <1>3, FindsKept DEF DInv
<1>5. QED BY <1>2, <1>4 DEF DInv

LEMMA ReceiveDataFinds ==
    ASSUME DInv, ReceiveData
    PROVE  DInv'
<1>1. pc = "data" /\ pc' \in {"data", "program"} /\ UNCHANGED <<d2h, call, dirList, dirI, listing, listed>>
  BY DEF ReceiveData, host
<1>2. Lists'
  BY <1>1, ListsKept DEF DInv, Lists
<1>3. call'.fn # "open"
  BY <1>1 DEF DInv, Finds
<1>4. Finds'
  BY <1>1, <1>3, FindsKept DEF DInv
<1>5. QED BY <1>2, <1>4 DEF DInv

-----------------------------------------------------------------------------
(* The host and the directory.                                             *)

LEMMA HostQuietFinds ==
    ASSUME IInv, DInv, HostCrash \/ HostClose \/ HostWrite
    PROVE  DInv'
<1>1. d2h # <<>> /\ d2h' = Tail(d2h) /\ UNCHANGED <<device, h2d, dirList, dirI, history>>
  BY DEF HostCrash, HostClose, HostWrite, Take, host
<1>2. QED BY <1>1, QuietKept

\* A name that the host finds is opened.
LEMMA HostOpenHits ==
    ASSUME HostOpen, Lookup(MountOf(Head(d2h).fcb.dr), Head(d2h).fcb.name) # {}
    PROVE  h2d' = Append(h2d, [status |-> 0, len |-> 37, fcb |-> OpenedFcb(Head(d2h).fcb, dat'), file |-> dat'])
BY DEF HostOpen

LEMMA HostOpenMisses ==
    ASSUME HostOpen, Lookup(MountOf(Head(d2h).fcb.dr), Head(d2h).fcb.name) = {}
    PROVE  h2d' = Append(h2d, Status(255))
BY DEF HostOpen

\* An open fails when the host finds the name in neither spelling.
LEMMA HostOpenFinds ==
    ASSUME DefaultDrive, IInv, DInv, HostOpen
    PROVE  DInv'
<1> DEFINE f == Head(d2h).fcb
<1>1. /\ d2h # <<>> /\ d2h' = Tail(d2h) /\ d2h' = <<>> /\ Head(d2h).fn = "open" /\ pc = "open"
      /\ UNCHANGED <<device, dirList, dirI, history>>
      /\ h2d' = <<Status(255)>> \/ h2d'[1].status = 0
  BY HostOpenDoes
<1>2. UNCHANGED <<pc, call, ret, fcb, listing, listed>>
  BY <1>1 DEF device, history
<1>3. f.dr \in Drive /\ f.name = fcb[call.at].name
  BY <1>1, Leaves DEF DInv, Finds
<1>4. MountOf(f.dr) = 1
  BY <1>3, OneMount
<1>5. IF h2d'[1].status = 255
      THEN Lookup(1, fcb[call.at].name) = {}
      ELSE Lookup(1, fcb[call.at].name) # {} /\ h2d'[1].fcb.name = fcb[call.at].name
  <2> DEFINE found == Lookup(MountOf(f.dr), f.name)
             o == OpenedFcb(f, dat')
  <2>0. found = {} => h2d' = Append(h2d, Status(255))
    BY HostOpenMisses
  <2>1. found # {} => h2d' = Append(h2d, [status |-> 0, len |-> 37, fcb |-> OpenedFcb(f, dat'), file |-> dat'])
    BY HostOpenHits
  <2>2. ~Quiet(Head(d2h).fn)
    BY <1>1 DEF Quiet
  <2>3. \A s : Append(h2d, s) = <<s>>
    BY <1>1, <2>2, Answers
  <2>4. found = Lookup(1, fcb[call.at].name)
    BY <1>3, <1>4
  <2>5. o.name = f.name
    <3> DEFINE d == f.dr
               n == f.name
               t == OpenBit + ((dat'.size \div 524288) % OpenBit)
    <3>1. o = [NoFcb EXCEPT !.dr = d, !.name = n, !.s2 = t]
      BY DEF OpenedFcb
    <3> HIDE DEF o, d, n, t
    <3>2. o.name = n
      BY <3>1 DEF NoFcb
    <3>3. QED BY <3>2 DEF n
  <2>6. Status(255).status = 255
    BY DEF Status
  <2> HIDE DEF found, o
  <2>7. CASE found = {}
    BY <2>0, <2>3, <2>4, <2>6, <2>7
  <2>8. CASE found # {}
    <3>1. h2d' = <<[status |-> 0, len |-> 37, fcb |-> o, file |-> dat']>>
      BY <2>1, <2>3, <2>8 DEF o
    <3>2. h2d'[1].status = 0 /\ h2d'[1].fcb = o
      BY <3>1
    <3>3. QED BY <1>3, <2>4, <2>5, <2>8, <3>2
  <2>9. QED BY <2>7, <2>8
<1>6. Lists'
  BY <1>1, <1>2, ListsKept DEF DInv, Lists
<1>7. \A i \in 1..Len(d2h') : FALSE
  <2>1. d2h' = <<>>
    BY <1>1
  <2>2. QED BY <2>1
<1>8. Finds'
  BY <1>1, <1>2, <1>5, <1>7 DEF DInv, Finds, Returned
<1>9. QED BY <1>6, <1>8 DEF DInv

\* The host goes on where the program is.
LEMMA HostSearchFinds ==
    ASSUME DefaultDrive, IInv, DInv, HostSearch
    PROVE  DInv'
<1> DEFINE req == Head(d2h)
           list == SearchList
           i == SearchAt
           ans == EntryOf(list[i + 1])
<1>1. /\ d2h # <<>> /\ d2h' = Tail(d2h) /\ d2h' = <<>> /\ pc = "entry" /\ req.fn \in {"sfirst", "snext"}
      /\ UNCHANGED <<device, history>> /\ list \in Seq(HostFile) /\ i \in Nat
      /\ \/ i >= Len(list) /\ h2d' = <<Status(255)>> /\ dirList' = <<>> /\ dirI' = i
         \/ i + 1 \in 1..Len(list) /\ h2d' = <<ans>> /\ dirList' = list /\ dirI' = i + 1
  BY HostSearchDoes
<1>2. UNCHANGED <<pc, call, ret, fcb, listing, listed>>
  BY <1>1 DEF device, history
<1>3. /\ listing \in {<<>>, Mounts[1]} /\ Len(listed) <= Len(listing)
      /\ \A k \in 1..Len(listed) : listed[k] = Zeroed[listing[k].name]
      /\ IF req.fn = "sfirst" THEN listed = <<>> /\ listing = Mounts[1] ELSE Aligned
  BY <1>1, Leaves DEF DInv, Lists
<1>4. Len(listed) \in Nat /\ Len(listing) \in Nat
  BY DEF IInv, TypeOK
\* Either the listing is the one that is searched, or it has been dropped.
<1>5. (list = listing /\ i = Len(listed)) \/ (list = <<>> /\ Len(listed) = Len(listing))
  <2>1. CASE req.fn = "sfirst"
    <3>1. req.fcb.dr \in Drive
      BY <1>1, <2>1, Leaves DEF DInv, Finds
    <3>2. list = Mounts[1] /\ i = 0
      BY <2>1, <3>1, OneMount DEF SearchList, SearchAt
    <3>3. QED BY <1>3, <2>1, <3>2
  <2>2. CASE req.fn # "sfirst"
    BY <1>3, <2>2 DEF SearchList, SearchAt, Aligned, Ended
  <2>3. QED BY <2>1, <2>2
<1> HIDE DEF list, i
<1>6. CASE i >= Len(list) /\ h2d' = <<Status(255)>> /\ dirList' = <<>>
  <2>1. Len(listed) = Len(listing)
    BY <1>1, <1>3, <1>4, <1>5, <1>6
  <2>2. Ended' /\ h2d'[1].status = 255
    BY <1>2, <1>6, <2>1, StatusType DEF Ended
  <2>3. Lists'
    BY <1>1, <1>2, <1>3, <2>2 DEF Lists, Returned
  <2>4. \A k \in 1..Len(d2h') : FALSE
    <3>1. d2h' = <<>>
      BY <1>1
    <3>2. QED BY <3>1
  <2>5. Finds'
    BY <1>1, <1>2, <2>4 DEF DInv, Finds, Returned
  <2>6. QED BY <2>3, <2>5 DEF DInv
<1>7. CASE i + 1 \in 1..Len(list) /\ h2d' = <<ans>> /\ dirList' = list /\ dirI' = i + 1
  <2>1. list = listing /\ i = Len(listed) /\ Len(listed) < Len(listing)
    BY <1>1, <1>4, <1>5, <1>7
  <2>2. h2d'[1].status = 0 /\ h2d'[1].name = Zeroed[list[i + 1].name]
    BY <1>7 DEF EntryOf
  <2>3. Lists'
    BY <1>1, <1>2, <1>3, <1>7, <2>1, <2>2 DEF Lists, Returned
  <2>4. \A k \in 1..Len(d2h') : FALSE
    <3>1. d2h' = <<>>
      BY <1>1
    <3>2. QED BY <3>1
  <2>5. Finds'
    BY <1>1, <1>2, <2>4 DEF DInv, Finds, Returned
  <2>6. QED BY <2>3, <2>5 DEF DInv
<1>8. QED BY <1>1, <1>6, <1>7

LEMMA HostReadFinds ==
    ASSUME IInv, DInv, HostRead
    PROVE  DInv'
<1>1. d2h' = <<>> /\ pc = "status" /\ UNCHANGED <<device, host, history>>
  BY HostReadDoes
<1>2. UNCHANGED <<pc, call, ret, fcb, listing, listed, dirList, dirI>>
  BY <1>1 DEF device, history, host
<1>3. Lists'
  BY <1>1, <1>2, ListsKept DEF DInv, Lists
<1>4. call'.fn # "open" /\ \A i \in 1..Len(d2h') : FALSE
  BY <1>1, <1>2 DEF DInv, Finds
<1>5. Finds'
  BY <1>1, <1>2, <1>4, FindsKept DEF DInv
<1>6. QED BY <1>3, <1>5 DEF DInv

-----------------------------------------------------------------------------
(* What a search returns is the directory, and can be opened.              *)

LEMMA InitFinds == Init => DInv
<1> SUFFICES ASSUME Init PROVE DInv
  OBVIOUS
<1>1. Lists
  BY DEF Init, Lists, Aligned, Ended, Returned, NoCall
<1>2. Finds
  BY DEF Init, Finds, Returned, NoCall
<1>3. QED BY <1>1, <1>2 DEF DInv

LEMMA NextFinds == DefaultDrive /\ IInv /\ DInv /\ [Next]_vars => DInv'
<1> SUFFICES ASSUME DefaultDrive, IInv, DInv, [Next]_vars PROVE DInv'
  OBVIOUS
<1>1. ASSUME Calls PROVE DInv'
  BY <1>1, OpenFinds, CloseFinds, WriteFinds, ReadFinds, ReadRandomFinds, SearchFirstFinds,
     SearchNextFinds, SetDmaFinds, WarmBootFinds DEF Calls
<1>2. ASSUME Receive PROVE DInv'
  BY <1>2, ReceiveOpenFinds, ReceiveEntryFinds, ReceiveStatusFinds, ReceiveDataFinds DEF Receive
<1>3. ASSUME Host PROVE DInv'
  BY <1>3, HostQuietFinds, HostOpenFinds, HostSearchFinds, HostReadFinds DEF Host
<1>4. ASSUME UNCHANGED vars PROVE DInv'
  <2>1. UNCHANGED <<pc, call, ret, fcb, h2d, d2h, dirList, dirI, listing, listed>>
    BY <1>4 DEF vars, device, host, history
  <2>2. Lists'
    BY <2>1 DEF DInv, Lists, Aligned, Ended, Returned
  <2>3. Finds'
    BY <2>1 DEF DInv, Finds, Returned
  <2>4. QED BY <2>2, <2>3 DEF DInv
<1>5. QED BY <1>1, <1>2, <1>3, <1>4 DEF Next

\* On the default drive the host's listing follows the program's search: DInv is
\* inductive beside IInv.
THEOREM SearchesHold ==
    ASSUME DefaultDrive
    PROVE  Spec => [](IInv /\ DInv)
<1>1. Init => IInv /\ DInv
  BY InitSync, InitFinds
<1>2. IInv /\ DInv /\ [Next]_vars => (IInv /\ DInv)'
  BY NextSync, NextFinds
<1>3. QED BY <1>1, <1>2, PTL DEF Spec

\* A search that has come to its end has returned every file of the directory once
\* and in order, although the host keeps one listing for all FCBs and is told
\* neither of the end of a program nor of a search that is given up.
THEOREM SearchIsComplete ==
    ASSUME DefaultDrive
    PROVE  Spec => []SearchComplete
<1>1. IInv /\ DInv => SearchComplete
  <2> SUFFICES ASSUME IInv, DInv, Returned({"sfirst", "snext"}), ret.a = 255
               PROVE  listed = Names(listing)
    BY DEF SearchComplete
  <2>1. /\ Len(listed) = Len(listing) /\ \A i \in 1..Len(listed) : listed[i] = Zeroed[listing[i].name]
        /\ listed \in Seq(Name) /\ listing \in Seq(HostFile)
    BY DEF DInv, Lists, IInv, TypeOK
  <2>2. \A file \in HostFile : file.name \in Name
    BY SMT DEF HostFile
  <2>3. \A i \in 1..Len(listing) : Zeroed[listing[i].name] \in Name
    BY <2>1, <2>2, ElementOfSeq, ZeroedNames
  <2>4. /\ Names(listing) \in Seq(Name) /\ Len(Names(listing)) = Len(listing)
        /\ \A i \in 1..Len(listing) : Names(listing)[i] = Zeroed[listing[i].name]
    BY <2>1, <2>3 DEF Names
  <2>5. QED BY <2>1, <2>4, SeqEqual
<1>2. QED BY <1>1, SearchesHold, PTL

\* Of a file that a search has returned the name filled up with blanks can be opened, as
\* the host tries it as it stands and in lower case; filled up with zeros, as the search
\* returned it, it can be opened if the two are the same, and only then.
THEOREM ListedCanBeOpened ==
    ASSUME DefaultDrive, Spellable
    PROVE  Spec => []ListedOpens
<1>1. IInv /\ DInv => ListedOpens
  <2> SUFFICES ASSUME IInv, DInv, Returned({"open"}), NEW i \in 1..Len(listed), listed[i] = Zeroed[fcb[call.at].name]
               PROVE  ret.a # 255 <=> fcb[call.at].name = listing[i].name
    BY DEF ListedOpens
  <2>1. /\ ret.a = 255 <=> Lookup(1, fcb[call.at].name) = {}
        /\ listing \in {<<>>, Mounts[1]} /\ Len(listed) <= Len(listing)
        /\ listed[i] = Zeroed[listing[i].name]
    BY DEF DInv, Finds, Lists
  <2>2. Len(listed) \in Nat /\ Len(listing) \in Nat
    BY DEF IInv, TypeOK
  <2>3. i \in 1..Len(listing)
    BY <2>1, <2>2
  <2>4. listing = Mounts[1]
    BY <2>1, <2>3
  <2>5. Mounts[1][i].spelled \in {"exact", "lower"}
    BY <2>3, <2>4 DEF Spellable
  <2>6. ASSUME fcb[call.at].name = listing[i].name PROVE Lookup(1, fcb[call.at].name) # {}
    <3>1. Mounts[1][i] \in InMount(1, fcb[call.at].name, Mounts[1][i].spelled)
      BY <2>3, <2>4, <2>6 DEF InMount
    <3>2. QED BY <2>5, <3>1 DEF Lookup
  <2>7. ASSUME Lookup(1, fcb[call.at].name) # {} PROVE fcb[call.at].name = listing[i].name
    <3>1. PICK j \in 1..Len(Mounts[1]) : Mounts[1][j].name = fcb[call.at].name
      BY <2>7 DEF Lookup, InMount
    <3>2. 1 \in 1..Len(Mounts)
      <4>1. Len(Mounts) \in Nat /\ Len(Mounts) >= 1
        BY MountsAssumption, EmptySeq
      <4>2. QED BY <4>1
    <3>3. Zeroed[Mounts[1][i].name] = Zeroed[Mounts[1][j].name] => Mounts[1][i].name = Mounts[1][j].name
      BY <2>3, <2>4, <3>2, ZeroedNames
    <3>4. QED BY <2>1, <2>4, <3>1, <3>3
  <2>8. QED BY <2>1, <2>6, <2>7
<1>2. QED BY <1>1, SearchesHold, PTL
==============================================================================
