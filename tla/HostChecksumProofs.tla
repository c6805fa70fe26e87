------------------------- MODULE HostChecksumProofs -------------------------
(***************************************************************************)
(* Theorems about HostChecksum for messages of every length.  Words are    *)
(* compared bit by bit; what the folds over a message are is shown by      *)
(* induction over its bytes, with the set of the numbers that are reached  *)
(* in the place of a predicate.                                            *)
(***************************************************************************)
EXTENDS LinkChecksum, HostLinkProofs, SequenceTheorems, WellFoundedInduction, TLAPS

\* A set of numbers has a least one.
LEMMA LeastExists ==
    ASSUME NEW S \in SUBSET Nat, S # {}
    PROVE  \E i \in S : \A j \in S : i <= j
<1>1. PICK i \in S : \A j \in S : <<j, i>> \notin OpToRel(<, Nat)
  BY WFMin, NatLessThanWellFounded, Zenon
<1>2. \A j \in S : ~(j < i)
  BY <1>1, Zenon DEF OpToRel
<1>3. QED BY <1>2

\* The places of the bits of a word, the words and the bytes.
BitPlaces == 0..15
Word16 == 0..65535
Octet  == 0..255

\* Words are told by their bounds and by what % leaves.
LEMMA RestIsWord16 == \A n \in Nat : n % 65536 \in Word16
BY SMTT(30) DEF Word16

LEMMA IsWord16 ==
    /\ \A n \in Word16 : n \in Nat /\ n <= 65535
    /\ \A n \in Nat : n <= 65535 => n \in Word16
<1>1. ASSUME NEW n \in Word16 PROVE n \in Nat /\ n <= 65535
  BY DEF Word16
<1>2. ASSUME NEW n \in Nat, n <= 65535 PROVE n \in Word16
  <2>1. n % 65536 = n
    BY <1>2
  <2>2. QED BY <2>1, RestIsWord16
<1>3. QED BY <1>1, <1>2

\* The weights of the bits, halved and doubled.
LEMMA Halved ==
    ASSUME NEW n \in Nat, NEW i \in 1..15
    PROVE  /\ n \div Weight[i] \in Nat
           /\ n \div Weight[i + 1] = (n \div Weight[i]) \div 2
<1> DEFINE At(k) == n \div Weight[k] \in Nat /\ n \div Weight[k + 1] = (n \div Weight[k]) \div 2
<1>1. At(1) /\ At(2) /\ At(3) /\ At(4) /\ At(5)
  BY DEF Weight
<1>2. At(6) /\ At(7) /\ At(8) /\ At(9) /\ At(10)
  BY DEF Weight
<1>3. At(11) /\ At(12) /\ At(13) /\ At(14) /\ At(15)
  BY DEF Weight
<1> HIDE DEF At
<1>4. i \in {1, 2, 3, 4, 5, 6, 7, 8, 9, 10, 11, 12, 13, 14, 15}
  OBVIOUS
<1>5. At(i)
  BY <1>1, <1>2, <1>3, <1>4
<1>6. QED BY <1>5 DEF At

LEMMA Doubled ==
    ASSUME NEW i \in 1..15
    PROVE  Weight[i + 1] = 2 * Weight[i] /\ Weight[i] \in Nat
<1>1. i \in {1, 2, 3, 4, 5, 6, 7, 8, 9, 10, 11, 12, 13, 14, 15}
  OBVIOUS
<1>2. QED BY <1>1 DEF Weight

\* A set that holds 0 and, with each number, the next, holds all up to n.
LEMMA UpTo ==
    ASSUME NEW n \in Nat, NEW S, 0 \in S, \A k \in 1..n : k - 1 \in S => k \in S
    PROVE  \A k \in 0..n : k \in S
<1> DEFINE Out == {k \in 0..n : k \notin S}
<1>1. SUFFICES ASSUME Out # {} PROVE FALSE
  OBVIOUS
<1>2. PICK k \in Out : \A j \in Out : k <= j
  <2>1. Out \in SUBSET Nat
    OBVIOUS
  <2> HIDE DEF Out
  <2>2. QED BY <1>1, <2>1, LeastExists
<1>3. k \in 1..n /\ k - 1 \in 0..n /\ ~(k <= k - 1)
  OBVIOUS
<1>4. k - 1 \in S
  BY <1>2, <1>3
<1>5. QED BY <1>3, <1>4

\* A function that is given at 0 and elsewhere by its value one before.
Steps(V, n, first, step, f) == f = [k \in 0..n |-> IF k = 0 THEN first ELSE step[k][f[k - 1]]]

\* There is one for every step on the values V.
LEMMA FoldExists ==
    ASSUME NEW V, NEW n \in Nat, NEW first \in V, NEW step,
           \A k \in 1..n : \A v \in V : step[k][v] \in V
    PROVE  \E f \in [0..n -> V] : Steps(V, n, first, step, f)
<1> DEFINE S == {m \in 0..n : \E f \in [0..m -> V] : Steps(V, m, first, step, f)}
<1>1. 0 \in S
  <2> DEFINE f == [k \in 0..0 |-> first]
  <2>1. f \in [0..0 -> V] /\ Steps(V, 0, first, step, f)
    BY DEF Steps
  <2> HIDE DEF f
  <2>2. QED BY <2>1
<1>2. ASSUME NEW k \in 1..n, k - 1 \in S PROVE k \in S
  <2>1. PICK f \in [0..k - 1 -> V] : Steps(V, k - 1, first, step, f)
    BY <1>2
  <2> DEFINE g == [j \in 0..k |-> IF j = k THEN step[k][f[k - 1]] ELSE f[j]]
  <2>2. g \in [0..k -> V]
    OBVIOUS
  <2>3. ASSUME NEW j \in 0..k PROVE g[j] = IF j = 0 THEN first ELSE step[j][g[j - 1]]
    <3>1. CASE j = k
      BY <3>1
    <3>2. CASE j # k
      <4>1. j \in 0..k - 1 /\ (j # 0 => j - 1 \in 0..k - 1 /\ j - 1 # k)
        BY <3>2
      <4>2. f[j] = IF j = 0 THEN first ELSE step[j][f[j - 1]]
        BY <2>1, <4>1 DEF Steps
      <4>3. QED BY <4>1, <4>2
    <3>3. QED BY <3>1, <3>2
  <2>4. Steps(V, k, first, step, g)
    BY <2>3 DEF Steps
  <2> HIDE DEF g
  <2>5. QED BY <2>2, <2>4
<1> HIDE DEF S
<1>3. n \in S
  BY <1>1, <1>2, UpTo
<1>4. QED BY <1>3 DEF S

-----------------------------------------------------------------------------

\* The bits of a word.
Bits(b) == \A i \in BitPlaces : b[i] \in {0, 1}

\* Read from the top, the bits from i on are a number of their own: the word halved i times.
HighBits(b, h) ==
    /\ h \in [0..16 -> Nat] /\ h[16] = 0 /\ h[0] = FromBits(b)
    /\ \A i \in BitPlaces : h[i] = b[i] + 2 * h[i + 1]

\* FromBits is what its recursion says.
LEMMA HighBitsExist ==
    ASSUME NEW b, Bits(b)
    PROVE  \E h : HighBits(b, h)
<1> DEFINE step == [k \in 1..16 |-> [v \in Nat |-> b[16 - k] + 2 * v]]
           From(h) == h = [i \in 0..16 |-> IF i = 16 THEN 0 ELSE b[i] + 2 * h[i + 1]]
<1>1. PICK f \in [0..16 -> Nat] : Steps(Nat, 16, 0, step, f)
  <2>1. \A k \in 1..16 : \A v \in Nat : step[k][v] \in Nat
    BY DEF Bits, BitPlaces
  <2> HIDE DEF step
  <2>2. QED BY <2>1, FoldExists
<1> DEFINE g == [i \in 0..16 |-> f[16 - i]]
<1>2. \A i \in 0..16 : g[i] = IF i = 16 THEN 0 ELSE b[i] + 2 * g[i + 1]
  <2> SUFFICES ASSUME NEW i \in 0..16 PROVE g[i] = IF i = 16 THEN 0 ELSE b[i] + 2 * g[i + 1]
    OBVIOUS
  <2>1. 16 - i \in 0..16 /\ f[16 - i] = IF 16 - i = 0 THEN 0 ELSE step[16 - i][f[16 - i - 1]]
    BY <1>1 DEF Steps
  <2>2. CASE i = 16
    BY <2>1, <2>2
  <2>3. CASE i # 16
    <3>1. 16 - i \in 1..16 /\ 16 - i - 1 \in 0..16 /\ 16 - (i + 1) = 16 - i - 1 /\ 16 - (16 - i) = i /\ i + 1 \in 0..16
      BY <2>3
    <3>2. f[16 - i - 1] \in Nat
      BY <3>1
    <3>3. QED BY <2>1, <2>3, <3>1, <3>2
  <2>4. QED BY <2>2, <2>3
<1>3. From(g)
  BY <1>2
<1>4. PICK h : From(h) /\ FromBits(b) = h[0]
  <2>1. From(CHOOSE h : From(h))
    BY <1>3, Zenon
  <2>2. FromBits(b) = (CHOOSE h : From(h))[0]
    BY DEF FromBits
  <2>3. QED BY <2>1, <2>2
<1>5. \A i \in 0..16 : h[i] = IF i = 16 THEN 0 ELSE b[i] + 2 * h[i + 1]
  BY <1>4
<1>6. \A k \in 0..16 : k \in {j \in 0..16 : h[16 - j] \in Nat}
  <2> DEFINE S == {j \in 0..16 : h[16 - j] \in Nat}
  <2>1. 0 \in S
    BY <1>5
  <2>2. ASSUME NEW k \in 1..16, k - 1 \in S PROVE k \in S
    <3>1. 16 - k \in BitPlaces /\ 16 - (k - 1) = 16 - k + 1 /\ 16 - k # 16 /\ 16 - k \in 0..16
      BY DEF BitPlaces
    <3>2. h[16 - k + 1] \in Nat
      BY <2>2, <3>1
    <3>3. b[16 - k] \in Nat
      BY <3>1 DEF Bits
    <3>4. h[16 - k] = b[16 - k] + 2 * h[16 - k + 1]
      BY <1>5, <3>1
    <3>5. QED BY <3>2, <3>3, <3>4
  <2> HIDE DEF S
  <2>3. QED BY <2>1, <2>2, UpTo DEF S
<1>7. h \in [0..16 -> Nat]
  <2>1. h = [i \in 0..16 |-> h[i]]
    BY <1>4
  <2>2. ASSUME NEW i \in 0..16 PROVE h[i] \in Nat
    <3>1. 16 - i \in 0..16 /\ 16 - (16 - i) = i
      OBVIOUS
    <3>2. QED BY <1>6, <3>1
  <2>3. QED BY <2>1, <2>2
<1>8. QED BY <1>4, <1>5, <1>7 DEF HighBits, BitPlaces

\* A word is made of its bits.
LEMMA BitsOf ==
    ASSUME NEW b, Bits(b)
    PROVE  FromBits(b) \in Word16 /\ \A i \in BitPlaces : Bit(FromBits(b), i) = b[i]
<1>1. PICK h : HighBits(b, h)
  BY HighBitsExist
<1> DEFINE n == FromBits(b)
           At(k) == k \in BitPlaces => n \div Weight[k + 1] = h[k]
           Low == {k \in 0..15 : At(k)}
           Small == {k \in 0..15 : h[15 - k] <= 2 * Weight[k + 1] - 1}
<1>2. \A i \in BitPlaces : i + 1 \in 0..16 /\ h[i] \in Nat /\ h[i + 1] \in Nat /\ h[i] = b[i] + 2 * h[i + 1] /\ b[i] \in {0, 1}
  <2> SUFFICES ASSUME NEW i \in BitPlaces
               PROVE  i + 1 \in 0..16 /\ h[i] \in Nat /\ h[i + 1] \in Nat /\ h[i] = b[i] + 2 * h[i + 1] /\ b[i] \in {0, 1}
    OBVIOUS
  <2>1. i \in 0..16 /\ i + 1 \in 0..16
    BY DEF BitPlaces
  <2>2. b[i] \in {0, 1}
    BY DEF Bits
  <2>3. QED BY <1>1, <2>1, <2>2 DEF HighBits
<1>3. \A i \in BitPlaces : h[i] \div 2 = h[i + 1] /\ h[i] % 2 = b[i]
  BY <1>2
<1>4. n \in Nat /\ n = h[0]
  BY <1>1 DEF HighBits
<1> HIDE DEF n
<1>5. \A k \in 0..15 : k \in Low
  <2>1. 0 \in Low
    BY <1>4 DEF Weight
  <2>2. ASSUME NEW k \in 1..15, k - 1 \in Low PROVE k \in Low
    <3>1. k - 1 \in BitPlaces /\ k - 1 + 1 = k
      BY DEF BitPlaces
    <3>2. n \div Weight[k] = h[k - 1]
      BY <2>2, <3>1
    <3>3. h[k - 1] \div 2 = h[k]
      BY <1>3, <3>1
    <3>4. n \div Weight[k + 1] = h[k]
      BY <1>4, <3>2, <3>3, Halved
    <3>5. QED BY <3>4
  <2> HIDE DEF Low
  <2>3. QED BY <2>1, <2>2, UpTo
<1>6. \A i \in BitPlaces : Bit(n, i) = b[i]
  BY <1>3, <1>5 DEF Bit, BitPlaces
<1>7. \A k \in 0..15 : k \in Small
  <2>1. 0 \in Small
    <3>1. h[15] = b[15] + 2 * h[16] /\ h[16] = 0 /\ b[15] \in {0, 1}
      BY <1>1, <1>2 DEF HighBits, BitPlaces
    <3>2. QED BY <3>1 DEF Weight
  <2>2. ASSUME NEW k \in 1..15, k - 1 \in Small PROVE k \in Small
    <3>1. 15 - k \in BitPlaces /\ 15 - (k - 1) = 15 - k + 1
      BY DEF BitPlaces
    <3>2. h[15 - k] = b[15 - k] + 2 * h[15 - k + 1] /\ h[15 - k + 1] \in Nat /\ b[15 - k] \in {0, 1}
      BY <1>2, <3>1
    <3>3. h[15 - k + 1] <= 2 * Weight[k] - 1
      BY <2>2, <3>1
    <3>4. Weight[k + 1] = 2 * Weight[k] /\ Weight[k] \in Nat
      BY Doubled
    <3>5. QED BY <3>2, <3>3, <3>4
  <2> HIDE DEF Small
  <2>3. QED BY <2>1, <2>2, UpTo
<1>8. n \in Word16
  <2>1. h[0] <= 2 * Weight[16] - 1
    BY <1>7
  <2>2. Weight[16] = 32768
    BY DEF Weight
  <2>3. h[0] <= 65535
    BY <2>1, <2>2
  <2>4. QED BY <1>4, <2>3, IsWord16
<1>9. QED BY <1>6, <1>8 DEF n

\* Words with the same bits are the same.
LEMMA SameBits ==
    ASSUME NEW m \in Word16, NEW n \in Word16, \A i \in BitPlaces : Bit(m, i) = Bit(n, i)
    PROVE  m = n
<1> DEFINE S == {k \in 0..15 : m \div Weight[16 - k] = n \div Weight[16 - k]}
<1>1. 0 \in S
  <2>1. 15 \in BitPlaces /\ (m \div 32768) % 2 = (n \div 32768) % 2
    BY DEF Bit, BitPlaces, Weight
  <2>2. m \div 32768 \in 0..1 /\ n \div 32768 \in 0..1
    BY IsWord16
  <2>3. m \div 32768 = n \div 32768
    BY <2>1, <2>2
  <2>4. QED BY <2>3 DEF Weight
<1>2. ASSUME NEW k \in 1..15, k - 1 \in S PROVE k \in S
  <2>1. 16 - k \in 1..15 /\ 16 - (k - 1) = 16 - k + 1 /\ 16 - k - 1 \in BitPlaces /\ 16 - k - 1 + 1 = 16 - k
    BY DEF BitPlaces
  <2>2. /\ m \div Weight[16 - k] \in Nat /\ m \div Weight[16 - k + 1] = (m \div Weight[16 - k]) \div 2
        /\ n \div Weight[16 - k] \in Nat /\ n \div Weight[16 - k + 1] = (n \div Weight[16 - k]) \div 2
    <3>1. m \in Nat /\ n \in Nat
      BY IsWord16
    <3>2. QED BY <2>1, <3>1, Halved
  <2>3. (m \div Weight[16 - k]) % 2 = (n \div Weight[16 - k]) % 2
    <3>1. Bit(m, 16 - k - 1) = Bit(n, 16 - k - 1)
      BY <2>1
    <3>2. QED BY <2>1, <3>1 DEF Bit
  <2>4. (m \div Weight[16 - k]) \div 2 = (n \div Weight[16 - k]) \div 2
    BY <1>2, <2>1, <2>2
  <2>5. QED BY <2>2, <2>3, <2>4
<1> HIDE DEF S
<1>3. 15 \in S
  BY <1>1, <1>2, UpTo
<1>4. m \div Weight[16 - 15] = n \div Weight[16 - 15]
  BY <1>3 DEF S
<1>5. m \in Nat /\ n \in Nat /\ Weight[16 - 15] = 1
  BY IsWord16 DEF Weight
<1>6. QED BY <1>4, <1>5

\* Shifting a word up by one place loses the top bit.
LEMMA ShiftUp ==
    ASSUME NEW n \in Nat
    PROVE  /\ (n * 2) % 65536 \in Word16
           /\ Bit((n * 2) % 65536, 0) = 0
           /\ \A i \in 1..15 : Bit((n * 2) % 65536, i) = Bit(n, i - 1)
<1> DEFINE Up(i) == Bit((n * 2) % 65536, i) = Bit(n, i - 1)
<1>1. Up(1) /\ Up(2) /\ Up(3) /\ Up(4) /\ Up(5)
  <2>1. Up(1) /\ Up(2) /\ Up(3)
    BY DEF Weight, Bit
  <2>2. Up(4) /\ Up(5)
    BY DEF Weight, Bit
  <2>3. QED BY <2>1, <2>2
<1>2. Up(6) /\ Up(7) /\ Up(8) /\ Up(9) /\ Up(10)
  <2>1. Up(6) /\ Up(7) /\ Up(8)
    BY DEF Weight, Bit
  <2>2. Up(9) /\ Up(10)
    BY DEF Weight, Bit
  <2>3. QED BY <2>1, <2>2
<1>3. Up(11) /\ Up(12) /\ Up(13) /\ Up(14) /\ Up(15)
  <2>1. Up(11) /\ Up(12) /\ Up(13)
    BY DEF Weight, Bit
  <2>2. Up(14) /\ Up(15)
    BY DEF Weight, Bit
  <2>3. QED BY <2>1, <2>2
<1> HIDE DEF Up
<1>4. ASSUME NEW i \in 1..15 PROVE Up(i)
  <2>1. i \in {1, 2, 3, 4, 5, 6, 7, 8, 9, 10, 11, 12, 13, 14, 15}
    OBVIOUS
  <2>2. QED BY <1>1, <1>2, <1>3, <2>1
<1>5. Bit((n * 2) % 65536, 0) = 0
  BY DEF Weight, Bit
<1>6. (n * 2) % 65536 \in Word16
  BY RestIsWord16
<1>7. \A i \in 1..15 : Bit((n * 2) % 65536, i) = Bit(n, i - 1)
  BY <1>4 DEF Up
<1>8. QED BY <1>5, <1>6, <1>7

\* Bits of any number, of a byte, and of the mask.
LEMMA BitIs == ASSUME NEW n \in Nat, NEW i \in BitPlaces PROVE Bit(n, i) \in {0, 1}
<1>1. i + 1 \in 1..16 /\ Weight[i + 1] \in Nat \ {0}
  <2>1. i \in {0, 1, 2, 3, 4, 5, 6, 7, 8, 9, 10, 11, 12, 13, 14, 15}
    BY DEF BitPlaces
  <2>2. QED BY <2>1 DEF Weight
<1>2. n \div Weight[i + 1] \in Nat
  BY <1>1
<1>3. QED BY <1>2 DEF Bit

LEMMA ByteBits == ASSUME NEW n \in 0..255, NEW i \in 8..15 PROVE Bit(n, i) = 0
<1>1. i \in {8, 9, 10, 11, 12, 13, 14, 15}
  OBVIOUS
<1>2. QED BY <1>1 DEF Weight, Bit

LEMMA MaskBits == ASSUME NEW i \in BitPlaces PROVE Bit(65535, i) = 1
<1>1. i \in {0, 1, 2, 3, 4, 5, 6, 7, 8, 9, 10, 11, 12, 13, 14, 15}
  BY DEF BitPlaces
<1>2. QED BY <1>1 DEF Weight, Bit

\* The operators of words work bit by bit.
LEMMA XorBits ==
    ASSUME NEW m \in Nat, NEW n \in Nat
    PROVE  Xor(m, n) \in Word16 /\ \A i \in BitPlaces : Bit(Xor(m, n), i) = (Bit(m, i) + Bit(n, i)) % 2
<1> DEFINE b == [i \in 0..15 |-> (Bit(m, i) + Bit(n, i)) % 2]
<1>1. \A i \in BitPlaces : b[i] = (Bit(m, i) + Bit(n, i)) % 2 /\ b[i] \in {0, 1}
  <2> SUFFICES ASSUME NEW i \in BitPlaces PROVE b[i] = (Bit(m, i) + Bit(n, i)) % 2 /\ b[i] \in {0, 1}
    OBVIOUS
  <2>1. Bit(m, i) \in {0, 1} /\ Bit(n, i) \in {0, 1}
    BY BitIs
  <2>2. b[i] = (Bit(m, i) + Bit(n, i)) % 2
    BY DEF BitPlaces
  <2>3. QED BY <2>1, <2>2
<1>2. Xor(m, n) = FromBits(b)
  BY DEF Xor
<1> HIDE DEF b
<1>3. QED BY <1>1, <1>2, BitsOf DEF Bits

LEMMA AndMask == ASSUME NEW n \in Nat PROVE And(n, 65535) = n % 65536
<1> DEFINE b == [i \in 0..15 |-> Bit(n, i) * Bit(65535, i)]
<1>1. \A i \in BitPlaces : b[i] = Bit(n, i) /\ b[i] \in {0, 1}
  <2> SUFFICES ASSUME NEW i \in BitPlaces PROVE b[i] = Bit(n, i) /\ b[i] \in {0, 1}
    OBVIOUS
  <2>1. Bit(n, i) \in {0, 1} /\ Bit(65535, i) = 1
    BY BitIs, MaskBits
  <2>2. b[i] = Bit(n, i) * Bit(65535, i)
    BY DEF BitPlaces
  <2>3. QED BY <2>1, <2>2
<1>2. And(n, 65535) = FromBits(b)
  BY DEF And
<1> HIDE DEF b
<1>3. FromBits(b) \in Word16 /\ \A i \in BitPlaces : Bit(FromBits(b), i) = Bit(n, i)
  BY <1>1, BitsOf DEF Bits
<1>4. n % 65536 \in Word16 /\ \A i \in BitPlaces : Bit(n % 65536, i) = Bit(n, i)
  <2> DEFINE Same(i) == Bit(n % 65536, i) = Bit(n, i)
  <2>1. Same(0) /\ Same(1) /\ Same(2) /\ Same(3) /\ Same(4) /\ Same(5)
    BY DEF Weight, Bit
  <2>2. Same(6) /\ Same(7) /\ Same(8) /\ Same(9) /\ Same(10)
    BY DEF Weight, Bit
  <2>3. Same(11) /\ Same(12) /\ Same(13) /\ Same(14) /\ Same(15)
    BY DEF Weight, Bit
  <2> HIDE DEF Same
  <2>4. ASSUME NEW i \in BitPlaces PROVE Same(i)
    <3>1. i \in {0, 1, 2, 3, 4, 5, 6, 7, 8, 9, 10, 11, 12, 13, 14, 15}
      BY DEF BitPlaces
    <3>2. QED BY <2>1, <2>2, <2>3, <3>1
  <2>5. n % 65536 \in Word16
    BY RestIsWord16
  <2>6. \A i \in BitPlaces : Bit(n % 65536, i) = Bit(n, i)
    BY <2>4 DEF Same
  <2>7. QED BY <2>5, <2>6
<1>5. FromBits(b) = n % 65536
  <2>1. \A i \in BitPlaces : Bit(FromBits(b), i) = Bit(n % 65536, i)
    BY <1>3, <1>4
  <2>2. QED BY <1>3, <1>4, <2>1, SameBits
<1>6. QED BY <1>2, <1>5

-----------------------------------------------------------------------------
(* The two checksums and the reference.                                    *)

\* A byte is a word without bits above the seventh.
LEMMA IsByte == \A n \in Octet : n \in Nat /\ n \in Word16 /\ \A i \in 8..15 : Bit(n, i) = 0
<1> SUFFICES ASSUME NEW n \in Octet PROVE n \in Nat /\ n \in Word16 /\ \A i \in 8..15 : Bit(n, i) = 0
  OBVIOUS
<1>1. n \in Nat /\ n <= 65535
  BY DEF Octet
<1>2. n \in Word16
  BY <1>1, IsWord16
<1>3. QED BY <1>1, <1>2, ByteBits DEF Octet

\* One byte more: bit i is that of the byte and the one below it of the word before.
LEMMA StepBits ==
    ASSUME NEW c \in Word16, NEW b \in Nat
    PROVE  /\ DeviceStep(c, b) \in Word16
           /\ Bit(DeviceStep(c, b), 0) = Bit(b, 0)
           /\ \A i \in 1..15 : Bit(DeviceStep(c, b), i) = (Bit(c, i - 1) + Bit(b, i)) % 2
<1> DEFINE u == (c * 2) % 65536
<1>1. c \in Nat
  BY IsWord16
<1>2. u \in Word16 /\ Bit(u, 0) = 0 /\ \A i \in 1..15 : Bit(u, i) = Bit(c, i - 1)
  BY <1>1, ShiftUp
<1>3. DeviceStep(c, b) = Xor(u, b)
  BY DEF DeviceStep
<1> HIDE DEF u
<1>4. u \in Nat
  BY <1>2, IsWord16
<1>5. Xor(u, b) \in Word16 /\ \A i \in BitPlaces : Bit(Xor(u, b), i) = (Bit(u, i) + Bit(b, i)) % 2
  BY <1>4, XorBits
<1>6. Bit(b, 0) \in {0, 1} /\ 0 \in BitPlaces /\ \A i \in 1..15 : i \in BitPlaces
  BY BitIs DEF BitPlaces
<1>7. Bit(DeviceStep(c, b), 0) = Bit(b, 0)
  <2>1. Bit(DeviceStep(c, b), 0) = (0 + Bit(b, 0)) % 2
    BY <1>2, <1>3, <1>5, <1>6
  <2>2. QED BY <1>6, <2>1
<1>8. QED BY <1>2, <1>3, <1>5, <1>6, <1>7

\* The mask of the host does what the width of the device's word does.
LEMMA StepsAgree == ASSUME NEW c \in Word16, NEW b PROVE HostStep(c, b) = DeviceStep(c, b)
<1>1. c * 2 \in Nat
  BY IsWord16
<1>2. And(c * 2, 65535) = (c * 2) % 65536
  BY <1>1, AndMask
<1>3. QED BY <1>2 DEF HostStep, DeviceStep

\* What the folds are: functions given by their values one byte before.
DeviceSums(msg) ==
    CHOOSE check : check = [k \in 0..Len(msg) |->
            IF k = 0 THEN CheckInit ELSE DeviceStep(check[k - 1], msg[k])]
HostSums(msg) ==
    CHOOSE check : check = [k \in 0..Len(msg) |->
            IF k = 0 THEN CheckInit ELSE HostStep(check[k - 1], msg[k])]

\* The device's checksum is the last of these values.
LEMMA DeviceFolds ==
    ASSUME NEW msg \in Seq(Octet)
    PROVE  /\ DeviceSums(msg) = [k \in 0..Len(msg) |->
                  IF k = 0 THEN CheckInit ELSE DeviceStep(DeviceSums(msg)[k - 1], msg[k])]
           /\ DeviceCheck(msg) = DeviceSums(msg)[Len(msg)]
<1> DEFINE n == Len(msg)
           step == [k \in 1..n |-> [v \in Word16 |-> DeviceStep(v, msg[k])]]
<1>1. n \in Nat /\ \A k \in 1..n : msg[k] \in Nat
  BY LenProperties, ElementOfSeq, IsByte
<1>2. CheckInit \in Word16
  BY IsWord16 DEF CheckInit
<1>3. \A k \in 1..n, v \in Word16 : DeviceStep(v, msg[k]) \in Word16
  BY <1>1, StepBits, IsByte
<1>4. \A k \in 1..n, v \in Word16 : step[k][v] = DeviceStep(v, msg[k])
  OBVIOUS
<1> HIDE DEF n, step
<1>5. \A k \in 1..n : \A v \in Word16 : step[k][v] \in Word16
  BY <1>3, <1>4
<1>6. PICK f \in [0..n -> Word16] : Steps(Word16, n, CheckInit, step, f)
  BY <1>1, <1>2, <1>5, FoldExists
<1>7. ASSUME NEW k \in 0..n
      PROVE  f[k] = IF k = 0 THEN CheckInit ELSE DeviceStep(f[k - 1], msg[k])
  <2>1. f[k] = IF k = 0 THEN CheckInit ELSE step[k][f[k - 1]]
    BY <1>6 DEF Steps
  <2>2. k # 0 => k \in 1..n /\ k - 1 \in 0..n
    BY <1>1
  <2>3. k # 0 => f[k - 1] \in Word16
    BY <2>2
  <2>4. k # 0 => step[k][f[k - 1]] = DeviceStep(f[k - 1], msg[k])
    BY <1>4, <2>2, <2>3
  <2>5. QED BY <2>1, <2>4
<1>8. f = [k \in 0..Len(msg) |-> IF k = 0 THEN CheckInit ELSE DeviceStep(f[k - 1], msg[k])]
  BY <1>7 DEF n
<1>9. DeviceSums(msg) = [k \in 0..Len(msg) |->
          IF k = 0 THEN CheckInit ELSE DeviceStep(DeviceSums(msg)[k - 1], msg[k])]
  BY <1>8, Zenon DEF DeviceSums
<1>10. DeviceCheck(msg) = DeviceSums(msg)[Len(msg)]
  BY DEF DeviceCheck, DeviceSums
<1>11. QED BY <1>9, <1>10

\* The word after each byte.
Sums(msg, c) ==
    /\ c \in [0..Len(msg) -> Word16] /\ c[0] = CheckInit
    /\ \A k \in 1..Len(msg) : c[k] = DeviceStep(c[k - 1], msg[k])

\* They are words, each made from the one before.
LEMMA DeviceSummed ==
    ASSUME NEW msg \in Seq(Octet)
    PROVE  Sums(msg, DeviceSums(msg)) /\ DeviceCheck(msg) = DeviceSums(msg)[Len(msg)]
<1> DEFINE n == Len(msg)
           c == DeviceSums(msg)
           S == {k \in 0..n : c[k] \in Word16}
<1>1. n \in Nat /\ \A k \in 1..n : msg[k] \in Nat
  BY LenProperties, ElementOfSeq, IsByte
<1>2. c = [k \in 0..n |-> IF k = 0 THEN CheckInit ELSE DeviceStep(c[k - 1], msg[k])]
  BY DeviceFolds
<1> HIDE DEF n, c
<1>3. c[0] = CheckInit /\ \A k \in 1..n : c[k] = DeviceStep(c[k - 1], msg[k])
  <2>1. \A k \in 0..n : c[k] = IF k = 0 THEN CheckInit ELSE DeviceStep(c[k - 1], msg[k])
    BY <1>2, Zenon
  <2>2. QED BY <1>1, <2>1
<1>4. 0 \in S
  BY <1>1, <1>3, IsWord16 DEF CheckInit
<1>5. ASSUME NEW k \in 1..n, k - 1 \in S PROVE k \in S
  <2>1. c[k - 1] \in Word16 /\ k \in 0..n
    BY <1>5
  <2>2. QED BY <1>1, <1>3, <2>1, StepBits
<1> HIDE DEF S
<1>6. \A k \in 0..n : k \in S
  BY <1>1, <1>4, <1>5, UpTo
<1>7. c \in [0..n -> Word16]
  BY <1>2, <1>6 DEF S
<1>8. QED BY <1>3, <1>7, DeviceFolds DEF Sums, n, c

\* The host's fold has the same values.
LEMMA HostSummed ==
    ASSUME NEW msg \in Seq(Octet), NEW c, Sums(msg, c)
    PROVE  HostCheck(msg) = c[Len(msg)]
<1> DEFINE n == Len(msg)
           d == HostSums(msg)
           S == {j \in 0..n : d[j] = c[j]}
<1>1. n \in Nat
  BY LenProperties
<1>2. /\ c \in [0..n -> Word16] /\ c[0] = CheckInit
      /\ \A k \in 1..n : c[k] = DeviceStep(c[k - 1], msg[k])
  BY DEF Sums
<1>3. \A k \in 1..n : HostStep(c[k - 1], msg[k]) = DeviceStep(c[k - 1], msg[k])
  <2> HIDE DEF n
  <2> SUFFICES ASSUME NEW k \in 1..n PROVE HostStep(c[k - 1], msg[k]) = DeviceStep(c[k - 1], msg[k])
    OBVIOUS
  <2>1. k - 1 \in 0..n
    BY <1>1
  <2>2. c[k - 1] \in Word16
    BY <1>2, <2>1
  <2>3. QED BY <2>2, StepsAgree
<1>4. c = [k \in 0..n |-> IF k = 0 THEN CheckInit ELSE HostStep(c[k - 1], msg[k])]
  <2> HIDE DEF n
  <2>1. ASSUME NEW k \in 0..n
        PROVE  c[k] = IF k = 0 THEN CheckInit ELSE HostStep(c[k - 1], msg[k])
    BY <1>1, <1>2, <1>3
  <2>2. QED BY <1>2, <2>1
<1>5. d = [k \in 0..n |-> IF k = 0 THEN CheckInit ELSE HostStep(d[k - 1], msg[k])]
  BY <1>4, Zenon DEF HostSums
<1>6. HostCheck(msg) = d[n]
  BY DEF HostCheck, HostSums
<1> HIDE DEF n, d
<1>7. 0 \in S
  BY <1>1, <1>2, <1>5
<1>8. ASSUME NEW k \in 1..n, k - 1 \in S PROVE k \in S
  <2>1. k \in 0..n /\ k # 0 /\ d[k - 1] = c[k - 1]
    BY <1>1, <1>8
  <2>2. d[k] = HostStep(d[k - 1], msg[k])
    BY <1>5, <2>1
  <2>3. c[k] = HostStep(c[k - 1], msg[k])
    BY <1>4, <2>1
  <2>4. QED BY <2>1, <2>2, <2>3
<1> HIDE DEF S
<1>9. n \in S
  BY <1>1, <1>7, <1>8, UpTo, SMTT(30)
<1>10. QED BY <1>6, <1>9 DEF S, n

-----------------------------------------------------------------------------

\* The reference's count of ones, one byte after the other.
OnesCount(msg, n, i) ==
    CHOOSE ones : ones = [k \in 0..n |->
            IF k = 0 THEN InitBit(n, i) ELSE ones[k - 1] + DataBit(msg, n, k, i)]

\* It is a number that grows by the bit of each byte.
LEMMA OnesCounted ==
    ASSUME NEW msg \in Seq(Octet), NEW n \in 0..Len(msg), NEW i \in BitPlaces
    PROVE  /\ OnesCount(msg, n, i) \in [0..n -> Nat]
           /\ OnesCount(msg, n, i)[0] = InitBit(n, i)
           /\ \A k \in 1..n : OnesCount(msg, n, i)[k] = OnesCount(msg, n, i)[k - 1] + DataBit(msg, n, k, i)
           /\ Parity(msg, n, i) = OnesCount(msg, n, i)[n] % 2
<1> DEFINE step == [k \in 1..n |-> [v \in Nat |-> v + DataBit(msg, n, k, i)]]
           c == OnesCount(msg, n, i)
           S == {k \in 0..n : c[k] \in Nat}
<1>1. n \in Nat /\ \A k \in 1..n : msg[k] \in Nat
  BY LenProperties, ElementOfSeq, IsByte
<1>2. InitBit(n, i) \in Nat /\ \A k \in 1..n : DataBit(msg, n, k, i) \in Nat
  <2>1. i >= n => i - n \in BitPlaces
    BY <1>1 DEF BitPlaces
  <2>2. i \in Nat /\ CheckInit \in Nat
    BY DEF BitPlaces, CheckInit
  <2>3. InitBit(n, i) \in Nat
    BY <2>1, <2>2, BitIs DEF InitBit
  <2>4. ASSUME NEW k \in 1..n PROVE DataBit(msg, n, k, i) \in Nat
    <3>1. i >= n - k => i - (n - k) \in BitPlaces
      BY <1>1 DEF BitPlaces
    <3>2. QED BY <1>1, <3>1, BitIs DEF DataBit
  <2>5. QED BY <2>3, <2>4
<1>3. \A k \in 1..n, v \in Nat : step[k][v] = v + DataBit(msg, n, k, i)
  OBVIOUS
<1> HIDE DEF step
<1>4. \A k \in 1..n : \A v \in Nat : step[k][v] \in Nat
  <2>1. ASSUME NEW k \in 1..n, NEW v \in Nat PROVE step[k][v] \in Nat
    <3>1. DataBit(msg, n, k, i) \in Nat /\ step[k][v] = v + DataBit(msg, n, k, i)
      BY <1>2, <1>3
    <3>2. QED BY <3>1
  <2>2. QED BY <2>1
<1>5. PICK f \in [0..n -> Nat] : Steps(Nat, n, InitBit(n, i), step, f)
  BY <1>1, <1>2, <1>4, FoldExists
<1>6. ASSUME NEW k \in 0..n
      PROVE  f[k] = IF k = 0 THEN InitBit(n, i) ELSE f[k - 1] + DataBit(msg, n, k, i)
  <2>1. f[k] = IF k = 0 THEN InitBit(n, i) ELSE step[k][f[k - 1]]
    BY <1>5 DEF Steps
  <2>2. k # 0 => k \in 1..n /\ k - 1 \in 0..n
    BY <1>1
  <2>3. k # 0 => f[k - 1] \in Nat
    BY <2>2
  <2>4. k # 0 => step[k][f[k - 1]] = f[k - 1] + DataBit(msg, n, k, i)
    BY <1>3, <2>2, <2>3
  <2>5. QED BY <2>1, <2>4
<1>7. f = [k \in 0..n |-> IF k = 0 THEN InitBit(n, i) ELSE f[k - 1] + DataBit(msg, n, k, i)]
  BY <1>6
<1>8. c = [k \in 0..n |-> IF k = 0 THEN InitBit(n, i) ELSE c[k - 1] + DataBit(msg, n, k, i)]
  BY <1>7, Zenon DEF OnesCount
<1>9. Parity(msg, n, i) = c[n] % 2
  BY DEF Parity, OnesCount
<1> HIDE DEF c
<1>10. c[0] = InitBit(n, i) /\ \A k \in 1..n : c[k] = c[k - 1] + DataBit(msg, n, k, i)
  <2>1. \A k \in 0..n : c[k] = IF k = 0 THEN InitBit(n, i) ELSE c[k - 1] + DataBit(msg, n, k, i)
    BY <1>8, Zenon
  <2>2. QED BY <1>1, <2>1
<1>11. 0 \in S
  BY <1>1, <1>2, <1>10
<1>12. ASSUME NEW k \in 1..n, k - 1 \in S PROVE k \in S
  BY <1>2, <1>10, <1>12
<1> HIDE DEF S
<1>13. \A k \in 0..n : k \in S
  BY <1>1, <1>11, <1>12, UpTo
<1>14. c \in [0..n -> Nat]
  BY <1>8, <1>13 DEF S
<1>15. QED BY <1>9, <1>10, <1>14 DEF c

\* One byte more: the reference counts for bit i what it counted for the bit below, and
\* the bit of the byte.
LEMMA ParityStep ==
    ASSUME NEW msg \in Seq(Octet), NEW n \in 1..Len(msg)
    PROVE  /\ Parity(msg, n, 0) = Bit(msg[n], 0)
           /\ \A i \in 1..15 : Parity(msg, n, i) = (Parity(msg, n - 1, i - 1) + Bit(msg[n], i)) % 2
<1>1. Len(msg) \in Nat /\ n \in 0..Len(msg) /\ n - 1 \in 0..Len(msg) /\ n \in Nat /\ n >= 1
  BY LenProperties
<1>2. msg[n] \in Nat /\ (\A i \in BitPlaces : Bit(msg[n], i) \in {0, 1}) /\ \A i \in 8..15 : Bit(msg[n], i) = 0
  BY ElementOfSeq, IsByte, BitIs
<1>3. \A i \in BitPlaces : DataBit(msg, n, n, i) = Bit(msg[n], i)
  <2> SUFFICES ASSUME NEW i \in BitPlaces PROVE DataBit(msg, n, n, i) = Bit(msg[n], i)
    OBVIOUS
  <2>1. i >= n - n /\ i - (n - n) = i /\ i \in 0..15
    BY <1>1 DEF BitPlaces
  <2>2. DataBit(msg, n, n, i) = IF i < 8 THEN Bit(msg[n], i) ELSE 0
    BY <2>1 DEF DataBit
  <2>3. ~(i < 8) => i \in 8..15
    BY <2>1
  <2>4. QED BY <1>2, <2>2, <2>3
<1>4. Parity(msg, n, 0) = Bit(msg[n], 0)
  <2> DEFINE o == OnesCount(msg, n, 0)
             S == {k \in 0..n - 1 : o[k] = 0}
  <2>1. /\ o \in [0..n -> Nat] /\ o[0] = InitBit(n, 0) /\ Parity(msg, n, 0) = o[n] % 2
        /\ \A k \in 1..n : o[k] = o[k - 1] + DataBit(msg, n, k, 0)
    <3>1. 0 \in BitPlaces
      BY DEF BitPlaces
    <3>2. QED BY <1>1, <3>1, OnesCounted
  <2> HIDE DEF o
  <2>2. 0 \in S
    BY <1>1, <2>1 DEF InitBit
  <2>3. ASSUME NEW k \in 1..n - 1, k - 1 \in S PROVE k \in S
    <3>1. DataBit(msg, n, k, 0) = 0
      BY <1>1 DEF DataBit
    <3>2. k \in 1..n /\ k \in 0..n - 1
      BY <1>1
    <3>3. QED BY <2>1, <2>3, <3>1, <3>2
  <2> HIDE DEF S
  <2>4. n - 1 \in S
    BY <1>1, <2>2, <2>3, UpTo
  <2>5. o[n] = 0 + DataBit(msg, n, n, 0)
    BY <1>1, <2>1, <2>4 DEF S
  <2>6. 0 \in BitPlaces
    BY DEF BitPlaces
  <2>7. DataBit(msg, n, n, 0) = Bit(msg[n], 0) /\ Bit(msg[n], 0) \in {0, 1}
    BY <1>2, <1>3, <2>6
  <2>8. o[n] % 2 = Bit(msg[n], 0)
    BY <2>5, <2>7
  <2>9. QED BY <2>1, <2>8
<1>5. ASSUME NEW i \in 1..15 PROVE Parity(msg, n, i) = (Parity(msg, n - 1, i - 1) + Bit(msg[n], i)) % 2
  <2> DEFINE o == OnesCount(msg, n, i)
             p == OnesCount(msg, n - 1, i - 1)
             S == {k \in 0..n - 1 : o[k] = p[k]}
  <2>1. i \in BitPlaces /\ i - 1 \in BitPlaces /\ n \in 1..n
    BY <1>1 DEF BitPlaces
  <2>2. /\ o \in [0..n -> Nat] /\ o[0] = InitBit(n, i) /\ Parity(msg, n, i) = o[n] % 2
        /\ \A k \in 1..n : o[k] = o[k - 1] + DataBit(msg, n, k, i)
    BY <1>1, <2>1, OnesCounted
  <2>3. /\ p \in [0..n - 1 -> Nat] /\ p[0] = InitBit(n - 1, i - 1) /\ Parity(msg, n - 1, i - 1) = p[n - 1] % 2
        /\ \A k \in 1..n - 1 : p[k] = p[k - 1] + DataBit(msg, n - 1, k, i - 1)
    BY <1>1, <2>1, OnesCounted
  <2> HIDE DEF o, p
  <2>4. InitBit(n, i) = InitBit(n - 1, i - 1)
    <3>1. (i >= n <=> i - 1 >= n - 1) /\ i - n = (i - 1) - (n - 1)
      BY <1>1
    <3>2. QED BY <3>1 DEF InitBit
  <2>5. ASSUME NEW k \in 1..n PROVE DataBit(msg, n, k, i) = DataBit(msg, n - 1, k, i - 1)
    <3>1. (i >= n - k <=> i - 1 >= n - 1 - k) /\ i - (n - k) = (i - 1) - (n - 1 - k)
      BY <1>1
    <3>2. QED BY <3>1 DEF DataBit
  <2>6. 0 \in S
    BY <1>1, <2>2, <2>3, <2>4
  <2>7. ASSUME NEW k \in 1..n - 1, k - 1 \in S PROVE k \in S
    <3>1. k \in 1..n /\ k \in 0..n - 1
      BY <1>1
    <3>2. QED BY <2>2, <2>3, <2>5, <2>7, <3>1
  <2> HIDE DEF S
  <2>8. n - 1 \in S
    BY <1>1, <2>6, <2>7, UpTo
  <2>9. o[n] = p[n - 1] + Bit(msg[n], i) /\ p[n - 1] \in Nat
    BY <1>1, <1>3, <2>1, <2>2, <2>3, <2>8 DEF S
  <2>10. Bit(msg[n], i) \in Nat
    BY <1>2, <2>1
  <2>11. QED BY <2>2, <2>3, <2>9, <2>10
<1>6. QED BY <1>4, <1>5

\* The word after each byte has the bits of the reference.
LEMMA SumsAreReference ==
    ASSUME NEW msg \in Seq(Octet), NEW c, Sums(msg, c)
    PROVE  \A k \in 0..Len(msg) : \A i \in BitPlaces : Bit(c[k], i) = Parity(msg, k, i)
<1> DEFINE S == {k \in 0..Len(msg) : \A i \in BitPlaces : Bit(c[k], i) = Parity(msg, k, i)}
<1>1. Len(msg) \in Nat /\ \A k \in 1..Len(msg) : msg[k] \in Octet /\ msg[k] \in Nat
  BY LenProperties, ElementOfSeq, IsByte
<1>2. 0 \in S
  <2>1. ASSUME NEW i \in BitPlaces PROVE Parity(msg, 0, i) = Bit(CheckInit, i)
    <3>1. 0 \in 0..Len(msg) /\ 0 \in 0..0
      BY <1>1
    <3>2. Parity(msg, 0, i) = InitBit(0, i) % 2
      BY <3>1, OnesCounted
    <3>3. i >= 0 /\ i - 0 = i
      BY DEF BitPlaces
    <3>4. Bit(CheckInit, i) \in {0, 1}
      BY BitIs DEF CheckInit
    <3>5. InitBit(0, i) = Bit(CheckInit, i)
      BY <3>3 DEF InitBit
    <3>6. QED BY <3>2, <3>4, <3>5
  <2>2. c[0] = CheckInit
    BY DEF Sums
  <2>3. QED BY <1>1, <2>1, <2>2
<1>3. ASSUME NEW k \in 1..Len(msg), k - 1 \in S PROVE k \in S
  <2>1. k - 1 \in 0..Len(msg) /\ \A i \in BitPlaces : Bit(c[k - 1], i) = Parity(msg, k - 1, i)
    BY <1>3
  <2>2. c[k] = DeviceStep(c[k - 1], msg[k]) /\ c[k - 1] \in Word16 /\ msg[k] \in Nat /\ k \in 0..Len(msg)
    BY <1>1, <2>1 DEF Sums
  <2>3. /\ Bit(c[k], 0) = Bit(msg[k], 0)
        /\ \A i \in 1..15 : Bit(c[k], i) = (Bit(c[k - 1], i - 1) + Bit(msg[k], i)) % 2
    <3> DEFINE v == c[k - 1]
    <3>1. v \in Word16
      BY <2>2
    <3> HIDE DEF v
    <3>2. /\ Bit(DeviceStep(v, msg[k]), 0) = Bit(msg[k], 0)
          /\ \A i \in 1..15 : Bit(DeviceStep(v, msg[k]), i) = (Bit(v, i - 1) + Bit(msg[k], i)) % 2
      BY <2>2, <3>1, StepBits
    <3>3. c[k] = DeviceStep(v, msg[k])
      BY <2>2 DEF v
    <3>4. QED BY <3>2, <3>3 DEF v
  <2>4. /\ Parity(msg, k, 0) = Bit(msg[k], 0)
        /\ \A i \in 1..15 : Parity(msg, k, i) = (Parity(msg, k - 1, i - 1) + Bit(msg[k], i)) % 2
    BY ParityStep
  <2>5. ASSUME NEW i \in BitPlaces PROVE Bit(c[k], i) = Parity(msg, k, i)
    <3>1. CASE i = 0
      BY <2>3, <2>4, <3>1
    <3>2. CASE i # 0
      <4>1. i \in 1..15 /\ i - 1 \in BitPlaces
        BY <3>2 DEF BitPlaces
      <4>2. QED BY <2>1, <2>3, <2>4, <4>1
    <3>3. QED BY <3>1, <3>2
  <2>6. QED BY <2>2, <2>5
<1> HIDE DEF S
<1>4. \A k \in 0..Len(msg) : k \in S
  BY <1>1, <1>2, <1>3, UpTo
<1>5. QED BY <1>4 DEF S

\* Both checksums of a message are the word of the reference.
LEMMA ChecksAgree ==
    ASSUME NEW msg \in Seq(Octet)
    PROVE  /\ DeviceCheck(msg) \in Word16
           /\ DeviceCheck(msg) = ReferenceCheck(msg)
           /\ HostCheck(msg) = ReferenceCheck(msg)
<1> DEFINE c == DeviceSums(msg)
           b == [i \in 0..15 |-> Parity(msg, Len(msg), i)]
<1>1. Sums(msg, c) /\ DeviceCheck(msg) = c[Len(msg)]
  BY DeviceSummed
<1>2. Len(msg) \in Nat /\ Len(msg) \in 0..Len(msg)
  BY LenProperties
<1> HIDE DEF c
<1>3. c[Len(msg)] \in Word16
  BY <1>1, <1>2 DEF Sums
<1>4. \A i \in BitPlaces : Bit(c[Len(msg)], i) = Parity(msg, Len(msg), i)
  BY <1>1, <1>2, SumsAreReference
<1>5. \A i \in BitPlaces : b[i] = Parity(msg, Len(msg), i)
  BY DEF BitPlaces
<1>6. ReferenceCheck(msg) = FromBits(b)
  BY DEF ReferenceCheck
<1> HIDE DEF b
<1>7. Bits(b)
  <2> SUFFICES ASSUME NEW i \in BitPlaces PROVE b[i] \in {0, 1}
    BY DEF Bits
  <2>1. c[Len(msg)] \in Nat
    BY <1>3, IsWord16
  <2>2. Bit(c[Len(msg)], i) \in {0, 1}
    BY <2>1, BitIs
  <2>3. QED BY <1>4, <1>5, <2>2
<1>8. FromBits(b) \in Word16 /\ \A i \in BitPlaces : Bit(FromBits(b), i) = b[i]
  BY <1>7, BitsOf
<1>9. c[Len(msg)] = FromBits(b)
  <2>1. \A i \in BitPlaces : Bit(c[Len(msg)], i) = Bit(FromBits(b), i)
    BY <1>4, <1>5, <1>8
  <2>2. QED BY <1>3, <1>8, <2>1, SameBits
<1>10. HostCheck(msg) = c[Len(msg)]
  BY <1>1, HostSummed
<1>11. QED BY <1>1, <1>3, <1>6, <1>9, <1>10

\* A different byte makes a different word, and the difference moves up with each byte
\* that follows: it is lost after the eighth.
LEMMA ByteMatters ==
    ASSUME NEW msg \in Seq(Octet), NEW i \in 1..Len(msg), i > Len(msg) - 9,
           NEW b \in Octet, b # msg[i]
    PROVE  DeviceCheck([msg EXCEPT ![i] = b]) # DeviceCheck(msg)
<1> DEFINE n == Len(msg)
           other == [msg EXCEPT ![i] = b]
           c == DeviceSums(msg)
           d == DeviceSums(other)
<1>1. n \in Nat /\ i \in 1..n /\ i >= n - 8 /\ \A k \in 1..n : msg[k] \in Octet /\ msg[k] \in Nat
  BY LenProperties, ElementOfSeq, IsByte
<1>2. other \in Seq(Octet) /\ Len(other) = n /\ other[i] = b /\ \A k \in 1..n : k # i => other[k] = msg[k]
  BY ExceptSeq
<1>3. /\ c \in [0..n -> Word16] /\ c[0] = CheckInit /\ DeviceCheck(msg) = c[n]
      /\ \A k \in 1..n : c[k] = DeviceStep(c[k - 1], msg[k])
  BY DeviceSummed DEF Sums
<1>4. Sums(other, d) /\ DeviceCheck(other) = d[Len(other)]
  BY <1>2, DeviceSummed
<1> HIDE DEF c, d, other
<1>5. /\ d \in [0..n -> Word16] /\ d[0] = CheckInit /\ DeviceCheck(other) = d[n]
      /\ \A k \in 1..n : d[k] = DeviceStep(d[k - 1], other[k])
  BY <1>2, <1>4 DEF Sums
<1> HIDE DEF n
<1>6. c[i - 1] = d[i - 1] /\ c[i - 1] \in Word16
  <2> DEFINE S == {k \in 0..i - 1 : c[k] = d[k]}
  <2>1. i - 1 \in Nat /\ i - 1 \in 0..n /\ 0 \in 0..i - 1
    BY <1>1
  <2>2. 0 \in S
    BY <1>3, <1>5, <2>1
  <2>3. ASSUME NEW k \in 1..i - 1, k - 1 \in S PROVE k \in S
    <3>1. k \in 1..n /\ k # i /\ k \in 0..i - 1
      BY <1>1
    <3>2. QED BY <1>2, <1>3, <1>5, <2>3, <3>1
  <2> HIDE DEF S
  <2>4. \A k \in 0..i - 1 : k \in S
    BY <2>1, <2>2, <2>3, UpTo
  <2>5. i - 1 \in S
    BY <2>1, <2>4
  <2>6. QED BY <1>3, <2>1, <2>5 DEF S
<1>7. PICK j \in 0..7 : Bit(b, j) # Bit(msg[i], j)
  <2>1. SUFFICES ASSUME \A j \in 0..7 : Bit(b, j) = Bit(msg[i], j) PROVE FALSE
    OBVIOUS
  <2>2. b \in Word16 /\ msg[i] \in Word16 /\ \A j \in 8..15 : Bit(b, j) = 0 /\ Bit(msg[i], j) = 0
    BY <1>1, IsByte
  <2>3. \A j \in BitPlaces : j \in 0..7 \/ j \in 8..15
    BY DEF BitPlaces
  <2>4. \A j \in BitPlaces : Bit(b, j) = Bit(msg[i], j)
    BY <2>1, <2>2, <2>3
  <2>5. QED BY <2>2, <2>4, SameBits
<1> DEFINE D == {e \in 0..n - i : Bit(c[i + e], j + e) # Bit(d[i + e], j + e)}
<1>8. \A e \in 0..n - i : e \in 0..8 /\ j + e \in 0..15 /\ i + e \in 1..n
  BY <1>1
<1>9. 0 \in D
  <2>1. c[i] = DeviceStep(c[i - 1], msg[i]) /\ d[i] = DeviceStep(c[i - 1], b)
    BY <1>1, <1>2, <1>3, <1>5, <1>6
  <2>2. b \in Nat /\ msg[i] \in Nat /\ Bit(b, j) \in {0, 1} /\ Bit(msg[i], j) \in {0, 1}
    <3>1. b \in Nat /\ msg[i] \in Nat /\ j \in BitPlaces
      BY <1>1, IsByte DEF BitPlaces
    <3>2. QED BY <3>1, BitIs
  <2>3. Bit(c[i], j) # Bit(d[i], j)
    <3>1. CASE j = 0
      <4>1. Bit(c[i], j) = Bit(msg[i], j) /\ Bit(d[i], j) = Bit(b, j)
        BY <1>6, <2>1, <2>2, <3>1, StepBits
      <4>2. QED BY <1>7, <4>1
    <3>2. CASE j # 0
      <4>1. j \in 1..15 /\ j - 1 \in BitPlaces
        BY <3>2 DEF BitPlaces
      <4>2. /\ Bit(c[i], j) = (Bit(c[i - 1], j - 1) + Bit(msg[i], j)) % 2
            /\ Bit(d[i], j) = (Bit(c[i - 1], j - 1) + Bit(b, j)) % 2
        BY <1>6, <2>1, <2>2, <4>1, StepBits
      <4>3. c[i - 1] \in Nat
        BY <1>6, IsWord16
      <4>4. Bit(c[i - 1], j - 1) \in {0, 1}
        BY <4>1, <4>3, BitIs
      <4>5. \A x, y, z \in {0, 1} : (x + y) % 2 = (x + z) % 2 => y = z
        OBVIOUS
      <4>6. QED BY <1>7, <2>2, <4>2, <4>4, <4>5
    <3>3. QED BY <3>1, <3>2
  <2>4. 0 \in 0..n - i /\ i + 0 = i /\ j + 0 = j
    BY <1>1
  <2>5. QED BY <2>3, <2>4
<1>10. ASSUME NEW e \in 1..n - i, e - 1 \in D PROVE e \in D
  <2>1. /\ e - 1 \in 0..n - i /\ e \in 0..n - i /\ i + (e - 1) = (i + e) - 1 /\ j + (e - 1) = (j + e) - 1
        /\ Bit(c[i + (e - 1)], j + (e - 1)) # Bit(d[i + (e - 1)], j + (e - 1))
    BY <1>1, <1>10
  <2> DEFINE k == i + e
             m == j + e
  <2>2. k \in 1..n /\ k # i /\ k - 1 \in 0..n /\ m \in 1..15 /\ m - 1 \in BitPlaces
    BY <1>1, <1>8, <2>1 DEF BitPlaces
  <2>3. Bit(c[k - 1], m - 1) # Bit(d[k - 1], m - 1)
    BY <2>1
  <2> HIDE DEF k, m
  <2>4. c[k] = DeviceStep(c[k - 1], msg[k]) /\ d[k] = DeviceStep(d[k - 1], msg[k])
    BY <1>2, <1>3, <1>5, <2>2
  <2>5. c[k - 1] \in Word16 /\ d[k - 1] \in Word16 /\ msg[k] \in Nat
    BY <1>1, <1>3, <1>5, <2>2
  <2>6. /\ Bit(c[k], m) = (Bit(c[k - 1], m - 1) + Bit(msg[k], m)) % 2
        /\ Bit(d[k], m) = (Bit(d[k - 1], m - 1) + Bit(msg[k], m)) % 2
    <3> DEFINE v == c[k - 1]
               w == d[k - 1]
    <3>1. v \in Word16 /\ w \in Word16
      BY <2>5
    <3> HIDE DEF v, w
    <3>2. /\ Bit(DeviceStep(v, msg[k]), m) = (Bit(v, m - 1) + Bit(msg[k], m)) % 2
          /\ Bit(DeviceStep(w, msg[k]), m) = (Bit(w, m - 1) + Bit(msg[k], m)) % 2
      BY <2>2, <2>5, <3>1, StepBits
    <3>3. c[k] = DeviceStep(v, msg[k]) /\ d[k] = DeviceStep(w, msg[k])
      BY <2>4 DEF v, w
    <3>4. QED BY <3>2, <3>3 DEF v, w
  <2>7. Bit(c[k - 1], m - 1) \in {0, 1} /\ Bit(d[k - 1], m - 1) \in {0, 1} /\ Bit(msg[k], m) \in {0, 1}
    <3>1. c[k - 1] \in Nat /\ d[k - 1] \in Nat /\ m \in BitPlaces
      BY <2>2, <2>5, IsWord16 DEF BitPlaces
    <3>2. QED BY <2>2, <2>5, <3>1, BitIs
  <2>8. \A x, y, z \in {0, 1} : (x + z) % 2 = (y + z) % 2 => x = y
    OBVIOUS
  <2>9. Bit(c[k], m) # Bit(d[k], m)
    BY <2>3, <2>6, <2>7, <2>8
  <2>10. QED BY <2>1, <2>9 DEF k, m
<1> HIDE DEF D
<1>11. n - i \in Nat /\ n - i \in 0..n - i /\ i + (n - i) = n
  BY <1>1
<1>12. n - i \in D
  BY <1>9, <1>10, <1>11, UpTo
<1>13. c[n] # d[n]
  BY <1>11, <1>12 DEF D
<1>14. QED BY <1>3, <1>5, <1>13 DEF other

-----------------------------------------------------------------------------

\* The device receives bytes.
LEMMA ReceivedBytes == Spec => [](dbuf \in Seq(Octet))
<1>1. TypeOK => dbuf \in Seq(Octet)
  BY DEF TypeOK, Byte, Octet
<1>2. QED BY TypeCorrect, <1>1, PTL

\* For messages of every length over all bytes, which end with what the device has received,
\* the 16-bit word of host.h, which loses its top bit with each shift, and the integer of
\* host.py, which is masked, are the checksum that the bit by bit reference defines.
THEOREM ChecksumsAgree == Spec => []BothAgree
<1>1. ASSUME dbuf \in Seq(Octet) PROVE BothAgree
  <2>1. ASSUME NEW head \in Heads PROVE Agree(head \o dbuf)
    <3>1. head \in Seq(Octet)
      BY HeadsAssumption DEF Byte, Octet
    <3>2. head \o dbuf \in Seq(Octet)
      BY <1>1, <3>1, SMT
    <3>3. QED BY <3>2, ChecksAgree DEF Agree
  <2>2. QED BY <2>1 DEF BothAgree
<1>2. dbuf \in Seq(Octet) => BothAgree
  BY <1>1
<1>3. QED BY <1>2, ReceivedBytes, PTL

\* In such messages a change of one of the last nine bytes, to any other byte, changes the
\* checksum of host.h: neither end takes the frame.
THEOREM TailErrorsDetected == Spec => []TailErrorDetected
<1>1. ASSUME NEW data \in Seq(Octet), NEW i \in 1..Len(data), i > Len(data) - 9, NEW b \in Octets \ {data[i]}
      PROVE  DeviceCheck([data EXCEPT ![i] = b]) # DeviceCheck(data)
  <2>1. b \in Octet /\ b # data[i]
    BY HeadsAssumption DEF Byte, Octet
  <2>2. QED BY <1>1, <2>1, ByteMatters
<1>2. \A data \in Seq(Octet) : TailDetected(data)
  BY <1>1 DEF TailDetected, Detected
<1>3. ASSUME dbuf \in Seq(Octet) PROVE TailErrorDetected
  <2>1. ASSUME NEW head \in Heads PROVE head \o dbuf \in Seq(Octet)
    <3>1. head \in Seq(Octet)
      BY HeadsAssumption DEF Byte, Octet
    <3>2. QED BY <1>3, <3>1, SMT
  <2>2. QED BY <1>2, <2>1 DEF TailErrorDetected
<1>4. dbuf \in Seq(Octet) => TailErrorDetected
  BY <1>3
<1>5. QED BY <1>4, ReceivedBytes, PTL
=============================================================================
