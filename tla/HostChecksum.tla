---------------------------- MODULE HostChecksum ----------------------------
(***************************************************************************)
(* The checksum of the "binary safe" frame protocol: a 16-bit shift and    *)
(* XOR over the payload bytes, written twice in the repository (the device *)
(* in C, the host in Python).  The two are kept apart here so that they    *)
(* can be compared.                                                        *)
(***************************************************************************)
EXTENDS Integers, Sequences

CheckInit == 85              \* HOST_CHECK_INIT, 0x55

\* The 16 bits of a word, from bit 0, and the word of 16 bits.
Weight    == <<1, 2, 4, 8, 16, 32, 64, 128, 256, 512, 1024, 2048, 4096, 8192, 16384, 32768>>
Bit(n, i) == (n \div Weight[i + 1]) % 2
FromBits(b) ==
    LET from[i \in 0..16] == IF i = 16 THEN 0 ELSE b[i] + 2 * from[i + 1]
    IN from[0]

\* The operators ^ and & of words.
Xor(m, n) == FromBits([i \in 0..15 |-> (Bit(m, i) + Bit(n, i)) % 2])
And(m, n) == FromBits([i \in 0..15 |-> Bit(m, i) * Bit(n, i)])

\* Mutants of DeviceStep: the 8-bit version the sources keep commented out, and a
\* word that is XORed before it is shifted.
DeviceStep_8Bit(check, b) == Xor((check * 2) % 256, b)
DeviceStep_XorFirst(check, b) == (Xor(check, b) * 2) % 65536

\* The device: a 16-bit word is shifted, its top bit lost, and XORed.
DeviceStep(check, b) == Xor((check * 2) % 65536, b)
DeviceCheck(data) ==
    LET check[k \in 0..Len(data)] ==
            IF k = 0 THEN CheckInit ELSE DeviceStep(check[k - 1], data[k])
    IN check[Len(data)]

\* The host: the mask is applied after the shift, on an unbounded integer.
HostStep(check, b) == Xor(And(check * 2, 65535), b)
HostCheck(data) ==
    LET check[k \in 0..Len(data)] ==
            IF k = 0 THEN CheckInit ELSE HostStep(check[k - 1], data[k])
    IN check[Len(data)]

\* The reference: each bit of the result is the parity of the bits that the shifts
\* carried there, of the initial word and of each of n bytes; those shifted past bit
\* 15 are forgotten.
InitBit(n, i)       == IF i >= n THEN Bit(CheckInit, i - n) ELSE 0
DataBit(data, n, k, i) ==
    IF i >= n - k /\ i - (n - k) < 8 THEN Bit(data[k], i - (n - k)) ELSE 0
Parity(data, n, i) ==
    LET ones[k \in 0..n] == IF k = 0 THEN InitBit(n, i) ELSE ones[k - 1] + DataBit(data, n, k, i)
    IN ones[n] % 2
ReferenceCheck(data) == FromBits([i \in 0..15 |-> Parity(data, Len(data), i)])
=============================================================================
