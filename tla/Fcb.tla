-------------------------------- MODULE Fcb --------------------------------
(***************************************************************************)
(* The position in a CP/M File Control Block (examples/cpm/fcb.h) and the  *)
(* three places that compute with it: bdos_f_read_ and bdos_f_readrand_ of *)
(* bdos.c on the device, handle_frame of bdos_host.py on the host.         *)
(*                                                                         *)
(*   cr   record within the extent          ex   extent, 128 records each  *)
(*   s2   module, 32 extents each; bit 7 marks the file open               *)
(*   r0, r1   random record number                                         *)
(*                                                                         *)
(* dr and name, the other fields the host looks at, are opaque here.       *)
(***************************************************************************)
EXTENDS Integers

recsize == 128
OpenBit == 128

\* The record fcb.h says the fields stand for, of the 12 bits CP/M defines.
Documented(f) == (f.s2 % OpenBit) * 4096 + f.ex * 128 + f.cr

\* The record the host reads: rn of handle_frame, where s2 & 0x0f weighs 16384.
HostRecord(f) == (f.s2 % 16) * 16384 + f.ex * 128 + f.cr

\* bdos_f_read_ moves to the next record; bit 0 of s2 weighs 16384 here, too,
\* but the carry out of ex goes into s2 in units of 4096.
Advance(f) ==
    LET rn == f.cr + f.ex * 128 + (f.s2 % 2) * 16384 + 1
        ex == rn \div 128
    IN  [f EXCEPT !.cr = rn % 128, !.ex = ex % 32, !.s2 = OpenBit + ex \div 32]

\* Mutant of Seek: bit 7 of r0 is dropped.
Seek_NoBit7(f, r0, r1) ==
    [f EXCEPT !.r0 = r0, !.r1 = r1, !.cr = r0 % 128, !.ex = (r1 % 16) * 2, !.s2 = r1 \div 16]

\* freadrand sets r0 and r1, and bdos_f_readrand_ turns them into cr, ex and s2.
Seek(f, r0, r1) ==
    [f EXCEPT !.r0 = r0, !.r1 = r1,
              !.cr = r0 % 128, !.ex = r0 \div 128 + (r1 % 16) * 2, !.s2 = r1 \div 16]

\* bdos_f_close_ clears bit 7 of s2.
Closed(f) == [f EXCEPT !.s2 = @ % OpenBit]
=============================================================================
