------------------------------ MODULE CcpProofs ------------------------------
(***************************************************************************)
(* Theorems about Ccp for every set of programs, of any number of records  *)
(* that fit: types, and that what is started is what is on the disk.        *)
(***************************************************************************)
EXTENDS Ccp, TLAPS

-----------------------------------------------------------------------------
(* Why the invariants hold.                                                *)

\* Boot reads the command processor with the DMA address at 0x0080 and then clears the
\* area: it is whole unless CCP.COM could not be read, and finds no arguments of its own.
Booted ==
    /\ at = "start_ccp" => dma = "low"
    /\ at = "ccp" => area = Text("zero") /\ (ccp = "whole" \/ unread)
    /\ at = "stray" => unread

\* Only a program moves the DMA address, and only one that returned leaves it moved.
LowOrReturned == at \notin {"wboot", "program", "stray"} => dma = "low" \/ returned

\* Of a file that is being read, the records before pos are in their places; of one
\* that is loaded, all.
Loading ==
    /\ at = "load" /\ ~returned => \A i \in 1 .. pos - 1 : tpa[i] = Record(file, i)
    /\ at = "start" /\ how = "ccp_load" =>
           /\ file \in Program
           /\ ~returned => \A i \in 1 .. Records[file] : tpa[i] = Record(file, i)

IInv == TypeOK /\ Booted /\ LowOrReturned /\ Loading

-----------------------------------------------------------------------------

\* What is in memory: texts, and the records of programs.
LEMMA BlockTypes ==
    /\ \A t \in {"other", "eofs", "ccp", "zero", "none", "args", "listing"} : Text(t) \in Block
    /\ Other \in Block
    /\ \A p \in Program, i \in 1 .. Most : Record(p, i) \in Block
BY DEF Block, Text, Other, Record

LEMMA InitInv == Init => IInv
<1> SUFFICES ASSUME Init PROVE IInv
  OBVIOUS
<1>1. tpa \in [1 .. Most -> Block] /\ area \in Block
  BY BlockTypes DEF Init
<1>2. 1 \in 1 .. Most + 1
  BY RecordsAssumption
<1>3. QED
  BY <1>1, <1>2 DEF Init, IInv, TypeOK, Booted, LowOrReturned, Loading

\* The boot steps establish Booted one after the other.
LEMMA BootInv == ASSUME IInv, Boot PROVE IInv'
<1> USE BlockTypes DEF IInv, TypeOK, Booted, LowOrReturned, Loading
<1>1. CASE WarmBoot
  BY <1>1 DEF WarmBoot
<1>2. CASE StartCcp
  BY <1>2 DEF StartCcp, LoadedCcp
<1>3. CASE Ccp
  BY <1>3 DEF Ccp, NoArguments
<1>4. CASE PowerOn
  BY <1>4 DEF PowerOn
<1>5. QED BY <1>1, <1>2, <1>3, <1>4 DEF Boot

\* A record is copied to its place from where the DMA address put it.
LEMMA ReadRecordInv == ASSUME IInv, ReadRecord PROVE IInv'
<1>1. file \in Program /\ Records[file] \in 1 .. Most /\ pos \in 1 .. Most + 1 /\ pos <= Records[file]
  BY RecordsAssumption DEF IInv, TypeOK, ReadRecord
<1>2. area' \in Block
  BY <1>1, BlockTypes, RecordsAssumption DEF IInv, TypeOK, ReadRecord
<1>3. TypeOK'
  BY <1>1, <1>2, RecordsAssumption DEF IInv, TypeOK, ReadRecord
<1>4. ASSUME ~returned' PROVE \A i \in 1 .. pos' - 1 : tpa'[i] = Record(file, i)
  <2>1. dma = "low" /\ \A i \in 1 .. pos - 1 : tpa[i] = Record(file, i)
    BY <1>4 DEF IInv, LowOrReturned, Loading, ReadRecord
  <2>2. tpa' = [tpa EXCEPT ![pos] = Record(file, pos)] /\ pos' = pos + 1
    BY <2>1 DEF ReadRecord
  <2>3. QED
    BY <1>1, <2>1, <2>2, RecordsAssumption DEF IInv, TypeOK
<1>5. Booted' /\ LowOrReturned' /\ Loading'
  BY <1>4 DEF IInv, Booted, LowOrReturned, Loading, ReadRecord
<1>6. QED BY <1>3, <1>5 DEF IInv

LEMMA CommandInv == ASSUME IInv, Command PROVE IInv'
<1> USE DEF IInv, TypeOK, Booted, LowOrReturned, Loading
<1>1. ASSUME NEW p \in Program, NEW b \in BOOLEAN, Load(p, b) PROVE IInv'
  <2>1. area' \in Block
    BY <1>1, BlockTypes DEF Load, Typed
  <2>2. 1 \in 1 .. Most + 1 /\ 1 <= Records[p] + 1
    BY RecordsAssumption
  <2>3. QED BY <1>1, <2>1, <2>2 DEF Load, Typed
<1>2. ASSUME NEW b \in BOOLEAN, NotFound(b) PROVE IInv'
  BY <1>2, BlockTypes DEF NotFound, Typed
<1>3. CASE Dir
  BY <1>3, BlockTypes DEF Dir
<1>4. CASE Run
  BY <1>4, BlockTypes DEF Run, Typed
<1>5. CASE Reset
  BY <1>5, BlockTypes DEF Reset
<1>6. CASE ReadRecord
  BY <1>6, ReadRecordInv
<1>7. CASE Loaded
  <2>1. pos = Records[file] + 1
    BY <1>7, RecordsAssumption DEF Loaded
  <2>2. QED BY <1>7, <2>1, RecordsAssumption DEF Loaded
<1>8. QED BY <1>1, <1>2, <1>3, <1>4, <1>5, <1>6, <1>7 DEF Command

LEMMA RunsInv == ASSUME IInv, Runs PROVE IInv'
<1> USE BlockTypes DEF IInv, TypeOK, Booted, LowOrReturned, Loading
<1>1. CASE Start
  BY <1>1 DEF Start
<1>2. CASE SetDma
  BY <1>2 DEF SetDma
<1>3. CASE Work
  BY <1>3 DEF Work
<1>4. CASE Exit
  BY <1>4 DEF Exit
<1>5. CASE Ret
  BY <1>5 DEF Ret, Listing
<1>6. QED BY <1>1, <1>2, <1>3, <1>4, <1>5 DEF Runs

\* Every state satisfies IInv, from which the theorems follow.
LEMMA Invariance == Spec => []IInv
<1>1. IInv /\ [Next]_vars => IInv'
  <2> SUFFICES ASSUME IInv, [Next]_vars PROVE IInv'
    OBVIOUS
  <2>1. CASE Next
    BY <2>1, BootInv, CommandInv, RunsInv DEF Next
  <2>2. CASE UNCHANGED vars
    BY <2>2 DEF vars, IInv, TypeOK, Booted, LowOrReturned, Loading
  <2>3. QED BY <2>1, <2>2
<1>2. QED BY InitInv, <1>1, PTL DEF Spec

-----------------------------------------------------------------------------

\* Every variable of the boot and command processor model has its type, and a file is
\* read no further than its end (ccp_load, ccp.c).
THEOREM TypeCorrect == Spec => []TypeOK
<1>1. IInv => TypeOK
  BY DEF IInv
<1>2. QED BY Invariance, <1>1, PTL

\* The jump after boot goes to the whole command processor unless CCP.COM could not be read,
\* and a program that was just loaded is in memory record for record, whatever DMA address
\* earlier programs chose, unless one of them returned with it (bios_wboot, bdos_start_ccp,
\* ccp_load).
THEOREM StartsWhole == Spec => []RunsWhole
<1>1. IInv => RunsWhole
  BY DEF IInv, Booted, Loading, RunsWhole
<1>2. QED BY Invariance, <1>1, PTL
=============================================================================
