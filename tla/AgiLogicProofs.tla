---------------------------- MODULE AgiLogicProofs ----------------------------
(***************************************************************************)
(* Theorems about AgiLogic for every game and every size of the two pools: *)
(* types, that each logic owns its handles, that what is open is accounted *)
(* for, and that only a pool near its end leads to a wild write.           *)
(***************************************************************************)
EXTENDS AgiLogic, WellFoundedInduction, FiniteSetTheorems, SequenceTheorems, TLAPS

\* A set of numbers has a least one.
LEMMA LeastExists ==
    ASSUME NEW S \in SUBSET Nat, S # {}
    PROVE  \E i \in S : \A j \in S : i <= j
<1>1. PICK i \in S : \A j \in S : <<j, i>> \notin OpToRel(<, Nat)
  BY WFMin, NatLessThanWellFounded, Zenon
<1>2. \A j \in S : ~(j < i)
  BY <1>1, Zenon DEF OpToRel
<1>3. QED BY <1>2

-----------------------------------------------------------------------------
(* Why the invariants hold.                                                *)

Active(p) == {h \in ResHandles : p.res[h].active}

\* Open resources hold open ROM files, each its own.
Sound(p) ==
    /\ p \in PoolType
    /\ \A h \in Active(p) : p.res[h].rh \in RomHandles /\ p.rom[p.res[h].rh]
    /\ \A h, k \in Active(p) : h # k => p.res[h].rh # p.res[k].rh

\* The logic c holds both of its handles ...
Live(p, c) ==
    /\ c.res_h \in Active(p) /\ c.msg_res_h \in Active(p) /\ c.res_h # c.msg_res_h
    /\ p.res[c.res_h].of = <<"LOG", c.num>> /\ p.res[c.msg_res_h].of = <<"LOG", c.num>>

Both(c) == {c.res_h, c.msg_res_h}

\* ... or has closed them, so that nothing is left that a second closing could close.
Released(p, h) == h \notin Active(p) /\ (p.res[h].rh \in RomHandles => ~ p.rom[p.res[h].rh])
Ended(p, c) == \A h \in Both(c) : Released(p, h)

\* The open resources are those of the logics of this stack, two for each.
Owns(p, cs) ==
    /\ \A i \in 1 .. Len(cs) : Live(p, cs[i])
    /\ \A i, j \in 1 .. Len(cs) : i # j => Both(cs[i]) \cap Both(cs[j]) = {}
    /\ \A h \in Active(p) : \E i \in 1 .. Len(cs) : h \in Both(cs[i])

StackLive  == Owns(pool, calls)
StackEnded == /\ calls # <<>> /\ phase \in {"run", "done"}
              /\ Owns(pool, Callers) /\ Ended(pool, curLog)

\* C code runs where its logic is on the stack.
Phased == /\ phase \in {"idle", "draw", "stopped"} => calls = <<>>
          /\ phase \in {"run", "done"} => calls # <<>>

IInv == /\ TypeOK /\ Phased /\ WildOnlyAtTheLimit
        /\ ~ wild => /\ Sound(pool) /\ (StackLive \/ StackEnded)
                     /\ Cardinality(Unowned(pool)) = lost

-----------------------------------------------------------------------------
(* The pools.                                                              *)

LEMMA SetRes ==
    ASSUME NEW p \in PoolType, NEW h \in ResHandles, NEW s \in ResState
    PROVE  LET q == [p EXCEPT !.res[h] = s] IN
           /\ q \in PoolType /\ q.rom = p.rom /\ q.res[h] = s
           /\ \A k \in ResHandles : k # h => q.res[k] = p.res[k]
BY DEF PoolType

LEMMA SetRom ==
    ASSUME NEW p \in PoolType, NEW r \in RomHandles, NEW b \in BOOLEAN
    PROVE  LET q == [p EXCEPT !.rom[r] = b] IN
           /\ q \in PoolType /\ q.res = p.res /\ q.rom[r] = b
           /\ \A k \in RomHandles : k # r => q.rom[k] = p.rom[k]
BY DEF PoolType

LEMMA ClearedType ==
    /\ Cleared \in ResState /\ ~ Cleared.active
    /\ \A r \in RomHandles \cup {-1} :
           /\ [Cleared EXCEPT !.rh = r] \in ResState
           /\ ~ [Cleared EXCEPT !.rh = r].active /\ [Cleared EXCEPT !.rh = r].rh = r
BY DEF Cleared, ResState, Kinds

\* The number of ROM files that nobody closes is a number of ROM handles.
LEMMA Counted ==
    ASSUME NEW p
    PROVE  /\ IsFiniteSet(RomHandles) /\ IsFiniteSet(Unowned(p))
           /\ Cardinality(RomHandles) = ROMFS_MAX_HANDLES
           /\ Cardinality(Unowned(p)) \in 0 .. ROMFS_MAX_HANDLES
<1>1. ROMFS_MAX_HANDLES \in Nat /\ ROMFS_MAX_HANDLES > 0
  BY PoolAssumption
<1>2. IsFiniteSet(RomHandles) /\ Cardinality(RomHandles) = ROMFS_MAX_HANDLES
  BY <1>1, FS_Interval DEF RomHandles
<1>3. Unowned(p) \subseteq RomHandles
  BY DEF Unowned
<1>4. IsFiniteSet(Unowned(p)) /\ Cardinality(Unowned(p)) <= Cardinality(RomHandles)
  BY <1>2, <1>3, FS_Subset
<1>5. Cardinality(Unowned(p)) \in Nat
  BY <1>4, FS_CardinalityType
<1>6. QED BY <1>1, <1>2, <1>4, <1>5

\* The first free handle is a free handle.
LEMMA FirstFree ==
    ASSUME NEW p
    PROVE  /\ FreeRes(p) # {} => First(FreeRes(p)) \in ResHandles \ Active(p)
           /\ FreeRom(p) # {} => First(FreeRom(p)) \in RomHandles /\ ~ p.rom[First(FreeRom(p))]
<1>1. ASSUME NEW S \in SUBSET Nat, S # {} PROVE First(S) \in S
  <2>1. \E i \in S : \A j \in S : i <= j
    BY <1>1, LeastExists
  <2>2. QED BY <2>1 DEF First
<1>2. FreeRes(p) \in SUBSET Nat /\ FreeRom(p) \in SUBSET Nat
  BY PoolAssumption DEF FreeRes, FreeRom, ResHandles, RomHandles
<1>3. FreeRes(p) # {} => First(FreeRes(p)) \in FreeRes(p)
  BY <1>1, <1>2
<1>4. FreeRom(p) # {} => First(FreeRom(p)) \in FreeRom(p)
  BY <1>1, <1>2
<1>5. QED BY <1>3, <1>4 DEF FreeRes, FreeRom, Active

\* Nothing open is opened, closed or given to another.
Kept(p, q) ==
    /\ Sound(q) /\ Active(q) = Active(p)
    /\ \A h \in Active(p) : q.res[h].of = p.res[h].of

\* What vagi_res_open returns: a handle, or an error that may cost a ROM handle.
Got(p, o, w) ==
    /\ o.h \in ResHandles \ Active(p) /\ Sound(o.pool)
    /\ Active(o.pool) = Active(p) \cup {o.h} /\ o.pool.res[o.h].of = w
    /\ \A h \in Active(p) : o.pool.res[h].of = p.res[h].of
    /\ Unowned(o.pool) = Unowned(p) /\ Loses(o) = 0
Refused(p, o) ==
    /\ o.h \in Int /\ o.h < 0 /\ Kept(p, o.pool)
    /\ \/ Loses(o) = 0 /\ Unowned(o.pool) = Unowned(p)
       \/ /\ Loses(o) = 1
          /\ \E r \in RomHandles \ Unowned(p) : Unowned(o.pool) = Unowned(p) \cup {r}

\* Preparing a free element changes nothing that is open.
LEMMA ClearFree ==
    ASSUME NEW p, Sound(p), NEW h \in ResHandles \ Active(p)
    PROVE  LET q == [p EXCEPT !.res[h] = Cleared] IN
           Kept(p, q) /\ Unowned(q) = Unowned(p) /\ q.rom = p.rom
<1> DEFINE q == [p EXCEPT !.res[h] = Cleared]
<1>1. /\ q \in PoolType /\ q.rom = p.rom /\ q.res[h] = Cleared
      /\ \A k \in ResHandles : k # h => q.res[k] = p.res[k]
  BY SetRes, ClearedType DEF Sound
<1> HIDE DEF q
<1>2. ~ q.res[h].active /\ ~ p.res[h].active
  BY <1>1, ClearedType DEF Active
<1>3. Active(q) = Active(p) /\ \A k \in Active(p) : q.res[k] = p.res[k]
  BY <1>1, <1>2 DEF Active
<1>4. Sound(q)
  BY <1>1, <1>3 DEF Sound
<1>5. Unowned(q) = Unowned(p)
  BY <1>1, <1>2 DEF Unowned
<1>6. QED BY <1>1, <1>3, <1>4, <1>5 DEF Kept, q

\* A ROM file that is opened for a directory: it stays open, or is closed again.
LEMMA OpenRom ==
    ASSUME NEW p, Sound(p), NEW r \in RomHandles, ~ p.rom[r]
    PROVE  /\ Kept(p, romfs_fopen(p, r)) /\ Unowned(romfs_fopen(p, r)) = Unowned(p) \cup {r}
           /\ r \notin Unowned(p)
           /\ Kept(p, romfs_fclose(romfs_fopen(p, r), r))
           /\ Unowned(romfs_fclose(romfs_fopen(p, r), r)) = Unowned(p)
<1> DEFINE d == romfs_fopen(p, r)
           q == romfs_fclose(d, r)
<1>1. p \in PoolType
  BY DEF Sound
<1>2. /\ d \in PoolType /\ d.res = p.res /\ d.rom[r]
      /\ \A k \in RomHandles : k # r => d.rom[k] = p.rom[k]
  BY <1>1, SetRom DEF romfs_fopen
<1> HIDE DEF d
<1>3. /\ q \in PoolType /\ q.res = d.res /\ ~ q.rom[r]
      /\ \A k \in RomHandles : k # r => q.rom[k] = d.rom[k]
  BY <1>2, SetRom DEF romfs_fclose
<1> HIDE DEF q
<1>4. Active(d) = Active(p) /\ Active(q) = Active(p)
  BY <1>2, <1>3 DEF Active
<1>5. \A h \in Active(p) : p.res[h].rh # r
  BY DEF Sound
<1>6. Sound(d) /\ Sound(q)
  BY <1>2, <1>3, <1>4, <1>5 DEF Sound
<1>7. Unowned(d) = Unowned(p) \cup {r} /\ r \notin Unowned(p)
  BY <1>2, <1>5 DEF Unowned, Active
<1>8. Unowned(q) = Unowned(p)
  BY <1>2, <1>3 DEF Unowned
<1>9. QED BY <1>2, <1>3, <1>4, <1>6, <1>7, <1>8 DEF Kept, d, q

LEMMA KeptTwice == ASSUME NEW p, NEW q, NEW r, Kept(p, q), Kept(q, r) PROVE Kept(p, r)
BY DEF Kept

\* vagi_res_open with a free element and a free ROM handle.
LEMMA OpenFileCases ==
    ASSUME NEW p, Sound(p), NEW h \in ResHandles \ Active(p), NEW r \in RomHandles, ~ p.rom[r],
           NEW e \in Entries, NEW w \in Kinds \X Nat
    PROVE  LET o == OpenFile(p, h, r, e, w) IN
           (Refused(p, o) /\ e # "ok") \/ (Got(p, o, w) /\ e = "ok")
<1> DEFINE o == OpenFile(p, h, r, e, w)
           q == [p EXCEPT !.res[h] = Cleared]
           d == romfs_fopen(q, r)
<1>1. Kept(p, q) /\ Unowned(q) = Unowned(p) /\ q.rom = p.rom
  BY ClearFree
<1>2. CASE e = "past"
  <2>1. o.pool = d /\ o.h = ROMFS_ERROR_EOF
    BY <1>2 DEF OpenFile, Opening
  <2> HIDE DEF o, q
  <2>2. Sound(q) /\ ~ q.rom[r]
    BY <1>1 DEF Kept
  <2>3. Kept(q, d) /\ Unowned(d) = Unowned(q) \cup {r} /\ r \notin Unowned(q)
    BY <2>2, OpenRom
  <2>4. o.h \in Int /\ o.h < 0 /\ Loses(o) = 1
    BY <2>1 DEF Loses, ROMFS_ERROR_EOF
  <2>5. Refused(p, o)
    BY <1>1, <2>1, <2>3, <2>4, KeptTwice DEF Refused
  <2>6. QED BY <1>2, <2>5 DEF o
<1>3. CASE e \in {"novol", "bad"}
  <2>1. /\ o.pool = romfs_fclose(d, r)
        /\ o.h \in {ROMFS_ERROR_NOT_FOUND, VAGI_RES_ERROR_SIGNATURE_ERROR}
    BY <1>3 DEF OpenFile, Opening
  <2> HIDE DEF o, q
  <2>2. Sound(q) /\ ~ q.rom[r]
    BY <1>1 DEF Kept
  <2>3. Kept(q, romfs_fclose(d, r)) /\ Unowned(romfs_fclose(d, r)) = Unowned(q)
    BY <2>2, OpenRom
  <2>4. o.h \in Int /\ o.h < 0 /\ Loses(o) = 0
    BY <2>1 DEF Loses, ROMFS_ERROR_EOF, ROMFS_ERROR_NOT_FOUND, VAGI_RES_ERROR_SIGNATURE_ERROR
  <2>5. Refused(p, o)
    BY <1>1, <2>1, <2>3, <2>4, KeptTwice DEF Refused
  <2>6. QED BY <1>3, <2>5 DEF o
<1>4. CASE e = "ok"
  <2> DEFINE s == [active |-> TRUE, rh |-> r, offset |-> 0, of |-> w]
             f == [d EXCEPT !.res[h] = s]
  <2>1. o.pool = f /\ o.h = h
    BY <1>4 DEF OpenFile, Opening
  <2> HIDE DEF o, q
  <2>2. Sound(q) /\ ~ q.rom[r] /\ Active(q) = Active(p) /\ \A k \in Active(p) : q.res[k].of = p.res[k].of
    BY <1>1 DEF Kept
  <2>3. /\ d \in PoolType /\ d.res = q.res /\ d.rom[r]
        /\ \A k \in RomHandles : k # r => d.rom[k] = q.rom[k]
    BY <2>2, SetRom DEF romfs_fopen, Sound
  <2> HIDE DEF d
  <2>4. s \in ResState /\ s.active /\ s.rh = r /\ s.of = w
    BY DEF ResState
  <2> HIDE DEF s
  <2>5. /\ f \in PoolType /\ f.rom = d.rom /\ f.res[h] = s
        /\ \A k \in ResHandles : k # h => f.res[k] = d.res[k]
    BY <2>3, <2>4, SetRes
  <2> HIDE DEF f
  <2>6. Active(f) = Active(q) \cup {h} /\ \A k \in Active(q) : k # h /\ f.res[k] = q.res[k]
    BY <2>2, <2>3, <2>4, <2>5 DEF Active
  <2>7. \A k \in Active(q) : q.res[k].rh # r
    BY <2>2 DEF Sound
  <2>8. Sound(f)
    <3>1. \A k \in Active(f) : f.res[k].rh \in RomHandles /\ f.rom[f.res[k].rh]
      BY <2>2, <2>3, <2>4, <2>5, <2>6, <2>7 DEF Sound
    <3>2. \A k, l \in Active(f) : k # l => f.res[k].rh # f.res[l].rh
      BY <2>2, <2>4, <2>5, <2>6, <2>7 DEF Sound
    <3>3. QED BY <2>5, <3>1, <3>2 DEF Sound
  <2>9. Unowned(f) = Unowned(q)
    <3>1. ASSUME NEW k \in RomHandles PROVE k \in Unowned(f) <=> k \in Unowned(q)
      <4>1. CASE k = r
        <5>1. h \in ResHandles /\ f.res[h].active /\ f.res[h].rh = r
          BY <2>4, <2>5
        <5>2. QED BY <2>2, <4>1, <5>1 DEF Unowned
      <4>2. CASE k # r
        <5>1. f.rom[k] = q.rom[k]
          BY <2>3, <2>5, <4>2
        <5>2. \A l \in ResHandles : (f.res[l].active => f.res[l].rh # k) <=> (q.res[l].active => q.res[l].rh # k)
          BY <2>2, <2>3, <2>4, <2>5, <4>2 DEF Active
        <5>3. QED BY <5>1, <5>2 DEF Unowned
      <4>3. QED BY <4>1, <4>2
    <3>2. QED BY <3>1 DEF Unowned
  <2>10. Loses(o) = 0
    BY <2>1, PoolAssumption DEF Loses, ROMFS_ERROR_EOF, ResHandles
  <2>11. Got(p, o, w)
    BY <1>1, <2>1, <2>2, <2>4, <2>5, <2>6, <2>8, <2>9, <2>10 DEF Got
  <2>12. QED BY <1>4, <2>11 DEF o
<1>5. QED BY <1>2, <1>3, <1>4 DEF Entries

\* vagi_res_open: it fails, or the resource is there; the same resource fails only where
\* one of the pools is used up.
LEMMA Opens ==
    ASSUME NEW p, Sound(p), NEW e \in Entries, NEW w \in Kinds \X Nat
    PROVE  LET o == vagi_res_open(p, e, w) IN
           /\ Refused(p, o) \/ (Got(p, o, w) /\ e = "ok")
           /\ Refused(p, o) /\ e = "ok" => FreeRes(p) = {} \/ FreeRom(p) = {}
<1> DEFINE o == vagi_res_open(p, e, w)
           h == First(FreeRes(p))
           r == First(FreeRom(p))
<1>1. CASE FreeRes(p) = {}
  <2>1. o.pool = p /\ o.h = VAGI_RES_ERROR_OUT_OF_HANDLES
    BY <1>1 DEF vagi_res_open, Opening
  <2>2. o.h \in Int /\ o.h < 0 /\ Loses(o) = 0
    BY <2>1 DEF Loses, ROMFS_ERROR_EOF, VAGI_RES_ERROR_OUT_OF_HANDLES
  <2>3. Refused(p, o)
    BY <2>1, <2>2 DEF Refused, Kept
  <2>4. QED BY <1>1, <2>3
<1>2. CASE FreeRes(p) # {} /\ FreeRom(p) = {}
  <2>1. o.pool = [p EXCEPT !.res[h] = Cleared] /\ o.h = ROMFS_ERROR_OUT_OF_HANDLES
    BY <1>2 DEF vagi_res_open, Opening
  <2>2. h \in ResHandles \ Active(p)
    BY <1>2, FirstFree
  <2> HIDE DEF o, h
  <2>3. Kept(p, o.pool) /\ Unowned(o.pool) = Unowned(p)
    BY <2>1, <2>2, ClearFree
  <2>4. o.h \in Int /\ o.h < 0 /\ Loses(o) = 0
    BY <2>1 DEF Loses, ROMFS_ERROR_EOF, ROMFS_ERROR_OUT_OF_HANDLES
  <2>5. Refused(p, o)
    BY <2>3, <2>4 DEF Refused
  <2>6. QED BY <1>2, <2>5 DEF o
<1>3. CASE FreeRes(p) # {} /\ FreeRom(p) # {}
  <2>1. o = OpenFile(p, h, r, e, w)
    BY <1>3 DEF vagi_res_open
  <2>2. h \in ResHandles \ Active(p) /\ r \in RomHandles /\ ~ p.rom[r]
    BY <1>3, FirstFree
  <2> HIDE DEF o, h, r
  <2>3. (Refused(p, o) /\ e # "ok") \/ (Got(p, o, w) /\ e = "ok")
    BY <2>1, <2>2, OpenFileCases
  <2>4. ~ (Refused(p, o) /\ e = "ok")
    BY <2>3, PoolAssumption DEF Refused, Got, ResHandles
  <2>5. QED BY <2>3, <2>4 DEF o
<1>4. QED BY <1>1, <1>2, <1>3

\* vagi_res_close: the element is free, and the ROM file it names is closed.
LEMMA Closing ==
    ASSUME NEW p \in PoolType, NEW h \in ResHandles
    PROVE  LET q == vagi_res_close(p, h) IN
           /\ q \in PoolType /\ ~ q.res[h].active /\ q.res[h].rh = p.res[h].rh
           /\ \A k \in ResHandles : k # h => q.res[k] = p.res[k]
           /\ \A r \in RomHandles : q.rom[r] <=> (p.rom[r] /\ r # p.res[h].rh)
<1> DEFINE r == p.res[h].rh
           c == romfs_fclose(p, r)
           s == [Cleared EXCEPT !.rh = r]
           q == [c EXCEPT !.res[h] = s]
<1>1. r \in RomHandles \cup {-1}
  BY DEF PoolType, ResState
<1>2. s \in ResState /\ ~ s.active /\ s.rh = r
  BY <1>1, ClearedType
<1>3. /\ c \in PoolType /\ c.res = p.res
      /\ \A k \in RomHandles : c.rom[k] <=> (p.rom[k] /\ k # r)
  <2> HIDE DEF r
  <2>2. CASE r \in RomHandles
    <3>1. /\ c \in PoolType /\ c.res = p.res /\ c.rom[r] = FALSE
          /\ \A k \in RomHandles : k # r => c.rom[k] = p.rom[k]
      BY <2>2, SetRom DEF romfs_fclose
    <3>2. QED BY <3>1
  <2>3. CASE r \notin RomHandles
    BY <2>3 DEF PoolType, romfs_fclose
  <2>4. QED BY <2>2, <2>3
<1>4. vagi_res_close(p, h) = q
  BY DEF vagi_res_close
<1> HIDE DEF r, c, s
<1>5. /\ q \in PoolType /\ q.rom = c.rom /\ q.res[h] = s
      /\ \A k \in ResHandles : k # h => q.res[k] = c.res[k]
  BY <1>2, <1>3, SetRes
<1>6. QED BY <1>2, <1>3, <1>4, <1>5 DEF r

LEMMA CloseOpen ==
    ASSUME NEW p, Sound(p), NEW h \in Active(p)
    PROVE  LET q == vagi_res_close(p, h) IN
           /\ Sound(q) /\ Active(q) = Active(p) \ {h} /\ Unowned(q) = Unowned(p)
           /\ \A k \in Active(q) : q.res[k].of = p.res[k].of
           /\ Released(q, h)
           /\ \A k \in ResHandles : Released(p, k) => Released(q, k)
<1> DEFINE q == vagi_res_close(p, h)
<1>1. p \in PoolType /\ h \in ResHandles /\ p.res[h].active
  BY DEF Sound, Active
<1>2. /\ q \in PoolType /\ ~ q.res[h].active /\ q.res[h].rh = p.res[h].rh
      /\ \A k \in ResHandles : k # h => q.res[k] = p.res[k]
      /\ \A r \in RomHandles : q.rom[r] <=> (p.rom[r] /\ r # p.res[h].rh)
  BY <1>1, Closing
<1> HIDE DEF q
<1>3. Active(q) = Active(p) \ {h}
  BY <1>2 DEF Active
<1>4. \A k \in Active(q) : k # h /\ k \in ResHandles /\ k \in Active(p) /\ q.res[k] = p.res[k]
  BY <1>2, <1>3 DEF Active
<1>5. Sound(q)
  BY <1>2, <1>4 DEF Sound
<1>6. Unowned(q) = Unowned(p)
  <2>1. ASSUME NEW r \in RomHandles PROVE r \in Unowned(q) <=> r \in Unowned(p)
    <3>1. CASE r = p.res[h].rh
      BY <1>1, <1>2, <3>1 DEF Unowned
    <3>2. CASE r # p.res[h].rh
      <4>1. q.rom[r] <=> p.rom[r]
        BY <1>2, <3>2
      <4>2. \A k \in ResHandles : (q.res[k].active => q.res[k].rh # r) <=> (p.res[k].active => p.res[k].rh # r)
        BY <1>1, <1>2, <3>2
      <4>3. QED BY <4>1, <4>2 DEF Unowned
    <3>3. QED BY <3>1, <3>2
  <2>2. QED BY <2>1 DEF Unowned
<1>7. Released(q, h)
  BY <1>2, <1>3 DEF Released
<1>8. ASSUME NEW k \in ResHandles, Released(p, k) PROVE Released(q, k)
  BY <1>2, <1>3, <1>8 DEF Released
<1>9. QED BY <1>3, <1>4, <1>5, <1>6, <1>7, <1>8 DEF q

\* Closing again what is closed does nothing to others.
LEMMA CloseAgain ==
    ASSUME NEW p, Sound(p), NEW h \in ResHandles, Released(p, h)
    PROVE  LET q == vagi_res_close(p, h) IN
           /\ Kept(p, q) /\ Unowned(q) = Unowned(p)
           /\ \A k \in ResHandles : Released(p, k) => Released(q, k)
<1> DEFINE q == vagi_res_close(p, h)
<1>1. p \in PoolType /\ ~ p.res[h].active
  BY DEF Sound, Released, Active
<1>2. /\ q \in PoolType /\ ~ q.res[h].active /\ q.res[h].rh = p.res[h].rh
      /\ \A k \in ResHandles : k # h => q.res[k] = p.res[k]
      /\ \A r \in RomHandles : q.rom[r] <=> (p.rom[r] /\ r # p.res[h].rh)
  BY <1>1, Closing
<1> HIDE DEF q
<1>3. \A r \in RomHandles : q.rom[r] <=> p.rom[r]
  BY <1>2 DEF Released
<1>4. Active(q) = Active(p) /\ \A k \in Active(p) : k # h /\ k \in ResHandles /\ q.res[k] = p.res[k]
  BY <1>1, <1>2 DEF Active
<1>5. Sound(q)
  BY <1>2, <1>3, <1>4 DEF Sound
<1>6. Unowned(q) = Unowned(p)
  BY <1>1, <1>2, <1>3 DEF Unowned
<1>7. ASSUME NEW k \in ResHandles, Released(p, k) PROVE Released(q, k)
  BY <1>2, <1>3, <1>4, <1>7 DEF Released
<1>8. QED BY <1>4, <1>5, <1>6, <1>7 DEF Kept, q

\* Moving within a resource: vagi_res_seek_to and what reads.
LEMMA Seeks ==
    ASSUME NEW p, Sound(p), NEW h \in ResHandles, NEW n \in Nat
    PROVE  LET q == vagi_res_seek_to(p, h, n) IN Kept(p, q) /\ Unowned(q) = Unowned(p)
<1> DEFINE s == [p.res[h] EXCEPT !.offset = n]
           q == [p EXCEPT !.res[h] = s]
<1>1. p \in PoolType
  BY DEF Sound
<1>2. p.res[h] \in ResState
  BY <1>1 DEF PoolType
<1>3. /\ s \in ResState /\ s.active = p.res[h].active /\ s.rh = p.res[h].rh /\ s.of = p.res[h].of
  BY <1>2 DEF ResState
<1>4. vagi_res_seek_to(p, h, n) = q
  BY DEF vagi_res_seek_to
<1> HIDE DEF s
<1>5. /\ q \in PoolType /\ q.rom = p.rom /\ q.res[h] = s
      /\ \A k \in ResHandles : k # h => q.res[k] = p.res[k]
  BY <1>1, <1>3, SetRes
<1> HIDE DEF q
<1>6. /\ \A k \in ResHandles : /\ q.res[k].active = p.res[k].active
                               /\ q.res[k].rh = p.res[k].rh /\ q.res[k].of = p.res[k].of
  BY <1>3, <1>5
<1>7. Active(q) = Active(p) /\ \A k \in Active(p) : k \in ResHandles
  BY <1>6 DEF Active
<1>8. Sound(q)
  BY <1>5, <1>6, <1>7 DEF Sound
<1>9. Unowned(q) = Unowned(p)
  BY <1>5, <1>6 DEF Unowned
<1>10. QED BY <1>4, <1>6, <1>7, <1>8, <1>9 DEF Kept

-----------------------------------------------------------------------------
(* The stack of logics.                                                    *)

LEMMA OwnsKept ==
    ASSUME NEW p, NEW q, Kept(p, q), NEW cs, Owns(p, cs)
    PROVE  Owns(q, cs)
<1>1. Active(q) = Active(p) /\ \A h \in Active(p) : q.res[h].of = p.res[h].of
  BY DEF Kept
<1>2. ASSUME NEW i \in 1 .. Len(cs) PROVE Live(q, cs[i])
  <2>1. Live(p, cs[i])
    BY <1>2 DEF Owns
  <2>2. QED BY <1>1, <2>1 DEF Live
<1>3. QED BY <1>1, <1>2 DEF Owns

\* What a push and a pop do to the stack.
LEMMA Front ==
    ASSUME NEW S, NEW cs \in Seq(S), cs # <<>>
    PROVE  LET f == SubSeq(cs, 1, Len(cs) - 1) IN
           /\ Len(cs) \in Nat \ {0} /\ f \in Seq(S) /\ Len(f) = Len(cs) - 1
           /\ \A i \in 1 .. Len(f) : f[i] = cs[i]
           /\ cs[Len(cs)] \in S
<1> DEFINE n == Len(cs)
           f == SubSeq(cs, 1, n - 1)
<1>1. n \in Nat \ {0}
  BY EmptySeq, LenProperties
<1>2. n - 1 <= n
  BY <1>1
<1>3. \A i \in 1 .. n : cs[i] \in S
  BY ElementOfSeq
<1>4. f \in Seq(S) /\ Len(f) = n - 1 /\ \A i \in 1 .. n - 1 : f[i] = cs[i]
  <2>1. n - 1 \in Int /\ 1 \in Int /\ \A i \in 1 .. n - 1 : cs[i] \in S
    BY <1>1, <1>3
  <2>2. /\ f \in Seq(S) /\ Len(f) = IF 1 <= n - 1 THEN (n - 1) - 1 + 1 ELSE 0
        /\ \A i \in 1 .. (n - 1) - 1 + 1 : f[i] = cs[1 + i - 1]
    BY <2>1, SubSeqProperties
  <2> HIDE DEF n, f
  <2>3. QED BY <1>1, <2>2
<1>5. n \in 1 .. n
  BY <1>1
<1>6. QED BY <1>1, <1>3, <1>4, <1>5

LEMMA Push ==
    ASSUME NEW S, NEW cs \in Seq(S), NEW c \in S
    PROVE  LET d == Append(cs, c) IN
           /\ d \in Seq(S) /\ d # <<>> /\ Len(d) = Len(cs) + 1 /\ Len(cs) \in Nat
           /\ \A i \in 1 .. Len(cs) : d[i] = cs[i]
           /\ d[Len(d)] = c
BY AppendProperties

LEMMA LogicType ==
    ASSUME NEW c \in LOGIC
    PROVE  c.num \in Nums /\ c.res_h \in ResHandles /\ c.msg_res_h \in ResHandles
BY DEF LOGIC

\* code_term while the logic runs: what is left is its callers'.
LEMMA TermLive ==
    ASSUME NEW p, Sound(p), NEW cs \in Seq(LOGIC), cs # <<>>, Owns(p, cs)
    PROVE  LET c == cs[Len(cs)]
               q == vagi_res_close(vagi_res_close(p, c.res_h), c.msg_res_h)
           IN  /\ Sound(q) /\ Owns(q, SubSeq(cs, 1, Len(cs) - 1)) /\ Ended(q, c)
               /\ Unowned(q) = Unowned(p)
<1> DEFINE n == Len(cs)
           c == cs[n]
           f == SubSeq(cs, 1, n - 1)
           o == vagi_res_close(p, c.res_h)
           q == vagi_res_close(o, c.msg_res_h)
<1>1. /\ n \in Nat \ {0} /\ Len(f) = n - 1 /\ \A i \in 1 .. Len(f) : f[i] = cs[i]
      /\ c \in LOGIC
  BY Front
<1>2. Live(p, c) /\ c.res_h \in Active(p) /\ c.msg_res_h \in Active(p) /\ c.res_h # c.msg_res_h
  <2>1. n \in 1 .. n
    BY <1>1
  <2>2. Live(p, c)
    BY <2>1 DEF Owns
  <2>3. QED BY <2>2 DEF Live
<1>3. /\ Sound(o) /\ Active(o) = Active(p) \ {c.res_h} /\ Unowned(o) = Unowned(p)
      /\ \A k \in Active(o) : o.res[k].of = p.res[k].of
      /\ Released(o, c.res_h)
  BY <1>2, CloseOpen
<1>4. c.res_h \in ResHandles /\ c.msg_res_h \in Active(o)
  BY <1>2, <1>3 DEF Active
<1> HIDE DEF c, f, o
<1>5. /\ Sound(q) /\ Active(q) = Active(o) \ {c.msg_res_h} /\ Unowned(q) = Unowned(o)
      /\ \A k \in Active(q) : q.res[k].of = o.res[k].of
      /\ Released(q, c.msg_res_h) /\ Released(q, c.res_h)
  BY <1>3, <1>4, CloseOpen
<1> HIDE DEF q
<1>6. Ended(q, c)
  BY <1>5 DEF Ended, Both
<1>7. Active(q) = Active(p) \ Both(c) /\ \A k \in Active(q) : q.res[k].of = p.res[k].of
  BY <1>3, <1>5 DEF Both
<1>8. ASSUME NEW i \in 1 .. Len(f)
      PROVE  i \in 1 .. n /\ i # n /\ f[i] = cs[i] /\ Both(cs[i]) \cap Both(c) = {}
  <2>1. i \in 1 .. n /\ n \in 1 .. n /\ i # n
    BY <1>1
  <2>2. Both(cs[i]) \cap Both(cs[n]) = {}
    BY <2>1 DEF Owns
  <2>3. QED BY <1>1, <2>1, <2>2 DEF c
<1>9. ASSUME NEW i \in 1 .. Len(f) PROVE Live(q, f[i])
  <2>1. Live(p, cs[i]) /\ Both(cs[i]) \cap Both(c) = {} /\ f[i] = cs[i]
    BY <1>8 DEF Owns
  <2>2. QED BY <1>7, <2>1 DEF Live, Both
<1>10. \A i, j \in 1 .. Len(f) : i # j => Both(f[i]) \cap Both(f[j]) = {}
  BY <1>8 DEF Owns
<1>11. ASSUME NEW h \in Active(q) PROVE \E i \in 1 .. Len(f) : h \in Both(f[i])
  <2>1. PICK i \in 1 .. n : h \in Both(cs[i])
    BY <1>7 DEF Owns
  <2>2. i # n
    BY <1>7, <2>1 DEF c
  <2>3. i \in 1 .. Len(f)
    BY <1>1, <2>2
  <2>4. QED BY <1>8, <2>1, <2>3
<1>12. Owns(q, f)
  BY <1>9, <1>10, <1>11 DEF Owns
<1>13. QED BY <1>3, <1>5, <1>6, <1>12 DEF c, f, o, q

\* code_term in CallLogic, after the logic has ended itself.
LEMMA TermEnded ==
    ASSUME NEW p, Sound(p), NEW c \in LOGIC, Ended(p, c)
    PROVE  LET q == vagi_res_close(vagi_res_close(p, c.res_h), c.msg_res_h)
           IN  Kept(p, q) /\ Ended(q, c) /\ Unowned(q) = Unowned(p)
<1> DEFINE o == vagi_res_close(p, c.res_h)
           q == vagi_res_close(o, c.msg_res_h)
<1>1. c.res_h \in ResHandles /\ c.msg_res_h \in ResHandles
  BY LogicType
<1>2. Released(p, c.res_h) /\ Released(p, c.msg_res_h)
  BY DEF Ended, Both
<1>3. Kept(p, o) /\ Unowned(o) = Unowned(p) /\ Released(o, c.res_h) /\ Released(o, c.msg_res_h)
  BY <1>1, <1>2, CloseAgain
<1> HIDE DEF o
<1>4. Sound(o)
  BY <1>3 DEF Kept
<1>5. Kept(o, q) /\ Unowned(q) = Unowned(o) /\ Released(q, c.res_h) /\ Released(q, c.msg_res_h)
  BY <1>1, <1>3, <1>4, CloseAgain
<1> HIDE DEF q
<1>6. Kept(p, q)
  BY <1>3, <1>5, KeptTwice
<1>7. QED BY <1>3, <1>5, <1>6 DEF o, q, Ended, Both

\* CallLogic opens both handles: they are the new logic's.
LEMMA OwnsMore ==
    ASSUME NEW p, NEW cs \in Seq(LOGIC), Owns(p, cs), NEW n \in Nums,
           NEW o, NEW m, Got(p, o, <<"LOG", n>>), Got(o.pool, m, <<"LOG", n>>)
    PROVE  LET c == [num |-> n, res_h |-> o.h, msg_res_h |-> m.h] IN
           c \in LOGIC /\ Owns(m.pool, Append(cs, c))
<1> DEFINE c == [num |-> n, res_h |-> o.h, msg_res_h |-> m.h]
           q == m.pool
           d == Append(cs, c)
<1>1. /\ o.h \in ResHandles \ Active(p) /\ Active(o.pool) = Active(p) \cup {o.h}
      /\ o.pool.res[o.h].of = <<"LOG", n>> /\ \A h \in Active(p) : o.pool.res[h].of = p.res[h].of
  BY DEF Got
<1>2. /\ m.h \in ResHandles \ Active(o.pool) /\ Active(q) = Active(o.pool) \cup {m.h}
      /\ q.res[m.h].of = <<"LOG", n>> /\ \A h \in Active(o.pool) : q.res[h].of = o.pool.res[h].of
  BY DEF Got
<1>3. c \in LOGIC /\ c.num = n /\ c.res_h = o.h /\ c.msg_res_h = m.h
  BY <1>1, <1>2 DEF LOGIC
<1> HIDE DEF c, q
<1>4. /\ Len(d) = Len(cs) + 1 /\ Len(cs) \in Nat /\ d[Len(d)] = c
      /\ \A i \in 1 .. Len(cs) : d[i] = cs[i]
  BY <1>3, Push
<1> HIDE DEF d
<1>5. /\ Active(q) = Active(p) \cup Both(c) /\ Both(c) \cap Active(p) = {}
      /\ \A h \in Active(p) : q.res[h].of = p.res[h].of
  BY <1>1, <1>2, <1>3 DEF Both
<1>6. Live(q, c)
  BY <1>1, <1>2, <1>3 DEF Live
<1>7. ASSUME NEW i \in 1 .. Len(cs) PROVE Live(q, cs[i]) /\ Both(cs[i]) \subseteq Active(p)
  <2>1. Live(p, cs[i])
    BY <1>7 DEF Owns
  <2>2. QED BY <1>5, <2>1 DEF Live, Both
<1>8. \A i \in 1 .. Len(d) : (i \in 1 .. Len(cs) /\ d[i] = cs[i]) \/ (i = Len(d) /\ d[i] = c)
  BY <1>4
<1>9. \A i \in 1 .. Len(d) : Live(q, d[i])
  BY <1>6, <1>7, <1>8
<1>10. ASSUME NEW i \in 1 .. Len(d), NEW j \in 1 .. Len(d), i # j
       PROVE  Both(d[i]) \cap Both(d[j]) = {}
  <2>1. CASE i \in 1 .. Len(cs) /\ j \in 1 .. Len(cs)
    BY <1>4, <1>10, <2>1 DEF Owns
  <2>2. CASE i \in 1 .. Len(cs) /\ j = Len(d)
    BY <1>4, <1>5, <1>7, <2>2
  <2>3. CASE j \in 1 .. Len(cs) /\ i = Len(d)
    BY <1>4, <1>5, <1>7, <2>3
  <2>4. QED BY <1>8, <1>10, <2>1, <2>2, <2>3
<1>11. ASSUME NEW h \in Active(q) PROVE \E i \in 1 .. Len(d) : h \in Both(d[i])
  <2>1. CASE h \in Both(c)
    BY <1>4, <2>1
  <2>2. CASE h \in Active(p)
    <3>1. PICK i \in 1 .. Len(cs) : h \in Both(cs[i])
      BY <2>2 DEF Owns
    <3>2. i \in 1 .. Len(d) /\ d[i] = cs[i]
      BY <1>4
    <3>3. QED BY <3>1, <3>2
  <2>3. QED BY <1>5, <2>1, <2>2
<1>12. QED BY <1>3, <1>9, <1>10, <1>11 DEF Owns, c, q, d

-----------------------------------------------------------------------------
(* When an opening fails.                                                  *)

\* A refused opening loses at most one ROM file.
LEMMA RefusedCount ==
    ASSUME NEW p, NEW o, Refused(p, o)
    PROVE  /\ Loses(o) \in {0, 1}
           /\ Cardinality(Unowned(o.pool)) = Cardinality(Unowned(p)) + Loses(o)
<1>1. IsFiniteSet(Unowned(p)) /\ Cardinality(Unowned(p)) \in Nat
  BY Counted
<1>2. CASE Loses(o) = 0 /\ Unowned(o.pool) = Unowned(p)
  BY <1>1, <1>2
<1>3. CASE /\ Loses(o) = 1
           /\ \E r \in RomHandles \ Unowned(p) : Unowned(o.pool) = Unowned(p) \cup {r}
  <2>1. PICK r \in RomHandles \ Unowned(p) : Unowned(o.pool) = Unowned(p) \cup {r}
    BY <1>3
  <2>2. Cardinality(Unowned(p) \cup {r}) = Cardinality(Unowned(p)) + 1
    BY <1>1, FS_AddElement
  <2>3. QED BY <1>3, <2>1, <2>2
<1>4. QED BY <1>2, <1>3 DEF Refused

\* Each logic on the stack has two resources open, and nobody else has any.
LEMMA ActiveFew ==
    ASSUME NEW p, NEW cs \in Seq(LOGIC), Owns(p, cs)
    PROVE  /\ IsFiniteSet(Active(p)) /\ Cardinality(Active(p)) \in Nat
           /\ Cardinality(Active(p)) <= 2 * Len(cs)
<1> DEFINE n == Len(cs)
           S == 1 .. 2 * n
           f == [i \in S |-> IF i <= n THEN cs[i].res_h ELSE cs[i - n].msg_res_h]
<1>1. n \in Nat
  BY LenProperties
<1>2. IsFiniteSet(S) /\ Cardinality(S) = 2 * n
  <2> DEFINE m == 2 * n
  <2>1. m \in Nat
    BY <1>1
  <2> HIDE DEF m
  <2>2. IsFiniteSet(1 .. m) /\ Cardinality(1 .. m) = IF 1 > m THEN 0 ELSE m - 1 + 1
    BY <2>1, FS_Interval
  <2>3. Cardinality(1 .. m) = m
    BY <2>1, <2>2
  <2>4. QED BY <2>2, <2>3 DEF m
<1>3. ASSUME NEW i \in 1 .. n PROVE cs[i].res_h \in Active(p) /\ cs[i].msg_res_h \in Active(p)
  BY <1>3 DEF Owns, Live
<1>4. ASSUME NEW i \in S PROVE f[i] \in Active(p)
  <2>1. CASE i <= n
    BY <1>1, <1>3, <2>1
  <2>2. CASE ~ i <= n
    <3>1. i - n \in 1 .. n
      BY <1>1, <2>2
    <3>2. QED BY <1>3, <2>2, <3>1
  <2>3. QED BY <2>1, <2>2
<1>5. ASSUME NEW h \in Active(p) PROVE \E i \in S : f[i] = h
  <2>1. PICK i \in 1 .. n : h \in {cs[i].res_h, cs[i].msg_res_h}
    BY DEF Owns, Both
  <2>2. i \in S /\ i + n \in S /\ i <= n /\ ~ (i + n <= n) /\ (i + n) - n = i
    BY <1>1
  <2>3. f[i] = cs[i].res_h /\ f[i + n] = cs[i].msg_res_h
    BY <2>2
  <2>4. QED BY <2>1, <2>2, <2>3
<1>6. f \in [S -> Active(p)]
  BY <1>4
<1>7. f \in Surjection(S, Active(p))
  BY <1>5, <1>6 DEF Surjection
<1>8. IsFiniteSet(Active(p)) /\ Cardinality(Active(p)) <= Cardinality(S)
  BY <1>2, <1>7, FS_Surjection
<1>9. QED BY <1>2, <1>8, FS_CardinalityType

\* No element is free: the open resources are all there can be.
LEMMA NoneFree ==
    ASSUME NEW p, FreeRes(p) = {}
    PROVE  Cardinality(Active(p)) = VAGI_RES_MAX_HANDLES
<1>1. Active(p) = 0 .. VAGI_RES_MAX_HANDLES - 1
  BY DEF FreeRes, Active, ResHandles
<1>2. VAGI_RES_MAX_HANDLES \in Nat \ {0}
  BY PoolAssumption
<1>3. Cardinality(0 .. VAGI_RES_MAX_HANDLES - 1) = VAGI_RES_MAX_HANDLES
  BY <1>2, FS_Interval
<1>4. QED BY <1>1, <1>3

\* No ROM handle is free: each is lost or belongs to an open resource.
LEMMA NoRomFree ==
    ASSUME NEW p, Sound(p), FreeRom(p) = {}, IsFiniteSet(Active(p))
    PROVE  ROMFS_MAX_HANDLES <= Cardinality(Unowned(p)) + Cardinality(Active(p))
<1> DEFINE f == [h \in Active(p) |-> p.res[h].rh]
           T == {r \in RomHandles : \E h \in Active(p) : p.res[h].rh = r}
<1>1. \A h \in Active(p) : p.res[h].rh \in RomHandles
  BY DEF Sound
<1>2. f \in Surjection(Active(p), T)
  BY <1>1 DEF Surjection
<1>3. IsFiniteSet(T) /\ Cardinality(T) <= Cardinality(Active(p))
  BY <1>2, FS_Surjection
<1> HIDE DEF f
<1>4. RomHandles = Unowned(p) \cup T
  BY DEF FreeRom, Unowned, Active
<1> HIDE DEF T
<1>5. IsFiniteSet(Unowned(p)) /\ Cardinality(RomHandles) = ROMFS_MAX_HANDLES
  BY Counted
<1>6. Cardinality(RomHandles) = Cardinality(Unowned(p)) + Cardinality(T) - Cardinality(Unowned(p) \cap T)
  BY <1>3, <1>4, <1>5, FS_Union
<1>7. IsFiniteSet(Unowned(p) \cap T)
  BY <1>5, FS_Subset
<1>8. /\ Cardinality(Unowned(p) \cap T) \in Nat /\ Cardinality(T) \in Nat
      /\ Cardinality(Unowned(p)) \in Nat /\ Cardinality(Active(p)) \in Nat
  BY <1>3, <1>5, <1>7, FS_CardinalityType
<1>9. QED BY <1>3, <1>5, <1>6, <1>8

\* The opening of a resource that is there fails only near the end of a pool.
LEMMA RefusedAtTheLimit ==
    ASSUME NEW p, Sound(p), IsFiniteSet(Active(p)), NEW w \in Kinds \X Nat,
           NEW n \in Nat, Cardinality(Active(p)) <= n,
           vagi_res_open(p, "ok", w).h < 0
    PROVE  \/ n >= VAGI_RES_MAX_HANDLES
           \/ n + Cardinality(Unowned(p)) >= ROMFS_MAX_HANDLES
<1> DEFINE o == vagi_res_open(p, "ok", w)
<1>1. "ok" \in Entries
  BY DEF Entries
<1>2. /\ Refused(p, o) \/ Got(p, o, w)
      /\ Refused(p, o) => FreeRes(p) = {} \/ FreeRom(p) = {}
  BY <1>1, Opens
<1>3. ~ Got(p, o, w)
  BY PoolAssumption DEF Got, ResHandles
<1> HIDE DEF o
<1>4. Cardinality(Active(p)) \in Nat /\ Cardinality(Unowned(p)) \in Nat
  BY FS_CardinalityType, Counted
<1>5. CASE FreeRes(p) = {}
  BY <1>4, <1>5, NoneFree
<1>6. CASE FreeRom(p) = {}
  <2>1. ROMFS_MAX_HANDLES <= Cardinality(Unowned(p)) + Cardinality(Active(p))
    BY <1>6, NoRomFree
  <2>2. QED BY <1>4, <2>1, PoolAssumption
<1>7. QED BY <1>2, <1>3, <1>5, <1>6

\* A view or a picture: opened, used and closed at once.
LEMMA OpenClose ==
    ASSUME NEW p, Sound(p), NEW e \in Entries, NEW w \in Kinds \X Nat
    PROVE  LET o == vagi_res_open(p, e, w)
               q == IF o.h < 0 THEN o.pool ELSE vagi_res_close(o.pool, o.h)
           IN  /\ Kept(p, q) /\ Loses(o) \in {0, 1} /\ (o.h >= 0 => Loses(o) = 0)
               /\ Cardinality(Unowned(q)) = Cardinality(Unowned(p)) + Loses(o)
<1> DEFINE o == vagi_res_open(p, e, w)
           q == IF o.h < 0 THEN o.pool ELSE vagi_res_close(o.pool, o.h)
<1>1. Refused(p, o) \/ Got(p, o, w)
  BY Opens
<1> HIDE DEF o
<1>2. CASE Refused(p, o)
  <2>1. o.h < 0 /\ q = o.pool /\ Kept(p, q)
    BY <1>2 DEF Refused
  <2>2. o.h \in {ROMFS_ERROR_EOF} => ~ (o.h >= 0)
    BY DEF ROMFS_ERROR_EOF
  <2>3. o.h >= 0 => Loses(o) = 0
    BY <2>2 DEF Loses
  <2>4. QED BY <1>2, <2>1, <2>3, RefusedCount DEF o
<1>3. CASE Got(p, o, w)
  <2>1. /\ o.h \in ResHandles \ Active(p) /\ Sound(o.pool)
        /\ Active(o.pool) = Active(p) \cup {o.h}
        /\ \A h \in Active(p) : o.pool.res[h].of = p.res[h].of
        /\ Unowned(o.pool) = Unowned(p) /\ Loses(o) = 0
    BY <1>3 DEF Got
  <2>2. q = vagi_res_close(o.pool, o.h) /\ o.h \in Active(o.pool)
    BY <2>1, PoolAssumption DEF ResHandles
  <2> HIDE DEF q
  <2>3. /\ Sound(q) /\ Active(q) = Active(o.pool) \ {o.h} /\ Unowned(q) = Unowned(o.pool)
        /\ \A k \in Active(q) : q.res[k].of = o.pool.res[k].of
    BY <2>1, <2>2, CloseOpen
  <2>4. Kept(p, q)
    BY <2>1, <2>3 DEF Kept
  <2>5. Cardinality(Unowned(p)) \in Nat
    BY Counted
  <2>6. QED BY <2>1, <2>3, <2>4, <2>5 DEF o, q
<1>4. QED BY <1>1, <1>2, <1>3

-----------------------------------------------------------------------------
(* The invariant in two halves, and what a step has to show.               *)

Rest ==
    /\ logScan \in [Nums -> Nat] /\ \A n \in Nums : logScan[n] < CodeEnd[n]
    /\ timeout \in 0 .. Timeout
    /\ newRoom \in BOOLEAN /\ viewLoaded \in BOOLEAN /\ QUIT_FLAG \in BOOLEAN

Core ==
    /\ phase \in Phases /\ pool \in PoolType /\ ret \in {0, 1}
    /\ calls \in Seq(LOGIC) /\ lost \in 0 .. ROMFS_MAX_HANDLES /\ wild \in BOOLEAN
    /\ Phased /\ WildOnlyAtTheLimit
    /\ ~ wild => /\ Sound(pool) /\ (StackLive \/ StackEnded)
                 /\ Cardinality(Unowned(pool)) = lost

LEMMA Halves == IInv <=> Core /\ Rest
BY DEF IInv, TypeOK, Core, Rest

LEMMA HalvesNext == Core' /\ Rest' => IInv'
BY DEF IInv, TypeOK, Core, Rest

\* A step that writes nowhere it should not.
LEMMA Steady ==
    ASSUME ~ wild', wild' \in BOOLEAN, phase' \in Phases, ret' \in {0, 1}, calls' \in Seq(LOGIC),
           Phased', Sound(pool'), Cardinality(Unowned(pool')) = lost', (StackLive \/ StackEnded)'
    PROVE  Core'
<1>1. pool' \in PoolType
  BY DEF Sound
<1>2. lost' \in 0 .. ROMFS_MAX_HANDLES
  BY Counted
<1>3. WildOnlyAtTheLimit'
  BY DEF WildOnlyAtTheLimit
<1>4. Sound(pool)' /\ (Cardinality(Unowned(pool)) = lost)'
  OBVIOUS
<1>5. QED BY <1>1, <1>2, <1>3, <1>4 DEF Core

\* The running logic holds both of its handles.
LEMMA RunningLive ==
    ASSUME IInv, ~ wild, Running
    PROVE  /\ calls # <<>> /\ calls \in Seq(LOGIC) /\ curLog \in LOGIC /\ phase = "run"
           /\ Sound(pool) /\ Owns(pool, calls)
           /\ Here \in Nat /\ CodeEnd[curLog.num] \in Nat /\ Here < CodeEnd[curLog.num]
           /\ Kept(pool, Fetched) /\ Unowned(Fetched) = Unowned(pool)
           /\ Sound(Fetched) /\ Owns(Fetched, calls)
           /\ Cardinality(Unowned(Fetched)) = lost
<1>1. phase = "run" /\ calls # <<>> /\ calls \in Seq(LOGIC) /\ Sound(pool) /\ Cardinality(Unowned(pool)) = lost
  BY DEF IInv, Phased, TypeOK, Running
<1>2. curLog \in LOGIC
  BY <1>1, Front DEF curLog
<1>3. curLog.num \in Nums /\ curLog.res_h \in ResHandles /\ curLog.msg_res_h \in ResHandles
  BY <1>2, LogicType
<1>4. pool.res[curLog.res_h].active /\ ~ pool.res[curLog.res_h].offset >= CodeEnd[curLog.num]
  BY DEF Running, AtEnd
<1>5. ~ StackEnded
  BY <1>3, <1>4 DEF StackEnded, Ended, Both, Released, Active
<1>6. Owns(pool, calls)
  BY <1>5 DEF IInv, StackLive
<1>7. Here \in Nat
  <2>1. pool \in PoolType
    BY <1>1 DEF Sound
  <2>2. QED BY <1>3, <2>1 DEF PoolType, ResState, Here
<1>8. CodeEnd[curLog.num] \in Nat
  BY <1>3, LogicAssumption
<1>9. Here < CodeEnd[curLog.num]
  BY <1>4, <1>7, <1>8 DEF Here
<1>10. Kept(pool, Fetched) /\ Unowned(Fetched) = Unowned(pool)
  BY <1>1, <1>3, <1>7, Seeks DEF Fetched
<1>11. Sound(Fetched) /\ Owns(Fetched, calls)
  BY <1>6, <1>10, OwnsKept DEF Kept
<1>12. QED BY <1>1, <1>2, <1>6, <1>7, <1>8, <1>9, <1>10, <1>11

LEMMA Goes ==
    ASSUME IInv, NEW b, GoOn(b)
    PROVE  phase' \in {"run", "done"} /\ phase' \in Phases /\ ret' \in {0, 1}
BY DEF GoOn, IInv, TypeOK, Phases

\* A command after which the logic still holds its handles.
LEMMA RunKept ==
    ASSUME IInv, ~ wild, Running, Kept(pool, pool'), Cardinality(Unowned(pool')) = lost',
           UNCHANGED <<calls, wild>>, NEW b, GoOn(b)
    PROVE  Core'
<1>1. Owns(pool, calls) /\ calls # <<>> /\ calls \in Seq(LOGIC)
  BY RunningLive
<1>2. Owns(pool', calls)
  BY <1>1, OwnsKept
<1>3. StackLive'
  BY <1>2 DEF StackLive, Owns
<1>4. phase' \in {"run", "done"} /\ phase' \in Phases /\ ret' \in {0, 1}
  BY Goes
<1>5. Phased'
  BY <1>1, <1>4 DEF Phased
<1>6. Sound(pool')
  BY DEF Kept
<1>7. wild' \in BOOLEAN
  BY DEF IInv, TypeOK
<1>8. QED BY <1>1, <1>3, <1>4, <1>5, <1>6, <1>7, Steady

\* A command or a call that ends the logic: its handles are closed on the spot.
LEMMA SelfEnded ==
    ASSUME IInv, ~ wild, NEW p, Sound(p), calls # <<>>, Owns(p, calls),
           Cardinality(Unowned(p)) = lost,
           pool' = code_term(p), phase' \in {"run", "done"}, ret' \in {0, 1},
           UNCHANGED <<calls, wild, lost>>
    PROVE  Core'
<1>1. calls \in Seq(LOGIC) /\ wild \in BOOLEAN
  BY DEF IInv, TypeOK
<1>2. /\ Sound(pool') /\ Owns(pool', Callers) /\ Ended(pool', curLog)
      /\ Unowned(pool') = Unowned(p)
  BY <1>1, TermLive DEF code_term, curLog, Callers
<1>3. Callers' = Callers /\ curLog' = curLog
  BY DEF Callers, curLog
<1>4. StackEnded'
  BY <1>2, <1>3 DEF StackEnded, Owns, Ended
<1>5. Phased' /\ phase' \in Phases
  BY DEF Phased, Phases
<1>6. QED BY <1>1, <1>2, <1>4, <1>5, Steady

\* CallLogic: refused, near the end of a pool, or a logic more on the stack.
LEMMA Calling ==
    ASSUME IInv, ~ wild, NEW num \in Nums, NEW p, Sound(p), Owns(p, calls),
           Cardinality(Unowned(p)) = lost, CallLogic(num, p)
    PROVE  Core'
<1> DEFINE w    == <<"LOG", num>>
           code == Open("LOG", num, p)
           msgs == Open("LOG", num, code.pool)
           c    == [num |-> num, res_h |-> code.h, msg_res_h |-> msgs.h]
           n    == Len(calls)
<1>1. /\ calls \in Seq(LOGIC) /\ ret \in {0, 1} /\ wild \in BOOLEAN /\ phase \in Phases
      /\ n \in Nat /\ Phased /\ lost \in 0 .. ROMFS_MAX_HANDLES
  BY LenProperties DEF IInv, TypeOK
<1>2. Entry["LOG"][num] \in Entries /\ w \in Kinds \X Nat
  BY LogicAssumption DEF Kinds
<1>3. /\ Refused(p, code) \/ (Got(p, code, w) /\ Entry["LOG"][num] = "ok")
  BY <1>2, Opens DEF Open
<1> HIDE DEF code, msgs, c
<1>4. code.h < 0 => Refused(p, code)
  BY <1>3, PoolAssumption DEF Got, ResHandles
<1>5. code.h >= 0 => Got(p, code, w) /\ Entry["LOG"][num] = "ok"
  BY <1>3 DEF Refused
<1>6. Got(p, code, w) =>
          /\ Refused(code.pool, msgs) \/ Got(code.pool, msgs, w)
          /\ msgs.h < 0 => Refused(code.pool, msgs)
          /\ msgs.h >= 0 => Got(code.pool, msgs, w)
  <2> SUFFICES ASSUME Got(p, code, w)
               PROVE  /\ Refused(code.pool, msgs) \/ Got(code.pool, msgs, w)
                      /\ msgs.h < 0 => Refused(code.pool, msgs)
                      /\ msgs.h >= 0 => Got(code.pool, msgs, w)
    OBVIOUS
  <2>1. Sound(code.pool)
    BY DEF Got
  <2>2. Refused(code.pool, msgs) \/ Got(code.pool, msgs, w)
    BY <1>2, <2>1, Opens DEF Open, msgs
  <2>3. QED BY <2>2, PoolAssumption DEF Got, Refused, ResHandles
<1>7. CASE /\ code.h < 0
           /\ phase' = "back" /\ ret' = 0 /\ pool' = code.pool
           /\ lost' = lost + Loses(code)
           /\ UNCHANGED <<calls, wild>>
  <2>1. Refused(p, code)
    BY <1>4, <1>7
  <2>2. Kept(p, pool') /\ Cardinality(Unowned(pool')) = lost'
    BY <1>7, <2>1, RefusedCount DEF Refused
  <2>3. Owns(pool', calls) /\ Sound(pool')
    BY <2>2, OwnsKept DEF Kept
  <2>4. StackLive'
    BY <1>7, <2>3 DEF StackLive, Owns
  <2>5. Phased' /\ phase' \in Phases
    BY <1>7 DEF Phased, Phases
  <2>6. QED BY <1>1, <1>7, <2>2, <2>3, <2>4, <2>5, Steady
<1>8. CASE /\ code.h >= 0 /\ msgs.h < 0
           /\ wild' = TRUE /\ pool' = msgs.pool
           /\ UNCHANGED <<phase, ret, calls, lost>>
  <2>1. Got(p, code, w) /\ Entry["LOG"][num] = "ok"
    BY <1>5, <1>8
  <2>2. Refused(code.pool, msgs)
    BY <1>6, <1>8, <2>1
  <2>3. msgs = vagi_res_open(code.pool, "ok", w)
    BY <2>1 DEF Open, msgs
  <2> HIDE DEF n
  <2>4. /\ Sound(code.pool) /\ Active(code.pool) = Active(p) \cup {code.h}
        /\ Unowned(code.pool) = Unowned(p)
    BY <2>1 DEF Got
  <2>5. /\ IsFiniteSet(Active(p)) /\ Cardinality(Active(p)) \in Nat
        /\ Cardinality(Active(p)) <= 2 * n
    BY <1>1, ActiveFew DEF n
  <2>6. /\ IsFiniteSet(Active(code.pool))
        /\ Cardinality(Active(code.pool)) <= 2 * n + 1
    <3>1. /\ IsFiniteSet(Active(code.pool))
          /\ \/ Cardinality(Active(code.pool)) = Cardinality(Active(p)) + 1
             \/ Cardinality(Active(code.pool)) = Cardinality(Active(p))
      BY <2>4, <2>5, FS_AddElement
    <3>2. QED BY <1>1, <2>5, <3>1
  <2>7. 2 * n + 1 \in Nat
    BY <1>1
  <2>8. \/ 2 * n + 1 >= VAGI_RES_MAX_HANDLES
        \/ 2 * n + 1 + lost >= ROMFS_MAX_HANDLES
    BY <1>2, <1>8, <2>3, <2>4, <2>6, <2>7, RefusedAtTheLimit
  <2>9. \/ 2 * n >= VAGI_RES_MAX_HANDLES - 1
        \/ 2 * n + lost >= ROMFS_MAX_HANDLES - 1
    BY <1>1, <2>8, PoolAssumption
  <2>10. WildOnlyAtTheLimit'
    BY <1>8, <2>9 DEF WildOnlyAtTheLimit, n
  <2>11. pool' \in PoolType
    BY <1>8, <2>2 DEF Refused, Kept, Sound
  <2>12. Phased'
    BY <1>1, <1>8 DEF Phased
  <2>13. QED BY <1>1, <1>8, <2>10, <2>11, <2>12 DEF Core
<1>9. CASE /\ code.h >= 0 /\ msgs.h >= 0
           /\ phase' = "run" /\ calls' = Append(calls, c)
           /\ pool' = vagi_res_seek_to(msgs.pool, code.h, ofs_code + logScan[num])
           /\ UNCHANGED <<ret, wild, lost>>
  <2>1. Got(p, code, w) /\ Got(code.pool, msgs, w)
    BY <1>5, <1>6, <1>9
  <2>2. ofs_code + logScan[num] \in Nat
    BY DEF ofs_code, IInv, TypeOK
  <2>3. c \in LOGIC /\ Owns(msgs.pool, Append(calls, c))
    BY <1>1, <2>1, OwnsMore DEF c
  <2>4. Sound(msgs.pool) /\ code.h \in ResHandles /\ Unowned(msgs.pool) = Unowned(p)
    BY <2>1 DEF Got
  <2>5. Kept(msgs.pool, pool') /\ Unowned(pool') = Unowned(msgs.pool)
    BY <1>9, <2>2, <2>4, Seeks
  <2> HIDE DEF c
  <2>6. calls' \in Seq(LOGIC) /\ calls' # <<>>
    BY <1>1, <1>9, <2>3, Push
  <2>7. Owns(pool', calls') /\ Sound(pool')
    BY <1>9, <2>3, <2>5, OwnsKept DEF Kept
  <2>8. StackLive'
    BY <2>7 DEF StackLive, Owns
  <2>9. Phased' /\ phase' \in Phases
    BY <1>9, <2>6 DEF Phased, Phases
  <2>10. QED BY <1>1, <1>9, <2>4, <2>5, <2>6, <2>7, <2>8, <2>9, Steady
<1>10. QED BY <1>7, <1>8, <1>9 DEF CallLogic, code, msgs, c

-----------------------------------------------------------------------------
(* The actions, one lemma each where more than one half is at stake.       *)

\* Between two rounds nothing is on the stack, and so nothing is open.
LEMMA Framed ==
    ASSUME IInv, ~ wild, phase \notin {"run", "done"}
    PROVE  Sound(pool) /\ Owns(pool, calls) /\ Cardinality(Unowned(pool)) = lost
BY DEF IInv, StackLive, StackEnded

LEMMA ZeroNum == 0 \in Nums
BY LogicAssumption

LEMMA VagiLoopStep == ASSUME IInv, ~ wild, VagiLoop PROVE IInv'
<1>1. Core'
  BY Framed, Calling, ZeroNum DEF VagiLoop
<1>2. Rest'
  <2>1. Rest
    BY Halves
  <2>2. timeout' = Timeout /\ newRoom' = FALSE /\ UNCHANGED <<logScan, viewLoaded, QUIT_FLAG>>
    BY DEF VagiLoop
  <2>3. timeout' \in 0 .. Timeout
    BY <2>2, LogicAssumption
  <2>4. QED BY <2>1, <2>2, <2>3 DEF Rest
<1>3. QED BY <1>1, <1>2, HalvesNext

LEMMA NextRoundStep == ASSUME IInv, ~ wild, NextRound PROVE IInv'
<1>1. Core'
  BY Framed, Calling, ZeroNum DEF NextRound
<1>2. Rest'
  BY Halves, LogicAssumption DEF Rest, NextRound
<1>3. QED BY <1>1, <1>2, HalvesNext

LEMMA LogicDoneStep == ASSUME IInv, ~ wild, LogicDone PROVE IInv'
<1>1. phase = "back" /\ phase' = "draw" /\ calls = <<>> /\ UNCHANGED <<pool, calls, ret, wild, lost>>
  BY DEF LogicDone
<1>2. Sound(pool) /\ Owns(pool, calls) /\ Cardinality(Unowned(pool)) = lost
  BY <1>1, Framed
<1>3. StackLive'
  BY <1>1, <1>2 DEF StackLive, Owns
<1>4. Phased' /\ phase' \in Phases
  BY <1>1 DEF Phased, Phases
<1>5. wild' \in BOOLEAN /\ ret' \in {0, 1} /\ calls' \in Seq(LOGIC)
  BY <1>1 DEF IInv, TypeOK
<1>6. Core'
  BY <1>1, <1>2, <1>3, <1>4, <1>5, Steady
<1>7. Rest'
  <2>1. Rest
    BY Halves
  <2>2. timeout' \in 0 .. Timeout
    BY <2>1, LogicAssumption DEF Rest, LogicDone
  <2>3. UNCHANGED <<logScan, newRoom, viewLoaded, QUIT_FLAG>>
    BY DEF LogicDone
  <2>4. QED BY <2>1, <2>2, <2>3 DEF Rest
<1>8. QED BY <1>6, <1>7, HalvesNext

LEMMA UpdateVObjStep == ASSUME IInv, ~ wild, UpdateVObj PROVE IInv'
<1> DEFINE w == <<"VIEW", 0>>
           o == vagi_res_open(pool, "ok", w)
<1>1. /\ phase = "draw"
      /\ UNCHANGED <<calls, ret, logScan, newRoom, timeout, viewLoaded, QUIT_FLAG, lost>>
      /\ \/ o.h < 0 /\ wild' = TRUE /\ UNCHANGED <<pool, phase>>
         \/ /\ pool' = pool \/ (o.h >= 0 /\ pool' = vagi_res_close(o.pool, o.h))
            /\ phase' \in {"stopped", "idle"} /\ wild' = wild
  <2>1. w \in Kinds \X Nat /\ "ok" \in Entries /\ Sound(pool)
    BY Framed DEF Kinds, Entries, UpdateVObj
  <2>2. o.h \in Int
    BY <2>1, Opens, PoolAssumption DEF Refused, Got, ResHandles
  <2> HIDE DEF o
  <2>3. QED BY <2>2 DEF UpdateVObj, o
<1>2. calls = <<>> /\ Len(calls) = 0
  BY <1>1, EmptySeq DEF IInv, Phased
<1>3. Sound(pool) /\ Owns(pool, calls) /\ Cardinality(Unowned(pool)) = lost
  BY <1>1, Framed
<1>4. w \in Kinds \X Nat /\ "ok" \in Entries
  BY DEF Kinds, Entries
<1>5. /\ calls \in Seq(LOGIC) /\ ret \in {0, 1} /\ wild \in BOOLEAN /\ phase \in Phases
      /\ lost \in 0 .. ROMFS_MAX_HANDLES /\ pool \in PoolType
  BY DEF IInv, TypeOK
<1>6. CASE o.h < 0 /\ wild' = TRUE /\ UNCHANGED <<pool, phase>>
  <2>1. IsFiniteSet(Active(pool)) /\ Cardinality(Active(pool)) <= 0
    <3>1. IsFiniteSet(Active(pool)) /\ Cardinality(Active(pool)) <= 2 * Len(calls)
      BY <1>3, <1>5, ActiveFew
    <3>2. QED BY <1>2, <3>1
  <2>2. 0 >= VAGI_RES_MAX_HANDLES \/ 0 + Cardinality(Unowned(pool)) >= ROMFS_MAX_HANDLES
    BY <1>3, <1>4, <1>6, <2>1, RefusedAtTheLimit
  <2>3. \/ 2 * Len(calls) >= VAGI_RES_MAX_HANDLES - 1
        \/ 2 * Len(calls) + lost >= ROMFS_MAX_HANDLES - 1
    BY <1>2, <1>3, <1>5, <2>2, PoolAssumption
  <2>4. WildOnlyAtTheLimit'
    BY <1>1, <2>3 DEF WildOnlyAtTheLimit
  <2>5. Phased'
    BY <1>1, <1>2, <1>6 DEF Phased
  <2>6. QED
    <3>1. Core'
      BY <1>1, <1>5, <1>6, <2>4, <2>5 DEF Core
    <3>2. Rest'
      BY <1>1, Halves DEF Rest
    <3>3. QED BY <3>1, <3>2, HalvesNext
<1>7. CASE /\ pool' = pool \/ (o.h >= 0 /\ pool' = vagi_res_close(o.pool, o.h))
           /\ phase' \in {"stopped", "idle"} /\ wild' = wild
  <2>1. Kept(pool, pool') /\ Cardinality(Unowned(pool')) = lost
    <3>1. CASE pool' = pool
      BY <1>3, <3>1 DEF Kept
    <3>2. CASE o.h >= 0 /\ pool' = vagi_res_close(o.pool, o.h)
      <4>1. o.h \in Int
        BY <1>3, <1>4, Opens, PoolAssumption DEF Refused, Got, ResHandles
      <4>2. /\ Kept(pool, pool') /\ Cardinality(Unowned(pool')) = Cardinality(Unowned(pool)) + 0
        BY <1>3, <1>4, <3>2, <4>1, OpenClose
      <4> HIDE DEF o
      <4>3. QED BY <1>3, <1>5, <4>2
    <3>3. QED BY <1>7, <3>1, <3>2
  <2> HIDE DEF o
  <2>2. Owns(pool', calls) /\ Sound(pool')
    BY <1>3, <2>1, OwnsKept DEF Kept
  <2>3. StackLive'
    BY <1>1, <2>2 DEF StackLive, Owns
  <2>4. Phased' /\ phase' \in Phases
    BY <1>1, <1>2, <1>7 DEF Phased, Phases
  <2>5. Core'
    BY <1>1, <1>5, <1>7, <2>1, <2>2, <2>3, <2>4, Steady
  <2>6. Rest'
    BY <1>1, Halves DEF Rest
  <2>7. QED BY <2>5, <2>6, HalvesNext
<1>8. QED BY <1>1, <1>6, <1>7

LEMMA ReturnStep == ASSUME IInv, ~ wild, Return PROVE IInv'
<1>1. /\ phase = "done" /\ calls # <<>> /\ calls \in Seq(LOGIC) /\ Sound(pool)
      /\ Cardinality(Unowned(pool)) = lost /\ ret \in {0, 1} /\ wild \in BOOLEAN
  BY DEF Return, IInv, Phased, TypeOK
<1>2. /\ pool' = code_term(pool) /\ calls' = Callers /\ phase' = "back"
      /\ UNCHANGED <<ret, logScan, newRoom, timeout, viewLoaded, QUIT_FLAG, wild, lost>>
  BY DEF Return
<1>3. curLog \in LOGIC /\ Callers \in Seq(LOGIC)
  BY <1>1, Front DEF curLog, Callers
<1>4. Sound(pool') /\ Owns(pool', Callers) /\ Unowned(pool') = Unowned(pool)
  <2>1. CASE StackLive
    BY <1>1, <1>2, <2>1, TermLive DEF StackLive, code_term, curLog, Callers
  <2>2. CASE StackEnded
    <3>1. Owns(pool, Callers) /\ Ended(pool, curLog)
      BY <2>2 DEF StackEnded
    <3>2. Kept(pool, pool') /\ Unowned(pool') = Unowned(pool)
      BY <1>1, <1>2, <1>3, <3>1, TermEnded DEF code_term
    <3>3. QED BY <3>1, <3>2, OwnsKept DEF Kept
  <2>3. QED BY <2>1, <2>2 DEF IInv
<1>5. StackLive'
  BY <1>2, <1>4 DEF StackLive, Owns
<1>6. Phased' /\ phase' \in Phases
  BY <1>2 DEF Phased, Phases
<1>7. Core'
  BY <1>1, <1>2, <1>3, <1>4, <1>5, <1>6, Steady
<1>8. Rest'
  BY <1>2, Halves DEF Rest
<1>9. QED BY <1>7, <1>8, HalvesNext

LEMMA AfterCallStep == ASSUME IInv, ~ wild, AfterCall PROVE IInv'
<1>1. /\ phase = "back" /\ calls # <<>> /\ calls \in Seq(LOGIC) /\ wild \in BOOLEAN
      /\ pool' = IF ret = 0 THEN code_term(pool) ELSE pool
      /\ UNCHANGED <<calls, logScan, newRoom, timeout, viewLoaded, QUIT_FLAG, wild, lost>>
  BY DEF AfterCall, IInv, TypeOK
<1>2. Sound(pool) /\ Owns(pool, calls) /\ Cardinality(Unowned(pool)) = lost
  BY <1>1, Framed
<1>3. phase' \in {"run", "done"} /\ phase' \in Phases /\ ret' \in {0, 1}
  BY Goes DEF AfterCall
<1>4. Core'
  <2>1. CASE ret = 0
    BY <1>1, <1>2, <1>3, <2>1, SelfEnded
  <2>2. CASE ret # 0
    <3>1. pool' = pool
      BY <1>1, <2>2
    <3>2. StackLive'
      BY <1>1, <1>2, <3>1 DEF StackLive, Owns
    <3>3. Phased'
      BY <1>1, <1>3 DEF Phased
    <3>4. QED BY <1>1, <1>2, <1>3, <3>1, <3>2, <3>3, Steady
  <2>3. QED BY <2>1, <2>2
<1>5. Rest'
  BY <1>1, Halves DEF Rest
<1>6. QED BY <1>4, <1>5, HalvesNext

LEMMA EndOfLogicStep == ASSUME IInv, ~ wild, EndOfLogic PROVE IInv'
<1>1. /\ phase = "run" /\ phase' = "done" /\ ret' = 0
      /\ UNCHANGED <<pool, calls, logScan, newRoom, timeout, viewLoaded, QUIT_FLAG, wild, lost>>
  BY DEF EndOfLogic
<1>2. /\ Sound(pool) /\ Cardinality(Unowned(pool)) = lost /\ calls # <<>> /\ calls \in Seq(LOGIC)
      /\ wild \in BOOLEAN /\ (StackLive \/ StackEnded)
  BY <1>1 DEF IInv, Phased, TypeOK
<1>3. (StackLive \/ StackEnded)'
  <2>1. CASE StackLive
    BY <1>1, <2>1 DEF StackLive, Owns
  <2>2. CASE StackEnded
    BY <1>1, <2>2 DEF StackEnded, Owns, Ended, Callers, curLog
  <2>3. QED BY <1>2, <2>1, <2>2
<1>4. Phased' /\ phase' \in Phases
  BY <1>1, <1>2 DEF Phased, Phases
<1>5. Core'
  BY <1>1, <1>2, <1>3, <1>4, Steady
<1>6. Rest'
  BY <1>1, Halves DEF Rest
<1>7. QED BY <1>5, <1>6, HalvesNext

LEMMA PlainStep == ASSUME IInv, ~ wild, Plain PROVE IInv'
<1>1. PICK to \in Here + 1 .. CodeEnd[curLog.num] : pool' = vagi_res_seek_to(pool, curLog.res_h, to)
  BY DEF Plain
<1>2. /\ Here \in Nat /\ CodeEnd[curLog.num] \in Nat /\ curLog.res_h \in ResHandles /\ Sound(pool)
  BY RunningLive, LogicType DEF Plain
<1>3. to \in Nat
  BY <1>1, <1>2
<1>4. Kept(pool, pool') /\ Unowned(pool') = Unowned(pool)
  BY <1>1, <1>2, <1>3, Seeks
<1>5. Cardinality(Unowned(pool')) = lost'
  BY <1>4 DEF Plain, IInv
<1>6. Core'
  BY <1>4, <1>5, RunKept DEF Plain
<1>7. Rest'
  BY Halves DEF Rest, Plain
<1>8. QED BY <1>6, <1>7, HalvesNext

LEMMA cReturnStep == ASSUME IInv, ~ wild, cReturn PROVE IInv'
<1>1. /\ Running /\ pool' = code_term(Fetched) /\ phase' \in {"run", "done"} /\ ret' \in {0, 1}
      /\ UNCHANGED <<calls, logScan, newRoom, timeout, viewLoaded, QUIT_FLAG, wild, lost>>
  BY DEF cReturn
<1>2. Core'
  BY <1>1, RunningLive, SelfEnded
<1>3. Rest'
  BY <1>1, Halves DEF Rest
<1>4. QED BY <1>2, <1>3, HalvesNext

LEMMA cNewRoomStep == ASSUME IInv, ~ wild, cNewRoom PROVE IInv'
<1>1. /\ Running /\ pool' = code_term(Fetched) /\ phase' \in {"run", "done"} /\ ret' \in {0, 1}
      /\ newRoom' = TRUE /\ viewLoaded' = FALSE
      /\ UNCHANGED <<calls, logScan, timeout, QUIT_FLAG, wild, lost>>
  BY DEF cNewRoom, GoOn
<1>2. Core'
  BY <1>1, RunningLive, SelfEnded
<1>3. Rest'
  BY <1>1, Halves DEF Rest
<1>4. QED BY <1>2, <1>3, HalvesNext

LEMMA cCallStep == ASSUME IInv, ~ wild, cCall PROVE IInv'
<1>1. PICK n \in Nums : CallLogic(n, Fetched)
  BY DEF cCall
<1>2. Sound(Fetched) /\ Owns(Fetched, calls) /\ Cardinality(Unowned(Fetched)) = lost
  BY RunningLive DEF cCall
<1>3. Core'
  BY <1>1, <1>2, Calling
<1>4. Rest'
  BY Halves DEF Rest, cCall
<1>5. QED BY <1>3, <1>4, HalvesNext

\* Commands that only move the running logic's place.
LEMMA FetchedStep ==
    ASSUME IInv, ~ wild, Running, pool' = Fetched, GoOn(newRoom),
           UNCHANGED <<calls, wild, lost>>
    PROVE  Core'
<1>1. Kept(pool, pool') /\ Cardinality(Unowned(pool')) = lost'
  BY RunningLive
<1>2. QED BY <1>1, RunKept

LEMMA cSetScanStartStep == ASSUME IInv, ~ wild, cSetScanStart PROVE IInv'
<1>1. Core'
  BY FetchedStep DEF cSetScanStart
<1>2. Rest'
  <2>1. Here \in Nat /\ Here < CodeEnd[curLog.num] /\ Here + 1 - ofs_code = Here
    BY RunningLive DEF cSetScanStart, ofs_code
  <2>2. logScan' = [logScan EXCEPT ![curLog.num] = Here]
    BY <2>1 DEF cSetScanStart
  <2>3. curLog.num \in Nums /\ logScan \in [Nums -> Nat] /\ \A n \in Nums : logScan[n] < CodeEnd[n]
    BY RunningLive, LogicType, Halves DEF cSetScanStart, Rest
  <2>4. logScan' \in [Nums -> Nat] /\ \A n \in Nums : logScan'[n] < CodeEnd[n]
    BY <2>1, <2>2, <2>3
  <2>5. QED BY <2>4, Halves DEF Rest, cSetScanStart
<1>3. QED BY <1>1, <1>2, HalvesNext

LEMMA cResetScanStartStep == ASSUME IInv, ~ wild, cResetScanStart PROVE IInv'
<1>1. Core'
  BY FetchedStep DEF cResetScanStart
<1>2. Rest'
  <2>1. curLog.num \in Nums /\ logScan \in [Nums -> Nat] /\ \A n \in Nums : logScan[n] < CodeEnd[n]
    BY RunningLive, LogicType, Halves DEF cResetScanStart, Rest
  <2>2. logScan' = [logScan EXCEPT ![curLog.num] = 0] /\ 0 < CodeEnd[curLog.num]
    <3>1. logScan' = [logScan EXCEPT ![curLog.num] = 0]
      BY DEF cResetScanStart
    <3>2. CodeEnd[curLog.num] \in Nat \ {0}
      BY <2>1, LogicAssumption
    <3>3. QED BY <3>1, <3>2
  <2>3. logScan' \in [Nums -> Nat] /\ \A n \in Nums : logScan'[n] < CodeEnd[n]
    BY <2>1, <2>2
  <2>4. QED BY <2>3, Halves DEF Rest, cResetScanStart
<1>3. QED BY <1>1, <1>2, HalvesNext

LEMMA cQuitStep == ASSUME IInv, ~ wild, cQuit PROVE IInv'
<1>1. Core'
  BY FetchedStep DEF cQuit
<1>2. Rest'
  BY Halves DEF Rest, cQuit
<1>3. QED BY <1>1, <1>2, HalvesNext

LEMMA GetMessageStep == ASSUME IInv, ~ wild, GetMessage PROVE IInv'
<1>1. /\ Kept(pool, Fetched) /\ Unowned(Fetched) = Unowned(pool) /\ Sound(Fetched)
      /\ CodeEnd[curLog.num] \in Nat /\ curLog.msg_res_h \in ResHandles
      /\ Cardinality(Unowned(Fetched)) = lost
  BY RunningLive, LogicType DEF GetMessage
<1>2. pool' = vagi_res_seek_to(Fetched, curLog.msg_res_h, CodeEnd[curLog.num])
  BY DEF GetMessage
<1>3. Kept(Fetched, pool') /\ Unowned(pool') = Unowned(Fetched)
  BY <1>1, <1>2, Seeks
<1>4. Kept(pool, pool') /\ Cardinality(Unowned(pool')) = lost'
  BY <1>1, <1>3, KeptTwice DEF GetMessage
<1>5. Core'
  BY <1>4, RunKept DEF GetMessage
<1>6. Rest'
  BY Halves DEF Rest, GetMessage
<1>7. QED BY <1>5, <1>6, HalvesNext

LEMMA cSetViewStep == ASSUME IInv, ~ wild, cSetView PROVE IInv'
<1>1. PICK n \in Nums : LET o == Open("VIEW", n, Fetched) IN
          /\ pool' = IF o.h < 0 THEN o.pool ELSE vagi_res_close(o.pool, o.h)
          /\ viewLoaded' = (viewLoaded \/ o.h >= 0)
          /\ lost' = lost + Loses(o)
  BY DEF cSetView
<1>2. Entry["VIEW"][n] \in Entries /\ <<"VIEW", n>> \in Kinds \X Nat
  BY LogicAssumption DEF Kinds
<1>3. Kept(pool, Fetched) /\ Sound(Fetched) /\ Cardinality(Unowned(Fetched)) = lost
  BY RunningLive DEF cSetView
<1>4. Kept(Fetched, pool') /\ Cardinality(Unowned(pool')) = lost'
  BY <1>1, <1>2, <1>3, OpenClose DEF Open
<1>5. Kept(pool, pool')
  BY <1>3, <1>4, KeptTwice
<1>6. Core'
  BY <1>4, <1>5, RunKept DEF cSetView
<1>7. Rest'
  BY Halves DEF Rest, cSetView
<1>8. QED BY <1>6, <1>7, HalvesNext

LEMMA cSetLoopStep == ASSUME IInv, ~ wild, cSetLoop PROVE IInv'
<1> DEFINE w == <<"VIEW", 0>>
           o == vagi_res_open(Fetched, "ok", w)
           n == 2 * Len(calls)
<1>1. "ok" \in Entries /\ w \in Kinds \X Nat
  BY DEF Entries, Kinds
<1>2. /\ Kept(pool, Fetched) /\ Sound(Fetched) /\ Owns(Fetched, calls)
      /\ Cardinality(Unowned(Fetched)) = lost /\ calls \in Seq(LOGIC) /\ calls # <<>>
  BY RunningLive DEF cSetLoop
<1>3. o.h \in Int
  BY <1>1, <1>2, Opens, PoolAssumption DEF Refused, Got, ResHandles
<1>4. /\ UNCHANGED <<calls, logScan, newRoom, timeout, viewLoaded, QUIT_FLAG, lost>>
      /\ \/ o.h < 0 /\ wild' = TRUE /\ UNCHANGED <<pool, phase, ret>>
         \/ /\ pool' = Fetched \/ (o.h >= 0 /\ pool' = vagi_res_close(o.pool, o.h))
            /\ GoOn(newRoom) /\ wild' = wild
  <2> HIDE DEF o
  <2>1. QED BY <1>3 DEF cSetLoop, o
<1>5. CASE o.h < 0 /\ wild' = TRUE /\ UNCHANGED <<pool, phase, ret>>
  <2>1. n \in Nat
    BY <1>2, LenProperties
  <2>2. IsFiniteSet(Active(Fetched)) /\ Cardinality(Active(Fetched)) <= n
    BY <1>2, ActiveFew
  <2> HIDE DEF n
  <2>3. n >= VAGI_RES_MAX_HANDLES \/ n + Cardinality(Unowned(Fetched)) >= ROMFS_MAX_HANDLES
    BY <1>1, <1>2, <1>5, <2>1, <2>2, RefusedAtTheLimit
  <2> HIDE DEF o
  <2>4. lost \in 0 .. ROMFS_MAX_HANDLES
    BY DEF IInv, TypeOK
  <2>5. n >= VAGI_RES_MAX_HANDLES - 1 \/ n + lost >= ROMFS_MAX_HANDLES - 1
    BY <1>2, <2>1, <2>3, <2>4, PoolAssumption
  <2>6. WildOnlyAtTheLimit'
    BY <1>4, <2>5 DEF WildOnlyAtTheLimit, n
  <2>7. Phased'
    BY <1>4, <1>5 DEF Phased, IInv
  <2>8. phase \in Phases /\ pool \in PoolType /\ ret \in {0, 1} /\ wild' \in BOOLEAN
    BY <1>5 DEF IInv, TypeOK
  <2>9. Core'
    BY <1>2, <1>4, <1>5, <2>4, <2>6, <2>7, <2>8 DEF Core
  <2>10. Rest'
    BY <1>4, Halves DEF Rest
  <2>11. QED BY <2>9, <2>10, HalvesNext
<1>6. CASE /\ pool' = Fetched \/ (o.h >= 0 /\ pool' = vagi_res_close(o.pool, o.h))
           /\ GoOn(newRoom) /\ wild' = wild
  <2>1. Kept(pool, pool') /\ Cardinality(Unowned(pool')) = lost'
    <3>1. CASE pool' = Fetched
      BY <1>2, <1>4, <3>1
    <3>2. CASE o.h >= 0 /\ pool' = vagi_res_close(o.pool, o.h)
      <4>1. Kept(Fetched, pool') /\ Cardinality(Unowned(pool')) = Cardinality(Unowned(Fetched)) + 0
        BY <1>1, <1>2, <1>3, <3>2, OpenClose
      <4> HIDE DEF o
      <4>2. lost \in Nat
        BY <1>2, Counted
      <4>3. QED BY <1>2, <1>4, <4>1, <4>2, KeptTwice
    <3>3. QED BY <1>6, <3>1, <3>2
  <2> HIDE DEF o
  <2>2. Core'
    BY <1>4, <1>6, <2>1, RunKept DEF cSetLoop
  <2>3. Rest'
    BY <1>4, Halves DEF Rest
  <2>4. QED BY <2>2, <2>3, HalvesNext
<1>7. QED BY <1>4, <1>5, <1>6

LEMMA cDrawPicStep == ASSUME IInv, ~ wild, cDrawPic PROVE IInv'
<1> DEFINE Drawn(o)    == IF o.h < 0 THEN o.pool ELSE vagi_res_close(o.pool, o.h)
           Visual(n)   == Open("PIC", n, Fetched)
           Priority(n) == Open("PIC", n, Drawn(Visual(n)))
<1>1. PICK n \in Nums : /\ pool' = Drawn(Priority(n))
                        /\ lost' = lost + Loses(Visual(n)) + Loses(Priority(n))
  BY DEF cDrawPic
<1> DEFINE v == Visual(n)
           p == Priority(n)
<1>2. Entry["PIC"][n] \in Entries /\ <<"PIC", n>> \in Kinds \X Nat
  BY LogicAssumption DEF Kinds
<1>3. Kept(pool, Fetched) /\ Sound(Fetched) /\ Cardinality(Unowned(Fetched)) = lost
  BY RunningLive DEF cDrawPic
<1>4. /\ Kept(Fetched, Drawn(v)) /\ Loses(v) \in {0, 1}
      /\ Cardinality(Unowned(Drawn(v))) = lost + Loses(v)
  BY <1>2, <1>3, OpenClose DEF Open
<1>5. Sound(Drawn(v))
  BY <1>4 DEF Kept
<1> HIDE DEF Drawn, Visual
<1>6. /\ Kept(Drawn(v), Drawn(p)) /\ Loses(p) \in {0, 1}
      /\ Cardinality(Unowned(Drawn(p))) = Cardinality(Unowned(Drawn(v))) + Loses(p)
  BY <1>2, <1>5, OpenClose DEF Open, Drawn
<1>7. Kept(pool, pool') /\ Cardinality(Unowned(pool')) = lost'
  BY <1>1, <1>3, <1>4, <1>6, KeptTwice
<1>8. Core'
  BY <1>7, RunKept DEF cDrawPic
<1>9. Rest'
  BY Halves DEF Rest, cDrawPic
<1>10. QED BY <1>8, <1>9, HalvesNext

-----------------------------------------------------------------------------
(* The inductive invariant.                                                *)

LEMMA InitInv == ASSUME Init PROVE IInv
<1>1. NothingOpen \in PoolType
  BY ClearedType DEF NothingOpen, PoolType
<1>2. /\ pool = NothingOpen /\ calls = <<>> /\ phase = "idle" /\ lost = 0 /\ ~ wild
      /\ \A h \in ResHandles : ~ pool.res[h].active
      /\ \A r \in RomHandles : ~ pool.rom[r]
  BY ClearedType DEF Init, NothingOpen
<1>3. Active(pool) = {} /\ Unowned(pool) = {}
  BY <1>2 DEF Active, Unowned
<1>4. Sound(pool)
  BY <1>1, <1>2, <1>3 DEF Sound
<1>5. Len(calls) = 0
  BY <1>2, EmptySeq
<1>6. StackLive
  BY <1>3, <1>5 DEF StackLive, Owns
<1>7. Cardinality(Unowned(pool)) = lost
  BY <1>2, <1>3, FS_EmptySet
<1>8. calls \in Seq(LOGIC)
  BY <1>2, EmptySeq
<1>9. Phased /\ WildOnlyAtTheLimit
  BY <1>2 DEF Phased, WildOnlyAtTheLimit
<1>10. lost \in 0 .. ROMFS_MAX_HANDLES
  BY <1>2, PoolAssumption
<1>11. /\ phase \in Phases /\ pool \in PoolType /\ ret \in {0, 1} /\ wild \in BOOLEAN
  BY <1>1, <1>2 DEF Init, Phases
<1>12. Core
  BY <1>2, <1>4, <1>6, <1>7, <1>8, <1>9, <1>10, <1>11 DEF Core
<1>13. Rest
  <2>1. \A n \in Nums : CodeEnd[n] \in Nat \ {0}
    BY LogicAssumption
  <2>2. logScan \in [Nums -> Nat] /\ \A n \in Nums : logScan[n] < CodeEnd[n]
    BY <2>1 DEF Init
  <2>3. timeout \in 0 .. Timeout
    BY LogicAssumption DEF Init
  <2>4. QED BY <2>2, <2>3 DEF Rest, Init
<1>14. QED BY <1>12, <1>13, Halves

LEMMA StepInv == ASSUME IInv, [Next]_vars PROVE IInv'
<1>1. CASE UNCHANGED vars
  BY <1>1 DEF vars, IInv, TypeOK, Phased, WildOnlyAtTheLimit, Sound, StackLive, StackEnded,
              Owns, Ended, Callers, curLog
<1>2. CASE Next
  <2>1. ~ wild
    BY <1>2 DEF Next
  <2>2. CASE VagiLoop
    BY <2>1, <2>2, VagiLoopStep
  <2>3. CASE NextRound
    BY <2>1, <2>3, NextRoundStep
  <2>4. CASE LogicDone
    BY <2>1, <2>4, LogicDoneStep
  <2>5. CASE UpdateVObj
    BY <2>1, <2>5, UpdateVObjStep
  <2>6. CASE Command
    BY <2>1, <2>6, EndOfLogicStep, PlainStep, cReturnStep, cCallStep, cNewRoomStep,
       cSetScanStartStep, cResetScanStartStep, GetMessageStep, cSetViewStep, cSetLoopStep,
       cDrawPicStep, cQuitStep DEF Command
  <2>7. CASE AfterCall
    BY <2>1, <2>7, AfterCallStep
  <2>8. CASE Return
    BY <2>1, <2>8, ReturnStep
  <2>9. QED BY <1>2, <2>2, <2>3, <2>4, <2>5, <2>6, <2>7, <2>8 DEF Next
<1>3. QED BY <1>1, <1>2

LEMMA Invariance == Spec => []IInv
<1>1. Init => IInv
  BY InitInv
<1>2. IInv /\ [Next]_vars => IInv'
  BY StepInv
<1>3. QED BY <1>1, <1>2, PTL DEF Spec

-----------------------------------------------------------------------------
(* The theorems.                                                           *)

\* Places stay within their logics, handles in their pools, and no more
\* directories are ever left open than there are ROM handles.
THEOREM TypeCorrect == Spec => []TypeOK
<1>1. IInv => TypeOK
  BY DEF IInv
<1>2. QED BY <1>1, Invariance, PTL

\* Every logic that waits or runs holds two open handles of its own: what a logic
\* called by it opens and closes, and the second closing of what has been closed,
\* never reaches them (agi_logic.c:231, vagi_res.h:418).
THEOREM Owned == Spec => []HandlesOwned
<1>1. ASSUME IInv PROVE HandlesOwned
  <2> SUFFICES ASSUME ~ wild PROVE HandlesOwned
    BY DEF HandlesOwned
  <2>1. Sound(pool) /\ calls \in Seq(LOGIC) /\ Len(calls) \in Nat
    BY <1>1, LenProperties DEF IInv, TypeOK
  <2>2. ASSUME NEW i \in Holding
        PROVE  i \in 1 .. Len(calls) /\ Live(pool, calls[i])
    <3>1. i \in 1 .. Len(calls) /\ (i < Len(calls) \/ Running)
      BY DEF Holding
    <3>2. CASE StackLive
      BY <3>1, <3>2 DEF StackLive, Owns
    <3>3. CASE ~ StackLive
      <4>1. StackEnded /\ ~ Running
        BY <1>1, <3>3, RunningLive DEF IInv, StackLive
      <4>2. i \in 1 .. Len(Callers) /\ Callers[i] = calls[i]
        <5>1. calls # <<>>
          BY <4>1 DEF StackEnded
        <5>2. Len(Callers) = Len(calls) - 1 /\ \A k \in 1 .. Len(Callers) : Callers[k] = calls[k]
          BY <2>1, <5>1, Front DEF Callers
        <5>3. QED BY <2>1, <3>1, <4>1, <5>2
      <4>3. Live(pool, Callers[i])
        BY <4>1, <4>2 DEF StackEnded, Owns
      <4>4. QED BY <3>1, <4>2, <4>3
    <3>4. QED BY <3>2, <3>3
  <2>3. ASSUME NEW i \in Holding, NEW j \in Holding, i # j
        PROVE  Both(calls[i]) \cap Both(calls[j]) = {}
    <3>1. CASE StackLive
      BY <2>2, <2>3, <3>1 DEF StackLive, Owns
    <3>2. CASE ~ StackLive
      <4>1. StackEnded /\ ~ Running
        BY <1>1, <3>2, RunningLive DEF IInv, StackLive
      <4>2. Len(Callers) = Len(calls) - 1 /\ \A k \in 1 .. Len(Callers) : Callers[k] = calls[k]
        BY <2>1, <4>1, Front DEF StackEnded, Callers
      <4>3. i \in 1 .. Len(Callers) /\ j \in 1 .. Len(Callers)
        BY <2>1, <4>1, <4>2 DEF Holding
      <4>4. Both(Callers[i]) \cap Both(Callers[j]) = {}
        BY <2>3, <4>1, <4>3 DEF StackEnded, Owns
      <4>5. QED BY <4>2, <4>3, <4>4
    <3>3. QED BY <3>1, <3>2
  <2>4. ASSUME NEW i \in Holding, NEW h \in HandlesAt(i)
        PROVE  /\ h \in Active(pool) /\ pool.res[h].active
               /\ pool.res[h].of = <<"LOG", calls[i].num>> /\ pool.rom[pool.res[h].rh]
    <3>1. Live(pool, calls[i]) /\ h \in Both(calls[i])
      BY <2>2, <2>4 DEF HandlesAt, Both
    <3>2. h \in Active(pool) /\ pool.res[h].of = <<"LOG", calls[i].num>>
      BY <3>1 DEF Live, Both
    <3>3. QED BY <2>1, <3>2 DEF Sound, Active
  <2>5. \A i \in Holding : calls[i].res_h # calls[i].msg_res_h
    BY <2>2 DEF Live
  <2>6. \A i, j \in Holding : i # j => HandlesAt(i) \cap HandlesAt(j) = {}
    BY <2>3 DEF HandlesAt, Both
  <2>7. \A i, j \in Holding : \A h \in HandlesAt(i), k \in HandlesAt(j) :
            h # k => pool.res[h].rh # pool.res[k].rh
    BY <2>1, <2>4 DEF Sound
  <2>8. QED BY <2>4, <2>5, <2>6, <2>7 DEF HandlesOwned
<1>2. QED BY <1>1, Invariance, PTL

\* What is open is accounted for: nothing between two frames, but one ROM file for
\* each opening behind the end of a directory (vagi_res.h:263).
THEOREM AccountKept == Spec => []Accounted
<1>1. ASSUME IInv PROVE Accounted
  <2> SUFFICES ASSUME ~ wild
               PROVE  /\ Cardinality(Unowned(pool)) = lost
                      /\ phase = "idle" => \A h \in ResHandles : ~ pool.res[h].active
    BY DEF Accounted
  <2>1. Cardinality(Unowned(pool)) = lost
    BY <1>1 DEF IInv
  <2>2. ASSUME phase = "idle" PROVE \A h \in ResHandles : ~ pool.res[h].active
    <3>1. Owns(pool, calls) /\ calls = <<>>
      BY <1>1, <2>2 DEF IInv, StackLive, StackEnded, Phased
    <3>2. Len(calls) = 0
      BY <3>1, EmptySeq
    <3>3. Active(pool) = {}
      BY <3>1, <3>2 DEF Owns
    <3>4. QED BY <3>3 DEF Active
  <2>3. QED BY <2>1, <2>2
<1>2. QED BY <1>1, Invariance, PTL

\* An error number becomes an index only when a pool is nearly used up, however
\* large the pools are.
THEOREM WildAtTheLimit == Spec => []WildOnlyAtTheLimit
<1>1. IInv => WildOnlyAtTheLimit
  BY DEF IInv
<1>2. QED BY <1>1, Invariance, PTL
==============================================================================
