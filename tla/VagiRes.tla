------------------------------- MODULE VagiRes -------------------------------
(***************************************************************************)
(* The two pools of handles below the AGI interpreter: romfs.c keeps the   *)
(* files of the cartridge that are open, vagi_res.h the game's resources,  *)
(* each of which holds one ROM file open.  A pool is a record of both      *)
(* arrays; what the directory and the volume say of a resource is one of   *)
(* Entries.                                                                *)
(***************************************************************************)
EXTENDS Integers, FiniteSets

CONSTANTS ROMFS_MAX_HANDLES,      \* romfs.h: 6
          VAGI_RES_MAX_HANDLES    \* vagi_res.h: 6

ASSUME PoolAssumption == /\ ROMFS_MAX_HANDLES \in Nat \ {0}
                         /\ VAGI_RES_MAX_HANDLES \in Nat \ {0}

RomHandles == 0 .. ROMFS_MAX_HANDLES - 1
ResHandles == 0 .. VAGI_RES_MAX_HANDLES - 1

\* ok: data behind its header; past: the number is behind the directory's end;
\* novol: the volume is not on the cartridge; bad: wrong signature or volume
Entries == {"ok", "past", "novol", "bad"}
Kinds   == {"LOG", "PIC", "VIEW"}

ROMFS_ERROR_EOF                == -1
ROMFS_ERROR_NOT_FOUND          == -2
ROMFS_ERROR_OUT_OF_HANDLES     == -3
VAGI_RES_ERROR_OUT_OF_HANDLES  == -11
VAGI_RES_ERROR_SIGNATURE_ERROR == -12

\* An element of vagi_res_states as vagi_res_open prepares it; "of" is the
\* resource that its place in the ROM belongs to.
Cleared == [active |-> FALSE, rh |-> -1, offset |-> 0, of |-> <<"LOG", 0>>]

\* The pools after vagi_res_init.
NothingOpen == [rom |-> [r \in RomHandles |-> FALSE],
                res |-> [h \in ResHandles |-> Cleared]]

First(S) == CHOOSE i \in S : \A j \in S : i <= j

FreeRom(p) == {r \in RomHandles : ~ p.rom[r]}
FreeRes_NeverTheLast(p) == {h \in 0 .. VAGI_RES_MAX_HANDLES - 2 : ~ p.res[h].active}
FreeRes(p) == {h \in ResHandles : ~ p.res[h].active}

romfs_fopen(p, r) == [p EXCEPT !.rom[r] = TRUE]

\* romfs_fclose: a handle that is not active is left as it is.
romfs_fclose_Forgets(p, r) == p
romfs_fclose(p, r) == [p EXCEPT !.rom[r] = FALSE]

\* vagi_res_open: the pools afterwards and the handle, or a negative error.
\* The directory is read and closed before the volume is opened, so both get the
\* same ROM handle r; a number behind the directory's end leaves it open.
Opening(p, h) == [pool |-> p, h |-> h]
OpenFile(p, h, r, entry, what) ==
    LET q   == [p EXCEPT !.res[h] = Cleared]
        dir == romfs_fopen(q, r)
    IN  CASE entry = "past"  -> Opening(dir, ROMFS_ERROR_EOF)
          [] entry = "novol" -> Opening(romfs_fclose(dir, r), ROMFS_ERROR_NOT_FOUND)
          [] entry = "bad"   -> Opening(romfs_fclose(dir, r), VAGI_RES_ERROR_SIGNATURE_ERROR)
          [] OTHER -> Opening([dir EXCEPT !.res[h] =
                          [active |-> TRUE, rh |-> r, offset |-> 0, of |-> what]], h)
vagi_res_open(p, entry, what) ==
    IF FreeRes(p) = {} THEN Opening(p, VAGI_RES_ERROR_OUT_OF_HANDLES)
    ELSE IF FreeRom(p) = {}
         THEN Opening([p EXCEPT !.res[First(FreeRes(p))] = Cleared], ROMFS_ERROR_OUT_OF_HANDLES)
         ELSE OpenFile(p, First(FreeRes(p)), First(FreeRom(p)), entry, what)

\* vagi_res_close: closes the ROM handle the state names, active or not.  The
\* state keeps that number; its place in the ROM is not looked at any more.
vagi_res_close(p, h) ==
    [romfs_fclose(p, p.res[h].rh) EXCEPT !.res[h] = [Cleared EXCEPT !.rh = p.res[h].rh]]

\* vagi_res_seek_to, vagi_res_skip and vagi_res_read, as far as the place goes.
vagi_res_seek_to(p, h, n) == [p EXCEPT !.res[h].offset = n]

\* The ROM handles that no open resource holds.
Unowned(p) ==
    {r \in RomHandles : p.rom[r] /\ \A h \in ResHandles : p.res[h].active => p.res[h].rh # r}

ResState == [active : BOOLEAN, rh : RomHandles \cup {-1}, offset : Nat, of : Kinds \X Nat]
PoolType == [rom : [RomHandles -> BOOLEAN], res : [ResHandles -> ResState]]
==============================================================================
