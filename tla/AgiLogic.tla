------------------------------- MODULE AgiLogic -------------------------------
(***************************************************************************)
(* The main cycle of the AGI interpreter (vagi.c, agi_logic.c): every      *)
(* frame runs LOG0 until it returns 1, ten times at the most.  A logic     *)
(* calls others, draws pictures and sets views; each running logic holds   *)
(* two resource handles, one for its code and one for its messages.  What  *)
(* the game does at each command is any command with any number.           *)
(***************************************************************************)
EXTENDS VagiRes, Sequences

CONSTANTS Entry,     \* what is behind each number: [Kinds -> [Nums -> Entries]]
          CodeEnd,   \* the size of each logic; its first command is at ofs_code
          Nums,      \* the numbers that the game uses, 0 among them
          Timeout    \* vagi.c: 10 rounds of LOG0

ofs_code == 1   \* the header of a logic counts as one command

ASSUME LogicAssumption == /\ 0 \in Nums /\ Nums \subseteq Nat
                          /\ Entry \in [Kinds -> [Nums -> Entries]]
                          /\ CodeEnd \in [Nums -> Nat \ {0}]
                          /\ Timeout \in Nat \ {0}

VARIABLES
    phase,       \* where the program is, see Phases
    pool,        \* romfs_states and vagi_res_states
    calls,       \* the LOGICs on the C stack; curLog is the last
    ret,         \* what ExecuteLogic or CallLogic returned last
    logScan,     \* where each logic resumes
    newRoom,     \* new_room_called
    timeout,     \* rounds of LOG0 that are left in this frame
    viewLoaded,  \* an object's viewLoaded flag
    QUIT_FLAG,
    wild,        \* memory before one of the arrays was written: anything follows
    lost         \* how many directories were left open (history)

vars == <<phase, pool, calls, ret, logScan, newRoom, timeout, viewLoaded, QUIT_FLAG, wild, lost>>

\* idle: between two frames; run: ExecuteLogic's loop; done: ExecuteLogic has
\* returned; back: CallLogic has returned; draw: UpdateVObj; stopped: main is left
Phases == {"idle", "run", "done", "back", "draw", "stopped"}

LOGIC == [num : Nums, res_h : ResHandles, msg_res_h : ResHandles]

TypeOK ==
    /\ phase \in Phases /\ pool \in PoolType /\ ret \in {0, 1}
    /\ calls \in Seq(LOGIC)
    /\ logScan \in [Nums -> Nat] /\ \A n \in Nums : logScan[n] < CodeEnd[n]
    /\ timeout \in 0 .. Timeout /\ lost \in 0 .. ROMFS_MAX_HANDLES
    /\ {newRoom, viewLoaded, QUIT_FLAG, wild} \subseteq BOOLEAN

Init == /\ phase = "idle" /\ pool = NothingOpen /\ calls = <<>> /\ ret = 1
        /\ logScan = [n \in Nums |-> 0] /\ timeout = 0 /\ lost = 0
        /\ newRoom = FALSE /\ viewLoaded = FALSE /\ QUIT_FLAG = FALSE /\ wild = FALSE

curLog  == calls[Len(calls)]
Callers == SubSeq(calls, 1, Len(calls) - 1)
Here    == pool.res[curLog.res_h].offset

\* code_term: both handles of the logic are closed while it is still running.
code_term(p) == vagi_res_close(vagi_res_close(p, curLog.res_h), curLog.msg_res_h)

\* vagi_res_eof of the running logic, also how code_term makes its loop end.
AtEnd_OfTheFile(log) == pool.res[log.res_h].offset >= CodeEnd[log.num]
AtEnd(log) == \/ ~ pool.res[log.res_h].active
              \/ pool.res[log.res_h].offset >= CodeEnd[log.num]

-----------------------------------------------------------------------------
(* Opening resources *)

Open(kind, n, p) == vagi_res_open(p, Entry[kind][n], <<kind, n>>)
Loses(o) == IF o.h = ROMFS_ERROR_EOF THEN 1 ELSE 0

\* CallLogic up to ExecuteLogic's loop.  When the second handle cannot be had, its
\* negative number is used as an index.
CallLogic(num, p) ==
    LET code == Open("LOG", num, p)
        msgs == Open("LOG", num, code.pool)
    IN  \/ /\ code.h < 0
           /\ phase' = "back" /\ ret' = 0 /\ pool' = code.pool
           /\ lost' = lost + Loses(code)
           /\ UNCHANGED <<calls, wild>>
        \/ /\ code.h >= 0 /\ msgs.h < 0
           /\ wild' = TRUE /\ pool' = msgs.pool
           /\ UNCHANGED <<phase, ret, calls, lost>>
        \/ /\ code.h >= 0 /\ msgs.h >= 0
           /\ phase' = "run"
           /\ calls' = Append(calls, [num |-> num, res_h |-> code.h, msg_res_h |-> msgs.h])
           /\ pool' = vagi_res_seek_to(msgs.pool, code.h, ofs_code + logScan[num])
           /\ UNCHANGED <<ret, wild, lost>>

\* CallLogic after ExecuteLogic: both handles are closed, a second time if the
\* logic ended itself.
Return ==
    /\ phase = "done"
    /\ pool' = code_term(pool) /\ calls' = Callers /\ phase' = "back"
    /\ UNCHANGED <<ret, logScan, newRoom, timeout, viewLoaded, QUIT_FLAG, wild, lost>>

-----------------------------------------------------------------------------
(* The frame *)

\* vagi_loop up to the first round of LOG0
VagiLoop ==
    /\ phase = "idle" /\ ~ QUIT_FLAG
    /\ newRoom' = FALSE /\ timeout' = Timeout
    /\ CallLogic(0, pool)
    /\ UNCHANGED <<logScan, viewLoaded, QUIT_FLAG>>

\* LOG0 has returned 0: another round, unless they are used up or the game quits.
NextRound_Endless ==
    /\ phase = "back" /\ calls = <<>> /\ ret = 0 /\ timeout > 0 /\ ~ QUIT_FLAG
    /\ newRoom' = FALSE
    /\ CallLogic(0, pool)
    /\ UNCHANGED <<timeout, logScan, viewLoaded, QUIT_FLAG>>
NextRound ==
    /\ phase = "back" /\ calls = <<>> /\ ret = 0 /\ timeout > 1 /\ ~ QUIT_FLAG
    /\ timeout' = timeout - 1 /\ newRoom' = FALSE
    /\ CallLogic(0, pool)
    /\ UNCHANGED <<logScan, viewLoaded, QUIT_FLAG>>

LogicDone ==
    /\ phase = "back" /\ calls = <<>>
    /\ \/ ret = 1 /\ UNCHANGED timeout
       \/ ret = 0 /\ timeout <= 1 /\ timeout' = 0
       \/ ret = 0 /\ timeout > 1 /\ QUIT_FLAG /\ timeout' = timeout - 1
    /\ phase' = "draw"
    /\ UNCHANGED <<pool, calls, ret, logScan, newRoom, viewLoaded, QUIT_FLAG, wild, lost>>

\* UpdateVObj draws the objects that are shown: each of their views is opened
\* without a test for an error.
UpdateVObj ==
    /\ phase = "draw"
    /\ LET o == vagi_res_open(pool, "ok", <<"VIEW", 0>>) IN
       \E shown \in {FALSE, viewLoaded} :
           IF shown /\ o.h < 0 THEN wild' = TRUE /\ UNCHANGED <<pool, phase>>
           ELSE /\ pool' = IF shown THEN vagi_res_close(o.pool, o.h) ELSE pool
                /\ phase' = IF QUIT_FLAG THEN "stopped" ELSE "idle"
                /\ UNCHANGED wild
    /\ UNCHANGED <<calls, ret, logScan, newRoom, timeout, viewLoaded, QUIT_FLAG, lost>>

-----------------------------------------------------------------------------
(* ExecuteLogic: the commands of the running logic *)

Running == phase = "run" /\ ~ AtEnd(curLog)

\* the pools after the command's number was read
Fetched == vagi_res_seek_to(pool, curLog.res_h, Here + 1)

\* What ExecuteLogic does after a command that is not "return".
GoOn(new_room_called) == IF new_room_called THEN phase' = "done" /\ ret' = 0
                                           ELSE phase' = "run" /\ UNCHANGED ret

\* The resource has ended, or the logic's handles were closed under it.
EndOfLogic ==
    /\ phase = "run" /\ AtEnd(curLog)
    /\ phase' = "done" /\ ret' = 0
    /\ UNCHANGED <<pool, calls, logScan, newRoom, timeout, viewLoaded, QUIT_FLAG, wild, lost>>

\* Anything that neither opens a resource nor ends the logic: a command, an "if"
\* or a "goto" that goes forward.
Plain ==
    /\ Running
    /\ \E to \in Here + 1 .. CodeEnd[curLog.num] :
           pool' = vagi_res_seek_to(pool, curLog.res_h, to)
    /\ GoOn(newRoom)
    /\ UNCHANGED <<calls, logScan, newRoom, timeout, viewLoaded, QUIT_FLAG, wild, lost>>

cReturn ==
    /\ Running
    /\ pool' = code_term(Fetched) /\ phase' = "done" /\ ret' = 1
    /\ UNCHANGED <<calls, logScan, newRoom, timeout, viewLoaded, QUIT_FLAG, wild, lost>>

cCall ==
    /\ Running
    /\ \E n \in Nums : CallLogic(n, Fetched)
    /\ UNCHANGED <<logScan, newRoom, timeout, viewLoaded, QUIT_FLAG>>

\* The rest of cCall: a logic that ended with 0 ends its caller as well.
AfterCall ==
    /\ phase = "back" /\ calls # <<>>
    /\ pool' = IF ret = 0 THEN code_term(pool) ELSE pool
    /\ GoOn(newRoom)
    /\ UNCHANGED <<calls, logScan, newRoom, timeout, viewLoaded, QUIT_FLAG, wild, lost>>

\* NewRoom unloads the views of all objects.
cNewRoom ==
    /\ Running
    /\ newRoom' = TRUE /\ viewLoaded' = FALSE
    /\ pool' = code_term(Fetched)
    /\ GoOn(TRUE)
    /\ UNCHANGED <<calls, logScan, timeout, QUIT_FLAG, wild, lost>>

cSetScanStart ==
    /\ Running
    /\ logScan' = [logScan EXCEPT ![curLog.num] = Here + 1 - ofs_code]
    /\ pool' = Fetched
    /\ GoOn(newRoom)
    /\ UNCHANGED <<calls, newRoom, timeout, viewLoaded, QUIT_FLAG, wild, lost>>

cResetScanStart ==
    /\ Running
    /\ logScan' = [logScan EXCEPT ![curLog.num] = 0]
    /\ pool' = Fetched
    /\ GoOn(newRoom)
    /\ UNCHANGED <<calls, newRoom, timeout, viewLoaded, QUIT_FLAG, wild, lost>>

\* Every command with a text: the second handle moves.
GetMessage ==
    /\ Running
    /\ pool' = vagi_res_seek_to(Fetched, curLog.msg_res_h, CodeEnd[curLog.num])
    /\ GoOn(newRoom)
    /\ UNCHANGED <<calls, logScan, newRoom, timeout, viewLoaded, QUIT_FLAG, wild, lost>>

\* SetObjView, and the SetObjLoop and SetObjCel that follow: each opens the view
\* and closes it, the first one tests for an error.
cSetView ==
    /\ Running
    /\ \E n \in Nums : LET o == Open("VIEW", n, Fetched) IN
           /\ pool' = IF o.h < 0 THEN o.pool ELSE vagi_res_close(o.pool, o.h)
           /\ viewLoaded' = (viewLoaded \/ o.h >= 0)
           /\ lost' = lost + Loses(o)
    /\ GoOn(newRoom)
    /\ UNCHANGED <<calls, logScan, newRoom, timeout, QUIT_FLAG, wild>>

\* SetObjLoop or SetObjCel of an object that has a view: no test for an error.
cSetLoop ==
    /\ Running
    /\ LET o == vagi_res_open(Fetched, "ok", <<"VIEW", 0>>) IN
       IF viewLoaded /\ o.h < 0 THEN wild' = TRUE /\ UNCHANGED <<pool, phase, ret>>
       ELSE /\ pool' = IF viewLoaded THEN vagi_res_close(o.pool, o.h) ELSE Fetched
            /\ GoOn(newRoom) /\ UNCHANGED wild
    /\ UNCHANGED <<calls, logScan, newRoom, timeout, viewLoaded, QUIT_FLAG, lost>>

\* vagi_pic_draw draws the picture twice, each time from a resource of its own.
cDrawPic ==
    /\ Running
    /\ \E n \in Nums :
           LET Drawn(o) == IF o.h < 0 THEN o.pool ELSE vagi_res_close(o.pool, o.h)
               visual   == Open("PIC", n, Fetched)
               priority == Open("PIC", n, Drawn(visual))
           IN  /\ pool' = Drawn(priority)
               /\ lost' = lost + Loses(visual) + Loses(priority)
    /\ GoOn(newRoom)
    /\ UNCHANGED <<calls, logScan, newRoom, timeout, viewLoaded, QUIT_FLAG, wild>>

cQuit ==
    /\ Running
    /\ QUIT_FLAG' = TRUE /\ pool' = Fetched
    /\ GoOn(newRoom)
    /\ UNCHANGED <<calls, logScan, newRoom, timeout, viewLoaded, wild, lost>>

-----------------------------------------------------------------------------
Command == \/ EndOfLogic \/ Plain \/ cReturn \/ cCall \/ cNewRoom
           \/ cSetScanStart \/ cResetScanStart \/ GetMessage \/ cSetView \/ cSetLoop
           \/ cDrawPic \/ cQuit

\* Nothing is said of what the program does once it wrote outside an array.
Next == /\ ~ wild
        /\ \/ VagiLoop \/ NextRound \/ LogicDone \/ UpdateVObj
           \/ Command \/ AfterCall \/ Return

Spec == Init /\ [][Next]_vars

\* One thread, which always goes on: a frame waits for nothing.
FairSpec == Spec /\ WF_vars(Next)

-----------------------------------------------------------------------------
(* Properties *)

\* The handles of the logic at place i of the stack.
HandlesAt(i) == {calls[i].res_h, calls[i].msg_res_h}

\* The logics that still hold their handles: all that wait for a logic they have
\* called, and the running one until it was ended.
Holding == {i \in 1 .. Len(calls) : i < Len(calls) \/ Running}

\* Every logic that waits or runs holds two open handles, on itself, and no two
\* handles share a state or a ROM file: what a called logic opens, reads and
\* closes, and the second closing in CallLogic of what code_term has closed,
\* never reaches the handles of a caller (agi_logic.c:231, vagi_res.h:418).
HandlesOwned ==
    ~ wild =>
    /\ \A i \in Holding : \A h \in HandlesAt(i) :
           /\ pool.res[h].active /\ pool.res[h].of = <<"LOG", calls[i].num>>
           /\ pool.rom[pool.res[h].rh]
    /\ \A i \in Holding : calls[i].res_h # calls[i].msg_res_h
    /\ \A i, j \in Holding : i # j => HandlesAt(i) \cap HandlesAt(j) = {}
    /\ \A i, j \in Holding : \A h \in HandlesAt(i), k \in HandlesAt(j) :
           h # k => pool.res[h].rh # pool.res[k].rh

\* Between two frames no resource is open, and the ROM files that are open are
\* those of openings behind the end of a directory, one for each: no other way
\* through a frame loses a handle, and none closes one that is in use.
Accounted ==
    ~ wild => /\ Cardinality(Unowned(pool)) = lost
              /\ phase = "idle" => \A h \in ResHandles : ~ pool.res[h].active

\* An error number is used as a handle only when one of the pools is nearly used
\* up: by a third nested logic, or by fewer once openings have lost ROM handles.
WildOnlyAtTheLimit ==
    wild => \/ 2 * Len(calls) >= VAGI_RES_MAX_HANDLES - 1
            \/ 2 * Len(calls) + lost >= ROMFS_MAX_HANDLES - 1

\* Every frame ends: a logic that cannot be opened, calls itself or changes the
\* room again and again is stopped by the pool's end and by the count of rounds.
FramesEnd == phase = "run" ~> (phase \in {"idle", "stopped"} \/ wild)
===============================================================================
