--------------------------- MODULE ParaBuddyProofs ---------------------------
(***************************************************************************)
(* Theorems about ParaBuddy for every number of slots, entries and pieces, *)
(* and any number of frames lost, restarts and calls that gave up early:   *)
(* types, how far the device lags behind, and, while no call has given up  *)
(* on an answer that was still to come, whose answer it gets and who owns  *)
(* the sketch's slots.                                                     *)
(***************************************************************************)
EXTENDS ParaBuddy, WellFoundedInduction, FiniteSetTheorems, SequenceTheorems, TLAPS

\* A set of numbers has a least one.
LEMMA LeastExists ==
    ASSUME NEW S \in SUBSET Nat, S # {}
    PROVE  \E i \in S : \A j \in S : i <= j
<1>1. PICK i \in S : \A j \in S : <<j, i>> \notin OpToRel(<, Nat)
  BY WFMin, NatLessThanWellFounded, Zenon
<1>2. \A j \in S : ~(j < i)
  BY <1>1, Zenon DEF OpToRel
<1>3. QED BY <1>2

-----------------------------------------------------------------------------
(* Why the invariants hold.                                                *)

Slot == 0 .. Slots - 1
Value(t) ==
    CASE t = "byte"   -> Slot \cup {PB_NO_HANDLE}
      [] t = "asciiz" -> 0 .. Size["dir"]
      [] t = "data"   -> 0 .. Size["file"]
Frame == [cmd : {"open", "get", "eof", "close"}, kind : Kind, h : Slot, own : BOOLEAN]
Reply == {a \in [kind : {"byte", "asciiz", "data"}, val : Nat, own : BOOLEAN] : a.val \in Value(a.kind)}

Types ==
    /\ TypeOK
    /\ req \in Seq(Frame) /\ ans \in Seq(Reply)
    /\ \A k \in Kind : at[k] <= Size[k]
    /\ up \in BOOLEAN /\ wild \in BOOLEAN

\* What a call is made for, and the name that fs_pb_readdir looks at.
Calls ==
    /\ pc = "open" => open = "no"
    /\ pc \in {"get", "eof"} => open = "yes"
    /\ pc = "eof" => kind = "file"
    /\ open = "yes" /\ kind = "dir" => got = name
    /\ open # "yes" \/ kind = "file" => name = 0

\* At most one frame belongs to the call that waits, and is its request or its answer.
OneOwn ==
    /\ \A i, j \in DOMAIN req : req[i].own /\ req[j].own => i = j
    /\ \A i, j \in DOMAIN ans : ans[i].own /\ ans[j].own => i = j
    /\ \A i \in DOMAIN req, j \in DOMAIN ans : ~(req[i].own /\ ans[j].own)
    /\ \A i \in DOMAIN req : req[i].own => req[i].cmd \in Answered /\ req[i].cmd = pc
    /\ \A j \in DOMAIN ans : ans[j].own => pc \in Answered

\* While no call gave up too early: a request that is answered is the waiting call's and the
\* last sent; a close is of a slot in use, and of the last one held; what is open has its slot.
Asks ==
    \A i \in DOMAIN req : req[i].cmd \in Answered =>
        /\ req[i].own /\ i = Len(req) /\ ans = <<>>
        /\ req[i].kind = kind /\ (pc = "get" => req[i].h = handle)
Closes ==
    \A i \in DOMAIN req : req[i].cmd = "close" =>
        /\ open = "no" /\ req[i].h \in used[req[i].kind]
        /\ \A j \in DOMAIN req : req[j].cmd = "close" => i = j
HasSlot == open # "no" => handle \in used[kind]
InTime  == up /\ Asks /\ Closes /\ HasSlot

\* The answer is the waiting call's and fits, and the sketch is where the program is.
AnswerIs ==
    ans # <<>> =>
        /\ Len(ans) = 1 /\ req = <<>> /\ ans[1].own
        /\ pc = "open" => /\ ans[1].kind = "byte"
                          /\ ans[1].val # PB_NO_HANDLE => ans[1].val \in used[kind] /\ at[kind] = 0
        /\ pc = "get" /\ kind = "dir" =>
              /\ ans[1].kind = "asciiz" /\ ans[1].val <= at["dir"]
              /\ ans[1].val = 0 \/ ans[1].val > got
        /\ pc = "get" /\ kind = "file" =>
              /\ ans[1].kind = "data"
              /\ ans[1].val = IF got < Size["file"] THEN got + 1 ELSE 0
              /\ at["file"] = IF got < Size["file"] THEN got + 1 ELSE got
DirBehind == open = "yes" /\ kind = "dir" => got <= at["dir"]
FileThere ==
    open = "yes" /\ kind = "file" /\ (pc # "get" \/ \E i \in DOMAIN req : req[i].cmd = "get") =>
        at["file"] = got
Fitting == AnswerIs /\ DirBehind /\ FileThere

\* A slot that was opened and not closed is held, or its close is under way, or a frame was lost.
Held == IF open # "no" \/ (pc = "open" /\ ans # <<>> /\ ans[1].val # PB_NO_HANDLE) THEN 1 ELSE 0
Closing == {i \in DOMAIN req : req[i].cmd = "close"}
Counted ==
    /\ Cardinality(used["dir"]) + Cardinality(used["file"]) <= Held + Cardinality(Closing) + faults
    /\ wild => faults >= Slots

Punctual == InTime /\ Fitting /\ Counted

IInv == /\ Types /\ Calls /\ OneOwn /\ LagIsLate
        /\ late = 0 => Punctual

-----------------------------------------------------------------------------
(* The queues.                                                             *)

\* A frame more, at the end; a frame less, at the front.
LEMMA Sent ==
    ASSUME NEW S, NEW q \in Seq(S), NEW f \in S
    PROVE  /\ Append(q, f) \in Seq(S) /\ Append(q, f) # <<>> /\ Len(q) \in Nat
           /\ Len(Append(q, f)) = Len(q) + 1 /\ Append(q, f)[Len(q) + 1] = f
           /\ DOMAIN q = 1 .. Len(q) /\ DOMAIN Append(q, f) = 1 .. Len(q) + 1
           /\ \A i \in 1 .. Len(q) : Append(q, f)[i] = q[i]
BY AppendProperties, LenProperties

LEMMA Taken ==
    ASSUME NEW S, NEW q \in Seq(S), q # <<>>
    PROVE  /\ Head(q) = q[1] /\ q[1] \in S /\ Len(q) \in Nat /\ Len(q) > 0
           /\ Tail(q) \in Seq(S) /\ Len(Tail(q)) = Len(q) - 1
           /\ DOMAIN q = 1 .. Len(q) /\ DOMAIN Tail(q) = 1 .. Len(q) - 1
           /\ \A i \in 1 .. Len(q) - 1 : Tail(q)[i] = q[i + 1]
<1>1. Len(q) \in Nat /\ Len(q) > 0
  BY EmptySeq, LenProperties
<1>2. q[1] \in S
  BY <1>1, ElementOfSeq
<1>3. QED BY <1>1, <1>2, HeadTailProperties, LenProperties

LEMMA Elements ==
    ASSUME NEW S, NEW q \in Seq(S)
    PROVE  /\ Len(q) \in Nat /\ DOMAIN q = 1 .. Len(q) /\ \A i \in 1 .. Len(q) : q[i] \in S
           /\ q = <<>> <=> Len(q) = 0
           /\ <<>> \in Seq(S)
BY LenProperties, ElementOfSeq, EmptySeq

\* A call that returns leaves its frames to nobody.
LEMMA DisownedReq ==
    ASSUME NEW q \in Seq(Frame)
    PROVE  /\ Disown(q) \in Seq(Frame) /\ Len(Disown(q)) = Len(q) /\ DOMAIN Disown(q) = 1 .. Len(q)
           /\ \A i \in 1 .. Len(q) :
                 /\ Disown(q)[i].cmd = q[i].cmd /\ Disown(q)[i].kind = q[i].kind
                 /\ Disown(q)[i].h = q[i].h /\ ~ Disown(q)[i].own
<1>1. Len(q) \in Nat /\ DOMAIN q = 1 .. Len(q) /\ \A i \in 1 .. Len(q) : q[i] \in Frame
  BY Elements
<1>2. \A i \in 1 .. Len(q) : [q[i] EXCEPT !.own = FALSE] \in Frame
  BY <1>1 DEF Frame
<1>3. Disown(q) = [i \in 1 .. Len(q) |-> [q[i] EXCEPT !.own = FALSE]]
  BY <1>1 DEF Disown
<1>4. Disown(q) \in Seq(Frame) /\ Len(Disown(q)) = Len(q)
  BY <1>1, <1>2, <1>3
<1>5. QED BY <1>1, <1>3, <1>4 DEF Frame

LEMMA DisownedAns ==
    ASSUME NEW q \in Seq(Reply)
    PROVE  /\ Disown(q) \in Seq(Reply) /\ Len(Disown(q)) = Len(q) /\ DOMAIN Disown(q) = 1 .. Len(q)
           /\ \A i \in 1 .. Len(q) :
                 /\ Disown(q)[i].kind = q[i].kind /\ Disown(q)[i].val = q[i].val /\ ~ Disown(q)[i].own
<1>1. Len(q) \in Nat /\ DOMAIN q = 1 .. Len(q) /\ \A i \in 1 .. Len(q) : q[i] \in Reply
  BY Elements
<1>2. \A i \in 1 .. Len(q) : [q[i] EXCEPT !.own = FALSE] \in Reply
  BY <1>1 DEF Reply
<1>3. Disown(q) = [i \in 1 .. Len(q) |-> [q[i] EXCEPT !.own = FALSE]]
  BY <1>1 DEF Disown
<1>4. Disown(q) \in Seq(Reply) /\ Len(Disown(q)) = Len(q)
  BY <1>1, <1>2, <1>3
<1>5. QED BY <1>1, <1>3, <1>4 DEF Reply

-----------------------------------------------------------------------------
(* How many frames of a queue are of a kind.                               *)

Places(q, M) == {i \in 1 .. Len(q) : q[i] \in M}
Count(q, M)  == Cardinality(Places(q, M))

LEMMA CountType ==
    ASSUME NEW S, NEW q \in Seq(S), NEW M
    PROVE  IsFiniteSet(Places(q, M)) /\ Count(q, M) \in Nat
<1>1. Len(q) \in Nat /\ Places(q, M) \in SUBSET (1 .. Len(q))
  BY Elements DEF Places
<1>2. IsFiniteSet(1 .. Len(q))
  BY <1>1, FS_Interval
<1>3. IsFiniteSet(Places(q, M))
  BY <1>1, <1>2, FS_Subset
<1>4. QED BY <1>3, FS_CardinalityType DEF Count

LEMMA CountSent ==
    ASSUME NEW S, NEW q \in Seq(S), NEW f \in S, NEW M
    PROVE  Count(Append(q, f), M) = Count(q, M) + (IF f \in M THEN 1 ELSE 0)
<1> DEFINE n == Len(q) + 1
<1>1. n \in Nat /\ n \notin Places(q, M)
  BY Sent DEF Places
<1>2. Places(Append(q, f), M) = Places(q, M) \cup (IF f \in M THEN {n} ELSE {})
  BY Sent DEF Places
<1>3. IsFiniteSet(Places(q, M)) /\ Count(q, M) \in Nat
  BY CountType
<1>4. CASE f \in M
  <2>1. Places(Append(q, f), M) = Places(q, M) \cup {n}
    BY <1>2, <1>4
  <2>2. QED BY <1>1, <1>3, <1>4, <2>1, FS_AddElement DEF Count
<1>5. CASE f \notin M
  <2>1. Places(Append(q, f), M) = Places(q, M)
    BY <1>2, <1>5
  <2>2. QED BY <1>3, <1>5, <2>1 DEF Count
<1>6. QED BY <1>4, <1>5

LEMMA CountTaken ==
    ASSUME NEW S, NEW q \in Seq(S), q # <<>>, NEW M
    PROVE  Count(q, M) = Count(Tail(q), M) + (IF Head(q) \in M THEN 1 ELSE 0)
<1> DEFINE P == Places(q, M)
           T == Places(Tail(q), M)
           g == [i \in T |-> i + 1]
<1>1. Len(q) \in Nat /\ IsFiniteSet(P) /\ IsFiniteSet(T) /\ Count(q, M) \in Nat /\ Count(Tail(q), M) \in Nat
  BY Taken, CountType
<1>2. T = {i \in 1 .. Len(q) - 1 : q[i + 1] \in M}
  BY Taken DEF Places
<1>3. g \in Bijection(T, P \ {1})
  <2>1. g \in [T -> P \ {1}]
    BY <1>1, <1>2 DEF Places
  <2>2. \A i, j \in T : g[i] = g[j] => i = j
    BY <1>2
  <2>3. \A k \in P \ {1} : \E i \in T : g[i] = k
    <3> SUFFICES ASSUME NEW k \in P \ {1} PROVE \E i \in T : g[i] = k
      OBVIOUS
    <3>1. k - 1 \in T /\ (k - 1) + 1 = k
      BY <1>1, <1>2 DEF Places
    <3>2. g[k - 1] = k
      BY <3>1
    <3>3. QED BY <3>1, <3>2
  <2> HIDE DEF g, T, P
  <2>4. QED BY <2>1, <2>2, <2>3 DEF Bijection, Injection, Surjection, IsInjective
<1>4. Cardinality(P \ {1}) = Cardinality(T)
  BY <1>1, <1>3, FS_Bijection DEF ExistsBijection
<1>5. 1 \in P <=> Head(q) \in M
  BY Taken DEF Places
<1>6. Cardinality(P \ {1}) = IF 1 \in P THEN Cardinality(P) - 1 ELSE Cardinality(P)
  BY <1>1, FS_RemoveElement
<1> HIDE DEF g, T, P
<1>7. Count(q, M) = Cardinality(P) /\ Count(Tail(q), M) = Cardinality(T)
  BY DEF Count, P, T
<1>8. QED BY <1>1, <1>4, <1>5, <1>6, <1>7

LEMMA CountNone ==
    ASSUME NEW S, NEW q \in Seq(S), NEW M
    PROVE  /\ Count(q, M) = 0 <=> \A i \in 1 .. Len(q) : q[i] \notin M
           /\ Count(<<>>, M) = 0
<1>1. IsFiniteSet(Places(q, M))
  BY CountType
<1>2. Cardinality(Places(q, M)) = 0 <=> Places(q, M) = {}
  BY <1>1, FS_EmptySet
<1>3. Places(<<>>, M) = {}
  BY DEF Places
<1>4. Cardinality({}) = 0
  BY FS_EmptySet
<1>5. QED BY <1>2, <1>3, <1>4 DEF Count, Places
-----------------------------------------------------------------------------
(* Types.                                                                  *)

LEMMA Constants ==
    /\ Slots \in Nat /\ Slots >= 1 /\ Slot \subseteq Nat /\ 0 \in Slot /\ PB_NO_HANDLE \in Nat
    /\ PB_NO_HANDLE \notin Slot /\ Size["dir"] \in Nat /\ Size["file"] \in Nat
    /\ \A k \in Kind : Size[k] \in Nat
    /\ MaxFaults \in Nat /\ MaxLate \in Nat
BY BuddyAssumption DEF Slot, Kind

LEMMA FrameFields ==
    ASSUME NEW f \in Frame
    PROVE  f.cmd \in {"open", "get", "eof", "close"} /\ f.kind \in Kind /\ f.h \in Slot /\ f.own \in BOOLEAN
BY DEF Frame

LEMMA ReplyFields ==
    ASSUME NEW a \in Reply
    PROVE  /\ a.kind \in {"byte", "asciiz", "data"} /\ a.val \in Nat /\ a.own \in BOOLEAN
           /\ a.kind = "byte" => a.val \in Slot \cup {PB_NO_HANDLE}
           /\ a.kind = "asciiz" => a.val \in 0 .. Size["dir"]
           /\ a.kind = "data" => a.val \in 0 .. Size["file"]
BY DEF Reply, Value

LEMMA MakeReply ==
    ASSUME NEW t \in {"byte", "asciiz", "data"}, NEW v \in Nat, v \in Value(t), NEW b \in BOOLEAN
    PROVE  LET a == [kind |-> t, val |-> v, own |-> b]
           IN  a \in Reply /\ a.kind = t /\ a.val = v /\ a.own = b
BY DEF Reply

LEMMA InitTypes == Init => Types
<1>1. Init => TypeOK
  BY Constants DEF Init, TypeOK, Kind, Slot
<1>2. Init => req \in Seq(Frame) /\ ans \in Seq(Reply) /\ up \in BOOLEAN /\ wild \in BOOLEAN
  <2>1. <<>> \in Seq(Frame) /\ <<>> \in Seq(Reply)
    OBVIOUS
  <2>2. QED BY <2>1 DEF Init
<1>3. Init => \A k \in Kind : at[k] <= Size[k]
  BY Constants DEF Init
<1>4. QED BY <1>1, <1>2, <1>3 DEF Types

\* The frame that a call sends, and the queue with it.
LEMMA SendDoes ==
    ASSUME Types, NEW c \in {"open", "get", "eof", "close"}, NEW k \in Kind, Send(c, k)
    PROVE  LET f == [cmd |-> c, kind |-> k, h |-> handle, own |-> c \in Answered]
           IN  /\ f \in Frame /\ req' \in Seq(Frame)
               /\ f.cmd = c /\ f.kind = k /\ f.h = handle /\ (f.own <=> c \in Answered)
               /\ up => req' = Append(req, f)
               /\ ~ up => req' = req
<1> DEFINE f == [cmd |-> c, kind |-> k, h |-> handle, own |-> c \in Answered]
<1>1. f \in Frame
  BY DEF Types, TypeOK, Frame, Slot, Answered
<1>2. req \in Seq(Frame) /\ up \in BOOLEAN
  BY DEF Types
<1>3. req' = IF up THEN Append(req, f) ELSE req
  BY DEF Send
<1>4. Append(req, f) \in Seq(Frame)
  BY <1>1, <1>2, Sent
<1>5. QED BY <1>1, <1>2, <1>3, <1>4

\* What a call takes, and what it leaves.
LEMMA ReceiveDoes ==
    ASSUME Types, NEW t, Receive(t)
    PROVE  /\ ans # <<>> /\ Head(ans) = ans[1] /\ ans[1] \in Reply /\ Tail(ans) \in Seq(Reply)
           /\ ans' = Disown(Tail(ans)) /\ ans' \in Seq(Reply) /\ req' = Disown(req) /\ req' \in Seq(Frame)
           /\ pc' = "idle" /\ UNCHANGED <<kind, buddy, faults, late>>
<1>1. req \in Seq(Frame) /\ ans \in Seq(Reply) /\ ans # <<>>
  BY DEF Types, Receive
<1>2. Head(ans) = ans[1] /\ ans[1] \in Reply /\ Tail(ans) \in Seq(Reply)
  BY <1>1, Taken
<1>3. Disown(Tail(ans)) \in Seq(Reply) /\ Disown(req) \in Seq(Frame)
  BY <1>1, <1>2, DisownedReq, DisownedAns
<1>4. QED BY <1>1, <1>2, <1>3 DEF Receive

\* What the sketch takes.
LEMMA ServesDoes ==
    ASSUME Types, NEW c, Serves(c)
    PROVE  /\ up /\ req # <<>> /\ Head(req) = req[1] /\ req[1] \in Frame /\ req[1].cmd = c
           /\ req' = Tail(req) /\ req' \in Seq(Frame)
           /\ UNCHANGED <<device, faults, late>>
<1>1. req \in Seq(Frame) /\ req # <<>>
  BY DEF Types, Serves
<1>2. Head(req) = req[1] /\ req[1] \in Frame /\ Tail(req) \in Seq(Frame)
  BY <1>1, Taken
<1>3. QED BY <1>1, <1>2 DEF Serves

LEMMA AnswerDoes ==
    ASSUME Types, NEW t \in {"byte", "asciiz", "data"}, NEW v \in Nat, v \in Value(t),
           req[1] \in Frame, Head(req) = req[1], Answer(t, v)
    PROVE  LET a == [kind |-> t, val |-> v, own |-> req[1].own]
           IN  /\ a \in Reply /\ a.kind = t /\ a.val = v /\ a.own = req[1].own
               /\ ans' = Append(ans, a) /\ ans' \in Seq(Reply)
<1> DEFINE a == [kind |-> t, val |-> v, own |-> req[1].own]
<1>1. req[1].own \in BOOLEAN
  BY FrameFields
<1>2. a \in Reply /\ a.kind = t /\ a.val = v /\ a.own = req[1].own
  BY <1>1, MakeReply
<1>3. ans \in Seq(Reply) /\ ans' = Append(ans, a)
  BY DEF Types, Answer
<1>4. Append(ans, a) \in Seq(Reply)
  BY <1>2, <1>3, Sent
<1>5. QED BY <1>2, <1>3, <1>4

\* The slot that is looked for.
FirstFree(k) == CHOOSE i \in Free(k) : \A f \in Free(k) : i <= f
LEMMA FirstFreeIsFree ==
    ASSUME NEW k \in Kind, Free(k) # {}
    PROVE  FirstFree(k) \in Slot /\ FirstFree(k) \notin used[k]
<1>1. Free(k) \in SUBSET Nat
  BY Constants DEF Free, Slot
<1>2. \E i \in Free(k) : \A f \in Free(k) : i <= f
  BY <1>1, LeastExists
<1>3. FirstFree(k) \in Free(k)
  BY <1>2 DEF FirstFree
<1>4. QED BY <1>3 DEF Free, Slot

\* The three ways an opening can go: refused, without a slot, with one.
LEMMA BuddyOpenDoes ==
    ASSUME Types, BuddyOpen
    PROVE  LET k == req[1].kind
               a(v) == [kind |-> "byte", val |-> v, own |-> req[1].own]
           IN  /\ up /\ req # <<>> /\ req[1] \in Frame /\ req[1].cmd = "open" /\ k \in Kind
               /\ req' = Tail(req) /\ req' \in Seq(Frame) /\ ans' \in Seq(Reply)
               /\ UNCHANGED <<device, faults, late, up>>
               /\ \/ /\ ans' = Append(ans, a(PB_NO_HANDLE)) /\ a(PB_NO_HANDLE) \in Reply
                     /\ UNCHANGED <<used, at, wild>>
                  \/ /\ Free(k) = {} /\ ans' = Append(ans, a(PB_NO_HANDLE)) /\ a(PB_NO_HANDLE) \in Reply
                     /\ at' = [at EXCEPT ![k] = 0] /\ wild' = TRUE /\ UNCHANGED used
                  \/ \E j \in Slot \ used[k] :
                        /\ ans' = Append(ans, a(j)) /\ a(j) \in Reply
                        /\ at' = [at EXCEPT ![k] = 0] /\ used' = [used EXCEPT ![k] = @ \cup {j}]
                        /\ UNCHANGED wild
<1> DEFINE k == req[1].kind
           a(v) == [kind |-> "byte", val |-> v, own |-> req[1].own]
<1>1. /\ up /\ req # <<>> /\ Head(req) = req[1] /\ req[1] \in Frame /\ req[1].cmd = "open"
      /\ req' = Tail(req) /\ req' \in Seq(Frame) /\ UNCHANGED <<device, faults, late>>
  BY ServesDoes DEF BuddyOpen
<1>2. k \in Kind
  BY <1>1, FrameFields
<1>3. \A v \in Slot \cup {PB_NO_HANDLE} : v \in Nat /\ v \in Value("byte")
  BY Constants DEF Value
<1>4. ASSUME NEW v \in Slot \cup {PB_NO_HANDLE}, Answer("byte", v)
      PROVE  ans' = Append(ans, a(v)) /\ a(v) \in Reply /\ ans' \in Seq(Reply)
  BY <1>1, <1>3, <1>4, AnswerDoes
<1>5. /\ UNCHANGED up
      /\ \/ Answer("byte", PB_NO_HANDLE) /\ UNCHANGED <<used, at, wild>>
         \/ /\ at' = [at EXCEPT ![k] = 0]
            /\ IF Free(k) = {}
               THEN Answer("byte", PB_NO_HANDLE) /\ wild' = TRUE /\ UNCHANGED used
               ELSE Answer("byte", FirstFree(k)) /\ used' = [used EXCEPT ![k] = @ \cup {FirstFree(k)}] /\ UNCHANGED wild
  BY <1>1 DEF BuddyOpen, FirstFree
<1>6. Free(k) # {} => FirstFree(k) \in Slot \ used[k]
  BY <1>2, FirstFreeIsFree
<1> HIDE DEF k, a
<1>7. CASE Answer("byte", PB_NO_HANDLE) /\ UNCHANGED <<used, at, wild>>
  <2>1. ans' = Append(ans, a(PB_NO_HANDLE)) /\ a(PB_NO_HANDLE) \in Reply /\ ans' \in Seq(Reply)
    BY <1>4, <1>7
  <2>2. QED BY <1>1, <1>2, <1>5, <1>7, <2>1 DEF k, a
<1>8. CASE /\ Free(k) = {} /\ at' = [at EXCEPT ![k] = 0]
           /\ Answer("byte", PB_NO_HANDLE) /\ wild' = TRUE /\ UNCHANGED used
  <2>1. ans' = Append(ans, a(PB_NO_HANDLE)) /\ a(PB_NO_HANDLE) \in Reply /\ ans' \in Seq(Reply)
    BY <1>4, <1>8
  <2>2. QED BY <1>1, <1>2, <1>5, <1>8, <2>1 DEF k, a
<1>9. CASE /\ Free(k) # {} /\ at' = [at EXCEPT ![k] = 0] /\ Answer("byte", FirstFree(k))
           /\ used' = [used EXCEPT ![k] = @ \cup {FirstFree(k)}] /\ UNCHANGED wild
  <2>1. ans' = Append(ans, a(FirstFree(k))) /\ a(FirstFree(k)) \in Reply /\ ans' \in Seq(Reply)
    BY <1>4, <1>6, <1>9
  <2>2. QED BY <1>1, <1>2, <1>5, <1>6, <1>9, <2>1 DEF k, a
<1>10. QED BY <1>5, <1>7, <1>8, <1>9

\* An entry or a piece, or the end of the sketch.
LEMMA BuddyGetDoes ==
    ASSUME Types, BuddyGet
    PROVE  LET k == req[1].kind
               t == IF k = "dir" THEN "asciiz" ELSE "data"
               v == IF at[k] < Size[k] THEN at[k] + 1 ELSE 0
               a == [kind |-> t, val |-> v, own |-> req[1].own]
           IN  /\ up /\ req # <<>> /\ req[1] \in Frame /\ req[1].cmd = "get" /\ k \in Kind
               /\ req' = Tail(req) /\ req' \in Seq(Frame) /\ ans' \in Seq(Reply)
               /\ UNCHANGED <<device, faults, late, used, wild>>
               /\ \/ req[1].h \notin used[k] /\ up' = FALSE /\ UNCHANGED <<ans, at>>
                  \/ /\ req[1].h \in used[k] /\ a \in Reply /\ ans' = Append(ans, a) /\ UNCHANGED up
                     /\ at' = [at EXCEPT ![k] = IF at[k] < Size[k] THEN at[k] + 1 ELSE at[k]]
<1> DEFINE k == req[1].kind
           t == IF k = "dir" THEN "asciiz" ELSE "data"
           v == IF at[k] < Size[k] THEN at[k] + 1 ELSE 0
           a == [kind |-> t, val |-> v, own |-> req[1].own]
<1>1. /\ up /\ req # <<>> /\ Head(req) = req[1] /\ req[1] \in Frame /\ req[1].cmd = "get"
      /\ req' = Tail(req) /\ req' \in Seq(Frame) /\ UNCHANGED <<device, faults, late>>
  BY ServesDoes DEF BuddyGet
<1>2. k \in Kind
  BY <1>1, FrameFields
<1>3. t \in {"byte", "asciiz", "data"} /\ v \in Nat /\ v \in Value(t)
  <2>1. at[k] \in Nat /\ Size[k] \in Nat /\ (k = "dir" \/ k = "file")
    BY <1>2, Constants DEF Types, TypeOK, Kind
  <2>2. v \in 0 .. Size[k]
    BY <2>1
  <2> HIDE DEF v
  <2>3. QED BY <2>1, <2>2 DEF Value
<1>4. /\ UNCHANGED <<used, wild>>
      /\ IF req[1].h \notin used[k]
         THEN up' = FALSE /\ UNCHANGED <<ans, at>>
         ELSE /\ Answer(t, v)
              /\ at' = [at EXCEPT ![k] = IF @ < Size[k] THEN @ + 1 ELSE @]
              /\ UNCHANGED up
  BY <1>1 DEF BuddyGet
<1>5. CASE req[1].h \notin used[k]
  BY <1>1, <1>2, <1>4, <1>5 DEF Types
<1>6. CASE req[1].h \in used[k]
  <2>1. ans' = Append(ans, a) /\ a \in Reply /\ ans' \in Seq(Reply)
    <3>1. Answer(t, v)
      BY <1>4, <1>6
    <3> HIDE DEF t, v
    <3>2. QED BY <1>1, <1>3, <3>1, AnswerDoes
  <2>2. at' = [at EXCEPT ![k] = IF at[k] < Size[k] THEN at[k] + 1 ELSE at[k]] /\ UNCHANGED up
    BY <1>4, <1>6
  <2> HIDE DEF a
  <2>3. QED BY <1>1, <1>2, <1>4, <1>6, <2>1, <2>2 DEF a
<1>7. QED BY <1>5, <1>6

LEMMA BuddyCloseDoes ==
    ASSUME Types, BuddyClose
    PROVE  LET k == req[1].kind
           IN  /\ up /\ req # <<>> /\ req[1] \in Frame /\ req[1].cmd = "close" /\ k \in Kind
               /\ req' = Tail(req) /\ req' \in Seq(Frame)
               /\ UNCHANGED <<device, faults, late, ans, wild>>
               /\ \/ req[1].h \notin used[k] /\ up' = FALSE /\ UNCHANGED <<used, at>>
                  \/ /\ req[1].h \in used[k] /\ UNCHANGED up
                     /\ used' = [used EXCEPT ![k] = used[k] \ {req[1].h}]
                     /\ at' = [at EXCEPT ![k] = Size[k]]
<1>1. /\ up /\ req # <<>> /\ Head(req) = req[1] /\ req[1] \in Frame /\ req[1].cmd = "close"
      /\ req' = Tail(req) /\ req' \in Seq(Frame) /\ UNCHANGED <<device, faults, late>>
  BY ServesDoes DEF BuddyClose
<1>2. req[1].kind \in Kind
  BY <1>1, FrameFields
<1>3. QED BY <1>1, <1>2 DEF BuddyClose
\* A program's step keeps the types when its frames and its own variables have theirs.
LEMMA DeviceTypes ==
    ASSUME Types, req' \in Seq(Frame), ans' \in Seq(Reply), UNCHANGED buddy,
           pc' \in {"idle", "open", "get", "eof"}, kind' \in Kind, open' \in {"no", "yes", "end"},
           handle' \in Slot, name' \in 0 .. Size["dir"], got' \in 0 .. Size["dir"] + Size["file"],
           faults' \in 0 .. MaxFaults, late' \in 0 .. MaxLate
    PROVE  Types'
BY DEF Types, TypeOK, buddy, Slot

LEMMA PositionSet ==
    ASSUME NEW f \in [Kind -> Nat], \A k \in Kind : f[k] <= Size[k], NEW k \in Kind, NEW n \in Nat, n <= Size[k]
    PROVE  LET g == [f EXCEPT ![k] = n]
           IN  g \in [Kind -> Nat] /\ \A i \in Kind : g[i] <= Size[i]
OBVIOUS

LEMMA NextTypes == Types /\ [Next]_vars => Types'
<1> SUFFICES ASSUME Types, [Next]_vars PROVE Types'
  OBVIOUS
<1>0. /\ req \in Seq(Frame) /\ ans \in Seq(Reply) /\ up \in BOOLEAN /\ wild \in BOOLEAN
      /\ pc \in {"idle", "open", "get", "eof"} /\ kind \in Kind /\ open \in {"no", "yes", "end"}
      /\ handle \in Slot /\ name \in 0 .. Size["dir"] /\ got \in 0 .. Size["dir"] + Size["file"]
      /\ faults \in 0 .. MaxFaults /\ late \in 0 .. MaxLate
      /\ used \in [Kind -> SUBSET Slot] /\ at \in [Kind -> Nat] /\ \A k \in Kind : at[k] <= Size[k]
  BY DEF Types, TypeOK, Slot
<1>1. ASSUME NEW k \in Kind, Open(k) PROVE Types'
  <2>1. req' \in Seq(Frame)
    BY <1>1, SendDoes DEF Open
  <2>2. QED BY <1>0, <1>1, <2>1, DeviceTypes DEF Open
<1>2. CASE Get
  <2>1. req' \in Seq(Frame)
    BY <1>0, <1>2, SendDoes DEF Get
  <2>2. QED BY <1>0, <1>2, <2>1, DeviceTypes DEF Get
<1>3. CASE Eof
  <2>1. req' \in Seq(Frame)
    BY <1>0, <1>3, SendDoes DEF Eof
  <2>2. QED BY <1>0, <1>3, <2>1, DeviceTypes DEF Eof
<1>4. CASE Close
  <2>1. req' \in Seq(Frame)
    BY <1>0, <1>4, SendDoes DEF Close
  <2>2. handle' \in Slot /\ got' \in 0 .. Size["dir"] + Size["file"]
    BY <1>4, Constants DEF Close
  <2>3. QED BY <1>0, <1>4, <2>1, <2>2, DeviceTypes DEF Close
<1>5. CASE ReceiveHandle
  <2>1. /\ ans[1] \in Reply /\ Head(ans) = ans[1] /\ ans' \in Seq(Reply) /\ req' \in Seq(Frame)
        /\ pc' = "idle" /\ UNCHANGED <<kind, buddy, faults, late>>
    BY <1>5, ReceiveDoes DEF ReceiveHandle
  <2>2. PICK h \in Slot \cup {PB_NO_HANDLE} : Opened(h)
    BY <1>5, <2>1, ReplyFields DEF ReceiveHandle, Fits
  <2>3. /\ open' \in {"no", "yes", "end"} /\ handle' \in Slot /\ UNCHANGED name
        /\ got' \in 0 .. Size["dir"] + Size["file"]
    BY <2>2, Constants DEF Opened
  <2>4. QED BY <1>0, <2>1, <2>3, DeviceTypes
<1>6. CASE ReceiveName
  <2>1. /\ ans[1] \in Reply /\ Head(ans) = ans[1] /\ ans' \in Seq(Reply) /\ req' \in Seq(Frame)
        /\ pc' = "idle" /\ UNCHANGED <<kind, buddy, faults, late>>
    BY <1>6, ReceiveDoes DEF ReceiveName
  <2>2. PICK n \in 0 .. Size["dir"] : Listed(n)
    BY <1>0, <1>6, <2>1, ReplyFields, Constants DEF ReceiveName, Fits
  <2>3. /\ open' \in {"no", "yes", "end"} /\ UNCHANGED handle /\ name' \in 0 .. Size["dir"]
        /\ got' \in 0 .. Size["dir"] + Size["file"]
    BY <2>2, Constants DEF Listed
  <2>4. QED BY <1>0, <2>1, <2>3, DeviceTypes
<1>7. CASE ReceiveData
  <2>1. /\ ans[1] \in Reply /\ Head(ans) = ans[1] /\ ans' \in Seq(Reply) /\ req' \in Seq(Frame)
        /\ pc' = "idle" /\ UNCHANGED <<kind, buddy, faults, late>>
    BY <1>7, ReceiveDoes DEF ReceiveData
  <2>2. PICK n \in 0 .. Size["file"] : Got(n)
    BY <1>0, <1>7, <2>1, ReplyFields, Constants DEF ReceiveData, Fits
  <2>3. /\ open' \in {"no", "yes", "end"} /\ UNCHANGED <<handle, name>>
        /\ got' \in 0 .. Size["dir"] + Size["file"]
    BY <1>0, <2>2, Constants DEF Got
  <2>4. QED BY <1>0, <2>1, <2>3, DeviceTypes
<1>8. CASE ReceiveEof
  <2>1. /\ ans' \in Seq(Reply) /\ req' \in Seq(Frame)
        /\ pc' = "idle" /\ UNCHANGED <<kind, buddy, faults, late>>
    BY <1>8, ReceiveDoes DEF ReceiveEof
  <2>2. open' \in {"no", "yes", "end"} /\ UNCHANGED <<handle, name, got>>
    BY <1>8 DEF ReceiveEof, AtEof
  <2>3. QED BY <1>0, <2>1, <2>2, DeviceTypes
<1>9. CASE Timeout
  <2>1. req' \in Seq(Frame) /\ ans' \in Seq(Reply)
    BY <1>0, <1>9, DisownedReq, DisownedAns DEF Timeout
  <2>2. late' \in 0 .. MaxLate /\ UNCHANGED <<kind, buddy, faults>> /\ pc' = "idle"
    BY <1>0, <1>9, Constants DEF Timeout
  <2>3. /\ open' \in {"no", "yes", "end"} /\ handle' \in Slot /\ name' \in 0 .. Size["dir"]
        /\ got' \in 0 .. Size["dir"] + Size["file"]
    <3>1. kind = "dir" \/ kind = "file"
      BY <1>0 DEF Kind
    <3>2. CASE pc = "open"
      BY <1>0, <1>9, <3>2, Constants DEF Timeout, Opened
    <3>3. CASE pc = "get" /\ kind = "dir"
      BY <1>0, <1>9, <3>3, Constants DEF Timeout, Listed
    <3>4. CASE pc = "get" /\ kind = "file"
      BY <1>0, <1>9, <3>4, Constants DEF Timeout, Got
    <3>5. CASE pc = "eof"
      BY <1>0, <1>9, <3>5 DEF Timeout, AtEof
    <3>6. QED BY <1>0, <1>9, <3>1, <3>2, <3>3, <3>4, <3>5 DEF Timeout
  <2>4. QED BY <1>0, <2>1, <2>2, <2>3, DeviceTypes
<1>10. CASE Restart
  <2>1. req' \in Seq(Frame) /\ ans' \in Seq(Reply)
    BY <1>0, <1>10, DisownedReq, DisownedAns DEF Restart
  <2>2. /\ late' \in 0 .. MaxLate /\ faults' \in 0 .. MaxFaults /\ UNCHANGED buddy /\ pc' = "idle"
        /\ kind' \in Kind /\ open' = "no"
    BY <1>0, <1>10, Constants DEF Restart, Kind
  <2>3. handle' \in Slot /\ name' \in 0 .. Size["dir"] /\ got' \in 0 .. Size["dir"] + Size["file"]
    BY <1>10, Constants DEF Restart
  <2>4. QED BY <2>1, <2>2, <2>3, DeviceTypes
<1>11. CASE LoseRequest
  <2>1. req' \in Seq(Frame)
    BY <1>0, <1>11, Taken DEF LoseRequest
  <2>2. faults' \in 0 .. MaxFaults
    BY <1>0, <1>11, Constants DEF LoseRequest
  <2>3. QED BY <1>0, <1>11, <2>1, <2>2, DeviceTypes DEF LoseRequest, device
<1>12. CASE LoseAnswer
  <2>1. ans' \in Seq(Reply)
    BY <1>0, <1>12, Taken DEF LoseAnswer
  <2>2. faults' \in 0 .. MaxFaults
    BY <1>0, <1>12, Constants DEF LoseAnswer
  <2>3. QED BY <1>0, <1>12, <2>1, <2>2, DeviceTypes DEF LoseAnswer, device
<1>13. CASE Unheard
  <2>1. ans' \in Seq(Reply)
    BY <1>0, <1>13, Taken DEF Unheard
  <2>2. QED BY <1>0, <1>13, <2>1, DeviceTypes DEF Unheard, device
<1>14. CASE BuddyOpen
  <2> DEFINE k == req[1].kind
  <2>1. k \in Kind /\ req' \in Seq(Frame) /\ ans' \in Seq(Reply) /\ UNCHANGED <<device, faults, late, up>>
    BY <1>14, BuddyOpenDoes
  <2>2. /\ at' = at \/ at' = [at EXCEPT ![k] = 0]
        /\ used' = used \/ \E j \in Slot : used' = [used EXCEPT ![k] = @ \cup {j}]
        /\ wild' = wild \/ wild' = TRUE
    BY <1>14, BuddyOpenDoes
  <2> HIDE DEF k
  <2>3. at' \in [Kind -> Nat] /\ \A i \in Kind : at'[i] <= Size[i]
    <3>1. CASE at' = at
      BY <1>0, <3>1
    <3>2. CASE at' = [at EXCEPT ![k] = 0]
      BY <1>0, <2>1, <3>2, Constants, PositionSet
    <3>3. QED BY <2>2, <3>1, <3>2
  <2>4. used' \in [Kind -> SUBSET Slot]
    BY <1>0, <2>1, <2>2
  <2>5. QED BY <1>0, <2>1, <2>2, <2>3, <2>4 DEF Types, TypeOK, device, Slot
<1>15. CASE BuddyGet
  <2> DEFINE k == req[1].kind
  <2>1. /\ k \in Kind /\ req' \in Seq(Frame) /\ ans' \in Seq(Reply)
        /\ UNCHANGED <<device, faults, late, used, wild>> /\ up' \in BOOLEAN
    BY <1>0, <1>15, BuddyGetDoes
  <2>2. at' = at \/ at' = [at EXCEPT ![k] = IF at[k] < Size[k] THEN at[k] + 1 ELSE at[k]]
    BY <1>15, BuddyGetDoes
  <2> HIDE DEF k
  <2>3. at[k] \in Nat /\ Size[k] \in Nat
    BY <1>0, <2>1, Constants
  <2>4. at' \in [Kind -> Nat] /\ \A i \in Kind : at'[i] <= Size[i]
    <3>1. CASE at' = at
      BY <1>0, <3>1
    <3>2. CASE at' = [at EXCEPT ![k] = IF at[k] < Size[k] THEN at[k] + 1 ELSE at[k]]
      <4> DEFINE n == IF at[k] < Size[k] THEN at[k] + 1 ELSE at[k]
      <4>1. n \in Nat /\ n <= Size[k]
        BY <1>0, <2>1, <2>3
      <4> HIDE DEF n
      <4>2. QED BY <1>0, <2>1, <3>2, <4>1, PositionSet DEF n
    <3>3. QED BY <2>2, <3>1, <3>2
  <2>5. QED BY <1>0, <2>1, <2>4 DEF Types, TypeOK, device, Slot
<1>16. CASE BuddyClose
  <2> DEFINE k == req[1].kind
  <2>1. /\ k \in Kind /\ req' \in Seq(Frame) /\ ans' = ans
        /\ UNCHANGED <<device, faults, late, wild>> /\ up' \in BOOLEAN
    BY <1>0, <1>16, BuddyCloseDoes
  <2>2. /\ at' = at \/ at' = [at EXCEPT ![k] = Size[k]]
        /\ used' = used \/ used' = [used EXCEPT ![k] = used[k] \ {req[1].h}]
    BY <1>16, BuddyCloseDoes
  <2> HIDE DEF k
  <2>3. at' \in [Kind -> Nat] /\ \A i \in Kind : at'[i] <= Size[i]
    BY <1>0, <2>1, <2>2, Constants
  <2>4. used' \in [Kind -> SUBSET Slot]
    BY <1>0, <2>1, <2>2
  <2>5. QED BY <1>0, <2>1, <2>3, <2>4 DEF Types, TypeOK, device, Slot
<1>17. CASE BuddyUnknown
  <2>1. req' \in Seq(Frame) /\ UNCHANGED <<device, faults, late, ans, buddy>>
    BY <1>17, ServesDoes DEF BuddyUnknown
  <2>2. QED BY <1>0, <2>1, DeviceTypes DEF device
<1>18. CASE UNCHANGED vars
  BY <1>18 DEF Types, TypeOK, vars, device, buddy
<1>19. QED
  BY <1>1, <1>2, <1>3, <1>4, <1>5, <1>6, <1>7, <1>8, <1>9, <1>10, <1>11, <1>12, <1>13, <1>14,
     <1>15, <1>16, <1>17, <1>18 DEF Next, Program, Answers, Line, Buddy

-----------------------------------------------------------------------------
(* What a call is made for.                                                *)

LEMMA NextCalls == Types /\ Calls /\ [Next]_vars => Calls'
<1> SUFFICES ASSUME Types, Calls, [Next]_vars PROVE Calls'
  OBVIOUS
<1>0. kind = "dir" \/ kind = "file"
  BY DEF Types, TypeOK, Kind
<1>1. ASSUME NEW k \in Kind, Open(k) PROVE Calls'
  BY <1>1 DEF Open, Calls
<1>2. CASE Get
  BY <1>2 DEF Get, Calls
<1>3. CASE Eof
  BY <1>3 DEF Eof, Calls
<1>4. CASE Close
  BY <1>4 DEF Close, Calls
<1>5. CASE ReceiveHandle
  BY <1>5 DEF ReceiveHandle, Receive, Opened, Calls
<1>6. CASE ReceiveName
  BY <1>6 DEF ReceiveName, Receive, Listed, Calls
<1>7. CASE ReceiveData
  BY <1>7 DEF ReceiveData, Receive, Got, Calls
<1>8. CASE ReceiveEof
  BY <1>8 DEF ReceiveEof, Receive, AtEof, Calls
<1>9. CASE Timeout
  <2>1. pc' = "idle" /\ kind' = kind
    BY <1>9 DEF Timeout
  <2>2. CASE pc = "open"
    BY <1>0, <1>9, <2>1, <2>2 DEF Timeout, Opened, Calls
  <2>3. CASE pc = "get" /\ kind = "dir"
    BY <1>9, <2>1, <2>3 DEF Timeout, Listed, Calls
  <2>4. CASE pc = "get" /\ kind = "file"
    BY <1>9, <2>1, <2>4 DEF Timeout, Got, Calls
  <2>5. CASE pc = "eof"
    BY <1>9, <2>1, <2>5 DEF Timeout, AtEof, Calls
  <2>6. pc \in {"open", "get", "eof"}
    BY <1>9 DEF Timeout, Types, TypeOK
  <2>7. QED BY <1>0, <2>2, <2>3, <2>4, <2>5, <2>6
<1>10. CASE Restart
  BY <1>10 DEF Restart, Calls
<1>11. CASE UNCHANGED device
  BY <1>11 DEF device, Calls
<1>12. Line \/ Buddy => UNCHANGED device
  BY DEF Line, Buddy, LoseRequest, LoseAnswer, Unheard, BuddyOpen, BuddyGet, BuddyClose, BuddyUnknown, Serves
<1>13. UNCHANGED vars => UNCHANGED device
  BY DEF vars
<1>14. QED
  BY <1>1, <1>2, <1>3, <1>4, <1>5, <1>6, <1>7, <1>8, <1>9, <1>10, <1>11, <1>12, <1>13
     DEF Next, Program, Answers

-----------------------------------------------------------------------------
(* Whose frames they are.                                                  *)

\* What begins a call, what ends it, and what the line and the sketch do.
Begins  == Program
Returns == Answers \/ Timeout \/ Restart

\* Sending needs that nobody waits.
LEMMA BeginsDoes ==
    ASSUME Types, Begins
    PROVE  \E c \in {"open", "get", "eof", "close"} :
              LET f == [cmd |-> c, kind |-> kind', h |-> handle, own |-> c \in Answered]
              IN  /\ pc = "idle" /\ pc' = IF c = "close" THEN "idle" ELSE c
                  /\ UNCHANGED <<ans, buddy, faults, late, name>>
                  /\ f \in Frame /\ f.cmd = c /\ f.kind = kind' /\ f.h = handle /\ (f.own <=> c \in Answered)
                  /\ req' = (IF up THEN Append(req, f) ELSE req) /\ req' \in Seq(Frame)
                  /\ kind' \in Kind /\ (kind' = kind \/ c = "open")
                  /\ c = "open" => open = "no" /\ UNCHANGED <<open, handle, got>>
                  /\ c = "get" => open = "yes" /\ UNCHANGED <<open, handle, got>>
                  /\ c = "eof" => open = "yes" /\ kind = "file" /\ UNCHANGED <<open, handle, got>>
                  /\ c = "close" => open = "end" /\ open' = "no"
<1>0. kind \in Kind
  BY DEF Types, TypeOK
<1>1. ASSUME NEW k \in Kind, Open(k)
      PROVE  /\ pc = "idle" /\ pc' = "open" /\ UNCHANGED <<ans, buddy, faults, late, name, open, handle, got>>
             /\ Send("open", kind') /\ kind' \in Kind /\ open = "no"
  BY <1>1 DEF Open
<1>2. Get => /\ pc = "idle" /\ pc' = "get" /\ UNCHANGED <<ans, buddy, faults, late, name, open, handle, got, kind>>
             /\ Send("get", kind') /\ open = "yes"
  BY DEF Get
<1>3. Eof => /\ pc = "idle" /\ pc' = "eof" /\ UNCHANGED <<ans, buddy, faults, late, name, open, handle, got, kind>>
             /\ Send("eof", kind') /\ open = "yes" /\ kind = "file"
  BY DEF Eof
<1>4. Close => /\ pc = "idle" /\ pc' = "idle" /\ UNCHANGED <<ans, buddy, faults, late, name, kind>>
               /\ Send("close", kind') /\ open = "end" /\ open' = "no"
  BY DEF Close
<1>5. ASSUME NEW c \in {"open", "get", "eof", "close"}, kind' \in Kind, Send(c, kind')
      PROVE  LET f == [cmd |-> c, kind |-> kind', h |-> handle, own |-> c \in Answered]
             IN  /\ f \in Frame /\ f.cmd = c /\ f.kind = kind' /\ f.h = handle /\ (f.own <=> c \in Answered)
                 /\ req' = (IF up THEN Append(req, f) ELSE req) /\ req' \in Seq(Frame)
  <2>1. up \in BOOLEAN
    BY DEF Types
  <2>2. QED BY <1>5, <2>1, SendDoes
<1>6. CASE \E k \in Kind : Open(k)
  <2>1. /\ pc = "idle" /\ pc' = "open" /\ UNCHANGED <<ans, buddy, faults, late, name, open, handle, got>>
        /\ Send("open", kind') /\ kind' \in Kind /\ open = "no"
    BY <1>1, <1>6
  <2>2. QED BY <1>5, <2>1
<1>7. CASE Get
  BY <1>0, <1>2, <1>5, <1>7
<1>8. CASE Eof
  BY <1>0, <1>3, <1>5, <1>8
<1>9. CASE Close
  BY <1>0, <1>4, <1>5, <1>9
<1>10. QED BY <1>6, <1>7, <1>8, <1>9 DEF Begins, Program

\* When a call returns, what is left of its frames is nobody's.  It gave up too early if
\* there was one and it did not take it.
LEMMA ReturnsDoes ==
    ASSUME Types, Returns
    PROVE  /\ pc' = "idle" /\ UNCHANGED buddy /\ req' = Disown(req)
           /\ \/ /\ Answers /\ ans # <<>> /\ ans' = Disown(Tail(ans)) /\ UNCHANGED <<kind, faults, late>>
              \/ /\ Timeout \/ Restart
                 /\ ans' = Disown(ans) /\ late' = IF Coming THEN late + 1 ELSE late
<1>1. Answers => \E t \in {"byte", "asciiz", "data"} : Receive(t)
  BY DEF Answers, ReceiveHandle, ReceiveName, ReceiveData, ReceiveEof
<1>2. CASE Answers
  BY <1>1, <1>2 DEF Receive
<1>3. CASE Timeout
  BY <1>3 DEF Timeout
<1>4. CASE Restart
  BY <1>4 DEF Restart
<1>5. QED BY <1>2, <1>3, <1>4 DEF Returns

\* A frame that is lost, or that the sketch takes, is the first one.
LEMMA LineDoes ==
    ASSUME Types, Line
    PROVE  /\ UNCHANGED <<device, buddy, late>>
           /\ \/ req # <<>> /\ req' = Tail(req) /\ UNCHANGED ans /\ faults' = faults + 1
              \/ ans # <<>> /\ ans' = Tail(ans) /\ UNCHANGED req /\ faults' = faults + 1
              \/ ans # <<>> /\ ans' = Tail(ans) /\ UNCHANGED <<req, faults>> /\ pc = "idle"
BY DEF Line, LoseRequest, LoseAnswer, Unheard

LEMMA BuddyDoes ==
    ASSUME Types, Buddy
    PROVE  /\ up /\ req # <<>> /\ req[1] \in Frame /\ req' = Tail(req) /\ req' \in Seq(Frame)
           /\ UNCHANGED <<device, faults, late>> /\ up' \in BOOLEAN /\ ans' \in Seq(Reply)
           /\ \/ UNCHANGED ans /\ (up' => req[1].cmd \notin Answered)
              \/ req[1].cmd \in Answered /\ \E a \in Reply : a.own = req[1].own /\ ans' = Append(ans, a)
<1>0. up \in BOOLEAN /\ ans \in Seq(Reply)
  BY DEF Types
<1>1. CASE BuddyOpen
  <2>1. /\ up /\ req # <<>> /\ req[1] \in Frame /\ req' = Tail(req) /\ req' \in Seq(Frame)
        /\ UNCHANGED <<device, faults, late, up>> /\ ans' \in Seq(Reply) /\ req[1].cmd = "open"
        /\ \E v : [kind |-> "byte", val |-> v, own |-> req[1].own] \in Reply
                  /\ ans' = Append(ans, [kind |-> "byte", val |-> v, own |-> req[1].own])
    BY <1>1, BuddyOpenDoes
  <2>2. PICK v : /\ [kind |-> "byte", val |-> v, own |-> req[1].own] \in Reply
                 /\ ans' = Append(ans, [kind |-> "byte", val |-> v, own |-> req[1].own])
    BY <2>1
  <2>3. [kind |-> "byte", val |-> v, own |-> req[1].own].own = req[1].own
    OBVIOUS
  <2>4. QED BY <1>0, <2>1, <2>2, <2>3 DEF Answered
<1>2. CASE BuddyGet
  <2> DEFINE k == req[1].kind
             a == [kind |-> IF k = "dir" THEN "asciiz" ELSE "data",
                   val |-> IF at[k] < Size[k] THEN at[k] + 1 ELSE 0, own |-> req[1].own]
  <2>1. /\ up /\ req # <<>> /\ req[1] \in Frame /\ req' = Tail(req) /\ req' \in Seq(Frame)
        /\ UNCHANGED <<device, faults, late>> /\ ans' \in Seq(Reply) /\ req[1].cmd = "get"
        /\ (up' = FALSE /\ UNCHANGED ans) \/ (a \in Reply /\ ans' = Append(ans, a) /\ UNCHANGED up)
    BY <1>2, BuddyGetDoes
  <2>2. a.own = req[1].own
    OBVIOUS
  <2> HIDE DEF a
  <2>3. QED BY <1>0, <2>1, <2>2 DEF Answered
<1>3. CASE BuddyClose
  <2>1. /\ up /\ req # <<>> /\ req[1] \in Frame /\ req' = Tail(req) /\ req' \in Seq(Frame)
        /\ UNCHANGED <<device, faults, late, ans>> /\ req[1].cmd = "close" /\ up' \in BOOLEAN
    BY <1>0, <1>3, BuddyCloseDoes
  <2>2. QED BY <1>0, <2>1 DEF Answered
<1>4. CASE BuddyUnknown
  <2>1. /\ up /\ req # <<>> /\ req[1] \in Frame /\ req' = Tail(req) /\ req' \in Seq(Frame)
        /\ UNCHANGED <<device, faults, late, ans, buddy>> /\ req[1].cmd = "eof"
    BY <1>4, ServesDoes DEF BuddyUnknown
  <2>2. QED BY <1>0, <2>1 DEF Answered, buddy
<1>5. QED BY <1>1, <1>2, <1>3, <1>4 DEF Buddy

LEMMA NextSplit == Next <=> Begins \/ Returns \/ Line \/ Buddy
BY DEF Next, Begins, Returns

LEMMA NextOwn == Types /\ OneOwn /\ [Next]_vars => OneOwn'
<1> SUFFICES ASSUME Types, OneOwn, [Next]_vars PROVE OneOwn'
  OBVIOUS
<1>0. /\ req \in Seq(Frame) /\ ans \in Seq(Reply) /\ DOMAIN req = 1 .. Len(req) /\ DOMAIN ans = 1 .. Len(ans)
      /\ Len(req) \in Nat /\ Len(ans) \in Nat
      /\ \A i \in 1 .. Len(req) : req[i] \in Frame
      /\ \A i \in 1 .. Len(ans) : ans[i] \in Reply
  BY Elements DEF Types
<1>1. CASE Begins
  <2>1. PICK c \in {"open", "get", "eof", "close"} :
              LET f == [cmd |-> c, kind |-> kind', h |-> handle, own |-> c \in Answered]
              IN  /\ pc = "idle" /\ pc' = (IF c = "close" THEN "idle" ELSE c) /\ UNCHANGED ans
                  /\ f \in Frame /\ f.cmd = c /\ (f.own <=> c \in Answered)
                  /\ req' = IF up THEN Append(req, f) ELSE req
    BY <1>1, BeginsDoes
  <2> DEFINE f == [cmd |-> c, kind |-> kind', h |-> handle, own |-> c \in Answered]
  <2>2. /\ \A i \in DOMAIN req : ~ req[i].own
        /\ \A j \in DOMAIN ans : ~ ans[j].own
    BY <2>1 DEF OneOwn, Answered
  <2>3. CASE up
    <3>1. /\ DOMAIN req' = 1 .. Len(req) + 1 /\ req'[Len(req) + 1] = f
          /\ \A i \in 1 .. Len(req) : req'[i] = req[i]
      BY <1>0, <2>1, <2>3, Sent
    <3>2. f.own => f.cmd \in Answered /\ f.cmd = pc'
      BY <2>1 DEF Answered
    <3> HIDE DEF f
    <3>3. \A i \in DOMAIN req' : req'[i].own => i = Len(req) + 1
      BY <1>0, <2>2, <3>1
    <3>4. QED BY <1>0, <2>1, <2>2, <3>1, <3>2, <3>3 DEF OneOwn
  <2>4. CASE ~ up
    BY <2>1, <2>2, <2>4 DEF OneOwn
  <2>5. QED BY <2>3, <2>4
<1>2. CASE Returns
  <2>1. req' = Disown(req) /\ (ans' = Disown(ans) \/ (ans # <<>> /\ ans' = Disown(Tail(ans))))
    BY <1>2, ReturnsDoes
  <2>2. \A i \in DOMAIN req' : ~ req'[i].own
    BY <1>0, <2>1, DisownedReq
  <2>3. \A i \in DOMAIN ans' : ~ ans'[i].own
    <3>1. CASE ans' = Disown(ans)
      BY <1>0, <3>1, DisownedAns
    <3>2. CASE ans # <<>> /\ ans' = Disown(Tail(ans))
      <4>1. Tail(ans) \in Seq(Reply)
        BY <1>0, <3>2, Taken
      <4>2. QED BY <3>2, <4>1, DisownedAns
    <3>3. QED BY <2>1, <3>1, <3>2
  <2>4. QED BY <2>2, <2>3 DEF OneOwn
<1>3. CASE Line
  <2>1. /\ pc' = pc
        /\ \/ req # <<>> /\ req' = Tail(req) /\ ans' = ans
           \/ ans # <<>> /\ ans' = Tail(ans) /\ req' = req
    BY <1>3, LineDoes DEF device
  <2>2. CASE req # <<>> /\ req' = Tail(req) /\ ans' = ans
    <3>1. /\ DOMAIN req' = 1 .. Len(req) - 1 /\ \A i \in DOMAIN req' : i + 1 \in DOMAIN req /\ req'[i] = req[i + 1]
      BY <1>0, <2>2, Taken
    <3>2. \A i, j \in DOMAIN req' : req'[i].own /\ req'[j].own => i = j
      <4> SUFFICES ASSUME NEW i \in DOMAIN req', NEW j \in DOMAIN req', req'[i].own, req'[j].own PROVE i = j
        OBVIOUS
      <4>1. i + 1 = j + 1
        BY <3>1 DEF OneOwn
      <4>2. QED BY <1>0, <3>1, <4>1
    <3>3. QED BY <2>1, <2>2, <3>1, <3>2 DEF OneOwn
  <2>3. CASE ans # <<>> /\ ans' = Tail(ans) /\ req' = req
    <3>1. /\ DOMAIN ans' = 1 .. Len(ans) - 1 /\ \A i \in DOMAIN ans' : i + 1 \in DOMAIN ans /\ ans'[i] = ans[i + 1]
      BY <1>0, <2>3, Taken
    <3>2. \A i, j \in DOMAIN ans' : ans'[i].own /\ ans'[j].own => i = j
      <4> SUFFICES ASSUME NEW i \in DOMAIN ans', NEW j \in DOMAIN ans', ans'[i].own, ans'[j].own PROVE i = j
        OBVIOUS
      <4>1. i + 1 = j + 1
        BY <3>1 DEF OneOwn
      <4>2. QED BY <1>0, <3>1, <4>1
    <3>3. QED BY <2>1, <2>3, <3>1, <3>2 DEF OneOwn
  <2>4. QED BY <2>1, <2>2, <2>3
<1>4. CASE Buddy
  <2>1. /\ req # <<>> /\ req[1] \in Frame /\ req' = Tail(req) /\ pc' = pc
        /\ \/ ans' = ans
           \/ req[1].cmd \in Answered /\ \E a \in Reply : a.own = req[1].own /\ ans' = Append(ans, a)
    BY <1>4, BuddyDoes DEF device
  <2>2. /\ DOMAIN req' = 1 .. Len(req) - 1 /\ \A i \in DOMAIN req' : i + 1 \in DOMAIN req /\ req'[i] = req[i + 1]
        /\ 1 \in DOMAIN req
    BY <1>0, <2>1, Taken
  <2>3. CASE ans' = ans
    BY <1>0, <2>1, <2>2, <2>3 DEF OneOwn
  <2>4. CASE \E a \in Reply : a.own = req[1].own /\ ans' = Append(ans, a)
    <3>1. PICK a \in Reply : a.own = req[1].own /\ ans' = Append(ans, a)
      BY <2>4
    <3>2. /\ DOMAIN ans' = 1 .. Len(ans) + 1 /\ ans'[Len(ans) + 1] = a
          /\ \A i \in 1 .. Len(ans) : ans'[i] = ans[i]
      BY <1>0, <3>1, Sent
    <3>3. CASE req[1].own
      <4>1. /\ \A i \in DOMAIN req' : ~ req'[i].own
            /\ \A j \in DOMAIN ans : ~ ans[j].own
            /\ pc \in Answered
        BY <1>0, <2>2, <3>3 DEF OneOwn
      <4>2. \A j \in DOMAIN ans' : ans'[j].own => j = Len(ans) + 1
        BY <1>0, <3>2, <4>1
      <4>3. QED BY <2>1, <4>1, <4>2 DEF OneOwn
    <3>4. CASE ~ req[1].own
      <4>1. ~ a.own
        BY <3>1, <3>4
      <4>2. \A j \in DOMAIN ans' : ans'[j].own => j \in DOMAIN ans /\ ans'[j] = ans[j]
        BY <1>0, <3>2, <4>1
      <4>3. QED BY <1>0, <2>1, <2>2, <4>2 DEF OneOwn
    <3>5. QED BY <3>3, <3>4
  <2>5. QED BY <2>1, <2>3, <2>4
<1>5. CASE UNCHANGED vars
  BY <1>5 DEF OneOwn, vars, device
<1>6. QED BY <1>1, <1>2, <1>3, <1>4, <1>5, NextSplit

-----------------------------------------------------------------------------
(* How far the device lags behind.                                         *)

StaleReq == {f \in Frame : f.cmd \in Answered /\ ~ f.own}
StaleAns == {a \in Reply : ~ a.own}
Lag(u, r, a) == Count(a, StaleAns) + (IF u THEN Count(r, StaleReq) ELSE 0)

LEMMA LagForm ==
    ASSUME NEW u \in BOOLEAN, NEW r \in Seq(Frame), NEW a \in Seq(Reply)
    PROVE  LET come   == {i \in DOMAIN a : ~ a[i].own}
               toCome == {i \in DOMAIN r : u /\ r[i].cmd \in Answered /\ ~ r[i].own}
           IN  Cardinality(come) + Cardinality(toCome) = Lag(u, r, a)
<1> DEFINE come   == {i \in DOMAIN a : ~ a[i].own}
           toCome == {i \in DOMAIN r : u /\ r[i].cmd \in Answered /\ ~ r[i].own}
<1>1. come = Places(a, StaleAns)
  BY Elements DEF Places, StaleAns
<1>2. u => toCome = Places(r, StaleReq)
  BY Elements DEF Places, StaleReq
<1>3. ~ u => toCome = {}
  OBVIOUS
<1>4. Cardinality({}) = 0
  BY FS_EmptySet
<1> HIDE DEF come, toCome
<1>5. Cardinality(come) = Count(a, StaleAns) /\ Cardinality(toCome) = IF u THEN Count(r, StaleReq) ELSE 0
  BY <1>1, <1>2, <1>3, <1>4 DEF Count
<1>6. QED BY <1>5 DEF Lag, come, toCome

\* A call that returns makes its frame a stale one.
LEMMA DisownCountAns ==
    ASSUME NEW q \in Seq(Reply), \A i, j \in 1 .. Len(q) : q[i].own /\ q[j].own => i = j
    PROVE  Count(Disown(q), StaleAns) =
               Count(q, StaleAns) + (IF \E i \in 1 .. Len(q) : q[i].own THEN 1 ELSE 0)
<1> DEFINE P == Places(q, StaleAns)
<1>1. Places(Disown(q), StaleAns) = 1 .. Len(q)
  <2>1. /\ Len(Disown(q)) = Len(q) /\ \A i \in 1 .. Len(q) : Disown(q)[i] \in Reply /\ ~ Disown(q)[i].own
    BY DisownedAns, Elements
  <2>2. QED BY <2>1 DEF Places, StaleAns
<1>2. P = {i \in 1 .. Len(q) : ~ q[i].own}
  BY Elements DEF Places, StaleAns
<1>3. IsFiniteSet(P) /\ Cardinality(P) \in Nat /\ Cardinality(P) = Count(q, StaleAns)
  BY CountType DEF Count
<1> HIDE DEF P
<1>4. CASE \E i \in 1 .. Len(q) : q[i].own
  <2>1. PICK i \in 1 .. Len(q) : q[i].own
    BY <1>4
  <2>2. 1 .. Len(q) = P \cup {i} /\ i \notin P
    BY <1>2, <2>1
  <2>3. Cardinality(P \cup {i}) = Cardinality(P) + 1
    BY <1>3, <2>2, FS_AddElement
  <2>4. QED BY <1>1, <1>3, <1>4, <2>2, <2>3 DEF Count
<1>5. CASE ~ \E i \in 1 .. Len(q) : q[i].own
  <2>1. 1 .. Len(q) = P
    BY <1>2, <1>5
  <2>2. QED BY <1>1, <1>3, <1>5, <2>1 DEF Count
<1>6. QED BY <1>4, <1>5

LEMMA DisownCountReq ==
    ASSUME NEW q \in Seq(Frame), \A i, j \in 1 .. Len(q) : q[i].own /\ q[j].own => i = j,
           \A i \in 1 .. Len(q) : q[i].own => q[i].cmd \in Answered
    PROVE  Count(Disown(q), StaleReq) =
               Count(q, StaleReq) + (IF \E i \in 1 .. Len(q) : q[i].own THEN 1 ELSE 0)
<1> DEFINE P == Places(q, StaleReq)
           A == {i \in 1 .. Len(q) : q[i].cmd \in Answered}
<1>1. Places(Disown(q), StaleReq) = A
  <2>1. /\ Len(Disown(q)) = Len(q)
        /\ \A i \in 1 .. Len(q) : /\ Disown(q)[i] \in Frame /\ ~ Disown(q)[i].own
                                  /\ Disown(q)[i].cmd = q[i].cmd
    BY DisownedReq, Elements
  <2>2. QED BY <2>1 DEF Places, StaleReq
<1>2. P = {i \in 1 .. Len(q) : q[i].cmd \in Answered /\ ~ q[i].own}
  BY Elements DEF Places, StaleReq
<1>3. IsFiniteSet(P) /\ Cardinality(P) \in Nat /\ Cardinality(P) = Count(q, StaleReq)
  BY CountType DEF Count
<1>4. CASE \E i \in 1 .. Len(q) : q[i].own
  <2>1. PICK i \in 1 .. Len(q) : q[i].own
    BY <1>4
  <2>2. A = P \cup {i} /\ i \notin P
    BY <1>2, <2>1
  <2> HIDE DEF P, A
  <2>3. Cardinality(P \cup {i}) = Cardinality(P) + 1
    BY <1>3, <2>2, FS_AddElement
  <2>4. QED BY <1>1, <1>3, <1>4, <2>2, <2>3 DEF Count
<1>5. CASE ~ \E i \in 1 .. Len(q) : q[i].own
  <2>1. A = P
    BY <1>2, <1>5
  <2> HIDE DEF P, A
  <2>2. QED BY <1>1, <1>3, <1>5, <2>1 DEF Count
<1>6. QED BY <1>4, <1>5

LEMMA NextLag == Types /\ OneOwn /\ LagIsLate /\ [Next]_vars => LagIsLate'
<1> SUFFICES ASSUME Types, OneOwn, LagIsLate, [Next]_vars PROVE LagIsLate'
  OBVIOUS
<1>0. /\ req \in Seq(Frame) /\ ans \in Seq(Reply) /\ up \in BOOLEAN /\ late \in Nat
      /\ DOMAIN req = 1 .. Len(req) /\ DOMAIN ans = 1 .. Len(ans)
  <2>1. late \in Nat
    BY Constants DEF Types, TypeOK
  <2>2. QED BY <2>1, Elements DEF Types
<1>1. req' \in Seq(Frame) /\ ans' \in Seq(Reply) /\ up' \in BOOLEAN
  <2>1. Types'
    BY NextTypes
  <2>2. QED BY <2>1 DEF Types
<1>2. Lag(up, req, ans) <= late
  BY <1>0, LagForm DEF LagIsLate
<1> DEFINE a == Count(ans, StaleAns)
           r == Count(req, StaleReq)
<1>3. a \in Nat /\ r \in Nat /\ Lag(up, req, ans) = a + (IF up THEN r ELSE 0)
  BY <1>0, CountType DEF Lag
<1> SUFFICES Lag(up', req', ans') <= late'
  <2>1. Lag(up', req', ans') <= late' => LagIsLate'
    BY <1>1, LagForm DEF LagIsLate
  <2>2. QED BY <2>1
<1> HIDE DEF a, r
<1>4. CASE Begins
  <2>1. PICK c \in {"open", "get", "eof", "close"} :
              LET f == [cmd |-> c, kind |-> kind', h |-> handle, own |-> c \in Answered]
              IN  /\ UNCHANGED <<ans, up, late>>
                  /\ f \in Frame /\ f.cmd = c /\ (f.own <=> c \in Answered)
                  /\ req' = IF up THEN Append(req, f) ELSE req
    BY <1>4, BeginsDoes DEF buddy
  <2> DEFINE f == [cmd |-> c, kind |-> kind', h |-> handle, own |-> c \in Answered]
  <2>2. f \notin StaleReq
    BY <2>1 DEF StaleReq
  <2> HIDE DEF f
  <2>3. up => Count(req', StaleReq) = r
    BY <1>0, <1>3, <2>1, <2>2, CountSent DEF r, f
  <2>4. QED BY <1>2, <1>3, <2>1, <2>3 DEF Lag, a
<1>5. CASE Returns
  <2>1. /\ UNCHANGED up /\ req' = Disown(req)
        /\ \/ ans # <<>> /\ ans' = Disown(Tail(ans)) /\ late' = late
           \/ ans' = Disown(ans) /\ late' = IF Coming THEN late + 1 ELSE late
    BY <1>5, ReturnsDoes DEF buddy
  <2>2. Count(req', StaleReq) = r + (IF \E i \in 1 .. Len(req) : req[i].own THEN 1 ELSE 0)
    BY <1>0, <2>1, DisownCountReq DEF OneOwn, r
  <2>3. CASE ans # <<>> /\ ans' = Disown(Tail(ans)) /\ late' = late
    <3> DEFINE t == Count(Tail(ans), StaleAns)
    <3>1. /\ Tail(ans) \in Seq(Reply) /\ Head(ans) = ans[1] /\ ans[1] \in Reply /\ 1 \in DOMAIN ans
          /\ \A i \in 1 .. Len(Tail(ans)) : i + 1 \in DOMAIN ans /\ Tail(ans)[i] = ans[i + 1]
          /\ \A i \in 1 .. Len(Tail(ans)) : i + 1 # 1
      BY <1>0, <2>3, Taken
    <3>2. \A i, j \in 1 .. Len(Tail(ans)) : Tail(ans)[i].own /\ Tail(ans)[j].own => i = j
      <4> SUFFICES ASSUME NEW i \in 1 .. Len(Tail(ans)), NEW j \in 1 .. Len(Tail(ans)),
                          Tail(ans)[i].own, Tail(ans)[j].own
                   PROVE  i = j
        OBVIOUS
      <4>1. i + 1 = j + 1
        BY <3>1 DEF OneOwn
      <4>2. QED BY <4>1
    <3>3. Count(ans', StaleAns) = t + (IF \E i \in 1 .. Len(Tail(ans)) : Tail(ans)[i].own THEN 1 ELSE 0)
      BY <2>3, <3>1, <3>2, DisownCountAns
    <3>4. a = t + (IF Head(ans) \in StaleAns THEN 1 ELSE 0) /\ t \in Nat
      BY <1>0, <2>3, <3>1, CountTaken, CountType DEF a
    <3>5. Head(ans) \in StaleAns <=> ~ ans[1].own
      BY <3>1 DEF StaleAns
    <3>6. CASE ans[1].own
      <4>1. ~ \E i \in 1 .. Len(Tail(ans)) : Tail(ans)[i].own
        BY <3>1, <3>6 DEF OneOwn
      <4>2. ~ \E i \in 1 .. Len(req) : req[i].own
        BY <1>0, <3>1, <3>6 DEF OneOwn
      <4> HIDE DEF t
      <4>3. Count(ans', StaleAns) = a /\ Count(req', StaleReq) = r
        BY <1>3, <2>2, <3>3, <3>4, <3>5, <3>6, <4>1, <4>2
      <4>4. QED BY <1>2, <1>3, <2>1, <2>3, <4>3 DEF Lag
    <3>7. CASE ~ ans[1].own
      <4>1. ~ ((\E i \in 1 .. Len(Tail(ans)) : Tail(ans)[i].own) /\ (\E i \in 1 .. Len(req) : req[i].own))
        BY <1>0, <3>1 DEF OneOwn
      <4> HIDE DEF t
      <4>2. Count(ans', StaleAns) + Count(req', StaleReq) <= a + r /\ Count(ans', StaleAns) <= a
            /\ Count(ans', StaleAns) \in Nat /\ Count(req', StaleReq) \in Nat
        BY <1>3, <2>2, <3>3, <3>4, <3>5, <3>7, <4>1
      <4>3. QED BY <1>0, <1>2, <1>3, <2>1, <2>3, <4>2 DEF Lag
    <3>8. QED BY <3>6, <3>7
  <2>4. CASE ans' = Disown(ans) /\ late' = IF Coming THEN late + 1 ELSE late
    <3>1. Count(ans', StaleAns) = a + (IF \E i \in 1 .. Len(ans) : ans[i].own THEN 1 ELSE 0)
      BY <1>0, <2>4, DisownCountAns DEF OneOwn, a
    <3>2. ~ ((\E i \in 1 .. Len(ans) : ans[i].own) /\ (\E i \in 1 .. Len(req) : req[i].own))
      BY <1>0 DEF OneOwn
    <3>3. Coming <=> (up /\ \E i \in 1 .. Len(req) : req[i].own) \/ \E i \in 1 .. Len(ans) : ans[i].own
      BY <1>0 DEF Coming
    <3>4. CASE up
      BY <1>0, <1>2, <1>3, <2>1, <2>2, <2>4, <3>1, <3>2, <3>3, <3>4 DEF Lag
    <3>5. CASE ~ up
      BY <1>0, <1>2, <1>3, <2>1, <2>4, <3>1, <3>3, <3>5 DEF Lag
    <3>6. QED BY <3>4, <3>5
  <2>5. QED BY <2>1, <2>3, <2>4
<1>6. CASE Line
  <2>1. /\ UNCHANGED <<up, late>>
        /\ \/ req # <<>> /\ req' = Tail(req) /\ ans' = ans
           \/ ans # <<>> /\ ans' = Tail(ans) /\ req' = req
    BY <1>6, LineDoes DEF buddy
  <2>2. Count(req', StaleReq) \in Nat /\ Count(ans', StaleAns) \in Nat
    BY <1>1, CountType
  <2>3. Count(req', StaleReq) <= r /\ Count(ans', StaleAns) <= a
    <3>1. req # <<>> => Count(req, StaleReq) = Count(Tail(req), StaleReq) + (IF Head(req) \in StaleReq THEN 1 ELSE 0)
      BY <1>0, CountTaken
    <3>2. ans # <<>> => Count(ans, StaleAns) = Count(Tail(ans), StaleAns) + (IF Head(ans) \in StaleAns THEN 1 ELSE 0)
      BY <1>0, CountTaken
    <3>3. a = Count(ans, StaleAns) /\ r = Count(req, StaleReq)
      BY DEF a, r
    <3>4. CASE req # <<>> /\ req' = Tail(req) /\ ans' = ans
      BY <1>3, <2>2, <3>1, <3>3, <3>4
    <3>5. CASE ans # <<>> /\ ans' = Tail(ans) /\ req' = req
      BY <1>3, <2>2, <3>2, <3>3, <3>5
    <3>6. QED BY <2>1, <3>4, <3>5
  <2>4. QED BY <1>0, <1>2, <1>3, <2>1, <2>2, <2>3 DEF Lag
<1>7. CASE Buddy
  <2>1. /\ up /\ req # <<>> /\ req[1] \in Frame /\ req' = Tail(req) /\ UNCHANGED late
        /\ \/ UNCHANGED ans
           \/ req[1].cmd \in Answered /\ \E v \in Reply : v.own = req[1].own /\ ans' = Append(ans, v)
    BY <1>7, BuddyDoes
  <2>2. Head(req) = req[1]
    BY <1>0, <2>1, Taken
  <2>3. r = Count(req', StaleReq) + (IF req[1] \in StaleReq THEN 1 ELSE 0) /\ Count(req', StaleReq) \in Nat
    BY <1>0, <1>1, <2>1, <2>2, CountTaken, CountType DEF r
  <2>4. CASE UNCHANGED ans
    BY <1>0, <1>1, <1>2, <1>3, <2>1, <2>3, <2>4 DEF Lag, a
  <2>5. CASE req[1].cmd \in Answered /\ \E v \in Reply : v.own = req[1].own /\ ans' = Append(ans, v)
    <3>1. PICK v \in Reply : v.own = req[1].own /\ ans' = Append(ans, v)
      BY <2>5
    <3>2. Count(ans', StaleAns) = a + (IF v \in StaleAns THEN 1 ELSE 0)
      BY <1>0, <3>1, CountSent DEF a
    <3>3. v \in StaleAns <=> req[1] \in StaleReq
      BY <2>1, <2>5, <3>1 DEF StaleAns, StaleReq
    <3>4. Count(ans', StaleAns) + Count(req', StaleReq) = a + r
      BY <1>3, <2>3, <3>2, <3>3
    <3>5. Count(ans', StaleAns) \in Nat
      BY <1>1, CountType
    <3>6. QED BY <1>0, <1>1, <1>2, <1>3, <2>1, <2>3, <3>4, <3>5 DEF Lag
  <2>6. QED BY <2>1, <2>4, <2>5
<1>8. CASE UNCHANGED vars
  BY <1>2, <1>8 DEF vars, buddy
<1>9. QED BY <1>4, <1>5, <1>6, <1>7, <1>8, NextSplit

-----------------------------------------------------------------------------
(* While no call has given up too early.                                   *)

Steady == Types /\ Calls /\ OneOwn /\ InTime /\ Fitting /\ late = 0 /\ late' = 0

LEMMA StillNone == Types /\ [Next]_vars /\ late' = 0 => late = 0
<1> SUFFICES ASSUME Types, [Next]_vars, late' = 0 PROVE late = 0
  OBVIOUS
<1>1. late \in Nat
  BY Constants DEF Types, TypeOK
<1>2. late' = late \/ late' = late + 1
  <2>1. Begins => late' = late
    BY BeginsDoes
  <2>2. Returns => late' = late \/ late' = late + 1
    BY ReturnsDoes
  <2>3. Line \/ Buddy => late' = late
    BY LineDoes, BuddyDoes
  <2>4. UNCHANGED vars => late' = late
    BY DEF vars
  <2>5. QED BY <2>1, <2>2, <2>3, <2>4, NextSplit
<1>3. QED BY <1>1, <1>2

LEMMA Queues ==
    ASSUME Types
    PROVE  /\ req \in Seq(Frame) /\ ans \in Seq(Reply) /\ DOMAIN req = 1 .. Len(req) /\ DOMAIN ans = 1 .. Len(ans)
           /\ Len(req) \in Nat /\ Len(ans) \in Nat
           /\ \A i \in 1 .. Len(req) : req[i] \in Frame
           /\ \A i \in 1 .. Len(ans) : ans[i] \in Reply
           /\ (req = <<>> <=> Len(req) = 0) /\ (ans = <<>> <=> Len(ans) = 0)
BY Elements DEF Types

\* Nothing is under way to a program that does not wait.
LEMMA IdleIsQuiet ==
    ASSUME Steady, pc \notin Answered
    PROVE  ans = <<>> /\ \A i \in DOMAIN req : req[i].cmd \notin Answered
<1>1. ans # <<>> => FALSE
  <2> SUFFICES ASSUME ans # <<>> PROVE FALSE
    OBVIOUS
  <2>1. 1 \in DOMAIN ans /\ ans[1].own
    BY Queues DEF Steady, Fitting, AnswerIs
  <2>2. QED BY <2>1 DEF Steady, OneOwn
<1>2. ASSUME NEW i \in DOMAIN req, req[i].cmd \in Answered PROVE FALSE
  BY <1>2 DEF Steady, InTime, Asks, OneOwn
<1>3. QED BY <1>1, <1>2

\* A call that gives up has nothing under way either: it was lost.
LEMMA LostIsQuiet ==
    ASSUME Steady, Timeout \/ Restart
    PROVE  /\ ans = <<>> /\ \A i \in DOMAIN req : req[i].cmd \notin Answered
           /\ ans' = <<>> /\ req' = Disown(req) /\ UNCHANGED buddy /\ pc' = "idle"
<1>1. /\ UNCHANGED buddy /\ pc' = "idle" /\ req' = Disown(req) /\ ans' = Disown(ans)
      /\ late' = IF Coming THEN late + 1 ELSE late
  BY DEF Timeout, Restart
<1>2. ~ Coming
  BY <1>1 DEF Steady
<1>3. /\ \A i \in DOMAIN req : ~ req[i].own
      /\ \A i \in DOMAIN ans : ~ ans[i].own
  BY <1>2 DEF Coming, Steady, InTime
<1>4. ans = <<>>
  BY <1>3, Queues DEF Steady, Fitting, AnswerIs
<1>5. \A i \in DOMAIN req : req[i].cmd \notin Answered
  BY <1>3 DEF Steady, InTime, Asks
<1>6. ans' = <<>>
  <2>1. ans' \in Seq(Reply) /\ Len(ans') = 0
    BY <1>1, <1>4, Queues, DisownedAns DEF Steady
  <2>2. QED BY <2>1, Elements
<1>7. QED BY <1>1, <1>4, <1>5, <1>6

\* The answer that is taken is the only frame there is.
LEMMA TakenIsLast ==
    ASSUME Steady, Answers
    PROVE  /\ Len(ans) = 1 /\ Head(ans) = ans[1] /\ ans[1] \in Reply /\ req = <<>> /\ pc \in Answered
           /\ ans' = <<>> /\ req' = <<>> /\ UNCHANGED <<kind, buddy, faults>> /\ pc' = "idle"
<1>1. /\ pc' = "idle" /\ UNCHANGED buddy /\ req' = Disown(req)
      /\ ans # <<>> /\ ans' = Disown(Tail(ans)) /\ UNCHANGED <<kind, faults>>
  <2>1. PICK t \in {"byte", "asciiz", "data"} : Receive(t)
    BY DEF Answers, ReceiveHandle, ReceiveName, ReceiveData, ReceiveEof
  <2>2. QED BY <2>1 DEF Receive
<1>2. Len(ans) = 1 /\ req = <<>> /\ ans[1].own
  BY <1>1 DEF Steady, Fitting, AnswerIs
<1>3. Types
  BY DEF Steady
<1>4. Head(ans) = ans[1] /\ ans[1] \in Reply /\ Tail(ans) \in Seq(Reply) /\ Len(Tail(ans)) = 0 /\ 1 \in DOMAIN ans
  BY <1>1, <1>2, <1>3, Queues, Taken
<1>5. ans' \in Seq(Reply) /\ Len(ans') = 0 /\ req' \in Seq(Frame) /\ Len(req') = 0
  BY <1>1, <1>2, <1>3, <1>4, Queues, DisownedReq, DisownedAns
<1>6. pc \in Answered
  BY <1>2, <1>4 DEF Steady, OneOwn
<1>7. QED BY <1>1, <1>2, <1>4, <1>5, <1>6, Elements

\* An answered request that the sketch takes is the only frame there is.
LEMMA ServedIsLast ==
    ASSUME Steady, req # <<>>, req[1].cmd \in Answered, req' = Tail(req)
    PROVE  /\ req' = <<>> /\ Len(req) = 1 /\ ans = <<>> /\ req[1].own /\ req[1].cmd = pc /\ req[1].kind = kind
           /\ pc = "get" => req[1].h = handle
<1>0. Types
  BY DEF Steady
<1>1. 1 \in DOMAIN req
  BY <1>0, Queues
<1>2. /\ Len(req) = 1 /\ ans = <<>> /\ req[1].own /\ req[1].kind = kind /\ req[1].cmd = pc
      /\ pc = "get" => req[1].h = handle
  BY <1>1 DEF Steady, InTime, Asks, OneOwn
<1>3. req' \in Seq(Frame) /\ Len(req') = 0
  BY <1>0, <1>2, Queues, Taken
<1>4. QED BY <1>2, <1>3, Elements

\* What the requests say still holds when the first is gone.
LEMMA FirstGone ==
    ASSUME Types, req # <<>>, req' = Tail(req), UNCHANGED <<ans, device, used>>
    PROVE  (Asks => Asks') /\ (Closes => Closes')
<1>1. /\ Len(req) \in Nat /\ Len(req') = Len(req) - 1 /\ DOMAIN req = 1 .. Len(req) /\ DOMAIN req' = 1 .. Len(req')
      /\ \A i \in DOMAIN req' : i \in Nat /\ i + 1 \in DOMAIN req /\ req'[i] = req[i + 1]
  BY Queues, Taken
<1>2. Asks => Asks'
  <2> SUFFICES ASSUME Asks, NEW i \in DOMAIN req', req'[i].cmd \in Answered
               PROVE  /\ req'[i].own /\ i = Len(req') /\ ans' = <<>>
                      /\ req'[i].kind = kind' /\ (pc' = "get" => req'[i].h = handle')
    BY DEF Asks
  <2>1. /\ req[i + 1].own /\ i + 1 = Len(req) /\ ans = <<>>
        /\ req[i + 1].kind = kind /\ (pc = "get" => req[i + 1].h = handle)
    BY <1>1 DEF Asks
  <2>2. i = Len(req')
    BY <1>1, <2>1
  <2>3. QED BY <1>1, <2>1, <2>2 DEF device
<1>3. Closes => Closes'
  <2> SUFFICES ASSUME Closes, NEW i \in DOMAIN req', req'[i].cmd = "close"
               PROVE  /\ open' = "no" /\ req'[i].h \in used'[req'[i].kind]
                      /\ \A j \in DOMAIN req' : req'[j].cmd = "close" => i = j
    BY DEF Closes
  <2>1. /\ open = "no" /\ req[i + 1].h \in used[req[i + 1].kind]
        /\ \A j \in DOMAIN req : req[j].cmd = "close" => i + 1 = j
    BY <1>1 DEF Closes
  <2>2. ASSUME NEW j \in DOMAIN req', req'[j].cmd = "close" PROVE i = j
    <3>1. i + 1 = j + 1
      BY <1>1, <2>1, <2>2
    <3>2. QED BY <1>1, <3>1
  <2>3. QED BY <1>1, <2>1, <2>2 DEF device
<1>4. QED BY <1>2, <1>3

-----------------------------------------------------------------------------
(* Requests and slots in time.                                             *)

LEMMA BeginsInTime == Steady /\ Begins => InTime'
<1> SUFFICES ASSUME Steady, Begins PROVE InTime'
  OBVIOUS
<1>0. Types /\ Calls /\ up /\ Asks /\ Closes /\ HasSlot
  BY DEF Steady, InTime
<1>1. PICK c \in {"open", "get", "eof", "close"} :
         LET f == [cmd |-> c, kind |-> kind', h |-> handle, own |-> c \in Answered]
         IN  /\ pc = "idle" /\ pc' = (IF c = "close" THEN "idle" ELSE c)
             /\ UNCHANGED <<ans, buddy, faults, late, name>>
             /\ f \in Frame /\ f.cmd = c /\ f.kind = kind' /\ f.h = handle /\ (f.own <=> c \in Answered)
             /\ req' = (IF up THEN Append(req, f) ELSE req)
             /\ kind' \in Kind /\ (kind' = kind \/ c = "open")
             /\ c = "open" => open = "no" /\ UNCHANGED <<open, handle, got>>
             /\ c = "get" => open = "yes" /\ UNCHANGED <<open, handle, got>>
             /\ c = "eof" => open = "yes" /\ kind = "file" /\ UNCHANGED <<open, handle, got>>
             /\ c = "close" => open = "end" /\ open' = "no"
  BY <1>0, BeginsDoes
<1> DEFINE f == [cmd |-> c, kind |-> kind', h |-> handle, own |-> c \in Answered]
           n == Len(req) + 1
<1>2. /\ DOMAIN req' = 1 .. n /\ Len(req') = n /\ req'[n] = f /\ n \in Nat
      /\ DOMAIN req = 1 .. Len(req)
      /\ \A i \in 1 .. Len(req) : req'[i] = req[i]
      /\ \A i \in DOMAIN req' : i = n \/ i \in DOMAIN req
  BY <1>0, <1>1, Queues, Sent
<1>3. ans = <<>> /\ \A i \in DOMAIN req : req[i].cmd \notin Answered
  BY <1>1, IdleIsQuiet DEF Answered
<1>4. f.cmd = c /\ f.kind = kind' /\ f.h = handle /\ (f.own <=> c \in Answered)
  BY <1>1
<1> HIDE DEF f, n
<1>5. Asks'
  <2> SUFFICES ASSUME NEW i \in DOMAIN req', req'[i].cmd \in Answered
               PROVE  /\ req'[i].own /\ i = Len(req') /\ ans' = <<>>
                      /\ req'[i].kind = kind' /\ (pc' = "get" => req'[i].h = handle')
    BY DEF Asks
  <2>1. i = n
    BY <1>2, <1>3
  <2>2. QED BY <1>1, <1>2, <1>3, <1>4, <2>1
<1>6. Closes'
  <2> SUFFICES ASSUME NEW i \in DOMAIN req', req'[i].cmd = "close"
               PROVE  /\ open' = "no" /\ req'[i].h \in used'[req'[i].kind]
                      /\ \A j \in DOMAIN req' : req'[j].cmd = "close" => i = j
    BY DEF Closes
  <2>1. used' = used
    BY <1>1 DEF buddy
  <2>2. CASE c = "close"
    <3>1. \A j \in DOMAIN req : req[j].cmd # "close"
      BY <1>0, <1>1, <2>2 DEF Closes
    <3>2. \A j \in DOMAIN req' : req'[j].cmd = "close" => j = n
      BY <1>2, <3>1
    <3>3. handle \in used[kind] /\ kind' = kind /\ open' = "no"
      BY <1>0, <1>1, <2>2 DEF HasSlot
    <3>4. QED BY <1>2, <1>4, <2>1, <3>2, <3>3
  <2>3. CASE c # "close"
    <3>1. i \in DOMAIN req /\ req'[i] = req[i]
      BY <1>2, <1>4, <2>3
    <3>2. /\ open = "no" /\ req[i].h \in used[req[i].kind]
          /\ \A j \in DOMAIN req : req[j].cmd = "close" => i = j
      BY <1>0, <3>1 DEF Closes
    <3>3. open' = "no"
      BY <1>1, <2>3, <3>2
    <3>4. QED BY <1>2, <1>4, <2>1, <2>3, <3>1, <3>2, <3>3
  <2>4. QED BY <2>2, <2>3
<1>7. HasSlot'
  BY <1>0, <1>1 DEF HasSlot, buddy
<1>8. QED BY <1>0, <1>1, <1>5, <1>6, <1>7 DEF InTime, buddy

LEMMA ReturnsInTime == Steady /\ Returns => InTime'
<1> SUFFICES ASSUME Steady, Returns PROVE InTime'
  OBVIOUS
<1>0. Types /\ Calls /\ up /\ Asks /\ Closes /\ HasSlot /\ AnswerIs
  BY DEF Steady, InTime, Fitting
<1>1. CASE Answers
  <2>1. /\ Head(ans) = ans[1] /\ ans[1] \in Reply /\ req = <<>> /\ ans # <<>>
        /\ ans' = <<>> /\ req' = <<>> /\ UNCHANGED <<kind, buddy>>
    BY <1>1, TakenIsLast
  <2>2. DOMAIN req' = {}
    BY <2>1
  <2>3. Asks' /\ Closes'
    BY <2>2 DEF Asks, Closes
  <2>4. HasSlot'
    <3>1. CASE ReceiveHandle
      <4>1. pc = "open" /\ Opened(ans[1].val)
        BY <2>1, <3>1, <1>0 DEF ReceiveHandle, Fits, AnswerIs
      <4>2. open' # "no" => ans[1].val # PB_NO_HANDLE /\ handle' = ans[1].val
        BY <4>1 DEF Opened
      <4>3. QED BY <1>0, <2>1, <4>1, <4>2 DEF HasSlot, AnswerIs, buddy
    <3>2. CASE ReceiveName \/ ReceiveData \/ ReceiveEof
      <4>1. open = "yes" /\ handle' = handle
        BY <1>0, <3>2 DEF ReceiveName, ReceiveData, ReceiveEof, Listed, Got, AtEof, Calls
      <4>2. QED BY <1>0, <2>1, <4>1 DEF HasSlot, buddy
    <3>3. QED BY <1>1, <3>1, <3>2 DEF Answers
  <2>5. QED BY <1>0, <2>1, <2>3, <2>4 DEF InTime, buddy
<1>2. CASE Timeout \/ Restart
  <2>1. /\ ans = <<>> /\ \A i \in DOMAIN req : req[i].cmd \notin Answered
        /\ ans' = <<>> /\ req' = Disown(req) /\ UNCHANGED buddy
    BY <1>2, LostIsQuiet
  <2>2. /\ DOMAIN req' = DOMAIN req
        /\ \A i \in DOMAIN req : /\ req'[i].cmd = req[i].cmd /\ req'[i].kind = req[i].kind
                                 /\ req'[i].h = req[i].h
    BY <1>0, <2>1, Queues, DisownedReq
  <2>3. Asks'
    BY <2>1, <2>2 DEF Asks
  <2>4. open' # "no" => open = "yes" /\ handle' = handle /\ kind' = kind
    <3>1. CASE Restart
      BY <3>1 DEF Restart
    <3>2. CASE Timeout
      <4>1. pc \in {"open", "get", "eof"} /\ kind \in {"dir", "file"} /\ kind' = kind
        BY <1>0, <3>2 DEF Timeout, Types, TypeOK, Kind
      <4>2. CASE pc = "open"
        BY <3>2, <4>2 DEF Timeout, Opened
      <4>3. CASE pc = "get" /\ kind = "dir"
        BY <1>0, <3>2, <4>1, <4>3 DEF Timeout, Listed, Calls
      <4>4. CASE pc = "get" /\ kind = "file"
        BY <1>0, <3>2, <4>1, <4>4 DEF Timeout, Got, Calls
      <4>5. CASE pc = "eof"
        BY <1>0, <3>2, <4>1, <4>5 DEF Timeout, AtEof, Calls
      <4>6. QED BY <4>1, <4>2, <4>3, <4>4, <4>5
    <3>3. QED BY <1>2, <3>1, <3>2
  <2>5. open = "no" => open' = "no"
    BY <1>0, <2>4 DEF Types, TypeOK
  <2>6. Closes'
    BY <1>0, <2>1, <2>2, <2>5 DEF Closes, buddy
  <2>7. HasSlot'
    BY <1>0, <2>1, <2>4 DEF HasSlot, buddy
  <2>8. QED BY <1>0, <2>1, <2>3, <2>6, <2>7 DEF InTime, buddy
<1>3. QED BY <1>1, <1>2 DEF Returns

LEMMA LineInTime == Steady /\ Line => InTime'
<1> SUFFICES ASSUME Steady, Line PROVE InTime'
  OBVIOUS
<1>0. Types /\ up /\ Asks /\ Closes /\ HasSlot
  BY DEF Steady, InTime
<1>1. /\ UNCHANGED <<device, buddy, late>>
      /\ \/ req # <<>> /\ req' = Tail(req) /\ UNCHANGED ans
         \/ ans # <<>> /\ UNCHANGED req
  BY <1>0, LineDoes
<1>2. HasSlot' /\ up'
  BY <1>0, <1>1 DEF HasSlot, device, buddy
<1>3. CASE req # <<>> /\ req' = Tail(req) /\ UNCHANGED ans
  BY <1>0, <1>1, <1>2, <1>3, FirstGone DEF InTime, buddy
<1>4. CASE ans # <<>> /\ UNCHANGED req
  BY <1>0, <1>1, <1>2, <1>4 DEF InTime, Asks, Closes, device, buddy
<1>5. QED BY <1>1, <1>3, <1>4

LEMMA BuddyInTime == Steady /\ Buddy => InTime'
<1> SUFFICES ASSUME Steady, Buddy PROVE InTime'
  OBVIOUS
<1>0. Types /\ Calls /\ up /\ Asks /\ Closes /\ HasSlot
  BY DEF Steady, InTime
<1>1. CASE BuddyOpen
  <2>1. /\ req # <<>> /\ req[1].cmd = "open" /\ req' = Tail(req) /\ UNCHANGED <<device, up>>
    BY <1>0, <1>1, BuddyOpenDoes
  <2>2. req' = <<>> /\ pc = "open"
    BY <2>1, ServedIsLast DEF Answered
  <2>3. DOMAIN req' = {} /\ open' = "no"
    BY <1>0, <2>1, <2>2 DEF Calls, device
  <2>4. QED BY <1>0, <2>1, <2>3 DEF InTime, Asks, Closes, HasSlot
<1>2. CASE BuddyGet
  <2>1. /\ req # <<>> /\ req[1].cmd = "get" /\ req' = Tail(req) /\ UNCHANGED <<device, used>>
        /\ req[1].h \in used[req[1].kind] => up' = up
    BY <1>0, <1>2, BuddyGetDoes
  <2>2. req' = <<>> /\ pc = "get" /\ req[1].h = handle /\ req[1].kind = kind
    BY <2>1, ServedIsLast DEF Answered
  <2>3. DOMAIN req' = {} /\ up'
    <3>1. open = "yes"
      BY <1>0, <2>2 DEF Calls
    <3>2. handle \in used[kind]
      BY <1>0, <3>1 DEF HasSlot
    <3>3. up' = up
      BY <2>1, <2>2, <3>2
    <3>4. QED BY <1>0, <2>2, <3>3
  <2>4. HasSlot'
    BY <1>0, <2>1 DEF HasSlot, device
  <2>5. QED BY <2>3, <2>4 DEF InTime, Asks, Closes
<1>3. CASE BuddyClose
  <2>1. /\ req # <<>> /\ req[1].cmd = "close" /\ req' = Tail(req) /\ UNCHANGED <<device, ans>>
        /\ req[1].h \in used[req[1].kind] => up' = up
    BY <1>0, <1>3, BuddyCloseDoes
  <2>2. /\ Len(req) \in Nat /\ Len(req') = Len(req) - 1 /\ DOMAIN req = 1 .. Len(req) /\ DOMAIN req' = 1 .. Len(req')
        /\ 1 \in DOMAIN req
        /\ \A i \in DOMAIN req' : i \in Nat /\ i + 1 \in DOMAIN req /\ i + 1 # 1 /\ req'[i] = req[i + 1]
    BY <1>0, <2>1, Queues, Taken
  <2>3. open = "no" /\ up' /\ \A j \in DOMAIN req : req[j].cmd = "close" => 1 = j
    BY <1>0, <2>1, <2>2 DEF Closes
  <2>4. \A i \in DOMAIN req' : req'[i].cmd # "close"
    BY <2>2, <2>3
  <2>5. Asks'
    <3> SUFFICES ASSUME NEW i \in DOMAIN req', req'[i].cmd \in Answered
                 PROVE  /\ req'[i].own /\ i = Len(req') /\ ans' = <<>>
                        /\ req'[i].kind = kind' /\ (pc' = "get" => req'[i].h = handle')
      BY DEF Asks
    <3>1. /\ req[i + 1].own /\ i + 1 = Len(req) /\ ans = <<>>
          /\ req[i + 1].kind = kind /\ (pc = "get" => req[i + 1].h = handle)
      BY <1>0, <2>2 DEF Asks
    <3>2. i = Len(req')
      BY <2>2, <3>1
    <3>3. QED BY <2>1, <2>2, <3>1, <3>2 DEF device
  <2>6. QED BY <2>1, <2>3, <2>4, <2>5 DEF InTime, Closes, HasSlot, device
<1>4. CASE BuddyUnknown
  <2>1. /\ req # <<>> /\ req' = Tail(req) /\ UNCHANGED <<device, ans, buddy>>
    BY <1>0, <1>4, ServesDoes DEF BuddyUnknown
  <2>2. Asks' /\ Closes'
    BY <1>0, <2>1, FirstGone DEF buddy
  <2>3. HasSlot' /\ up'
    BY <1>0, <2>1 DEF HasSlot, device, buddy
  <2>4. QED BY <2>2, <2>3 DEF InTime
<1>5. QED BY <1>1, <1>2, <1>3, <1>4 DEF Buddy

-----------------------------------------------------------------------------
(* Answers and positions in time.                                          *)

LEMMA BeginsFitting == Steady /\ Begins => Fitting'
<1> SUFFICES ASSUME Steady, Begins PROVE Fitting'
  OBVIOUS
<1>0. Types /\ AnswerIs /\ DirBehind /\ FileThere
  BY DEF Steady, Fitting
<1>1. PICK c \in {"open", "get", "eof", "close"} :
             /\ pc = "idle" /\ UNCHANGED <<ans, at>>
             /\ kind' = kind \/ c = "open"
             /\ c = "open" => open = "no" /\ UNCHANGED <<open, got>>
             /\ c = "get" => UNCHANGED <<open, got>>
             /\ c = "eof" => UNCHANGED <<open, got>>
             /\ c = "close" => open' = "no"
  BY <1>0, BeginsDoes DEF buddy
<1>2. ans' = <<>>
  BY <1>1, IdleIsQuiet DEF Answered
<1>3. open' = "yes" => open = "yes" /\ kind' = kind /\ got' = got
  BY <1>1
<1>4. QED BY <1>0, <1>1, <1>2, <1>3 DEF Fitting, AnswerIs, DirBehind, FileThere

LEMMA ReturnsFitting == Steady /\ Returns => Fitting'
<1> SUFFICES ASSUME Steady, Returns PROVE Fitting'
  OBVIOUS
<1>0. Types /\ Calls /\ AnswerIs /\ DirBehind /\ FileThere
  BY DEF Steady, Fitting
<1>a. got \in Nat /\ Size["file"] \in Nat /\ kind \in {"dir", "file"} /\ at["dir"] \in Nat /\ at["file"] \in Nat
  BY <1>0, Constants DEF Types, TypeOK, Kind
\* It is enough to look at what is still open.
<1> SUFFICES open' = "yes" => /\ kind' = "dir" => got' <= at'["dir"]
                              /\ kind' = "file" => at'["file"] = got'
  <2>1. ans' = <<>>
    BY TakenIsLast, LostIsQuiet DEF Returns
  <2>2. QED BY <2>1 DEF Fitting, AnswerIs, DirBehind, FileThere
<1>1. CASE Answers
  <2>1. Head(ans) = ans[1] /\ ans[1] \in Reply /\ ans # <<>> /\ UNCHANGED <<kind, buddy>> /\ pc \in Answered
    BY <1>1, TakenIsLast
  <2>2. at' = at /\ kind' = kind
    BY <2>1 DEF buddy
  <2>3. CASE ReceiveHandle
    <3>1. pc = "open" /\ Opened(ans[1].val)
      BY <2>1, <2>3, <1>0 DEF ReceiveHandle, Fits, AnswerIs
    <3>2. open' = "yes" => ans[1].val # PB_NO_HANDLE /\ got' = 0
      BY <3>1 DEF Opened
    <3>3. open' = "yes" => at[kind] = 0
      BY <1>0, <2>1, <3>1, <3>2 DEF AnswerIs
    <3>4. QED BY <1>a, <2>2, <3>2, <3>3
  <2>4. CASE ReceiveName
    <3>1. pc = "get" /\ kind = "dir" /\ Listed(ans[1].val) /\ ans[1].val <= at["dir"]
      BY <1>0, <2>1, <2>4 DEF ReceiveName, Fits, AnswerIs
    <3>2. QED BY <2>2, <3>1 DEF Listed
  <2>5. CASE ReceiveData
    <3>1. /\ pc = "get" /\ kind = "file" /\ Got(ans[1].val)
          /\ ans[1].val = IF got < Size["file"] THEN got + 1 ELSE 0
          /\ at["file"] = IF got < Size["file"] THEN got + 1 ELSE got
      BY <1>0, <2>1, <2>5 DEF ReceiveData, Fits, AnswerIs
    <3>2. QED BY <1>a, <2>2, <3>1 DEF Got
  <2>6. ~ ReceiveEof
    BY <2>1 DEF ReceiveEof, Answered
  <2>7. QED BY <1>1, <2>3, <2>4, <2>5, <2>6 DEF Answers
<1>2. CASE Restart
  BY <1>2 DEF Restart
<1>3. CASE Timeout
  <2>1. pc \in {"open", "get", "eof"} /\ kind' = kind /\ at' = at
    BY <1>0, <1>3 DEF Timeout, Types, TypeOK, buddy
  <2>2. CASE pc = "open"
    BY <1>3, <2>2 DEF Timeout, Opened
  <2>3. CASE pc = "get" /\ kind = "dir"
    <3>1. Listed(name) /\ got = name
      BY <1>0, <1>3, <2>3 DEF Timeout, Calls
    <3>2. QED BY <1>0, <2>1, <2>3, <3>1 DEF Listed, DirBehind, Calls
  <2>4. CASE pc = "get" /\ kind = "file"
    BY <1>3, <2>4 DEF Timeout, Got
  <2>5. CASE pc = "eof"
    BY <1>3, <2>5 DEF Timeout, AtEof
  <2>6. QED BY <1>a, <2>1, <2>2, <2>3, <2>4, <2>5
<1>4. QED BY <1>1, <1>2, <1>3 DEF Returns

LEMMA LineFitting == Steady /\ Line => Fitting'
<1> SUFFICES ASSUME Steady, Line PROVE Fitting'
  OBVIOUS
<1>0. Types /\ AnswerIs /\ DirBehind /\ FileThere
  BY DEF Steady, Fitting
<1>1. /\ UNCHANGED <<pc, kind, open, got, at>>
      /\ \/ req # <<>> /\ req' = Tail(req) /\ UNCHANGED ans
         \/ ans # <<>> /\ ans' = Tail(ans) /\ UNCHANGED req
  BY <1>0, LineDoes DEF device, buddy
<1>2. DirBehind'
  BY <1>0, <1>1 DEF DirBehind
<1>3. CASE req # <<>> /\ req' = Tail(req) /\ UNCHANGED ans
  <2>1. ans' = <<>>
    BY <1>0, <1>3 DEF AnswerIs
  <2>2. \A i \in DOMAIN req' : i + 1 \in DOMAIN req /\ req'[i] = req[i + 1]
    BY <1>0, <1>3, Queues, Taken
  <2>3. FileThere'
    BY <1>0, <1>1, <2>2 DEF FileThere
  <2>4. QED BY <1>2, <2>1, <2>3 DEF Fitting, AnswerIs
<1>4. CASE ans # <<>> /\ ans' = Tail(ans) /\ UNCHANGED req
  <2>1. ans' \in Seq(Reply) /\ Len(ans') = 0
    BY <1>0, <1>4, Queues, Taken DEF AnswerIs
  <2>2. ans' = <<>>
    BY <2>1, Elements
  <2>3. FileThere'
    BY <1>0, <1>1, <1>4 DEF FileThere
  <2>4. QED BY <1>2, <2>2, <2>3 DEF Fitting, AnswerIs
<1>5. QED BY <1>1, <1>3, <1>4

LEMMA BuddyFitting == Steady /\ Buddy => Fitting'
<1> SUFFICES ASSUME Steady, Buddy PROVE Fitting'
  OBVIOUS
<1>0. Types /\ Calls /\ InTime /\ AnswerIs /\ DirBehind /\ FileThere
  BY DEF Steady, Fitting
<1>a. /\ got \in Nat /\ kind \in {"dir", "file"} /\ \A k \in Kind : at[k] \in Nat /\ at[k] <= Size[k]
      /\ kind \in Kind /\ at \in [Kind -> Nat] /\ used \in [Kind -> SUBSET Slot]
      /\ \A k \in Kind : Size[k] \in Nat
  BY <1>0, Constants DEF Types, TypeOK, Kind, Slot
<1>b. /\ req # <<>> /\ req' = Tail(req) /\ UNCHANGED device
      /\ UNCHANGED <<pc, kind, open, got>>
  BY <1>0, BuddyDoes DEF device
<1>c. ans = <<>>
  BY <1>0, <1>b DEF AnswerIs
\* An answer is alone.
<1>d. ASSUME NEW a \in Reply, ans' = Append(ans, a) PROVE ans' = <<a>> /\ Len(ans') = 1 /\ ans'[1] = a
  BY <1>c, <1>d
<1>1. CASE BuddyOpen
  <2>1. req[1].cmd = "open"
    BY <1>0, <1>1, BuddyOpenDoes
  <2>2. req' = <<>> /\ pc = "open" /\ req[1].own /\ req[1].kind = kind
    BY <1>b, <2>1, ServedIsLast DEF Answered
  <2>3. open' = "no" /\ pc' = "open" /\ kind' = kind
    BY <1>0, <1>b, <2>2 DEF Calls
  <2>4. PICK v \in Slot \cup {PB_NO_HANDLE} :
           /\ [kind |-> "byte", val |-> v, own |-> req[1].own] \in Reply
           /\ ans' = Append(ans, [kind |-> "byte", val |-> v, own |-> req[1].own])
           /\ v # PB_NO_HANDLE => /\ at' = [at EXCEPT ![kind] = 0]
                                  /\ used' = [used EXCEPT ![kind] = @ \cup {v}]
    BY <1>0, <1>1, <2>2, BuddyOpenDoes
  <2> DEFINE a == [kind |-> "byte", val |-> v, own |-> req[1].own]
  <2>5. a.kind = "byte" /\ a.val = v /\ a.own = req[1].own
    OBVIOUS
  <2>6. ans' = <<a>> /\ Len(ans') = 1 /\ ans'[1] = a
    BY <1>d, <2>4
  <2> HIDE DEF a
  <2>7. v # PB_NO_HANDLE => v \in used'[kind] /\ at'[kind] = 0
    BY <1>a, <2>4
  <2>8. AnswerIs'
    BY <2>2, <2>3, <2>5, <2>6, <2>7 DEF AnswerIs
  <2>9. QED BY <2>3, <2>8 DEF Fitting, DirBehind, FileThere
<1>2. CASE BuddyGet
  <2> DEFINE v == IF at[kind] < Size[kind] THEN at[kind] + 1 ELSE 0
             a == [kind |-> IF kind = "dir" THEN "asciiz" ELSE "data", val |-> v, own |-> req[1].own]
  <2>1. req[1].cmd = "get"
    BY <1>0, <1>2, BuddyGetDoes
  <2>2. req' = <<>> /\ pc = "get" /\ req[1].own /\ req[1].kind = kind /\ req[1].h = handle
    BY <1>b, <2>1, ServedIsLast DEF Answered
  <2>3. open = "yes" /\ handle \in used[kind]
    BY <1>0, <2>2 DEF Calls, InTime, HasSlot
  <2>4. /\ a \in Reply /\ ans' = Append(ans, a)
        /\ at' = [at EXCEPT ![kind] = IF at[kind] < Size[kind] THEN at[kind] + 1 ELSE at[kind]]
    BY <1>0, <1>2, <2>2, <2>3, BuddyGetDoes
  <2>5. a.kind = (IF kind = "dir" THEN "asciiz" ELSE "data") /\ a.val = v /\ a.own = req[1].own
    OBVIOUS
  <2>6. ans' = <<a>> /\ Len(ans') = 1 /\ ans'[1] = a
    BY <1>d, <2>4
  <2> HIDE DEF a
  <2>7. at'[kind] = IF at[kind] < Size[kind] THEN at[kind] + 1 ELSE at[kind]
    BY <1>a, <2>4
  <2>8. CASE kind = "dir"
    <3>1. got <= at["dir"]
      BY <1>0, <2>3, <2>8 DEF DirBehind
    <3>2. v <= at'["dir"] /\ (v = 0 \/ v > got) /\ got <= at'["dir"]
      BY <1>a, <2>7, <2>8, <3>1
    <3> HIDE DEF v
    <3>3. AnswerIs'
      BY <1>b, <2>2, <2>5, <2>6, <2>8, <3>2 DEF AnswerIs
    <3>4. QED BY <1>b, <2>8, <3>2, <3>3 DEF Fitting, DirBehind, FileThere
  <2>9. CASE kind = "file"
    <3>1. 1 \in DOMAIN req
      BY <1>0, <1>b, Queues
    <3>2. at["file"] = got
      BY <1>0, <2>1, <2>3, <2>9, <3>1 DEF FileThere
    <3>3. /\ v = IF got < Size["file"] THEN got + 1 ELSE 0
          /\ at'["file"] = IF got < Size["file"] THEN got + 1 ELSE got
      BY <2>7, <2>9, <3>2
    <3> HIDE DEF v
    <3>4. AnswerIs'
      BY <1>b, <2>2, <2>5, <2>6, <2>9, <3>3 DEF AnswerIs
    <3>5. DOMAIN req' = {}
      BY <2>2
    <3>6. QED BY <1>b, <2>2, <2>9, <3>4, <3>5 DEF Fitting, DirBehind, FileThere
  <2>10. QED BY <1>a, <2>8, <2>9
<1>3. CASE BuddyClose
  <2>1. req[1].cmd = "close" /\ UNCHANGED ans
    BY <1>0, <1>3, BuddyCloseDoes
  <2>2. 1 \in DOMAIN req
    BY <1>0, <1>b, Queues
  <2>3. open = "no"
    BY <1>0, <2>1, <2>2 DEF InTime, Closes
  <2>4. QED BY <1>b, <1>c, <2>1, <2>3 DEF Fitting, AnswerIs, DirBehind, FileThere
<1>4. CASE BuddyUnknown
  <2>1. UNCHANGED <<ans, at>>
    BY <1>4 DEF BuddyUnknown, buddy
  <2>2. \A i \in DOMAIN req' : i + 1 \in DOMAIN req /\ req'[i] = req[i + 1]
    BY <1>0, <1>b, Queues, Taken
  <2>3. FileThere'
    BY <1>0, <1>b, <2>1, <2>2 DEF FileThere
  <2>4. QED BY <1>0, <1>b, <1>c, <2>1, <2>3 DEF Fitting, AnswerIs, DirBehind
<1>5. QED BY <1>1, <1>2, <1>3, <1>4 DEF Buddy

-----------------------------------------------------------------------------
(* Slots in time.                                                          *)

CloseReq == {f \in Frame : f.cmd = "close"}
InUse(u) == Cardinality(u["dir"]) + Cardinality(u["file"])

LEMMA ClosesCounted ==
    ASSUME NEW q \in Seq(Frame)
    PROVE  /\ Cardinality({i \in DOMAIN q : q[i].cmd = "close"}) = Count(q, CloseReq)
           /\ Count(q, CloseReq) \in Nat
<1>1. {i \in DOMAIN q : q[i].cmd = "close"} = Places(q, CloseReq)
  BY Elements DEF Places, CloseReq
<1>2. QED BY <1>1, CountType DEF Count

\* A close stays on its way when the call returns.
LEMMA DisownCloses ==
    ASSUME NEW q \in Seq(Frame)
    PROVE  Count(Disown(q), CloseReq) = Count(q, CloseReq)
<1>1. /\ Len(Disown(q)) = Len(q)
      /\ \A i \in 1 .. Len(q) : /\ Disown(q)[i] \in Frame /\ q[i] \in Frame
                                /\ Disown(q)[i].cmd = q[i].cmd
  BY DisownedReq, Elements
<1>2. Places(Disown(q), CloseReq) = Places(q, CloseReq)
  BY <1>1 DEF Places, CloseReq
<1>3. QED BY <1>2 DEF Count

LEMMA SlotsFinite ==
    ASSUME NEW S \in SUBSET Slot
    PROVE  IsFiniteSet(S) /\ Cardinality(S) \in Nat
<1>1. IsFiniteSet(Slot)
  BY Constants, FS_Interval DEF Slot
<1>2. QED BY <1>1, FS_Subset, FS_CardinalityType

LEMMA InUseType ==
    ASSUME NEW u \in [Kind -> SUBSET Slot]
    PROVE  /\ InUse(u) \in Nat
           /\ \A k \in Kind : u[k] \in SUBSET Slot /\ IsFiniteSet(u[k]) /\ Cardinality(u[k]) \in Nat
                              /\ Cardinality(u[k]) <= InUse(u)
<1>1. \A k \in Kind : u[k] \in SUBSET Slot /\ IsFiniteSet(u[k]) /\ Cardinality(u[k]) \in Nat
  BY SlotsFinite
<1>2. "dir" \in Kind /\ "file" \in Kind /\ \A k \in Kind : k = "dir" \/ k = "file"
  BY DEF Kind
<1>3. Cardinality(u["dir"]) \in Nat /\ Cardinality(u["file"]) \in Nat
  BY <1>1, <1>2
<1>4. InUse(u) \in Nat /\ Cardinality(u["dir"]) <= InUse(u) /\ Cardinality(u["file"]) <= InUse(u)
  BY <1>3 DEF InUse
<1>5. QED BY <1>1, <1>2, <1>4

LEMMA InUseSet ==
    ASSUME NEW u \in [Kind -> SUBSET Slot], NEW k \in Kind, NEW S \in SUBSET Slot
    PROVE  InUse([u EXCEPT ![k] = S]) = InUse(u) - Cardinality(u[k]) + Cardinality(S)
<1>1. "dir" \in Kind /\ "file" \in Kind /\ (k = "dir" \/ k = "file")
  BY DEF Kind
<1>2. Cardinality(u["dir"]) \in Nat /\ Cardinality(u["file"]) \in Nat /\ Cardinality(S) \in Nat
  BY <1>1, SlotsFinite
<1>3. [u EXCEPT ![k] = S][k] = S /\ \A i \in Kind : i # k => [u EXCEPT ![k] = S][i] = u[i]
  OBVIOUS
<1>4. CASE k = "dir"
  <2>1. [u EXCEPT ![k] = S]["dir"] = S /\ [u EXCEPT ![k] = S]["file"] = u["file"]
    BY <1>1, <1>3, <1>4
  <2>2. QED BY <1>2, <1>4, <2>1 DEF InUse
<1>5. CASE k = "file"
  <2>1. [u EXCEPT ![k] = S]["file"] = S /\ [u EXCEPT ![k] = S]["dir"] = u["dir"]
    BY <1>1, <1>3, <1>5
  <2>2. QED BY <1>2, <1>5, <2>1 DEF InUse
<1>6. QED BY <1>1, <1>4, <1>5

LEMMA SlotTaken ==
    ASSUME NEW u \in [Kind -> SUBSET Slot], NEW k \in Kind, NEW j \in Slot \ u[k]
    PROVE  InUse([u EXCEPT ![k] = @ \cup {j}]) = InUse(u) + 1
<1>1. u[k] \cup {j} \in SUBSET Slot /\ IsFiniteSet(u[k]) /\ Cardinality(u[k]) \in Nat
  BY InUseType
<1>2. Cardinality(u[k] \cup {j}) = Cardinality(u[k]) + 1
  BY <1>1, FS_AddElement
<1>3. InUse([u EXCEPT ![k] = u[k] \cup {j}]) = InUse(u) - Cardinality(u[k]) + Cardinality(u[k] \cup {j})
  BY <1>1, InUseSet
<1>4. InUse(u) \in Nat
  BY InUseType
<1>5. QED BY <1>1, <1>2, <1>3, <1>4

LEMMA SlotFreed ==
    ASSUME NEW u \in [Kind -> SUBSET Slot], NEW k \in Kind, NEW j \in u[k]
    PROVE  InUse([u EXCEPT ![k] = u[k] \ {j}]) = InUse(u) - 1
<1>1. u[k] \ {j} \in SUBSET Slot /\ IsFiniteSet(u[k]) /\ Cardinality(u[k]) \in Nat
  BY InUseType
<1>2. Cardinality(u[k] \ {j}) = Cardinality(u[k]) - 1
  BY <1>1, FS_RemoveElement
<1>3. InUse([u EXCEPT ![k] = u[k] \ {j}]) = InUse(u) - Cardinality(u[k]) + Cardinality(u[k] \ {j})
  BY <1>1, InUseSet
<1>4. InUse(u) \in Nat
  BY InUseType
<1>5. QED BY <1>1, <1>2, <1>3, <1>4

LEMMA AllTaken ==
    ASSUME NEW u \in [Kind -> SUBSET Slot], NEW k \in Kind, Slot \ u[k] = {}
    PROVE  Slots <= InUse(u)
<1>1. u[k] = 0 .. Slots - 1 /\ Cardinality(u[k]) <= InUse(u) /\ InUse(u) \in Nat
  BY InUseType DEF Slot
<1>2. Cardinality(0 .. Slots - 1) = Slots
  <2>1. Slots \in Nat /\ Slots >= 1
    BY Constants
  <2>2. QED BY <2>1, FS_Interval
<1>3. QED BY <1>1, <1>2

\* The counts of a state, as numbers.
LEMMA CountsType ==
    ASSUME Types
    PROVE  /\ used \in [Kind -> SUBSET Slot] /\ InUse(used) \in Nat /\ faults \in Nat /\ Slots \in Nat
           /\ Held \in {0, 1} /\ Cardinality(Closing) = Count(req, CloseReq) /\ Count(req, CloseReq) \in Nat
           /\ Counted <=> /\ InUse(used) <= Held + Count(req, CloseReq) + faults
                          /\ wild => faults >= Slots
<1>1. used \in [Kind -> SUBSET Slot] /\ faults \in Nat /\ Slots \in Nat /\ req \in Seq(Frame)
  BY Constants DEF Types, TypeOK, Slot
<1>2. Cardinality(Closing) = Count(req, CloseReq) /\ Count(req, CloseReq) \in Nat
  BY <1>1, ClosesCounted DEF Closing
<1>3. QED BY <1>1, <1>2, InUseType DEF Counted, Held, InUse

\* It is enough that what is held, closing and lost makes up for what is in use.
LEMMA StillCounted ==
    ASSUME Types', wild' => wild \/ faults' >= Slots, wild => faults >= Slots, faults' >= faults,
           faults \in Nat,
           InUse(used') <= Held' + Count(req', CloseReq) + faults'
    PROVE  Counted'
<1>1. /\ faults' \in Nat /\ Slots \in Nat
      /\ Cardinality(Closing)' = Count(req', CloseReq)
  <2>1. req' \in Seq(Frame) /\ faults' \in Nat
    BY Constants DEF Types, TypeOK
  <2>2. QED BY <2>1, ClosesCounted, Constants DEF Closing
<1>2. (wild => faults >= Slots)'
  BY <1>1, Constants
<1>3. QED BY <1>1, <1>2 DEF Counted, InUse

LEMMA BeginsCounted == Steady /\ Counted /\ Begins => Counted'
<1> SUFFICES ASSUME Steady, Counted, Begins PROVE Counted'
  OBVIOUS
<1>0. Types /\ up /\ Types' /\ req \in Seq(Frame)
  BY NextTypes, NextSplit DEF Steady, InTime, Types
<1>1. /\ InUse(used) \in Nat /\ faults \in Nat /\ Held \in {0, 1} /\ Count(req, CloseReq) \in Nat
      /\ InUse(used) <= Held + Count(req, CloseReq) + faults /\ (wild => faults >= Slots)
  BY <1>0, CountsType
<1>2. PICK c \in {"open", "get", "eof", "close"} :
         LET f == [cmd |-> c, kind |-> kind', h |-> handle, own |-> c \in Answered]
         IN  /\ pc = "idle" /\ UNCHANGED <<ans, used, wild, faults>>
             /\ f \in Frame /\ f.cmd = c /\ req' = (IF up THEN Append(req, f) ELSE req)
             /\ c \in {"open", "get", "eof"} => open' = open
             /\ c = "close" => open' = "no"
  BY <1>0, BeginsDoes DEF buddy
<1> DEFINE f == [cmd |-> c, kind |-> kind', h |-> handle, own |-> c \in Answered]
<1>3. f \in Frame /\ f.cmd = c /\ req' = Append(req, f)
  BY <1>0, <1>2
<1> HIDE DEF f
<1>4. Count(req', CloseReq) = Count(req, CloseReq) + (IF c = "close" THEN 1 ELSE 0)
  <2>1. f \in CloseReq <=> c = "close"
    BY <1>3 DEF CloseReq
  <2>2. QED BY <1>0, <1>3, <2>1, CountSent
<1>5. ans = <<>> /\ ans' = <<>>
  BY <1>2, IdleIsQuiet DEF Answered
<1>6. Held' \in {0, 1} /\ (c \in {"open", "get", "eof"} => Held' = Held)
  BY <1>2, <1>5 DEF Held
<1>7. InUse(used') <= Held' + Count(req', CloseReq) + faults'
  BY <1>1, <1>2, <1>4, <1>6
<1>8. QED BY <1>0, <1>1, <1>2, <1>7, StillCounted

LEMMA ReturnsCounted == Steady /\ Counted /\ Returns => Counted'
<1> SUFFICES ASSUME Steady, Counted, Returns PROVE Counted'
  OBVIOUS
<1>0. Types /\ Calls /\ AnswerIs /\ Types' /\ req \in Seq(Frame)
  BY NextTypes, NextSplit DEF Steady, Fitting, Types
<1>1. /\ InUse(used) \in Nat /\ faults \in Nat /\ Held \in {0, 1} /\ Count(req, CloseReq) \in Nat
      /\ InUse(used) <= Held + Count(req, CloseReq) + faults /\ (wild => faults >= Slots)
  BY <1>0, CountsType
<1>2. Held' \in {0, 1}
  BY DEF Held
<1>3. UNCHANGED <<used, wild>> /\ Count(req', CloseReq) = Count(req, CloseReq)
  <2>1. UNCHANGED buddy /\ req' = Disown(req)
    BY <1>0, ReturnsDoes
  <2>2. QED BY <1>0, <2>1, DisownCloses DEF buddy
<1>4. CASE Restart
  <2>1. faults' = faults + 1
    BY <1>4 DEF Restart
  <2>2. InUse(used') <= Held' + Count(req', CloseReq) + faults'
    BY <1>1, <1>2, <1>3, <2>1
  <2>3. QED BY <1>0, <1>1, <1>3, <2>1, <2>2, StillCounted
<1>5. CASE Answers \/ Timeout
  <2>1. faults' = faults
    BY <1>5, TakenIsLast DEF Timeout
  <2>2. Held = 1 => open' # "no"
    <3>1. CASE Timeout
      <4>1. ans = <<>>
        BY <3>1, LostIsQuiet
      <4>2. Held = 1 => open = "yes" /\ pc \in {"get", "eof"}
        BY <1>0, <3>1, <4>1 DEF Held, Timeout, Calls, Types, TypeOK
      <4>3. CASE pc = "get" /\ kind = "dir"
        BY <3>1, <4>3 DEF Timeout, Listed
      <4>4. CASE pc = "get" /\ kind = "file"
        BY <3>1, <4>4 DEF Timeout, Got
      <4>5. CASE pc = "eof"
        BY <3>1, <4>5 DEF Timeout, AtEof
      <4>6. kind = "dir" \/ kind = "file"
        BY <1>0 DEF Types, TypeOK, Kind
      <4>7. QED BY <4>2, <4>3, <4>4, <4>5, <4>6
    <3>2. CASE ReceiveHandle
      <4>1. Head(ans) = ans[1] /\ ans # <<>>
        BY <1>0, <3>2, ReceiveDoes DEF ReceiveHandle
      <4>2. pc = "open" /\ open = "no" /\ Opened(ans[1].val)
        BY <1>0, <3>2, <4>1 DEF ReceiveHandle, Fits, AnswerIs, Calls
      <4>3. QED BY <4>2 DEF Held, Opened
    <3>3. CASE ReceiveName \/ ReceiveData \/ ReceiveEof
      BY <3>3 DEF ReceiveName, ReceiveData, ReceiveEof, Listed, Got, AtEof
    <3>4. QED BY <1>5, <3>1, <3>2, <3>3 DEF Answers
  <2>3. Held <= Held'
    BY <1>1, <1>2, <2>2 DEF Held
  <2>4. InUse(used') <= Held' + Count(req', CloseReq) + faults'
    BY <1>1, <1>2, <1>3, <2>1, <2>3
  <2>5. QED BY <1>0, <1>1, <1>3, <2>1, <2>4, StillCounted
<1>6. QED BY <1>4, <1>5 DEF Returns

LEMMA LineCounted == Steady /\ Counted /\ Line => Counted'
<1> SUFFICES ASSUME Steady, Counted, Line PROVE Counted'
  OBVIOUS
<1>0. Types /\ Types' /\ req \in Seq(Frame) /\ req' \in Seq(Frame)
  BY NextTypes, NextSplit DEF Steady, Types
<1>1. /\ InUse(used) \in Nat /\ faults \in Nat /\ Held \in {0, 1} /\ Count(req, CloseReq) \in Nat
      /\ InUse(used) <= Held + Count(req, CloseReq) + faults /\ (wild => faults >= Slots)
  BY <1>0, CountsType
<1>2. Held' \in {0, 1} /\ Count(req', CloseReq) \in Nat
  BY <1>0, ClosesCounted DEF Held
<1>3. /\ UNCHANGED <<pc, open, used, wild>>
      /\ \/ req # <<>> /\ req' = Tail(req) /\ UNCHANGED ans /\ faults' = faults + 1
         \/ UNCHANGED req /\ faults' = faults + 1
         \/ ans # <<>> /\ pc = "idle"
  BY <1>0, LineDoes DEF device, buddy
<1>4. ~ (ans # <<>> /\ pc = "idle")
  BY IdleIsQuiet DEF Answered
<1>5. CASE req # <<>> /\ req' = Tail(req) /\ UNCHANGED ans /\ faults' = faults + 1
  <2>1. Held' = Held
    BY <1>3, <1>5 DEF Held
  <2>2. Count(req, CloseReq) <= Count(req', CloseReq) + 1
    BY <1>0, <1>2, <1>5, CountTaken
  <2>3. InUse(used') <= Held' + Count(req', CloseReq) + faults'
    BY <1>1, <1>2, <1>3, <1>5, <2>1, <2>2
  <2>4. QED BY <1>0, <1>1, <1>3, <1>5, <2>3, StillCounted
<1>6. CASE UNCHANGED req /\ faults' = faults + 1
  <2>1. InUse(used') <= Held' + Count(req', CloseReq) + faults'
    BY <1>1, <1>2, <1>3, <1>6
  <2>2. QED BY <1>0, <1>1, <1>3, <1>6, <2>1, StillCounted
<1>7. QED BY <1>3, <1>4, <1>5, <1>6

LEMMA BuddyCounted == Steady /\ Counted /\ Buddy => Counted'
<1> SUFFICES ASSUME Steady, Counted, Buddy PROVE Counted'
  OBVIOUS
<1>0. /\ Types /\ Calls /\ Closes /\ Types' /\ req \in Seq(Frame) /\ req' \in Seq(Frame)
      /\ used \in [Kind -> SUBSET Slot]
  BY NextTypes, NextSplit, CountsType DEF Steady, InTime, Types
<1>1. /\ InUse(used) \in Nat /\ faults \in Nat /\ Held \in {0, 1} /\ Count(req, CloseReq) \in Nat
      /\ InUse(used) <= Held + Count(req, CloseReq) + faults /\ (wild => faults >= Slots) /\ Slots \in Nat
  BY <1>0, CountsType
<1>2. Held' \in {0, 1} /\ Count(req', CloseReq) \in Nat
  BY <1>0, ClosesCounted DEF Held
<1>3. req # <<>> /\ req' = Tail(req) /\ req[1] \in Frame /\ UNCHANGED <<pc, kind, open, faults>>
  BY <1>0, BuddyDoes DEF device
<1>4. Count(req, CloseReq) = Count(req', CloseReq) + (IF req[1].cmd = "close" THEN 1 ELSE 0)
  <2>1. Head(req) = req[1] /\ (req[1] \in CloseReq <=> req[1].cmd = "close")
    BY <1>0, <1>3, Taken DEF CloseReq
  <2>2. QED BY <1>0, <1>3, <2>1, CountTaken
<1>5. CASE BuddyOpen
  <2>1. req[1].cmd = "open" /\ req[1].kind \in Kind
    BY <1>0, <1>5, BuddyOpenDoes
  <2>2. req' = <<>> /\ pc = "open" /\ ans = <<>>
    BY <1>3, <2>1, ServedIsLast DEF Answered
  <2>3. Held = 0 /\ Count(req', CloseReq) = 0
    BY <1>0, <2>2, CountNone DEF Held, Calls
  <2>4. InUse(used) <= faults
    BY <1>1, <1>4, <2>1, <2>3
  <2> DEFINE k == req[1].kind
             a(v) == [kind |-> "byte", val |-> v, own |-> req[1].own]
  <2>5. \/ UNCHANGED <<used, wild>>
        \/ Free(k) = {} /\ wild' = TRUE /\ UNCHANGED used
        \/ \E j \in Slot \ used[k] :
              /\ ans' = Append(ans, a(j)) /\ a(j) \in Reply
              /\ used' = [used EXCEPT ![k] = @ \cup {j}] /\ UNCHANGED wild
    BY <1>0, <1>5, BuddyOpenDoes
  <2> HIDE DEF k
  <2>6. CASE UNCHANGED <<used, wild>>
    <3>1. InUse(used') <= Held' + Count(req', CloseReq) + faults'
      BY <1>1, <1>2, <1>3, <2>4, <2>6
    <3>2. QED BY <1>0, <1>1, <1>3, <2>6, <3>1, StillCounted
  <2>7. CASE Free(k) = {} /\ wild' = TRUE /\ UNCHANGED used
    <3>1. Slots <= InUse(used)
      BY <1>0, <2>1, <2>7, AllTaken DEF Free, Slot, k
    <3>2. faults' >= Slots
      BY <1>1, <1>3, <2>4, <3>1
    <3>3. InUse(used') <= Held' + Count(req', CloseReq) + faults'
      BY <1>1, <1>2, <1>3, <2>4, <2>7
    <3>4. QED BY <1>0, <1>1, <1>3, <3>2, <3>3, StillCounted
  <2>8. CASE \E j \in Slot \ used[k] :
                /\ ans' = Append(ans, a(j)) /\ a(j) \in Reply
                /\ used' = [used EXCEPT ![k] = @ \cup {j}] /\ UNCHANGED wild
    <3>1. PICK j \in Slot \ used[k] :
                /\ ans' = Append(ans, a(j)) /\ a(j) \in Reply
                /\ used' = [used EXCEPT ![k] = @ \cup {j}] /\ UNCHANGED wild
      BY <2>8
    <3>2. InUse(used') = InUse(used) + 1
      BY <1>0, <2>1, <3>1, SlotTaken DEF k
    <3>3. a(j).val = j /\ j # PB_NO_HANDLE
      BY Constants
    <3>4. ans' = <<a(j)>> /\ ans' # <<>> /\ ans'[1] = a(j)
      BY <2>2, <3>1
    <3> HIDE DEF a
    <3>5. Held' = 1
      BY <1>3, <2>2, <3>3, <3>4 DEF Held
    <3>6. InUse(used') <= Held' + Count(req', CloseReq) + faults'
      BY <1>1, <1>2, <1>3, <2>4, <3>2, <3>5
    <3>7. QED BY <1>0, <1>1, <1>3, <3>1, <3>6, StillCounted
  <2>9. QED BY <2>5, <2>6, <2>7, <2>8
<1>6. CASE BuddyGet
  <2>1. req[1].cmd = "get" /\ UNCHANGED <<used, wild>>
    BY <1>0, <1>6, BuddyGetDoes
  <2>2. pc = "get"
    BY <1>3, <2>1, ServedIsLast DEF Answered
  <2>3. Held' = Held
    BY <1>3, <2>2 DEF Held
  <2>4. InUse(used') <= Held' + Count(req', CloseReq) + faults'
    BY <1>1, <1>2, <1>3, <1>4, <2>1, <2>3
  <2>5. QED BY <1>0, <1>1, <1>3, <2>1, <2>4, StillCounted
<1>7. CASE BuddyClose
  <2> DEFINE k == req[1].kind
  <2>1. /\ req[1].cmd = "close" /\ k \in Kind /\ UNCHANGED <<ans, wild>>
        /\ req[1].h \in used[k] => used' = [used EXCEPT ![k] = used[k] \ {req[1].h}]
    BY <1>0, <1>7, BuddyCloseDoes
  <2>2. req[1].h \in used[k]
    <3>1. 1 \in DOMAIN req
      BY <1>0, <1>3, Queues
    <3>2. QED BY <1>0, <2>1, <3>1 DEF Closes
  <2> HIDE DEF k
  <2>3. InUse(used') = InUse(used) - 1
    BY <1>0, <2>1, <2>2, SlotFreed
  <2>4. Held' = Held
    BY <1>3, <2>1 DEF Held
  <2>5. InUse(used') <= Held' + Count(req', CloseReq) + faults'
    BY <1>1, <1>2, <1>3, <1>4, <2>1, <2>3, <2>4
  <2>6. QED BY <1>0, <1>1, <1>3, <2>1, <2>5, StillCounted
<1>8. CASE BuddyUnknown
  <2>1. req[1].cmd = "eof" /\ UNCHANGED <<ans, used, wild>>
    BY <1>0, <1>8, ServesDoes DEF BuddyUnknown, buddy
  <2>2. Held' = Held
    BY <1>3, <2>1 DEF Held
  <2>3. InUse(used') <= Held' + Count(req', CloseReq) + faults'
    BY <1>1, <1>2, <1>3, <1>4, <2>1, <2>2
  <2>4. QED BY <1>0, <1>1, <1>3, <2>1, <2>3, StillCounted
<1>9. QED BY <1>5, <1>6, <1>7, <1>8 DEF Buddy

-----------------------------------------------------------------------------
(* The invariant, and what it says.                                        *)

LEMMA InitInv == Init => IInv
<1> SUFFICES ASSUME Init PROVE IInv
  OBVIOUS
<1>1. Types
  BY InitTypes
<1>2. /\ pc = "idle" /\ open = "no" /\ kind = "dir" /\ name = 0 /\ req = <<>> /\ ans = <<>> /\ up = TRUE
      /\ used = [k \in Kind |-> {}] /\ wild = FALSE /\ faults = 0 /\ late = 0
  BY DEF Init
<1>3. DOMAIN req = {} /\ DOMAIN ans = {}
  BY <1>2
<1>4. Calls /\ OneOwn
  BY <1>2, <1>3 DEF Calls, OneOwn
<1>5. Cardinality({}) = 0
  BY FS_EmptySet
<1>6. LagIsLate
  <2>1. /\ {i \in DOMAIN ans : ~ ans[i].own} = {}
        /\ {i \in DOMAIN req : up /\ req[i].cmd \in Answered /\ ~ req[i].own} = {}
    BY <1>3
  <2>2. QED BY <1>2, <1>5, <2>1 DEF LagIsLate
<1>7. InTime /\ Fitting
  BY <1>2, <1>3 DEF InTime, Asks, Closes, HasSlot, Fitting, AnswerIs, DirBehind, FileThere
<1>8. Counted
  <2>1. Closing = {} /\ Held = 0
    BY <1>2, <1>3 DEF Closing, Held
  <2>2. Cardinality(used["dir"]) = 0 /\ Cardinality(used["file"]) = 0
    BY <1>2, <1>5 DEF Kind
  <2>3. QED BY <1>2, <1>5, <2>1, <2>2 DEF Counted
<1>9. QED BY <1>1, <1>4, <1>6, <1>7, <1>8 DEF IInv, Punctual

LEMMA SteadyStutters == Punctual /\ UNCHANGED vars => Punctual'
<1> SUFFICES ASSUME Punctual, UNCHANGED vars PROVE Punctual'
  OBVIOUS
<1>1. /\ pc' = pc /\ kind' = kind /\ open' = open /\ handle' = handle /\ got' = got /\ req' = req /\ ans' = ans
      /\ used' = used /\ at' = at /\ up' = up /\ wild' = wild /\ faults' = faults
  BY DEF vars, device, buddy
<1>2. InTime'
  BY <1>1 DEF Punctual, InTime, Asks, Closes, HasSlot
<1>3. Fitting'
  BY <1>1 DEF Punctual, Fitting, AnswerIs, DirBehind, FileThere
<1>4. Counted'
  BY <1>1 DEF Punctual, Counted, Held, Closing
<1>5. QED BY <1>2, <1>3, <1>4 DEF Punctual

LEMMA NextInv == IInv /\ [Next]_vars => IInv'
<1> SUFFICES ASSUME IInv, [Next]_vars PROVE IInv'
  OBVIOUS
<1>1. Types /\ Calls /\ OneOwn /\ LagIsLate /\ (late = 0 => Punctual)
  BY DEF IInv
<1>2. Types' /\ Calls' /\ OneOwn' /\ LagIsLate'
  BY <1>1, NextTypes, NextCalls, NextOwn, NextLag
<1>3. ASSUME late' = 0 PROVE Punctual'
  <2>1. late = 0
    BY <1>1, <1>3, StillNone
  <2>2. Steady /\ Counted /\ Punctual
    BY <1>1, <1>3, <2>1 DEF Steady, Punctual
  <2>3. Begins => Punctual'
    BY <2>2, BeginsInTime, BeginsFitting, BeginsCounted DEF Punctual
  <2>4. Returns => Punctual'
    BY <2>2, ReturnsInTime, ReturnsFitting, ReturnsCounted DEF Punctual
  <2>5. Line => Punctual'
    BY <2>2, LineInTime, LineFitting, LineCounted DEF Punctual
  <2>6. Buddy => Punctual'
    BY <2>2, BuddyInTime, BuddyFitting, BuddyCounted DEF Punctual
  <2>7. UNCHANGED vars => Punctual'
    BY <2>2, SteadyStutters
  <2>8. QED BY <2>3, <2>4, <2>5, <2>6, <2>7, NextSplit
<1>4. QED BY <1>2, <1>3 DEF IInv

LEMMA Always == Spec => []IInv
BY InitInv, NextInv, PTL DEF Spec

LEMMA FitsIfOnTime == IInv => AnswersFit
<1> SUFFICES ASSUME IInv, late = 0, ans # <<>> PROVE AnswersFit
  BY DEF AnswersFit
<1>1. Types /\ OneOwn /\ AnswerIs /\ FileThere
  BY DEF IInv, Punctual, Fitting
<1>2. Head(ans) = ans[1] /\ 1 \in DOMAIN ans
  BY <1>1, Queues, Taken
<1>3. pc \in Answered
  BY <1>1, <1>2 DEF OneOwn, AnswerIs
<1>4. kind \in {"dir", "file"} /\ got \in Nat /\ at["file"] \in Nat /\ at["file"] <= Size["file"] /\ Size["file"] \in Nat
  BY <1>1, Constants DEF Types, TypeOK, Kind
<1>5. CASE pc = "open"
  BY <1>1, <1>2, <1>5 DEF AnswersFit, AnswerIs
<1>6. CASE pc = "get" /\ kind = "dir"
  BY <1>1, <1>2, <1>6 DEF AnswersFit, AnswerIs
<1>7. CASE pc = "get" /\ kind = "file"
  <2>1. /\ Len(ans) = 1 /\ ans[1].kind = "data"
        /\ ans[1].val = IF got < Size["file"] THEN got + 1 ELSE 0
        /\ at["file"] = IF got < Size["file"] THEN got + 1 ELSE got
    BY <1>1, <1>7 DEF AnswerIs
  <2>2. ans[1].val = IF got = Size["file"] THEN 0 ELSE got + 1
    BY <1>4, <2>1
  <2>3. QED BY <1>2, <1>7, <2>1, <2>2 DEF AnswersFit
<1>8. QED BY <1>3, <1>4, <1>5, <1>6, <1>7 DEF Answered

-----------------------------------------------------------------------------

\* Whatever frames are lost and whenever a call gives up or the device restarts, the variables
\* of fs_parabuddy.h and of the sketch keep their types: a handle that is used is of a slot.
THEOREM TypeCorrect == Spec => []TypeOK
<1>1. IInv => TypeOK
  BY DEF IInv, Types
<1>2. QED BY <1>1, Always, PTL

\* The answers that pb_receiveFrame would take for another call's, those on the line and those
\* that the sketch has still to give, are never more than the calls that gave up too early: the
\* lag of the protocol, which numbers no frame, does not grow by itself, nor by a lost frame.
THEOREM LagBounded == Spec => []LagIsLate
<1>1. IInv => LagIsLate
  BY DEF IInv
<1>2. QED BY <1>1, Always, PTL

\* As long as no call has given up on an answer that was to come, what pb_receiveFrame finds is
\* the waiting call's answer, of the type it expects, and brings the next piece of the file or
\* a later entry of the directory, however many frames were lost and devices restarted.
THEOREM AnswersAreRight == Spec => []AnswersFit
BY Always, FitsIfOnTime, PTL

\* As long as no call has given up on an answer that was to come, a slot of the sketch is what
\* the program uses, has its close under way, or was lost to a lost frame or a restart; the
\* sketch writes before its arrays only after as many of those as it has slots.
THEOREM SlotsAreAccounted == Spec => []SlotsAccounted
<1>1. IInv => SlotsAccounted
  <2> SUFFICES ASSUME IInv, late = 0 PROVE SlotsAccounted
    BY DEF SlotsAccounted
  <2> DEFINE using == IF open # "no" \/ pc = "open" THEN 1 ELSE 0
  <2>1. Types /\ Counted
    BY DEF IInv, Punctual
  <2>2. /\ InUse(used) \in Nat /\ faults \in Nat /\ Count(req, CloseReq) \in Nat
        /\ Cardinality(Closing) = Count(req, CloseReq)
        /\ InUse(used) <= Held + Count(req, CloseReq) + faults /\ (wild => faults >= Slots)
    BY <2>1, CountsType
  <2>3. Held \in {0, 1} /\ using \in {0, 1} /\ Held <= using
    BY DEF Held
  <2> HIDE DEF using
  <2>4. InUse(used) <= using + Cardinality(Closing) + faults
    BY <2>2, <2>3
  <2>5. QED BY <2>2, <2>4 DEF SlotsAccounted, InUse, Closing, using
<1>2. QED BY <1>1, Always, PTL
==============================================================================
