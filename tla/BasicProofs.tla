----------------------------- MODULE BasicProofs -----------------------------
(***************************************************************************)
(* Theorems about Basic and BasicTape, for every size of the program, of    *)
(* the stacks, the line buffer and a slot, every set of lines, statements   *)
(* and pages, and any number of commands: the store keeps its form and does *)
(* to the lines what LineStore says, the interpreter's pointers stay on     *)
(* lines of the program and loops within their limits, and CLOAD gives back *)
(* what CSAVE kept.                                                         *)
(***************************************************************************)
EXTENDS Basic, BasicTape, WellFoundedInduction, FiniteSetTheorems, SequenceTheorems, TLAPS

\* A set of numbers has a least one.
LEMMA LeastExists ==
    ASSUME NEW Q \in SUBSET Nat, Q # {}
    PROVE  \E i \in Q : \A j \in Q : i <= j
<1>1. PICK i \in Q : \A j \in Q : <<j, i>> \notin OpToRel(<, Nat)
  BY WFMin, NatLessThanWellFounded, Zenon
<1>2. \A j \in Q : ~(j < i)
  BY <1>1, Zenon DEF OpToRel
<1>3. QED BY <1>2

-----------------------------------------------------------------------------
(* What a program is.                                                       *)

\* The lines begin at the addresses T, and T has the end: from each the next is reached.
Walk(prog, T) ==
    /\ prog \in Seq(Nat) /\ Len(prog) >= 2
    /\ T \subseteq 0 .. ProgramLen(prog) /\ 0 \in T /\ ProgramLen(prog) \in T
    /\ \A a \in T : a < ProgramLen(prog) =>
          /\ EntryLen(prog, a) >= 4 /\ a + EntryLen(prog, a) \in T
          /\ \A b \in T : b > a => b >= a + EntryLen(prog, a)
    /\ \A a, b \in T : a < b /\ b < ProgramLen(prog) => LineNumber(prog, a) < LineNumber(prog, b)

Places(prog) == LineStarts(prog) \cup {ProgramLen(prog)}
Kept(prog)   == Walk(prog, Places(prog)) /\ Len(prog) <= PROGRAM_SIZE

\* The functions of BasicProgram's walks.
FirstFrom(prog, ln) ==
    CHOOSE f : f = [a \in 0 .. Len(prog) |->
        IF a >= ProgramLen(prog) \/ LineNumber(prog, a) >= ln THEN a
        ELSE f[a + EntryLen(prog, a)]]
FindFrom(prog, ln) ==
    CHOOSE f : f = [a \in 0 .. Len(prog) |->
        IF a >= ProgramLen(prog) THEN NoLine
        ELSE IF LineNumber(prog, a) = ln THEN a
        ELSE f[a + EntryLen(prog, a)]]
StartsFrom(prog) ==
    CHOOSE f : f = [a \in 0 .. Len(prog) |->
        IF a >= ProgramLen(prog) THEN {} ELSE {a} \cup f[a + EntryLen(prog, a)]]

\* Where the interpreter stands in a program: at a line, unless LOAD brought another program.
Stands(prog, l, a, s) ==
    /\ a \in Nat /\ s \in Nat
    /\ a < ProgramLen(prog) /\ a + 2 <= s /\ s <= Len(prog) - 1
    /\ ~l => a \in LineStarts(prog) /\ s <= a + EntryLen(prog, a) - 2

\* A step after which the interpreter stands in a program, or has stopped.
Lands(prog, l) ==
    /\ mode' \in {"prompt", "run"} /\ p' \in Nat /\ stp' \in Nat
    /\ mode' = "run" => Stands(prog, l, p', stp')

\* Where a frame that was pushed by line ln leads to.
Leads(prog, m, l, ln, a) ==
    /\ m = "run" => a \in 0 .. Len(prog)
    /\ m = "run" /\ ~l => /\ a \in Places(prog)
                          /\ a = FindLine(prog, ln) + EntryLen(prog, FindLine(prog, ln))

Within(f) ==
    {f.start + f.step, f.limit + f.step} \subseteq (-IntMax - 1)..IntMax =>
        \/ f.cur = f.start
        \/ f.step > 0 /\ f.cur > f.start /\ f.cur <= f.limit
        \/ f.step < 0 /\ f.cur < f.start /\ f.cur >= f.limit

ForFrames(prog, m, l)   == {f \in ForFrame : Within(f) /\ Leads(prog, m, l, f.line, f.body)}
GosubFrames(prog, m, l) == {f \in GosubFrame : Leads(prog, m, l, f.line, f.ret)}

\* The inductive invariant.
Control ==
    /\ mode \in {"prompt", "run"} /\ p \in Nat /\ stp \in Nat
    /\ mode = "run" => Stands(program, loaded, p, stp)
Stacks ==
    /\ forStack \in Seq(ForFrames(program, mode, loaded)) /\ Len(forStack) <= FOR_STACK_MAX
    /\ gosubStack \in Seq(GosubFrames(program, mode, loaded)) /\ Len(gosubStack) <= GOSUB_STACK_MAX
Programs == Kept(program) /\ (saved = NotSaved \/ Kept(saved))
IInv == Control /\ Stacks /\ Programs /\ loaded \in BOOLEAN /\ typed \in 0 .. MaxTyped

-----------------------------------------------------------------------------
(* Walks.                                                                   *)

\* A function that is given at some places up to N, and elsewhere by its value further up.
GoesUp(N, V, Stops, next, base, join) ==
    /\ N \in Nat
    /\ \A a \in 0 .. N : a \in Stops => base[a] \in V
    /\ \A a \in 0 .. N : a \notin Stops =>
          /\ next[a] \in 0 .. N /\ next[a] > a
          /\ \A v \in V : join[a][v] \in V
Recursive(N, V, Stops, next, base, join) ==
    \E f \in [0 .. N -> V] :
        \A a \in 0 .. N : f[a] = IF a \in Stops THEN base[a] ELSE join[a][f[next[a]]]

LEMMA WalkUp ==
    ASSUME NEW N, NEW V, NEW Stops, NEW next, NEW base, NEW join,
           GoesUp(N, V, Stops, next, base, join)
    PROVE  Recursive(N, V, Stops, next, base, join)
<1>0. /\ N \in Nat
      /\ \A a \in 0 .. N : a \in Stops => base[a] \in V
      /\ \A a \in 0 .. N : a \notin Stops =>
            /\ next[a] \in 0 .. N /\ next[a] > a
            /\ \A v \in V : join[a][v] \in V
  BY DEF GoesUp
<1> DEFINE Eq(f, n) == \A a \in n .. N : f[a] = IF a \in Stops THEN base[a] ELSE join[a][f[next[a]]]
           Has == {n \in 0 .. N + 1 : \E f \in [n .. N -> V] : Eq(f, n)}
<1>1. N + 1 \in Has
  <2>1. [a \in {} |-> a] \in [N + 1 .. N -> V]
    BY <1>0
  <2>2. Eq([a \in {} |-> a], N + 1)
    BY <1>0
  <2> HIDE DEF Eq
  <2>3. \E f \in [N + 1 .. N -> V] : Eq(f, N + 1)
    BY <2>1, <2>2
  <2>4. QED BY <1>0, <2>3
<1>2. PICK n \in Has : \A m \in Has : n <= m
  <2>1. Has \in SUBSET Nat /\ Has # {}
    BY <1>0, <1>1
  <2> HIDE DEF Has
  <2>2. QED BY <2>1, LeastExists
<1>3. n = 0
  <2>1. SUFFICES ASSUME n > 0 PROVE FALSE
    BY <1>0, <1>2
  <2>2. PICK f \in [n .. N -> V] : Eq(f, n)
    BY <1>2
  <2> DEFINE b == n - 1
             v == IF b \in Stops THEN base[b] ELSE join[b][f[next[b]]]
             g == [a \in b .. N |-> IF a = b THEN v ELSE f[a]]
  <2>3. b \in 0 .. N /\ b + 1 = n /\ n \in 0 .. N + 1
    BY <1>0, <1>2, <2>1
  <2>4. v \in V
    <3>1. CASE b \in Stops
      BY <1>0, <2>3, <3>1
    <3>2. CASE b \notin Stops
      <4>1. next[b] \in n .. N
        BY <1>0, <2>3, <3>2
      <4>2. f[next[b]] \in V
        BY <4>1
      <4>3. QED BY <1>0, <4>2, <2>3, <3>2
    <3>3. QED BY <3>1, <3>2
  <2>5. g \in [b .. N -> V]
    BY <2>3, <2>4
  <2>6. ASSUME NEW a \in b .. N
        PROVE  g[a] = IF a \in Stops THEN base[a] ELSE join[a][g[next[a]]]
    <3>1. a \notin Stops => next[a] \in n .. N /\ g[next[a]] = f[next[a]]
      BY <1>0, <2>3
    <3>2. CASE a = b
      BY <3>1, <3>2, <2>3
    <3>3. CASE a # b
      <4>1. a \in n .. N /\ g[a] = f[a]
        BY <2>3, <3>3
      <4>2. f[a] = IF a \in Stops THEN base[a] ELSE join[a][f[next[a]]]
        BY <2>2, <4>1
      <4>3. QED BY <4>1, <4>2, <3>1
    <3>4. QED BY <3>2, <3>3
  <2>7. b \in Has
    <3>1. Eq(g, b)
      BY <2>6
    <3> HIDE DEF g, Eq
    <3>2. \E h \in [b .. N -> V] : Eq(h, b)
      BY <2>5, <3>1
    <3>3. QED BY <1>0, <2>3, <3>2
  <2>8. QED BY <1>2, <2>3, <2>7
<1>4. QED BY <1>2, <1>3 DEF Recursive

\* The end of a line is there: the first zero, or the last byte.
LEMMA EndExists ==
    ASSUME NEW prog \in Seq(Nat), Len(prog) >= 2, NEW a \in Nat, a < ProgramLen(prog)
    PROVE  /\ EndOf(prog, a) \in a + 2 .. Len(prog) - 1
           /\ Cell(prog, EndOf(prog, a)) = 0 \/ EndOf(prog, a) = Len(prog) - 1
           /\ \A y \in a + 2 .. EndOf(prog, a) - 1 : Cell(prog, y) # 0
           /\ EntryLen(prog, a) = EndOf(prog, a) - a + 1
           /\ a + EntryLen(prog, a) \in 0 .. Len(prog) /\ a + EntryLen(prog, a) > a
<1> DEFINE Ends == {z \in a + 2 .. Len(prog) - 1 : Cell(prog, z) = 0 \/ z = Len(prog) - 1}
<1>1. Len(prog) \in Nat
  BY LenProperties
<1>2. Ends \in SUBSET Nat /\ Ends # {}
  <2>1. Len(prog) - 1 \in a + 2 .. Len(prog) - 1
    BY <1>1 DEF ProgramLen
  <2>2. \A x \in Ends : x \in Nat
    BY <1>1
  <2>3. Len(prog) - 1 \in Ends
    BY <2>1
  <2> HIDE DEF Ends
  <2>4. QED BY <2>2, <2>3
<1>3. PICK z \in Ends : \A y \in Ends : z <= y
  <2> HIDE DEF Ends
  <2>1. QED BY <1>2, LeastExists
<1>4. \E x \in (a + 2)..(Len(prog) - 1) :
          /\ Cell(prog, x) = 0 \/ x = Len(prog) - 1
          /\ \A y \in (a + 2)..(x - 1) : Cell(prog, y) # 0
  <2>1. \A y \in (a + 2)..(z - 1) : Cell(prog, y) # 0
    BY <1>1, <1>3
  <2>2. QED BY <1>3, <2>1
<1>5. /\ EndOf(prog, a) \in a + 2 .. Len(prog) - 1
      /\ Cell(prog, EndOf(prog, a)) = 0 \/ EndOf(prog, a) = Len(prog) - 1
      /\ \A y \in a + 2 .. EndOf(prog, a) - 1 : Cell(prog, y) # 0
  BY <1>4, Zenon DEF EndOf
<1> DEFINE e == EndOf(prog, a)
<1>6. EntryLen(prog, a) = e - a + 1 /\ e \in a + 2 .. Len(prog) - 1
  BY <1>5 DEF EntryLen
<1> HIDE DEF e
<1>7. a + EntryLen(prog, a) \in 0 .. Len(prog) /\ a + EntryLen(prog, a) > a
  BY <1>1, <1>6, SMTT(30)
<1>8. QED BY <1>5, <1>6, <1>7 DEF e

LEMMA EndIs ==
    ASSUME NEW prog \in Seq(Nat), NEW a \in Nat, NEW z \in a + 2 .. Len(prog) - 1,
           Cell(prog, z) = 0, \A y \in a + 2 .. z - 1 : Cell(prog, y) # 0
    PROVE  EndOf(prog, a) = z /\ EntryLen(prog, a) = z - a + 1
<1>1. Len(prog) \in Nat
  BY LenProperties
<1>2. \E x \in (a + 2)..(Len(prog) - 1) :
          /\ Cell(prog, x) = 0 \/ x = Len(prog) - 1
          /\ \A y \in (a + 2)..(x - 1) : Cell(prog, y) # 0
  OBVIOUS
<1>3. /\ EndOf(prog, a) \in a + 2 .. Len(prog) - 1
      /\ Cell(prog, EndOf(prog, a)) = 0 \/ EndOf(prog, a) = Len(prog) - 1
      /\ \A y \in a + 2 .. EndOf(prog, a) - 1 : Cell(prog, y) # 0
  BY <1>2, Zenon DEF EndOf
<1>4. ~ EndOf(prog, a) < z /\ ~ z < EndOf(prog, a)
  BY <1>1, <1>3
<1>5. QED BY <1>1, <1>3, <1>4 DEF EntryLen

\* The walks are defined.
LEMMA FirstWalks ==
    ASSUME NEW prog \in Seq(Nat), Len(prog) >= 2, NEW ln
    PROVE  /\ FirstNotBelow(prog, ln) = FirstFrom(prog, ln)[0]
           /\ \A a \in 0 .. Len(prog) : FirstFrom(prog, ln)[a] =
                  IF a >= ProgramLen(prog) \/ LineNumber(prog, a) >= ln THEN a
                  ELSE FirstFrom(prog, ln)[a + EntryLen(prog, a)]
<1> DEFINE N == Len(prog)
           Stops == {a \in 0 .. N : a >= ProgramLen(prog) \/ LineNumber(prog, a) >= ln}
           next == [a \in 0 .. N |-> a + EntryLen(prog, a)]
           base == [a \in 0 .. N |-> a]
           join == [a \in 0 .. N |-> [v \in 0 .. N |-> v]]
<1>1. N \in Nat
  BY LenProperties
<1>2. \A a \in 0 .. N : a < ProgramLen(prog) => next[a] \in 0 .. N /\ next[a] > a
  BY <1>1, EndExists
<1>3. \A a \in 0 .. N : a \in Stops => base[a] \in 0 .. N
  OBVIOUS
<1>4. \A a \in 0 .. N : a \notin Stops =>
          /\ next[a] \in 0 .. N /\ next[a] > a
          /\ \A v \in 0 .. N : join[a][v] \in 0 .. N
  <2>1. \A a \in 0 .. N : a \notin Stops => a < ProgramLen(prog)
    BY <1>1 DEF ProgramLen
  <2>2. \A a, v \in 0 .. N : join[a][v] = v
    OBVIOUS
  <2> HIDE DEF Stops, next, join
  <2>3. QED BY <2>1, <2>2, <1>2
<1>5. PICK f \in [0 .. N -> 0 .. N] :
          \A a \in 0 .. N : f[a] = IF a \in Stops THEN base[a] ELSE join[a][f[next[a]]]
  <2> HIDE DEF N, Stops, next, base, join
  <2>1. GoesUp(N, 0 .. N, Stops, next, base, join)
    BY <1>1, <1>3, <1>4 DEF GoesUp
  <2>2. Recursive(N, 0 .. N, Stops, next, base, join)
    BY <2>1, WalkUp
  <2>3. QED BY <2>2 DEF Recursive
<1>6. ASSUME NEW a \in 0 .. N
      PROVE  f[a] = IF a >= ProgramLen(prog) \/ LineNumber(prog, a) >= ln THEN a
                    ELSE f[a + EntryLen(prog, a)]
  <2>1. CASE a \in Stops
    BY <1>5, <2>1
  <2>2. CASE a \notin Stops
    <3>1. next[a] \in 0 .. N /\ next[a] = a + EntryLen(prog, a)
      BY <1>4, <2>2
    <3>2. f[next[a]] \in 0 .. N
      BY <3>1
    <3>3. join[a][f[next[a]]] = f[next[a]]
      BY <3>2
    <3>4. f[a] = f[a + EntryLen(prog, a)]
      BY <1>5, <2>2, <3>1, <3>3
    <3>5. QED BY <2>2, <3>4
  <2>3. QED BY <2>1, <2>2
<1>7. f = [a \in 0 .. Len(prog) |->
              IF a >= ProgramLen(prog) \/ LineNumber(prog, a) >= ln THEN a
              ELSE f[a + EntryLen(prog, a)]]
  BY <1>6
<1>8. FirstFrom(prog, ln) = [a \in 0 .. Len(prog) |->
          IF a >= ProgramLen(prog) \/ LineNumber(prog, a) >= ln THEN a
          ELSE FirstFrom(prog, ln)[a + EntryLen(prog, a)]]
  BY <1>7, Zenon DEF FirstFrom
<1>9. FirstNotBelow(prog, ln) = FirstFrom(prog, ln)[0]
  BY DEF FirstNotBelow, FirstFrom
<1>10. \A a \in 0 .. Len(prog) : FirstFrom(prog, ln)[a] =
                  IF a >= ProgramLen(prog) \/ LineNumber(prog, a) >= ln THEN a
                  ELSE FirstFrom(prog, ln)[a + EntryLen(prog, a)]
  BY <1>8
<1>11. QED BY <1>9, <1>10

LEMMA FindWalks ==
    ASSUME NEW prog \in Seq(Nat), Len(prog) >= 2, NEW ln
    PROVE  /\ FindLine(prog, ln) = FindFrom(prog, ln)[0]
           /\ \A a \in 0 .. Len(prog) : FindFrom(prog, ln)[a] =
                  IF a >= ProgramLen(prog) THEN NoLine
                  ELSE IF LineNumber(prog, a) = ln THEN a ELSE FindFrom(prog, ln)[a + EntryLen(prog, a)]
<1> DEFINE N == Len(prog)
           V == Int
           Stops == {a \in 0 .. N : a >= ProgramLen(prog) \/ LineNumber(prog, a) = ln}
           next == [a \in 0 .. N |-> a + EntryLen(prog, a)]
           base == [a \in 0 .. N |-> IF a >= ProgramLen(prog) THEN NoLine ELSE a]
           join == [a \in 0 .. N |-> [v \in V |-> v]]
<1>1. N \in Nat
  BY LenProperties
<1>2. \A a \in 0 .. N : a < ProgramLen(prog) => next[a] \in 0 .. N /\ next[a] > a
  BY <1>1, EndExists
<1>3. \A a \in 0 .. N : a \in Stops => base[a] \in V
  BY DEF NoLine
<1>4. \A a \in 0 .. N : a \notin Stops =>
          /\ next[a] \in 0 .. N /\ next[a] > a
          /\ \A v \in V : join[a][v] \in V
  <2>1. \A a \in 0 .. N : a \notin Stops => a < ProgramLen(prog)
    BY <1>1 DEF ProgramLen
  <2>2. \A a \in 0 .. N, v \in V : join[a][v] \in V
    OBVIOUS
  <2> HIDE DEF Stops, next, join
  <2>3. QED BY <2>1, <2>2, <1>2
<1>5. PICK f \in [0 .. N -> V] :
          \A a \in 0 .. N : f[a] = IF a \in Stops THEN base[a] ELSE join[a][f[next[a]]]
  <2> HIDE DEF N, V, Stops, next, base, join
  <2>1. GoesUp(N, V, Stops, next, base, join)
    BY <1>1, <1>3, <1>4 DEF GoesUp
  <2>2. Recursive(N, V, Stops, next, base, join)
    BY <2>1, WalkUp
  <2>3. QED BY <2>2 DEF Recursive
<1>6. ASSUME NEW a \in 0 .. N
      PROVE  f[a] = IF a >= ProgramLen(prog) THEN NoLine
                  ELSE IF LineNumber(prog, a) = ln THEN a ELSE f[a + EntryLen(prog, a)]
  <2>1. CASE a \in Stops
    BY <1>5, <2>1
  <2>2. CASE a \notin Stops
    <3>1. next[a] \in 0 .. N /\ next[a] = a + EntryLen(prog, a)
      BY <1>4, <2>2
    <3>2. f[next[a]] \in V
      <4> HIDE DEF V, next
      <4>1. QED BY <3>1
    <3>3. \A v \in V : join[a][v] = v
      OBVIOUS
    <3>4. f[a] = f[a + EntryLen(prog, a)]
      <4> HIDE DEF V, next, join, Stops, base
      <4>1. QED BY <1>5, <2>2, <3>1, <3>2, <3>3
    <3>5. QED BY <2>2, <3>4
  <2>3. QED BY <2>1, <2>2
<1>7. f = [a \in 0 .. Len(prog) |-> IF a >= ProgramLen(prog) THEN NoLine
                  ELSE IF LineNumber(prog, a) = ln THEN a ELSE f[a + EntryLen(prog, a)]]
  BY <1>6
<1>8. FindFrom(prog, ln) = [a \in 0 .. Len(prog) |-> IF a >= ProgramLen(prog) THEN NoLine
                  ELSE IF LineNumber(prog, a) = ln THEN a ELSE FindFrom(prog, ln)[a + EntryLen(prog, a)]]
  BY <1>7, Zenon DEF FindFrom
<1>9. FindLine(prog, ln) = FindFrom(prog, ln)[0]
  BY DEF FindLine, FindFrom
<1>10. \A a \in 0 .. Len(prog) : FindFrom(prog, ln)[a] = IF a >= ProgramLen(prog) THEN NoLine
                  ELSE IF LineNumber(prog, a) = ln THEN a ELSE FindFrom(prog, ln)[a + EntryLen(prog, a)]
  BY <1>8
<1>11. QED BY <1>9, <1>10

LEMMA StartsWalks ==
    ASSUME NEW prog \in Seq(Nat), Len(prog) >= 2
    PROVE  /\ LineStarts(prog) = StartsFrom(prog)[0]
           /\ \A a \in 0 .. Len(prog) : StartsFrom(prog)[a] =
                  IF a >= ProgramLen(prog) THEN {} ELSE {a} \cup StartsFrom(prog)[a + EntryLen(prog, a)]
<1> DEFINE N == Len(prog)
           V == SUBSET (0 .. N)
           Stops == {a \in 0 .. N : a >= ProgramLen(prog)}
           next == [a \in 0 .. N |-> a + EntryLen(prog, a)]
           base == [a \in 0 .. N |-> {}]
           join == [a \in 0 .. N |-> [v \in V |-> {a} \cup v]]
<1>1. N \in Nat
  BY LenProperties
<1>2. \A a \in 0 .. N : a < ProgramLen(prog) => next[a] \in 0 .. N /\ next[a] > a
  BY <1>1, EndExists
<1>3. \A a \in 0 .. N : a \in Stops => base[a] \in V
  BY DEF NoLine
<1>4. \A a \in 0 .. N : a \notin Stops =>
          /\ next[a] \in 0 .. N /\ next[a] > a
          /\ \A v \in V : join[a][v] \in V
  <2>1. \A a \in 0 .. N : a \notin Stops => a < ProgramLen(prog)
    BY <1>1 DEF ProgramLen
  <2>2. \A a \in 0 .. N, v \in V : join[a][v] \in V
    OBVIOUS
  <2> HIDE DEF Stops, next, join
  <2>3. QED BY <2>1, <2>2, <1>2
<1>5. PICK f \in [0 .. N -> V] :
          \A a \in 0 .. N : f[a] = IF a \in Stops THEN base[a] ELSE join[a][f[next[a]]]
  <2> HIDE DEF N, V, Stops, next, base, join
  <2>1. GoesUp(N, V, Stops, next, base, join)
    BY <1>1, <1>3, <1>4 DEF GoesUp
  <2>2. Recursive(N, V, Stops, next, base, join)
    BY <2>1, WalkUp
  <2>3. QED BY <2>2 DEF Recursive
<1>6. ASSUME NEW a \in 0 .. N
      PROVE  f[a] = IF a >= ProgramLen(prog) THEN {} ELSE {a} \cup f[a + EntryLen(prog, a)]
  <2>1. CASE a \in Stops
    BY <1>5, <2>1
  <2>2. CASE a \notin Stops
    <3>1. next[a] \in 0 .. N /\ next[a] = a + EntryLen(prog, a)
      BY <1>4, <2>2
    <3>2. f[next[a]] \in V
      <4> HIDE DEF V, next
      <4>1. QED BY <3>1
    <3>3. \A v \in V : join[a][v] = {a} \cup v
      OBVIOUS
    <3>4. f[a] = {a} \cup f[a + EntryLen(prog, a)]
      <4> HIDE DEF V, next, join, Stops, base
      <4>1. QED BY <1>5, <2>2, <3>1, <3>2, <3>3
    <3>5. QED BY <2>2, <3>4
  <2>3. QED BY <2>1, <2>2
<1>7. f = [a \in 0 .. Len(prog) |-> IF a >= ProgramLen(prog) THEN {} ELSE {a} \cup f[a + EntryLen(prog, a)]]
  BY <1>6
<1>8. StartsFrom(prog) = [a \in 0 .. Len(prog) |-> IF a >= ProgramLen(prog) THEN {} ELSE {a} \cup StartsFrom(prog)[a + EntryLen(prog, a)]]
  BY <1>7, Zenon DEF StartsFrom
<1>9. LineStarts(prog) = StartsFrom(prog)[0]
  BY DEF LineStarts, StartsFrom
<1>10. \A a \in 0 .. Len(prog) : StartsFrom(prog)[a] = IF a >= ProgramLen(prog) THEN {} ELSE {a} \cup StartsFrom(prog)[a + EntryLen(prog, a)]
  BY <1>8
<1>11. QED BY <1>9, <1>10

-----------------------------------------------------------------------------
(* What the walks find in a program.                                        *)

LEMMA WalkFacts ==
    ASSUME NEW prog, NEW T, Walk(prog, T)
    PROVE  /\ prog \in Seq(Nat) /\ Len(prog) \in Nat /\ Len(prog) >= 2
           /\ ProgramLen(prog) \in Nat /\ Len(prog) = ProgramLen(prog) + 2
           /\ T \subseteq 0 .. ProgramLen(prog) /\ 0 \in T /\ ProgramLen(prog) \in T
           /\ \A a \in T : a \in Nat /\ a \in Int /\ a <= ProgramLen(prog) /\ a \in 0 .. Len(prog)
           /\ \A a \in T : a < ProgramLen(prog) =>
                 /\ EntryLen(prog, a) \in Nat
                 /\ EntryLen(prog, a) >= 4 /\ a + EntryLen(prog, a) \in T
                 /\ \A b \in T : b > a => b >= a + EntryLen(prog, a)
                 /\ LineNumber(prog, a) \in Nat
           /\ \A a, b \in T : a < b /\ b < ProgramLen(prog) => LineNumber(prog, a) < LineNumber(prog, b)
<1>1. /\ prog \in Seq(Nat) /\ Len(prog) \in Nat /\ Len(prog) >= 2
      /\ ProgramLen(prog) \in Nat /\ Len(prog) = ProgramLen(prog) + 2
      /\ T \subseteq 0 .. ProgramLen(prog) /\ 0 \in T /\ ProgramLen(prog) \in T
  BY LenProperties DEF Walk, ProgramLen
<1>2. /\ \A a \in T : a < ProgramLen(prog) =>
             /\ EntryLen(prog, a) >= 4 /\ a + EntryLen(prog, a) \in T
             /\ \A b \in T : b > a => b >= a + EntryLen(prog, a)
      /\ \A a, b \in T : a < b /\ b < ProgramLen(prog) => LineNumber(prog, a) < LineNumber(prog, b)
  BY DEF Walk
<1>3. \A a \in T : a \in Nat /\ a \in Int /\ a <= ProgramLen(prog) /\ a \in 0 .. Len(prog)
  BY <1>1
<1>4. ASSUME NEW a \in T, a < ProgramLen(prog)
      PROVE  EntryLen(prog, a) \in Nat /\ LineNumber(prog, a) \in Nat
  <2>1. EntryLen(prog, a) = EndOf(prog, a) - a + 1 /\ EndOf(prog, a) \in a + 2 .. Len(prog) - 1
    BY <1>1, <1>3, <1>4, EndExists
  <2>2. a + 1 \in 1 .. Len(prog) /\ a + 1 + 1 \in 1 .. Len(prog)
    BY <1>1, <1>3, <1>4
  <2>3. Cell(prog, a) \in Nat /\ Cell(prog, a + 1) \in Nat
    BY <1>1, <2>2, ElementOfSeq DEF Cell
  <2>4. EntryLen(prog, a) \in Nat
    BY <1>1, <1>3, <2>1
  <2>5. LineNumber(prog, a) \in Nat
    BY <2>3 DEF LineNumber
  <2>6. QED BY <2>4, <2>5
<1>5. QED BY <1>1, <1>2, <1>3, <1>4

\* The text of a line ends at a zero in front of the program's end.
LEMMA LineEnds ==
    ASSUME NEW prog, NEW T, Walk(prog, T), NEW a \in T, a < ProgramLen(prog)
    PROVE  /\ EndOf(prog, a) \in a + 2 .. Len(prog) - 1 /\ EndOf(prog, a) <= ProgramLen(prog) - 1
           /\ Cell(prog, EndOf(prog, a)) = 0
           /\ \A y \in a + 2 .. EndOf(prog, a) - 1 : Cell(prog, y) # 0
           /\ EntryLen(prog, a) = EndOf(prog, a) - a + 1
<1>1. /\ prog \in Seq(Nat) /\ Len(prog) \in Nat /\ Len(prog) >= 2 /\ a \in Nat
      /\ ProgramLen(prog) \in Nat /\ Len(prog) = ProgramLen(prog) + 2
  BY WalkFacts
<1> DEFINE z == EndOf(prog, a)
           n == EntryLen(prog, a)
<1>2. /\ z \in a + 2 .. Len(prog) - 1
      /\ Cell(prog, z) = 0 \/ z = Len(prog) - 1
      /\ \A y \in a + 2 .. z - 1 : Cell(prog, y) # 0
      /\ n = z - a + 1
  BY <1>1, EndExists
<1>3. a + n <= ProgramLen(prog)
  <2>1. a + n \in T
    BY WalkFacts
  <2> HIDE DEF n
  <2>2. QED BY <2>1, WalkFacts
<1> HIDE DEF z, n
<1>4. z <= ProgramLen(prog) - 1 /\ z # Len(prog) - 1
  BY <1>1, <1>2, <1>3
<1>5. QED BY <1>2, <1>4 DEF z, n

\* What holds of the end, and of a line if of what follows it, holds of every line.
LEMMA FromTheEnd ==
    ASSUME NEW prog, NEW T, Walk(prog, T), NEW P, ProgramLen(prog) \in P,
           \A a \in T : a < ProgramLen(prog) /\ a + EntryLen(prog, a) \in P => a \in P
    PROVE  T \subseteq P
<1> DEFINE L == ProgramLen(prog)
           Left == {n \in Nat : \E a \in T : a \notin P /\ n = L - a}
<1>1. L \in Nat /\ \A a \in T : a \in Nat /\ a <= L
  BY WalkFacts
<1>2. SUFFICES ASSUME NEW c \in T, c \notin P PROVE FALSE
  OBVIOUS
<1>3. Left \in SUBSET Nat /\ Left # {}
  <2>1. L - c \in Left
    BY <1>1, <1>2
  <2>2. QED BY <2>1
<1>4. PICK n \in Left : \A m \in Left : n <= m
  <2> HIDE DEF Left
  <2>1. QED BY <1>3, LeastExists
<1>5. PICK a \in T : a \notin P /\ n = L - a
  BY <1>4
<1>6. a < L
  BY <1>1, <1>5
<1>7. a + EntryLen(prog, a) \in T /\ a + EntryLen(prog, a) > a
  <2>1. EntryLen(prog, a) \in Nat /\ EntryLen(prog, a) >= 4 /\ a + EntryLen(prog, a) \in T
    BY <1>6, WalkFacts
  <2>2. QED BY <1>1, <2>1
<1>8. a + EntryLen(prog, a) \notin P
  BY <1>5, <1>6
<1>9. L - (a + EntryLen(prog, a)) \in Left /\ L - (a + EntryLen(prog, a)) < n
  BY <1>1, <1>5, <1>7, <1>8
<1>10. QED BY <1>4, <1>9, <1>3

LEMMA StartsAre ==
    ASSUME NEW prog, NEW T, Walk(prog, T)
    PROVE  LineStarts(prog) = T \ {ProgramLen(prog)} /\ Places(prog) = T
<1> DEFINE L == ProgramLen(prog)
           f == StartsFrom(prog)
           From(c) == {a \in T : a >= c} \ {L}
           P == {c \in T : f[c] = From(c)}
<1>1. /\ LineStarts(prog) = f[0]
      /\ \A a \in 0 .. Len(prog) : f[a] = IF a >= L THEN {} ELSE {a} \cup f[a + EntryLen(prog, a)]
  BY WalkFacts, StartsWalks
<1> HIDE DEF f
<1>2. L \in P
  <2>1. L \in T /\ L \in Nat /\ \A a \in T : a \in Nat /\ a <= L /\ a \in 0 .. Len(prog)
    BY WalkFacts
  <2>2. f[L] = {}
    BY <1>1, <2>1
  <2>3. From(L) = {}
    BY <2>1
  <2>4. QED BY <2>1, <2>2, <2>3
<1>3. ASSUME NEW a \in T, a < L, a + EntryLen(prog, a) \in P
      PROVE  a \in P
  <2>1. \A b \in T : b \in Nat /\ b <= L /\ b \in 0 .. Len(prog)
    BY WalkFacts
  <2>2. L \in Nat /\ EntryLen(prog, a) \in Nat /\ EntryLen(prog, a) >= 4
    BY <1>3, WalkFacts
  <2>3. \A b \in T : b > a => b >= a + EntryLen(prog, a)
    BY <1>3, WalkFacts
  <2>4. f[a] = {a} \cup From(a + EntryLen(prog, a))
    <3>1. f[a] = {a} \cup f[a + EntryLen(prog, a)]
      <4>1. a \in 0 .. Len(prog) /\ ~ a >= L
        BY <1>3, <2>1, <2>2
      <4>2. QED BY <1>1, <4>1
    <3>2. f[a + EntryLen(prog, a)] = From(a + EntryLen(prog, a))
      BY <1>3
    <3>3. QED BY <3>1, <3>2
  <2>5. From(a) = {a} \cup From(a + EntryLen(prog, a))
    BY <1>3, <2>1, <2>2, <2>3
  <2>6. QED BY <2>4, <2>5
<1>4. T \subseteq P
  <2> HIDE DEF P, L
  <2>1. QED BY <1>2, <1>3, FromTheEnd DEF L
<1>5. f[0] = From(0) /\ From(0) = T \ {L}
  <2>1. 0 \in T /\ \A b \in T : b \in Nat
    BY WalkFacts
  <2>2. QED BY <1>4, <2>1
<1>6. L \in T
  BY WalkFacts
<1>7. QED BY <1>1, <1>5, <1>6 DEF Places

\* The first line numbered ln or above.
LEMMA FirstIs ==
    ASSUME NEW prog, NEW T, Walk(prog, T), NEW ln \in Nat
    PROVE  LET a == FirstNotBelow(prog, ln)
           IN  /\ a \in T
               /\ a < ProgramLen(prog) => LineNumber(prog, a) >= ln
               /\ \A b \in T : b < a => LineNumber(prog, b) < ln
<1> DEFINE L == ProgramLen(prog)
           f == FirstFrom(prog, ln)
           P == {c \in T : /\ f[c] \in T /\ f[c] >= c
                           /\ f[c] < L => LineNumber(prog, f[c]) >= ln
                           /\ \A b \in T : b >= c /\ b < f[c] => LineNumber(prog, b) < ln}
<1>1. /\ FirstNotBelow(prog, ln) = f[0]
      /\ \A a \in 0 .. Len(prog) : f[a] = IF a >= L \/ LineNumber(prog, a) >= ln THEN a
                                          ELSE f[a + EntryLen(prog, a)]
  BY WalkFacts, FirstWalks
<1>2. L \in T /\ L \in Nat /\ 0 \in T /\ \A a \in T : a \in Nat /\ a <= L /\ a \in 0 .. Len(prog)
  BY WalkFacts
<1>3. \A a \in T : a < L => LineNumber(prog, a) \in Nat
  BY WalkFacts
<1> HIDE DEF f
<1>4. L \in P
  <2>1. f[L] = L
    BY <1>1, <1>2
  <2>2. QED BY <1>2, <2>1
<1>5. ASSUME NEW a \in T, a < L, a + EntryLen(prog, a) \in P
      PROVE  a \in P
  <2>1. EntryLen(prog, a) \in Nat /\ EntryLen(prog, a) >= 4
    BY <1>5, WalkFacts
  <2>2. \A b \in T : b > a => b >= a + EntryLen(prog, a)
    BY <1>5, WalkFacts
  <2>3. CASE LineNumber(prog, a) >= ln
    <3>1. f[a] = a
      BY <1>1, <1>2, <2>3
    <3>2. QED BY <1>2, <2>3, <3>1
  <2>4. CASE ~ LineNumber(prog, a) >= ln
    <3>1. f[a] = f[a + EntryLen(prog, a)]
      BY <1>1, <1>2, <1>5, <2>4
    <3>2. \A b \in T : b >= a /\ b < f[a] => LineNumber(prog, b) < ln
      BY <1>2, <1>3, <1>5, <2>1, <2>2, <2>4, <3>1
    <3>3. f[a] \in T /\ f[a] >= a /\ (f[a] < L => LineNumber(prog, f[a]) >= ln)
      BY <1>2, <1>5, <2>1, <3>1
    <3>4. QED BY <3>2, <3>3
  <2>5. QED BY <2>3, <2>4
<1>6. T \subseteq P
  <2> HIDE DEF P, L
  <2>1. QED BY <1>4, <1>5, FromTheEnd DEF L
<1>7. 0 \in P
  BY <1>2, <1>6
<1>8. QED BY <1>1, <1>2, <1>7

\* The line numbered ln, if there is one.
LEMMA FindIs ==
    ASSUME NEW prog, NEW T, Walk(prog, T), NEW ln
    PROVE  LET a == FindLine(prog, ln)
           IN  \/ a = NoLine
               \/ a \in T /\ a < ProgramLen(prog) /\ LineNumber(prog, a) = ln
<1> DEFINE L == ProgramLen(prog)
           f == FindFrom(prog, ln)
           P == {c \in T : f[c] = NoLine \/ (f[c] \in T /\ f[c] < L /\ LineNumber(prog, f[c]) = ln)}
<1>1. /\ FindLine(prog, ln) = f[0]
      /\ \A a \in 0 .. Len(prog) : f[a] = IF a >= L THEN NoLine
                                          ELSE IF LineNumber(prog, a) = ln THEN a
                                          ELSE f[a + EntryLen(prog, a)]
  BY WalkFacts, FindWalks
<1>2. L \in T /\ L \in Nat /\ 0 \in T /\ \A a \in T : a \in Nat /\ a <= L /\ a \in 0 .. Len(prog)
  BY WalkFacts
<1> HIDE DEF f
<1>4. L \in P
  <2>1. f[L] = NoLine
    BY <1>1, <1>2
  <2>2. QED BY <1>2, <2>1
<1>5. ASSUME NEW a \in T, a < L, a + EntryLen(prog, a) \in P
      PROVE  a \in P
  <2>1. f[a] = IF LineNumber(prog, a) = ln THEN a ELSE f[a + EntryLen(prog, a)]
    BY <1>1, <1>2, <1>5
  <2>2. QED BY <1>5, <2>1
<1>6. T \subseteq P
  <2> HIDE DEF P, L
  <2>1. QED BY <1>4, <1>5, FromTheEnd DEF L
<1>7. QED BY <1>1, <1>2, <1>6

\* A line is found by its number.
LEMMA FoundByNumber ==
    ASSUME NEW prog, NEW T, Walk(prog, T), NEW c \in T, c < ProgramLen(prog)
    PROVE  FindLine(prog, LineNumber(prog, c)) = c
<1> DEFINE L == ProgramLen(prog)
           f == FindFrom(prog, LineNumber(prog, c))
           P == {b \in T : b <= c => f[b] = c}
<1>1. /\ FindLine(prog, LineNumber(prog, c)) = f[0]
      /\ \A a \in 0 .. Len(prog) : f[a] = IF a >= L THEN NoLine
                                          ELSE IF LineNumber(prog, a) = LineNumber(prog, c) THEN a
                                          ELSE f[a + EntryLen(prog, a)]
  BY WalkFacts, FindWalks
<1>2. L \in T /\ L \in Nat /\ 0 \in T /\ \A a \in T : a \in Nat /\ a <= L /\ a \in 0 .. Len(prog)
  BY WalkFacts
<1> HIDE DEF f
<1>4. L \in P
  BY <1>2
<1>5. ASSUME NEW a \in T, a < L, a + EntryLen(prog, a) \in P
      PROVE  a \in P
  <2>1. f[a] = IF LineNumber(prog, a) = LineNumber(prog, c) THEN a ELSE f[a + EntryLen(prog, a)]
    BY <1>1, <1>2, <1>5
  <2>2. CASE a < c
    <3>1. LineNumber(prog, a) < LineNumber(prog, c) /\ LineNumber(prog, a) \in Nat /\ LineNumber(prog, c) \in Nat
      BY <1>5, <2>2, WalkFacts
    <3>2. a + EntryLen(prog, a) <= c
      BY <1>5, <2>2, WalkFacts
    <3>3. f[a] = c
      BY <1>5, <2>1, <3>1, <3>2
    <3>4. QED BY <3>3
  <2>3. CASE a = c
    BY <2>1, <2>3
  <2>4. CASE a > c
    BY <1>2, <2>4
  <2>5. QED BY <1>2, <2>2, <2>3, <2>4
<1>6. T \subseteq P
  <2> HIDE DEF P, L
  <2>1. QED BY <1>4, <1>5, FromTheEnd DEF L
<1>7. QED BY <1>1, <1>2, <1>6

-----------------------------------------------------------------------------
(* Edits.                                                                   *)

\* The text of a line is what is between its number and its zero.
LEMMA TextIs ==
    ASSUME NEW prog \in Seq(Nat), NEW a \in Nat, EntryLen(prog, a) \in Nat,
           EntryLen(prog, a) >= 4, a + EntryLen(prog, a) <= Len(prog)
    PROVE  /\ TextAt(prog, a) \in Seq(Nat) /\ Len(TextAt(prog, a)) = EntryLen(prog, a) - 3
           /\ \A i \in 1 .. EntryLen(prog, a) - 3 : TextAt(prog, a)[i] = Cell(prog, a + 1 + i)
<1> DEFINE n == EntryLen(prog, a)
           k == a + 3
           z == a + n - 1
<1>1. TextAt(prog, a) = SubSeq(prog, k, z)
  BY DEF TextAt
<1>2. Len(prog) \in Nat /\ \A i \in 1 .. Len(prog) : prog[i] \in Nat
  BY LenProperties, ElementOfSeq
<1>3. n \in Nat /\ n >= 4 /\ a + n <= Len(prog)
  OBVIOUS
<1> HIDE DEF n
<1>4. k \in Nat /\ z \in Nat /\ k >= 1 /\ k <= z /\ z <= Len(prog) /\ z - k + 1 = n - 3
  BY <1>2, <1>3
<1>5. \A i \in 1 .. n - 3 : k + i - 1 = (a + 1 + i) + 1
  BY <1>3
<1> HIDE DEF k, z
<1>6. \A i \in k .. z : prog[i] \in Nat
  BY <1>2, <1>4
<1>7. /\ SubSeq(prog, k, z) \in Seq(Nat)
      /\ Len(SubSeq(prog, k, z)) = IF k <= z THEN z - k + 1 ELSE 0
      /\ \A i \in 1 .. z - k + 1 : SubSeq(prog, k, z)[i] = prog[k + i - 1]
  <2>1. k \in Int /\ z \in Int
    BY <1>4
  <2>2. QED BY <1>6, <2>1, SubSeqProperties
<1>8. \A i \in 1 .. n - 3 : SubSeq(prog, k, z)[i] = prog[(a + 1 + i) + 1]
  BY <1>4, <1>5, <1>7
<1>9. QED BY <1>1, <1>4, <1>7, <1>8 DEF Cell, n

\* Lines of the same length and bytes have the same text.
SameBytes(prog, a, q, c, n) ==
    /\ prog \in Seq(Nat) /\ q \in Seq(Nat) /\ a \in Nat /\ c \in Nat
    /\ n \in Nat /\ n >= 4 /\ EntryLen(prog, a) = n /\ EntryLen(q, c) = n
    /\ a + n <= Len(prog) /\ c + n <= Len(q)
    /\ \A i \in 1 .. n - 3 : Cell(q, c + 1 + i) = Cell(prog, a + 1 + i)

LEMMA SameText ==
    ASSUME NEW prog, NEW q, NEW a, NEW c, NEW n, SameBytes(prog, a, q, c, n)
    PROVE  TextAt(q, c) = TextAt(prog, a)
<1>0. /\ prog \in Seq(Nat) /\ q \in Seq(Nat) /\ a \in Nat /\ c \in Nat
      /\ n \in Nat /\ n >= 4 /\ EntryLen(prog, a) = n /\ EntryLen(q, c) = n
      /\ a + n <= Len(prog) /\ c + n <= Len(q)
      /\ \A i \in 1 .. n - 3 : Cell(q, c + 1 + i) = Cell(prog, a + 1 + i)
  BY DEF SameBytes
<1>1. /\ TextAt(prog, a) \in Seq(Nat) /\ Len(TextAt(prog, a)) = n - 3
      /\ \A i \in 1 .. n - 3 : TextAt(prog, a)[i] = Cell(prog, a + 1 + i)
  BY <1>0, TextIs
<1>2. /\ TextAt(q, c) \in Seq(Nat) /\ Len(TextAt(q, c)) = n - 3
      /\ \A i \in 1 .. n - 3 : TextAt(q, c)[i] = Cell(q, c + 1 + i)
  BY <1>0, TextIs
<1>3. \A i \in 1 .. n - 3 : TextAt(q, c)[i] = TextAt(prog, a)[i]
  BY <1>0, <1>1, <1>2
<1> DEFINE s == TextAt(q, c)
           u == TextAt(prog, a)
<1>4. s \in Seq(Nat) /\ u \in Seq(Nat) /\ Len(s) = Len(u) /\ \A i \in 1 .. Len(s) : s[i] = u[i]
  BY <1>1, <1>2, <1>3
<1> HIDE DEF s, u
<1>5. s = u
  BY <1>4, SeqEqual
<1>6. QED BY <1>5 DEF s, u

SameLine(prog, b, q, c) == LineNumber(q, c) = LineNumber(prog, b) /\ TextAt(q, c) = TextAt(prog, b)

\* A line in front of the place a, of which all bytes are kept.
LEMMA InFront ==
    ASSUME NEW prog, NEW T, Walk(prog, T), NEW a \in T, NEW q \in Seq(Nat), a <= Len(q),
           \A x \in 0 .. a - 1 : Cell(q, x) = Cell(prog, x),
           NEW b \in T, b < a
    PROVE  /\ EntryLen(q, b) = EntryLen(prog, b) /\ b + EntryLen(prog, b) <= a
           /\ LineNumber(q, b) = LineNumber(prog, b) /\ SameLine(prog, b, q, b)
<1> DEFINE z == EndOf(prog, b)
<1>1. /\ prog \in Seq(Nat) /\ Len(prog) \in Nat /\ ProgramLen(prog) \in Nat /\ Len(prog) >= 2
      /\ Len(prog) = ProgramLen(prog) + 2
      /\ a \in Nat /\ b \in Nat /\ a <= ProgramLen(prog)
  BY WalkFacts
<1>2. Len(q) \in Nat
  BY LenProperties
<1>3. b < ProgramLen(prog)
  BY <1>1
<1>4. b + EntryLen(prog, b) <= a /\ EntryLen(prog, b) \in Nat
  BY <1>3, WalkFacts
<1>5. /\ z \in b + 2 .. Len(prog) - 1
      /\ Cell(prog, z) = 0
      /\ \A y \in b + 2 .. z - 1 : Cell(prog, y) # 0
      /\ EntryLen(prog, b) = z - b + 1
  BY <1>3, LineEnds
<1> HIDE DEF z
<1>6. z \in b + 2 .. a - 1 /\ z \in b + 2 .. Len(q) - 1
  BY <1>1, <1>2, <1>4, <1>5
<1>7. Cell(q, z) = 0 /\ \A y \in b + 2 .. z - 1 : Cell(q, y) # 0
  BY <1>1, <1>5, <1>6
<1>8. EntryLen(q, b) = z - b + 1
  BY <1>1, <1>6, <1>7, EndIs
<1>9. Cell(q, b) = Cell(prog, b) /\ Cell(q, b + 1) = Cell(prog, b + 1)
  BY <1>1, <1>6
<1>10. EntryLen(q, b) = EntryLen(prog, b) /\ LineNumber(q, b) = LineNumber(prog, b)
  BY <1>5, <1>8, <1>9 DEF LineNumber
<1>11. TextAt(q, b) = TextAt(prog, b)
  <2> DEFINE n == EntryLen(prog, b)
  <2>1. /\ n \in Nat /\ n >= 4 /\ EntryLen(q, b) = n /\ b + n <= a /\ b + n <= Len(prog)
        /\ b + n <= Len(q)
    BY <1>1, <1>2, <1>3, <1>4, <1>10, WalkFacts
  <2> HIDE DEF n
  <2>2. \A i \in 1 .. n - 3 : b + 1 + i \in 0 .. a - 1
    BY <1>1, <2>1
  <2>3. \A i \in 1 .. n - 3 : Cell(q, b + 1 + i) = Cell(prog, b + 1 + i)
    BY <2>2
  <2>4. SameBytes(prog, b, q, b, n)
    BY <1>1, <2>1, <2>3 DEF SameBytes, n
  <2>5. QED BY <2>4, SameText
<1>12. QED BY <1>4, <1>10, <1>11 DEF SameLine

\* All bytes of the lines from k on are moved by d.
Shifted(prog, q, k, d) ==
    /\ k \in Nat /\ d \in Int /\ k + d >= 0
    /\ q \in Seq(Nat) /\ Len(q) = Len(prog) + d
    /\ \A x \in k .. ProgramLen(prog) - 1 : Cell(q, x + d) = Cell(prog, x)

\* A line behind a place from which on all bytes are moved.
LEMMA Moved ==
    ASSUME NEW prog, NEW T, Walk(prog, T), NEW k, NEW d, NEW q, Shifted(prog, q, k, d),
           NEW b \in T, k <= b, b < ProgramLen(prog)
    PROVE  /\ EntryLen(q, b + d) = EntryLen(prog, b)
           /\ LineNumber(q, b + d) = LineNumber(prog, b) /\ SameLine(prog, b, q, b + d)
<1>0. /\ k \in Nat /\ d \in Int /\ k + d >= 0 /\ q \in Seq(Nat) /\ Len(q) = Len(prog) + d
      /\ \A x \in k .. ProgramLen(prog) - 1 : Cell(q, x + d) = Cell(prog, x)
  BY DEF Shifted
<1> DEFINE z == EndOf(prog, b)
<1>1. /\ prog \in Seq(Nat) /\ Len(prog) \in Nat /\ ProgramLen(prog) \in Nat /\ Len(prog) >= 2
      /\ Len(prog) = ProgramLen(prog) + 2
      /\ b \in Nat
  BY WalkFacts
<1>5. /\ z \in b + 2 .. Len(prog) - 1 /\ z <= ProgramLen(prog) - 1
      /\ Cell(prog, z) = 0
      /\ \A y \in b + 2 .. z - 1 : Cell(prog, y) # 0
      /\ EntryLen(prog, b) = z - b + 1
  BY LineEnds
<1> HIDE DEF z
<1>6. b + d \in Nat /\ z + d \in (b + d) + 2 .. Len(q) - 1
  BY <1>0, <1>1, <1>5, SMTT(30)
<1>7. Cell(q, z + d) = 0
  BY <1>0, <1>1, <1>5
<1>8. ASSUME NEW y \in (b + d) + 2 .. (z + d) - 1
      PROVE  Cell(q, y) # 0
  <2>1. y - d \in b + 2 .. z - 1 /\ y - d \in k .. ProgramLen(prog) - 1 /\ (y - d) + d = y
    BY <1>0, <1>1, <1>5, SMTT(30)
  <2>2. QED BY <1>0, <2>1, <1>5
<1>9. EntryLen(q, b + d) = (z + d) - (b + d) + 1
  BY <1>0, <1>6, <1>7, <1>8, EndIs
<1>10. EntryLen(q, b + d) = EntryLen(prog, b)
  BY <1>0, <1>1, <1>5, <1>9
<1>11. Cell(q, b + d) = Cell(prog, b) /\ Cell(q, (b + 1) + d) = Cell(prog, b + 1)
  <2> DEFINE M == ProgramLen(prog) - 1
  <2>1. k \in Nat /\ M \in Int /\ z \in Int /\ z >= b + 2 /\ z <= M
    BY <1>0, <1>1, <1>5
  <2>2. \A x \in k .. M : Cell(q, x + d) = Cell(prog, x)
    BY <1>0
  <2> HIDE DEF M
  <2>3. b \in k .. M /\ b + 1 \in k .. M
    BY <1>0, <1>1, <2>1
  <2>4. QED BY <2>2, <2>3
<1>12. (b + 1) + d = b + d + 1
  BY <1>0, <1>1
<1>13. LineNumber(q, b + d) = LineNumber(prog, b)
  BY <1>11, <1>12 DEF LineNumber
<1>14. TextAt(q, b + d) = TextAt(prog, b)
  <2> DEFINE n == EntryLen(prog, b)
             c == b + d
  <2>1. n \in Nat /\ n >= 4 /\ EntryLen(q, c) = n /\ b + n <= Len(prog) /\ b + n <= ProgramLen(prog)
    <3>1. n \in Nat /\ n >= 4 /\ b + n \in T
      BY WalkFacts
    <3>2. b + n <= Len(prog) /\ b + n <= ProgramLen(prog)
      BY <1>1, <3>1, WalkFacts
    <3>3. QED BY <1>10, <3>1, <3>2
  <2> HIDE DEF n
  <2>2. c \in Nat /\ c + n <= Len(q)
    BY <1>0, <1>1, <1>6, <2>1
  <2>i. \A i \in 1 .. n - 3 : b + 1 + i \in k .. ProgramLen(prog) - 1
    <3>1. /\ k \in Nat /\ b \in Nat /\ n \in Nat /\ ProgramLen(prog) \in Nat
          /\ k <= b /\ b + n <= ProgramLen(prog)
      BY <1>0, <1>1, <2>1
    <3>2. ASSUME NEW i \in 1 .. n - 3 PROVE b + 1 + i >= k /\ b + 1 + i <= ProgramLen(prog) - 1
      BY <3>1, SMTT(30)
    <3>3. QED BY <3>1, <3>2
  <2>d. \A i \in 1 .. n - 3 : (b + 1 + i) + d = c + 1 + i
    BY <1>0, <1>1
  <2>3. \A i \in 1 .. n - 3 : /\ b + 1 + i \in k .. ProgramLen(prog) - 1
                              /\ (b + 1 + i) + d = c + 1 + i
    BY <2>i, <2>d
  <2> HIDE DEF c
  <2>4. \A i \in 1 .. n - 3 : Cell(q, c + 1 + i) = Cell(prog, b + 1 + i)
    BY <1>0, <2>3
  <2>5. SameBytes(prog, b, q, c, n)
    BY <1>0, <1>1, <2>1, <2>2, <2>4 DEF SameBytes, n
  <2>6. TextAt(q, c) = TextAt(prog, b)
    BY <2>5, SameText
  <2>7. QED BY <2>6 DEF c
<1>15. QED BY <1>10, <1>13, <1>14 DEF SameLine

\* Two sequences in one; what is before and behind a place.
LEMMA Joined ==
    ASSUME NEW s \in Seq(Nat), NEW t \in Seq(Nat)
    PROVE  /\ s \o t \in Seq(Nat) /\ Len(s \o t) = Len(s) + Len(t)
           /\ \A i \in 1 .. Len(s) : (s \o t)[i] = s[i]
           /\ \A i \in 1 .. Len(t) : (s \o t)[Len(s) + i] = t[i]
<1>1. Len(s) \in Nat /\ Len(t) \in Nat
  BY LenProperties
<1>2. /\ s \o t \in Seq(Nat) /\ Len(s \o t) = Len(s) + Len(t)
      /\ \A i \in 1 .. Len(s) + Len(t) : (s \o t)[i] = IF i <= Len(s) THEN s[i] ELSE t[i - Len(s)]
  BY ConcatProperties
<1> DEFINE q == s \o t
<1> HIDE DEF q
<1>3. ASSUME NEW i \in 1 .. Len(s) PROVE q[i] = s[i]
  <2>1. i \in 1 .. Len(s) + Len(t) /\ i <= Len(s)
    BY <1>1
  <2>2. q[i] = IF i <= Len(s) THEN s[i] ELSE t[i - Len(s)]
    BY <1>2, <2>1 DEF q
  <2>3. QED BY <2>1, <2>2
<1>4. ASSUME NEW i \in 1 .. Len(t) PROVE q[Len(s) + i] = t[i]
  <2>1. Len(s) + i \in 1 .. Len(s) + Len(t) /\ ~ Len(s) + i <= Len(s) /\ (Len(s) + i) - Len(s) = i
    BY <1>1
  <2>2. q[Len(s) + i] = IF Len(s) + i <= Len(s) THEN s[Len(s) + i] ELSE t[(Len(s) + i) - Len(s)]
    BY <1>2, <2>1 DEF q
  <2>3. QED BY <2>1, <2>2
<1>5. QED BY <1>2, <1>3, <1>4 DEF q

LEMMA Parts ==
    ASSUME NEW prog \in Seq(Nat), NEW a \in Nat, a <= Len(prog)
    PROVE  /\ SubSeq(prog, 1, a) \in Seq(Nat) /\ Len(SubSeq(prog, 1, a)) = a
           /\ \A i \in 1 .. a : SubSeq(prog, 1, a)[i] = prog[i]
           /\ SubSeq(prog, a + 1, Len(prog)) \in Seq(Nat)
           /\ Len(SubSeq(prog, a + 1, Len(prog))) = Len(prog) - a
           /\ \A i \in 1 .. Len(prog) - a : SubSeq(prog, a + 1, Len(prog))[i] = prog[a + i]
<1>1. Len(prog) \in Nat /\ \A i \in 1 .. Len(prog) : prog[i] \in Nat
  BY LenProperties, ElementOfSeq
<1> DEFINE s == SubSeq(prog, 1, a)
           t == SubSeq(prog, a + 1, Len(prog))
<1>2. s \in Seq(Nat) /\ Len(s) = a /\ \A i \in 1 .. a : s[i] = prog[i]
  <2>1. \A i \in 1 .. a : prog[i] \in Nat
    BY <1>1
  <2>2. QED BY <2>1, <1>1, SubSeqProperties
<1>3. /\ t \in Seq(Nat) /\ Len(t) = Len(prog) - a
      /\ \A i \in 1 .. Len(prog) - a : t[i] = prog[a + i]
  <2>1. \A i \in a + 1 .. Len(prog) : prog[i] \in Nat
    BY <1>1
  <2>2. /\ t \in Seq(Nat)
        /\ Len(t) = IF a + 1 <= Len(prog) THEN Len(prog) - (a + 1) + 1 ELSE 0
        /\ \A i \in 1 .. Len(prog) - (a + 1) + 1 : t[i] = prog[(a + 1) + i - 1]
    BY <2>1, <1>1, SubSeqProperties
  <2> HIDE DEF t
  <2>3. QED BY <2>2, <1>1
<1>4. QED BY <1>2, <1>3

\* What is cut and what is put in.
LEMMA CutIs ==
    ASSUME NEW prog \in Seq(Nat), NEW a \in Nat, NEW n \in Nat, a + n <= ProgramLen(prog)
    PROVE  LET q == CutOut(prog, a, n)
           IN  /\ q \in Seq(Nat) /\ Len(q) = Len(prog) - n
               /\ \A x \in 0 .. a - 1 : Cell(q, x) = Cell(prog, x)
               /\ \A x \in a + n .. ProgramLen(prog) - 1 : Cell(q, x - n) = Cell(prog, x)
<1> DEFINE L == ProgramLen(prog)
           s == SubSeq(prog, 1, a)
           t == SubSeq(prog, (a + n) + 1, L)
           u == SubSeq(prog, (L - n) + 1, (L - n) + 2)
           st == s \o t
           q == CutOut(prog, a, n)
<1>1. /\ Len(prog) \in Nat /\ L \in Nat /\ Len(prog) = L + 2 /\ a <= L /\ a + n \in Nat
      /\ a + n <= L
      /\ \A i \in 1 .. Len(prog) : prog[i] \in Nat
  <2>1. Len(prog) \in Nat /\ \A i \in 1 .. Len(prog) : prog[i] \in Nat
    BY LenProperties, ElementOfSeq
  <2>2. QED BY <2>1 DEF ProgramLen
<1>4. q = st \o u
  BY DEF CutOut
<1> HIDE DEF L
<1>2. s \in Seq(Nat) /\ Len(s) = a /\ \A i \in 1 .. a : s[i] = prog[i]
  BY <1>1, Parts
<1>3. /\ t \in Seq(Nat) /\ Len(t) = L - (a + n)
      /\ \A i \in 1 .. L - (a + n) : t[i] = prog[(a + n) + i]
  <2> DEFINE k == (a + n) + 1
  <2>1. k \in Int /\ L \in Int /\ \A i \in k .. L : prog[i] \in Nat
    BY <1>1
  <2>2. /\ SubSeq(prog, k, L) \in Seq(Nat)
        /\ Len(SubSeq(prog, k, L)) = IF k <= L THEN L - k + 1 ELSE 0
        /\ \A i \in 1 .. L - k + 1 : SubSeq(prog, k, L)[i] = prog[k + i - 1]
    <3> HIDE DEF k
    <3>1. QED BY <2>1, SubSeqProperties
  <2>3. k \in Nat /\ k = a + n + 1 /\ \A i \in Nat : k + i - 1 = (a + n) + i
    BY <1>1
  <2>4. t = SubSeq(prog, k, L)
    OBVIOUS
  <2> HIDE DEF k, t
  <2>5. /\ L - k + 1 = L - (a + n)
        /\ (IF k <= L THEN L - k + 1 ELSE 0) = L - (a + n)
    BY <1>1, <2>3
  <2>6. t \in Seq(Nat) /\ Len(t) = L - (a + n)
    BY <2>2, <2>4, <2>5
  <2>7. ASSUME NEW i \in 1 .. L - (a + n) PROVE t[i] = prog[(a + n) + i]
    <3>1. t[i] = prog[k + i - 1]
      BY <2>2, <2>4, <2>5
    <3>2. k + i - 1 = (a + n) + i
      BY <1>1, <2>3
    <3>3. QED BY <3>1, <3>2
  <2>8. QED BY <2>6, <2>7
<1>5. u \in Seq(Nat) /\ Len(u) = 2
  <2> DEFINE k == (L - n) + 1
             m == (L - n) + 2
             N == Len(prog)
  <2>0. /\ k \in Int /\ m \in Int /\ k <= m /\ m - k + 1 = 2 /\ k >= 1 /\ m <= N
        /\ N \in Nat /\ \A i \in 1 .. N : prog[i] \in Nat
    BY <1>1
  <2>2. u = SubSeq(prog, k, m)
    OBVIOUS
  <2> HIDE DEF k, m, u, N
  <2>1. k \in Int /\ m \in Int /\ k <= m /\ m - k + 1 = 2 /\ \A i \in k .. m : prog[i] \in Nat
    BY <2>0
  <2>3. /\ SubSeq(prog, k, m) \in Seq(Nat)
        /\ Len(SubSeq(prog, k, m)) = IF k <= m THEN m - k + 1 ELSE 0
    BY <2>1, SubSeqProperties
  <2>4. QED BY <2>1, <2>2, <2>3
<1> HIDE DEF s, t, u, q
<1>6. /\ st \in Seq(Nat) /\ Len(st) = a + (L - (a + n))
      /\ \A i \in 1 .. a : st[i] = s[i]
      /\ \A i \in 1 .. L - (a + n) : st[a + i] = t[i]
  <2>1. /\ s \o t \in Seq(Nat) /\ Len(s \o t) = Len(s) + Len(t)
        /\ \A i \in 1 .. Len(s) : (s \o t)[i] = s[i]
        /\ \A i \in 1 .. Len(t) : (s \o t)[Len(s) + i] = t[i]
    BY <1>2, <1>3, Joined
  <2>2. QED BY <1>2, <1>3, <2>1, Zenon
<1> HIDE DEF st
<1>7. /\ q \in Seq(Nat) /\ Len(q) = Len(st) + 2
      /\ \A i \in 1 .. Len(st) : q[i] = st[i]
  <2>1. /\ st \o u \in Seq(Nat) /\ Len(st \o u) = Len(st) + Len(u)
        /\ \A i \in 1 .. Len(st) : (st \o u)[i] = st[i]
    BY <1>5, <1>6, Joined
  <2>2. QED BY <1>4, <1>5, <2>1
<1>8. ASSUME NEW x \in 0 .. a - 1 PROVE q[x + 1] = prog[x + 1]
  <2> DEFINE l == Len(st)
  <2>0. l = a + (L - (a + n))
    BY <1>6
  <2> HIDE DEF l
  <2>3. x + 1 \in 1 .. a /\ x + 1 \in 1 .. l
    BY <1>1, <2>0
  <2>1. x + 1 \in 1 .. a /\ x + 1 \in 1 .. Len(st)
    BY <2>3 DEF l
  <2>2. QED BY <1>2, <1>6, <1>7, <2>1
<1>9. ASSUME NEW x \in a + n .. L - 1 PROVE q[x - n + 1] = prog[x + 1]
  <2> DEFINE i == x + 1 - (a + n)
  <2>1. /\ i \in 1 .. L - (a + n) /\ a + i = x - n + 1 /\ (a + n) + i = x + 1
        /\ a + i \in 1 .. Len(st)
    BY <1>1, <1>6
  <2> HIDE DEF i
  <2>2. q[a + i] = st[a + i] /\ st[a + i] = t[i] /\ t[i] = prog[(a + n) + i]
    BY <1>3, <1>6, <1>7, <2>1
  <2>3. QED BY <2>1, <2>2
<1>10. Len(q) = Len(prog) - n
  BY <1>1, <1>6, <1>7
<1>11. QED BY <1>7, <1>8, <1>9, <1>10 DEF Cell, q, L

LEMMA PutIs ==
    ASSUME NEW prog \in Seq(Nat), NEW a \in Nat, a <= Len(prog), NEW e \in Seq(Nat)
    PROVE  LET q == PutIn(prog, a, e)
           IN  /\ q \in Seq(Nat) /\ Len(q) = Len(prog) + Len(e)
               /\ \A x \in 0 .. a - 1 : Cell(q, x) = Cell(prog, x)
               /\ \A i \in 1 .. Len(e) : Cell(q, a + i - 1) = e[i]
               /\ \A x \in a .. Len(prog) - 1 : Cell(q, x + Len(e)) = Cell(prog, x)
<1> DEFINE s == SubSeq(prog, 1, a)
           t == SubSeq(prog, a + 1, Len(prog))
           u == s \o e
           q == PutIn(prog, a, e)
<1>1. Len(prog) \in Nat /\ Len(e) \in Nat
  BY LenProperties
<1>2. s \in Seq(Nat) /\ Len(s) = a /\ \A i \in 1 .. a : s[i] = prog[i]
  BY Parts
<1>3. /\ t \in Seq(Nat) /\ Len(t) = Len(prog) - a
      /\ \A i \in 1 .. Len(prog) - a : t[i] = prog[a + i]
  BY Parts
<1>4. q = u \o t
  BY DEF PutIn
<1> HIDE DEF s, t, q
<1>5. /\ u \in Seq(Nat) /\ Len(u) = a + Len(e)
      /\ \A i \in 1 .. a : u[i] = s[i]
      /\ \A i \in 1 .. Len(e) : u[a + i] = e[i]
  <2>1. /\ s \o e \in Seq(Nat) /\ Len(s \o e) = Len(s) + Len(e)
        /\ \A i \in 1 .. Len(s) : (s \o e)[i] = s[i]
        /\ \A i \in 1 .. Len(e) : (s \o e)[Len(s) + i] = e[i]
    BY <1>2, Joined
  <2>2. QED BY <1>2, <2>1, Zenon
<1> HIDE DEF u
<1>6. /\ q \in Seq(Nat) /\ Len(q) = (a + Len(e)) + (Len(prog) - a)
      /\ \A i \in 1 .. a + Len(e) : q[i] = u[i]
      /\ \A i \in 1 .. Len(prog) - a : q[(a + Len(e)) + i] = t[i]
  <2>1. /\ u \o t \in Seq(Nat) /\ Len(u \o t) = Len(u) + Len(t)
        /\ \A i \in 1 .. Len(u) : (u \o t)[i] = u[i]
        /\ \A i \in 1 .. Len(t) : (u \o t)[Len(u) + i] = t[i]
    BY <1>3, <1>5, Joined
  <2>2. QED BY <1>3, <1>4, <1>5, <2>1, Zenon
<1>7. ASSUME NEW x \in 0 .. a - 1 PROVE q[x + 1] = prog[x + 1]
  <2>1. x + 1 \in 1 .. a /\ x + 1 \in 1 .. a + Len(e)
    BY <1>1
  <2>2. QED BY <1>2, <1>5, <1>6, <2>1
<1>8. ASSUME NEW i \in 1 .. Len(e) PROVE q[a + i - 1 + 1] = e[i]
  <2>1. a + i - 1 + 1 = a + i /\ a + i \in 1 .. a + Len(e)
    BY <1>1
  <2>2. q[a + i] = u[a + i] /\ u[a + i] = e[i]
    BY <1>5, <1>6, <2>1
  <2>3. QED BY <2>1, <2>2
<1>9. ASSUME NEW x \in a .. Len(prog) - 1 PROVE q[x + Len(e) + 1] = prog[x + 1]
  <2> DEFINE i == x + 1 - a
  <2>1. i \in 1 .. Len(prog) - a /\ (a + Len(e)) + i = x + Len(e) + 1 /\ a + i = x + 1
    BY <1>1
  <2> HIDE DEF i
  <2>2. q[(a + Len(e)) + i] = t[i] /\ t[i] = prog[a + i]
    BY <1>3, <1>6, <2>1
  <2>3. QED BY <2>1, <2>2
<1>10. Len(q) = Len(prog) + Len(e)
  BY <1>1, <1>6
<1>11. QED BY <1>6, <1>7, <1>8, <1>9, <1>10 DEF Cell, q

\* The lines of one program at the places P are lines of another, at the places R.
Carried(prog, P, q, R) ==
    \A b \in P : b < ProgramLen(prog) => \E c \in R : c < ProgramLen(q) /\ SameLine(prog, b, q, c)

\* The lines at the places P: number and text.
LinesAt(prog, P) ==
    {<<LineNumber(prog, b), TextAt(prog, b)>> : b \in {c \in P : c < ProgramLen(prog)}}

LEMMA CarriedBoth ==
    ASSUME NEW prog, NEW P, NEW q, NEW R, Carried(prog, P, q, R), Carried(q, R, prog, P)
    PROVE  LinesAt(q, R) = LinesAt(prog, P)
<1>1. LinesAt(q, R) \subseteq LinesAt(prog, P)
  BY DEF Carried, LinesAt, SameLine
<1>2. LinesAt(prog, P) \subseteq LinesAt(q, R)
  BY DEF Carried, LinesAt, SameLine
<1>3. QED BY <1>1, <1>2

\* Without a line, the others are a program.
IsCut(prog, T, a, q, U) ==
    /\ Walk(q, U) /\ a \in U /\ ProgramLen(q) = ProgramLen(prog) - EntryLen(prog, a)
    /\ \A b \in U : b < a => LineNumber(q, b) < LineNumber(prog, a)
    /\ \A b \in U : b >= a /\ b < ProgramLen(q) => LineNumber(q, b) > LineNumber(prog, a)
    /\ LinesAt(q, U) = LinesAt(prog, T \ {a})

LEMMA CutWalk ==
    ASSUME NEW prog, NEW T, Walk(prog, T), NEW a \in T, a < ProgramLen(prog)
    PROVE  \E U : IsCut(prog, T, a, CutOut(prog, a, EntryLen(prog, a)), U)
<1> DEFINE n == EntryLen(prog, a)
           q == CutOut(prog, a, n)
           U == {b \in T : b <= a} \cup {b - n : b \in {c \in T : c > a}}
           L == ProgramLen(prog)
<1>1. /\ prog \in Seq(Nat) /\ Len(prog) \in Nat /\ L \in Nat /\ Len(prog) = L + 2
      /\ 0 \in T /\ L \in T
      /\ \A b \in T : b \in Nat /\ b <= L
  BY WalkFacts
<1>2. n \in Nat /\ n >= 4 /\ a + n \in T /\ \A b \in T : b > a => b >= a + n
  BY WalkFacts
<1>3. /\ \A b \in T : b < L =>
             /\ EntryLen(prog, b) \in Nat /\ EntryLen(prog, b) >= 4 /\ b + EntryLen(prog, b) \in T
             /\ \A c \in T : c > b => c >= b + EntryLen(prog, b)
      /\ \A b, c \in T : b < c /\ c < L => LineNumber(prog, b) < LineNumber(prog, c)
  BY WalkFacts
<1>4. a \in Nat /\ a + n <= L
  BY <1>1, <1>2
<1>L. ProgramLen(prog) = L
  OBVIOUS
<1> HIDE DEF n, L
<1>5. /\ q \in Seq(Nat) /\ Len(q) = Len(prog) - n
      /\ \A x \in 0 .. a - 1 : Cell(q, x) = Cell(prog, x)
      /\ \A x \in a + n .. L - 1 : Cell(q, x - n) = Cell(prog, x)
  <2>1. a + n <= ProgramLen(prog)
    BY <1>4, <1>L
  <2>2. QED BY <1>1, <1>2, <1>4, <1>L, <2>1, CutIs
<1> HIDE DEF q
<1>6. ProgramLen(q) = L - n /\ Len(q) \in Nat /\ Len(q) >= 2
  BY <1>1, <1>2, <1>4, <1>5 DEF ProgramLen
<1>7. ASSUME NEW b \in T, b < a
      PROVE  EntryLen(q, b) = EntryLen(prog, b) /\ b + EntryLen(prog, b) <= a
             /\ LineNumber(q, b) = LineNumber(prog, b) /\ SameLine(prog, b, q, b)
  <2>1. a <= Len(q)
    BY <1>1, <1>2, <1>4, <1>5
  <2>2. QED BY <1>5, <1>7, <2>1, InFront
<1>8. ASSUME NEW b \in T, b > a, b < L
      PROVE  EntryLen(q, b - n) = EntryLen(prog, b) /\ LineNumber(q, b - n) = LineNumber(prog, b)
             /\ SameLine(prog, b, q, b - n)
  <2>1. /\ a + n \in Nat /\ -n \in Int /\ (a + n) + (-n) >= 0 /\ Len(q) = Len(prog) + (-n) /\ a + n <= b
        /\ b - n = b + (-n)
    BY <1>1, <1>2, <1>4, <1>5, <1>8
  <2>2. \A x \in a + n .. L - 1 : Cell(q, x + (-n)) = Cell(prog, x)
    <3>1. \A x \in a + n .. L - 1 : x + (-n) = x - n
      BY <1>2, <1>4
    <3>2. QED BY <1>5, <3>1
  <2>3. Shifted(prog, q, a + n, -n)
    BY <1>5, <1>L, <2>1, <2>2 DEF Shifted
  <2>4. EntryLen(q, b + (-n)) = EntryLen(prog, b) /\ LineNumber(q, b + (-n)) = LineNumber(prog, b)
        /\ SameLine(prog, b, q, b + (-n))
    BY <1>8, <2>1, <2>3, Moved DEF L
  <2>5. QED BY <2>1, <2>4
<1>10. U \subseteq 0 .. L - n /\ 0 \in U /\ L - n \in U /\ a \in U
  <2>1. 0 \in U /\ a \in U
    BY <1>1, <1>4
  <2>2. L - n \in U
    <3>1. L \in T /\ L > a
      BY <1>1, <1>2, <1>4
    <3>2. QED BY <3>1
  <2>3. ASSUME NEW b \in T, b <= a PROVE b \in 0 .. L - n
    BY <1>1, <1>2, <1>4, <2>3
  <2>4. ASSUME NEW b \in T, b > a PROVE b - n \in 0 .. L - n
    <3>1. b >= a + n /\ b \in Nat /\ b <= L
      BY <1>1, <1>2, <2>4
    <3>2. QED BY <1>1, <1>2, <1>4, <3>1
  <2>5. U \subseteq 0 .. L - n
    BY <2>3, <2>4
  <2>6. QED BY <2>1, <2>2, <2>5
<1>11. \A b \in U : (b \in T /\ b < a) \/ \E c \in T : c > a /\ b = c - n
  <2>1. a + n > a /\ a = (a + n) - n
    BY <1>2, <1>4
  <2>2. QED BY <1>1, <1>2, <1>4, <2>1
<1>12. \A b \in T : b > a => b - n \in U
  OBVIOUS
<1>13. \A b \in T : b <= a => b \in U
  OBVIOUS
<1> HIDE DEF U
<1>14. ASSUME NEW b \in U, b < L - n
       PROVE  /\ EntryLen(q, b) >= 4 /\ b + EntryLen(q, b) \in U
              /\ \A c \in U : c > b => c >= b + EntryLen(q, b)
  <2>1. CASE b \in T /\ b < a
    <3>1. EntryLen(q, b) = EntryLen(prog, b) /\ b + EntryLen(prog, b) <= a
      BY <1>7, <2>1
    <3>2. b < L /\ b \in Nat
      BY <1>1, <1>4, <1>2, <2>1
    <3>3. /\ EntryLen(prog, b) \in Nat /\ EntryLen(prog, b) >= 4 /\ b + EntryLen(prog, b) \in T
          /\ \A c \in T : c > b => c >= b + EntryLen(prog, b)
      BY <1>3, <2>1, <3>2
    <3>4. b + EntryLen(q, b) \in U
      BY <1>13, <3>1, <3>3
    <3>5. ASSUME NEW c \in U, c > b PROVE c >= b + EntryLen(q, b)
      <4>1. CASE c \in T /\ c < a
        BY <3>1, <3>3, <3>5, <4>1
      <4>2. CASE \E d \in T : d > a /\ c = d - n
        <5>1. PICK d \in T : d > a /\ c = d - n
          BY <4>2
        <5>2. d >= a + n /\ d \in Nat
          BY <1>1, <1>2, <5>1
        <5>3. QED BY <1>2, <1>4, <3>1, <3>2, <3>3, <5>1, <5>2
      <4>3. QED BY <1>11, <4>1, <4>2
    <3>6. QED BY <3>1, <3>3, <3>4, <3>5
  <2>2. CASE \E c \in T : c > a /\ b = c - n
    <3>1. PICK c \in T : c > a /\ b = c - n
      BY <2>2
    <3>2. c \in Nat /\ c >= a + n /\ c < L
      BY <1>1, <1>2, <1>14, <3>1
    <3>3. EntryLen(q, b) = EntryLen(prog, c)
      BY <1>8, <3>1, <3>2
    <3>4. /\ EntryLen(prog, c) \in Nat /\ EntryLen(prog, c) >= 4 /\ c + EntryLen(prog, c) \in T
          /\ \A d \in T : d > c => d >= c + EntryLen(prog, c)
      BY <1>3, <3>2
    <3>5. b + EntryLen(q, b) \in U
      <4>1. c + EntryLen(prog, c) > a /\ (c + EntryLen(prog, c)) - n = b + EntryLen(q, b)
        BY <1>2, <1>4, <3>1, <3>2, <3>3, <3>4
      <4>2. (c + EntryLen(prog, c)) - n \in U
        BY <1>12, <3>4, <4>1
      <4>3. QED BY <4>1, <4>2
    <3>6. ASSUME NEW d \in U, d > b PROVE d >= b + EntryLen(q, b)
      <4>1. CASE d \in T /\ d < a
        BY <1>1, <1>2, <1>4, <3>1, <3>2, <3>6, <4>1
      <4>2. CASE \E e \in T : e > a /\ d = e - n
        <5>1. PICK e \in T : e > a /\ d = e - n
          BY <4>2
        <5>2. e \in Nat /\ e > c
          BY <1>1, <1>2, <3>1, <3>2, <3>6, <5>1
        <5>3. e >= c + EntryLen(prog, c)
          BY <3>4, <5>2
        <5>4. QED BY <1>2, <3>1, <3>2, <3>3, <3>4, <5>1, <5>2, <5>3
      <4>3. QED BY <1>11, <4>1, <4>2
    <3>7. QED BY <3>3, <3>4, <3>5, <3>6
  <2>3. QED BY <1>11, <2>1, <2>2
<1>15. \A b \in U : b < a => LineNumber(q, b) < LineNumber(prog, a) /\ b \in T /\ LineNumber(q, b) = LineNumber(prog, b)
  <2>1. ASSUME NEW b \in U, b < a, NEW c \in T, c > a, b = c - n PROVE FALSE
    BY <1>1, <1>2, <1>4, <2>1
  <2>2. a < L
    BY DEF L
  <2>3. QED BY <1>3, <1>7, <1>11, <2>1, <2>2
<1>16. ASSUME NEW b \in U, b >= a, b < L - n
       PROVE  \E c \in T : c > a /\ c < L /\ b = c - n /\ LineNumber(q, b) = LineNumber(prog, c)
  <2>1. ~ (b \in T /\ b < a)
    <3>1. b \in Int /\ a \in Int
      BY <1>4, <1>10
    <3>2. ~ b < a
      BY <3>1, <1>16
    <3>3. QED BY <3>2
  <2>2. PICK c \in T : c > a /\ b = c - n
    BY <1>11, <2>1
  <2>3. c < L
    BY <1>1, <1>2, <1>16, <2>2
  <2>4. QED BY <1>8, <2>2, <2>3
<1>17. ASSUME NEW b \in U, NEW c \in U, b < c, c < L - n
       PROVE  LineNumber(q, b) < LineNumber(q, c)
  <2>0. a < L /\ \A e \in U : e \in Nat
    BY <1>1, <1>2, <1>10 DEF L
  <2>1. CASE c < a
    <3>1. b < a
      BY <1>4, <1>17, <2>0, <2>1
    <3>2. c < L
      BY <1>1, <1>4, <2>0, <2>1
    <3>3. QED BY <1>3, <1>15, <1>17, <2>1, <3>1, <3>2
  <2>2. CASE b < a /\ c >= a
    <3>1. PICK d \in T : d > a /\ d < L /\ LineNumber(q, c) = LineNumber(prog, d)
      BY <1>16, <1>17, <2>2
    <3>2. b \in T /\ LineNumber(q, b) = LineNumber(prog, b)
      BY <1>15, <2>2
    <3>3. b < d
      BY <1>1, <1>4, <2>2, <3>1, <3>2
    <3>4. QED BY <1>3, <3>1, <3>2, <3>3
  <2>3. CASE b >= a
    <3>1. b < L - n /\ c >= a
      BY <1>1, <1>2, <1>4, <1>17, <2>0, <2>3
    <3>2. PICK d \in T : d > a /\ d < L /\ b = d - n /\ LineNumber(q, b) = LineNumber(prog, d)
      BY <1>16, <2>3, <3>1
    <3>3. PICK e \in T : e > a /\ e < L /\ c = e - n /\ LineNumber(q, c) = LineNumber(prog, e)
      BY <1>16, <1>17, <3>1
    <3>4. d < e
      BY <1>1, <1>2, <1>17, <3>2, <3>3
    <3>5. QED BY <1>3, <3>2, <3>3, <3>4
  <2>4. QED BY <1>4, <2>0, <2>1, <2>2, <2>3
<1>18. Walk(q, U)
  BY <1>5, <1>6, <1>10, <1>14, <1>17 DEF Walk
<1>19. \A b \in U : b >= a /\ b < ProgramLen(q) => LineNumber(q, b) > LineNumber(prog, a)
  <2>1. ASSUME NEW b \in U, b >= a, b < L - n
        PROVE  LineNumber(q, b) > LineNumber(prog, a)
    <3>1. PICK c \in T : c > a /\ c < L /\ LineNumber(q, b) = LineNumber(prog, c)
      BY <1>16, <2>1
    <3>2. LineNumber(prog, a) < LineNumber(prog, c)
      BY <1>3, <3>1
    <3>3. QED BY <3>1, <3>2
  <2>2. QED BY <1>6, <2>1
<1>20. Carried(prog, T \ {a}, q, U)
  <2>1. SUFFICES ASSUME NEW b \in T, b # a, b < L
                 PROVE  \E c \in U : c < L - n /\ SameLine(prog, b, q, c)
    BY <1>6 DEF Carried, L
  <2>2. CASE b < a
    <3>1. b \in U /\ b < L - n
      BY <1>1, <1>2, <1>4, <1>13, <2>2
    <3>2. QED BY <1>7, <2>2, <3>1
  <2>3. CASE b > a
    <3>1. b - n \in U /\ b - n < L - n
      BY <1>1, <1>2, <1>12, <2>1, <2>3
    <3>2. QED BY <1>8, <2>1, <2>3, <3>1
  <2>4. QED BY <1>1, <1>4, <2>1, <2>2, <2>3
<1>21. Carried(q, U, prog, T \ {a})
  <2>1. SUFFICES ASSUME NEW c \in U, c < L - n
                 PROVE  \E b \in T \ {a} : b < L /\ SameLine(prog, b, q, c)
    BY <1>6 DEF Carried, SameLine, L
  <2>2. CASE c \in T /\ c < a
    <3>1. c # a /\ c < L
      BY <1>1, <1>4, <2>2
    <3>2. QED BY <1>7, <2>2, <3>1
  <2>3. CASE \E d \in T : d > a /\ c = d - n
    <3>1. PICK d \in T : d > a /\ c = d - n
      BY <2>3
    <3>2. d # a /\ d < L
      BY <1>1, <1>2, <1>4, <2>1, <3>1
    <3>3. QED BY <1>8, <3>1, <3>2
  <2>4. QED BY <1>11, <2>2, <2>3
<1>22. LinesAt(q, U) = LinesAt(prog, T \ {a})
  BY <1>20, <1>21, CarriedBoth
<1>23. IsCut(prog, T, a, q, U)
  BY <1>6, <1>10, <1>15, <1>18, <1>19, <1>22 DEF IsCut, n, L
<1>24. QED BY <1>23 DEF q, n

\* The bytes of a line: two of its number, its text, a zero.
LEMMA ThreeParts ==
    ASSUME NEW h \in Seq(Nat), NEW text \in Seq(Nat), NEW o \in Seq(Nat), Len(h) = 2, Len(o) = 1
    PROVE  LET e == h \o text \o o
           IN  /\ e \in Seq(Nat) /\ Len(e) = Len(text) + 3
               /\ e[1] = h[1] /\ e[2] = h[2]
               /\ \A i \in 1 .. Len(text) : e[2 + i] = text[i]
               /\ e[Len(text) + 3] = o[1]
<1> DEFINE u == h \o text
           e == u \o o
<1>1. Len(text) \in Nat
  BY LenProperties
<1>2. /\ u \in Seq(Nat) /\ Len(u) = Len(h) + Len(text)
      /\ \A i \in 1 .. Len(h) : u[i] = h[i]
      /\ \A i \in 1 .. Len(text) : u[Len(h) + i] = text[i]
  BY Joined
<1> HIDE DEF u
<1>3. /\ e \in Seq(Nat) /\ Len(e) = Len(u) + Len(o)
      /\ \A i \in 1 .. Len(u) : e[i] = u[i]
      /\ \A i \in 1 .. Len(o) : e[Len(u) + i] = o[i]
  BY <1>2, Joined
<1> HIDE DEF e
<1>4. Len(u) = Len(text) + 2 /\ Len(e) = Len(text) + 3
  BY <1>1, <1>2, <1>3
<1>5. e[1] = h[1] /\ e[2] = h[2]
  <2>1. 1 \in 1 .. 2 /\ 2 \in 1 .. 2 /\ 1 \in 1 .. Len(u) /\ 2 \in 1 .. Len(u)
    BY <1>1, <1>4
  <2>2. QED BY <2>1, <1>2, <1>3
<1>6. ASSUME NEW i \in 1 .. Len(text) PROVE e[2 + i] = text[i]
  <2>1. 2 + i \in 1 .. Len(u)
    BY <1>1, <1>4
  <2>2. e[2 + i] = u[2 + i] /\ u[2 + i] = text[i]
    BY <2>1, <1>2, <1>3
  <2>3. QED BY <2>2
<1>7. e[Len(text) + 3] = o[1]
  <2>1. Len(u) + 1 = Len(text) + 3 /\ 1 \in 1 .. Len(o)
    BY <1>1, <1>4
  <2>2. e[Len(u) + 1] = o[1]
    BY <1>3, <2>1
  <2>3. QED BY <2>1, <2>2
<1>8. QED BY <1>3, <1>4, <1>5, <1>6, <1>7 DEF e, u

LEMMA EntryIs ==
    ASSUME NEW ln \in Nat, ln < 65536, NEW text \in Seq(Nat), Len(text) >= 1,
           \A i \in 1 .. Len(text) : text[i] # 0
    PROVE  LET e == Entry(ln, text)
           IN  /\ e \in Seq(Nat) /\ Len(text) \in Nat /\ Len(text) >= 1
               /\ Len(e) = Len(text) + 3
               /\ e[1] + 256 * e[2] = ln
               /\ \A i \in 3 .. Len(text) + 2 : e[i] # 0
               /\ e[Len(text) + 3] = 0
               /\ \A i \in 1 .. Len(text) : e[2 + i] = text[i]
<1> DEFINE h == <<ln % 256, ln \div 256>>
           o == <<0>>
           e == Entry(ln, text)
<1>1. Len(text) \in Nat
  BY LenProperties
<1>2. h \in Seq(Nat) /\ Len(h) = 2 /\ h[1] = ln % 256 /\ h[2] = ln \div 256
  OBVIOUS
<1>3. o \in Seq(Nat) /\ Len(o) = 1 /\ o[1] = 0
  OBVIOUS
<1>4. (ln % 256) + 256 * (ln \div 256) = ln
  OBVIOUS
<1>5. e = h \o text \o o
  BY DEF Entry
<1> HIDE DEF h, o, e
<1>6. h[1] + 256 * h[2] = ln
  BY <1>2, <1>4
<1>7. /\ e \in Seq(Nat) /\ Len(e) = Len(text) + 3
      /\ e[1] = h[1] /\ e[2] = h[2]
      /\ \A i \in 1 .. Len(text) : e[2 + i] = text[i]
      /\ e[Len(text) + 3] = o[1]
  BY <1>1, <1>2, <1>3, <1>5, ThreeParts, SMTT(30)
<1>8. ASSUME NEW i \in 3 .. Len(text) + 2 PROVE e[i] # 0
  <2>1. i - 2 \in 1 .. Len(text) /\ 2 + (i - 2) = i
    BY <1>1
  <2>2. e[2 + (i - 2)] = text[i - 2]
    BY <1>7, <2>1
  <2>3. QED BY <1>1, <2>1, <2>2
<1>9. e[1] + 256 * e[2] = ln
  BY <1>6, <1>7
<1>10. QED BY <1>1, <1>3, <1>7, <1>8, <1>9 DEF e

\* A line put in at its place makes a program.
LineBytes(e, ln) ==
    /\ e \in Seq(Nat) /\ Len(e) >= 4
    /\ e[1] + 256 * e[2] = ln
    /\ \A i \in 3 .. Len(e) - 1 : e[i] # 0
    /\ e[Len(e)] = 0
PlaceFor(ln, prog, T, a) ==
    /\ \A b \in T : b < a => LineNumber(prog, b) < ln
    /\ \A b \in T : b >= a /\ b < ProgramLen(prog) => LineNumber(prog, b) > ln

IsPut(prog, T, a, ln, e, q, U) ==
    /\ Walk(q, U) /\ ProgramLen(q) = ProgramLen(prog) + Len(e)
    /\ a \in U /\ a < ProgramLen(q)
    /\ EntryLen(q, a) = Len(e) /\ LineNumber(q, a) = ln
    /\ \A i \in 1 .. Len(e) : Cell(q, a + i - 1) = e[i]
    /\ LinesAt(q, U \ {a}) = LinesAt(prog, T)

LEMMA PutWalk ==
    ASSUME NEW prog, NEW T, Walk(prog, T), NEW a \in T, NEW ln \in Nat,
           NEW e, LineBytes(e, ln), PlaceFor(ln, prog, T, a)
    PROVE  \E U : IsPut(prog, T, a, ln, e, PutIn(prog, a, e), U)
<1> DEFINE q == PutIn(prog, a, e)
           n == Len(e)
           U == {b \in T : b <= a} \cup {b + n : b \in {c \in T : c >= a}}
           L == ProgramLen(prog)
<1>1. /\ prog \in Seq(Nat) /\ Len(prog) \in Nat /\ L \in Nat /\ Len(prog) = L + 2
      /\ 0 \in T /\ L \in T
      /\ \A b \in T : b \in Nat /\ b <= L
  BY WalkFacts
<1>2. /\ e \in Seq(Nat) /\ n \in Nat /\ n >= 4
      /\ e[1] + 256 * e[2] = ln
      /\ \A i \in 3 .. n - 1 : e[i] # 0
      /\ e[n] = 0
  <2>1. e \in Seq(Nat)
    BY DEF LineBytes
  <2>2. n \in Nat
    BY <2>1, LenProperties
  <2>3. QED BY <2>1, <2>2 DEF LineBytes
<1>3. /\ \A b \in T : b < L =>
             /\ EntryLen(prog, b) \in Nat /\ EntryLen(prog, b) >= 4 /\ b + EntryLen(prog, b) \in T
             /\ \A c \in T : c > b => c >= b + EntryLen(prog, b)
      /\ \A b, c \in T : b < c /\ c < L => LineNumber(prog, b) < LineNumber(prog, c)
  BY WalkFacts
<1>4. a \in Nat /\ a <= L
  BY <1>1
<1> HIDE DEF L
<1>5. /\ q \in Seq(Nat) /\ Len(q) = Len(prog) + n
      /\ \A x \in 0 .. a - 1 : Cell(q, x) = Cell(prog, x)
      /\ \A i \in 1 .. n : Cell(q, a + i - 1) = e[i]
      /\ \A x \in a .. Len(prog) - 1 : Cell(q, x + n) = Cell(prog, x)
  <2>1. a <= Len(prog)
    BY <1>1, <1>4
  <2> HIDE DEF q, n
  <2>2. LET r == PutIn(prog, a, e)
        IN  /\ r \in Seq(Nat) /\ Len(r) = Len(prog) + Len(e)
            /\ \A x \in 0 .. a - 1 : Cell(r, x) = Cell(prog, x)
            /\ \A i \in 1 .. Len(e) : Cell(r, a + i - 1) = e[i]
            /\ \A x \in a .. Len(prog) - 1 : Cell(r, x + Len(e)) = Cell(prog, x)
    <3>1. prog \in Seq(Nat) /\ e \in Seq(Nat) /\ a \in Nat
      BY <1>1, <1>2, <1>4
    <3>2. QED BY <2>1, <3>1, PutIs, Zenon
  <2>3. QED BY <2>2, Zenon DEF q, n
<1> HIDE DEF q, n
<1>6. ProgramLen(q) = L + n /\ Len(q) \in Nat /\ Len(q) >= 2
  BY <1>1, <1>2, <1>4, <1>5 DEF ProgramLen
<1>7. ASSUME NEW b \in T, b < a
      PROVE  EntryLen(q, b) = EntryLen(prog, b) /\ b + EntryLen(prog, b) <= a
             /\ LineNumber(q, b) = LineNumber(prog, b) /\ SameLine(prog, b, q, b)
  <2>1. a <= Len(q)
    BY <1>1, <1>2, <1>4, <1>5
  <2>2. QED BY <1>5, <1>7, <2>1, InFront
<1>8. ASSUME NEW b \in T, b >= a, b < L
      PROVE  EntryLen(q, b + n) = EntryLen(prog, b) /\ LineNumber(q, b + n) = LineNumber(prog, b)
             /\ SameLine(prog, b, q, b + n)
  <2>1. n \in Int /\ a + n >= 0
    BY <1>2, <1>4
  <2>0. ProgramLen(prog) = L
    BY DEF L
  <2>s. \A x \in a .. L - 1 : x \in a .. Len(prog) - 1
    BY <1>1, <1>4
  <2>2. Shifted(prog, q, a, n)
    BY <1>4, <1>5, <2>0, <2>1, <2>s DEF Shifted
  <2>3. a <= b /\ b < ProgramLen(prog)
    BY <1>1, <1>4, <1>8, <2>0
  <2>4. QED BY <2>2, <2>3, Moved
<1>10. EntryLen(q, a) = n /\ LineNumber(q, a) = ln
  <2> DEFINE z == a + n - 1
  <2>1. z \in a + 2 .. Len(q) - 1 /\ a \in Nat /\ z = a + n - 1
    BY <1>1, <1>2, <1>4, <1>5
  <2>2. n \in 1 .. n /\ 1 \in 1 .. n /\ 2 \in 1 .. n /\ a + 1 - 1 = a /\ a + 2 - 1 = a + 1
    BY <1>2, <1>4
  <2>3. Cell(q, z) = 0 /\ Cell(q, a) = e[1] /\ Cell(q, a + 1) = e[2]
    BY <1>2, <1>5, <2>2
  <2>4. ASSUME NEW y \in a + 2 .. z - 1 PROVE Cell(q, y) # 0
    <3> DEFINE i == y - a + 1
    <3>1. i \in 3 .. n - 1 /\ i \in 1 .. n /\ a + i - 1 = y
      BY <1>2, <1>4
    <3> HIDE DEF i
    <3>2. Cell(q, a + i - 1) = e[i] /\ e[i] # 0
      BY <1>2, <1>5, <3>1
    <3>3. QED BY <3>1, <3>2
  <2> HIDE DEF z
  <2>5. EntryLen(q, a) = z - a + 1
    <3>1. q \in Seq(Nat)
      BY <1>5
    <3>2. QED BY <3>1, <2>1, <2>3, <2>4, EndIs
  <2>6. EntryLen(q, a) = n
    BY <1>2, <1>4, <2>1, <2>5
  <2>7. QED BY <1>2, <2>3, <2>6 DEF LineNumber
<1>11. U \subseteq 0 .. L + n /\ 0 \in U /\ L + n \in U /\ a \in U /\ a + n \in U
  <2>1. 0 \in U /\ a \in U
    BY <1>1, <1>4
  <2>2. L + n \in U /\ a + n \in U
    <3>1. L \in T /\ L >= a /\ a >= a
      BY <1>1, <1>4
    <3>2. QED BY <3>1
  <2>3. ASSUME NEW b \in T, b <= a PROVE b \in 0 .. L + n
    BY <1>1, <1>2, <1>4, <2>3
  <2>4. ASSUME NEW b \in T, b >= a PROVE b + n \in 0 .. L + n
    BY <1>1, <1>2, <1>4, <2>4
  <2>5. U \subseteq 0 .. L + n
    BY <2>3, <2>4
  <2>6. QED BY <2>1, <2>2, <2>5
<1>12. \A b \in U : (b \in T /\ b < a) \/ b = a \/ \E c \in T : c >= a /\ b = c + n
  BY <1>1, <1>2, <1>4
<1>13. \A b \in T : b >= a => b + n \in U
  OBVIOUS
<1>14. \A b \in T : b <= a => b \in U
  OBVIOUS
<1> HIDE DEF U
<1>15. \A b \in U : b \in Nat
  BY <1>11
<1>16. ASSUME NEW b \in U, b < L + n
       PROVE  /\ EntryLen(q, b) >= 4 /\ b + EntryLen(q, b) \in U
              /\ \A c \in U : c > b => c >= b + EntryLen(q, b)
  <2>1. CASE b \in T /\ b < a
    <3>1. EntryLen(q, b) = EntryLen(prog, b) /\ b + EntryLen(prog, b) <= a
      BY <1>7, <2>1
    <3>2. b < L /\ b \in Nat
      BY <1>1, <1>4, <1>2, <2>1
    <3>3. /\ EntryLen(prog, b) \in Nat /\ EntryLen(prog, b) >= 4 /\ b + EntryLen(prog, b) \in T
          /\ \A c \in T : c > b => c >= b + EntryLen(prog, b)
      BY <1>3, <2>1, <3>2
    <3>4. b + EntryLen(q, b) \in U
      BY <1>14, <3>1, <3>3
    <3>5. ASSUME NEW c \in U, c > b PROVE c >= b + EntryLen(q, b)
      <4>1. CASE c \in T /\ c < a
        BY <3>1, <3>3, <3>5, <4>1
      <4>2. CASE c = a
        BY <3>1, <4>2
      <4>3. CASE \E d \in T : d >= a /\ c = d + n
        <5>1. PICK d \in T : d >= a /\ c = d + n
          BY <4>3
        <5>2. d \in Nat
          BY <1>1
        <5>3. QED BY <1>2, <1>4, <3>1, <3>2, <3>3, <5>1, <5>2
      <4>4. QED BY <1>12, <4>1, <4>2, <4>3
    <3>6. QED BY <3>1, <3>3, <3>4, <3>5
  <2>2. CASE b = a
    <3>1. ASSUME NEW c \in U, c > a PROVE c >= a + n
      <4>1. c \in Int /\ a \in Int /\ ~ c < a /\ c # a
        BY <1>4, <1>15, <3>1
      <4>2. PICK d \in T : d >= a /\ c = d + n
        BY <1>12, <4>1
      <4>3. QED BY <1>1, <1>2, <1>4, <4>2
    <3>2. QED BY <1>2, <1>10, <1>11, <2>2, <3>1
  <2>3. CASE \E c \in T : c >= a /\ b = c + n
    <3>1. PICK c \in T : c >= a /\ b = c + n
      BY <2>3
    <3>2. c \in Nat /\ c < L
      BY <1>1, <1>2, <1>16, <3>1
    <3>3. EntryLen(q, b) = EntryLen(prog, c)
      BY <1>8, <3>1, <3>2
    <3>4. /\ EntryLen(prog, c) \in Nat /\ EntryLen(prog, c) >= 4 /\ c + EntryLen(prog, c) \in T
          /\ \A d \in T : d > c => d >= c + EntryLen(prog, c)
      BY <1>3, <3>2
    <3>5. b + EntryLen(q, b) \in U
      <4>1. c + EntryLen(prog, c) >= a /\ (c + EntryLen(prog, c)) + n = b + EntryLen(q, b)
        BY <1>2, <1>4, <3>1, <3>2, <3>3, <3>4
      <4>2. (c + EntryLen(prog, c)) + n \in U
        BY <1>13, <3>4, <4>1
      <4>3. QED BY <4>1, <4>2
    <3>6. ASSUME NEW d \in U, d > b PROVE d >= b + EntryLen(q, b)
      <4>1. d \in Int /\ b > a /\ ~ d < a /\ d # a
        BY <1>2, <1>4, <1>15, <3>1, <3>2, <3>6
      <4>2. PICK f \in T : f >= a /\ d = f + n
        BY <1>12, <4>1
      <4>3. f \in Nat /\ f > c
        BY <1>1, <1>2, <3>1, <3>2, <3>6, <4>2
      <4>4. f >= c + EntryLen(prog, c)
        BY <3>4, <4>3
      <4>5. QED BY <1>2, <3>1, <3>2, <3>3, <3>4, <4>2, <4>3, <4>4
    <3>7. QED BY <3>3, <3>4, <3>5, <3>6
  <2>4. QED BY <1>12, <2>1, <2>2, <2>3
<1>17. \A b \in U : b < a => b \in T /\ LineNumber(q, b) < ln /\ LineNumber(q, b) = LineNumber(prog, b)
  <2>1. ASSUME NEW b \in U, b < a, NEW c \in T, c >= a, b = c + n PROVE FALSE
    BY <1>1, <1>2, <1>4, <2>1
  <2>2. ASSUME NEW b \in U, b < a PROVE b \in T
    <3>1. b # a
      BY <1>4, <1>15, <2>2
    <3>2. QED BY <1>12, <2>1, <2>2, <3>1
  <2>3. ASSUME NEW b \in U, b < a PROVE LineNumber(q, b) < ln /\ LineNumber(q, b) = LineNumber(prog, b)
    <3>1. b \in T
      BY <2>2, <2>3
    <3>2. LineNumber(prog, b) < ln
      BY <2>3, <3>1 DEF PlaceFor
    <3>3. QED BY <1>7, <2>3, <3>1, <3>2
  <2>4. QED BY <2>2, <2>3
<1>18. ASSUME NEW b \in U, b > a, b < L + n
       PROVE  \E c \in T : c >= a /\ c < L /\ b = c + n /\ LineNumber(q, b) = LineNumber(prog, c)
  <2>1. b \in Int /\ a \in Int /\ ~ b < a /\ b # a
    BY <1>4, <1>15, <1>18
  <2>2. PICK c \in T : c >= a /\ b = c + n
    BY <1>12, <2>1
  <2>3. c < L
    BY <1>1, <1>2, <1>18, <2>2
  <2>4. QED BY <1>8, <2>2, <2>3
<1>19. ASSUME NEW b \in U, NEW c \in U, b < c, c < L + n
       PROVE  LineNumber(q, b) < LineNumber(q, c)
  <2>0. b \in Nat /\ c \in Nat /\ L + n \in Nat
    BY <1>1, <1>2, <1>15
  <2>1. CASE c < a
    <3>1. b < a
      BY <1>4, <1>19, <2>0, <2>1
    <3>2. c < L
      BY <1>1, <1>4, <2>0, <2>1
    <3>3. b \in T /\ c \in T /\ LineNumber(q, b) = LineNumber(prog, b) /\ LineNumber(q, c) = LineNumber(prog, c)
      BY <1>17, <2>1, <3>1
    <3>4. QED BY <1>3, <1>19, <3>2, <3>3
  <2>2. CASE c = a
    BY <1>10, <1>17, <1>19, <2>2
  <2>3. CASE c > a
    <3>1. PICK d \in T : d >= a /\ d < L /\ c = d + n /\ LineNumber(q, c) = LineNumber(prog, d)
      BY <1>18, <1>19, <2>3
    <3>2. CASE b < a
      <4>1. b \in T /\ LineNumber(q, b) = LineNumber(prog, b)
        BY <1>17, <3>2
      <4>2. b < d
        BY <1>1, <1>4, <2>0, <3>1, <3>2
      <4>3. QED BY <1>3, <3>1, <4>1, <4>2
    <3>3. CASE b = a
      <4>1. LineNumber(prog, d) > ln
        BY <3>1 DEF L, PlaceFor
      <4>2. LineNumber(q, b) = ln
        BY <1>10, <3>3
      <4>3. d \in T /\ d < L /\ LineNumber(prog, d) \in Nat
        BY <3>1, WalkFacts DEF L
      <4>4. QED BY <3>1, <4>1, <4>2, <4>3
    <3>4. CASE b > a
      <4>1. b < L + n
        BY <1>19, <2>0
      <4>2. PICK f \in T : f >= a /\ f < L /\ b = f + n /\ LineNumber(q, b) = LineNumber(prog, f)
        BY <1>18, <3>4, <4>1
      <4>3. f < d
        BY <1>1, <1>2, <1>19, <3>1, <4>2
      <4>4. QED BY <1>3, <3>1, <4>2, <4>3
    <3>5. QED BY <1>4, <2>0, <3>2, <3>3, <3>4
  <2>4. QED BY <1>4, <2>0, <2>1, <2>2, <2>3
<1>20. Walk(q, U)
  BY <1>5, <1>6, <1>11, <1>16, <1>19 DEF Walk
<1>21. Carried(prog, T, q, U \ {a})
  <2>1. SUFFICES ASSUME NEW b \in T, b < L
                 PROVE  \E c \in U \ {a} : c < L + n /\ SameLine(prog, b, q, c)
    BY <1>6 DEF Carried, L
  <2>2. CASE b < a
    <3>1. b \in U /\ b # a /\ b < L + n
      BY <1>1, <1>2, <1>4, <1>14, <2>2
    <3>2. QED BY <1>7, <2>2, <3>1
  <2>3. CASE b >= a
    <3>1. b + n \in U /\ b + n # a /\ b + n < L + n
      BY <1>1, <1>2, <1>4, <1>13, <2>1, <2>3
    <3>2. QED BY <1>8, <2>1, <2>3, <3>1
  <2>4. QED BY <1>1, <1>4, <2>2, <2>3
<1>22. Carried(q, U \ {a}, prog, T)
  <2>1. SUFFICES ASSUME NEW c \in U, c # a, c < L + n
                 PROVE  \E b \in T : b < L /\ SameLine(prog, b, q, c)
    BY <1>6 DEF Carried, SameLine, L
  <2>2. CASE c \in T /\ c < a
    <3>1. c < L
      BY <1>1, <1>4, <2>2
    <3>2. QED BY <1>7, <2>2, <3>1
  <2>3. CASE \E d \in T : d >= a /\ c = d + n
    <3>1. PICK d \in T : d >= a /\ c = d + n
      BY <2>3
    <3>2. d < L
      BY <1>1, <1>2, <1>4, <2>1, <3>1
    <3>3. QED BY <1>8, <3>1, <3>2
  <2>4. QED BY <1>12, <2>1, <2>2, <2>3
<1>23. a \in U /\ a < ProgramLen(q)
  BY <1>1, <1>2, <1>4, <1>6, <1>11
<1>24. LinesAt(q, U \ {a}) = LinesAt(prog, T)
  BY <1>21, <1>22, CarriedBoth
<1>25. IsPut(prog, T, a, ln, e, q, U)
  BY <1>5, <1>6, <1>10, <1>20, <1>23, <1>24 DEF IsPut, n, L
<1>26. QED BY <1>25 DEF q

\* The numbers and the texts that a line may have.
Numbers == {n \in Nat : n < 65536}
Texts   == {t \in Seq(Nat) : t # <<>> /\ \A i \in 1 .. Len(t) : t[i] # 0}

LEMMA Typed ==
    /\ \A ln \in Number : ln \in Numbers
    /\ \A text \in Text : text \in Texts
<1>1. ASSUME NEW text \in Text PROVE text \in Texts
  <2>1. text \in Seq(DOMAIN Stmt) /\ text # <<>>
    BY TextAssumption
  <2>2. DOMAIN Stmt \subseteq Nat /\ \A c \in DOMAIN Stmt : c # 0
    BY StmtAssumption
  <2>3. \A i \in 1 .. Len(text) : text[i] \in DOMAIN Stmt
    BY <2>1, ElementOfSeq
  <2>4. text \in Seq(Nat)
    BY <2>1, <2>2, SeqMonotonic
  <2>5. QED BY <2>1, <2>2, <2>3, <2>4 DEF Texts
<1>2. QED BY <1>1, NumberAssumption DEF Numbers

LEMMA EntryBytes ==
    ASSUME NEW ln \in Numbers, NEW text \in Texts
    PROVE  /\ LineBytes(Entry(ln, text), ln) /\ Len(Entry(ln, text)) = Len(text) + 3
           /\ text \in Seq(Nat) /\ Len(text) \in Nat
           /\ \A i \in 1 .. Len(text) : Entry(ln, text)[2 + i] = text[i]
<1>0. ln \in Nat /\ ln < 65536
  BY DEF Numbers
<1>1. text \in Seq(Nat) /\ text # <<>> /\ \A i \in 1 .. Len(text) : text[i] # 0
  BY DEF Texts
<1>2. Len(text) \in Nat /\ Len(text) >= 1
  <2>1. Len(text) \in Nat \ {0}
    BY <1>1, EmptySeq
  <2>2. QED BY <2>1
<1> DEFINE e == Entry(ln, text)
<1>3. /\ e \in Seq(Nat) /\ Len(e) = Len(text) + 3
      /\ e[1] + 256 * e[2] = ln
      /\ \A i \in 3 .. Len(text) + 2 : e[i] # 0
      /\ e[Len(text) + 3] = 0
  BY <1>0, <1>1, <1>2, EntryIs
<1>t. \A i \in 1 .. Len(text) : e[2 + i] = text[i]
  BY <1>0, <1>1, <1>2, EntryIs
<1> HIDE DEF e
<1>4. Len(e) >= 4 /\ Len(e) - 1 = Len(text) + 2
  BY <1>2, <1>3
<1>5. LineBytes(e, ln)
  BY <1>3, <1>4 DEF LineBytes
<1>6. QED BY <1>1, <1>2, <1>3, <1>5, <1>t DEF e

\* A walk within the memory is a program that is kept.
LEMMA WalkKept ==
    ASSUME NEW prog, NEW T, Walk(prog, T), Len(prog) <= PROGRAM_SIZE
    PROVE  Kept(prog) /\ Places(prog) = T
<1>1. Places(prog) = T
  BY StartsAre
<1>2. QED BY <1>1 DEF Kept

LEMMA EmptyKept == Kept(EmptyProgram)
<1> DEFINE e == <<0, 0>>
<1>1. e \in Seq(Nat) /\ Len(e) = 2 /\ e[1] = 0 /\ e[2] = 0
  OBVIOUS
<1>2. e = EmptyProgram
  BY DEF EmptyProgram
<1> HIDE DEF e
<1>3. Walk(e, {0})
  BY <1>1 DEF Walk, Cell, ProgramLen
<1>4. Len(e) <= PROGRAM_SIZE
  BY <1>1, SizeAssumption
<1>5. QED BY <1>2, <1>3, <1>4, WalkKept

\* What is kept is well formed.
LEMMA KeptFormed ==
    ASSUME NEW prog, Kept(prog)
    PROVE  WellFormed(prog)
<1> DEFINE T == Places(prog)
           L == ProgramLen(prog)
<1>1. Walk(prog, T) /\ Len(prog) <= PROGRAM_SIZE
  BY DEF Kept
<1>2. LineStarts(prog) = T \ {L}
  BY <1>1, StartsAre
<1> HIDE DEF T
<1>3. /\ prog \in Seq(Nat) /\ Len(prog) \in Nat /\ Len(prog) >= 2 /\ Len(prog) = L + 2
      /\ L \in Nat
      /\ \A a \in T : a \in Nat /\ a <= L
      /\ \A a, b \in T : a < b /\ b < L => LineNumber(prog, a) < LineNumber(prog, b)
  BY <1>1, WalkFacts
<1>4. \A a \in LineStarts(prog) : a \in T /\ a \in Nat /\ a < L
  BY <1>2, <1>3
<1>5. ASSUME NEW a \in LineStarts(prog) PROVE TextAt(prog, a) # <<>>
  <2>1. /\ EntryLen(prog, a) \in Nat /\ EntryLen(prog, a) >= 4
        /\ a + EntryLen(prog, a) \in T
    BY <1>1, <1>4, WalkFacts
  <2>2. a + EntryLen(prog, a) <= Len(prog) /\ a \in Nat
    BY <1>3, <1>4, <2>1
  <2>3. TextAt(prog, a) \in Seq(Nat) /\ Len(TextAt(prog, a)) = EntryLen(prog, a) - 3
    BY <1>3, <2>1, <2>2, TextIs
  <2>4. Len(TextAt(prog, a)) # 0
    BY <2>1, <2>3
  <2>5. QED BY <2>3, <2>4, EmptySeq
<1>6. ASSUME NEW a \in LineStarts(prog), NEW b \in LineStarts(prog), a < b
      PROVE  LineNumber(prog, a) < LineNumber(prog, b)
  BY <1>3, <1>4, <1>6
<1>7. Len(prog) \in 2 .. PROGRAM_SIZE
  BY <1>1, <1>3, SizeAssumption
<1>8. QED BY <1>3, <1>5, <1>6, <1>7 DEF WellFormed

\* The lines of a program.
LineSet(prog) == LinesAt(prog, Places(prog))

\* The text of the line that was put in.
LEMMA PutText ==
    ASSUME NEW q \in Seq(Nat), NEW a \in Nat, NEW e, NEW text \in Seq(Nat), Len(e) = Len(text) + 3,
           Len(e) >= 4, EntryLen(q, a) = Len(e), a + Len(e) <= Len(q),
           \A i \in 1 .. Len(e) : Cell(q, a + i - 1) = e[i],
           \A i \in 1 .. Len(text) : e[2 + i] = text[i]
    PROVE  TextAt(q, a) = text
<1> DEFINE n == Len(e)
           t == TextAt(q, a)
<1>1. Len(text) \in Nat
  BY LenProperties
<1>2. n \in Nat /\ n >= 4 /\ EntryLen(q, a) = n /\ a + n <= Len(q) /\ n - 3 = Len(text)
  BY <1>1
<1> HIDE DEF n
<1>3. /\ t \in Seq(Nat) /\ Len(t) = n - 3
      /\ \A i \in 1 .. n - 3 : t[i] = Cell(q, a + 1 + i)
  BY <1>2, TextIs
<1>4. \A i \in 1 .. n : Cell(q, a + i - 1) = e[i]
  BY DEF n
<1> HIDE DEF t
<1>5. ASSUME NEW i \in 1 .. Len(text) PROVE t[i] = text[i]
  <2>1. 2 + i \in 1 .. n /\ a + (2 + i) - 1 = a + 1 + i /\ i \in 1 .. n - 3
    <3>1. n \in Nat /\ n - 3 = Len(text)
      BY <1>2
    <3>2. i \in 1 .. n - 3
      BY <3>1
    <3>3. 2 + i \in 1 .. n /\ i \in Nat
      BY <3>1, <3>2
    <3>4. a + (2 + i) - 1 = a + 1 + i
      BY <3>3
    <3>5. QED BY <3>2, <3>3, <3>4
  <2>2. Cell(q, a + (2 + i) - 1) = e[2 + i] /\ e[2 + i] = text[i]
    BY <1>4, <2>1
  <2>3. QED BY <1>3, <2>1, <2>2
<1>6. t = text
  BY <1>2, <1>3, <1>5, SeqEqual
<1>7. QED BY <1>6 DEF t

\* Without a line, the others are what they were, and there is a place for it.
OtherLines(prog, ln) == {r \in LineSet(prog) : r[1] # ln}

LEMMA RestKept ==
    ASSUME NEW prog, Kept(prog), NEW ln \in Nat
    PROVE  LET r == WithoutLine(prog, ln)
               a == FirstNotBelow(prog, ln)
           IN  /\ Kept(r) /\ LineSet(r) = OtherLines(prog, ln)
               /\ a \in Places(r) /\ PlaceFor(ln, r, Places(r), a)
<1> DEFINE T == Places(prog)
           L == ProgramLen(prog)
           a == FirstNotBelow(prog, ln)
           old == a < L /\ LineNumber(prog, a) = ln
           n == EntryLen(prog, a)
           rest == WithoutLine(prog, ln)
<1>1. Walk(prog, T) /\ Len(prog) <= PROGRAM_SIZE
  BY DEF Kept
<1>2. ln \in Nat
  OBVIOUS
<1> HIDE DEF T
<1>3. /\ a \in T
      /\ a < L => LineNumber(prog, a) >= ln
      /\ \A b \in T : b < a => LineNumber(prog, b) < ln
  BY <1>1, <1>2, FirstIs
<1>4. /\ L \in Nat /\ Len(prog) = L + 2
      /\ \A b \in T : b \in Nat /\ b <= L
      /\ \A b \in T : b < L => LineNumber(prog, b) \in Nat
      /\ \A b, c \in T : b < c /\ c < L => LineNumber(prog, b) < LineNumber(prog, c)
  BY <1>1, WalkFacts
<1>5. rest = IF old THEN CutOut(prog, a, n) ELSE prog
  BY DEF WithoutLine
<1> HIDE DEF a, rest
<1>o. OtherLines(prog, ln) = LinesAt(prog, {b \in T : b < L => LineNumber(prog, b) # ln})
  BY DEF OtherLines, LineSet, LinesAt, T, L
<1>6. \E U : /\ Walk(rest, U) /\ a \in U /\ PlaceFor(ln, rest, U, a) /\ Len(rest) <= PROGRAM_SIZE
             /\ LinesAt(rest, U) = OtherLines(prog, ln)
  <2>1. CASE old
    <3>1. rest = CutOut(prog, a, n)
      BY <1>5, <2>1
    <3>c. PICK U : IsCut(prog, T, a, rest, U)
      BY <1>1, <1>3, <2>1, <3>1, CutWalk
    <3>2. /\ Walk(rest, U) /\ a \in U /\ ProgramLen(rest) = L - n
          /\ \A b \in U : b < a => LineNumber(rest, b) < LineNumber(prog, a)
          /\ \A b \in U : b >= a /\ b < ProgramLen(rest) => LineNumber(rest, b) > LineNumber(prog, a)
          /\ LinesAt(rest, U) = LinesAt(prog, T \ {a})
      BY <3>c DEF IsCut
    <3>3. PlaceFor(ln, rest, U, a)
      BY <2>1, <3>2 DEF PlaceFor
    <3>4. Len(rest) <= PROGRAM_SIZE
      <4>1. n \in Nat /\ n >= 4
        BY <1>1, <1>3, <2>1, WalkFacts
      <4>2. Len(rest) = ProgramLen(rest) + 2
        BY <3>2, WalkFacts
      <4> HIDE DEF n
      <4>3. QED BY <1>1, <1>4, <3>2, <4>1, <4>2, SizeAssumption
    <3>5. LinesAt(prog, T \ {a}) = OtherLines(prog, ln)
      <4>1. ASSUME NEW b \in T, b < L, b # a PROVE LineNumber(prog, b) # ln
        <5>1. b \in Nat /\ a \in Nat /\ a < L /\ LineNumber(prog, a) = ln
          BY <1>3, <1>4, <2>1
        <5>2. LineNumber(prog, b) < LineNumber(prog, a) \/ LineNumber(prog, a) < LineNumber(prog, b)
          BY <1>3, <1>4, <4>1, <5>1
        <5>3. LineNumber(prog, b) \in Nat
          BY <1>4, <4>1
        <5>4. QED BY <1>2, <5>1, <5>2, <5>3
      <4>2. {b \in T \ {a} : b < L} = {c \in {b \in T : b < L => LineNumber(prog, b) # ln} : c < L}
        BY <2>1, <4>1
      <4> HIDE DEF L
      <4>3. QED BY <1>o, <4>2 DEF LinesAt, L
    <3>6. QED BY <3>2, <3>3, <3>4, <3>5
  <2>2. CASE ~ old
    <3>1. rest = prog
      BY <1>5, <2>2
    <3>2. ASSUME NEW b \in T, b >= a, b < L PROVE LineNumber(prog, b) > ln
      <4>1. a \in Nat /\ b \in Nat /\ a < L
        BY <1>3, <1>4, <3>2
      <4>2. LineNumber(prog, a) \in Nat /\ LineNumber(prog, a) >= ln /\ LineNumber(prog, a) # ln
        BY <1>3, <1>4, <2>2, <4>1
      <4>3. CASE b = a
        BY <1>2, <4>2, <4>3
      <4>4. CASE b > a
        <5>1. LineNumber(prog, a) < LineNumber(prog, b) /\ LineNumber(prog, b) \in Nat
          BY <1>3, <1>4, <3>2, <4>4
        <5>2. QED BY <1>2, <4>2, <5>1
      <4>5. QED BY <3>2, <4>1, <4>3, <4>4
    <3>3. PlaceFor(ln, prog, T, a)
      BY <1>3, <3>2 DEF PlaceFor
    <3>4. LinesAt(prog, T) = OtherLines(prog, ln)
      <4>1. ASSUME NEW b \in T, b < L PROVE LineNumber(prog, b) # ln
        <5>1. b \in Nat /\ a \in Nat /\ LineNumber(prog, b) \in Nat
          BY <1>3, <1>4, <4>1
        <5>2. LineNumber(prog, b) < ln \/ LineNumber(prog, b) > ln
          BY <1>3, <3>2, <4>1, <5>1
        <5>3. QED BY <1>2, <5>1, <5>2
      <4>2. {b \in T : b < L} = {c \in {b \in T : b < L => LineNumber(prog, b) # ln} : c < L}
        BY <4>1
      <4> HIDE DEF L
      <4>3. QED BY <1>o, <4>2 DEF LinesAt, L
    <3>5. QED BY <1>1, <1>3, <3>1, <3>3, <3>4
  <2>3. QED BY <2>1, <2>2
<1>7. PICK U : /\ Walk(rest, U) /\ a \in U /\ PlaceFor(ln, rest, U, a) /\ Len(rest) <= PROGRAM_SIZE
               /\ LinesAt(rest, U) = OtherLines(prog, ln)
  BY <1>6
<1>8. Kept(rest) /\ Places(rest) = U
  BY <1>7, WalkKept
<1>9. QED BY <1>7, <1>8 DEF LineSet, rest, a

\* A line that is put in at its place, with room for it.
LEMMA PutKept ==
    ASSUME NEW prog, Kept(prog), NEW ln \in Numbers, NEW text \in Texts,
           NEW a \in Places(prog), PlaceFor(ln, prog, Places(prog), a),
           ~ ProgramLen(prog) + Len(text) + 3 > PROGRAM_SIZE - 2
    PROVE  LET q == PutIn(prog, a, Entry(ln, text))
           IN  Kept(q) /\ LineSet(q) = LineSet(prog) \cup {<<ln, text>>}
<1> DEFINE e == Entry(ln, text)
           q == PutIn(prog, a, e)
           U == Places(prog)
<1>1. Walk(prog, U) /\ ln \in Nat
  BY DEF Kept, Numbers
<1>2. /\ LineBytes(e, ln) /\ Len(e) = Len(text) + 3 /\ text \in Seq(Nat) /\ Len(text) \in Nat
      /\ \A i \in 1 .. Len(text) : e[2 + i] = text[i]
  BY EntryBytes
<1>e. q = PutIn(prog, a, Entry(ln, text))
  OBVIOUS
<1>u. LineSet(prog) = LinesAt(prog, U) /\ a \in U /\ PlaceFor(ln, prog, U, a)
  BY DEF LineSet
<1> HIDE DEF e, U
<1>p. PICK V : IsPut(prog, U, a, ln, e, q, V)
  BY <1>1, <1>2, <1>u, PutWalk
<1>3. /\ Walk(q, V) /\ ProgramLen(q) = ProgramLen(prog) + Len(e)
      /\ a \in V /\ a < ProgramLen(q)
      /\ EntryLen(q, a) = Len(e) /\ LineNumber(q, a) = ln
      /\ \A i \in 1 .. Len(e) : Cell(q, a + i - 1) = e[i]
      /\ LinesAt(q, V \ {a}) = LinesAt(prog, U)
  BY <1>p DEF IsPut
<1> HIDE DEF q
<1>4. /\ q \in Seq(Nat) /\ Len(q) = ProgramLen(q) + 2 /\ ProgramLen(prog) \in Nat
      /\ a \in Nat /\ a + Len(e) \in V /\ a + Len(e) <= ProgramLen(q)
  <2>1. ProgramLen(prog) \in Nat
    BY <1>1, WalkFacts
  <2>2. q \in Seq(Nat) /\ Len(q) = ProgramLen(q) + 2 /\ a \in Nat /\ a + EntryLen(q, a) \in V
    BY <1>3, WalkFacts
  <2>3. a + Len(e) \in V
    BY <1>3, <2>2
  <2>4. a + Len(e) <= ProgramLen(q)
    BY <1>3, <2>3, WalkFacts
  <2>5. QED BY <2>1, <2>2, <2>3, <2>4
<1>5. Len(q) <= PROGRAM_SIZE
  BY <1>2, <1>3, <1>4, SizeAssumption
<1>6. Kept(q) /\ Places(q) = V
  BY <1>3, <1>5, WalkKept
<1>7. TextAt(q, a) = text
  <2>1. Len(e) >= 4 /\ a + Len(e) <= Len(q)
    BY <1>2, <1>3, <1>4 DEF LineBytes
  <2>2. QED BY <1>2, <1>3, <1>4, <2>1, PutText
<1>8. LinesAt(q, V) = LinesAt(q, V \ {a}) \cup {<<ln, text>>}
  BY <1>3, <1>7 DEF LinesAt
<1>9. LineSet(q) = LineSet(prog) \cup {<<ln, text>>}
  BY <1>3, <1>6, <1>8, <1>u DEF LineSet
<1>10. QED BY <1>6, <1>9, <1>e

\* The end marker changes no line.
LEMMA ClosedIs ==
    ASSUME NEW prog \in Seq(Nat), Len(prog) >= 2
    PROVE  /\ Closed(prog) \in Seq(Nat) /\ Len(Closed(prog)) = Len(prog)
           /\ \A x \in 0 .. ProgramLen(prog) - 1 : Cell(Closed(prog), x) = Cell(prog, x)
           /\ Terminated(Closed(prog))
<1> DEFINE L == ProgramLen(prog)
           s == SubSeq(prog, 1, L)
           o == <<0, 0>>
           q == Closed(prog)
<1>1. L \in Nat /\ Len(prog) \in Nat /\ Len(prog) = L + 2 /\ L <= Len(prog)
  BY LenProperties DEF ProgramLen
<1>2. q = s \o o /\ ProgramLen(prog) = L
  BY DEF Closed
<1>3. o \in Seq(Nat) /\ Len(o) = 2 /\ o[1] = 0 /\ o[2] = 0
  OBVIOUS
<1> HIDE DEF L
<1>4. s \in Seq(Nat) /\ Len(s) = L /\ \A i \in 1 .. L : s[i] = prog[i]
  BY <1>1, Parts
<1> HIDE DEF s, o, q
<1>5. /\ q \in Seq(Nat) /\ Len(q) = L + 2
      /\ \A i \in 1 .. L : q[i] = s[i]
      /\ \A i \in 1 .. 2 : q[L + i] = o[i]
  <2>1. /\ s \o o \in Seq(Nat) /\ Len(s \o o) = Len(s) + Len(o)
        /\ \A i \in 1 .. Len(s) : (s \o o)[i] = s[i]
        /\ \A i \in 1 .. Len(o) : (s \o o)[Len(s) + i] = o[i]
    BY <1>3, <1>4, Joined
  <2>2. QED BY <1>2, <1>3, <1>4, <2>1, Zenon
<1>6. ASSUME NEW x \in 0 .. L - 1 PROVE q[x + 1] = prog[x + 1]
  <2>1. x + 1 \in 1 .. L
    BY <1>1
  <2>2. QED BY <1>4, <1>5, <2>1
<1>7. q[L + 1] = 0 /\ q[L + 2] = 0
  BY <1>3, <1>5
<1>8. ProgramLen(q) = L /\ (L + 1) + 1 = L + 2
  BY <1>1, <1>5 DEF ProgramLen
<1>9. Terminated(q)
  BY <1>7, <1>8 DEF Terminated, Cell
<1>10. QED BY <1>1, <1>2, <1>5, <1>6, <1>9 DEF Cell, q

LEMMA ClosedKept ==
    ASSUME NEW prog, Kept(prog)
    PROVE  LET q == Closed(prog)
           IN  /\ Kept(q) /\ LineSet(q) = LineSet(prog) /\ Places(q) = Places(prog)
               /\ ProgramLen(q) = ProgramLen(prog) /\ Terminated(q)
<1> DEFINE T == Places(prog)
           L == ProgramLen(prog)
           q == Closed(prog)
<1>1. Walk(prog, T) /\ Len(prog) <= PROGRAM_SIZE
  BY DEF Kept
<1> HIDE DEF T
<1>2. /\ prog \in Seq(Nat) /\ Len(prog) \in Nat /\ Len(prog) >= 2 /\ Len(prog) = L + 2 /\ L \in Nat
      /\ T \subseteq 0 .. L /\ 0 \in T /\ L \in T
      /\ \A b \in T : b \in Nat /\ b <= L
  BY <1>1, WalkFacts
<1>3. /\ \A b \in T : b < L =>
             /\ EntryLen(prog, b) \in Nat /\ EntryLen(prog, b) >= 4 /\ b + EntryLen(prog, b) \in T
             /\ \A c \in T : c > b => c >= b + EntryLen(prog, b)
      /\ \A b, c \in T : b < c /\ c < L => LineNumber(prog, b) < LineNumber(prog, c)
  BY <1>1, WalkFacts
<1>4. /\ q \in Seq(Nat) /\ Len(q) = Len(prog) /\ Terminated(q)
      /\ \A x \in 0 .. L - 1 : Cell(q, x) = Cell(prog, x)
  BY <1>2, ClosedIs
<1> HIDE DEF q
<1>5. ProgramLen(q) = L
  BY <1>2, <1>4 DEF ProgramLen
<1> HIDE DEF L
<1>6. ASSUME NEW b \in T, b < L
      PROVE  /\ EntryLen(q, b) = EntryLen(prog, b) /\ LineNumber(q, b) = LineNumber(prog, b)
             /\ SameLine(prog, b, q, b)
  <2>1. L <= Len(q)
    BY <1>2, <1>4
  <2>2. QED BY <1>1, <1>2, <1>4, <1>6, <2>1, InFront
<1>7. ASSUME NEW b \in T, NEW c \in T, b < c, c < L
      PROVE  LineNumber(q, b) < LineNumber(q, c)
  <2>1. b < L
    BY <1>2, <1>7
  <2>2. QED BY <1>3, <1>6, <1>7, <2>1
<1>8. Walk(q, T)
  <2>1. Len(q) >= 2
    BY <1>2, <1>4
  <2>2. QED BY <1>2, <1>3, <1>4, <1>5, <1>6, <1>7, <2>1 DEF Walk
<1>9. Kept(q) /\ Places(q) = T
  BY <1>1, <1>4, <1>8, WalkKept
<1>10. LinesAt(q, T) = LinesAt(prog, T)
  BY <1>5, <1>6 DEF LinesAt, SameLine, L
<1>11. QED BY <1>4, <1>5, <1>9, <1>10 DEF LineSet, q, T, L

\* store_line keeps the program in form; the other lines are what they were, and the line has
\* the new text if there is any and room for it, and else is gone.
NoRoom(prog, text) == ProgramLen(prog) + Len(text) + 3 > PROGRAM_SIZE - 2

LEMMA StoreKept ==
    ASSUME NEW prog, Kept(prog), NEW ln \in Numbers, NEW text \in Texts \cup {<<>>}
    PROVE  LET q == StoreLine(prog, ln, text)
               r == WithoutLine(prog, ln)
           IN  /\ Kept(q) /\ Kept(r) /\ LineSet(r) = OtherLines(prog, ln)
               /\ LineSet(q) = IF text = <<>> \/ NoRoom(r, text) THEN OtherLines(prog, ln)
                               ELSE OtherLines(prog, ln) \cup {<<ln, text>>}
<1> DEFINE q == StoreLine(prog, ln, text)
           r == WithoutLine(prog, ln)
           a == FirstNotBelow(prog, ln)
<1>0. ln \in Nat
  BY DEF Numbers
<1>1. /\ Kept(r) /\ LineSet(r) = OtherLines(prog, ln)
      /\ a \in Places(r) /\ PlaceFor(ln, r, Places(r), a)
  BY <1>0, RestKept
<1>2. q = IF text = <<>> THEN Closed(r)
          ELSE IF ProgramLen(r) + Len(text) + 3 > PROGRAM_SIZE - 2 THEN r
          ELSE Closed(PutIn(r, a, Entry(ln, text)))
  BY DEF StoreLine
<1> HIDE DEF q, r, a
<1>3. CASE text = <<>>
  <2>1. q = Closed(r)
    BY <1>2, <1>3
  <2>2. QED BY <1>1, <1>3, <2>1, ClosedKept DEF q, r
<1>4. CASE text # <<>> /\ NoRoom(r, text)
  <2>1. q = r
    BY <1>2, <1>4 DEF NoRoom
  <2>2. QED BY <1>1, <1>4, <2>1 DEF q, r
<1>5. CASE text # <<>> /\ ~ NoRoom(r, text)
  <2> DEFINE m == PutIn(r, a, Entry(ln, text))
  <2>1. q = Closed(m)
    BY <1>2, <1>5 DEF NoRoom
  <2>2. text \in Texts /\ ~ ProgramLen(r) + Len(text) + 3 > PROGRAM_SIZE - 2
    BY <1>5 DEF NoRoom
  <2>3. Kept(m) /\ LineSet(m) = LineSet(r) \cup {<<ln, text>>}
    BY <1>1, <2>2, PutKept
  <2> HIDE DEF m
  <2>4. Kept(q) /\ LineSet(q) = LineSet(m)
    BY <2>1, <2>3, ClosedKept
  <2>5. QED BY <1>1, <1>5, <2>3, <2>4 DEF q, r
<1>6. QED BY <1>3, <1>4, <1>5

-----------------------------------------------------------------------------
(* Control.                                                                 *)

\* Where a program that is kept has its places, its lines and its text.
LEMMA KeptFacts ==
    ASSUME NEW prog, Kept(prog)
    PROVE  /\ Len(prog) \in Nat /\ ProgramLen(prog) \in Nat /\ Len(prog) = ProgramLen(prog) + 2
           /\ prog \in Seq(Nat) /\ Len(prog) >= 2
           /\ 0 \in Places(prog)
           /\ \A a \in Places(prog) : a \in Nat /\ a <= ProgramLen(prog)
           /\ \A a \in Places(prog) : a < ProgramLen(prog) <=> a \in LineStarts(prog)
           /\ \A a \in LineStarts(prog) :
                 /\ a \in Places(prog) /\ a \in Nat /\ a < ProgramLen(prog)
                 /\ EntryLen(prog, a) \in Nat /\ EntryLen(prog, a) >= 4
                 /\ a + EntryLen(prog, a) \in Places(prog)
                 /\ FindLine(prog, LineNumber(prog, a)) = a
<1> DEFINE T == Places(prog)
           L == ProgramLen(prog)
<1>1. Walk(prog, T)
  BY DEF Kept
<1>2. LineStarts(prog) = T \ {L}
  BY <1>1, StartsAre
<1> HIDE DEF T
<1>3. /\ prog \in Seq(Nat) /\ Len(prog) \in Nat /\ Len(prog) >= 2 /\ Len(prog) = L + 2
      /\ L \in Nat
      /\ 0 \in T /\ \A a \in T : a \in Nat /\ a <= L
  BY <1>1, WalkFacts
<1>4. \A a \in T : a < L <=> a \in LineStarts(prog)
  BY <1>2, <1>3
<1>5. \A a \in LineStarts(prog) : a \in T /\ a \in Nat /\ a < L
  BY <1>2, <1>3
<1>6. \A a \in LineStarts(prog) :
          EntryLen(prog, a) \in Nat /\ EntryLen(prog, a) >= 4 /\ a + EntryLen(prog, a) \in T
  BY <1>1, <1>5, WalkFacts
<1>7. \A a \in LineStarts(prog) : FindLine(prog, LineNumber(prog, a)) = a
  BY <1>1, <1>5, FoundByNumber
<1>8. QED BY <1>3, <1>4, <1>5, <1>6, <1>7 DEF T

\* The head of the loop: control stands at the line, or has stopped.
LEMMA GoOnStands ==
    ASSUME NEW prog, Kept(prog), NEW l \in BOOLEAN, NEW a \in Nat, ~ l => a \in Places(prog),
           GoOn(prog, a)
    PROVE  Lands(prog, l)
<1>1. CASE ~ a < ProgramLen(prog)
  BY <1>1 DEF GoOn, Stop, Lands
<1>2. CASE a < ProgramLen(prog)
  <2>1. mode' = "run" /\ p' = a /\ stp' = a + 2
    BY <1>2 DEF GoOn
  <2>2. Len(prog) \in Nat /\ ProgramLen(prog) \in Nat /\ Len(prog) = ProgramLen(prog) + 2
    BY KeptFacts
  <2>3. ~ l => a \in LineStarts(prog) /\ EntryLen(prog, a) \in Nat /\ EntryLen(prog, a) >= 4
    BY <1>2, KeptFacts
  <2>4. a + 2 \in Nat /\ a + 2 <= Len(prog) - 1
    BY <1>2, <2>2
  <2>5. ~ l => a + 2 <= a + EntryLen(prog, a) - 2
    BY <2>3
  <2>6. Stands(prog, l, a, a + 2)
    BY <1>2, <2>3, <2>4, <2>5 DEF Stands
  <2>7. QED BY <2>1, <2>4, <2>6 DEF Lands
<1>3. QED BY <1>1, <1>2

\* The line behind one at which control stands.
LEMMA EntryAhead ==
    ASSUME NEW prog, Kept(prog), NEW l \in BOOLEAN, NEW a, NEW s, Stands(prog, l, a, s)
    PROVE  /\ a \in Nat /\ a + EntryLen(prog, a) \in 0 .. Len(prog)
           /\ ~ l => /\ a + EntryLen(prog, a) \in Places(prog)
                     /\ FindLine(prog, LineNumber(prog, a)) = a
<1>1. a \in Nat /\ a < ProgramLen(prog) /\ (~ l => a \in LineStarts(prog))
  BY DEF Stands
<1>2. prog \in Seq(Nat) /\ Len(prog) >= 2
  BY KeptFacts
<1>3. a + EntryLen(prog, a) \in 0 .. Len(prog)
  BY <1>1, <1>2, EndExists
<1>4. QED BY <1>1, <1>3, KeptFacts

\* After a statement that does not jump.
LEMMA ContinueStands ==
    ASSUME IInv, mode = "run", Cell(program, stp) # 0, Continue
    PROVE  Lands(program, loaded)
<1>1. Kept(program) /\ Stands(program, loaded, p, stp) /\ loaded \in BOOLEAN
  BY DEF IInv, Control, Programs
<1>2. /\ p \in Nat /\ stp \in Nat /\ p < ProgramLen(program) /\ p + 2 <= stp /\ stp <= Len(program) - 1
      /\ ~ loaded => p \in LineStarts(program) /\ stp <= p + EntryLen(program, p) - 2
  BY <1>1 DEF Stands
<1>3. /\ Len(program) \in Nat /\ ProgramLen(program) \in Nat /\ Len(program) = ProgramLen(program) + 2
      /\ program \in Seq(Nat) /\ Len(program) >= 2
  BY <1>1, KeptFacts
<1>4. CASE stp + 1 < Len(program) /\ Cell(program, stp + 1) # 0
  <2>1. stp' = stp + 1 /\ mode' = mode /\ p' = p
    BY <1>4 DEF Continue
  <2>3. stp + 1 \in Nat /\ p + 2 <= stp + 1 /\ stp + 1 <= Len(program) - 1
    BY <1>2, <1>3, <1>4
  <2>4. ASSUME ~ loaded PROVE stp + 1 <= p + EntryLen(program, p) - 2
    <3>1. /\ EndOf(program, p) \in p + 2 .. Len(program) - 1
          /\ Cell(program, EndOf(program, p)) = 0
          /\ EntryLen(program, p) = EndOf(program, p) - p + 1
      BY <1>1, <1>2, <2>4, KeptFacts, LineEnds DEF Kept
    <3>2. stp + 1 # EndOf(program, p)
      BY <1>4, <3>1
    <3>3. stp <= p + EntryLen(program, p) - 2
      BY <1>2, <2>4
    <3> DEFINE z == EndOf(program, p)
               n == EntryLen(program, p)
    <3>4. z \in Nat /\ n = z - p + 1 /\ stp <= p + n - 2 /\ stp + 1 # z
      BY <1>2, <1>3, <3>1, <3>2, <3>3
    <3> HIDE DEF z, n
    <3>5. stp + 1 <= p + n - 2
      BY <1>2, <3>4
    <3>6. QED BY <3>5 DEF n
  <2>5. Stands(program, loaded, p, stp + 1)
    BY <1>2, <2>3, <2>4 DEF Stands
  <2>6. QED BY <1>2, <2>1, <2>3, <2>5 DEF Lands
<1>5. CASE ~ (stp + 1 < Len(program) /\ Cell(program, stp + 1) # 0)
  <2>1. GoOn(program, NextLine(program)) /\ NextLine(program) = p + EntryLen(program, p)
    BY <1>2, <1>5 DEF Continue, NextLine
  <2>2. NextLine(program) \in Nat /\ (~ loaded => NextLine(program) \in Places(program))
    BY <1>1, <1>3, <2>1, EntryAhead
  <2>3. QED BY <1>1, <2>1, <2>2, GoOnStands
<1>6. QED BY <1>4, <1>5

\* A jump to a line number.
LEMMA JumpStands ==
    ASSUME NEW ln, Kept(program), loaded \in BOOLEAN, JumpTo(ln)
    PROVE  Lands(program, loaded)
<1> DEFINE t == FindLine(program, ln)
<1>1. CASE t = NoLine
  BY <1>1 DEF JumpTo, Stop, Lands
<1>2. CASE t # NoLine
  <2>1. GoOn(program, t)
    BY <1>2 DEF JumpTo
  <2>2. t \in Places(program)
    BY <1>2, FindIs DEF Kept
  <2> HIDE DEF t
  <2>3. t \in Nat
    BY <2>2, KeptFacts
  <2>4. QED BY <2>1, <2>2, <2>3, GoOnStands
<1>3. QED BY <1>1, <1>2

-----------------------------------------------------------------------------
(* Stacks and counters.                                                     *)

LEMMA FrontIs ==
    ASSUME NEW F, NEW s \in Seq(F), s # <<>>
    PROVE  /\ Front(s) \in Seq(F) /\ Last(s) \in F
           /\ Len(s) \in Nat /\ Len(s) >= 1 /\ Len(Front(s)) = Len(s) - 1
<1>1. Len(s) \in Nat /\ Len(s) >= 1
  BY EmptySeq
<1>2. \A i \in 1 .. Len(s) : s[i] \in F
  BY ElementOfSeq
<1>3. SubSeq(s, 1, Len(s) - 1) \in Seq(F)
      /\ Len(SubSeq(s, 1, Len(s) - 1)) = IF 1 <= Len(s) - 1 THEN (Len(s) - 1) - 1 + 1 ELSE 0
  BY <1>1, <1>2, SubSeqProperties
<1>4. s[Len(s)] \in F
  BY <1>1, <1>2
<1>5. Front(s) = SubSeq(s, 1, Len(s) - 1) /\ Last(s) = s[Len(s)]
  BY DEF Front, Last
<1>6. (IF 1 <= Len(s) - 1 THEN (Len(s) - 1) - 1 + 1 ELSE 0) = Len(s) - 1
  <2> DEFINE n == Len(s)
  <2>1. n \in Nat /\ n >= 1
    BY <1>1
  <2> HIDE DEF n
  <2>2. (IF 1 <= n - 1 THEN (n - 1) - 1 + 1 ELSE 0) = n - 1
    BY <2>1
  <2>3. QED BY <2>2 DEF n
<1>7. QED BY <1>1, <1>3, <1>4, <1>5, <1>6

\* At the prompt a frame may lead anywhere.
LEMMA AtThePrompt ==
    ASSUME NEW prog, NEW m, NEW l, NEW q, NEW k
    PROVE  /\ ForFrames(prog, m, l) \subseteq ForFrames(q, "prompt", k)
           /\ GosubFrames(prog, m, l) \subseteq GosubFrames(q, "prompt", k)
BY DEF ForFrames, GosubFrames, Leads

\* An int that wraps is an int, and one that does not need to is left alone.
LEMMA WrapFacts ==
    ASSUME NEW i \in Int
    PROVE  /\ Wrap(i) \in (-IntMax - 1)..IntMax
           /\ i \in (-IntMax - 1)..IntMax => Wrap(i) = i
<1> DEFINE M == 2 * IntMax + 2
           x == i + IntMax + 1
<1>1. M \in Nat \ {0} /\ x \in Int /\ IntMax \in Nat
  BY BoundAssumption
<1>2. Wrap(i) = ((x % M) - IntMax) - 1 /\ M = 2 * IntMax + 2 /\ x = i + IntMax + 1
  BY DEF Wrap
<1> HIDE DEF M, x
<1>3. x % M \in 0 .. M - 1
  BY <1>1
<1>4. ASSUME x \in 0 .. M - 1 PROVE x % M = x
  BY <1>1, <1>4
<1>5. QED BY <1>1, <1>2, <1>3, <1>4

\* The frame that FOR pushes.
LEMMA PushedFor ==
    ASSUME NEW c \in DOMAIN Stmt, Stmt[c].op = "for", NEW b \in Int, NEW ln \in Int
    PROVE  LET f == [cur |-> Stmt[c].start, start |-> Stmt[c].start, limit |-> Stmt[c].limit,
                     step |-> Stmt[c].step, body |-> b, line |-> ln]
           IN f \in ForFrame /\ Within(f) /\ f.body = b /\ f.line = ln
BY StmtAssumption, BoundAssumption DEF ForFrame, Within

\* The frame of a loop that goes round.
LEMMA GoneRound ==
    ASSUME NEW f \in ForFrame, Within(f), NEW c, c = Wrap(f.cur + f.step), GoesRound(f, c)
    PROVE  LET g == [f EXCEPT !.cur = c]
           IN g \in ForFrame /\ Within(g) /\ g.body = f.body /\ g.line = f.line
<1> DEFINE g == [f EXCEPT !.cur = c]
<1>1. /\ f.cur \in Int /\ f.start \in Int /\ f.limit \in Int /\ f.step \in Int /\ IntMax \in Nat
      /\ f.cur + f.step \in Int
  BY BoundAssumption DEF ForFrame
<1>2. c \in (-IntMax - 1)..IntMax
      /\ (f.cur + f.step \in (-IntMax - 1)..IntMax => c = f.cur + f.step)
  BY <1>1, WrapFacts
<1>3. /\ g \in ForFrame /\ g.body = f.body /\ g.line = f.line
      /\ g.cur = c /\ g.start = f.start /\ g.limit = f.limit /\ g.step = f.step
  BY <1>2 DEF ForFrame
<1> HIDE DEF g
<1>4. ASSUME {f.start + f.step, f.limit + f.step} \subseteq (-IntMax - 1)..IntMax
      PROVE  \/ f.step > 0 /\ c > f.start /\ c <= f.limit
             \/ f.step < 0 /\ c < f.start /\ c >= f.limit
  <2>1. /\ -IntMax - 1 <= f.start + f.step /\ f.start + f.step <= IntMax
        /\ -IntMax - 1 <= f.limit + f.step /\ f.limit + f.step <= IntMax
    BY <1>1, <1>4
  <2>2. \/ f.cur = f.start
        \/ f.step > 0 /\ f.cur > f.start /\ f.cur <= f.limit
        \/ f.step < 0 /\ f.cur < f.start /\ f.cur >= f.limit
    BY <1>4 DEF Within
  <2>3. -IntMax - 1 <= f.cur + f.step /\ f.cur + f.step <= IntMax
    BY <1>1, <2>1, <2>2
  <2>4. c = f.cur + f.step
    BY <1>1, <1>2, <2>3
  <2>5. (f.step > 0 /\ c <= f.limit) \/ (f.step < 0 /\ c >= f.limit)
    BY DEF GoesRound
  <2>6. QED BY <1>1, <2>2, <2>4, <2>5
<1>5. Within(g)
  BY <1>3, <1>4 DEF Within
<1>6. QED BY <1>3, <1>5 DEF g

LEMMA RoundStack ==
    ASSUME NEW prog, NEW m, NEW l, NEW s \in Seq(ForFrames(prog, m, l)), s # <<>>,
           NEW c, c = Wrap(Last(s).cur + Last(s).step), GoesRound(Last(s), c)
    PROVE  /\ [s EXCEPT ![Len(s)].cur = c] \in Seq(ForFrames(prog, m, l))
           /\ Len([s EXCEPT ![Len(s)].cur = c]) = Len(s)
<1> DEFINE F == ForFrames(prog, m, l)
           f == Last(s)
           g == [f EXCEPT !.cur = c]
<1>1. f \in F /\ Len(s) \in Nat /\ Len(s) >= 1
  BY FrontIs
<1>2. f \in ForFrame /\ Within(f) /\ Leads(prog, m, l, f.line, f.body)
  BY <1>1 DEF ForFrames
<1>3. g \in ForFrame /\ Within(g) /\ g.body = f.body /\ g.line = f.line
  BY <1>2, GoneRound
<1>4. g \in F
  BY <1>2, <1>3 DEF ForFrames
<1>5. [s EXCEPT ![Len(s)].cur = c] = [s EXCEPT ![Len(s)] = g]
  BY DEF Last
<1> HIDE DEF F, g
<1>6. [s EXCEPT ![Len(s)] = g] \in Seq(F) /\ Len([s EXCEPT ![Len(s)] = g]) = Len(s)
  BY <1>1, <1>4, ExceptSeq DEF F
<1>7. QED BY <1>5, <1>6 DEF F

-----------------------------------------------------------------------------
(* Every step.                                                              *)

\* A step of a program that leaves the program.
LEMMA RunStep ==
    ASSUME IInv, mode = "run", program' = program, loaded' = loaded, typed' = typed,
           saved' = saved \/ saved' = program,
           Lands(program, loaded),
           forStack' \in Seq(ForFrames(program, "run", loaded)), Len(forStack') <= FOR_STACK_MAX,
           gosubStack' \in Seq(GosubFrames(program, "run", loaded)),
           Len(gosubStack') <= GOSUB_STACK_MAX
    PROVE  IInv'
<1>1. Control'
  BY DEF Lands, Control
<1>2. Stacks'
  <2>1. CASE mode' = "run"
    BY <2>1 DEF Stacks
  <2>2. CASE mode' = "prompt"
    <3>1. /\ forStack' \in Seq(ForFrames(program, "prompt", loaded))
          /\ gosubStack' \in Seq(GosubFrames(program, "prompt", loaded))
      BY AtThePrompt, SeqMonotonic
    <3>2. QED BY <2>2, <3>1 DEF Stacks
  <2>3. QED BY <2>1, <2>2 DEF Lands
<1>3. Programs'
  BY DEF IInv, Programs
<1>4. QED BY <1>1, <1>2, <1>3 DEF IInv

\* A command at the prompt after which it is still there.
LEMMA PromptStep ==
    ASSUME IInv, Typing, UNCHANGED <<control, loaded>>,
           Kept(program'), saved' = NotSaved \/ Kept(saved'),
           forStack' \in Seq(ForFrames(program, "prompt", loaded)), Len(forStack') <= FOR_STACK_MAX,
           gosubStack' \in Seq(GosubFrames(program, "prompt", loaded)),
           Len(gosubStack') <= GOSUB_STACK_MAX
    PROVE  IInv'
<1>1. mode = "prompt" /\ mode' = mode /\ p' = p /\ stp' = stp /\ loaded' = loaded
  BY DEF Typing, control
<1>2. Control'
  BY <1>1 DEF IInv, Control
<1>3. /\ forStack' \in Seq(ForFrames(program', "prompt", loaded'))
      /\ gosubStack' \in Seq(GosubFrames(program', "prompt", loaded'))
  BY AtThePrompt, SeqMonotonic
<1>4. Stacks'
  BY <1>1, <1>3 DEF Stacks
<1>5. typed' \in 0 .. MaxTyped
  BY BoundAssumption DEF IInv, Typing
<1>6. Programs'
  BY DEF Programs
<1>7. QED BY <1>1, <1>2, <1>4, <1>5, <1>6 DEF IInv

\* What the invariant says of the prompt and of a run.
LEMMA AtPrompt ==
    ASSUME IInv, Typing
    PROVE  /\ Kept(program) /\ (saved = NotSaved \/ Kept(saved)) /\ loaded \in BOOLEAN
           /\ forStack \in Seq(ForFrames(program, "prompt", loaded))
           /\ Len(forStack) <= FOR_STACK_MAX
           /\ gosubStack \in Seq(GosubFrames(program, "prompt", loaded))
           /\ Len(gosubStack) <= GOSUB_STACK_MAX
BY DEF IInv, Programs, Stacks, Typing

LEMMA InRun ==
    ASSUME IInv, mode = "run"
    PROVE  /\ Kept(program) /\ (saved = NotSaved \/ Kept(saved)) /\ loaded \in BOOLEAN
           /\ forStack \in Seq(ForFrames(program, "run", loaded))
           /\ Len(forStack) <= FOR_STACK_MAX
           /\ gosubStack \in Seq(GosubFrames(program, "run", loaded))
           /\ Len(gosubStack) <= GOSUB_STACK_MAX
           /\ Stands(program, loaded, p, stp)
BY DEF IInv, Programs, Stacks, Control

LEMMA Stopped ==
    ASSUME NEW prog, NEW l, Stop
    PROVE  Lands(prog, l)
BY DEF Stop, Lands

LEMMA EmptyStacks ==
    ASSUME NEW prog, NEW m, NEW l
    PROVE  /\ <<>> \in Seq(ForFrames(prog, m, l)) /\ <<>> \in Seq(GosubFrames(prog, m, l))
           /\ 0 <= FOR_STACK_MAX /\ 0 <= GOSUB_STACK_MAX /\ Len(<<>>) = 0
BY EmptySeq, StackAssumption

\* The statement that is next is no zero.
LEMMA SomeStatement ==
    ASSUME NEW k, Executing(k)
    PROVE  /\ mode = "run" /\ Cell(program, stp) # 0 /\ typed' = typed
           /\ Cell(program, stp) \in DOMAIN Stmt /\ S.op = k
BY StmtAssumption DEF Executing, S

LEMMA InitKept ==
    ASSUME Init
    PROVE  IInv
<1>1. Control
  BY DEF Init, Control
<1>2. Stacks
  BY EmptyStacks DEF Init, Stacks
<1>3. Programs
  BY EmptyKept DEF Init, Programs
<1>4. loaded \in BOOLEAN
  BY Zenon DEF Init
<1>5. typed \in 0 .. MaxTyped
  BY BoundAssumption DEF Init
<1>6. QED BY <1>1, <1>2, <1>3, <1>4, <1>5 DEF IInv

LEMMA StutterKept ==
    ASSUME IInv, UNCHANGED vars
    PROVE  IInv'
<1>1. Control' /\ Stacks' /\ Programs'
  BY DEF vars, IInv, Control, Stacks, Programs
<1>2. QED BY <1>1 DEF vars, IInv

\* Commands at the prompt.
LEMMA EnterKept ==
    ASSUME IInv, NEW ln \in Number, NEW text \in Text \cup {<<>>}, Enter(ln, text)
    PROVE  IInv'
<1>1. Typing /\ program' = StoreLine(program, ln, text)
      /\ UNCHANGED <<saved, control, stacks, loaded>>
  BY DEF Enter
<1>2. /\ Kept(program) /\ (saved = NotSaved \/ Kept(saved))
      /\ forStack \in Seq(ForFrames(program, "prompt", loaded)) /\ Len(forStack) <= FOR_STACK_MAX
      /\ gosubStack \in Seq(GosubFrames(program, "prompt", loaded))
      /\ Len(gosubStack) <= GOSUB_STACK_MAX
  BY <1>1, AtPrompt
<1>3. Kept(program')
  <2>1. ln \in Numbers /\ text \in Texts \cup {<<>>}
    BY Typed
  <2>2. QED BY <1>1, <1>2, <2>1, StoreKept
<1>4. forStack' = forStack /\ gosubStack' = gosubStack /\ saved' = saved
  BY <1>1 DEF stacks
<1>5. QED BY <1>1, <1>2, <1>3, <1>4, PromptStep

LEMMA CommandKept ==
    ASSUME IInv, NewTyped \/ SaveTyped \/ LoadTyped
    PROVE  IInv'
<1>1. Typing /\ UNCHANGED <<control, loaded>>
  BY DEF NewTyped, SaveTyped, LoadTyped
<1>2. /\ Kept(program) /\ (saved = NotSaved \/ Kept(saved))
      /\ forStack \in Seq(ForFrames(program, "prompt", loaded)) /\ Len(forStack) <= FOR_STACK_MAX
      /\ gosubStack \in Seq(GosubFrames(program, "prompt", loaded))
      /\ Len(gosubStack) <= GOSUB_STACK_MAX
  BY <1>1, AtPrompt
<1>3. CASE NewTyped
  <2>1. program' = EmptyProgram /\ forStack' = <<>> /\ gosubStack' = <<>> /\ saved' = saved
    BY <1>3 DEF NewTyped, Erase
  <2>2. QED BY <1>1, <1>2, <2>1, EmptyKept, EmptyStacks, PromptStep
<1>4. CASE SaveTyped
  <2>1. saved' = program /\ program' = program /\ forStack' = forStack /\ gosubStack' = gosubStack
    BY <1>4 DEF SaveTyped, Keep, stacks
  <2>2. QED BY <1>1, <1>2, <2>1, PromptStep
<1>5. CASE LoadTyped
  <2>1. /\ saved # NotSaved /\ saved' = saved /\ program' = saved
        /\ forStack' = <<>> /\ gosubStack' = <<>>
    BY <1>5 DEF LoadTyped, Load
  <2>2. QED BY <1>1, <1>2, <2>1, EmptyStacks, PromptStep
<1>6. QED BY <1>3, <1>4, <1>5

LEMMA RunKept ==
    ASSUME IInv, Run
    PROVE  IInv'
<1>1. /\ Typing /\ forStack' = <<>> /\ gosubStack' = <<>> /\ loaded' = FALSE
      /\ GoOn(program, 0) /\ program' = program /\ saved' = saved
  BY DEF Run
<1>2. Kept(program) /\ (saved = NotSaved \/ Kept(saved))
  BY <1>1, AtPrompt
<1>3. Lands(program, FALSE)
  <2>1. 0 \in Places(program) /\ FALSE \in BOOLEAN /\ 0 \in Nat
    BY <1>2, KeptFacts
  <2>2. QED BY <1>1, <1>2, <2>1, GoOnStands
<1>4. Control'
  BY <1>1, <1>3 DEF Lands, Control
<1>5. Stacks'
  BY <1>1, EmptyStacks DEF Stacks
<1>6. Programs'
  BY <1>1, <1>2 DEF Programs
<1>7. loaded' \in BOOLEAN
  BY <1>1, Zenon
<1>8. typed' \in 0 .. MaxTyped
  BY <1>1, BoundAssumption DEF IInv, Typing
<1>9. QED BY <1>4, <1>5, <1>6, <1>7, <1>8 DEF IInv

\* A statement at the prompt pushes or pops a frame, or goes round a loop.
LEMMA ImmediateKept ==
    ASSUME IInv, NEW c \in Direct, Immediate(Stmt[c])
    PROVE  IInv'
<1> DEFINE F == ForFrames(program, "prompt", loaded)
           G == GosubFrames(program, "prompt", loaded)
<1>1. Typing /\ UNCHANGED <<program, saved, control, loaded>>
  BY DEF Immediate
<1>2. /\ Kept(program) /\ (saved = NotSaved \/ Kept(saved))
      /\ forStack \in Seq(F) /\ Len(forStack) <= FOR_STACK_MAX
      /\ gosubStack \in Seq(G) /\ Len(gosubStack) <= GOSUB_STACK_MAX
      /\ Len(forStack) \in Nat /\ Len(gosubStack) \in Nat
  BY <1>1, AtPrompt, LenProperties
<1>3. c \in DOMAIN Stmt /\ Wild \in Int
  BY StmtAssumption DEF Wild
<1>4. \/ gosubStack' = gosubStack /\ forStack' \in Seq(F) /\ Len(forStack') <= FOR_STACK_MAX
      \/ forStack' = forStack /\ gosubStack' \in Seq(G) /\ Len(gosubStack') <= GOSUB_STACK_MAX
  <2>1. ASSUME Len(gosubStack) < GOSUB_STACK_MAX, forStack' = forStack,
               gosubStack' = Append(gosubStack, [ret |-> Wild, line |-> Wild])
        PROVE  <1>4!2
    <3>1. [ret |-> Wild, line |-> Wild] \in G
      BY <1>3 DEF GosubFrames, GosubFrame, Leads
    <3> HIDE DEF G
    <3>2. gosubStack' \in Seq(G) /\ Len(gosubStack') = Len(gosubStack) + 1
      BY <1>2, <2>1, <3>1, AppendProperties
    <3>3. QED BY <1>2, <2>1, <3>2, StackAssumption DEF G
  <2>2. ASSUME gosubStack # <<>>, forStack' = forStack, gosubStack' = Front(gosubStack)
        PROVE  <1>4!2
    <3> HIDE DEF G
    <3>1. gosubStack' \in Seq(G) /\ Len(gosubStack') = Len(gosubStack) - 1
      BY <1>2, <2>2, FrontIs
    <3>2. QED BY <1>2, <2>2, <3>1, StackAssumption DEF G
  <2>3. ASSUME Stmt[c].op = "for", Len(forStack) < FOR_STACK_MAX, gosubStack' = gosubStack,
               forStack' = Append(forStack, [cur |-> Stmt[c].start, start |-> Stmt[c].start,
                                             limit |-> Stmt[c].limit, step |-> Stmt[c].step,
                                             body |-> Wild, line |-> Wild])
        PROVE  <1>4!1
    <3> DEFINE f == [cur |-> Stmt[c].start, start |-> Stmt[c].start, limit |-> Stmt[c].limit,
                     step |-> Stmt[c].step, body |-> Wild, line |-> Wild]
    <3>1. f \in ForFrame /\ Within(f)
      BY <1>3, <2>3, PushedFor
    <3> HIDE DEF f
    <3>2. f \in F
      BY <3>1 DEF ForFrames, Leads
    <3> HIDE DEF F
    <3>3. forStack' \in Seq(F) /\ Len(forStack') = Len(forStack) + 1
      BY <1>2, <2>3, <3>2, AppendProperties DEF f
    <3>4. QED BY <1>2, <2>3, <3>3, StackAssumption DEF F
  <2>4. ASSUME forStack # <<>>, gosubStack' = gosubStack, NEW r,
               r = Wrap(Last(forStack).cur + Last(forStack).step),
               forStack' = IF GoesRound(Last(forStack), r)
                           THEN [forStack EXCEPT ![Len(forStack)].cur = r] ELSE Front(forStack)
        PROVE  <1>4!1
    <3>1. CASE GoesRound(Last(forStack), r)
      <4>1. forStack' \in Seq(F) /\ Len(forStack') = Len(forStack)
        BY <1>2, <2>4, <3>1, RoundStack
      <4>2. QED BY <1>2, <2>4, <4>1
    <3>2. CASE ~ GoesRound(Last(forStack), r)
      <4> HIDE DEF F
      <4>1. forStack' \in Seq(F) /\ Len(forStack') = Len(forStack) - 1
        BY <1>2, <2>4, <3>2, FrontIs
      <4>2. QED BY <1>2, <2>4, <4>1, StackAssumption DEF F
    <3>3. QED BY <3>1, <3>2
  <2>5. QED BY <2>1, <2>2, <2>3, <2>4 DEF Immediate
<1>5. QED BY <1>1, <1>2, <1>4, PromptStep

\* Statements of a run that leave the stacks.
LEMMA StatementKept ==
    ASSUME IInv, NoStatement \/ Break \/ End \/ Plain \/ Goto \/ IfLine \/ Save
    PROVE  IInv'
<1>1. /\ mode = "run" /\ program' = program /\ loaded' = loaded /\ typed' = typed
      /\ forStack' = forStack /\ gosubStack' = gosubStack
      /\ saved' = saved \/ saved' = program
  BY DEF NoStatement, Break, End, Plain, Goto, IfLine, Save, Executing, Keep, NoEdit, stacks
<1>2. /\ Kept(program) /\ loaded \in BOOLEAN /\ Stands(program, loaded, p, stp)
      /\ forStack \in Seq(ForFrames(program, "run", loaded)) /\ Len(forStack) <= FOR_STACK_MAX
      /\ gosubStack \in Seq(GosubFrames(program, "run", loaded))
      /\ Len(gosubStack) <= GOSUB_STACK_MAX
  BY <1>1, InRun
<1>3. Lands(program, loaded)
  <2>1. CASE Break \/ End
    BY <2>1, Stopped DEF Break, End
  <2>2. CASE Plain \/ Save
    <3>1. Cell(program, stp) # 0 /\ Continue
      BY <2>2, SomeStatement DEF Plain, Save
    <3>2. QED BY <1>1, <3>1, ContinueStands
  <2>3. CASE Goto
    BY <1>2, <2>3, JumpStands DEF Goto
  <2>4. CASE IfLine
    <3>1. Cell(program, stp) # 0 /\ (Continue \/ JumpTo(S.ln))
      BY <2>4, SomeStatement DEF IfLine
    <3>2. CASE Continue
      BY <1>1, <3>1, <3>2, ContinueStands
    <3>3. CASE JumpTo(S.ln)
      BY <1>2, <3>3, JumpStands
    <3>4. QED BY <3>1, <3>2, <3>3
  <2>5. CASE NoStatement
    <3>1. Stop \/ GoOn(program, NextLine(program))
      BY <2>5 DEF NoStatement
    <3>2. CASE Stop
      BY <3>2, Stopped
    <3>3. CASE GoOn(program, NextLine(program))
      <4>1. NextLine(program) = p + EntryLen(program, p)
        BY <1>2 DEF NextLine, Stands
      <4>2. NextLine(program) \in Nat /\ (~ loaded => NextLine(program) \in Places(program))
        <5>1. Len(program) \in Nat
          BY <1>2, KeptFacts
        <5>2. QED BY <1>2, <4>1, <5>1, EntryAhead
      <4>3. QED BY <1>2, <3>3, <4>2, GoOnStands
    <3>4. QED BY <3>1, <3>2, <3>3
  <2>6. QED BY <2>1, <2>2, <2>3, <2>4, <2>5
<1>4. QED BY <1>1, <1>2, <1>3, RunStep

\* Where a frame that is pushed now leads, and the number of the line that pushes it.
LEMMA PushLeads ==
    ASSUME IInv, mode = "run"
    PROVE  /\ p + EntryLen(program, p) \in Int /\ LineNumber(program, p) \in Int
           /\ Leads(program, "run", loaded, LineNumber(program, p), p + EntryLen(program, p))
<1>1. Kept(program) /\ loaded \in BOOLEAN /\ Stands(program, loaded, p, stp)
  BY InRun
<1>2. /\ p \in Nat /\ p + EntryLen(program, p) \in 0 .. Len(program)
      /\ ~ loaded => /\ p + EntryLen(program, p) \in Places(program)
                     /\ FindLine(program, LineNumber(program, p)) = p
  BY <1>1, EntryAhead
<1>3. LineNumber(program, p) \in Int
  <2>1. /\ Len(program) \in Nat /\ program \in Seq(Nat) /\ Len(program) = ProgramLen(program) + 2
        /\ p < ProgramLen(program) /\ ProgramLen(program) \in Nat
    BY <1>1, KeptFacts DEF Stands
  <2>2. p + 1 \in 1 .. Len(program) /\ p + 1 + 1 \in 1 .. Len(program)
    BY <1>2, <2>1
  <2>3. Cell(program, p) \in Nat /\ Cell(program, p + 1) \in Nat
    BY <2>1, <2>2, ElementOfSeq DEF Cell
  <2>4. QED BY <2>3 DEF LineNumber
<1>4. Leads(program, "run", loaded, LineNumber(program, p), p + EntryLen(program, p))
  BY <1>2 DEF Leads
<1>5. Len(program) \in Nat
  BY <1>1, KeptFacts
<1>6. QED BY <1>2, <1>3, <1>4, <1>5

LEMMA GosubKept ==
    ASSUME IInv, Gosub
    PROVE  IInv'
<1> DEFINE G == GosubFrames(program, "run", loaded)
           g == [ret |-> p + EntryLen(program, p), line |-> LineNumber(program, p)]
<1>1. /\ mode = "run" /\ program' = program /\ loaded' = loaded /\ typed' = typed
      /\ saved' = saved /\ forStack' = forStack
  BY DEF Gosub, Executing, NoEdit
<1>2. /\ Kept(program) /\ loaded \in BOOLEAN
      /\ forStack \in Seq(ForFrames(program, "run", loaded)) /\ Len(forStack) <= FOR_STACK_MAX
      /\ gosubStack \in Seq(G) /\ Len(gosubStack) <= GOSUB_STACK_MAX /\ Len(gosubStack) \in Nat
  BY <1>1, InRun, LenProperties
<1>3. g \in G
  BY <1>1, PushLeads DEF GosubFrames, GosubFrame
<1>4. CASE Len(gosubStack) >= GOSUB_STACK_MAX
  <2>1. Stop /\ gosubStack' = gosubStack
    BY <1>4 DEF Gosub
  <2>2. QED BY <1>1, <1>2, <2>1, Stopped, RunStep
<1>5. CASE ~ Len(gosubStack) >= GOSUB_STACK_MAX
  <2>1. gosubStack' = Append(gosubStack, g) /\ JumpTo(S.ln)
    BY <1>5 DEF Gosub
  <2>2. Lands(program, loaded)
    BY <1>2, <2>1, JumpStands
  <2> HIDE DEF G, g
  <2>3. gosubStack' \in Seq(G) /\ Len(gosubStack') = Len(gosubStack) + 1
    BY <1>2, <1>3, <2>1, AppendProperties
  <2>4. Len(gosubStack') <= GOSUB_STACK_MAX
    BY <1>2, <1>5, <2>3, StackAssumption
  <2>5. QED BY <1>1, <1>2, <2>2, <2>3, <2>4, RunStep DEF G
<1>6. QED BY <1>4, <1>5

LEMMA ReturnKept ==
    ASSUME IInv, Return
    PROVE  IInv'
<1> DEFINE G == GosubFrames(program, "run", loaded)
           r == Last(gosubStack)
<1>1. /\ mode = "run" /\ program' = program /\ loaded' = loaded /\ typed' = typed
      /\ saved' = saved /\ forStack' = forStack
  BY DEF Return, Executing, NoEdit
<1>2. /\ Kept(program) /\ loaded \in BOOLEAN
      /\ forStack \in Seq(ForFrames(program, "run", loaded)) /\ Len(forStack) <= FOR_STACK_MAX
      /\ gosubStack \in Seq(G) /\ Len(gosubStack) <= GOSUB_STACK_MAX
  BY <1>1, InRun
<1>3. CASE gosubStack = <<>>
  <2>1. Stop /\ gosubStack' = gosubStack
    BY <1>3 DEF Return
  <2>2. QED BY <1>1, <1>2, <2>1, Stopped, RunStep
<1>4. CASE gosubStack # <<>>
  <2>1. gosubStack' = Front(gosubStack) /\ GoOn(program, r.ret)
    BY <1>4 DEF Return
  <2>2. /\ r \in G /\ gosubStack' \in Seq(G) /\ Len(gosubStack) \in Nat
        /\ Len(gosubStack') = Len(gosubStack) - 1
    <3> HIDE DEF G
    <3>1. QED BY <1>2, <1>4, <2>1, FrontIs
  <2>3. Leads(program, "run", loaded, r.line, r.ret)
    BY <2>2 DEF GosubFrames
  <2> HIDE DEF r, G
  <2>4. r.ret \in Nat /\ (~ loaded => r.ret \in Places(program))
    <3>1. Len(program) \in Nat
      BY <1>2, KeptFacts
    <3>2. QED BY <2>3, <3>1 DEF Leads
  <2>5. Lands(program, loaded)
    BY <1>2, <2>1, <2>4, GoOnStands
  <2>6. Len(gosubStack') <= GOSUB_STACK_MAX
    BY <1>2, <2>2, StackAssumption
  <2>7. QED BY <1>1, <1>2, <2>2, <2>5, <2>6, RunStep DEF G
<1>5. QED BY <1>3, <1>4

LEMMA ForKept ==
    ASSUME IInv, For
    PROVE  IInv'
<1> DEFINE F == ForFrames(program, "run", loaded)
           c == Cell(program, stp)
           b == p + EntryLen(program, p)
           ln == LineNumber(program, p)
           f == [cur |-> Stmt[c].start, start |-> Stmt[c].start, limit |-> Stmt[c].limit,
                 step |-> Stmt[c].step, body |-> b, line |-> ln]
<1>1. /\ mode = "run" /\ program' = program /\ loaded' = loaded /\ typed' = typed
      /\ saved' = saved /\ gosubStack' = gosubStack
      /\ c # 0 /\ c \in DOMAIN Stmt /\ Stmt[c].op = "for"
  BY SomeStatement DEF For, NoEdit, S
<1>2. /\ Kept(program) /\ loaded \in BOOLEAN
      /\ forStack \in Seq(F) /\ Len(forStack) <= FOR_STACK_MAX /\ Len(forStack) \in Nat
      /\ gosubStack \in Seq(GosubFrames(program, "run", loaded))
      /\ Len(gosubStack) <= GOSUB_STACK_MAX
  BY <1>1, InRun, LenProperties
<1>3. CASE Len(forStack) >= FOR_STACK_MAX
  <2>1. Stop /\ forStack' = forStack
    BY <1>3 DEF For
  <2>2. QED BY <1>1, <1>2, <2>1, Stopped, RunStep
<1>4. CASE ~ Len(forStack) >= FOR_STACK_MAX
  <2>1. forStack' = Append(forStack, f) /\ Continue
    BY <1>4 DEF For, S
  <2>2. b \in Int /\ ln \in Int /\ Leads(program, "run", loaded, ln, b)
    BY <1>1, PushLeads
  <2>3. Lands(program, loaded)
    BY <1>1, <2>1, ContinueStands
  <2> HIDE DEF b, ln, c
  <2>4. f \in ForFrame /\ Within(f) /\ f.body = b /\ f.line = ln
    BY <1>1, <2>2, PushedFor
  <2>5. f \in F
    BY <2>2, <2>4 DEF ForFrames
  <2> HIDE DEF F, f
  <2>6. forStack' \in Seq(F) /\ Len(forStack') = Len(forStack) + 1
    BY <1>2, <2>1, <2>5, AppendProperties
  <2>7. Len(forStack') <= FOR_STACK_MAX
    BY <1>2, <1>4, <2>6, StackAssumption
  <2>8. QED BY <1>1, <1>2, <2>3, <2>6, <2>7, RunStep DEF F
<1>5. QED BY <1>3, <1>4

LEMMA NextForKept ==
    ASSUME IInv, NextFor
    PROVE  IInv'
<1> DEFINE F == ForFrames(program, "run", loaded)
           f == Last(forStack)
           c == Wrap(f.cur + f.step)
<1>1. /\ mode = "run" /\ program' = program /\ loaded' = loaded /\ typed' = typed
      /\ saved' = saved /\ gosubStack' = gosubStack /\ Cell(program, stp) # 0
  BY SomeStatement DEF NextFor, NoEdit
<1>2. /\ Kept(program) /\ loaded \in BOOLEAN
      /\ forStack \in Seq(F) /\ Len(forStack) <= FOR_STACK_MAX
      /\ gosubStack \in Seq(GosubFrames(program, "run", loaded))
      /\ Len(gosubStack) <= GOSUB_STACK_MAX
  BY <1>1, InRun
<1>3. CASE forStack = <<>>
  <2>1. Stop /\ forStack' = forStack
    BY <1>3 DEF NextFor
  <2>2. QED BY <1>1, <1>2, <2>1, Stopped, RunStep
<1>4. CASE forStack # <<>>
  <2>1. IF GoesRound(f, c)
        THEN forStack' = [forStack EXCEPT ![Len(forStack)].cur = c] /\ GoOn(program, f.body)
        ELSE forStack' = Front(forStack) /\ Continue
    BY <1>4 DEF NextFor
  <2>2. f \in F /\ Front(forStack) \in Seq(F) /\ Len(forStack) \in Nat
        /\ Len(Front(forStack)) = Len(forStack) - 1
    <3> HIDE DEF F
    <3>1. QED BY <1>2, <1>4, FrontIs
  <2>3. CASE GoesRound(f, c)
    <3>1. forStack' \in Seq(F) /\ Len(forStack') = Len(forStack)
      BY <1>2, <1>4, <2>1, <2>3, RoundStack, SMTT(30)
    <3>2. f.body \in Nat /\ (~ loaded => f.body \in Places(program))
      <4>1. Leads(program, "run", loaded, f.line, f.body)
        BY <2>2 DEF ForFrames
      <4> HIDE DEF f
      <4>2. Len(program) \in Nat
        BY <1>2, KeptFacts
      <4>3. QED BY <4>1, <4>2 DEF Leads
    <3>3. Lands(program, loaded)
      BY <1>2, <2>1, <2>3, <3>2, GoOnStands
    <3>4. QED BY <1>1, <1>2, <3>1, <3>3, RunStep
  <2>4. CASE ~ GoesRound(f, c)
    <3>1. forStack' = Front(forStack) /\ Lands(program, loaded)
      BY <1>1, <2>1, <2>4, ContinueStands
    <3>2. Len(forStack') <= FOR_STACK_MAX
      BY <1>2, <2>2, <3>1, StackAssumption
    <3>3. QED BY <1>1, <1>2, <2>2, <3>1, <3>2, RunStep
  <2>5. QED BY <2>3, <2>4
<1>5. QED BY <1>3, <1>4

\* A step of a program that replaces the program and empties the stacks.
LEMMA ReplacedKept ==
    ASSUME IInv, mode = "run", typed' = typed, Kept(program'), saved' = saved,
           loaded' \in BOOLEAN, Lands(program', loaded'), forStack' = <<>>, gosubStack' = <<>>
    PROVE  IInv'
<1>1. Control'
  BY DEF Lands, Control
<1>2. Stacks'
  BY EmptyStacks DEF Stacks
<1>3. Programs'
  BY InRun DEF Programs
<1>4. QED BY <1>1, <1>2, <1>3 DEF IInv

LEMMA NewKept ==
    ASSUME IInv, New
    PROVE  IInv'
<1>1. /\ mode = "run" /\ typed' = typed /\ saved' = saved /\ loaded' = loaded
      /\ program' = EmptyProgram /\ forStack' = <<>> /\ gosubStack' = <<>> /\ Stop
  BY DEF New, Executing, Erase
<1>2. loaded \in BOOLEAN
  BY <1>1, InRun
<1>3. QED BY <1>1, <1>2, EmptyKept, Stopped, ReplacedKept

\* LOAD in a program may leave the interpreter anywhere in the text that was saved.
LEMMA LoadKept ==
    ASSUME IInv, LoadStatement
    PROVE  IInv'
<1>1. mode = "run" /\ typed' = typed /\ saved' = saved /\ Cell(program, stp) # 0
  BY SomeStatement DEF LoadStatement
<1>2. /\ Kept(program) /\ (saved = NotSaved \/ Kept(saved)) /\ loaded \in BOOLEAN
      /\ Stands(program, loaded, p, stp)
      /\ forStack \in Seq(ForFrames(program, "run", loaded)) /\ Len(forStack) <= FOR_STACK_MAX
      /\ gosubStack \in Seq(GosubFrames(program, "run", loaded))
      /\ Len(gosubStack) <= GOSUB_STACK_MAX
  BY <1>1, InRun
<1>3. CASE saved = NotSaved
  <2>1. /\ Continue /\ program' = program /\ loaded' = loaded
        /\ forStack' = forStack /\ gosubStack' = gosubStack
    BY <1>3 DEF LoadStatement, stacks
  <2>2. QED BY <1>1, <1>2, <2>1, ContinueStands, RunStep
<1>4. CASE saved # NotSaved
  <2>1. /\ program' = saved /\ forStack' = <<>> /\ gosubStack' = <<>> /\ loaded' = TRUE
        /\ \/ /\ stp + 1 < Len(saved) /\ Cell(saved, stp + 1) # 0
              /\ stp' = stp + 1 /\ mode' = mode /\ p' = p
           \/ GoOn(saved, NextLine(saved))
    BY <1>4 DEF LoadStatement, Load
  <2>2. /\ Kept(saved) /\ saved \in Seq(Nat) /\ Len(saved) \in Nat /\ Len(saved) >= 2
        /\ ProgramLen(saved) \in Nat /\ Len(saved) = ProgramLen(saved) + 2
    BY <1>2, <1>4, KeptFacts
  <2>3. p \in Nat /\ stp \in Nat /\ p + 2 <= stp
    BY <1>2 DEF Stands
  <2>4. TRUE \in BOOLEAN /\ loaded' \in BOOLEAN
    BY <2>1, Zenon
  <2>5. Lands(saved, TRUE)
    <3>1. CASE /\ stp + 1 < Len(saved) /\ Cell(saved, stp + 1) # 0
               /\ stp' = stp + 1 /\ mode' = mode /\ p' = p
      <4>2. stp + 1 <= Len(saved) - 1 /\ p < ProgramLen(saved) /\ p + 2 <= stp + 1
        BY <2>2, <2>3, <3>1
      <4>3. Stands(saved, TRUE, p, stp + 1)
        BY <2>2, <2>3, <4>2 DEF Stands
      <4>4. mode' = "run" /\ p' = p /\ stp' = stp + 1 /\ stp + 1 \in Nat
        BY <1>1, <2>3, <3>1
      <4>5. Stands(saved, TRUE, p', stp')
        BY <4>3, <4>4
      <4>6. QED BY <2>3, <4>4, <4>5 DEF Lands
    <3>2. CASE GoOn(saved, NextLine(saved))
      <4>1. NextLine(saved) \in Nat
        <5>1. CASE p < ProgramLen(saved)
          <6>1. p + EntryLen(saved, p) \in 0 .. Len(saved)
            BY <2>2, <2>3, <5>1, EndExists
          <6>2. QED BY <2>2, <5>1, <6>1 DEF NextLine
        <5>2. CASE ~ p < ProgramLen(saved)
          BY <2>3, <5>2 DEF NextLine
        <5>3. QED BY <5>1, <5>2
      <4>2. QED BY <2>2, <2>4, <3>2, <4>1, GoOnStands
    <3>3. QED BY <2>1, <3>1, <3>2
  <2>6. QED BY <1>1, <2>1, <2>2, <2>4, <2>5, ReplacedKept
<1>5. QED BY <1>3, <1>4

-----------------------------------------------------------------------------
LEMMA Inductive ==
    ASSUME IInv, [Next]_vars
    PROVE  IInv'
<1>1. CASE UserTypes
  <2>1. CASE \E ln \in Number, text \in Text \cup {<<>>} : Enter(ln, text)
    BY <2>1, EnterKept
  <2>2. CASE Run \/ NewTyped \/ SaveTyped \/ LoadTyped
    BY <2>2, RunKept, CommandKept
  <2>3. CASE \E c \in Direct : Immediate(Stmt[c])
    BY <2>3, ImmediateKept
  <2>4. QED BY <1>1, <2>1, <2>2, <2>3 DEF UserTypes
<1>2. CASE Runs
  <2>1. CASE NoStatement \/ Break \/ End \/ Plain \/ Goto \/ IfLine \/ Save
    BY <2>1, StatementKept
  <2>2. CASE Gosub \/ Return \/ For \/ NextFor
    BY <2>2, GosubKept, ReturnKept, ForKept, NextForKept
  <2>3. CASE New \/ LoadStatement
    BY <2>3, NewKept, LoadKept
  <2>4. QED BY <1>2, <2>1, <2>2, <2>3 DEF Runs
<1>3. CASE UNCHANGED vars
  BY <1>3, StutterKept
<1>4. QED BY <1>1, <1>2, <1>3 DEF Next

THEOREM Invariant == Spec => []IInv
<1>1. Init => IInv
  BY InitKept
<1>2. IInv /\ [Next]_vars => IInv'
  BY Inductive
<1>3. QED BY <1>1, <1>2, PTL DEF Spec

\* The stacks stay in their arrays, and everything has its type.
THEOREM TypeCorrect == Spec => []TypeOK
<1>1. IInv => TypeOK
  <2>1. SUFFICES ASSUME IInv PROVE TypeOK
    OBVIOUS
  <2>2. /\ mode \in {"prompt", "run"} /\ p \in Nat /\ stp \in Nat
        /\ loaded \in BOOLEAN /\ typed \in 0 .. MaxTyped
        /\ Len(forStack) <= FOR_STACK_MAX /\ Len(gosubStack) <= GOSUB_STACK_MAX
    BY <2>1 DEF IInv, Control, Stacks
  <2>3. \A i \in DOMAIN forStack : forStack[i] \in ForFrame
    <3>1. forStack \in Seq(ForFrames(program, mode, loaded))
      BY <2>1 DEF IInv, Stacks
    <3>2. \A i \in DOMAIN forStack : forStack[i] \in ForFrames(program, mode, loaded)
      BY <3>1, ElementOfSeq, LenProperties
    <3>3. QED BY <3>2 DEF ForFrames
  <2>4. \A i \in DOMAIN gosubStack : gosubStack[i] \in GosubFrame
    <3>1. gosubStack \in Seq(GosubFrames(program, mode, loaded))
      BY <2>1 DEF IInv, Stacks
    <3>2. \A i \in DOMAIN gosubStack : gosubStack[i] \in GosubFrames(program, mode, loaded)
      BY <3>1, ElementOfSeq, LenProperties
    <3>3. QED BY <3>2 DEF GosubFrames
  <2>5. QED BY <2>2, <2>3, <2>4 DEF TypeOK
<1>2. QED BY <1>1, Invariant, PTL

\* Whatever is entered, replaced, refused, removed, saved or loaded, the program and the saved
\* copy are lines in ascending order, each with a text, within PROGRAM_SIZE (store_line,
\* do_save, do_load, do_new).
THEOREM KeepsForm == Spec => []ProgramWellFormed
<1>1. IInv => ProgramWellFormed
  BY KeptFormed DEF IInv, Programs, ProgramWellFormed
<1>2. QED BY <1>1, Invariant, PTL

\* Unless LOAD has replaced the program in this run, the interpreter stands at a line
\* of it, at one of its statements, and every frame of GOSUB and FOR leads to the line
\* behind the one that pushed it (do_run, do_gosub, do_for).
THEOREM StaysOnLines == Spec => []ControlInProgram
<1>1. IInv => ControlInProgram
  <2>1. SUFFICES ASSUME IInv, mode = "run", ~ loaded PROVE ControlInProgram
    BY DEF ControlInProgram
  <2>2. /\ Stands(program, loaded, p, stp) /\ Kept(program)
        /\ forStack \in Seq(ForFrames(program, "run", loaded))
        /\ gosubStack \in Seq(GosubFrames(program, "run", loaded))
    BY <2>1, InRun
  <2>3. p \in LineStarts(program) /\ stp \in (p + 2)..(p + EntryLen(program, p) - 2)
    <3>1. /\ p \in LineStarts(program) /\ p \in Nat /\ stp \in Nat /\ p + 2 <= stp
          /\ stp <= p + EntryLen(program, p) - 2
      BY <2>1, <2>2 DEF Stands
    <3>2. EntryLen(program, p) \in Nat
      BY <2>2, <3>1, KeptFacts
    <3>3. QED BY <3>1, <3>2
  <2> DEFINE Behind(ln) == FindLine(program, ln) + EntryLen(program, FindLine(program, ln))
  <2>4. \A i \in DOMAIN gosubStack : gosubStack[i].ret = Behind(gosubStack[i].line)
    <3>1. \A i \in DOMAIN gosubStack : gosubStack[i] \in GosubFrames(program, "run", loaded)
      BY <2>2, ElementOfSeq, LenProperties
    <3>2. QED BY <2>1, <3>1 DEF GosubFrames, Leads
  <2>5. \A i \in DOMAIN forStack : forStack[i].body = Behind(forStack[i].line)
    <3>1. \A i \in DOMAIN forStack : forStack[i] \in ForFrames(program, "run", loaded)
      BY <2>2, ElementOfSeq, LenProperties
    <3>2. QED BY <2>1, <3>1 DEF ForFrames, Leads
  <2>6. QED BY <2>3, <2>4, <2>5 DEF ControlInProgram
<1>2. QED BY <1>1, Invariant, PTL

\* A loop's counter is its start or within its limit, wherever start and limit leave
\* room for a step: the wrap of an int then never makes do_next go on.
THEOREM LoopsWithin == Spec => []LoopWithinLimit
<1>1. IInv => LoopWithinLimit
  <2>1. SUFFICES ASSUME IInv PROVE LoopWithinLimit
    OBVIOUS
  <2>2. forStack \in Seq(ForFrames(program, mode, loaded))
    BY <2>1 DEF IInv, Stacks
  <2>3. \A i \in DOMAIN forStack : forStack[i] \in ForFrames(program, mode, loaded)
    BY <2>2, ElementOfSeq, LenProperties
  <2>4. QED BY <2>3 DEF ForFrames, Within, LoopWithinLimit
<1>2. QED BY <1>1, Invariant, PTL

-----------------------------------------------------------------------------
(* The lines as LineStore has them.                                         *)

\* The functions that add up the sizes of the lines f.
AddsUp(f, g) ==
    g = [s \in SUBSET DOMAIN f |->
            IF s = {} THEN 0
            ELSE Abstract!Size(f[CHOOSE x \in s : TRUE]) + g[s \ {CHOOSE x \in s : TRUE}]]

\* Each line of f has a part of its size, and no two parts meet.
Parted(f, B, N) ==
    /\ IsFiniteSet(DOMAIN f) /\ N \in Nat
    /\ \A n \in DOMAIN f : B[n] \in SUBSET (0 .. N) /\ Cardinality(B[n]) = Abstract!Size(f[n])
    /\ \A m, n \in DOMAIN f : m # n => B[m] \cap B[n] = {}

\* The size of all lines is that of their parts together.
LEMMA SumOfParts ==
    ASSUME NEW f, NEW B, NEW N, Parted(f, B, N)
    PROVE  Abstract!Used(f) = Cardinality(UNION {B[n] : n \in DOMAIN f})
<1> DEFINE D == DOMAIN f
           pick(s) == CHOOSE x \in s : TRUE
           all(s) == UNION {B[n] : n \in s}
           h == [s \in SUBSET D |-> Cardinality(all(s))]
<1>1. /\ IsFiniteSet(D) /\ N \in Nat
      /\ \A n \in D : B[n] \in SUBSET (0 .. N) /\ Cardinality(B[n]) = Abstract!Size(f[n])
      /\ \A m, n \in D : m # n => B[m] \cap B[n] = {}
  BY DEF Parted
<1>p. \A s : s # {} => pick(s) \in s
  OBVIOUS
<1> HIDE DEF D, pick, all
<1>2. ASSUME NEW s \in SUBSET D PROVE IsFiniteSet(all(s))
  <2>1. all(s) \in SUBSET (0 .. N)
    BY <1>1 DEF all
  <2>2. IsFiniteSet(0 .. N)
    BY <1>1, FS_Interval
  <2>3. QED BY <2>1, <2>2, FS_Subset
<1>3. ASSUME NEW s \in SUBSET D, s # {}
      PROVE  Cardinality(all(s)) = Abstract!Size(f[pick(s)]) + Cardinality(all(s \ {pick(s)}))
  <2> DEFINE x == pick(s)
             t == s \ {x}
  <2>1. x \in s /\ x \in D /\ t \in SUBSET D
    BY <1>3, <1>p
  <2> HIDE DEF x
  <2>2. all(s) = B[x] \cup all(t)
    BY <2>1 DEF all
  <2>3. B[x] \cap all(t) = {}
    BY <1>1, <2>1 DEF all
  <2>5. IsFiniteSet(all(t))
    BY <1>2, <2>1
  <2>6. IsFiniteSet(B[x])
    <3>1. IsFiniteSet(0 .. N)
      BY <1>1, FS_Interval
    <3>2. B[x] \in SUBSET (0 .. N)
      BY <1>1, <2>1
    <3>3. QED BY <3>1, <3>2, FS_Subset
  <2> HIDE DEF t
  <2>7. Cardinality(B[x] \cup all(t)) = Cardinality(B[x]) + Cardinality(all(t)) - Cardinality(B[x] \cap all(t))
    BY <2>5, <2>6, FS_Union
  <2>8. Cardinality(B[x]) \in Nat /\ Cardinality(all(t)) \in Nat /\ Cardinality(B[x] \cap all(t)) = 0
    BY <2>3, <2>5, <2>6, FS_CardinalityType, FS_EmptySet
  <2>9. Cardinality(all(s)) = Cardinality(B[x]) + Cardinality(all(t))
    BY <2>2, <2>7, <2>8
  <2>10. QED BY <1>1, <2>1, <2>9 DEF x, t
<1>4. AddsUp(f, h)
  <2>1. \A s \in SUBSET D : h[s] = Cardinality(all(s))
    OBVIOUS
  <2>2. Cardinality(all({})) = 0
    <3>1. all({}) = {}
      BY DEF all
    <3>2. QED BY <3>1, FS_EmptySet
  <2>3. ASSUME NEW s \in SUBSET D
        PROVE  h[s] = IF s = {} THEN 0 ELSE Abstract!Size(f[pick(s)]) + h[s \ {pick(s)}]
    <3>1. s \ {pick(s)} \in SUBSET D
      OBVIOUS
    <3>2. QED BY <1>3, <2>1, <2>2, <3>1
  <2>4. h = [s \in SUBSET D |-> h[s]]
    OBVIOUS
  <2> HIDE DEF h
  <2>5. h = [s \in SUBSET D |-> IF s = {} THEN 0 ELSE Abstract!Size(f[pick(s)]) + h[s \ {pick(s)}]]
    BY <2>3, <2>4
  <2>6. QED BY <2>5 DEF AddsUp, D, pick
<1> DEFINE g == CHOOSE u : AddsUp(f, u)
<1>5. AddsUp(f, g)
  BY <1>4, Zenon
<1>6. Abstract!Used(f) = g[D]
  BY Zenon DEF Abstract!Used, Abstract!MapThenSumSet, Abstract!MapThenFoldSet, AddsUp, D, g
<1> HIDE DEF g
<1>7. \A s \in SUBSET D : g[s] = h[s]
  <2> DEFINE R == StrictSubsetOrdering(D)
             Bad == {s \in SUBSET D : g[s] # h[s]}
  <2>1. SUFFICES ASSUME Bad # {} PROVE FALSE
    OBVIOUS
  <2>2. Bad \subseteq FiniteSubsetsOf(D)
    BY <1>1, FS_Subset DEF FiniteSubsetsOf
  <2>3. IsWellFoundedOn(R, FiniteSubsetsOf(D))
    BY FS_StrictSubsetOrderingWellFounded
  <2> HIDE DEF R, Bad
  <2>4. PICK s \in Bad : \A t \in Bad : <<t, s>> \notin R
    BY <2>1, <2>2, <2>3, WFMin
  <2>5. s \in SUBSET D /\ g[s] # h[s]
    BY <2>4 DEF Bad
  <2> HIDE DEF h
  <2>e. \A u : AddsUp(f, u) =>
            u[s] = IF s = {} THEN 0 ELSE Abstract!Size(f[pick(s)]) + u[s \ {pick(s)}]
    BY <2>5 DEF AddsUp, D, pick
  <2>6. s # {}
    BY <1>4, <1>5, <2>5, <2>e
  <2>7. g[s \ {pick(s)}] # h[s \ {pick(s)}]
    BY <1>4, <1>5, <2>5, <2>6, <2>e
  <2> DEFINE t == s \ {pick(s)}
  <2>8. t \in Bad
    BY <2>5, <2>7 DEF Bad
  <2>9. <<t, s>> \in R
    <3>1. pick(s) \in s
      BY <1>p, <2>6
    <3>2. t \subseteq s /\ t # s /\ t \in SUBSET D
      BY <2>5, <3>1
    <3> HIDE DEF t
    <3>3. QED BY <2>5, <3>2, Zenon DEF R, StrictSubsetOrdering
  <2>10. QED BY <2>4, <2>8, <2>9
<1>8. g[D] = Cardinality(all(D))
  BY <1>7
<1>9. QED BY <1>6, <1>8 DEF all, D
LEMMA LinesAre ==
    ASSUME NEW prog, NEW T, Walk(prog, T)
    PROVE  LET f == LinesOf(prog)
               starts == LineStarts(prog)
           IN  /\ f = [n \in DOMAIN f |-> f[n]]
               /\ DOMAIN f = {LineNumber(prog, a) : a \in starts}
               /\ \A a \in starts : f[LineNumber(prog, a)] = TextAt(prog, a)
<1> DEFINE f == LinesOf(prog)
           starts == LineStarts(prog)
           lineOf(n) == CHOOSE a \in starts : LineNumber(prog, a) = n
<1>1. starts = T \ {ProgramLen(prog)}
  BY StartsAre
<1>2. f = [n \in {LineNumber(prog, a) : a \in starts} |-> TextAt(prog, lineOf(n))]
  BY Zenon DEF LinesOf
<1> HIDE DEF f, starts
<1>3. /\ \A a \in starts : a \in Nat /\ LineNumber(prog, a) \in Nat
      /\ \A a, b \in starts : a < b => LineNumber(prog, a) < LineNumber(prog, b)
  <2>1. /\ ProgramLen(prog) \in Nat
        /\ \A a \in T : a \in Nat /\ a <= ProgramLen(prog)
        /\ \A a \in T : a < ProgramLen(prog) => LineNumber(prog, a) \in Nat
        /\ \A a, b \in T : a < b /\ b < ProgramLen(prog) => LineNumber(prog, a) < LineNumber(prog, b)
    BY WalkFacts
  <2>2. QED BY <1>1, <2>1
<1>4. ASSUME NEW a \in starts PROVE lineOf(LineNumber(prog, a)) = a
  <2>1. lineOf(LineNumber(prog, a)) \in starts /\ LineNumber(prog, lineOf(LineNumber(prog, a))) = LineNumber(prog, a)
    BY Zenon
  <2> HIDE DEF lineOf
  <2>2. QED BY <1>3, <2>1
<1> HIDE DEF lineOf
<1>5. f = [n \in DOMAIN f |-> f[n]] /\ DOMAIN f = {LineNumber(prog, a) : a \in starts}
  BY <1>2
<1>6. \A a \in starts : f[LineNumber(prog, a)] = TextAt(prog, a)
  BY <1>2, <1>4
<1>7. QED BY <1>5, <1>6 DEF f, starts

\* The lines of a program that is kept.
LEMMA LinesOfKept ==
    ASSUME NEW prog, Kept(prog)
    PROVE  LET f == LinesOf(prog)
           IN  /\ f = [n \in DOMAIN f |-> f[n]]
               /\ DOMAIN f = {r[1] : r \in LineSet(prog)}
               /\ \A r \in LineSet(prog) : f[r[1]] = r[2]
<1> DEFINE f == LinesOf(prog)
           T == Places(prog)
           R == LineSet(prog)
           starts == LineStarts(prog)
<1>1. Walk(prog, T)
  BY DEF Kept
<1>2. /\ f = [n \in DOMAIN f |-> f[n]]
      /\ DOMAIN f = {LineNumber(prog, a) : a \in starts}
      /\ \A a \in starts : f[LineNumber(prog, a)] = TextAt(prog, a)
  BY <1>1, LinesAre
<1>3. starts = {c \in T : c < ProgramLen(prog)}
  <2> HIDE DEF T, starts
  <2>1. ProgramLen(prog) \in Nat /\ \A a \in T : a \in Nat /\ a <= ProgramLen(prog)
    BY <1>1, WalkFacts
  <2>2. starts = T \ {ProgramLen(prog)}
    BY <1>1, StartsAre DEF starts
  <2>3. QED BY <2>1, <2>2
<1>4. R = {<<LineNumber(prog, a), TextAt(prog, a)>> : a \in starts}
  <2> HIDE DEF starts
  <2>1. QED BY <1>3 DEF LineSet, LinesAt
<1> HIDE DEF f, starts, T, R
<1>5. DOMAIN f = {r[1] : r \in R}
  <2>1. ASSUME NEW n \in DOMAIN f PROVE n \in {r[1] : r \in R}
    <3>1. PICK a \in starts : n = LineNumber(prog, a)
      BY <1>2
    <3>2. <<LineNumber(prog, a), TextAt(prog, a)>> \in R
      BY <1>4
    <3>3. QED BY <3>1, <3>2
  <2>2. ASSUME NEW r \in R PROVE r[1] \in DOMAIN f
    BY <1>2, <1>4
  <2>3. QED BY <2>1, <2>2
<1>6. \A r \in R : f[r[1]] = r[2]
  BY <1>2, <1>4
<1>7. QED BY <1>2, <1>5, <1>6 DEF f, R

LEMMA SameFunction ==
    ASSUME NEW f, NEW g, f = [n \in DOMAIN f |-> f[n]], g = [n \in DOMAIN g |-> g[n]],
           DOMAIN f = DOMAIN g, \A n \in DOMAIN f : f[n] = g[n]
    PROVE  f = g
OBVIOUS

\* A line less, or a line with another text.
LEMMA LineGone ==
    ASSUME NEW prog, Kept(prog), NEW q, Kept(q), NEW ln, LineSet(q) = OtherLines(prog, ln)
    PROVE  LinesOf(q) = Abstract!Without(LinesOf(prog), ln)
<1> DEFINE f == LinesOf(prog)
           g == LinesOf(q)
           h == Abstract!Without(f, ln)
           R == LineSet(prog)
<1>1. /\ f = [n \in DOMAIN f |-> f[n]] /\ DOMAIN f = {r[1] : r \in R} /\ \A r \in R : f[r[1]] = r[2]
  BY LinesOfKept
<1>2. /\ g = [n \in DOMAIN g |-> g[n]]
      /\ DOMAIN g = {r[1] : r \in LineSet(q)} /\ \A r \in LineSet(q) : g[r[1]] = r[2]
  BY LinesOfKept
<1>3. LineSet(q) = {r \in R : r[1] # ln}
  BY DEF OtherLines
<1> HIDE DEF f, g, R
<1>4. /\ h = [n \in DOMAIN h |-> h[n]] /\ DOMAIN h = DOMAIN f \ {ln}
      /\ \A n \in DOMAIN h : h[n] = f[n]
  BY DEF Abstract!Without
<1> HIDE DEF h
<1>5. DOMAIN g = DOMAIN h
  BY <1>1, <1>2, <1>3, <1>4
<1>6. ASSUME NEW n \in DOMAIN g PROVE g[n] = h[n]
  <2>1. PICK r \in LineSet(q) : n = r[1]
    BY <1>2
  <2>2. g[n] = r[2] /\ f[n] = r[2] /\ n \in DOMAIN h
    BY <1>1, <1>2, <1>3, <1>5, <2>1
  <2>3. QED BY <1>4, <2>2
<1>7. g = h
  BY <1>2, <1>4, <1>5, <1>6, SameFunction
<1>8. QED BY <1>7 DEF f, g, h

LEMMA LinePut ==
    ASSUME NEW prog, Kept(prog), NEW q, Kept(q), NEW ln, NEW text,
           LineSet(q) = OtherLines(prog, ln) \cup {<<ln, text>>}
    PROVE  LinesOf(q) = Abstract!With(LinesOf(prog), ln, text)
           /\ ln \in DOMAIN LinesOf(q) /\ LinesOf(q)[ln] = text
<1> DEFINE f == LinesOf(prog)
           g == LinesOf(q)
           h == Abstract!With(f, ln, text)
           R == LineSet(prog)
<1>1. /\ f = [n \in DOMAIN f |-> f[n]] /\ DOMAIN f = {r[1] : r \in R} /\ \A r \in R : f[r[1]] = r[2]
  BY LinesOfKept
<1>2. /\ g = [n \in DOMAIN g |-> g[n]]
      /\ DOMAIN g = {r[1] : r \in LineSet(q)} /\ \A r \in LineSet(q) : g[r[1]] = r[2]
  BY LinesOfKept
<1>3. LineSet(q) = {r \in R : r[1] # ln} \cup {<<ln, text>>}
  BY DEF OtherLines
<1> HIDE DEF f, g, R
<1>4. /\ h = [n \in DOMAIN h |-> h[n]] /\ DOMAIN h = DOMAIN f \cup {ln}
      /\ \A n \in DOMAIN h : h[n] = IF n = ln THEN text ELSE f[n]
  BY DEF Abstract!With
<1> HIDE DEF h
<1>5. DOMAIN g = DOMAIN h
  <2>1. ASSUME NEW n \in DOMAIN g PROVE n \in DOMAIN h
    BY <1>1, <1>2, <1>3, <1>4
  <2>2. ASSUME NEW n \in DOMAIN h PROVE n \in DOMAIN g
    <3>1. CASE n = ln
      <4>1. <<ln, text>> \in LineSet(q) /\ <<ln, text>>[1] = ln
        BY <1>3
      <4>2. QED BY <1>2, <3>1, <4>1
    <3>2. CASE n # ln
      <4>1. PICK r \in R : r[1] = n
        BY <1>1, <1>4, <3>2
      <4>2. QED BY <1>2, <1>3, <3>2, <4>1
    <3>3. QED BY <3>1, <3>2
  <2>3. QED BY <2>1, <2>2
<1>6. ASSUME NEW n \in DOMAIN g PROVE g[n] = h[n]
  <2>1. PICK r \in LineSet(q) : n = r[1]
    BY <1>2
  <2>2. g[n] = r[2] /\ n \in DOMAIN h
    BY <1>2, <1>5, <2>1
  <2>3. CASE r \in R /\ r[1] # ln
    <3>1. f[n] = r[2]
      BY <1>1, <2>1, <2>3
    <3>2. QED BY <1>4, <2>1, <2>2, <2>3, <3>1
  <2>4. CASE r = <<ln, text>>
    BY <1>4, <2>1, <2>2, <2>4
  <2>5. QED BY <1>3, <2>1, <2>3, <2>4
<1>7. g = h
  BY <1>2, <1>4, <1>5, <1>6, SameFunction
<1>8. ln \in DOMAIN g /\ g[ln] = text
  BY <1>4, <1>5, <1>7
<1>9. QED BY <1>7, <1>8 DEF f, g, h

\* All lines together have the length of the program.
LEMMA UsedIs ==
    ASSUME NEW prog, Kept(prog)
    PROVE  Abstract!Used(LinesOf(prog)) = ProgramLen(prog)
<1> DEFINE f == LinesOf(prog)
           T == Places(prog)
           L == ProgramLen(prog)
           starts == LineStarts(prog)
           part(a) == a .. a + EntryLen(prog, a) - 1
           B == [n \in DOMAIN f |-> part(FindLine(prog, n))]
<1>1. Walk(prog, T)
  BY DEF Kept
<1>2. /\ DOMAIN f = {LineNumber(prog, a) : a \in starts}
      /\ \A a \in starts : f[LineNumber(prog, a)] = TextAt(prog, a)
  BY <1>1, LinesAre
<1> HIDE DEF T
<1>3. /\ prog \in Seq(Nat) /\ L \in Nat /\ Len(prog) = L + 2 /\ 0 \in T /\ L \in T
      /\ \A a \in T : a \in Nat /\ a <= L
      /\ \A a \in T : a < L =>
            /\ EntryLen(prog, a) \in Nat /\ EntryLen(prog, a) >= 4 /\ a + EntryLen(prog, a) \in T
            /\ \A b \in T : b > a => b >= a + EntryLen(prog, a)
  BY <1>1, WalkFacts
<1>4. starts = T \ {L}
  BY <1>1, StartsAre
<1> HIDE DEF f, starts, L
<1>5. \A a \in starts : a \in T /\ a \in Nat /\ a < L
  BY <1>3, <1>4
<1>6. ASSUME NEW a \in starts PROVE FindLine(prog, LineNumber(prog, a)) = a
  BY <1>1, <1>5, FoundByNumber DEF L
<1>7. ASSUME NEW a \in starts
      PROVE  /\ LineNumber(prog, a) \in DOMAIN f /\ B[LineNumber(prog, a)] = part(a)
             /\ part(a) \in SUBSET (0 .. L - 1)
             /\ Cardinality(part(a)) = Abstract!Size(f[LineNumber(prog, a)])
  <2>1. LineNumber(prog, a) \in DOMAIN f /\ B[LineNumber(prog, a)] = part(a)
    BY <1>2, <1>6
  <2> DEFINE n == EntryLen(prog, a)
  <2>2. a \in Nat /\ n \in Nat /\ n >= 4 /\ a + n \in T
    BY <1>3, <1>5
  <2>3. a + n <= L
    BY <1>3, <2>2
  <2>4. TextAt(prog, a) \in Seq(Nat) /\ Len(TextAt(prog, a)) = n - 3
    <3>1. a + n <= Len(prog)
      <4> HIDE DEF n
      <4>1. QED BY <1>3, <2>2, <2>3
    <3>2. QED BY <1>3, <2>2, <3>1, TextIs
  <2>5. Abstract!Size(f[LineNumber(prog, a)]) = n
    <3>1. Abstract!Size(f[LineNumber(prog, a)]) = (n - 3) + 3
      BY <1>2, <2>4 DEF Abstract!Size
    <3> HIDE DEF n
    <3>2. QED BY <2>2, <3>1
  <2>6. part(a) = a .. a + n - 1
    OBVIOUS
  <2> HIDE DEF n, part
  <2>7. part(a) \in SUBSET (0 .. L - 1)
    BY <1>3, <2>2, <2>3, <2>6
  <2>8. Cardinality(part(a)) = n
    <3>1. a \in Int /\ a + n - 1 \in Int /\ ~ a > a + n - 1 /\ (a + n - 1) - a + 1 = n
      BY <2>2
    <3>2. Cardinality(a .. a + n - 1) = IF a > a + n - 1 THEN 0 ELSE (a + n - 1) - a + 1
      BY <3>1, FS_Interval
    <3>3. QED BY <2>6, <3>1, <3>2
  <2>9. QED BY <2>1, <2>5, <2>7, <2>8
<1>8. ASSUME NEW a \in starts, NEW b \in starts, a < b PROVE part(a) \cap part(b) = {}
  <2>1. b >= a + EntryLen(prog, a) /\ EntryLen(prog, a) \in Nat
    BY <1>3, <1>5, <1>8
  <2>2. a \in Nat /\ b \in Nat
    BY <1>5
  <2>3. QED BY <2>1, <2>2
<1>p. \A a \in starts, x \in Nat : x >= a /\ x < a + EntryLen(prog, a) => x \in part(a)
  <2>1. \A a \in starts : a \in Nat /\ EntryLen(prog, a) \in Nat
    BY <1>3, <1>5
  <2>2. QED BY <2>1
<1> HIDE DEF B, part
<1>9. Parted(f, B, L)
  <2>1. \A n \in DOMAIN f : B[n] \in SUBSET (0 .. L) /\ Cardinality(B[n]) = Abstract!Size(f[n])
    <3>1. 0 .. L - 1 \subseteq 0 .. L
      BY <1>3
    <3>2. QED BY <1>2, <1>7, <3>1
  <2>2. ASSUME NEW m \in DOMAIN f, NEW n \in DOMAIN f, m # n PROVE B[m] \cap B[n] = {}
    <3>1. PICK a \in starts : m = LineNumber(prog, a)
      BY <1>2
    <3>2. PICK b \in starts : n = LineNumber(prog, b)
      BY <1>2
    <3>3. a < b \/ b < a
      BY <1>5, <2>2, <3>1, <3>2
    <3>4. part(a) \cap part(b) = {}
      BY <1>8, <3>3
    <3>5. QED BY <1>7, <3>1, <3>2, <3>4
  <2>3. IsFiniteSet(DOMAIN f)
    <3> DEFINE at == [n \in DOMAIN f |-> FindLine(prog, n)]
    <3>1. \A n \in DOMAIN f : at[n] \in 0 .. L /\ LineNumber(prog, at[n]) = n
      <4>1. \A a \in starts : a \in 0 .. L
        BY <1>3, <1>5
      <4>2. QED BY <1>2, <1>6, <4>1
    <3>2. at \in Injection(DOMAIN f, 0 .. L)
      <4>1. at \in [DOMAIN f -> 0 .. L]
        BY <3>1
      <4> HIDE DEF at
      <4>2. \A m, n \in DOMAIN f : at[m] = at[n] => m = n
        BY <3>1, Zenon
      <4>3. QED BY <4>1, <4>2 DEF Injection, IsInjective
    <3>3. IsFiniteSet(0 .. L)
      BY <1>3, FS_Interval
    <3>4. QED BY <3>2, <3>3, FS_Injection
  <2>4. QED BY <1>3, <2>1, <2>2, <2>3 DEF Parted
<1> DEFINE all == UNION {B[n] : n \in DOMAIN f}
<1>10. all = 0 .. L - 1
  <2>1. all \subseteq 0 .. L - 1
    BY <1>2, <1>7
  <2> DEFINE P == {c \in 0 .. L : c .. L - 1 \subseteq all}
  <2>2. L \in P
    BY <1>3
  <2>3. ASSUME NEW a \in T, a < L, a + EntryLen(prog, a) \in P PROVE a \in P
    <3>1. a \in starts /\ a \in Nat /\ EntryLen(prog, a) \in Nat
      <4> HIDE DEF P, all
      <4>1. a \in Nat /\ a # L
        BY <1>3, <2>3
      <4>2. EntryLen(prog, a) \in Nat
        BY <1>3, <2>3
      <4>3. a \in starts
        BY <1>4, <4>1
      <4>4. QED BY <4>1, <4>2, <4>3
    <3>2. part(a) \subseteq all
      BY <1>7, <3>1
    <3> HIDE DEF all
    <3>3. ASSUME NEW x \in a .. L - 1 PROVE x \in all
      <4>1. CASE x < a + EntryLen(prog, a)
        BY <1>p, <3>1, <3>2, <4>1
      <4>2. CASE x >= a + EntryLen(prog, a)
        <5>1. x \in a + EntryLen(prog, a) .. L - 1
          BY <1>3, <3>1, <4>2
        <5>2. QED BY <2>3, <5>1
      <4>3. QED BY <3>1, <4>1, <4>2
    <3>4. a \in 0 .. L
      BY <1>3, <2>3
    <3>5. QED BY <3>3, <3>4
  <2> HIDE DEF P, all
  <2>4. T \subseteq P
    BY <1>1, <2>2, <2>3, FromTheEnd DEF L
  <2>5. 0 .. L - 1 \subseteq all
    BY <1>3, <2>4 DEF P
  <2>6. QED BY <2>1, <2>5
<1>11. Cardinality(0 .. L - 1) = L
  BY <1>3, FS_Interval
<1>12. Abstract!Used(f) = Cardinality(all)
  BY <1>9, SumOfParts
<1> HIDE DEF all
<1>13. QED BY <1>10, <1>11, <1>12 DEF f, L

\* No lines at first and after NEW.
LEMMA NoLines == LinesOf(EmptyProgram) = Abstract!Empty
<1> DEFINE f == LinesOf(EmptyProgram)
<1>1. f = [n \in DOMAIN f |-> f[n]] /\ DOMAIN f = {r[1] : r \in LineSet(EmptyProgram)}
  BY EmptyKept, LinesOfKept
<1>2. LineSet(EmptyProgram) = {}
  <2>1. ProgramLen(EmptyProgram) = 0
    BY DEF ProgramLen, EmptyProgram
  <2>2. \A a \in Places(EmptyProgram) : a \in Nat
    BY EmptyKept, KeptFacts
  <2>3. QED BY <2>1, <2>2 DEF LineSet, LinesAt
<1> HIDE DEF f
<1>3. DOMAIN f = {} /\ DOMAIN Abstract!Empty = {} /\ Abstract!Empty = [n \in DOMAIN Abstract!Empty |-> Abstract!Empty[n]]
  BY <1>1, <1>2 DEF Abstract!Empty
<1>4. f = Abstract!Empty
  BY <1>1, <1>3, SameFunction
<1>5. QED BY <1>4 DEF f

\* A line that is entered is a line that is edited.
LEMMA EnterEdits ==
    ASSUME IInv, NEW ln \in Number, NEW text \in Text \cup {<<>>}, Enter(ln, text)
    PROVE  Abstract!Next
<1> DEFINE q == StoreLine(program, ln, text)
           r == WithoutLine(program, ln)
           others == Abstract!Without(LinesOf(program), ln)
           full == text = <<>> \/ NoRoom(r, text)
<1>1. /\ program' = q /\ saved' = saved /\ Kept(program)
      /\ command' = <<"edit", ln, text>>
  BY DEF Enter, IInv, Programs
<1>t. ln \in Numbers /\ text \in Texts \cup {<<>>} /\ text \in Seq(Nat)
  <2>1. ln \in Numbers /\ text \in Texts \cup {<<>>}
    BY Typed
  <2>2. QED BY <2>1, EmptySeq DEF Texts
<1>2. /\ Kept(q) /\ Kept(r) /\ LineSet(r) = OtherLines(program, ln)
      /\ LineSet(q) = IF full THEN OtherLines(program, ln)
                      ELSE OtherLines(program, ln) \cup {<<ln, text>>}
  BY <1>1, <1>t, StoreKept
<1>p. LinesOf(program)' = LinesOf(q)
  BY <1>1
<1> HIDE DEF q, r
<1>3. LinesOf(r) = others
  BY <1>1, <1>2, LineGone
<1>4. full <=> text = <<>> \/ Abstract!Used(others) + Abstract!Size(text) > PROGRAM_SIZE - 2
  <2>1. Abstract!Used(others) = ProgramLen(r) /\ ProgramLen(r) \in Nat
    BY <1>2, <1>3, UsedIs, KeptFacts
  <2>2. Abstract!Size(text) = Len(text) + 3 /\ Len(text) \in Nat
    BY <1>t, LenProperties DEF Abstract!Size
  <2>3. QED BY <2>1, <2>2 DEF NoRoom
<1>5. LinesOf(q) = IF full THEN others ELSE Abstract!With(others, ln, text)
  <2>1. CASE full
    BY <1>1, <1>2, <2>1, LineGone
  <2>2. CASE ~ full
    <3>1. LineSet(q) = OtherLines(r, ln) \cup {<<ln, text>>}
      BY <1>2, <2>2 DEF OtherLines
    <3>2. LinesOf(q) = Abstract!With(LinesOf(r), ln, text)
      BY <1>2, <3>1, LinePut
    <3>3. QED BY <1>3, <2>2, <3>2
  <2>3. QED BY <2>1, <2>2
<1> HIDE DEF others, full
<1>6. LinesOf(program)' = IF text = <<>> \/ Abstract!Used(others) + Abstract!Size(text) > PROGRAM_SIZE - 2
                          THEN others ELSE Abstract!With(others, ln, text)
  BY <1>p, <1>4, <1>5
<1>7. Abstract!Edit(ln, text)
  BY <1>1, <1>6 DEF Abstract!Edit, others
<1>8. QED BY <1>7 DEF Abstract!Next

LinesSaved == IF saved = NotSaved THEN {} ELSE {LinesOf(saved)}

\* What NEW, SAVE and LOAD do, typed or in a program, and every other step.
Clears   == program' = EmptyProgram /\ saved' = saved /\ command' = <<"clear">>
Keeps    == program' = program /\ saved' = program /\ command' = <<"keep">>
Restores == /\ program' = IF saved = NotSaved THEN program ELSE saved
            /\ saved' = saved /\ command' = <<"restore">>
Others   == program' = program /\ saved' = saved /\ command' = NoCommand

LEMMA ClearKeepRestore ==
    ASSUME IInv, Clears \/ Keeps \/ Restores \/ Others
    PROVE  Abstract!Next
<1>1. CASE Clears
  <2>1. LinesOf(program)' = Abstract!Empty /\ LinesSaved' = LinesSaved /\ command' = <<"clear">>
    BY <1>1, NoLines DEF LinesSaved, Clears
  <2>2. QED BY <2>1 DEF Abstract!Next, Abstract!Clear, LinesSaved
<1>2. CASE Keeps
  <2>1. program # NotSaved
    <3>1. Kept(program)
      BY DEF IInv, Programs
    <3>2. Len(program) >= 2
      BY <3>1, KeptFacts
    <3>3. QED BY <3>2 DEF NotSaved
  <2>2. /\ LinesSaved' = {LinesOf(program)} /\ LinesOf(program)' = LinesOf(program)
        /\ command' = <<"keep">>
    BY <1>2, <2>1 DEF LinesSaved, NotSaved, Keeps
  <2>3. QED BY <2>2 DEF Abstract!Next, Abstract!Keep, LinesSaved
<1>3. CASE Restores
  <2>1. /\ LinesOf(program)' \in IF LinesSaved = {} THEN {LinesOf(program)} ELSE LinesSaved
        /\ LinesSaved' = LinesSaved /\ command' = <<"restore">>
    BY <1>3 DEF LinesSaved, NotSaved, Restores
  <2>2. QED BY <2>1 DEF Abstract!Next, Abstract!Restore, LinesSaved
<1>4. CASE Others
  <2>1. /\ LinesOf(program)' = LinesOf(program) /\ LinesSaved' = LinesSaved
        /\ command' = Abstract!NoCommand
    BY <1>4 DEF LinesSaved, Others, NoCommand, Abstract!NoCommand
  <2>2. QED BY <2>1 DEF Abstract!Next, Abstract!Other, LinesSaved
<1>5. QED BY <1>1, <1>2, <1>3, <1>4

LEMMA StepEdits ==
    ASSUME IInv, [Next]_vars
    PROVE  [Abstract!Next]_<<LinesOf(program), LinesSaved, command>>
<1>1. CASE \E ln \in Number, text \in Text \cup {<<>>} : Enter(ln, text)
  BY <1>1, EnterEdits
<1>2. CASE UNCHANGED vars
  BY <1>2 DEF vars, LinesSaved
<1>3. CASE NewTyped \/ SaveTyped \/ LoadTyped \/ New \/ Save
  <2>1. Clears \/ Keeps \/ Restores
    BY <1>3 DEF NewTyped, SaveTyped, LoadTyped, New, Save, Erase, Load, Keep, Clears, Keeps, Restores
  <2>2. QED BY <2>1, ClearKeepRestore
<1>4. CASE \/ Run \/ (\E c \in Direct : Immediate(Stmt[c]))
           \/ NoStatement \/ Break \/ End \/ Plain \/ Goto \/ IfLine
           \/ Gosub \/ Return \/ For \/ NextFor
  <2>1. Others
    BY <1>4 DEF Run, Immediate, NoStatement, Break, End, Plain, Goto, IfLine, Gosub, Return, For,
                NextFor, NoEdit, Others
  <2>2. QED BY <2>1, ClearKeepRestore
<1>5. CASE LoadStatement
  <2>1. Restores
    BY <1>5 DEF LoadStatement, Load, Restores
  <2>2. QED BY <2>1, ClearKeepRestore
<1>6. QED BY <1>1, <1>2, <1>3, <1>4, <1>5 DEF Next, UserTypes, Runs

\* The program store implements LineStore, for every size of the program, all numbers and
\* all texts: entering a line gives the line of its number its text, or removes it where there
\* is no text or no room, and changes no other line; NEW leaves none, LOAD brings back what
\* SAVE kept, and nothing else changes a line (store_line, do_new, do_save, do_load).
THEOREM EditsImplemented == Spec => EditsAreLineEdits
<1>1. Init => Abstract!Init
  <2>1. SUFFICES ASSUME Init PROVE Abstract!Init
    OBVIOUS
  <2>2. program = EmptyProgram /\ saved = NotSaved /\ command = NoCommand
    BY <2>1 DEF Init
  <2>3. QED BY <2>2, NoLines DEF Abstract!Init, NoCommand, Abstract!NoCommand
<1>2. IInv /\ [Next]_vars => [Abstract!Next]_<<LinesOf(program), LinesSaved, command>>
  BY StepEdits
<1>3. QED BY <1>1, <1>2, Invariant, PTL DEF Spec, EditsAreLineEdits, Abstract!Spec, LinesSaved

-----------------------------------------------------------------------------
(* CSAVE and CLOAD.                                                         *)

\* The functions of Listing's walk, the listing from an address on, and of ReadNumber.
ListFrom(prog) ==
    CHOOSE f : f = [a \in 0 .. Len(prog) |->
        IF a >= ProgramLen(prog) THEN <<>>
        ELSE ListLine(LineNumber(prog, a), TextAt(prog, a)) \o f[a + EntryLen(prog, a)]]
ReadFrom(s) ==
    CHOOSE f : f = [i \in 0 .. Len(s) |->
        IF i = 0 THEN 0 ELSE AddDigit(f[i - 1], s[i])]

\* Programs that a listing gives back.
TidyTexts  == {t \in Seq(LineChar) : t # <<>> /\ t[1] \notin SpaceChars}
Tidy(prog) == Kept(prog) /\ \A r \in LineSet(prog) : r[1] \in Numbers /\ r[2] \in TidyTexts

\* f is what a slot has of the first k characters of a text.
CutTo(f, text, k) ==
    /\ Len(f) = IF k <= SLOT_MAX_LEN THEN k ELSE SLOT_MAX_LEN
    /\ \A i \in 1 .. Len(f) : f[i] = text[i]

\* What d and o have is what follows the first n bytes, up to the end or a reset.
UnderWay(bytes, n, d, o) ==
    /\ n + Len(d) + Len(o) <= Len(bytes)
    /\ \A i \in 1 .. Len(d) : d[i] = bytes[n + i]
    /\ \A i \in 1 .. Len(o) : o[i] = bytes[n + Len(d) + i]

SaveBytes(s, prog) == <<CmdS, Digit(s)>> \o Listing(prog) \o <<EOF>>
LoadBytes(s)       == <<CmdL, Digit(s)>>

\* The lines in front of a are loaded, and the slot has the text from a on, of which
\* linebuf holds the beginning.
LoadedTo(prog, a, q, buf, rest) ==
    LET text == ListFrom(prog)[a]
    IN  /\ ProgramLen(q) = a /\ LineSet(q) = LinesAt(prog, {b \in Places(prog) : b < a})
        /\ Len(buf) + Len(rest) - 1 <= Len(text)
        /\ \A i \in 1 .. Len(buf) : buf[i] = text[i]
        /\ \A i \in 1 .. Len(rest) - 1 : rest[i] = text[Len(buf) + i]
        /\ rest[Len(rest)] = EOF
        /\ Len(Listing(prog)) <= SLOT_MAX_LEN => Len(buf) + Len(rest) - 1 = Len(text)

\* A transfer that met an idle store and lost nothing: n bytes are read.
Saving(s, n) ==
    /\ UnderWay(SaveBytes(s, sent), n, d2e, out)
    /\ \/ n = 0 /\ esp = "loop"
       \/ n = 1 /\ esp = "digit" /\ cmd = CmdS
       \/ /\ n \in 2 .. Len(SaveBytes(s, sent)) - 1 /\ esp = "receive" /\ cur = s
          /\ CutTo(file, Listing(sent), n - 2)
Fetching(s, n) ==
    /\ UnderWay(LoadBytes(s), n, d2e, out)
    /\ \/ n = 0 /\ esp = "loop"
       \/ n = 1 /\ esp = "digit" /\ cmd = CmdL
    /\ dev = "cload" => program = EmptyProgram /\ linebuf = <<>>
Sending ==
    /\ esp = "send" /\ d2e = <<>> /\ out = <<>>
    /\ \A prog \in kept[cur] : dev = "cload" /\ Listable(prog) =>
           \E a \in Places(prog) : LoadedTo(prog, a, program, linebuf, file)
Resting == esp = "loop" /\ d2e = <<>> /\ out = <<>>
Transfer == \/ \E s \in Slot, n \in 0 .. Len(Listing(sent)) + 3 : Saving(s, n)
            \/ \E s \in Slot, n \in 0 .. 1 : Fetching(s, n)
            \/ Sending
            \/ Resting

\* The inductive invariant of the tape.
TapeChars ==
    /\ out \in Seq(Char) /\ d2e \in Seq(Char) /\ file \in Seq(Char)
    /\ slot \in [Slot -> Seq(Char)]
    /\ linebuf \in Seq(LineChar) /\ Len(linebuf) < LineMax
TapeControl ==
    /\ dev \in {"prompt", "csave", "cload"} /\ esp \in {"loop", "digit", "receive", "send"}
    /\ dev = "csave" => out # <<>>
    /\ esp = "receive" => Len(file) <= SLOT_MAX_LEN /\ kept[cur] = {}
    /\ esp = "send" => file # <<>>
    /\ esp \in {"receive", "send"} => cur \in Slot
    /\ cur \in 0 .. 9 /\ calls \in 0 .. MaxCalls /\ lost \in 0 .. MaxLost
TapePrograms ==
    /\ Tidy(program) /\ Tidy(sent)
    /\ DOMAIN kept = Slot
    /\ \A s \in Slot : \A prog \in kept[s] :
           Tidy(prog) /\ CutTo(slot[s], Listing(prog), Len(Listing(prog)))
TapeIInv == TapeChars /\ TapeControl /\ TapePrograms /\ (clean => Transfer)

-----------------------------------------------------------------------------
(* Numbers in decimal.                                                      *)

LEMMA WordIs ==
    ASSUME NEW x \in Int
    PROVE  x % 65536 \in Numbers /\ (x \in Numbers => x % 65536 = x)
BY DEF Numbers

LEMMA ReadWalks ==
    ASSUME NEW s \in Seq(DigitChars)
    PROVE  /\ ReadNumber(s) = ReadFrom(s)[Len(s)] /\ ReadFrom(s)[0] = 0
           /\ \A i \in 1 .. Len(s) : ReadFrom(s)[i] = AddDigit(ReadFrom(s)[i - 1], s[i])
           /\ ReadNumber(s) \in Numbers
<1> DEFINE N == Len(s)
           step(v, i) == AddDigit(v, s[i])
           next == [a \in 0 .. N |-> a + 1]
           base == [a \in 0 .. N |-> 0]
           join == [a \in 0 .. N |-> [v \in Numbers |-> step(v, N - a)]]
<1>1. N \in Nat
  BY LenProperties
<1>2. \A i \in 1 .. N : s[i] \in Nat
  BY ElementOfSeq DEF DigitChars
<1>3. ASSUME NEW v \in Numbers, NEW i \in 1 .. N PROVE step(v, i) \in Numbers
  <2>1. v \in Nat /\ s[i] \in Nat
    BY <1>2 DEF Numbers
  <2>2. v * 10 + (s[i] - Digit(0)) \in Int
    BY <2>1 DEF Digit
  <2> DEFINE x == v * 10 + (s[i] - Digit(0))
  <2> HIDE DEF x
  <2>3. x % 65536 \in Numbers
    BY <2>2, WordIs DEF x
  <2>4. QED BY <2>3 DEF x, AddDigit
<1> HIDE DEF step
<1>4. 0 \in Numbers
  BY DEF Numbers
<1>5. \A a \in 0 .. N : a \notin {N} =>
          /\ next[a] \in 0 .. N /\ next[a] > a
          /\ \A v \in Numbers : join[a][v] \in Numbers
  <2>1. ASSUME NEW a \in 0 .. N, a \notin {N}, NEW v \in Numbers PROVE join[a][v] \in Numbers
    <3>1. N - a \in 1 .. N
      BY <1>1, <2>1
    <3>2. join[a][v] = step(v, N - a)
      OBVIOUS
    <3>3. QED BY <1>3, <3>1, <3>2
  <2>2. ASSUME NEW a \in 0 .. N, a \notin {N} PROVE next[a] \in 0 .. N /\ next[a] > a
    BY <1>1, <2>2
  <2>3. QED BY <2>1, <2>2
<1>6. PICK g \in [0 .. N -> Numbers] :
          \A a \in 0 .. N : g[a] = IF a \in {N} THEN base[a] ELSE join[a][g[next[a]]]
  <2>0. \A a \in 0 .. N : a \in {N} => base[a] \in Numbers
    BY <1>4
  <2> HIDE DEF N, next, base, join
  <2>1. GoesUp(N, Numbers, {N}, next, base, join)
    BY <1>1, <1>5, <2>0 DEF GoesUp
  <2>2. Recursive(N, Numbers, {N}, next, base, join)
    BY <2>1, WalkUp
  <2>3. QED BY <2>2 DEF Recursive
<1> DEFINE f == [i \in 0 .. N |-> g[N - i]]
<1>7. ASSUME NEW i \in 0 .. N PROVE f[i] \in Numbers /\ f[i] = IF i = 0 THEN 0 ELSE step(f[i - 1], i)
  <2>1. N - i \in 0 .. N /\ N - (N - i) = i /\ f[i] = g[N - i]
    BY <1>1
  <2>2. CASE i = 0
    <3>1. g[N] = 0
      BY <1>1, <1>6
    <3>2. QED BY <1>1, <1>4, <2>1, <2>2, <3>1
  <2>3. CASE i # 0
    <3>1. N - i # N /\ next[N - i] = N - (i - 1) /\ i - 1 \in 0 .. N /\ N - (i - 1) \in 0 .. N
      BY <1>1, <2>1, <2>3
    <3>2. g[N - i] = join[N - i][g[N - (i - 1)]]
      BY <1>6, <2>1, <3>1
    <3>3. g[N - (i - 1)] \in Numbers /\ f[i - 1] = g[N - (i - 1)]
      BY <1>6, <3>1
    <3>4. join[N - i][g[N - (i - 1)]] = step(g[N - (i - 1)], i)
      BY <2>1, <3>3
    <3>5. g[N - i] \in Numbers
      BY <1>6, <2>1
    <3>6. QED BY <2>1, <2>3, <3>2, <3>3, <3>4, <3>5
  <2>4. QED BY <2>2, <2>3
<1>8. f = [i \in 0 .. N |-> IF i = 0 THEN 0 ELSE step(f[i - 1], i)]
  BY <1>7
<1> HIDE DEF f
<1>9. ReadFrom(s) = [i \in 0 .. Len(s) |->
        IF i = 0 THEN 0 ELSE AddDigit(ReadFrom(s)[i - 1], s[i])]
  <2>1. f = [i \in 0 .. Len(s) |-> IF i = 0 THEN 0 ELSE AddDigit(f[i - 1], s[i])]
    BY <1>8 DEF step
  <2>2. QED BY <2>1, Zenon DEF ReadFrom
<1>10. \A i \in 0 .. N : ReadFrom(s)[i] =
           IF i = 0 THEN 0 ELSE AddDigit(ReadFrom(s)[i - 1], s[i])
  BY <1>9, Zenon
<1>11. ReadNumber(s) = ReadFrom(s)[Len(s)]
  BY Zenon DEF ReadNumber, ReadFrom
<1>12. \A i \in 0 .. N : ReadFrom(s)[i] = IF i = 0 THEN 0 ELSE step(ReadFrom(s)[i - 1], i)
  BY <1>10 DEF step
<1>13. \A i \in 0 .. N : ReadFrom(s)[i] \in Numbers
  <2> DEFINE P == {a \in 0 .. N : ReadFrom(s)[a] \notin Numbers}
  <2>1. P = {}
    <3>1. SUFFICES ASSUME P # {} PROVE FALSE
      OBVIOUS
    <3>p. P \in SUBSET Nat
      OBVIOUS
    <3> HIDE DEF P
    <3>2. PICK i \in P : \A j \in P : i <= j
      BY <3>1, <3>p, LeastExists
    <3> USE DEF P
    <3>3. i # 0
      BY <1>4, <1>12, <3>2
    <3>4. i - 1 \in 0 .. N /\ i - 1 \notin P /\ i \in 1 .. N
      BY <1>1, <3>2, <3>3
    <3>5. ReadFrom(s)[i - 1] \in Numbers
      BY <3>4
    <3>6. step(ReadFrom(s)[i - 1], i) \in Numbers
      BY <1>3, <3>4, <3>5
    <3>7. ReadFrom(s)[i] = step(ReadFrom(s)[i - 1], i)
      BY <1>12, <3>3, <3>4
    <3>8. QED BY <3>2, <3>6, <3>7
  <2>2. QED BY <2>1
<1>14. QED BY <1>1, <1>10, <1>11, <1>13

\* The first digits of a word.
LEMMA OneMore ==
    ASSUME NEW n \in Nat, NEW k \in 1 .. 5
    PROVE  /\ n \div Ten[k] \in Nat /\ (n \div Ten[k]) % 10 \in 0 .. 9
           /\ k < 5 => n \div Ten[k] = ((n \div Ten[k + 1]) * 10) + ((n \div Ten[k]) % 10)
           /\ k < 5 /\ n < Ten[k + 1] => n \div Ten[k] < 10
           /\ k = 5 /\ n \in Numbers => n \div Ten[k] < 10
           /\ n \div Ten[1] = n /\ n \div Ten[k] <= n
<1>1. k \in {1, 2, 3, 4, 5}
  OBVIOUS
<1>2. /\ Ten[1] = 1 /\ Ten[2] = 10 /\ Ten[3] = 100 /\ Ten[4] = 1000 /\ Ten[5] = 10000
  BY DEF Ten
<1>3. CASE k = 1
  <2>1. n \div 1 = n
    OBVIOUS
  <2>2. n \div Ten[k] = n /\ Ten[k + 1] = 10 /\ n \div Ten[1] = n
    BY <1>2, <1>3, <2>1
  <2>3. n % 10 \in 0 .. 9 /\ n = ((n \div 10) * 10) + (n % 10)
    OBVIOUS
  <2>4. QED BY <1>3, <2>2, <2>3
<1>4. CASE k = 2
  BY <1>2, <1>4
<1>5. CASE k = 3
  BY <1>2, <1>5
<1>6. CASE k = 4
  BY <1>2, <1>6
<1>7. CASE k = 5
  BY <1>2, <1>7 DEF Numbers
<1>8. QED BY <1>1, <1>3, <1>4, <1>5, <1>6, <1>7

LEMMA WidthIs ==
    ASSUME NEW n \in Nat
    PROVE  Width(n) \in 1 .. 5 /\ (Width(n) < 5 => n < Ten[Width(n) + 1])
<1>1. \E w \in 1 .. 5 : (w > 1 => n >= Ten[w]) /\ (w < 5 => n < Ten[w + 1])
  <2>1. /\ Ten[2] = 10 /\ Ten[3] = 100 /\ Ten[4] = 1000 /\ Ten[5] = 10000
    BY DEF Ten
  <2>2. CASE n < 10
    BY <2>1, <2>2
  <2>3. CASE n >= 10 /\ n < 100
    BY <2>1, <2>3
  <2>4. CASE n >= 100 /\ n < 1000
    BY <2>1, <2>4
  <2>5. CASE n >= 1000 /\ n < 10000
    BY <2>1, <2>5
  <2>6. CASE n >= 10000
    BY <2>1, <2>6
  <2>7. QED BY <2>2, <2>3, <2>4, <2>5, <2>6
<1>2. LET w == Width(n) IN w \in 1 .. 5 /\ (w > 1 => n >= Ten[w]) /\ (w < 5 => n < Ten[w + 1])
  BY <1>1, Zenon DEF Width
<1>3. QED BY <1>2

LEMMA DigitsAre ==
    ASSUME NEW n \in Nat
    PROVE  /\ Digits(n) \in Seq(DigitChars) /\ Len(Digits(n)) = Width(n)
           /\ \A k \in 1 .. Width(n) : Digits(n)[k] = Digit((n \div Ten[Width(n) - k + 1]) % 10)
<1> DEFINE w == Width(n)
           c(k) == Digit((n \div Ten[w - k + 1]) % 10)
<1>1. w \in 1 .. 5 /\ w \in Nat
  BY WidthIs
<1>2. Digits(n) = [k \in 1 .. w |-> c(k)]
  BY DEF Digits
<1>3. ASSUME NEW k \in 1 .. w PROVE c(k) \in DigitChars
  <2>1. w - k + 1 \in 1 .. 5
    BY <1>1
  <2>2. (n \div Ten[w - k + 1]) % 10 \in 0 .. 9
    BY <2>1, OneMore
  <2> DEFINE x == (n \div Ten[w - k + 1]) % 10
  <2> HIDE DEF x
  <2>3. Digit(x) \in DigitChars
    BY <2>2 DEF x, Digit, DigitChars
  <2>4. QED BY <2>3 DEF x
<1> HIDE DEF w, c
<1>4. Digits(n) \in [1 .. w -> DigitChars]
  BY <1>2, <1>3
<1>5. Digits(n) \in Seq(DigitChars)
  BY <1>1, <1>4, IsASeq
<1>6. Len(Digits(n)) = w
  BY <1>1, <1>4, <1>5, LenProperties
<1>7. \A k \in 1 .. w : Digits(n)[k] = c(k)
  BY <1>2
<1>8. QED BY <1>5, <1>6, <1>7 DEF w, c

\* What is written in decimal is read as the same number.
LEMMA ReadsBack ==
    ASSUME NEW n \in Numbers
    PROVE  ReadNumber(Digits(n)) = n
<1> DEFINE s == Digits(n)
           f == ReadFrom(s)
           w == Width(n)
           P == {i \in 1 .. w : f[i] # n \div Ten[w - i + 1]}
<1>0. n \in Nat
  BY DEF Numbers
<1>1. w \in 1 .. 5 /\ w \in Nat /\ (w < 5 => n < Ten[w + 1])
  BY <1>0, WidthIs
<1>2. s \in Seq(DigitChars) /\ Len(s) = w
      /\ \A k \in 1 .. w : s[k] = Digit((n \div Ten[w - k + 1]) % 10)
  BY <1>0, DigitsAre
<1> HIDE DEF s
<1>3. /\ ReadNumber(s) = f[Len(s)] /\ f[0] = 0
      /\ \A i \in 1 .. Len(s) : f[i] = AddDigit(f[i - 1], s[i])
  BY <1>2, ReadWalks
<1> HIDE DEF f, w
<1>4. ASSUME NEW i \in 1 .. w, i > 1 => i - 1 \notin P
      PROVE  f[i] = n \div Ten[w - i + 1]
  <2> DEFINE k == w - i + 1
             d == (n \div Ten[k]) % 10
             q == n \div Ten[k]
  <2>1. k \in 1 .. 5 /\ k \in Nat /\ (k < 5 => k + 1 = w - (i - 1) + 1) /\ i - 1 \in Nat
    BY <1>1
  <2>2. /\ q \in Nat /\ d \in 0 .. 9 /\ q <= n
        /\ k < 5 => q = ((n \div Ten[k + 1]) * 10) + d
        /\ k < 5 /\ n < Ten[k + 1] => q < 10
        /\ k = 5 => q < 10
    BY <1>0, <2>1, OneMore
  <2>3. s[i] = Digit(d) /\ f[i] = AddDigit(f[i - 1], s[i])
    BY <1>2, <1>3
  <2>q. q \in Numbers
    BY <1>0, <2>2 DEF Numbers
  <2>d. i = 1 => d = q
    <3>1. i = 1 => k = w
      BY <1>1
    <3>2. i = 1 => q < 10
      BY <1>1, <2>2, <3>1
    <3>3. d = q % 10
      OBVIOUS
    <3> HIDE DEF d, q
    <3>4. QED BY <2>2, <3>2, <3>3
  <2>4. i > 1 => f[i - 1] = n \div Ten[w - (i - 1) + 1]
    BY <1>1, <1>4
  <2>5. i > 1 => k < 5 /\ f[i - 1] = n \div Ten[k + 1]
    <3>1. i > 1 => k < 5
      BY <1>1
    <3>2. QED BY <2>1, <2>4, <3>1
  <2>6. f[i - 1] * 10 + d = q /\ f[i - 1] \in Int
    <3>1. CASE i = 1
      <4>1. f[i - 1] = 0
        BY <1>3, <3>1
      <4> HIDE DEF d, q
      <4>2. QED BY <2>2, <2>d, <3>1, <4>1
    <3>2. CASE i > 1
      <4>1. k + 1 \in 1 .. 5
        BY <2>1, <2>5, <3>2
      <4>2. n \div Ten[k + 1] \in Nat
        BY <1>0, <4>1, OneMore
      <4> HIDE DEF k, d, q
      <4>3. QED BY <2>2, <2>5, <3>2, <4>2
    <3>3. QED BY <3>1, <3>2
  <2> HIDE DEF k, d, q
  <2>7. f[i] = (f[i - 1] * 10 + (Digit(d) - Digit(0))) % 65536
    BY <2>3 DEF AddDigit
  <2>8. f[i - 1] * 10 + (Digit(d) - Digit(0)) = q
    BY <2>2, <2>6 DEF Digit
  <2>9. f[i] = q
    <3>1. q \in Int
      BY <2>2
    <3>2. QED BY <2>7, <2>8, <2>q, <3>1, WordIs
  <2>10. QED BY <2>9 DEF k, q
<1>5. P = {}
  <2>1. SUFFICES ASSUME P # {} PROVE FALSE
    OBVIOUS
  <2>p. P \in SUBSET Nat
    OBVIOUS
  <2> HIDE DEF P
  <2>2. PICK i \in P : \A j \in P : i <= j
    BY <2>1, <2>p, LeastExists
  <2>3. i \in Nat /\ ~ i <= i - 1
    BY <2>2, <2>p
  <2>4. i - 1 \notin P
    BY <2>2, <2>3
  <2>5. i \in 1 .. w /\ f[i] # n \div Ten[w - i + 1]
    BY <2>2 DEF P
  <2>6. QED BY <1>4, <2>4, <2>5
<1>6. f[w] = n \div Ten[1] /\ n \div Ten[1] = n
  <2>1. w \in 1 .. w /\ w - w + 1 = 1 /\ 1 \in 1 .. 5
    BY <1>1
  <2>2. f[w] = n \div Ten[w - w + 1]
    BY <1>5, <2>1
  <2>3. QED BY <1>0, <2>1, <2>2, OneMore
<1>7. QED BY <1>2, <1>3, <1>6 DEF s

-----------------------------------------------------------------------------
(* Lines as text.                                                           *)

LEMMA SplitIs ==
    ASSUME NEW s, Len(s) \in Nat, NEW chars, NEW n \in 0 .. Len(s),
           \A k \in 1 .. n : s[k] \in chars, n < Len(s) => s[n + 1] \notin chars
    PROVE  SplitAfter(s, chars) = <<SubSeq(s, 1, n), SubSeq(s, n + 1, Len(s))>>
<1> DEFINE m == CHOOSE i \in 0 .. Len(s) :
                    /\ \A k \in 1 .. i : s[k] \in chars
                    /\ i < Len(s) => s[i + 1] \notin chars
<1>1. /\ m \in 0 .. Len(s)
      /\ \A k \in 1 .. m : s[k] \in chars
      /\ m < Len(s) => s[m + 1] \notin chars
  BY Zenon
<1>2. SplitAfter(s, chars) = <<SubSeq(s, 1, m), SubSeq(s, m + 1, Len(s))>>
  BY Zenon DEF SplitAfter
<1> HIDE DEF m
<1>3. CASE m < n
  <2>1. m + 1 \in 1 .. n /\ m < Len(s)
    BY <1>1, <1>3
  <2>2. QED BY <1>1, <2>1
<1>4. CASE m > n
  <2>1. n + 1 \in 1 .. m /\ n < Len(s)
    BY <1>1, <1>4
  <2>2. QED BY <1>1, <2>1
<1>5. CASE m = n
  BY <1>2, <1>5
<1>6. QED BY <1>1, <1>3, <1>4, <1>5

LEMMA SplitExists ==
    ASSUME NEW s, Len(s) \in Nat, NEW chars
    PROVE  \E n \in 0 .. Len(s) :
               /\ \A k \in 1 .. n : s[k] \in chars
               /\ n < Len(s) => s[n + 1] \notin chars
<1> DEFINE P == {i \in 0 .. Len(s) : i < Len(s) => s[i + 1] \notin chars}
<1>1. Len(s) \in P /\ P \in SUBSET Nat
  OBVIOUS
<1> HIDE DEF P
<1>2. PICK n \in P : \A j \in P : n <= j
  BY <1>1, LeastExists
<1>3. n \in 0 .. Len(s) /\ (n < Len(s) => s[n + 1] \notin chars)
  BY <1>2 DEF P
<1>4. ASSUME NEW k \in 1 .. n PROVE s[k] \in chars
  <2>1. k - 1 \in 0 .. Len(s) /\ ~ n <= k - 1 /\ k - 1 < Len(s) /\ (k - 1) + 1 = k
    BY <1>3
  <2>2. k - 1 \notin P
    BY <1>2, <2>1
  <2>3. QED BY <2>1, <2>2 DEF P
<1>5. QED BY <1>3, <1>4

\* A listed line, as it is typed.
LineAsTyped(ln, text) == Digits(ln) \o <<SPACE>> \o text

LEMMA JoinedChars ==
    ASSUME NEW Letters, NEW s \in Seq(Letters), NEW t \in Seq(Letters)
    PROVE  /\ s \o t \in Seq(Letters) /\ Len(s \o t) = Len(s) + Len(t)
           /\ Len(s) \in Nat /\ Len(t) \in Nat
           /\ \A i \in 1 .. Len(s) : (s \o t)[i] = s[i]
           /\ \A i \in 1 .. Len(t) : (s \o t)[Len(s) + i] = t[i]
<1>1. Len(s) \in Nat /\ Len(t) \in Nat
  BY LenProperties
<1>2. /\ s \o t \in Seq(Letters) /\ Len(s \o t) = Len(s) + Len(t)
      /\ \A i \in 1 .. Len(s) + Len(t) : (s \o t)[i] = IF i <= Len(s) THEN s[i] ELSE t[i - Len(s)]
  BY ConcatProperties
<1> DEFINE q == s \o t
<1> HIDE DEF q
<1>3. ASSUME NEW i \in 1 .. Len(s) PROVE q[i] = s[i]
  <2>1. i \in 1 .. Len(s) + Len(t) /\ i <= Len(s)
    BY <1>1
  <2>2. q[i] = IF i <= Len(s) THEN s[i] ELSE t[i - Len(s)]
    BY <1>2, <2>1 DEF q
  <2>3. QED BY <2>1, <2>2
<1>4. ASSUME NEW i \in 1 .. Len(t) PROVE q[Len(s) + i] = t[i]
  <2>1. Len(s) + i \in 1 .. Len(s) + Len(t) /\ ~ Len(s) + i <= Len(s) /\ (Len(s) + i) - Len(s) = i
    BY <1>1
  <2>2. q[Len(s) + i] = IF Len(s) + i <= Len(s) THEN s[Len(s) + i] ELSE t[(Len(s) + i) - Len(s)]
    BY <1>2, <2>1 DEF q
  <2>3. QED BY <2>1, <2>2
<1>5. QED BY <1>1, <1>2, <1>3, <1>4 DEF q

LEMMA PartOf ==
    ASSUME NEW Letters, NEW s \in Seq(Letters), NEW m \in 1 .. Len(s) + 1, NEW n \in 0 .. Len(s), m <= n + 1
    PROVE  /\ SubSeq(s, m, n) \in Seq(Letters) /\ Len(SubSeq(s, m, n)) = n - m + 1
           /\ \A i \in 1 .. n - m + 1 : SubSeq(s, m, n)[i] = s[m + i - 1]
<1>1. Len(s) \in Nat
  BY LenProperties
<1>2. QED BY <1>1, SubSeqProperties

LEMMA CharFacts ==
    /\ DigitChars \subseteq LineChar /\ LineChar \subseteq Char /\ SPACE \in LineChar
    /\ NL \in Char /\ EOF \in Char /\ NL \notin LineChar /\ EOF \notin LineChar /\ EOF # NL
    /\ DigitChars \cap SpaceChars = {} /\ SPACE \in SpaceChars /\ SPACE \notin DigitChars
    /\ DigitChars \subseteq Nat /\ Char \subseteq Nat
BY DEF DigitChars, LineChar, Char, SPACE, NL, CR, EOF, SpaceChars

\* The characters of such a line.
TypedFrom(ln, text, s) ==
    LET w == Len(Digits(ln))
    IN  /\ s \in Seq(LineChar) /\ w \in Nat /\ w >= 1 /\ Len(s) = w + 1 + Len(text)
        /\ \A i \in 1 .. w : s[i] = Digits(ln)[i]
        /\ s[w + 1] = SPACE
        /\ \A i \in 1 .. Len(text) : s[w + 1 + i] = text[i]

LEMMA TypedChars ==
    ASSUME NEW ln \in Numbers, NEW text \in TidyTexts
    PROVE  TypedFrom(ln, text, LineAsTyped(ln, text))
<1> DEFINE D == Digits(ln)
           w == Len(D)
           h == D \o <<SPACE>>
           s == h \o text
<1>0. ln \in Nat
  BY DEF Numbers
<1>1. D \in Seq(DigitChars) /\ w \in Nat /\ w >= 1
  <2>1. Digits(ln) \in Seq(DigitChars) /\ Len(Digits(ln)) = Width(ln)
    BY <1>0, DigitsAre
  <2>2. Width(ln) \in 1 .. 5
    BY <1>0, WidthIs
  <2>3. QED BY <2>1, <2>2
<1>2. D \in Seq(LineChar)
  BY <1>1, CharFacts, SeqMonotonic
<1>3. <<SPACE>> \in Seq(LineChar) /\ Len(<<SPACE>>) = 1 /\ <<SPACE>>[1] = SPACE
  BY CharFacts
<1>4. text \in Seq(LineChar) /\ Len(text) \in Nat
  BY LenProperties DEF TidyTexts
<1> DEFINE o == <<SPACE>>
<1> HIDE DEF D, o
<1>5. /\ h \in Seq(LineChar) /\ Len(h) = w + 1
      /\ \A i \in 1 .. w : h[i] = D[i]
      /\ h[w + 1] = SPACE
  <2>1. /\ D \o o \in Seq(LineChar) /\ Len(D \o o) = Len(D) + Len(o)
        /\ \A i \in 1 .. Len(D) : (D \o o)[i] = D[i]
        /\ \A i \in 1 .. Len(o) : (D \o o)[Len(D) + i] = o[i]
    BY <1>2, <1>3, JoinedChars DEF o
  <2>2. Len(o) = 1 /\ o[1] = SPACE /\ 1 \in 1 .. 1 /\ h = D \o o
    BY <1>3 DEF o
  <2>3. QED BY <2>1, <2>2
<1> HIDE DEF h
<1>6. /\ s \in Seq(LineChar) /\ Len(s) = Len(h) + Len(text)
      /\ \A i \in 1 .. Len(h) : s[i] = h[i]
      /\ \A i \in 1 .. Len(text) : s[Len(h) + i] = text[i]
  <2>1. h \in Seq(LineChar) /\ text \in Seq(LineChar)
    BY <1>4, <1>5
  <2>2. /\ h \o text \in Seq(LineChar) /\ Len(h \o text) = Len(h) + Len(text)
        /\ \A i \in 1 .. Len(h) : (h \o text)[i] = h[i]
        /\ \A i \in 1 .. Len(text) : (h \o text)[Len(h) + i] = text[i]
    BY <2>1, JoinedChars
  <2>3. QED BY <2>2
<1> HIDE DEF s
<1>7. \A i \in 1 .. w : s[i] = D[i]
  <2>1. ASSUME NEW i \in 1 .. w PROVE s[i] = D[i]
    <3>1. i \in 1 .. Len(h)
      BY <1>1, <1>5
    <3>2. QED BY <1>5, <1>6, <3>1
  <2>2. QED BY <2>1
<1>8. s[w + 1] = SPACE
  <2>1. w + 1 \in 1 .. Len(h)
    BY <1>1, <1>5
  <2>2. QED BY <1>5, <1>6, <2>1
<1>9. Len(s) = w + 1 + Len(text) /\ \A i \in 1 .. Len(text) : s[w + 1 + i] = text[i]
  BY <1>5, <1>6
<1>10. TypedFrom(ln, text, s)
  BY <1>1, <1>6, <1>7, <1>8, <1>9 DEF TypedFrom, D
<1>11. s = LineAsTyped(ln, text)
  BY DEF s, h, D, LineAsTyped
<1>12. QED BY <1>10, <1>11

\* A line that was listed and is typed again is the line.
LEMMA ListedIsStored ==
    ASSUME NEW prog, NEW ln \in Numbers, NEW text \in TidyTexts
    PROVE  HandleLine(prog, LineAsTyped(ln, text)) = StoreLine(prog, ln, text)
<1> DEFINE s == LineAsTyped(ln, text)
           D == Digits(ln)
           w == Len(D)
           t == SubSeq(s, w + 1, Len(s))
<1>0. ln \in Nat /\ text \in Seq(LineChar) /\ text # <<>> /\ text[1] \notin SpaceChars
  BY DEF Numbers, TidyTexts
<1>1. /\ s \in Seq(LineChar) /\ w \in Nat /\ w >= 1 /\ Len(s) = w + 1 + Len(text)
      /\ \A i \in 1 .. w : s[i] = D[i]
      /\ s[w + 1] = SPACE
      /\ \A i \in 1 .. Len(text) : s[w + 1 + i] = text[i]
  BY TypedChars DEF TypedFrom
<1>2. D \in Seq(DigitChars) /\ \A i \in 1 .. w : D[i] \in DigitChars
  BY <1>0, DigitsAre, ElementOfSeq
<1>3. Len(text) \in Nat /\ Len(text) >= 1
  <2>1. Len(text) \in Nat \ {0}
    BY <1>0, EmptySeq
  <2>2. QED BY <2>1
<1>4. Len(s) \in Nat /\ Len(s) >= w + 2
  BY <1>1, <1>3
<1> HIDE DEF s, D
<1>5. SplitAfter(s, SpaceChars)[2] = s
  <2>1. s[0 + 1] \notin SpaceChars
    <3>1. 1 \in 1 .. w /\ 0 + 1 = 1
      BY <1>1
    <3>2. s[1] \in DigitChars
      BY <1>1, <1>2, <3>1
    <3>3. QED BY <3>1, <3>2, CharFacts
  <2>2. SplitAfter(s, SpaceChars) = <<SubSeq(s, 1, 0), SubSeq(s, 0 + 1, Len(s))>>
    BY <1>4, <2>1, SplitIs
  <2>3. SubSeq(s, 1, Len(s)) \in Seq(LineChar) /\ Len(SubSeq(s, 1, Len(s))) = Len(s)
        /\ \A i \in 1 .. Len(s) : SubSeq(s, 1, Len(s))[i] = s[i]
    <3>1. 1 \in 1 .. Len(s) + 1 /\ Len(s) \in 0 .. Len(s) /\ 1 <= Len(s) + 1 /\ Len(s) - 1 + 1 = Len(s)
      BY <1>4
    <3>2. /\ SubSeq(s, 1, Len(s)) \in Seq(LineChar) /\ Len(SubSeq(s, 1, Len(s))) = Len(s) - 1 + 1
          /\ \A i \in 1 .. Len(s) - 1 + 1 : SubSeq(s, 1, Len(s))[i] = s[1 + i - 1]
      BY <1>1, <3>1, PartOf
    <3>3. QED BY <3>1, <3>2
  <2>4. SubSeq(s, 1, Len(s)) = s
    BY <1>1, <2>3, SeqEqual
  <2>5. QED BY <2>2, <2>4
<1>6. SplitAfter(s, DigitChars) = <<D, t>>
  <2>1. w \in 0 .. Len(s) /\ \A k \in 1 .. w : s[k] \in DigitChars
    BY <1>1, <1>2, <1>4
  <2>2. s[w + 1] \notin DigitChars
    BY <1>1, CharFacts
  <2>3. SplitAfter(s, DigitChars) = <<SubSeq(s, 1, w), SubSeq(s, w + 1, Len(s))>>
    BY <1>4, <2>1, <2>2, SplitIs
  <2>4. /\ SubSeq(s, 1, w) \in Seq(LineChar) /\ Len(SubSeq(s, 1, w)) = w
        /\ \A i \in 1 .. w : SubSeq(s, 1, w)[i] = s[i]
    <3>1. 1 \in 1 .. Len(s) + 1 /\ w \in 0 .. Len(s) /\ 1 <= w + 1 /\ w - 1 + 1 = w
      BY <1>1, <1>4
    <3>2. /\ SubSeq(s, 1, w) \in Seq(LineChar) /\ Len(SubSeq(s, 1, w)) = w - 1 + 1
          /\ \A i \in 1 .. w - 1 + 1 : SubSeq(s, 1, w)[i] = s[1 + i - 1]
      BY <1>1, <3>1, PartOf
    <3>3. QED BY <3>1, <3>2
  <2>5. D \in Seq(LineChar)
    BY <1>2, CharFacts, SeqMonotonic
  <2>6. SubSeq(s, 1, w) = D
    <3> DEFINE u == SubSeq(s, 1, w)
    <3>1. u \in Seq(LineChar) /\ Len(u) = Len(D) /\ \A i \in 1 .. Len(u) : u[i] = D[i]
      BY <1>1, <2>4
    <3> HIDE DEF u
    <3>2. u = D
      BY <2>5, <3>1, SeqEqual
    <3>3. QED BY <3>2 DEF u
  <2>7. QED BY <2>3, <2>6
<1>7. /\ t \in Seq(LineChar) /\ Len(t) = 1 + Len(text)
      /\ t[1] = SPACE /\ \A i \in 1 .. Len(text) : t[1 + i] = text[i]
  <2>1. w + 1 \in 1 .. Len(s) + 1 /\ Len(s) \in 0 .. Len(s) /\ w + 1 <= Len(s) + 1
    BY <1>1, <1>4
  <2>2. /\ t \in Seq(LineChar) /\ Len(t) = Len(s) - (w + 1) + 1
        /\ \A i \in 1 .. Len(s) - (w + 1) + 1 : t[i] = s[(w + 1) + i - 1]
    BY <1>1, <2>1, PartOf
  <2>3. Len(s) - (w + 1) + 1 = 1 + Len(text)
    BY <1>1, <1>3
  <2> HIDE DEF t
  <2>4. t[1] = SPACE
    <3>1. 1 \in 1 .. 1 + Len(text) /\ (w + 1) + 1 - 1 = w + 1
      BY <1>1, <1>3
    <3>2. QED BY <1>1, <2>2, <2>3, <3>1
  <2>5. ASSUME NEW i \in 1 .. Len(text) PROVE t[1 + i] = text[i]
    <3>1. 1 + i \in 1 .. 1 + Len(text) /\ (w + 1) + (1 + i) - 1 = w + 1 + i
      BY <1>1, <1>3
    <3>2. t[1 + i] = s[(w + 1) + (1 + i) - 1]
      BY <2>2, <2>3, <3>1
    <3>3. QED BY <1>1, <3>1, <3>2
  <2>6. QED BY <2>2, <2>3, <2>4, <2>5
<1> HIDE DEF t
<1>8. SplitAfter(t, SpaceChars)[2] = text
  <2>1. /\ Len(t) \in Nat /\ 1 \in 0 .. Len(t) /\ \A k \in 1 .. 1 : t[k] \in SpaceChars
    BY <1>3, <1>7, CharFacts
  <2>2. t[1 + 1] \notin SpaceChars
    BY <1>0, <1>3, <1>7
  <2>3. SplitAfter(t, SpaceChars) = <<SubSeq(t, 1, 1), SubSeq(t, 1 + 1, Len(t))>>
    BY <2>1, <2>2, SplitIs
  <2> DEFINE u == SubSeq(t, 2, Len(t))
  <2>4. u \in Seq(LineChar) /\ Len(u) = Len(text) /\ \A i \in 1 .. Len(u) : u[i] = text[i]
    <3>1. 2 \in 1 .. Len(t) + 1 /\ Len(t) \in 0 .. Len(t) /\ 2 <= Len(t) + 1 /\ Len(t) - 2 + 1 = Len(text)
      BY <1>3, <1>7
    <3>2. /\ u \in Seq(LineChar) /\ Len(u) = Len(t) - 2 + 1
          /\ \A i \in 1 .. Len(t) - 2 + 1 : u[i] = t[2 + i - 1]
      BY <1>7, <3>1, PartOf
    <3> HIDE DEF u
    <3>3. ASSUME NEW i \in 1 .. Len(text) PROVE u[i] = text[i]
      <4>1. 2 + i - 1 = 1 + i
        BY <1>3
      <4>2. QED BY <1>7, <3>1, <3>2, <4>1
    <3>4. QED BY <3>1, <3>2, <3>3
  <2> HIDE DEF u
  <2>5. u = text
    BY <1>0, <2>4, SeqEqual
  <2>6. QED BY <2>3, <2>5 DEF u
<1>9. D # <<>>
  BY <1>1, EmptySeq
<1>10. HandleLine(prog, s) = StoreLine(prog, ReadNumber(D), text)
  BY <1>5, <1>6, <1>8, <1>9 DEF HandleLine
<1>11. ReadNumber(D) = ln
  BY ReadsBack DEF D
<1>12. QED BY <1>10, <1>11 DEF s

\* What is typed, and what comes over the line, leaves the program such that its listing
\* gives it back.
LEMMA TidyIsText == TidyTexts \subseteq Texts
<1>1. ASSUME NEW t \in TidyTexts PROVE t \in Texts
  <2>1. t \in Seq(LineChar) /\ t # <<>>
    BY DEF TidyTexts
  <2>2. t \in Seq(Nat)
    BY <2>1, CharFacts, SeqMonotonic
  <2>3. \A i \in 1 .. Len(t) : t[i] \in LineChar
    BY <2>1, ElementOfSeq
  <2>4. \A c \in LineChar : c # 0
    BY DEF LineChar, Char
  <2>5. QED BY <2>1, <2>2, <2>3, <2>4 DEF Texts
<1>2. QED BY <1>1

LEMMA StoreTidy ==
    ASSUME NEW prog, Tidy(prog), NEW ln \in Numbers, NEW text \in TidyTexts \cup {<<>>}
    PROVE  Tidy(StoreLine(prog, ln, text))
<1> DEFINE q == StoreLine(prog, ln, text)
<1>1. Kept(prog) /\ \A r \in LineSet(prog) : r[1] \in Numbers /\ r[2] \in TidyTexts
  BY DEF Tidy
<1>2. text \in Texts \cup {<<>>} /\ <<>> \notin Texts
  BY TidyIsText DEF Texts
<1>3. /\ Kept(q)
      /\ \/ LineSet(q) = OtherLines(prog, ln)
         \/ text \in Texts /\ LineSet(q) = OtherLines(prog, ln) \cup {<<ln, text>>}
  BY <1>1, <1>2, StoreKept
<1> HIDE DEF q
<1>4. \A r \in OtherLines(prog, ln) : r[1] \in Numbers /\ r[2] \in TidyTexts
  BY <1>1 DEF OtherLines
<1>5. text \in Texts => text \in TidyTexts
  BY <1>2
<1>6. \A r \in LineSet(q) : r[1] \in Numbers /\ r[2] \in TidyTexts
  BY <1>3, <1>4, <1>5
<1>7. QED BY <1>3, <1>6 DEF Tidy, q

LEMMA HandleTidy ==
    ASSUME NEW prog, Tidy(prog), NEW line \in Seq(LineChar)
    PROVE  Tidy(HandleLine(prog, line))
<1> DEFINE start  == SplitAfter(line, SpaceChars)[2]
           number == SplitAfter(start, DigitChars)
           text   == SplitAfter(number[2], SpaceChars)[2]
<1>1. ASSUME NEW s \in Seq(LineChar), NEW chars
      PROVE  LET u == SplitAfter(s, chars)
             IN  /\ u[1] \in Seq(LineChar) /\ \A k \in 1 .. Len(u[1]) : u[1][k] \in chars
                 /\ u[2] \in Seq(LineChar) /\ (u[2] # <<>> => u[2][1] \notin chars)
  <2> DEFINE u == SplitAfter(s, chars)
             N == Len(s)
  <2>1. N \in Nat
    BY LenProperties
  <2>2. PICK n \in 0 .. N : (\A k \in 1 .. n : s[k] \in chars) /\ (n < N => s[n + 1] \notin chars)
    BY <2>1, SplitExists
  <2>3. u = <<SubSeq(s, 1, n), SubSeq(s, n + 1, N)>>
    BY <2>1, <2>2, SplitIs
  <2> DEFINE a == SubSeq(s, 1, n)
             b == SubSeq(s, n + 1, N)
  <2>4. a \in Seq(LineChar) /\ Len(a) = n /\ \A i \in 1 .. n : a[i] = s[i]
    <3>1. 1 \in 1 .. N + 1 /\ n \in 0 .. N /\ 1 <= n + 1 /\ n - 1 + 1 = n
      BY <2>1
    <3>2. a \in Seq(LineChar) /\ Len(a) = n - 1 + 1 /\ \A i \in 1 .. n - 1 + 1 : a[i] = s[1 + i - 1]
      BY <2>1, <3>1, PartOf
    <3> HIDE DEF a
    <3>3. QED BY <3>1, <3>2
  <2>5. b \in Seq(LineChar) /\ Len(b) = N - n /\ (n < N => b[1] = s[n + 1])
    <3>1. n + 1 \in 1 .. N + 1 /\ N \in 0 .. N /\ n + 1 <= N + 1 /\ N - (n + 1) + 1 = N - n
      BY <2>1
    <3>2. b \in Seq(LineChar) /\ Len(b) = N - (n + 1) + 1
          /\ \A i \in 1 .. N - (n + 1) + 1 : b[i] = s[(n + 1) + i - 1]
      BY <2>1, <3>1, PartOf
    <3> HIDE DEF b
    <3>3. n < N => 1 \in 1 .. N - (n + 1) + 1 /\ (n + 1) + 1 - 1 = n + 1
      BY <2>1
    <3>4. QED BY <3>1, <3>2, <3>3
  <2>6. b # <<>> => b[1] \notin chars
    <3> HIDE DEF b
    <3>1. CASE n < N
      BY <2>2, <2>5, <3>1
    <3>2. CASE ~ n < N
      <4>1. Len(b) = 0
        BY <2>1, <2>5, <3>2
      <4>2. QED BY <2>5, <4>1, EmptySeq
    <3>3. QED BY <3>1, <3>2
  <2> HIDE DEF a, b, u
  <2>7. u[1] = a /\ u[2] = b
    BY <2>3 DEF a, b
  <2>8. \A k \in 1 .. Len(u[1]) : u[1][k] \in chars
    BY <2>2, <2>4, <2>7
  <2>9. QED BY <2>4, <2>5, <2>6, <2>7, <2>8 DEF u
<1>2. start \in Seq(LineChar)
  BY <1>1
<1> HIDE DEF start
<1>3. /\ number[1] \in Seq(LineChar) /\ \A k \in 1 .. Len(number[1]) : number[1][k] \in DigitChars
      /\ number[2] \in Seq(LineChar)
  BY <1>1, <1>2
<1> HIDE DEF number
<1>4. text \in Seq(LineChar) /\ (text # <<>> => text[1] \notin SpaceChars)
  BY <1>1, <1>3
<1> HIDE DEF text
<1>5. text \in TidyTexts \cup {<<>>}
  BY <1>4 DEF TidyTexts
<1>6. ReadNumber(number[1]) \in Numbers
  <2> DEFINE d == number[1]
  <2>1. d \in Seq(LineChar) /\ Len(d) \in Nat /\ \A k \in 1 .. Len(d) : d[k] \in DigitChars
    BY <1>3, LenProperties
  <2> HIDE DEF d
  <2>2. d \in [1 .. Len(d) -> DigitChars]
    BY <2>1, LenProperties
  <2>3. d \in Seq(DigitChars)
    BY <2>1, <2>2, SeqDef
  <2>4. ReadNumber(d) \in Numbers
    BY <2>3, ReadWalks
  <2>5. QED BY <2>4 DEF d
<1>7. HandleLine(prog, line) = IF number[1] = <<>> THEN prog
                               ELSE StoreLine(prog, ReadNumber(number[1]), text)
  BY Zenon DEF HandleLine, start, number, text
<1>8. QED BY <1>5, <1>6, <1>7, StoreTidy

\* A line numbered above all others goes to the end, if there is room.
LEMMA StoredBehind ==
    ASSUME NEW prog, Kept(prog), NEW ln \in Numbers, NEW text \in Texts,
           \A r \in LineSet(prog) : r[1] < ln,
           ProgramLen(prog) + Len(text) + 3 <= PROGRAM_SIZE - 2
    PROVE  LET q == StoreLine(prog, ln, text)
           IN  /\ Kept(q) /\ ProgramLen(q) = ProgramLen(prog) + Len(text) + 3
               /\ LineSet(q) = LineSet(prog) \cup {<<ln, text>>}
<1> DEFINE T == Places(prog)
           L == ProgramLen(prog)
           a == FirstNotBelow(prog, ln)
           e == Entry(ln, text)
           q == PutIn(prog, a, e)
<1>1. Walk(prog, T) /\ LineSet(prog) = LinesAt(prog, T)
  BY DEF Kept, LineSet
<1>2. ln \in Nat
  BY DEF Numbers
<1> HIDE DEF T
<1>3. a \in T /\ (a < L => LineNumber(prog, a) >= ln)
  BY <1>1, <1>2, FirstIs
<1>4. /\ L \in Nat /\ Len(prog) = L + 2
      /\ \A b \in T : b \in Nat /\ b <= L
      /\ \A b \in T : b < L => LineNumber(prog, b) \in Nat
  BY <1>1, WalkFacts
<1> HIDE DEF a
<1>5. ASSUME NEW b \in T, b < L PROVE LineNumber(prog, b) < ln
  <2>1. <<LineNumber(prog, b), TextAt(prog, b)>> \in LineSet(prog)
    BY <1>1, <1>5 DEF LinesAt
  <2> DEFINE r == <<LineNumber(prog, b), TextAt(prog, b)>>
  <2>2. r[1] = LineNumber(prog, b)
    OBVIOUS
  <2> HIDE DEF r
  <2>3. r \in LineSet(prog)
    BY <2>1 DEF r
  <2>4. QED BY <2>2, <2>3
<1>6. a = L
  <2>1. ~ a < L
    <3>1. SUFFICES ASSUME a < L PROVE FALSE
      OBVIOUS
    <3>2. LineNumber(prog, a) \in Nat /\ LineNumber(prog, a) >= ln /\ LineNumber(prog, a) < ln
      BY <1>3, <1>4, <1>5, <3>1
    <3>3. QED BY <1>2, <3>2
  <2>2. QED BY <1>3, <1>4, <2>1
<1>7. StoreLine(prog, ln, text) = Closed(q)
  <2>1. text # <<>>
    BY DEF Texts
  <2>2. ~ ProgramLen(prog) + Len(text) + 3 > PROGRAM_SIZE - 2
    <3>1. Len(text) \in Nat
      BY EntryBytes
    <3> DEFINE l == Len(text)
    <3> HIDE DEF l
    <3>2. l \in Nat /\ L + l + 3 <= PROGRAM_SIZE - 2
      BY <3>1 DEF l
    <3> HIDE DEF L
    <3>3. ~ L + l + 3 > PROGRAM_SIZE - 2
      BY <1>4, <3>2, SizeAssumption
    <3>4. QED BY <3>3 DEF L, l
  <2>3. ~ a < ProgramLen(prog)
    BY <1>4, <1>6
  <2>4. WithoutLine(prog, ln) = prog
    BY <2>3 DEF WithoutLine, a
  <2>5. QED BY <2>1, <2>2, <2>4 DEF StoreLine, a
<1>8. /\ LineBytes(e, ln) /\ Len(e) = Len(text) + 3 /\ text \in Seq(Nat) /\ Len(text) \in Nat
      /\ \A i \in 1 .. Len(text) : e[2 + i] = text[i]
  BY EntryBytes
<1>q. q = PutIn(prog, a, Entry(ln, text))
  OBVIOUS
<1> HIDE DEF e
<1>9. PlaceFor(ln, prog, T, a)
  <2>1. \A b \in T : b < a => LineNumber(prog, b) < ln
    BY <1>5, <1>6
  <2>2. \A b \in T : ~ (b >= a /\ b < L)
    BY <1>4, <1>6
  <2>3. QED BY <2>1, <2>2 DEF PlaceFor
<1>p. PICK V : IsPut(prog, T, a, ln, e, q, V)
  BY <1>1, <1>2, <1>3, <1>8, <1>9, PutWalk
<1>10. /\ Walk(q, V) /\ ProgramLen(q) = L + Len(e)
       /\ a \in V /\ a < ProgramLen(q)
       /\ EntryLen(q, a) = Len(e) /\ LineNumber(q, a) = ln
       /\ \A i \in 1 .. Len(e) : Cell(q, a + i - 1) = e[i]
       /\ LinesAt(q, V \ {a}) = LinesAt(prog, T)
  BY <1>p DEF IsPut
<1> HIDE DEF q
<1>11. q \in Seq(Nat) /\ Len(q) = ProgramLen(q) + 2 /\ a \in Nat /\ a + Len(e) <= Len(q)
  <2>1. q \in Seq(Nat) /\ Len(q) = ProgramLen(q) + 2 /\ a \in Nat
    BY <1>10, WalkFacts
  <2>2. QED BY <1>4, <1>6, <1>8, <1>10, <2>1
<1>12. Kept(q) /\ Places(q) = V
  <2>1. Len(q) <= PROGRAM_SIZE
    <3> DEFINE l == Len(text)
    <3>1. l \in Nat /\ L + l + 3 <= PROGRAM_SIZE - 2 /\ Len(q) = L + (l + 3) + 2
      BY <1>8, <1>10, <1>11
    <3> HIDE DEF l, L
    <3>2. QED BY <1>4, <3>1, SizeAssumption
  <2>2. QED BY <1>10, <2>1, WalkKept
<1>13. TextAt(q, a) = text
  <2>1. Len(e) >= 4
    BY <1>8 DEF LineBytes
  <2>2. QED BY <1>8, <1>10, <1>11, <2>1, PutText
<1>14. LineSet(q) = LineSet(prog) \cup {<<ln, text>>}
  <2>1. LinesAt(q, V) = LinesAt(q, V \ {a}) \cup {<<ln, text>>}
    BY <1>10, <1>13 DEF LinesAt
  <2>2. QED BY <1>1, <1>10, <1>12, <2>1 DEF LineSet
<1>15. ProgramLen(q) = L + Len(text) + 3
  BY <1>4, <1>8, <1>10
<1>16. QED BY <1>7, <1>12, <1>14, <1>15, ClosedKept

-----------------------------------------------------------------------------
(* Listings.                                                                *)

LEMMA ListLineChars ==
    ASSUME NEW ln \in Nat, NEW text \in Seq(Nat)
    PROVE  ListLine(ln, text) \in Seq(Nat) /\ ListLine(ln, text) = LineAsTyped(ln, text) \o <<NL>>
<1>1. Digits(ln) \in Seq(Nat)
  <2>1. Digits(ln) \in Seq(DigitChars)
    BY DigitsAre
  <2>2. QED BY <2>1, CharFacts, SeqMonotonic
<1>2. <<SPACE>> \in Seq(Nat) /\ <<NL>> \in Seq(Nat)
  BY DEF SPACE, NL
<1>3. ListLine(ln, text) = ((Digits(ln) \o <<SPACE>>) \o text) \o <<NL>>
  BY DEF ListLine
<1> DEFINE D == Digits(ln)
           o == <<SPACE>>
           z == <<NL>>
<1> HIDE DEF D, o, z
<1>4. D \o o \in Seq(Nat)
  BY <1>1, <1>2, JoinedChars DEF D, o
<1>5. (D \o o) \o text \in Seq(Nat)
  BY <1>4, JoinedChars
<1>6. ((D \o o) \o text) \o z \in Seq(Nat)
  BY <1>2, <1>5, JoinedChars DEF z
<1>7. QED BY <1>3, <1>6 DEF D, o, z, LineAsTyped

LEMMA ListWalks ==
    ASSUME NEW prog \in Seq(Nat), Len(prog) >= 2
    PROVE  /\ Listing(prog) = ListFrom(prog)[0]
           /\ \A a \in 0 .. Len(prog) : ListFrom(prog)[a] \in Seq(Nat) /\ ListFrom(prog)[a] =
                  IF a >= ProgramLen(prog) THEN <<>>
                  ELSE ListLine(LineNumber(prog, a), TextAt(prog, a)) \o ListFrom(prog)[a + EntryLen(prog, a)]
<1> DEFINE N == Len(prog)
           V == Seq(Nat)
           entry(a) == ListLine(LineNumber(prog, a), TextAt(prog, a))
           Stops == {a \in 0 .. N : a >= ProgramLen(prog)}
           next == [a \in 0 .. N |-> a + EntryLen(prog, a)]
           base == [a \in 0 .. N |-> <<>>]
           join == [a \in 0 .. N |-> [v \in V |-> entry(a) \o v]]
<1>1. N \in Nat /\ ProgramLen(prog) = N - 2
  BY LenProperties DEF ProgramLen
<1>2. ASSUME NEW a \in 0 .. N, a < ProgramLen(prog)
      PROVE  /\ next[a] \in 0 .. N /\ next[a] > a /\ next[a] = a + EntryLen(prog, a)
             /\ entry(a) \in Seq(Nat)
  <2>1. /\ a + EntryLen(prog, a) \in 0 .. N /\ a + EntryLen(prog, a) > a
        /\ EndOf(prog, a) \in a + 2 .. N - 1 /\ EntryLen(prog, a) = EndOf(prog, a) - a + 1
    BY <1>1, <1>2, EndExists
  <2>2. \A i \in 1 .. N : prog[i] \in Nat
    BY ElementOfSeq
  <2>3. LineNumber(prog, a) \in Nat
    <3>1. a + 1 \in 1 .. N /\ (a + 1) + 1 \in 1 .. N
      BY <1>1, <1>2
    <3>2. Cell(prog, a) \in Nat /\ Cell(prog, a + 1) \in Nat
      BY <2>2, <3>1 DEF Cell
    <3>3. QED BY <3>2 DEF LineNumber
  <2>4. TextAt(prog, a) \in Seq(Nat)
    <3> DEFINE m == a + 3
               n == a + EntryLen(prog, a) - 1
    <3>1. m \in Int /\ n \in Int /\ m >= 1 /\ n <= N
      BY <2>1
    <3> HIDE DEF m, n
    <3>2. \A i \in m .. n : prog[i] \in Nat
      BY <1>1, <2>2, <3>1
    <3>3. SubSeq(prog, m, n) \in Seq(Nat)
      BY <3>1, <3>2, SubSeqProperties
    <3>4. QED BY <3>3 DEF TextAt, m, n
  <2>5. entry(a) \in Seq(Nat)
    BY <2>3, <2>4, ListLineChars
  <2>6. QED BY <2>1, <2>5
<1> HIDE DEF entry
<1>3. \A a \in 0 .. N : a \in Stops => base[a] \in V
  BY EmptySeq
<1>4. \A a \in 0 .. N : a \notin Stops =>
          /\ next[a] \in 0 .. N /\ next[a] > a
          /\ \A v \in V : join[a][v] \in V
  <2>1. ASSUME NEW a \in 0 .. N, a \notin Stops PROVE a < ProgramLen(prog)
    BY <1>1, <2>1
  <2>2. ASSUME NEW a \in 0 .. N, a \notin Stops, NEW v \in V PROVE join[a][v] \in V
    <3>1. entry(a) \in Seq(Nat)
      BY <1>2, <2>1, <2>2
    <3>2. entry(a) \o v \in Seq(Nat)
      BY <3>1, JoinedChars
    <3>3. QED BY <3>2
  <2> HIDE DEF Stops, next, join
  <2>3. QED BY <2>1, <2>2, <1>2
<1>5. PICK f \in [0 .. N -> V] :
          \A a \in 0 .. N : f[a] = IF a \in Stops THEN base[a] ELSE join[a][f[next[a]]]
  <2> HIDE DEF N, V, Stops, next, base, join
  <2>1. GoesUp(N, V, Stops, next, base, join)
    BY <1>1, <1>3, <1>4 DEF GoesUp
  <2>2. Recursive(N, V, Stops, next, base, join)
    BY <2>1, WalkUp
  <2>3. QED BY <2>2 DEF Recursive
<1>6. ASSUME NEW a \in 0 .. N
      PROVE  f[a] = IF a >= ProgramLen(prog) THEN <<>> ELSE entry(a) \o f[a + EntryLen(prog, a)]
  <2>1. CASE a \in Stops
    BY <1>5, <2>1
  <2>2. CASE a \notin Stops
    <3>0. a < ProgramLen(prog)
      BY <1>1, <2>2
    <3>1. next[a] \in 0 .. N /\ next[a] = a + EntryLen(prog, a)
      BY <1>2, <3>0
    <3>2. f[next[a]] \in V
      BY <1>5, <3>1
    <3>3. join[a][f[next[a]]] = entry(a) \o f[next[a]]
      BY <3>2
    <3>4. f[a] = entry(a) \o f[a + EntryLen(prog, a)]
      BY <1>5, <2>2, <3>1, <3>3
    <3>5. QED BY <2>2, <3>4
  <2>3. QED BY <2>1, <2>2
<1>7. f = [a \in 0 .. N |-> IF a >= ProgramLen(prog) THEN <<>> ELSE entry(a) \o f[a + EntryLen(prog, a)]]
  BY <1>5, <1>6
<1>8. ListFrom(prog) = [a \in 0 .. N |-> IF a >= ProgramLen(prog) THEN <<>>
                                        ELSE entry(a) \o ListFrom(prog)[a + EntryLen(prog, a)]]
  BY <1>7, Zenon DEF ListFrom, entry
<1>9. Listing(prog) = ListFrom(prog)[0]
  BY Zenon DEF Listing, ListFrom
<1>10. \A a \in 0 .. N : ListFrom(prog)[a] =
           IF a >= ProgramLen(prog) THEN <<>> ELSE entry(a) \o ListFrom(prog)[a + EntryLen(prog, a)]
  BY <1>8, Zenon
<1>11. \A a \in 0 .. N : ListFrom(prog)[a] \in Seq(Nat)
  <2> DEFINE P == {a \in 0 .. N : ListFrom(prog)[a] \notin Seq(Nat)}
             Q == {N - a : a \in P}
  <2>1. SUFFICES ASSUME P # {} PROVE FALSE
    OBVIOUS
  <2>2. Q \in SUBSET Nat /\ Q # {}
    BY <1>1, <2>1
  <2> HIDE DEF Q
  <2>3. PICK j \in Q : \A i \in Q : j <= i
    BY <2>2, LeastExists
  <2>4. PICK a \in P : j = N - a
    BY DEF Q
  <2>5. \A b \in P : ~ b > a
    <3>1. ASSUME NEW b \in P, b > a PROVE FALSE
      <4>1. N - b \in Q /\ N - b < N - a
        BY <1>1, <2>4, <3>1 DEF Q
      <4>2. QED BY <1>1, <2>3, <2>4, <4>1
    <3>2. QED BY <3>1
  <2>6. CASE a >= ProgramLen(prog)
    <3>1. ListFrom(prog)[a] = <<>>
      BY <1>10, <2>4, <2>6
    <3>2. QED BY <2>4, <3>1, EmptySeq
  <2>7. CASE ~ a >= ProgramLen(prog)
    <3>1. a < ProgramLen(prog) /\ a \in 0 .. N
      BY <1>1, <2>4, <2>7
    <3>2. a + EntryLen(prog, a) \in 0 .. N /\ a + EntryLen(prog, a) > a /\ entry(a) \in Seq(Nat)
      BY <1>2, <3>1
    <3>3. ListFrom(prog)[a + EntryLen(prog, a)] \in Seq(Nat)
      BY <2>5, <3>2
    <3>4. ListFrom(prog)[a] = entry(a) \o ListFrom(prog)[a + EntryLen(prog, a)]
      BY <1>10, <2>7, <3>1
    <3>5. QED BY <2>4, <3>2, <3>3, <3>4, JoinedChars
  <2>8. QED BY <2>6, <2>7
<1>12. QED BY <1>9, <1>10, <1>11 DEF entry

\* A text whose first line is l, and the rest of it.
LineText == LineChar \cup {NL}
FirstLine(s, l, t) ==
    /\ l \in Seq(LineChar) /\ Len(l) \in Nat /\ t \in Seq(LineText) /\ Len(t) \in Nat
    /\ s \in Seq(LineText) /\ Len(s) = Len(l) + 1 + Len(t)
    /\ \A i \in 1 .. Len(l) : s[i] = l[i]
    /\ s[Len(l) + 1] = NL
    /\ \A i \in 1 .. Len(t) : s[Len(l) + 1 + i] = t[i]

LEMMA LineFirst ==
    ASSUME NEW l \in Seq(LineChar), NEW t \in Seq(LineText)
    PROVE  FirstLine((l \o <<NL>>) \o t, l, t)
<1> DEFINE o == <<NL>>
           h == l \o o
           s == h \o t
<1>1. l \in Seq(LineText) /\ o \in Seq(LineText) /\ Len(o) = 1 /\ o[1] = NL
  <2>1. l \in Seq(LineText)
    BY SeqMonotonic DEF LineText
  <2>2. QED BY <2>1 DEF LineText
<1>l. l \in Seq(LineText)
  BY <1>1
<1> HIDE DEF o, h, s
<1>2. /\ h \in Seq(LineText) /\ Len(h) = Len(l) + 1 /\ Len(l) \in Nat
      /\ \A i \in 1 .. Len(l) : h[i] = l[i]
      /\ h[Len(l) + 1] = NL
  <2>1. /\ l \o o \in Seq(LineText) /\ Len(l \o o) = Len(l) + Len(o) /\ Len(l) \in Nat
        /\ \A i \in 1 .. Len(l) : (l \o o)[i] = l[i]
        /\ \A i \in 1 .. Len(o) : (l \o o)[Len(l) + i] = o[i]
    <3>1. l \in Seq(LineText) /\ o \in Seq(LineText)
      BY <1>1, <1>l
    <3>2. QED BY <3>1, JoinedChars
  <2>2. 1 \in 1 .. Len(o)
    BY <1>1
  <2>3. QED BY <1>1, <2>1, <2>2 DEF h
<1>3. /\ s \in Seq(LineText) /\ Len(s) = Len(h) + Len(t) /\ Len(t) \in Nat
      /\ \A i \in 1 .. Len(h) : s[i] = h[i]
      /\ \A i \in 1 .. Len(t) : s[Len(h) + i] = t[i]
  <2>1. /\ h \o t \in Seq(LineText) /\ Len(h \o t) = Len(h) + Len(t) /\ Len(t) \in Nat
        /\ \A i \in 1 .. Len(h) : (h \o t)[i] = h[i]
        /\ \A i \in 1 .. Len(t) : (h \o t)[Len(h) + i] = t[i]
    <3>1. h \in Seq(LineText) /\ t \in Seq(LineText)
      BY <1>2
    <3>2. QED BY <3>1, JoinedChars
  <2>2. QED BY <2>1 DEF s
<1>4. \A i \in 1 .. Len(l) : s[i] = l[i]
  <2>1. ASSUME NEW i \in 1 .. Len(l) PROVE s[i] = l[i]
    <3>1. i \in 1 .. Len(h)
      BY <1>2
    <3>2. QED BY <1>2, <1>3, <3>1
  <2>2. QED BY <2>1
<1>5. s[Len(l) + 1] = NL
  <2>1. Len(l) + 1 \in 1 .. Len(h)
    BY <1>2
  <2>2. QED BY <1>2, <1>3, <2>1
<1>6. FirstLine(s, l, t)
  BY <1>2, <1>3, <1>4, <1>5 DEF FirstLine
<1>7. QED BY <1>6 DEF s, h, o

LEMMA ListsLines ==
    ASSUME NEW prog, Tidy(prog)
    PROVE  /\ Listing(prog) = ListFrom(prog)[0] /\ ListFrom(prog)[ProgramLen(prog)] = <<>>
           /\ \A a \in Places(prog) : ListFrom(prog)[a] \in Seq(LineText)
           /\ \A a \in Places(prog) : a < ProgramLen(prog) =>
                 /\ <<LineNumber(prog, a), TextAt(prog, a)>> \in LineSet(prog)
                 /\ LineNumber(prog, a) \in Numbers /\ TextAt(prog, a) \in TidyTexts
                 /\ EntryLen(prog, a) \in Nat /\ a + EntryLen(prog, a) \in Places(prog)
                 /\ Len(TextAt(prog, a)) = EntryLen(prog, a) - 3
                 /\ ListLine(LineNumber(prog, a), TextAt(prog, a))
                        = LineAsTyped(LineNumber(prog, a), TextAt(prog, a)) \o <<NL>>
                 /\ FirstLine(ListFrom(prog)[a], LineAsTyped(LineNumber(prog, a), TextAt(prog, a)),
                              ListFrom(prog)[a + EntryLen(prog, a)])
<1> DEFINE T == Places(prog)
           L == ProgramLen(prog)
           f == ListFrom(prog)
           ln(a) == LineNumber(prog, a)
           text(a) == TextAt(prog, a)
           n(a) == EntryLen(prog, a)
<1>0. Kept(prog) /\ \A r \in LineSet(prog) : r[1] \in Numbers /\ r[2] \in TidyTexts
  BY DEF Tidy
<1>1. /\ prog \in Seq(Nat) /\ Len(prog) \in Nat /\ Len(prog) >= 2 /\ L \in Nat /\ Len(prog) = L + 2
      /\ \A a \in T : a \in Nat /\ a <= L
      /\ \A a \in T : a < L => a \in LineStarts(prog)
      /\ \A a \in LineStarts(prog) : n(a) \in Nat /\ n(a) >= 4 /\ a + n(a) \in T
  BY <1>0, KeptFacts
<1>2. /\ Listing(prog) = f[0]
      /\ \A a \in 0 .. Len(prog) : f[a] = IF a >= L THEN <<>> ELSE ListLine(ln(a), text(a)) \o f[a + n(a)]
  BY <1>1, ListWalks
<1>3. Walk(prog, T) /\ LineSet(prog) = LinesAt(prog, T) /\ L \in T
  BY <1>0 DEF Kept, LineSet, Places
<1> HIDE DEF T, L, f
<1>4. ASSUME NEW a \in T, a < L
      PROVE  /\ <<ln(a), text(a)>> \in LineSet(prog) /\ ln(a) \in Numbers /\ text(a) \in TidyTexts
             /\ n(a) \in Nat /\ a + n(a) \in T /\ Len(text(a)) = n(a) - 3
             /\ ListLine(ln(a), text(a)) = LineAsTyped(ln(a), text(a)) \o <<NL>>
             /\ LineAsTyped(ln(a), text(a)) \in Seq(LineChar)
  <2>1. <<ln(a), text(a)>> \in LineSet(prog)
    BY <1>3, <1>4 DEF LinesAt, L
  <2> DEFINE r == <<ln(a), text(a)>>
  <2>2. r[1] = ln(a) /\ r[2] = text(a)
    OBVIOUS
  <2> HIDE DEF r
  <2>3. ln(a) \in Numbers /\ text(a) \in TidyTexts
    BY <1>0, <2>1, <2>2 DEF r
  <2>4. n(a) \in Nat /\ n(a) >= 4 /\ a + n(a) \in T /\ a + n(a) <= Len(prog) /\ a \in Nat
    BY <1>1, <1>4
  <2>5. Len(text(a)) = n(a) - 3
    BY <1>1, <2>4, TextIs
  <2>6. text(a) \in Texts /\ ln(a) \in Nat
    BY <2>3, TidyIsText DEF Numbers
  <2>7. text(a) \in Seq(Nat)
    BY <2>6 DEF Texts
  <2>8. ListLine(ln(a), text(a)) = LineAsTyped(ln(a), text(a)) \o <<NL>>
    BY <2>6, <2>7, ListLineChars
  <2>9. LineAsTyped(ln(a), text(a)) \in Seq(LineChar)
    BY <2>3, TypedChars DEF TypedFrom
  <2>10. QED BY <2>1, <2>3, <2>4, <2>5, <2>8, <2>9
<1>5. f[L] = <<>>
  BY <1>1, <1>2
<1> DEFINE P == {a \in T : f[a] \in Seq(LineText)}
<1>6. ASSUME NEW a \in T, a < L, f[a + n(a)] \in Seq(LineText)
      PROVE  FirstLine(f[a], LineAsTyped(ln(a), text(a)), f[a + n(a)])
  <2>1. f[a] = (LineAsTyped(ln(a), text(a)) \o <<NL>>) \o f[a + n(a)]
    <3>1. a \in 0 .. Len(prog) /\ ~ a >= L
      BY <1>1, <1>6
    <3>2. QED BY <1>2, <1>4, <1>6, <3>1
  <2>2. LineAsTyped(ln(a), text(a)) \in Seq(LineChar)
    BY <1>4, <1>6
  <2>3. QED BY <1>6, <2>1, <2>2, LineFirst
<1>7. T \subseteq P
  <2>1. L \in P
    BY <1>3, <1>5, EmptySeq
  <2>2. ASSUME NEW a \in T, a < L, a + n(a) \in P PROVE a \in P
    BY <1>6, <2>2 DEF FirstLine
  <2> HIDE DEF P
  <2>3. ProgramLen(prog) \in P
    BY <2>1 DEF L
  <2>4. \A a \in T : a < ProgramLen(prog) /\ a + EntryLen(prog, a) \in P => a \in P
    BY <2>2 DEF L
  <2>5. QED BY <1>3, <2>3, <2>4, FromTheEnd
<1>8. \A a \in T : f[a] \in Seq(LineText)
  BY <1>7
<1>9. ASSUME NEW a \in T, a < L
      PROVE  FirstLine(f[a], LineAsTyped(ln(a), text(a)), f[a + n(a)])
  BY <1>4, <1>6, <1>8, <1>9
<1>10. QED BY <1>2, <1>4, <1>5, <1>8, <1>9 DEF T, L, f

LEMMA Bytes ==
    ASSUME NEW prog, Tidy(prog), NEW s \in Slot
    PROVE  /\ Listing(prog) \in Seq(LineText) /\ Listing(prog) \in Seq(Char) /\ Len(Listing(prog)) \in Nat
           /\ \A i \in 1 .. Len(Listing(prog)) : Listing(prog)[i] # EOF
           /\ SaveBytes(s, prog) \in Seq(Char) /\ Len(SaveBytes(s, prog)) = Len(Listing(prog)) + 3
           /\ SaveBytes(s, prog)[1] = CmdS /\ SaveBytes(s, prog)[2] = Digit(s)
           /\ \A i \in 1 .. Len(Listing(prog)) : SaveBytes(s, prog)[2 + i] = Listing(prog)[i]
           /\ SaveBytes(s, prog)[Len(Listing(prog)) + 3] = EOF
           /\ LoadBytes(s) \in Seq(Char) /\ Len(LoadBytes(s)) = 2
           /\ LoadBytes(s)[1] = CmdL /\ LoadBytes(s)[2] = Digit(s)
<1> DEFINE x == Listing(prog)
           h == <<CmdS, Digit(s)>>
           o == <<EOF>>
           u == h \o x
<1>1. x \in Seq(LineText) /\ Len(x) \in Nat
  <2>1. 0 \in Places(prog)
    BY KeptFacts DEF Tidy
  <2>2. Listing(prog) \in Seq(LineText)
    BY <2>1, ListsLines
  <2>3. QED BY <2>2, LenProperties
<1>2. LineText \subseteq Char /\ EOF \notin LineText
  BY CharFacts DEF LineText
<1>3. x \in Seq(Char) /\ \A i \in 1 .. Len(x) : x[i] # EOF
  <2>1. Listing(prog) \in Seq(Char)
    BY <1>1, <1>2, SeqMonotonic
  <2>2. \A i \in 1 .. Len(x) : x[i] \in LineText
    BY <1>1, ElementOfSeq
  <2>3. QED BY <1>2, <2>1, <2>2
<1>4. Digit(s) \in Char /\ CmdS \in Char /\ CmdL \in Char
  BY SlotAssumption DEF Digit, Char, CmdS, CmdL
<1>5. h \in Seq(Char) /\ Len(h) = 2 /\ h[1] = CmdS /\ h[2] = Digit(s)
  BY <1>4
<1>6. o \in Seq(Char) /\ Len(o) = 1 /\ o[1] = EOF
  BY CharFacts
<1>7. /\ LoadBytes(s) \in Seq(Char) /\ Len(LoadBytes(s)) = 2
      /\ LoadBytes(s)[1] = CmdL /\ LoadBytes(s)[2] = Digit(s)
  BY <1>4 DEF LoadBytes
<1>8. SaveBytes(s, prog) = u \o o
  BY DEF SaveBytes
<1> HIDE DEF x, h, o, u
<1>9. /\ u \in Seq(Char) /\ Len(u) = 2 + Len(x) /\ u[1] = CmdS /\ u[2] = Digit(s)
      /\ \A i \in 1 .. Len(x) : u[2 + i] = x[i]
  <2>1. /\ h \o x \in Seq(Char) /\ Len(h \o x) = Len(h) + Len(x)
        /\ \A i \in 1 .. Len(h) : (h \o x)[i] = h[i]
        /\ \A i \in 1 .. Len(x) : (h \o x)[Len(h) + i] = x[i]
    <3>1. h \in Seq(Char) /\ x \in Seq(Char)
      BY <1>3, <1>5
    <3>2. QED BY <3>1, JoinedChars
  <2>2. 1 \in 1 .. Len(h) /\ 2 \in 1 .. Len(h)
    BY <1>5
  <2>3. QED BY <1>5, <2>1, <2>2 DEF u
<1>10. /\ u \o o \in Seq(Char) /\ Len(u \o o) = Len(x) + 3
       /\ (u \o o)[1] = CmdS /\ (u \o o)[2] = Digit(s)
       /\ \A i \in 1 .. Len(x) : (u \o o)[2 + i] = x[i]
       /\ (u \o o)[Len(x) + 3] = EOF
  <2>1. /\ u \o o \in Seq(Char) /\ Len(u \o o) = Len(u) + Len(o)
        /\ \A i \in 1 .. Len(u) : (u \o o)[i] = u[i]
        /\ \A i \in 1 .. Len(o) : (u \o o)[Len(u) + i] = o[i]
    <3>1. u \in Seq(Char) /\ o \in Seq(Char)
      BY <1>6, <1>9
    <3>2. QED BY <3>1, JoinedChars
  <2>2. 1 \in 1 .. Len(u) /\ 2 \in 1 .. Len(u) /\ 1 \in 1 .. Len(o) /\ Len(u) + 1 = Len(x) + 3
    BY <1>1, <1>6, <1>9
  <2>3. \A i \in 1 .. Len(x) : 2 + i \in 1 .. Len(u)
    BY <1>1, <1>9
  <2>4. (u \o o)[Len(x) + 3] = EOF
    BY <1>6, <2>1, <2>2
  <2>5. (u \o o)[1] = CmdS /\ (u \o o)[2] = Digit(s)
    BY <1>9, <2>1, <2>2
  <2>6. \A i \in 1 .. Len(x) : (u \o o)[2 + i] = x[i]
    BY <1>9, <2>1, <2>3
  <2>7. Len(u \o o) = Len(x) + 3
    BY <1>1, <1>6, <1>9, <2>1
  <2>8. QED BY <2>1, <2>4, <2>5, <2>6, <2>7
<1>11. QED BY <1>1, <1>3, <1>7, <1>8, <1>10 DEF x

-----------------------------------------------------------------------------
(* Bytes on their way.                                                      *)

LEMMA FirstOf ==
    ASSUME NEW Letters, NEW d \in Seq(Letters), d # <<>>
    PROVE  /\ Head(d) = d[1] /\ Head(d) \in Letters /\ Tail(d) \in Seq(Letters)
           /\ Len(d) \in Nat /\ Len(d) >= 1 /\ Len(Tail(d)) = Len(d) - 1
           /\ \A i \in 1 .. Len(d) - 1 : Tail(d)[i] = d[i + 1]
<1>1. Len(d) \in Nat /\ Len(d) >= 1
  <2>1. Len(d) \in Nat \ {0}
    BY EmptySeq
  <2>2. QED BY <2>1
<1>2. Head(d) \in Letters /\ Tail(d) \in Seq(Letters) /\ Len(Tail(d)) = Len(d) - 1
      /\ \A i \in 1 .. Len(Tail(d)) : Tail(d)[i] = d[i + 1]
  BY HeadTailProperties
<1>3. Head(d) = d[1]
  OBVIOUS
<1>4. QED BY <1>1, <1>2, <1>3

LEMMA LongerBy ==
    ASSUME NEW Letters, NEW d \in Seq(Letters), NEW c \in Letters
    PROVE  /\ Append(d, c) \in Seq(Letters) /\ Len(d) \in Nat /\ Len(Append(d, c)) = Len(d) + 1
           /\ \A i \in 1 .. Len(d) : Append(d, c)[i] = d[i]
           /\ Append(d, c)[Len(d) + 1] = c
BY LenProperties, AppendProperties

LEMMA SentOn ==
    ASSUME NEW b \in Seq(Char), NEW n \in Nat, NEW d \in Seq(Char), NEW o \in Seq(Char), o # <<>>,
           UnderWay(b, n, d, o)
    PROVE  UnderWay(b, n, Append(d, Head(o)), Tail(o))
<1>1. /\ Head(o) = o[1] /\ Head(o) \in Char
      /\ Len(o) \in Nat /\ Len(o) >= 1 /\ Len(Tail(o)) = Len(o) - 1
      /\ \A i \in 1 .. Len(o) - 1 : Tail(o)[i] = o[i + 1]
  BY FirstOf
<1> DEFINE c == Head(o)
           e == Append(d, c)
           t == Tail(o)
<1>2. /\ Len(d) \in Nat /\ Len(e) = Len(d) + 1
      /\ \A i \in 1 .. Len(d) : e[i] = d[i]
      /\ e[Len(d) + 1] = c
  BY <1>1, LongerBy
<1>3. Len(b) \in Nat
  BY LenProperties
<1>4. /\ n + Len(d) + Len(o) <= Len(b)
      /\ \A i \in 1 .. Len(d) : d[i] = b[n + i]
      /\ \A i \in 1 .. Len(o) : o[i] = b[n + Len(d) + i]
  BY DEF UnderWay
<1>5. c = b[n + (Len(d) + 1)]
  <2>1. 1 \in 1 .. Len(o) /\ n + Len(d) + 1 = n + (Len(d) + 1)
    BY <1>1, <1>2
  <2>2. o[1] = b[n + Len(d) + 1]
    BY <1>4, <2>1
  <2>3. QED BY <1>1, <2>1, <2>2
<1> HIDE DEF c, e, t
<1>6. n + Len(e) + Len(t) <= Len(b)
  BY <1>1, <1>2, <1>3, <1>4 DEF t
<1>7. ASSUME NEW i \in 1 .. Len(e) PROVE e[i] = b[n + i]
  <2>1. CASE i \in 1 .. Len(d)
    BY <1>2, <1>4, <2>1
  <2>2. CASE i = Len(d) + 1
    BY <1>2, <1>5, <2>2
  <2>3. QED BY <1>2, <2>1, <2>2
<1>8. ASSUME NEW i \in 1 .. Len(t) PROVE t[i] = b[n + Len(e) + i]
  <2>1. i \in 1 .. Len(o) - 1 /\ i + 1 \in 1 .. Len(o) /\ n + Len(d) + (i + 1) = n + Len(e) + i
    BY <1>1, <1>2 DEF t
  <2>2. t[i] = o[i + 1]
    BY <1>1, <2>1 DEF t
  <2>3. o[i + 1] = b[n + Len(d) + (i + 1)]
    BY <1>4, <2>1
  <2>4. QED BY <2>1, <2>2, <2>3
<1>9. UnderWay(b, n, e, t)
  BY <1>6, <1>7, <1>8 DEF UnderWay
<1>10. QED BY <1>9 DEF e, t, c

LEMMA ReadOn ==
    ASSUME NEW b \in Seq(Char), NEW n \in Nat, NEW d \in Seq(Char), NEW o \in Seq(Char), d # <<>>,
           UnderWay(b, n, d, o)
    PROVE  /\ Head(d) = b[n + 1] /\ n + 1 <= Len(b) /\ UnderWay(b, n + 1, Tail(d), o)
           /\ n + 1 = Len(b) => Tail(d) = <<>> /\ o = <<>>
<1> DEFINE t == Tail(d)
<1>1. /\ Head(d) = d[1] /\ t \in Seq(Char)
      /\ Len(d) \in Nat /\ Len(d) >= 1 /\ Len(t) = Len(d) - 1
      /\ \A i \in 1 .. Len(d) - 1 : t[i] = d[i + 1]
  BY FirstOf
<1>2. Len(b) \in Nat /\ Len(o) \in Nat
  BY LenProperties
<1>3. /\ n + Len(d) + Len(o) <= Len(b)
      /\ \A i \in 1 .. Len(d) : d[i] = b[n + i]
      /\ \A i \in 1 .. Len(o) : o[i] = b[n + Len(d) + i]
  BY DEF UnderWay
<1> HIDE DEF t
<1>4. Head(d) = b[n + 1] /\ n + 1 <= Len(b)
  <2>1. 1 \in 1 .. Len(d)
    BY <1>1
  <2>2. QED BY <1>1, <1>2, <1>3, <2>1
<1>5. (n + 1) + Len(t) + Len(o) <= Len(b)
  BY <1>1, <1>2, <1>3
<1>6. ASSUME NEW i \in 1 .. Len(t) PROVE t[i] = b[(n + 1) + i]
  <2>1. i \in 1 .. Len(d) - 1 /\ i + 1 \in 1 .. Len(d) /\ n + (i + 1) = (n + 1) + i
    BY <1>1
  <2>2. t[i] = d[i + 1] /\ d[i + 1] = b[n + (i + 1)]
    BY <1>1, <1>3, <2>1
  <2>3. QED BY <2>1, <2>2
<1>7. ASSUME NEW i \in 1 .. Len(o) PROVE o[i] = b[(n + 1) + Len(t) + i]
  <2>1. (n + 1) + Len(t) + i = n + Len(d) + i
    BY <1>1
  <2>2. QED BY <1>3, <2>1
<1>8. UnderWay(b, n + 1, t, o)
  BY <1>5, <1>6, <1>7 DEF UnderWay
<1>9. n + 1 = Len(b) => t = <<>> /\ o = <<>>
  <2>1. SUFFICES ASSUME n + 1 = Len(b) PROVE t = <<>> /\ o = <<>>
    OBVIOUS
  <2>2. Len(t) = 0 /\ Len(o) = 0
    BY <1>1, <1>2, <1>3, <2>1
  <2>3. QED BY <1>1, <2>2, EmptySeq
<1>10. QED BY <1>4, <1>8, <1>9 DEF t

LEMMA CutShort ==
    ASSUME NEW b \in Seq(Char), NEW n \in Nat, NEW d \in Seq(Char), NEW o \in Seq(Char),
           UnderWay(b, n, d, o)
    PROVE  UnderWay(b, n, d, <<>>)
<1>1. Len(b) \in Nat /\ Len(d) \in Nat /\ Len(o) \in Nat /\ Len(<<>>) = 0
  BY LenProperties
<1>2. n + Len(d) + Len(o) <= Len(b) /\ \A i \in 1 .. Len(d) : d[i] = b[n + i]
  BY DEF UnderWay
<1>3. n + Len(d) + 0 <= Len(b)
  BY <1>1, <1>2
<1>4. QED BY <1>1, <1>2, <1>3 DEF UnderWay

-----------------------------------------------------------------------------
(* CLOAD takes a listing.                                                   *)

LEMMA LoadedFacts ==
    ASSUME NEW prog, NEW a, NEW q, NEW buf, NEW rest
    PROVE  LoadedTo(prog, a, q, buf, rest) <=>
               /\ ProgramLen(q) = a /\ LineSet(q) = LinesAt(prog, {b \in Places(prog) : b < a})
               /\ Len(buf) + Len(rest) - 1 <= Len(ListFrom(prog)[a])
               /\ \A i \in 1 .. Len(buf) : buf[i] = ListFrom(prog)[a][i]
               /\ \A i \in 1 .. Len(rest) - 1 : rest[i] = ListFrom(prog)[a][Len(buf) + i]
               /\ rest[Len(rest)] = EOF
               /\ Len(Listing(prog)) <= SLOT_MAX_LEN =>
                      Len(buf) + Len(rest) - 1 = Len(ListFrom(prog)[a])
BY DEF LoadedTo

LEMMA AtLine ==
    ASSUME NEW prog, Tidy(prog), Listable(prog), NEW a \in Places(prog), NEW q,
           NEW buf \in Seq(LineChar), NEW rest \in Seq(Char), Len(rest) >= 2,
           LoadedTo(prog, a, q, buf, rest)
    PROVE  LET l == LineAsTyped(LineNumber(prog, a), TextAt(prog, a))
           IN  /\ a < ProgramLen(prog) /\ l \in Seq(LineChar)
               /\ Len(buf) \in Nat /\ Len(l) \in Nat /\ Len(buf) <= Len(l)
               /\ Len(buf) < Len(l) => /\ Head(rest) = ListFrom(prog)[a][Len(buf) + 1]
                                       /\ Head(rest) \in LineChar
                                       /\ Len(buf) < LineMax - 1
               /\ Len(buf) = Len(l) => Head(rest) = NL /\ buf = l
<1> DEFINE s == ListFrom(prog)[a]
           l == LineAsTyped(LineNumber(prog, a), TextAt(prog, a))
           t == ListFrom(prog)[a + EntryLen(prog, a)]
           B == Len(buf)
           R == Len(rest)
           N == Len(s)
<1>1. /\ B + R - 1 <= N
      /\ \A i \in 1 .. B : buf[i] = s[i]
      /\ \A i \in 1 .. R - 1 : rest[i] = s[B + i]
  BY LoadedFacts
<1>2. B \in Nat /\ R \in Nat
  BY LenProperties
<1>3. s \in Seq(LineText) /\ N \in Nat
  <2>1. ListFrom(prog)[a] \in Seq(LineText)
    BY ListsLines
  <2>2. QED BY <2>1, LenProperties
<1>4. a < ProgramLen(prog)
  <2>1. a \in Nat /\ ProgramLen(prog) \in Nat /\ a <= ProgramLen(prog)
    BY KeptFacts DEF Tidy
  <2>2. ListFrom(prog)[ProgramLen(prog)] = <<>> /\ Len(<<>>) = 0
    BY ListsLines
  <2>3. N # 0
    BY <1>1, <1>2, <1>3
  <2>4. QED BY <2>1, <2>2, <2>3
<1>5. FirstLine(s, l, t) /\ ListLine(LineNumber(prog, a), TextAt(prog, a)) = l \o <<NL>>
  BY <1>4, ListsLines
<1>6. Len(l) < LineMax
  <2>1. a \in LineStarts(prog)
    BY <1>4, KeptFacts DEF Tidy
  <2>2. Len(l \o <<NL>>) <= LineMax
    BY <1>5, <2>1 DEF Listable
  <2>3. l \in Seq(LineChar) /\ Len(l) \in Nat
    BY <1>5 DEF FirstLine
  <2> HIDE DEF l
  <2>4. Len(l \o <<NL>>) = Len(l) + 1
    BY <2>3
  <2>5. QED BY <2>2, <2>3, <2>4, LimitAssumption
<1> HIDE DEF s, l, t
<1>7. /\ l \in Seq(LineChar) /\ Len(l) \in Nat
      /\ \A i \in 1 .. Len(l) : s[i] = l[i]
      /\ s[Len(l) + 1] = NL
  BY <1>5 DEF FirstLine
<1>8. B <= Len(l)
  <2>1. SUFFICES ASSUME B > Len(l) PROVE FALSE
    BY <1>2, <1>7
  <2>2. Len(l) + 1 \in 1 .. B
    BY <1>2, <1>7, <2>1
  <2>3. buf[Len(l) + 1] = NL
    BY <1>1, <1>7, <2>2
  <2>4. buf[Len(l) + 1] \in LineChar
    BY <2>2, ElementOfSeq
  <2>5. QED BY <2>3, <2>4, CharFacts
<1>9. Head(rest) = s[B + 1]
  <2>1. rest # <<>> /\ 1 \in 1 .. R - 1
    BY <1>2
  <2>2. Head(rest) = rest[1]
    BY <2>1, FirstOf
  <2>3. QED BY <1>1, <2>1, <2>2
<1>10. ASSUME B < Len(l) PROVE Head(rest) \in LineChar /\ B < LineMax - 1
  <2>1. B + 1 \in 1 .. Len(l)
    BY <1>2, <1>7, <1>10
  <2>2. s[B + 1] = l[B + 1]
    BY <1>7, <2>1
  <2>3. l[B + 1] \in LineChar
    BY <1>7, <2>1, ElementOfSeq
  <2>4. B < LineMax - 1
    BY <1>2, <1>6, <1>7, <1>10, LimitAssumption
  <2>5. QED BY <1>9, <2>2, <2>3, <2>4
<1>11. ASSUME B = Len(l) PROVE Head(rest) = NL /\ buf = l
  <2>1. Head(rest) = NL
    BY <1>7, <1>9, <1>11
  <2>2. \A i \in 1 .. Len(buf) : buf[i] = l[i]
    BY <1>1, <1>7, <1>11
  <2>3. buf = l
    BY <1>7, <1>11, <2>2, SeqEqual
  <2>4. QED BY <2>1, <2>3
<1>12. QED BY <1>2, <1>4, <1>7, <1>8, <1>9, <1>10, <1>11 DEF l, s

\* A character of a line.
LEMMA TakesChar ==
    ASSUME NEW prog, NEW a, NEW q, NEW buf \in Seq(LineChar), NEW rest \in Seq(Char), Len(rest) >= 2,
           LoadedTo(prog, a, q, buf, rest), Len(ListFrom(prog)[a]) \in Nat,
           Head(rest) = ListFrom(prog)[a][Len(buf) + 1], Head(rest) \in LineChar
    PROVE  LoadedTo(prog, a, q, Append(buf, Head(rest)), Tail(rest))
<1> DEFINE s == ListFrom(prog)[a]
           c == Head(rest)
           u == Append(buf, c)
           t == Tail(rest)
           B == Len(buf)
           R == Len(rest)
           N == Len(s)
           fits == Len(Listing(prog)) <= SLOT_MAX_LEN
<1>1. /\ ProgramLen(q) = a /\ LineSet(q) = LinesAt(prog, {b \in Places(prog) : b < a})
      /\ B + R - 1 <= N
      /\ \A i \in 1 .. B : buf[i] = s[i]
      /\ \A i \in 1 .. R - 1 : rest[i] = s[B + i]
      /\ rest[R] = EOF
      /\ fits => B + R - 1 = N
  BY LoadedFacts
<1>2. c = s[B + 1] /\ c \in LineChar
  OBVIOUS
<1>3. /\ B \in Nat /\ Len(u) = B + 1
      /\ \A i \in 1 .. B : u[i] = buf[i]
      /\ u[B + 1] = c
  BY <1>2, LongerBy
<1>4. R \in Nat /\ Len(t) = R - 1 /\ \A i \in 1 .. R - 1 : t[i] = rest[i + 1]
  <2>1. rest # <<>>
    OBVIOUS
  <2>2. QED BY <2>1, FirstOf
<1>5. R >= 2 /\ N \in Nat
  OBVIOUS
<1> HIDE DEF s, c, u, t, fits
<1>6. Len(u) + Len(t) - 1 = B + R - 1
  BY <1>3, <1>4
<1>7. ASSUME NEW i \in 1 .. Len(u) PROVE u[i] = s[i]
  <2>1. CASE i = B + 1
    BY <1>2, <1>3, <2>1
  <2>2. CASE i # B + 1
    <3>1. i \in 1 .. B
      BY <1>3, <2>2
    <3>2. QED BY <1>1, <1>3, <3>1
  <2>3. QED BY <2>1, <2>2
<1>8. ASSUME NEW i \in 1 .. Len(t) - 1 PROVE t[i] = s[Len(u) + i]
  <2>1. i \in 1 .. R - 1 /\ i + 1 \in 1 .. R - 1 /\ B + (i + 1) = Len(u) + i
    BY <1>3, <1>4
  <2>2. t[i] = rest[i + 1]
    BY <1>4, <2>1
  <2>3. rest[i + 1] = s[B + (i + 1)]
    BY <1>1, <2>1
  <2>4. QED BY <2>1, <2>2, <2>3
<1>9. t[Len(t)] = EOF
  <2>1. R - 1 \in 1 .. R - 1 /\ (R - 1) + 1 = R
    BY <1>4, <1>5
  <2>2. t[R - 1] = rest[(R - 1) + 1]
    BY <1>4, <2>1
  <2>3. QED BY <1>1, <1>4, <2>1, <2>2
<1>10. Len(u) + Len(t) - 1 <= N /\ (fits => Len(u) + Len(t) - 1 = N)
  BY <1>1, <1>6
<1>11. LoadedTo(prog, a, q, u, t)
  BY <1>1, <1>7, <1>8, <1>9, <1>10, LoadedFacts DEF s, fits
<1>12. QED BY <1>11 DEF u, t, c

\* The end of a line: it is stored behind those in front of it.
LEMMA TakesLine ==
    ASSUME NEW prog, Tidy(prog), NEW a \in Places(prog), a < ProgramLen(prog),
           NEW q, Tidy(q), ProgramLen(q) = a,
           LineSet(q) = LinesAt(prog, {b \in Places(prog) : b < a})
    PROVE  LET m == HandleLine(q, LineAsTyped(LineNumber(prog, a), TextAt(prog, a)))
               c == a + EntryLen(prog, a)
           IN  ProgramLen(m) = c /\ LineSet(m) = LinesAt(prog, {b \in Places(prog) : b < c})
<1> DEFINE T == Places(prog)
           ln == LineNumber(prog, a)
           text == TextAt(prog, a)
           n == EntryLen(prog, a)
           L == ProgramLen(prog)
<1>1. /\ ln \in Numbers /\ text \in TidyTexts /\ n \in Nat /\ a + n \in T /\ Len(text) = n - 3
  BY ListsLines
<1>2. text \in Texts
  BY <1>1, TidyIsText
<1>3. Walk(prog, T) /\ Len(prog) <= PROGRAM_SIZE /\ Kept(q)
  BY DEF Tidy, Kept
<1> HIDE DEF T
<1>4. /\ L \in Nat /\ Len(prog) = L + 2
      /\ \A b \in T : b \in Nat /\ b <= L
      /\ \A b \in T : b > a => b >= a + n
      /\ \A b \in T : b < L => LineNumber(prog, b) \in Nat
      /\ \A b, c \in T : b < c /\ c < L => LineNumber(prog, b) < LineNumber(prog, c)
      /\ a \in T /\ a \in Nat
  <2>1. a \in T
    BY DEF T
  <2>2. QED BY <1>3, <2>1, WalkFacts
<1>5. \A r \in LineSet(q) : r[1] < ln
  <2>1. ASSUME NEW r \in LineSet(q) PROVE r[1] < ln
    <3>1. PICK b \in T : b < a /\ r = <<LineNumber(prog, b), TextAt(prog, b)>>
      BY DEF LinesAt, T
    <3>2. r[1] = LineNumber(prog, b)
      BY <3>1
    <3>3. LineNumber(prog, b) < LineNumber(prog, a)
      BY <1>4, <3>1
    <3>4. QED BY <3>2, <3>3
  <2>2. QED BY <2>1
<1>6. ProgramLen(q) + Len(text) + 3 = a + n
  BY <1>1, <1>4
<1>7. ProgramLen(q) + Len(text) + 3 <= PROGRAM_SIZE - 2
  <2>1. a + n <= L
    BY <1>1, <1>4
  <2>2. L + 2 <= PROGRAM_SIZE
    BY <1>3, <1>4
  <2> HIDE DEF L, n
  <2>3. a + n <= PROGRAM_SIZE - 2
    BY <1>1, <1>4, <2>1, <2>2, SizeAssumption
  <2>4. QED BY <1>6, <2>3
<1> DEFINE m == StoreLine(q, ln, text)
<1>8. ProgramLen(m) = ProgramLen(q) + Len(text) + 3 /\ LineSet(m) = LineSet(q) \cup {<<ln, text>>}
  <2> HIDE DEF ln, text
  <2>1. QED BY <1>1, <1>2, <1>3, <1>5, <1>7, StoredBehind
<1>9. {b \in T : b < a + n} = {b \in T : b < a} \cup {a}
  <2>1. a < a + n
    <3>1. n >= 4
      BY <1>3, <1>4, WalkFacts
    <3>2. QED BY <1>1, <1>4, <3>1
  <2>2. \A b \in T : b < a + n <=> b < a \/ b = a
    <3>1. ASSUME NEW b \in T PROVE b < a + n <=> b < a \/ b = a
      <4>1. b \in Nat /\ (b > a => b >= a + n)
        BY <1>4
      <4> HIDE DEF n
      <4>2. QED BY <1>1, <1>4, <2>1, <4>1
    <3>2. QED BY <3>1
  <2> HIDE DEF n
  <2>3. QED BY <1>4, <2>2
<1>10. LinesAt(prog, {b \in T : b < a + n}) = LinesAt(prog, {b \in T : b < a}) \cup {<<ln, text>>}
  <2> DEFINE U == {b \in T : b < a}
  <2> HIDE DEF U
  <2>1. LinesAt(prog, U \cup {a}) = LinesAt(prog, U) \cup {<<ln, text>>}
    BY <1>4 DEF LinesAt
  <2>2. QED BY <1>9, <2>1 DEF U
<1>11. HandleLine(q, LineAsTyped(ln, text)) = m
  BY <1>1, ListedIsStored
<1>12. QED BY <1>6, <1>8, <1>10, <1>11 DEF T

\* What CLOAD does with the character c: the program and the line after it.
ProgramThen(q, buf, c) == IF c = NL THEN HandleLine(q, buf) ELSE q
LineThen(buf, c) ==
    CASE c = NL -> <<>>
      [] c \in {CR, EOF} -> buf
      [] OTHER -> IF Len(buf) < LineMax - 1 THEN Append(buf, c) ELSE buf

LEMMA LoadOn ==
    ASSUME NEW prog, Tidy(prog), Listable(prog), NEW a \in Places(prog), NEW q, Tidy(q),
           NEW buf \in Seq(LineChar), NEW rest \in Seq(Char), Len(rest) >= 2,
           LoadedTo(prog, a, q, buf, rest)
    PROVE  /\ Head(rest) # EOF
           /\ \E e \in Places(prog) :
                  LoadedTo(prog, e, ProgramThen(q, buf, Head(rest)), LineThen(buf, Head(rest)), Tail(rest))
<1> DEFINE l == LineAsTyped(LineNumber(prog, a), TextAt(prog, a))
           s == ListFrom(prog)[a]
           t == ListFrom(prog)[a + EntryLen(prog, a)]
           c == Head(rest)
           e == a + EntryLen(prog, a)
<1>1. /\ a < ProgramLen(prog) /\ l \in Seq(LineChar)
      /\ Len(buf) \in Nat /\ Len(l) \in Nat /\ Len(buf) <= Len(l)
      /\ Len(buf) < Len(l) => /\ c = s[Len(buf) + 1] /\ c \in LineChar /\ Len(buf) < LineMax - 1
      /\ Len(buf) = Len(l) => c = NL /\ buf = l
  BY AtLine
<1>2. FirstLine(s, l, t) /\ e \in Places(prog)
  BY <1>1, ListsLines
<1>3. CASE Len(buf) < Len(l)
  <2>1. c \notin {NL, CR, EOF}
    BY <1>1, <1>3 DEF LineChar
  <2>2. ProgramThen(q, buf, c) = q /\ LineThen(buf, c) = Append(buf, c)
    BY <1>1, <1>3, <2>1 DEF ProgramThen, LineThen
  <2>3. Len(s) \in Nat
    <3>1. s \in Seq(LineText)
      BY <1>2 DEF FirstLine
    <3>2. QED BY <3>1, LenProperties
  <2>4. LoadedTo(prog, a, q, Append(buf, Head(rest)), Tail(rest))
    BY <1>1, <1>3, <2>3, TakesChar
  <2>5. QED BY <2>1, <2>2, <2>4
<1>4. CASE Len(buf) = Len(l)
  <2>1. c = NL /\ buf = l /\ c # EOF
    BY <1>1, <1>4, CharFacts
  <2> DEFINE m == HandleLine(q, l)
             w == Tail(rest)
  <2>2. ProgramThen(q, buf, c) = m /\ LineThen(buf, c) = <<>>
    <3>1. ProgramThen(q, buf, c) = HandleLine(q, buf)
      BY <2>1 DEF ProgramThen
    <3> HIDE DEF c, l
    <3>2. LineThen(buf, c) = <<>>
      <4>1. LineThen(buf, NL) = <<>>
        BY DEF LineThen, NL, CR, EOF
      <4>2. QED BY <2>1, <4>1
    <3>3. QED BY <2>1, <3>1, <3>2
  <2>3. /\ ProgramLen(q) = a /\ LineSet(q) = LinesAt(prog, {b \in Places(prog) : b < a})
        /\ Len(buf) + Len(rest) - 1 <= Len(s)
        /\ \A i \in 1 .. Len(rest) - 1 : rest[i] = s[Len(buf) + i]
        /\ rest[Len(rest)] = EOF
        /\ Len(Listing(prog)) <= SLOT_MAX_LEN => Len(buf) + Len(rest) - 1 = Len(s)
    BY LoadedFacts
  <2>4. ProgramLen(m) = e /\ LineSet(m) = LinesAt(prog, {b \in Places(prog) : b < e})
    BY <1>1, <2>3, TakesLine
  <2>5. /\ Len(rest) \in Nat /\ Len(w) = Len(rest) - 1
        /\ \A i \in 1 .. Len(rest) - 1 : w[i] = rest[i + 1]
    <3>1. rest # <<>>
      OBVIOUS
    <3>2. QED BY <3>1, FirstOf
  <2> HIDE DEF l, s, t, c, m, w
  <2>6. Len(t) \in Nat /\ Len(s) = Len(l) + 1 + Len(t)
        /\ \A i \in 1 .. Len(t) : s[Len(l) + 1 + i] = t[i]
    BY <1>2 DEF FirstLine
  <2>7. Len(w) - 1 <= Len(t)
        /\ (Len(Listing(prog)) <= SLOT_MAX_LEN => Len(w) - 1 = Len(t))
    BY <1>1, <1>4, <2>3, <2>5, <2>6
  <2>8. ASSUME NEW i \in 1 .. Len(w) - 1 PROVE w[i] = t[i]
    <3>1. i \in 1 .. Len(rest) - 1 /\ i + 1 \in 1 .. Len(rest) - 1 /\ i \in 1 .. Len(t)
          /\ Len(buf) + (i + 1) = Len(l) + 1 + i
      BY <1>1, <1>4, <2>5, <2>7
    <3>2. w[i] = rest[i + 1] /\ rest[i + 1] = s[Len(buf) + (i + 1)]
      BY <2>3, <2>5, <3>1
    <3>3. QED BY <2>6, <3>1, <3>2
  <2>9. w[Len(w)] = EOF
    <3>1. Len(rest) - 1 \in 1 .. Len(rest) - 1 /\ (Len(rest) - 1) + 1 = Len(rest)
      BY <2>5
    <3>2. w[Len(rest) - 1] = rest[(Len(rest) - 1) + 1]
      BY <2>5, <3>1
    <3>3. QED BY <2>3, <2>5, <3>1, <3>2
  <2>10. LoadedTo(prog, e, m, <<>>, w)
    <3>1. Len(<<>>) = 0 /\ Len(<<>>) + Len(w) - 1 = Len(w) - 1
      BY <2>5
    <3>2. \A i \in 1 .. Len(<<>>) : <<>>[i] = t[i]
      BY <3>1
    <3>3. \A i \in 1 .. Len(w) - 1 : w[i] = t[Len(<<>>) + i]
      BY <2>8, <3>1
    <3>4. QED BY <2>4, <2>7, <2>9, <3>1, <3>2, <3>3, LoadedFacts DEF t
  <2>11. QED BY <1>2, <2>1, <2>2, <2>10 DEF c, w
<1>5. QED BY <1>1, <1>3, <1>4

\* A slot with a listing, and a device that is about to load it.
LEMMA LoadStart ==
    ASSUME NEW prog, Tidy(prog), NEW f \in Seq(Char), CutTo(f, Listing(prog), Len(Listing(prog)))
    PROVE  LoadedTo(prog, 0, EmptyProgram, <<>>, Append(f, EOF)) /\ 0 \in Places(prog)
<1> DEFINE x == Listing(prog)
           w == Append(f, EOF)
<1>1. /\ 0 \in Places(prog) /\ ListFrom(prog)[0] = x /\ x \in Seq(LineText) /\ Len(x) \in Nat
      /\ \A a \in Places(prog) : a \in Nat
  <2>1. 0 \in Places(prog) /\ \A a \in Places(prog) : a \in Nat
    BY KeptFacts DEF Tidy
  <2>2. ListFrom(prog)[0] = Listing(prog) /\ ListFrom(prog)[0] \in Seq(LineText)
    BY <2>1, ListsLines
  <2>3. QED BY <2>1, <2>2, LenProperties
<1>2. ProgramLen(EmptyProgram) = 0 /\ LineSet(EmptyProgram) = {}
  <2>1. ProgramLen(EmptyProgram) = 0
    BY DEF ProgramLen, EmptyProgram
  <2>2. \A b \in Places(EmptyProgram) : b \in Nat
    BY EmptyKept, KeptFacts
  <2>3. QED BY <2>1, <2>2 DEF LineSet, LinesAt
<1>3. LinesAt(prog, {b \in Places(prog) : b < 0}) = {}
  BY <1>1 DEF LinesAt
<1>4. /\ w \in Seq(Char) /\ Len(f) \in Nat /\ Len(w) = Len(f) + 1
      /\ \A i \in 1 .. Len(f) : w[i] = f[i]
      /\ w[Len(f) + 1] = EOF
  BY CharFacts, LongerBy
<1>5. /\ Len(f) <= Len(x) /\ (Len(x) <= SLOT_MAX_LEN => Len(f) = Len(x))
      /\ \A i \in 1 .. Len(f) : f[i] = x[i]
  BY <1>1, LimitAssumption DEF CutTo
<1> HIDE DEF x, w
<1>6. Len(<<>>) = 0 /\ Len(<<>>) + Len(w) - 1 = Len(f) /\ Len(w) - 1 = Len(f)
  BY <1>4
<1>7. \A i \in 1 .. Len(<<>>) : <<>>[i] = ListFrom(prog)[0][i]
  BY <1>6
<1>8. \A i \in 1 .. Len(w) - 1 : w[i] = ListFrom(prog)[0][Len(<<>>) + i]
  BY <1>1, <1>4, <1>5, <1>6
<1>9. LoadedTo(prog, 0, EmptyProgram, <<>>, w)
  BY <1>1, <1>2, <1>3, <1>4, <1>5, <1>6, <1>7, <1>8, LoadedFacts DEF x
<1>10. QED BY <1>1, <1>9 DEF w

\* At the end of the file nothing is left, and the lines are the first ones of the program,
\* or all of them.
FirstLinesOf(was, is) ==
    /\ \A n \in DOMAIN is : n \in DOMAIN was /\ is[n] = was[n]
    /\ \A n \in DOMAIN was, m \in DOMAIN is : n <= m => n \in DOMAIN is

LEMMA LoadDone ==
    ASSUME NEW prog, Tidy(prog), NEW a \in Places(prog), NEW q, Tidy(q),
           NEW buf \in Seq(LineChar), NEW rest \in Seq(Char), rest # <<>>, Head(rest) = EOF,
           LoadedTo(prog, a, q, buf, rest)
    PROVE  /\ Len(rest) = 1
           /\ FirstLinesOf(LinesOf(prog), LinesOf(q))
           /\ Len(Listing(prog)) <= SLOT_MAX_LEN => LinesOf(q) = LinesOf(prog)
<1> DEFINE s == ListFrom(prog)[a]
           L == ProgramLen(prog)
           T == Places(prog)
           was == LinesOf(prog)
           is == LinesOf(q)
           U == {b \in T : b < a}
           no(b) == LineNumber(prog, b)
           line(b) == <<LineNumber(prog, b), TextAt(prog, b)>>
<1>1. /\ ProgramLen(q) = a /\ LineSet(q) = LinesAt(prog, U)
      /\ Len(buf) + Len(rest) - 1 <= Len(s)
      /\ \A i \in 1 .. Len(buf) : buf[i] = s[i]
      /\ \A i \in 1 .. Len(rest) - 1 : rest[i] = s[Len(buf) + i]
      /\ Len(Listing(prog)) <= SLOT_MAX_LEN => Len(buf) + Len(rest) - 1 = Len(s)
  BY LoadedFacts
<1>2. /\ s \in Seq(LineText) /\ Len(s) \in Nat /\ Len(buf) \in Nat
      /\ Len(rest) \in Nat /\ Len(rest) >= 1 /\ rest[1] = EOF
  <2>1. ListFrom(prog)[a] \in Seq(LineText)
    BY ListsLines
  <2>2. QED BY <2>1, FirstOf, LenProperties
<1>3. Len(rest) = 1
  <2>1. SUFFICES ASSUME Len(rest) # 1 PROVE FALSE
    OBVIOUS
  <2> HIDE DEF s
  <2>2. 1 \in 1 .. Len(rest) - 1 /\ Len(buf) + 1 \in 1 .. Len(s)
    <3>1. Len(buf) + Len(rest) - 1 <= Len(s)
      BY <1>1
    <3>2. Len(buf) \in Nat /\ Len(s) \in Nat /\ Len(rest) \in Nat /\ Len(rest) >= 2
      <4>1. Len(buf) \in Nat /\ Len(s) \in Nat /\ Len(rest) \in Nat
        BY <1>2
      <4> DEFINE R == Len(rest)
      <4>2. R \in Nat /\ R >= 1 /\ R # 1
        BY <1>2, <2>1
      <4> HIDE DEF R
      <4>3. R >= 2
        BY <4>2
      <4>4. QED BY <4>1, <4>3 DEF R
    <3>3. 1 \in 1 .. Len(rest) - 1
      BY <3>2
    <3>4. Len(buf) + 1 \in 1 .. Len(s)
      BY <3>1, <3>2
    <3>5. QED BY <3>3, <3>4
  <2>3. s[Len(buf) + 1] = EOF
    BY <1>1, <1>2, <2>2
  <2>4. s[Len(buf) + 1] \in LineText
    BY <1>2, <2>2, ElementOfSeq
  <2>5. QED BY <2>3, <2>4, CharFacts DEF LineText
<1>4. Walk(prog, T) /\ LineSet(prog) = LinesAt(prog, T) /\ Kept(prog) /\ Kept(q)
  BY DEF Tidy, Kept, LineSet
<1>5. /\ was = [n \in DOMAIN was |-> was[n]] /\ DOMAIN was = {r[1] : r \in LineSet(prog)}
      /\ \A r \in LineSet(prog) : was[r[1]] = r[2]
      /\ is = [n \in DOMAIN is |-> is[n]] /\ DOMAIN is = {r[1] : r \in LineSet(q)}
      /\ \A r \in LineSet(q) : is[r[1]] = r[2]
  BY <1>4, LinesOfKept
<1>u. U = {b \in T : b < a}
  OBVIOUS
<1>t. a \in T
  OBVIOUS
<1> HIDE DEF s, T, was, is, U
<1>6. /\ L \in Nat /\ \A b \in T : b \in Nat /\ b <= L
      /\ \A b \in T : b < L => no(b) \in Nat
      /\ \A b, c \in T : b < c /\ c < L => no(b) < no(c)
      /\ L \in T
  BY <1>4, WalkFacts
<1>7. LineSet(q) = {line(b) : b \in U} /\ LineSet(prog) = {line(b) : b \in {c \in T : c < L}}
      /\ U \subseteq {c \in T : c < L}
  <2>1. U \subseteq {c \in T : c < L}
    BY <1>6, <1>t, <1>u
  <2>2. \A c \in U : c < ProgramLen(prog)
    BY <2>1
  <2>3. QED BY <1>1, <1>4, <2>1, <2>2 DEF LinesAt
<1>8. \A b \in T : line(b)[1] = no(b) /\ line(b)[2] = TextAt(prog, b)
  OBVIOUS
<1> HIDE DEF line, no
<1>9. ASSUME NEW n \in DOMAIN is PROVE n \in DOMAIN was /\ is[n] = was[n]
  <2>1. PICK r \in LineSet(q) : n = r[1]
    BY <1>5, <1>9
  <2>2. r \in LineSet(prog)
    BY <1>7, <2>1
  <2>3. QED BY <1>5, <2>1, <2>2
<1>10. ASSUME NEW n \in DOMAIN was, NEW k \in DOMAIN is, n <= k PROVE n \in DOMAIN is
  <2>1. PICK b \in T : b < L /\ n = no(b)
    BY <1>5, <1>7, <1>8
  <2>2. PICK c \in U : k = no(c) /\ c \in T /\ c < L
    BY <1>5, <1>7, <1>8
  <2>3. b \in Nat /\ c \in Nat /\ no(b) \in Nat /\ no(c) \in Nat /\ ~ no(c) < no(b)
    BY <1>6, <1>10, <2>1, <2>2
  <2>4. ~ c < b
    BY <1>6, <2>1, <2>2, <2>3
  <2>5. b \in U
    <3>1. c < a /\ a \in Nat
      BY <1>6, <1>t, <1>u, <2>2
    <3>2. b < a
      BY <2>3, <2>4, <3>1
    <3>3. QED BY <1>u, <2>1, <3>2
  <2>6. line(b) \in LineSet(q) /\ line(b)[1] = n
    BY <1>7, <1>8, <2>1, <2>5
  <2>7. QED BY <1>5, <2>6
<1>11. FirstLinesOf(was, is)
  BY <1>9, <1>10 DEF FirstLinesOf
<1>12. ASSUME Len(Listing(prog)) <= SLOT_MAX_LEN PROVE is = was
  <2>1. Len(buf) = Len(s)
    BY <1>1, <1>2, <1>3, <1>12
  <2>2. a = L
    <3>1. SUFFICES ASSUME a < L PROVE FALSE
      BY <1>6, <1>t
    <3> DEFINE l == LineAsTyped(LineNumber(prog, a), TextAt(prog, a))
               t == ListFrom(prog)[a + EntryLen(prog, a)]
    <3>2. FirstLine(s, l, t)
      BY <3>1, ListsLines DEF s
    <3> HIDE DEF l, t
    <3>3. Len(l) + 1 \in 1 .. Len(s) /\ s[Len(l) + 1] = NL
      BY <3>2 DEF FirstLine
    <3>4. buf[Len(l) + 1] = NL /\ buf[Len(l) + 1] \in LineChar
      BY <1>1, <2>1, <3>3, ElementOfSeq
    <3>5. QED BY <3>4, CharFacts
  <2>3. LineSet(q) = LineSet(prog)
    BY <1>7, <1>u, <2>2
  <2>4. DOMAIN is = DOMAIN was /\ \A n \in DOMAIN is : is[n] = was[n]
    BY <1>5, <1>9, <2>3
  <2>5. QED BY <1>5, <2>4, SameFunction
<1>13. QED BY <1>3, <1>11, <1>12 DEF was, is

-----------------------------------------------------------------------------
(* The tape's invariant, action by action.                                  *)

LEMMA TapeTyped ==
    /\ \A ln \in TapeNumber : ln \in Numbers
    /\ \A text \in TapeText : text \in TidyTexts \cup {<<>>}
BY TypedAssumption DEF Numbers, TidyTexts

LEMMA EmptyTidy == Tidy(EmptyProgram)
<1>1. \A b \in Places(EmptyProgram) : b \in Nat
  BY EmptyKept, KeptFacts
<1>2. ProgramLen(EmptyProgram) = 0
  BY DEF ProgramLen, EmptyProgram
<1>3. LineSet(EmptyProgram) = {}
  BY <1>1, <1>2 DEF LineSet, LinesAt
<1>4. QED BY <1>3, EmptyKept DEF Tidy

LEMMA SavingThen ==
    ASSUME Tidy(sent'), NEW s \in Slot, NEW n \in Nat, Saving(s, n)'
    PROVE  Transfer'
<1>1. /\ Len(SaveBytes(s, sent')) = Len(Listing(sent')) + 3 /\ Len(Listing(sent')) \in Nat
      /\ SaveBytes(s, sent') \in Seq(Char)
  BY Bytes
<1>2. UnderWay(SaveBytes(s, sent'), n, d2e', out')
  BY DEF Saving
<1>3. n <= Len(SaveBytes(s, sent'))
  BY <1>1 DEF Saving
<1>4. QED BY <1>1, <1>3 DEF Transfer

\* What does not touch the transfer.
LEMMA TransferStays ==
    ASSUME Transfer, UNCHANGED <<d2e, out, esp, cmd, cur, file, sent>>, esp = "send" => kept' = kept,
           dev' = "cload" => dev = "cload" /\ program' = program /\ linebuf' = linebuf
    PROVE  Transfer'
<1>1. ASSUME NEW s \in Slot, NEW n \in 0 .. Len(Listing(sent)) + 3, Saving(s, n) PROVE Transfer'
  <2>1. Saving(s, n)'
    BY <1>1 DEF Saving
  <2>2. QED BY <2>1 DEF Transfer
<1>2. ASSUME NEW s \in Slot, NEW n \in 0 .. 1, Fetching(s, n) PROVE Transfer'
  <2>1. Fetching(s, n)'
    BY <1>2 DEF Fetching
  <2>2. QED BY <2>1 DEF Transfer
<1>3. CASE Sending
  <2>1. Sending'
    BY <1>3 DEF Sending
  <2>2. QED BY <2>1 DEF Transfer
<1>4. CASE Resting
  <2>1. Resting'
    BY <1>4 DEF Resting
  <2>2. QED BY <2>1 DEF Transfer
<1>5. QED BY <1>1, <1>2, <1>3, <1>4 DEF Transfer

LEMMA TapeInitKept ==
    ASSUME TapeInit
    PROVE  TapeIInv
<1>1. TapeChars
  <2>1. <<>> \in Seq(Char) /\ <<>> \in Seq(LineChar) /\ Len(<<>>) = 0
    BY EmptySeq
  <2>2. QED BY <2>1, LimitAssumption DEF TapeInit, TapeChars
<1>2. TapeControl
  BY CallAssumption DEF TapeInit, TapeControl
<1>3. TapePrograms
  BY EmptyTidy DEF TapeInit, TapePrograms
<1>4. Transfer
  BY DEF TapeInit, Transfer, Resting
<1>5. QED BY <1>1, <1>2, <1>3, <1>4 DEF TapeIInv

LEMMA TypeTape ==
    ASSUME TapeIInv, NEW ln \in TapeNumber, NEW text \in TapeText, Type(ln, text)
    PROVE  TapeIInv'
<1>1. /\ dev = "prompt" /\ dev' = dev /\ program' = StoreLine(program, ln, text)
      /\ calls < MaxCalls /\ calls' = calls + 1 /\ lost' = lost
      /\ UNCHANGED <<out, linebuf, d2e, esp, cmd, cur, file, slot, sent, kept, clean>>
  BY DEF Type, Call, store, history
<1>2. TapeChars /\ TapeControl /\ TapePrograms /\ (clean => Transfer)
  BY DEF TapeIInv
<1>3. TapeChars'
  BY <1>1, <1>2 DEF TapeChars
<1>4. TapeControl'
  BY <1>1, <1>2, CallAssumption DEF TapeControl
<1>5. TapePrograms'
  <2>1. Tidy(StoreLine(program, ln, text))
    BY <1>2, TapeTyped, StoreTidy DEF TapePrograms
  <2>2. QED BY <1>1, <1>2, <2>1 DEF TapePrograms
<1>6. clean' => Transfer'
  BY <1>1, <1>2, TransferStays
<1>7. QED BY <1>3, <1>4, <1>5, <1>6 DEF TapeIInv

LEMMA CSaveTape ==
    ASSUME TapeIInv, NEW s \in Slot, CSave(s)
    PROVE  TapeIInv'
<1> DEFINE b == SaveBytes(s, program)
<1>1. /\ dev' = "csave" /\ out' = b /\ sent' = program
      /\ clean' = (esp = "loop" /\ d2e = <<>>)
      /\ calls < MaxCalls /\ calls' = calls + 1
      /\ UNCHANGED <<program, linebuf, d2e, esp, cmd, cur, file, slot, kept, lost>>
  BY DEF CSave, Call, store, SaveBytes, Idle
<1>2. TapeChars /\ TapeControl /\ TapePrograms
  BY DEF TapeIInv
<1>3. b \in Seq(Char) /\ Len(b) = Len(Listing(program)) + 3 /\ Len(Listing(program)) \in Nat
  BY <1>2, Bytes DEF TapePrograms
<1> HIDE DEF b
<1>4. TapeChars'
  BY <1>1, <1>2, <1>3 DEF TapeChars
<1>5. TapeControl'
  <2>1. b # <<>>
    BY <1>3, EmptySeq
  <2>2. QED BY <1>1, <1>2, <2>1, CallAssumption DEF TapeControl
<1>6. TapePrograms'
  BY <1>1, <1>2 DEF TapePrograms
<1>7. clean' => Transfer'
  <2>1. SUFFICES ASSUME clean' PROVE Transfer'
    OBVIOUS
  <2>2. esp' = "loop" /\ d2e' = <<>>
    BY <1>1, <2>1
  <2>3. UnderWay(b, 0, <<>>, b)
    BY <1>3 DEF UnderWay
  <2>4. Saving(s, 0)'
    BY <1>1, <2>2, <2>3 DEF Saving, b
  <2>5. Tidy(sent')
    BY <1>6 DEF TapePrograms
  <2>6. QED BY <2>4, <2>5, SavingThen
<1>8. QED BY <1>4, <1>5, <1>6, <1>7 DEF TapeIInv

LEMMA CLoadTape ==
    ASSUME TapeIInv, NEW s \in Slot, CLoad(s)
    PROVE  TapeIInv'
<1> DEFINE b == LoadBytes(s)
<1>1. /\ dev' = "cload" /\ out' = b /\ program' = EmptyProgram /\ linebuf' = <<>>
      /\ clean' = (esp = "loop" /\ d2e = <<>>)
      /\ calls < MaxCalls /\ calls' = calls + 1
      /\ UNCHANGED <<d2e, esp, cmd, cur, file, slot, sent, kept, lost>>
  BY DEF CLoad, Call, store, LoadBytes, Idle
<1>2. TapeChars /\ TapeControl /\ TapePrograms
  BY DEF TapeIInv
<1>3. b \in Seq(Char) /\ Len(b) = 2
  BY EmptyTidy, Bytes
<1> HIDE DEF b
<1>4. TapeChars'
  <2>1. <<>> \in Seq(LineChar) /\ Len(<<>>) = 0
    BY EmptySeq
  <2>2. QED BY <1>1, <1>2, <1>3, <2>1, LimitAssumption DEF TapeChars
<1>5. TapeControl'
  BY <1>1, <1>2, CallAssumption DEF TapeControl
<1>6. TapePrograms'
  BY <1>1, <1>2, EmptyTidy DEF TapePrograms
<1>7. clean' => Transfer'
  <2>1. SUFFICES ASSUME clean' PROVE Transfer'
    OBVIOUS
  <2>2. esp' = "loop" /\ d2e' = <<>>
    BY <1>1, <2>1
  <2>3. UnderWay(b, 0, <<>>, b)
    BY <1>3 DEF UnderWay
  <2>4. Fetching(s, 0)'
    BY <1>1, <2>2, <2>3 DEF Fetching, b
  <2>5. 0 \in 0 .. 1
    OBVIOUS
  <2>6. QED BY <2>4, <2>5 DEF Transfer
<1>8. QED BY <1>4, <1>5, <1>6, <1>7 DEF TapeIInv

LEMMA SendByteTape ==
    ASSUME TapeIInv, SendByte
    PROVE  TapeIInv'
<1>1. /\ out # <<>> /\ d2e' = Append(d2e, Head(out)) /\ out' = Tail(out)
      /\ dev' = IF dev = "csave" /\ Len(out) = 1 THEN "prompt" ELSE dev
      /\ UNCHANGED <<program, linebuf, esp, cmd, cur, file, slot, sent, kept, clean, calls, lost>>
  BY DEF SendByte, store, history
<1>2. TapeChars /\ TapeControl /\ TapePrograms /\ (clean => Transfer)
  BY DEF TapeIInv
<1>3. out \in Seq(Char) /\ d2e \in Seq(Char)
  BY <1>2 DEF TapeChars
<1>4. /\ Head(out) \in Char /\ Tail(out) \in Seq(Char)
      /\ Len(out) \in Nat /\ Len(out) >= 1 /\ Len(Tail(out)) = Len(out) - 1
  BY <1>1, <1>3, FirstOf
<1>5. Append(d2e, Head(out)) \in Seq(Char)
  BY <1>3, <1>4, LongerBy
<1>6. TapeChars'
  BY <1>1, <1>2, <1>4, <1>5 DEF TapeChars
<1>7. TapeControl'
  <2>1. Len(out) # 1 => Tail(out) # <<>>
    <3> DEFINE t == Tail(out)
               N == Len(out)
    <3>1. Len(<<>>) = 0 /\ N \in Nat /\ N >= 1 /\ Len(t) = N - 1
      BY <1>4
    <3> HIDE DEF t, N
    <3>2. N # 1 => t # <<>>
      BY <3>1
    <3>3. QED BY <3>2 DEF t, N
  <2>2. QED BY <1>1, <1>2, <2>1 DEF TapeControl
<1>8. TapePrograms'
  BY <1>1, <1>2 DEF TapePrograms
<1>9. clean' => Transfer'
  <2>1. SUFFICES ASSUME Transfer PROVE Transfer'
    BY <1>1, <1>2
  <2>2. Tidy(sent) /\ sent' = sent
    BY <1>1, <1>2 DEF TapePrograms
  <2>3. ASSUME NEW s \in Slot, NEW n \in 0 .. Len(Listing(sent)) + 3, Saving(s, n) PROVE Transfer'
    <3>1. SaveBytes(s, sent) \in Seq(Char) /\ n \in Nat
      BY <2>2, Bytes
    <3>2. UnderWay(SaveBytes(s, sent), n, Append(d2e, Head(out)), Tail(out))
      BY <1>1, <1>3, <2>3, <3>1, SentOn DEF Saving
    <3>3. Saving(s, n)'
      BY <1>1, <2>3, <3>2 DEF Saving
    <3>4. QED BY <2>2, <3>3 DEF Transfer
  <2>4. ASSUME NEW s \in Slot, NEW n \in 0 .. 1, Fetching(s, n) PROVE Transfer'
    <3>1. LoadBytes(s) \in Seq(Char) /\ n \in Nat
      BY EmptyTidy, Bytes
    <3>2. UnderWay(LoadBytes(s), n, Append(d2e, Head(out)), Tail(out))
      BY <1>1, <1>3, <2>4, <3>1, SentOn DEF Fetching
    <3>3. Fetching(s, n)'
      BY <1>1, <2>4, <3>2 DEF Fetching
    <3>4. QED BY <3>3 DEF Transfer
  <2>5. ~ Sending /\ ~ Resting
    BY <1>1 DEF Sending, Resting
  <2>6. QED BY <2>1, <2>3, <2>4, <2>5 DEF Transfer
<1>10. QED BY <1>6, <1>7, <1>8, <1>9 DEF TapeIInv

LEMMA CancelTape ==
    ASSUME TapeIInv, Cancel
    PROVE  TapeIInv'
<1>1. /\ dev' = "prompt" /\ calls < MaxCalls /\ calls' = calls + 1 /\ lost' = lost
      /\ UNCHANGED <<program, out, linebuf, d2e, esp, cmd, cur, file, slot, sent, kept, clean>>
  BY DEF Cancel, store, history
<1>2. TapeChars /\ TapeControl /\ TapePrograms /\ (clean => Transfer)
  BY DEF TapeIInv
<1>3. TapeChars'
  BY <1>1, <1>2 DEF TapeChars
<1>4. TapeControl'
  BY <1>1, <1>2, CallAssumption DEF TapeControl
<1>5. TapePrograms'
  BY <1>1, <1>2 DEF TapePrograms
<1>6. clean' => Transfer'
  BY <1>1, <1>2, TransferStays
<1>7. QED BY <1>3, <1>4, <1>5, <1>6 DEF TapeIInv

LEMMA ResetTape ==
    ASSUME TapeIInv, Reset
    PROVE  TapeIInv'
<1>1. /\ dev' = "prompt" /\ program' = EmptyProgram /\ out' = <<>> /\ linebuf' = <<>>
      /\ calls < MaxCalls /\ calls' = calls + 1 /\ lost' = lost
      /\ UNCHANGED <<d2e, esp, cmd, cur, file, slot, sent, kept, clean>>
  BY DEF Reset, store, history
<1>2. TapeChars /\ TapeControl /\ TapePrograms /\ (clean => Transfer)
  BY DEF TapeIInv
<1>3. TapeChars'
  <2>1. <<>> \in Seq(LineChar) /\ <<>> \in Seq(Char) /\ Len(<<>>) = 0
    BY EmptySeq
  <2>2. QED BY <1>1, <1>2, <2>1, LimitAssumption DEF TapeChars
<1>4. TapeControl'
  BY <1>1, <1>2, CallAssumption DEF TapeControl
<1>5. TapePrograms'
  BY <1>1, <1>2, EmptyTidy DEF TapePrograms
<1>6. clean' => Transfer'
  <2>1. SUFFICES ASSUME Transfer PROVE Transfer'
    BY <1>1, <1>2
  <2>2. Tidy(sent) /\ sent' = sent /\ d2e \in Seq(Char) /\ out \in Seq(Char)
    BY <1>1, <1>2 DEF TapePrograms, TapeChars
  <2>3. ASSUME NEW s \in Slot, NEW n \in 0 .. Len(Listing(sent)) + 3, Saving(s, n) PROVE Transfer'
    <3>1. SaveBytes(s, sent) \in Seq(Char) /\ n \in Nat
      BY <2>2, Bytes
    <3>2. UnderWay(SaveBytes(s, sent), n, d2e, <<>>)
      BY <2>2, <2>3, <3>1, CutShort DEF Saving
    <3>3. Saving(s, n)'
      BY <1>1, <2>3, <3>2 DEF Saving
    <3>4. QED BY <2>2, <3>3 DEF Transfer
  <2>4. ASSUME NEW s \in Slot, NEW n \in 0 .. 1, Fetching(s, n) PROVE Transfer'
    <3>1. LoadBytes(s) \in Seq(Char) /\ n \in Nat
      BY EmptyTidy, Bytes
    <3>2. UnderWay(LoadBytes(s), n, d2e, <<>>)
      BY <2>2, <2>4, <3>1, CutShort DEF Fetching
    <3>3. Fetching(s, n)'
      BY <1>1, <2>4, <3>2 DEF Fetching
    <3>4. QED BY <3>3 DEF Transfer
  <2>5. CASE Sending \/ Resting
    <3>1. Sending' \/ Resting'
      BY <1>1, <2>5 DEF Sending, Resting
    <3>2. QED BY <3>1 DEF Transfer
  <2>6. QED BY <2>1, <2>3, <2>4, <2>5 DEF Transfer
<1>7. QED BY <1>3, <1>4, <1>5, <1>6 DEF TapeIInv

LEMMA ReadCommandTape ==
    ASSUME TapeIInv, ReadCommand
    PROVE  TapeIInv'
<1>1. /\ esp = "loop" /\ d2e # <<>> /\ d2e' = Tail(d2e)
      /\ \/ Head(d2e) \in {CmdS, CmdL} /\ esp' = "digit" /\ cmd' = Head(d2e)
         \/ Head(d2e) \notin {CmdS, CmdL} /\ esp' = esp /\ cmd' = cmd
      /\ UNCHANGED <<program, dev, out, linebuf, cur, file, slot, sent, kept, clean, calls, lost>>
  BY DEF ReadCommand, device, history
<1>2. TapeChars /\ TapeControl /\ TapePrograms /\ (clean => Transfer)
  BY DEF TapeIInv
<1>3. out \in Seq(Char) /\ d2e \in Seq(Char)
  BY <1>2 DEF TapeChars
<1>4. Tail(d2e) \in Seq(Char)
  BY <1>1, <1>3, FirstOf
<1>5. TapeChars'
  BY <1>1, <1>2, <1>4 DEF TapeChars
<1>6. TapeControl'
  BY <1>1, <1>2 DEF TapeControl
<1>7. TapePrograms'
  BY <1>1, <1>2 DEF TapePrograms
<1>8. clean' => Transfer'
  <2>1. SUFFICES ASSUME Transfer PROVE Transfer'
    BY <1>1, <1>2
  <2>2. Tidy(sent) /\ sent' = sent
    BY <1>1, <1>2 DEF TapePrograms
  <2>3. ASSUME NEW s \in Slot, NEW n \in 0 .. Len(Listing(sent)) + 3, Saving(s, n) PROVE Transfer'
    <3> DEFINE b == SaveBytes(s, sent)
    <3>1. b \in Seq(Char) /\ b[1] = CmdS
      BY <2>2, Bytes
    <3>2. n = 0 /\ UnderWay(b, 0, d2e, out)
      BY <1>1, <2>3 DEF Saving
    <3>3. Head(d2e) = b[0 + 1] /\ UnderWay(b, 0 + 1, Tail(d2e), out)
      BY <1>1, <1>3, <3>1, <3>2, ReadOn
    <3>4. Head(d2e) = CmdS /\ UnderWay(b, 1, Tail(d2e), out)
      BY <3>1, <3>3
    <3>5. Saving(s, 1)'
      BY <1>1, <3>4 DEF Saving
    <3>6. QED BY <2>2, <3>5, SavingThen
  <2>4. ASSUME NEW s \in Slot, NEW n \in 0 .. 1, Fetching(s, n) PROVE Transfer'
    <3> DEFINE b == LoadBytes(s)
    <3>1. b \in Seq(Char) /\ b[1] = CmdL
      BY EmptyTidy, Bytes
    <3>2. n = 0 /\ UnderWay(b, 0, d2e, out)
      BY <1>1, <2>4 DEF Fetching
    <3>3. Head(d2e) = b[0 + 1] /\ UnderWay(b, 0 + 1, Tail(d2e), out)
      BY <1>1, <1>3, <3>1, <3>2, ReadOn
    <3>4. Head(d2e) = CmdL /\ UnderWay(b, 1, Tail(d2e), out)
      BY <3>1, <3>3
    <3>5. Fetching(s, 1)'
      BY <1>1, <2>4, <3>4 DEF Fetching
    <3>6. 1 \in 0 .. 1
      OBVIOUS
    <3>7. QED BY <3>5, <3>6 DEF Transfer
  <2>5. ~ Sending /\ ~ Resting
    BY <1>1 DEF Sending, Resting
  <2>6. QED BY <2>1, <2>3, <2>4, <2>5 DEF Transfer
<1>9. QED BY <1>5, <1>6, <1>7, <1>8 DEF TapeIInv

LEMMA ReadSlotDigitTape ==
    ASSUME TapeIInv, ReadSlotDigit
    PROVE  TapeIInv'
<1> DEFINE k == Head(d2e) - Digit(0)
<1>1. /\ esp = "digit" /\ d2e # <<>> /\ d2e' = Tail(d2e)
      /\ UNCHANGED <<program, dev, out, linebuf, cmd, slot, sent, clean, calls, lost>>
  BY DEF ReadSlotDigit, device
<1>2. \/ k \notin Slot /\ esp' = "loop" /\ cur' = cur /\ file' = file /\ kept' = kept
      \/ /\ k \in Slot /\ cur' = k /\ cmd = CmdS
         /\ esp' = "receive" /\ file' = <<>> /\ kept' = [kept EXCEPT ![k] = {}]
      \/ /\ k \in Slot /\ cur' = k /\ cmd # CmdS
         /\ esp' = "send" /\ file' = Append(slot[k], EOF) /\ kept' = kept
  BY DEF ReadSlotDigit
<1>3. TapeChars /\ TapeControl /\ TapePrograms /\ (clean => Transfer)
  BY DEF TapeIInv
<1>4. out \in Seq(Char) /\ d2e \in Seq(Char) /\ slot \in [Slot -> Seq(Char)]
  BY <1>3 DEF TapeChars
<1>5. Tail(d2e) \in Seq(Char) /\ Head(d2e) \in Char
  BY <1>1, <1>4, FirstOf
<1>d. ASSUME NEW s \in Slot, Head(d2e) = Digit(s) PROVE k = s
  BY <1>d, SlotAssumption DEF Digit
<1> HIDE DEF k
<1>6. k \in Slot => slot[k] \in Seq(Char) /\ Append(slot[k], EOF) \in Seq(Char)
                    /\ Append(slot[k], EOF) # <<>>
  <2>1. SUFFICES ASSUME k \in Slot PROVE slot[k] \in Seq(Char) /\ Append(slot[k], EOF) \in Seq(Char)
                                          /\ Append(slot[k], EOF) # <<>>
    OBVIOUS
  <2>2. slot[k] \in Seq(Char)
    BY <1>4, <2>1
  <2>3. QED BY <2>2, CharFacts, AppendProperties
<1>7. <<>> \in Seq(Char) /\ Len(<<>>) = 0
  BY EmptySeq
<1>8. TapeChars'
  <2>1. file \in Seq(Char)
    BY <1>3 DEF TapeChars
  <2>2. file' \in Seq(Char)
    BY <1>2, <1>6, <1>7, <2>1
  <2>3. QED BY <1>1, <1>3, <1>5, <2>2 DEF TapeChars
<1>9. DOMAIN kept = Slot
  BY <1>3 DEF TapePrograms
<1>10. TapeControl'
  <2>1. /\ dev' \in {"prompt", "csave", "cload"} /\ esp' \in {"loop", "digit", "receive", "send"}
        /\ dev' = "csave" => out' # <<>>
        /\ calls' \in 0 .. MaxCalls /\ lost' \in 0 .. MaxLost
    BY <1>1, <1>2, <1>3 DEF TapeControl
  <2>2. esp' = "receive" => Len(file') <= SLOT_MAX_LEN /\ kept'[cur'] = {}
    BY <1>2, <1>7, <1>9, LimitAssumption
  <2>3. esp' = "send" => file' # <<>>
    BY <1>2, <1>6
  <2>4. (esp' \in {"receive", "send"} => cur' \in Slot) /\ cur' \in 0 .. 9
    BY <1>2, <1>3, SlotAssumption DEF TapeControl
  <2>5. QED BY <2>1, <2>2, <2>3, <2>4 DEF TapeControl
<1>11. TapePrograms'
  <2>1. DOMAIN kept' = Slot /\ \A s \in Slot : kept'[s] \subseteq kept[s]
    BY <1>2, <1>9
  <2>2. QED BY <1>1, <1>3, <2>1 DEF TapePrograms
<1>12. clean' => Transfer'
  <2>1. SUFFICES ASSUME Transfer PROVE Transfer'
    BY <1>1, <1>3
  <2>2. Tidy(sent) /\ sent' = sent
    BY <1>1, <1>3 DEF TapePrograms
  <2>3. ASSUME NEW s \in Slot, NEW n \in 0 .. Len(Listing(sent)) + 3, Saving(s, n) PROVE Transfer'
    <3> DEFINE b == SaveBytes(s, sent)
    <3>1. b \in Seq(Char) /\ b[2] = Digit(s) /\ Len(b) = Len(Listing(sent)) + 3 /\ Len(Listing(sent)) \in Nat
      BY <2>2, Bytes
    <3>2. n = 1 /\ UnderWay(b, 1, d2e, out) /\ cmd = CmdS
      BY <1>1, <2>3 DEF Saving
    <3>3. Head(d2e) = b[1 + 1] /\ UnderWay(b, 1 + 1, Tail(d2e), out)
      BY <1>1, <1>4, <3>1, <3>2, ReadOn
    <3>4. k = s /\ UnderWay(b, 2, Tail(d2e), out)
      BY <1>d, <3>1, <3>3
    <3>5. esp' = "receive" /\ file' = <<>> /\ cur' = s
      BY <1>2, <3>2, <3>4
    <3>6. CutTo(<<>>, Listing(sent), 2 - 2)
      BY <1>7, LimitAssumption DEF CutTo
    <3>7. 2 \in 2 .. Len(b) - 1
      BY <3>1
    <3>8. Saving(s, 2)'
      BY <1>1, <3>4, <3>5, <3>6, <3>7 DEF Saving
    <3>9. QED BY <2>2, <3>8, SavingThen
  <2>4. ASSUME NEW s \in Slot, NEW n \in 0 .. 1, Fetching(s, n) PROVE Transfer'
    <3> DEFINE b == LoadBytes(s)
    <3>1. b \in Seq(Char) /\ b[2] = Digit(s) /\ Len(b) = 2
      BY EmptyTidy, Bytes
    <3>2. n = 1 /\ UnderWay(b, 1, d2e, out) /\ cmd = CmdL
      BY <1>1, <2>4 DEF Fetching
    <3>3. Head(d2e) = b[1 + 1] /\ Tail(d2e) = <<>> /\ out = <<>>
      <4>1. Head(d2e) = b[1 + 1] /\ (1 + 1 = Len(b) => Tail(d2e) = <<>> /\ out = <<>>)
        BY <1>1, <1>4, <3>1, <3>2, ReadOn
      <4>2. QED BY <3>1, <4>1
    <3>4. k = s /\ cmd # CmdS
      BY <1>d, <3>1, <3>2, <3>3 DEF CmdS, CmdL
    <3>5. esp' = "send" /\ file' = Append(slot[s], EOF) /\ cur' = s /\ kept' = kept
      BY <1>2, <3>4
    <3>6. ASSUME NEW prog \in kept[s], dev = "cload"
          PROVE  \E a \in Places(prog) : LoadedTo(prog, a, program, linebuf, Append(slot[s], EOF))
      <4>1. Tidy(prog) /\ CutTo(slot[s], Listing(prog), Len(Listing(prog)))
        BY <1>3 DEF TapePrograms
      <4>2. program = EmptyProgram /\ linebuf = <<>>
        BY <2>4, <3>6 DEF Fetching
      <4>3. slot[s] \in Seq(Char)
        BY <1>4
      <4>4. QED BY <4>1, <4>2, <4>3, LoadStart
    <3>7. Sending'
      BY <1>1, <3>3, <3>5, <3>6 DEF Sending
    <3>8. QED BY <3>7 DEF Transfer
  <2>5. ~ Sending /\ ~ Resting
    BY <1>1 DEF Sending, Resting
  <2>6. QED BY <2>1, <2>3, <2>4, <2>5 DEF Transfer
<1>13. QED BY <1>8, <1>10, <1>11, <1>12 DEF TapeIInv

LEMMA NoDigitTape ==
    ASSUME TapeIInv, NoDigit
    PROVE  TapeIInv'
<1>1. /\ d2e = <<>> /\ out = <<>> /\ esp' = "loop"
      /\ UNCHANGED <<program, dev, out, linebuf, d2e, cmd, cur, file, slot, sent, kept, clean,
                     calls, lost>>
  BY DEF NoDigit, Quiet, device, history
<1>2. TapeChars /\ TapeControl /\ TapePrograms
  BY DEF TapeIInv
<1>3. TapeChars' /\ TapePrograms'
  BY <1>1, <1>2 DEF TapeChars, TapePrograms
<1>4. TapeControl'
  BY <1>1, <1>2 DEF TapeControl
<1>5. Transfer'
  BY <1>1 DEF Transfer, Resting
<1>6. QED BY <1>3, <1>4, <1>5 DEF TapeIInv

LEMMA GiveUpTape ==
    ASSUME TapeIInv, GiveUp
    PROVE  TapeIInv'
<1>1. /\ esp = "receive" /\ d2e = <<>> /\ out = <<>> /\ esp' = "loop"
      /\ slot' = [slot EXCEPT ![cur] = file]
      /\ UNCHANGED <<program, dev, out, linebuf, d2e, cmd, cur, file, sent, kept, clean,
                     calls, lost>>
  BY DEF GiveUp, Quiet, device, history
<1>2. TapeChars /\ TapeControl /\ TapePrograms
  BY DEF TapeIInv
<1>3. TapeChars'
  BY <1>1, <1>2 DEF TapeChars
<1>4. TapeControl'
  BY <1>1, <1>2 DEF TapeControl
<1>5. TapePrograms'
  <2>1. kept[cur] = {} /\ cur \in Slot
    BY <1>1, <1>2 DEF TapeControl
  <2>2. \A s \in Slot : s # cur => slot'[s] = slot[s]
    BY <1>1, <1>2 DEF TapeChars
  <2>3. QED BY <1>1, <1>2, <2>1, <2>2 DEF TapePrograms
<1>6. Transfer'
  BY <1>1 DEF Transfer, Resting
<1>7. QED BY <1>3, <1>4, <1>5, <1>6 DEF TapeIInv

\* One more character of a file, or none if the slot is full.
LEMMA CutGrows ==
    ASSUME NEW f \in Seq(Char), NEW x \in Seq(Char), NEW k \in Nat, k < Len(x), CutTo(f, x, k),
           NEW c \in Char, c = x[k + 1]
    PROVE  CutTo(IF Len(f) < SLOT_MAX_LEN THEN Append(f, c) ELSE f, x, k + 1)
<1> DEFINE M == SLOT_MAX_LEN
           g == Append(f, c)
<1>1. M \in Nat
  BY LimitAssumption
<1>2. Len(f) = (IF k <= M THEN k ELSE M) /\ \A i \in 1 .. Len(f) : f[i] = x[i]
  BY DEF CutTo
<1>3. /\ Len(f) \in Nat /\ Len(g) = Len(f) + 1
      /\ \A i \in 1 .. Len(f) : g[i] = f[i]
      /\ g[Len(f) + 1] = c
  BY LongerBy
<1>M. M = SLOT_MAX_LEN
  OBVIOUS
<1> HIDE DEF M, g
<1>4. CASE Len(f) < M
  <2>1. Len(f) = k /\ k + 1 <= M
    BY <1>1, <1>2, <1>4
  <2>2. Len(g) = k + 1
    BY <1>3, <2>1
  <2>3. ASSUME NEW i \in 1 .. Len(g) PROVE g[i] = x[i]
    <3>1. CASE i = k + 1
      BY <1>3, <2>1, <3>1
    <3>2. CASE i # k + 1
      <4>1. i \in 1 .. Len(f)
        BY <2>1, <2>2, <3>2
      <4>2. QED BY <1>2, <1>3, <4>1
    <3>3. QED BY <3>1, <3>2
  <2>4. CutTo(g, x, k + 1)
    BY <1>M, <2>1, <2>2, <2>3 DEF CutTo
  <2>5. QED BY <1>4, <1>M, <2>4 DEF g
<1>5. CASE ~ Len(f) < M
  <2>1. Len(f) = M /\ ~ k + 1 <= M
    BY <1>1, <1>2, <1>5
  <2>2. CutTo(f, x, k + 1)
    BY <1>2, <1>M, <2>1 DEF CutTo
  <2>3. QED BY <1>5, <1>M, <2>2
<1>6. QED BY <1>4, <1>5

LEMMA ReceiveTape ==
    ASSUME TapeIInv, Receive
    PROVE  TapeIInv'
<1> DEFINE c == Head(d2e)
           grown == IF Len(file) < SLOT_MAX_LEN THEN Append(file, c) ELSE file
<1>1. /\ esp = "receive" /\ d2e # <<>> /\ d2e' = Tail(d2e)
      /\ UNCHANGED <<program, dev, out, linebuf, cmd, cur, sent, clean, calls, lost>>
  BY DEF Receive, device
<1>2. \/ /\ c = EOF /\ esp' = "loop" /\ slot' = [slot EXCEPT ![cur] = file] /\ file' = file
         /\ kept' = IF clean THEN [kept EXCEPT ![cur] = {sent}] ELSE kept
      \/ c # EOF /\ file' = grown /\ esp' = esp /\ slot' = slot /\ kept' = kept
  BY DEF Receive
<1>3. TapeChars /\ TapeControl /\ TapePrograms /\ (clean => Transfer)
  BY DEF TapeIInv
<1>4. /\ out \in Seq(Char) /\ d2e \in Seq(Char) /\ file \in Seq(Char)
      /\ slot \in [Slot -> Seq(Char)] /\ Len(file) <= SLOT_MAX_LEN
      /\ kept[cur] = {} /\ cur \in Slot /\ DOMAIN kept = Slot /\ Tidy(sent)
  BY <1>1, <1>3 DEF TapeChars, TapeControl, TapePrograms
<1>5. Tail(d2e) \in Seq(Char) /\ c \in Char
  BY <1>1, <1>4, FirstOf
<1> HIDE DEF c
<1>6. grown \in Seq(Char) /\ Len(grown) <= SLOT_MAX_LEN
  <2>1. Append(file, c) \in Seq(Char) /\ Len(Append(file, c)) = Len(file) + 1 /\ Len(file) \in Nat
    BY <1>4, <1>5, LongerBy
  <2>2. CASE Len(file) < SLOT_MAX_LEN
    BY <2>1, <2>2, LimitAssumption
  <2>3. CASE ~ Len(file) < SLOT_MAX_LEN
    BY <1>4, <2>3
  <2>4. QED BY <2>2, <2>3
<1>g. grown = IF Len(file) < SLOT_MAX_LEN THEN Append(file, c) ELSE file
  OBVIOUS
<1> HIDE DEF grown
<1>7. TapeChars'
  BY <1>1, <1>2, <1>3, <1>4, <1>5, <1>6 DEF TapeChars
<1>8. TapeControl'
  <2>1. /\ dev' \in {"prompt", "csave", "cload"} /\ esp' \in {"loop", "digit", "receive", "send"}
        /\ dev' = "csave" => out' # <<>>
        /\ cur' \in 0 .. 9 /\ calls' \in 0 .. MaxCalls /\ lost' \in 0 .. MaxLost
    BY <1>1, <1>2, <1>3 DEF TapeControl
  <2>2. esp' # "send" /\ (esp' = "receive" => file' = grown /\ kept' = kept)
    BY <1>1, <1>2
  <2>3. QED BY <1>1, <1>4, <1>6, <2>1, <2>2 DEF TapeControl
<1>9. clean => \E s \in Slot, n \in 0 .. Len(Listing(sent)) + 3 : Saving(s, n)
  BY <1>1, <1>3 DEF Transfer, Fetching, Sending, Resting
<1>10. ASSUME NEW s \in Slot, NEW n \in 0 .. Len(Listing(sent)) + 3, Saving(s, n)
       PROVE  /\ c = EOF => /\ Tail(d2e) = <<>> /\ out = <<>> /\ cur = s
                            /\ CutTo(file, Listing(sent), Len(Listing(sent)))
              /\ c # EOF => n + 1 \in Nat /\ Tidy(sent') /\ Saving(s, n + 1)'
  <2> DEFINE x == Listing(sent)
             b == SaveBytes(s, sent)
             N == Len(x)
  <2>1. /\ x \in Seq(Char) /\ N \in Nat /\ \A i \in 1 .. N : x[i] # EOF
        /\ b \in Seq(Char) /\ Len(b) = N + 3
        /\ \A i \in 1 .. N : b[2 + i] = x[i]
        /\ b[N + 3] = EOF
    BY <1>4, Bytes
  <2>2. UnderWay(b, n, d2e, out) /\ n \in 2 .. N + 2 /\ cur = s /\ CutTo(file, x, n - 2)
    BY <1>1, <1>10, <2>1 DEF Saving
  <2>3. /\ c = b[n + 1] /\ UnderWay(b, n + 1, Tail(d2e), out)
        /\ n + 1 = Len(b) => Tail(d2e) = <<>> /\ out = <<>>
    <3>1. n \in Nat
      BY <2>2
    <3>2. QED BY <1>1, <1>4, <2>1, <2>2, <3>1, ReadOn DEF c
  <2>b. b = SaveBytes(s, sent) /\ x = Listing(sent)
    OBVIOUS
  <2> HIDE DEF x, b
  <2>4. CASE n = N + 2
    <3>1. c = EOF /\ n + 1 = Len(b) /\ n - 2 = N
      BY <2>1, <2>3, <2>4
    <3>2. QED BY <2>2, <2>3, <2>b, <3>1
  <2>5. CASE n # N + 2
    <3>1. n - 1 \in 1 .. N /\ 2 + (n - 1) = n + 1 /\ n - 2 \in Nat /\ n - 2 < N
          /\ (n - 2) + 1 = n - 1 /\ (n + 1) - 2 = n - 1 /\ n + 1 \in 2 .. Len(b) - 1
      BY <2>1, <2>2, <2>5
    <3>2. c = x[n - 1] /\ c # EOF
      BY <2>1, <2>3, <3>1
    <3>3. CutTo(grown, x, (n - 2) + 1)
      BY <1>4, <1>5, <1>g, <2>1, <2>2, <3>1, <3>2, CutGrows
    <3>4. CutTo(file', x, (n + 1) - 2)
      BY <1>2, <3>1, <3>2, <3>3
    <3>5. esp' = "receive" /\ cur' = s /\ d2e' = Tail(d2e) /\ out' = out /\ sent' = sent
      BY <1>1, <1>2, <2>2, <3>2
    <3>6. Saving(s, n + 1)'
      <4>1. UnderWay(SaveBytes(s, sent'), n + 1, d2e', out')
        BY <2>3, <2>b, <3>5
      <4>2. n + 1 \in 2 .. Len(SaveBytes(s, sent')) - 1 /\ CutTo(file', Listing(sent'), (n + 1) - 2)
        BY <2>b, <3>1, <3>4, <3>5
      <4>3. QED BY <3>5, <4>1, <4>2 DEF Saving
    <3>7. QED BY <1>4, <3>1, <3>2, <3>5, <3>6
  <2>6. QED BY <2>4, <2>5
<1>11. TapePrograms'
  <2>1. CASE c # EOF
    BY <1>1, <1>2, <1>3, <2>1 DEF TapePrograms
  <2>2. CASE c = EOF
    <3>1. slot' = [slot EXCEPT ![cur] = file] /\ kept' = IF clean THEN [kept EXCEPT ![cur] = {sent}] ELSE kept
      BY <1>2, <2>2
    <3>2. \A s \in Slot : s # cur => slot'[s] = slot[s] /\ kept'[s] = kept[s]
      BY <1>4, <3>1
    <3>3. DOMAIN kept' = Slot
      BY <1>4, <3>1
    <3>4. kept'[cur] # {} => clean /\ kept'[cur] = {sent} /\ slot'[cur] = file
      BY <1>4, <3>1
    <3>5. clean => CutTo(file, Listing(sent), Len(Listing(sent)))
      BY <1>9, <1>10, <2>2
    <3>6. ASSUME NEW s \in Slot, NEW prog \in kept'[s]
          PROVE  Tidy(prog) /\ CutTo(slot'[s], Listing(prog), Len(Listing(prog)))
      <4>1. CASE s = cur
        BY <1>4, <3>4, <3>5, <3>6, <4>1
      <4>2. CASE s # cur
        BY <1>3, <3>2, <3>6, <4>2 DEF TapePrograms
      <4>3. QED BY <4>1, <4>2
    <3>7. QED BY <1>1, <1>3, <3>3, <3>6 DEF TapePrograms
  <2>3. QED BY <2>1, <2>2
<1>12. clean' => Transfer'
  <2>1. SUFFICES ASSUME clean PROVE Transfer'
    BY <1>1
  <2>2. PICK s \in Slot, n \in 0 .. Len(Listing(sent)) + 3 : Saving(s, n)
    BY <1>9, <2>1
  <2>3. CASE c = EOF
    <3>1. Tail(d2e) = <<>> /\ out = <<>>
      BY <1>10, <2>2, <2>3
    <3>2. Resting'
      BY <1>1, <1>2, <2>3, <3>1 DEF Resting
    <3>3. QED BY <3>2 DEF Transfer
  <2>4. CASE c # EOF
    <3>1. n + 1 \in Nat /\ Tidy(sent') /\ Saving(s, n + 1)'
      BY <1>10, <2>2, <2>4
    <3>2. QED BY <3>1, SavingThen
  <2>5. QED BY <2>3, <2>4
<1>13. QED BY <1>7, <1>8, <1>11, <1>12 DEF TapeIInv

LEMMA SendTape ==
    ASSUME TapeIInv, Send
    PROVE  TapeIInv'
<1> DEFINE c == Head(file)
           takes == dev = "cload" /\ out = <<>>
<1>1. /\ esp = "send" /\ file' = Tail(file)
      /\ esp' = IF Len(file) = 1 THEN "loop" ELSE "send"
      /\ UNCHANGED <<out, d2e, cmd, cur, slot, sent, kept, clean, calls, lost>>
  BY DEF Send, Takes, device, history
<1>2. takes => /\ dev' = IF c = EOF THEN "prompt" ELSE "cload"
               /\ program' = ProgramThen(program, linebuf, c) /\ linebuf' = LineThen(linebuf, c)
  BY DEF Send, Takes, ProgramThen, LineThen
<1>3. ~ takes => dev' = dev /\ program' = program /\ linebuf' = linebuf
  BY DEF Send, device
<1>4. TapeChars /\ TapeControl /\ TapePrograms /\ (clean => Transfer)
  BY DEF TapeIInv
<1>5. file \in Seq(Char) /\ file # <<>> /\ linebuf \in Seq(LineChar) /\ Len(linebuf) < LineMax
      /\ Tidy(program)
  BY <1>1, <1>4 DEF TapeChars, TapeControl, TapePrograms
<1>6. c \in Char /\ Tail(file) \in Seq(Char) /\ Len(file) \in Nat /\ Len(file) >= 1
      /\ Len(Tail(file)) = Len(file) - 1
  BY <1>5, FirstOf
<1>t. takes <=> dev = "cload" /\ out = <<>>
  OBVIOUS
<1> HIDE DEF takes
<1>c. c = Head(file)
  OBVIOUS
<1> HIDE DEF c
<1>7. LineThen(linebuf, c) \in Seq(LineChar) /\ Len(LineThen(linebuf, c)) < LineMax
  <2>1. CASE c = NL
    <3>1. LineThen(linebuf, c) = <<>>
      BY <2>1 DEF LineThen, NL, CR, EOF
    <3>2. <<>> \in Seq(LineChar) /\ Len(<<>>) = 0
      BY EmptySeq
    <3>3. QED BY <3>1, <3>2, LimitAssumption
  <2>2. CASE c # NL /\ c \in {CR, EOF}
    <3>1. LineThen(linebuf, c) = linebuf
      BY <2>2 DEF LineThen
    <3>2. QED BY <1>5, <3>1
  <2>3. CASE c # NL /\ c \notin {CR, EOF}
    <3>1. LineThen(linebuf, c) = IF Len(linebuf) < LineMax - 1 THEN Append(linebuf, c) ELSE linebuf
      BY <2>3 DEF LineThen
    <3>2. c \in LineChar
      BY <1>6, <2>3 DEF LineChar
    <3>3. Append(linebuf, c) \in Seq(LineChar) /\ Len(Append(linebuf, c)) = Len(linebuf) + 1
          /\ Len(linebuf) \in Nat
      BY <1>5, <3>2, LongerBy
    <3> DEFINE u == Append(linebuf, c)
    <3> HIDE DEF u
    <3>4. Len(linebuf) < LineMax - 1 => Len(u) < LineMax
      BY <3>3, LimitAssumption DEF u
    <3>5. QED BY <1>5, <3>1, <3>3, <3>4 DEF u
  <2>4. QED BY <2>1, <2>2, <2>3
<1>8. TapeChars'
  BY <1>1, <1>2, <1>3, <1>4, <1>6, <1>7 DEF TapeChars
<1>9. TapeControl'
  <2>1. dev' \in {"prompt", "csave", "cload"} /\ (dev' = "csave" => out' # <<>>)
    BY <1>1, <1>2, <1>3, <1>4 DEF TapeControl
  <2>2. esp' = "send" => file' # <<>>
    <3> DEFINE t == Tail(file)
               N == Len(file)
    <3>1. Len(<<>>) = 0 /\ N \in Nat /\ N >= 1 /\ Len(t) = N - 1
      BY <1>6
    <3> HIDE DEF t, N
    <3>2. N # 1 => t # <<>>
      BY <3>1
    <3>3. QED BY <1>1, <3>2 DEF t, N
  <2>3. QED BY <1>1, <1>4, <2>1, <2>2 DEF TapeControl
<1>10. TapePrograms'
  <2>1. Tidy(ProgramThen(program, linebuf, c))
    BY <1>5, HandleTidy DEF ProgramThen
  <2>2. Tidy(program')
    BY <1>2, <1>3, <1>5, <2>1
  <2>3. QED BY <1>1, <1>4, <2>2 DEF TapePrograms
<1>11. clean' => Transfer'
  <2>1. SUFFICES ASSUME clean PROVE Transfer'
    BY <1>1
  <2>2. Sending
    BY <1>1, <1>4, <2>1 DEF Transfer, Saving, Fetching, Resting
  <2>3. CASE Len(file) = 1
    <3>1. Resting'
      BY <1>1, <2>2, <2>3 DEF Sending, Resting
    <3>2. QED BY <3>1 DEF Transfer
  <2>4. CASE Len(file) # 1
    <3>1. ASSUME NEW prog \in kept[cur], dev' = "cload", Listable(prog)
          PROVE  \E a \in Places(prog) : LoadedTo(prog, a, program', linebuf', Tail(file))
      <4>1. dev = "cload" /\ takes
        BY <1>2, <1>3, <1>t, <2>2, <3>1 DEF Sending
      <4>2. PICK a \in Places(prog) : LoadedTo(prog, a, program, linebuf, file)
        BY <2>2, <3>1, <4>1 DEF Sending
      <4>3. Tidy(prog)
        <5>1. cur \in Slot
          BY <1>1, <1>4 DEF TapeControl
        <5>2. QED BY <1>4, <5>1 DEF TapePrograms
      <4>4. Len(file) >= 2
        BY <1>6, <2>4
      <4>5. \E e \in Places(prog) :
                LoadedTo(prog, e, ProgramThen(program, linebuf, Head(file)),
                         LineThen(linebuf, Head(file)), Tail(file))
        BY <1>5, <3>1, <4>2, <4>3, <4>4, LoadOn
      <4>6. QED BY <1>2, <1>c, <4>1, <4>5
    <3>2. Sending'
      BY <1>1, <2>2, <2>4, <3>1 DEF Sending
    <3>3. QED BY <3>2 DEF Transfer
  <2>5. QED BY <2>3, <2>4
<1>12. QED BY <1>8, <1>9, <1>10, <1>11 DEF TapeIInv

LEMMA MissTape ==
    ASSUME TapeIInv, Miss
    PROVE  TapeIInv'
<1>1. /\ file' = Tail(file) /\ ~ clean' /\ lost < MaxLost /\ lost' = lost + 1
      /\ esp = "send" /\ esp' = IF Len(file) = 1 THEN "loop" ELSE "send"
      /\ UNCHANGED <<program, dev, out, linebuf, d2e, cmd, cur, slot, sent, kept, calls>>
  BY DEF Miss, device
<1>2. TapeChars /\ TapeControl /\ TapePrograms
  BY DEF TapeIInv
<1>3. file \in Seq(Char) /\ file # <<>>
  BY <1>1, <1>2 DEF TapeChars, TapeControl
<1> DEFINE t == Tail(file)
           N == Len(file)
<1>4. t \in Seq(Char) /\ N \in Nat /\ Len(t) = N - 1 /\ Len(<<>>) = 0
  BY <1>3, FirstOf
<1>t. file' = t /\ esp' = IF N = 1 THEN "loop" ELSE "send"
  BY <1>1
<1> HIDE DEF t, N
<1>5. esp' = "send" => t # <<>>
  BY <1>4, <1>t
<1>6. TapeChars'
  BY <1>1, <1>2, <1>4, <1>t DEF TapeChars
<1>7. TapeControl'
  <2>1. esp' \in {"loop", "send"}
    BY <1>t
  <2>2. lost \in 0 .. MaxLost /\ lost < MaxLost /\ lost' = lost + 1
    BY <1>1, <1>2 DEF TapeControl
  <2>3. lost' \in 0 .. MaxLost
    BY <2>2, CallAssumption
  <2>4. esp' = "send" => file' # <<>>
    BY <1>5, <1>t
  <2>5. UNCHANGED <<dev, out, cur, kept, calls>> /\ cur \in Slot
    BY <1>1, <1>2 DEF TapeControl
  <2>6. QED BY <1>2, <2>1, <2>3, <2>4, <2>5 DEF TapeControl
<1>8. TapePrograms'
  BY <1>1, <1>2 DEF TapePrograms
<1>9. QED BY <1>1, <1>6, <1>7, <1>8 DEF TapeIInv

LEMMA WebTape ==
    ASSUME TapeIInv, NEW s \in Slot, NEW text \in Page, Web(s, text)
    PROVE  TapeIInv'
<1>1. /\ esp # "send" /\ calls < MaxCalls /\ calls' = calls + 1
      /\ slot' = [slot EXCEPT ![s] = text] /\ kept' = [kept EXCEPT ![s] = {}]
      /\ UNCHANGED <<program, dev, out, linebuf, d2e, esp, cmd, cur, file, sent, clean, lost>>
  BY DEF Web, WebServed, device
<1>2. TapeChars /\ TapeControl /\ TapePrograms /\ (clean => Transfer)
  BY DEF TapeIInv
<1>3. TapeChars'
  BY <1>1, <1>2, PageAssumption DEF TapeChars
<1>4. DOMAIN kept = Slot /\ DOMAIN kept' = Slot /\ kept'[s] = {}
      /\ \A i \in Slot : i # s => kept'[i] = kept[i] /\ slot'[i] = slot[i]
  BY <1>1, <1>2 DEF TapePrograms, TapeChars
<1>5. TapeControl'
  <2>1. esp = "receive" => kept'[cur] = {}
    BY <1>2, <1>4 DEF TapeControl
  <2>2. QED BY <1>1, <1>2, <2>1, CallAssumption DEF TapeControl
<1>6. TapePrograms'
  BY <1>1, <1>2, <1>4 DEF TapePrograms
<1>7. clean' => Transfer'
  BY <1>1, <1>2, TransferStays
<1>8. QED BY <1>3, <1>5, <1>6, <1>7 DEF TapeIInv

LEMMA StutterTape ==
    ASSUME TapeIInv, UNCHANGED tapeVars
    PROVE  TapeIInv'
<1>1. UNCHANGED <<program, dev, out, linebuf, d2e, esp, cmd, cur, file, slot, sent, kept, clean,
                  calls, lost>>
  BY DEF tapeVars, device, store, history
<1>2. TapeChars /\ TapeControl /\ TapePrograms /\ (clean => Transfer)
  BY DEF TapeIInv
<1>3. TapeChars' /\ TapeControl' /\ TapePrograms'
  BY <1>1, <1>2 DEF TapeChars, TapeControl, TapePrograms
<1>4. clean' => Transfer'
  BY <1>1, <1>2, TransferStays
<1>5. QED BY <1>3, <1>4 DEF TapeIInv

LEMMA TapeInductive ==
    ASSUME TapeIInv, [TapeNext]_tapeVars
    PROVE  TapeIInv'
<1>1. CASE \E ln \in TapeNumber, text \in TapeText : Type(ln, text)
  BY <1>1, TypeTape
<1>2. CASE \E s \in Slot : CSave(s) \/ CLoad(s)
  BY <1>2, CSaveTape, CLoadTape
<1>3. CASE SendByte \/ Cancel \/ Reset
  BY <1>3, SendByteTape, CancelTape, ResetTape
<1>4. CASE Store
  BY <1>4, ReadCommandTape, ReadSlotDigitTape, NoDigitTape, ReceiveTape, GiveUpTape, SendTape DEF Store
<1>5. CASE Miss
  BY <1>5, MissTape
<1>6. CASE \E s \in Slot, text \in Page : Web(s, text)
  BY <1>6, WebTape
<1>7. CASE UNCHANGED tapeVars
  BY <1>7, StutterTape
<1>8. QED BY <1>1, <1>2, <1>3, <1>4, <1>5, <1>6, <1>7 DEF TapeNext, Device

\* The program's lines keep their form, a slot that counts as kept has what its CSAVE listed,
\* and every transfer that met an idle store has read so much of it.
THEOREM TapeInvariant == TapeSpec => []TapeIInv
<1>1. TapeInit => TapeIInv
  BY TapeInitKept
<1>2. TapeIInv /\ [TapeNext]_tapeVars => TapeIInv'
  BY TapeInductive
<1>3. QED BY <1>1, <1>2, PTL DEF TapeSpec

\* The line buffer has room for its zero, a slot does not grow beyond its limit, and the
\* lines of the program stay in ascending order, each with a text, within its memory, also
\* where a loaded line found no room and left the end marker unwritten (do_cload,
\* store_line, receiveProgramToSlot).
THEOREM TapeTypeCorrect == TapeSpec => []TapeTypeOK
<1>1. TapeIInv => TapeTypeOK
  <2>1. SUFFICES ASSUME TapeIInv PROVE TapeTypeOK
    OBVIOUS
  <2>2. TapeChars /\ TapeControl /\ TapePrograms
    BY <2>1 DEF TapeIInv
  <2>3. WellFormed(program)
    BY <2>2, KeptFormed DEF TapePrograms, Tidy
  <2>4. QED BY <2>2, <2>3 DEF TapeChars, TapeControl, TapeTypeOK
<1>2. QED BY <1>1, TapeInvariant, PTL

\* The step of LoadedIsKept.
GivesBack ==
    \A prog \in kept[cur] :
        Send /\ Head(file) = EOF /\ dev = "cload" /\ out = <<>> /\ clean /\ Listable(prog) =>
            LET was == LinesOf(prog)
                is  == LinesOf(program')
            IN /\ \A n \in DOMAIN is : n \in DOMAIN was /\ is[n] = was[n]
               /\ \A n \in DOMAIN was, m \in DOMAIN is : n <= m => n \in DOMAIN is
               /\ Len(Listing(prog)) <= SLOT_MAX_LEN => is = was

LEMMA StepGivesBack ==
    ASSUME TapeIInv
    PROVE  GivesBack
<1>1. SUFFICES ASSUME NEW prog \in kept[cur], Send, Head(file) = EOF, dev = "cload", out = <<>>, clean,
                      Listable(prog)
               PROVE  /\ FirstLinesOf(LinesOf(prog), LinesOf(program'))
                      /\ Len(Listing(prog)) <= SLOT_MAX_LEN => LinesOf(program') = LinesOf(prog)
  BY DEF GivesBack, FirstLinesOf
<1>2. TapeChars /\ TapeControl /\ TapePrograms /\ Transfer /\ esp = "send"
  BY <1>1 DEF TapeIInv, Send
<1>3. Sending /\ cur \in Slot /\ file # <<>>
  BY <1>2 DEF Transfer, Saving, Fetching, Resting, TapeControl
<1>4. Tidy(prog) /\ Tidy(program) /\ linebuf \in Seq(LineChar) /\ file \in Seq(Char)
  BY <1>2, <1>3 DEF TapePrograms, TapeChars
<1>5. PICK a \in Places(prog) : LoadedTo(prog, a, program, linebuf, file)
  BY <1>1, <1>3 DEF Sending
<1>6. program' = program
  BY <1>1 DEF Send, Takes, EOF, NL
<1>7. /\ FirstLinesOf(LinesOf(prog), LinesOf(program))
      /\ Len(Listing(prog)) <= SLOT_MAX_LEN => LinesOf(program) = LinesOf(prog)
  BY <1>1, <1>3, <1>4, <1>5, LoadDone
<1>8. QED BY <1>6, <1>7

\* What CLOAD reports as loaded is what CSAVE kept in the slot: the first lines of that
\* program, each as it was, and all of them if the listing fits the slot (do_csave, do_cload,
\* receiveProgramToSlot, sendProgramFromSlot).
THEOREM LoadGivesBack == TapeSpec => LoadedIsKept
<1>1. TapeIInv => GivesBack
  BY StepGivesBack
<1>2. TapeSpec => [][GivesBack]_tapeVars
  BY <1>1, TapeInvariant, PTL
<1>3. QED BY <1>2 DEF GivesBack, LoadedIsKept

=============================================================================
