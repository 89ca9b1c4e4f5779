-------------------------- MODULE RequestsProofs --------------------------
(***************************************************************************)
(* Proofs about Requests, for every configuration and every request: what  *)
(* is read, how much of it and how many bars a histogram has (RInv); whom  *)
(* a reply blames and what the rail tells its reader (AInv); which style a *)
(* value gets; what the status page shows (FiguresKept); and the types     *)
(* (CallersTyped).                                                         *)
(*                                                                         *)
(* The loops over tools, rules and metrics are recursive functions of the  *)
(* number of turns done.  LoopRuns says that such a function is what it    *)
(* says it is, and EveryTurn that what the first turn begins and every     *)
(* turn keeps holds after all of them.                                     *)
(***************************************************************************)
EXTENDS Requests, WellFoundedInduction, TLAPS

-----------------------------------------------------------------------------
(* Positions in a sequence.                                                *)

\* The least of some positions is one of them, and no other is less.
LEMMA MinIsLeast ==
    ASSUME NEW n \in Nat, NEW S \in SUBSET (1..n), S # {}
    PROVE  \E m \in 1..n : m = Min(S) /\ m \in S /\ \A i \in S : m <= i
<1> DEFINE R == OpToRel(<, Nat)
<1>1. S \in SUBSET Nat
  OBVIOUS
<1>2. \A x, y \in Nat : x < y => <<x, y>> \in R
  BY Zenon DEF OpToRel
<1>3. PICK x \in S : \A y \in S : ~ (<<y, x>> \in R)
  BY <1>1, WFMin, NatLessThanWellFounded, Zenon
<1>4. \A y \in S : x <= y
  <2>1. \A y \in S : ~ (y < x)
    BY <1>1, <1>2, <1>3, Zenon
  <2> HIDE DEF R
  <2> QED BY <1>1, <2>1
<1> DEFINE m == CHOOSE k \in S : \A y \in S : k <= y
<1>5. m \in S /\ \A i \in S : m <= i
  BY <1>4, Zenon
<1>6. m = Min(S)
  BY Zenon DEF Min
<1>7. m \in 1..n
  BY <1>5, Zenon
<1> QED BY <1>5, <1>6, <1>7, Zenon

\* The ladder of steps climbs.
LEMMA LadderClimbs ==
    /\ Len(Ladder) = 19 /\ DOMAIN Ladder = 1..19
    /\ \A i \in 1..19 : Ladder[i] \in Nat \ {0}
    /\ \A i, j \in 1..19 : i <= j => Ladder[i] <= Ladder[j]
<1>1. Len(Ladder) = 19 /\ DOMAIN Ladder = 1..19
  BY DEF Ladder
<1>2. \A i \in 1..19 : Ladder[i] \in Nat \ {0}
  BY DEF Ladder
<1>3. \A i, j \in 1..19 : i <= j => Ladder[i] <= Ladder[j]
  BY DEF Ladder
<1> QED BY <1>1, <1>2, <1>3

\* The step of a window: every window the ladder covers fits in TargetBuckets
\* bars, and any finer step would not do (niceStep).
LEMMA StepFits ==
    ASSUME NEW window \in Int
    PROVE  /\ NiceStep(window) \in Nat \ {0}
           /\ window <= TargetBuckets * Ladder[Len(Ladder)]
                => window <= TargetBuckets * NiceStep(window)
           /\ \A i \in DOMAIN Ladder :
                Ladder[i] < NiceStep(window) => window > TargetBuckets * Ladder[i]
<1> DEFINE I == {i \in 1..Len(Ladder) : window <= TargetBuckets * Ladder[i]}
<1>1. NiceStep(window) = Ladder[IF (IF I # {} THEN Min(I) ELSE 0) = 0 THEN Len(Ladder)
                                ELSE (IF I # {} THEN Min(I) ELSE 0)]
  BY DEF NiceStep, SelectInSeq
<1> HIDE DEF I
<1>2. CASE I = {}
  <2>1. NiceStep(window) = Ladder[19]
    BY <1>1, <1>2, LadderClimbs
  <2>2. \A i \in 1..19 : window > TargetBuckets * Ladder[i]
    BY <1>2, LadderClimbs DEF I, TargetBuckets
  <2> QED BY <2>1, <2>2, LadderClimbs
<1>3. CASE I # {}
  <2>1. I \in SUBSET (1..19)
    BY LadderClimbs DEF I
  <2>2. PICK m \in 1..19 : m = Min(I) /\ m \in I /\ \A i \in I : m <= i
    <3>1. 19 \in Nat
      OBVIOUS
    <3> QED BY <1>3, <2>1, <3>1, MinIsLeast, Zenon
  <2>3. m # 0
    OBVIOUS
  <2>4. NiceStep(window) = Ladder[m]
    BY <1>1, <1>3, <2>2, <2>3, Zenon
  <2>5. window <= TargetBuckets * NiceStep(window)
    BY <2>2, <2>4, Zenon DEF I
  <2>6. ASSUME NEW i \in 1..19, Ladder[i] < NiceStep(window)
        PROVE  window > TargetBuckets * Ladder[i]
    <3>1. i \notin I
      <4>1. SUFFICES ASSUME i \in I PROVE FALSE
        OBVIOUS
      <4>2. Ladder[m] <= Ladder[i]
        BY <4>1, <2>2, LadderClimbs
      <4> QED BY <4>2, <2>4, <2>6, LadderClimbs
    <3> QED BY <3>1, LadderClimbs DEF I, TargetBuckets
  <2> QED BY <2>4, <2>5, <2>6, LadderClimbs
<1> QED BY <1>2, <1>3

-----------------------------------------------------------------------------
(* Loops.  The code's loops are functions of the number of turns taken;    *)
(* these are what there is to know of any of them, said with sets because  *)
(* the provers cannot instantiate an operator.                             *)

\* What holds before the first turn and survives every turn holds after each.
LEMMA EveryTurn ==
    ASSUME NEW n \in Nat, NEW S, 0 \in S, \A i \in 1..n : i - 1 \in S => i \in S
    PROVE  \A i \in 0..n : i \in S
<1> DEFINE T == {i \in 1..n : i \notin S}
<1>1. T = {}
  <2>1. SUFFICES ASSUME T # {} PROVE FALSE
    OBVIOUS
  <2>2. T \in SUBSET (1..n)
    OBVIOUS
  <2>3. PICK m \in 1..n : m \in T /\ \A i \in T : m <= i
    <3> HIDE DEF T
    <3> QED BY <2>1, <2>2, MinIsLeast, Zenon
  <2>4. m - 1 \in S
    <3>1. CASE m = 1
      BY <3>1
    <3>2. CASE m # 1
      <4>1. m - 1 \in 1..n /\ ~(m <= m - 1)
        BY <3>2
      <4> QED BY <2>3, <4>1
    <3> QED BY <3>1, <3>2
  <2> QED BY <2>3, <2>4
<1> QED BY <1>1

\* A value of A for each number of turns: the base, and what the turns make of it.
RunOf(f, A, base, n, turn) ==
    /\ f \in [0..n -> A]
    /\ f[0] = base
    /\ \A i \in 1..n : f[i] = turn[<<f[i - 1], i>>]

\* A loop that carries a value of A through n turns has a value after each.
LEMMA LoopRuns ==
    ASSUME NEW A, NEW base \in A, NEW n \in Nat, NEW turn \in [A \X (1..n) -> A]
    PROVE  \E f : RunOf(f, A, base, n, turn)
<1> DEFINE Runs(f, k) == f[0] = base /\ \A i \in 1..k : f[i] = turn[<<f[i - 1], i>>]
           S == {k \in 0..n : \E f \in [0..k -> A] : Runs(f, k)}
<1>1. 0 \in S
  <2> DEFINE f == [i \in 0..0 |-> base]
  <2>1. f \in [0..0 -> A] /\ Runs(f, 0)
    OBVIOUS
  <2> HIDE DEF f, Runs
  <2> QED BY <2>1
<1>2. ASSUME NEW k \in 1..n, k - 1 \in S PROVE k \in S
  <2>1. PICK f \in [0..(k - 1) -> A] : Runs(f, k - 1)
    BY <1>2
  <2> DEFINE g == [i \in 0..k |-> IF i = k THEN turn[<<f[k - 1], k>>] ELSE f[i]]
  <2>2. f[k - 1] \in A
    BY <2>1
  <2>3. turn[<<f[k - 1], k>>] \in A
    BY <2>2
  <2>4. g \in [0..k -> A]
    BY <2>3
  <2>5. g[0] = base
    BY <2>1
  <2>6. ASSUME NEW i \in 1..k PROVE g[i] = turn[<<g[i - 1], i>>]
    <3>1. g[i - 1] = f[i - 1]
      OBVIOUS
    <3>2. CASE i = k
      <4>1. g[i] = turn[<<f[k - 1], k>>]
        BY <3>2
      <4> HIDE DEF g
      <4> QED BY <3>1, <3>2, <4>1, Zenon
    <3>3. CASE i # k
      <4>1. i \in 1..(k - 1) /\ g[i] = f[i]
        BY <3>3
      <4>2. f[i] = turn[<<f[i - 1], i>>]
        BY <2>1, <4>1
      <4> QED BY <3>1, <4>1, <4>2
    <3> QED BY <3>2, <3>3
  <2>7. Runs(g, k)
    BY <2>5, <2>6
  <2> HIDE DEF g, Runs
  <2> QED BY <2>4, <2>7
<1>3. n \in S
  <2>1. \A i \in 0..n : i \in S
    <3> HIDE DEF S
    <3> QED BY <1>1, <1>2, EveryTurn, Zenon
  <2> QED BY <2>1
<1> QED BY <1>3 DEF RunOf

-----------------------------------------------------------------------------
(* The tool and the cap.                                                   *)

Configured == /\ cfg.tools \in Seq({cfg.tools[i] : i \in DOMAIN cfg.tools})
              /\ cfg.maxRows \in Int /\ cfg.defaultLimit \in Int /\ cfg.defaultRange \in Int

\* The tool of a request is the first, or one that has the name, if any has
\* (resolveTool).
LEMMA ToolFound ==
    ASSUME Configured, cfg.tools # <<>>, NEW r
    PROVE  \/ /\ ResolveTool(r) = Unknown
              /\ r.tool # NoId /\ \A i \in DOMAIN cfg.tools : cfg.tools[i].id # r.tool
           \/ \E n \in DOMAIN cfg.tools :
                /\ IF r.tool = NoId THEN n = 1 ELSE cfg.tools[n].id = r.tool
                /\ ResolveTool(r) = IF Permitted(r.user, cfg.tools[n]) THEN n ELSE Forbidden
<1> DEFINE Named == {i \in 1..Len(cfg.tools) : cfg.tools[i].id = r.tool}
           n == IF r.tool = NoId THEN 1 ELSE IF Named # {} THEN Min(Named) ELSE 0
<1>1. Len(cfg.tools) \in Nat \ {0} /\ DOMAIN cfg.tools = 1..Len(cfg.tools)
  BY DEF Configured
<1>2. ResolveTool(r) = IF n = 0 THEN Unknown
                       ELSE IF Permitted(r.user, cfg.tools[n]) THEN n ELSE Forbidden
  BY DEF ResolveTool, SelectInSeq
<1>3. CASE r.tool = NoId
  <2>1. n = 1 /\ 1 \in DOMAIN cfg.tools
    BY <1>1, <1>3
  <2> HIDE DEF n
  <2> QED BY <1>2, <1>3, <2>1
<1>4. CASE r.tool # NoId /\ Named # {}
  <2>1. Named \in SUBSET (1..Len(cfg.tools))
    OBVIOUS
  <2>2. PICK m \in 1..Len(cfg.tools) : m = Min(Named) /\ m \in Named
    BY <1>1, <1>4, <2>1, MinIsLeast, Zenon
  <2>3. n = m /\ m # 0 /\ m \in DOMAIN cfg.tools
    BY <1>1, <1>4, <2>2
  <2>4. cfg.tools[m].id = r.tool
    BY <2>2
  <2> HIDE DEF n, Named
  <2> QED BY <1>2, <1>4, <2>3, <2>4
<1>5. CASE r.tool # NoId /\ Named = {}
  <2>1. n = 0
    BY <1>5
  <2>2. \A i \in DOMAIN cfg.tools : cfg.tools[i].id # r.tool
    BY <1>1, <1>5
  <2> HIDE DEF n
  <2> QED BY <1>2, <1>5, <2>1, <2>2
<1> QED BY <1>3, <1>4, <1>5

\* Where tools are configured, a request that its tool does not stop has the
\* filter of one that its caller may use (resolveTool, filters).
LEMMA FilterIsTheTools ==
    ASSUME Configured, cfg.tools # <<>>, NEW r, ToolCheck(r) = Pending
    PROVE  \E i \in DOMAIN cfg.tools :
                Permitted(r.user, cfg.tools[i]) /\ ToolQuery(r) = cfg.tools[i].query
<1>1. ResolveTool(r) \notin {Unknown, Forbidden}
  BY DEF ToolCheck, Pending, Unknown, Forbidden
<1>2. PICK n \in DOMAIN cfg.tools :
          ResolveTool(r) = IF Permitted(r.user, cfg.tools[n]) THEN n ELSE Forbidden
  BY <1>1, ToolFound
<1>3. Permitted(r.user, cfg.tools[n]) /\ ResolveTool(r) = n
  BY <1>1, <1>2
<1>4. n \in Nat \ {0}
  BY DEF Configured
<1>5. ToolQuery(r) = cfg.tools[n].query
  BY <1>3, <1>4 DEF ToolQuery
<1> QED BY <1>3, <1>5

\* The row cap, whatever the caller sent (limit).
LEMMA LimitIsCapped ==
    ASSUME Configured, cfg.defaultLimit \in 1..cfg.maxRows, NEW r, r.limit \in Int
    PROVE  Limit(r) \in 1..cfg.maxRows
BY DEF Limit, Configured

\* The window of a request that has passed its checks.
LEMMA WindowTyped ==
    ASSUME Configured, NEW r, r.start \in Int, r.end \in Int
    PROVE  Start(r) \in Int /\ End(r) \in Int
BY NowAssumption DEF Start, End, Configured

-----------------------------------------------------------------------------
(* The rail.                                                               *)

\* The rail has the tools that its reader may use, all of them and no other
\* (handleConfig).
LEMMA RailLists ==
    ASSUME Configured, NEW user
    PROVE  /\ Len(RailFor(user)) \in Nat /\ DOMAIN RailFor(user) = 1..Len(RailFor(user))
           /\ Len(RailFor(user)) <= Len(cfg.tools)
           /\ \A k \in DOMAIN RailFor(user) : \E i \in DOMAIN cfg.tools :
                Permitted(user, cfg.tools[i]) /\ RailFor(user)[k] = Entry(cfg.tools[i])
           /\ \A i \in DOMAIN cfg.tools : Permitted(user, cfg.tools[i]) =>
                \E k \in DOMAIN RailFor(user) : RailFor(user)[k] = Entry(cfg.tools[i])
<1> DEFINE n == Len(cfg.tools)
           E == {Entry(cfg.tools[i]) : i \in 1..n}
           ok(i) == Permitted(user, cfg.tools[i])
           turn == [p \in Seq(E) \X (1..n) |->
                        IF ok(p[2]) THEN Append(p[1], Entry(cfg.tools[p[2]])) ELSE p[1]]
           Listed(f) == f = [i \in 0..n |->
                        IF i = 0 THEN <<>>
                        ELSE IF Permitted(user, cfg.tools[i])
                             THEN Append(f[i - 1], Entry(cfg.tools[i])) ELSE f[i - 1]]
           L == CHOOSE f : Listed(f)
<1>1. n \in Nat /\ DOMAIN cfg.tools = 1..n
  BY DEF Configured
<1>2. RailFor(user) = L[n]
  BY DEF RailFor
<1>3. Listed(L)
  <2>1. turn \in [Seq(E) \X (1..n) -> Seq(E)]
    <3>1. ASSUME NEW s \in Seq(E), NEW i \in 1..n
          PROVE  Append(s, Entry(cfg.tools[i])) \in Seq(E)
      OBVIOUS
    <3> QED BY <3>1
  <2>2. <<>> \in Seq(E)
    OBVIOUS
  <2>3. PICK f \in [0..n -> Seq(E)] :
            f[0] = <<>> /\ \A i \in 1..n : f[i] = turn[<<f[i - 1], i>>]
    <3> DEFINE A == Seq(E)
               start == <<>>
    <3>1. start \in A /\ turn \in [A \X (1..n) -> A] /\ n \in Nat
      BY <1>1, <2>1
    <3>2. \E f : RunOf(f, A, start, n, turn)
      <4> HIDE DEF turn, E, n, A, start
      <4> QED BY <3>1, LoopRuns, Zenon
    <3> HIDE DEF turn, E
    <3> QED BY <3>2 DEF RunOf
  <2>4. ASSUME NEW g \in [0..n -> Seq(E)], NEW i \in 1..n
        PROVE  turn[<<g[i - 1], i>>] = IF ok(i) THEN Append(g[i - 1], Entry(cfg.tools[i]))
                                       ELSE g[i - 1]
    <3>1. g[i - 1] \in Seq(E)
      BY <1>1
    <3> HIDE DEF E, n, ok
    <3> QED BY <3>1
  <2>5. Listed(f)
    <3>1. ASSUME NEW i \in 0..n
          PROVE  f[i] = IF i = 0 THEN <<>>
                        ELSE IF Permitted(user, cfg.tools[i])
                             THEN Append(f[i - 1], Entry(cfg.tools[i])) ELSE f[i - 1]
      <4>1. CASE i = 0
        BY <2>3, <4>1
      <4>2. CASE i # 0
        <5>1. i \in 1..n
          BY <1>1, <4>2
        <5>2. f[i] = turn[<<f[i - 1], i>>]
          BY <2>3, <5>1
        <5>3. turn[<<f[i - 1], i>>] = IF ok(i) THEN Append(f[i - 1], Entry(cfg.tools[i]))
                                      ELSE f[i - 1]
          BY <2>4, <5>1
        <5> QED BY <4>2, <5>2, <5>3
      <4> QED BY <4>1, <4>2
    <3> HIDE DEF E
    <3> QED BY <3>1
  <2> HIDE DEF Listed
  <2> QED BY <2>5, Zenon
<1>4. /\ L[0] = <<>>
      /\ \A i \in 1..n : L[i] = IF ok(i) THEN Append(L[i - 1], Entry(cfg.tools[i])) ELSE L[i - 1]
  <2> HIDE DEF L, E, turn
  <2>1. ASSUME NEW i \in 0..n
        PROVE  L[i] = IF i = 0 THEN <<>>
                      ELSE IF Permitted(user, cfg.tools[i])
                           THEN Append(L[i - 1], Entry(cfg.tools[i])) ELSE L[i - 1]
    <3> HIDE DEF n
    <3> QED BY <1>3, Zenon
  <2>2. 0 \in 0..n /\ \A i \in 1..n : i \in 0..n /\ i # 0
    BY <1>1
  <2> HIDE DEF n
  <2>3. L[0] = <<>>
    BY <2>1, <2>2
  <2>4. ASSUME NEW i \in 1..n
        PROVE  L[i] = IF ok(i) THEN Append(L[i - 1], Entry(cfg.tools[i])) ELSE L[i - 1]
    BY <2>1, <2>2
  <2> QED BY <2>3, <2>4
<1> HIDE DEF L, turn, Listed, E
<1> DEFINE All(i) ==
              /\ L[i] \in Seq(E) /\ Len(L[i]) <= i
              /\ \A k \in 1..Len(L[i]) : \E j \in 1..i :
                    ok(j) /\ L[i][k] = Entry(cfg.tools[j])
              /\ \A j \in 1..i : ok(j) =>
                    \E k \in 1..Len(L[i]) : L[i][k] = Entry(cfg.tools[j])
           S == {i \in 0..n : All(i)}
<1>5. 0 \in S
  <2>1. L[0] \in Seq(E) /\ Len(L[0]) = 0
    BY <1>4
  <2> QED BY <1>1, <2>1
<1>6. ASSUME NEW i \in 1..n, i - 1 \in S PROVE i \in S
  <2> DEFINE s == L[i - 1]
             e == Entry(cfg.tools[i])
  <2>1. s \in Seq(E) /\ e \in E
    BY <1>6 DEF E
  <2>2. L[i] = IF ok(i) THEN Append(s, e) ELSE s
    BY <1>4
  <2>3. /\ Len(s) <= i - 1
        /\ \A k \in 1..Len(s) : \E j \in 1..(i - 1) : ok(j) /\ s[k] = Entry(cfg.tools[j])
        /\ \A j \in 1..(i - 1) : ok(j) => \E k \in 1..Len(s) : s[k] = Entry(cfg.tools[j])
    BY <1>6
  <2>4. CASE ~ok(i)
    <3>1. L[i] = s
      BY <2>2, <2>4
    <3>2. All(i)
      <4>1. ASSUME NEW k \in 1..Len(s) PROVE \E j \in 1..i : ok(j) /\ s[k] = Entry(cfg.tools[j])
        BY <1>1, <2>3
      <4>2. ASSUME NEW j \in 1..i, ok(j) PROVE \E k \in 1..Len(s) : s[k] = Entry(cfg.tools[j])
        <5>1. j \in 1..(i - 1)
          BY <1>1, <2>4, <4>2
        <5> QED BY <2>3, <4>2, <5>1
      <4>3. Len(s) <= i
        <5>1. Len(s) \in Nat /\ i \in Nat
          BY <1>1, <2>1
        <5> HIDE DEF s
        <5> QED BY <2>3, <5>1
      <4> HIDE DEF s, ok
      <4> QED BY <2>1, <3>1, <4>1, <4>2, <4>3
    <3>3. i \in 0..n
      BY <1>1
    <3> HIDE DEF All
    <3> QED BY <3>2, <3>3
  <2>5. CASE ok(i)
    <3>1. L[i] = Append(s, e)
      BY <2>2, <2>5
    <3>2. /\ Len(L[i]) = Len(s) + 1 /\ Len(s) \in Nat
          /\ \A k \in 1..Len(s) : L[i][k] = s[k]
          /\ L[i][Len(s) + 1] = e
          /\ L[i] \in Seq(E)
      <4> HIDE DEF s, e
      <4> QED BY <2>1, <3>1
    <3>3. ASSUME NEW k \in 1..Len(L[i])
          PROVE  \E j \in 1..i : ok(j) /\ L[i][k] = Entry(cfg.tools[j])
      <4>1. CASE k = Len(s) + 1
        <5> HIDE DEF s, ok
        <5> QED BY <1>1, <2>5, <3>2, <4>1
      <4>2. CASE k # Len(s) + 1
        <5>1. k \in 1..Len(s)
          <6> HIDE DEF s
          <6> QED BY <3>2, <4>2
        <5>2. PICK j \in 1..(i - 1) : ok(j) /\ s[k] = Entry(cfg.tools[j])
          BY <2>3, <5>1
        <5> HIDE DEF s, ok
        <5> QED BY <1>1, <3>2, <5>1, <5>2
      <4> QED BY <4>1, <4>2
    <3>4. ASSUME NEW j \in 1..i, ok(j)
          PROVE  \E k \in 1..Len(L[i]) : L[i][k] = Entry(cfg.tools[j])
      <4>1. CASE j = i
        <5>1. Len(s) + 1 \in 1..Len(L[i])
          <6> HIDE DEF s
          <6> QED BY <3>2
        <5> HIDE DEF s, ok
        <5> QED BY <3>2, <4>1, <5>1
      <4>2. CASE j # i
        <5>1. PICK k \in 1..Len(s) : s[k] = Entry(cfg.tools[j])
          <6>1. j \in 1..(i - 1)
            BY <1>1, <4>2
          <6> QED BY <2>3, <3>4, <6>1
        <5>2. k \in 1..Len(L[i])
          <6> HIDE DEF s
          <6> QED BY <3>2
        <5> HIDE DEF s, ok
        <5> QED BY <3>2, <5>1, <5>2
      <4> QED BY <4>1, <4>2
    <3>5. All(i)
      <4>1. Len(L[i]) <= i
        <5>1. Len(s) \in Nat /\ Len(s) <= i - 1 /\ Len(L[i]) = Len(s) + 1 /\ i \in Nat
          BY <1>1, <2>3, <3>2
        <5> HIDE DEF s
        <5> QED BY <5>1
      <4> QED BY <3>2, <3>3, <3>4, <4>1
    <3>6. i \in 0..n
      BY <1>1
    <3> HIDE DEF All
    <3> QED BY <3>5, <3>6
  <2> QED BY <2>4, <2>5
<1>7. All(n)
  <2>1. \A i \in 0..n : i \in S
    <3> HIDE DEF S, n
    <3> QED BY <1>1, <1>5, <1>6, EveryTurn, Zenon
  <2>2. n \in S
    <3> HIDE DEF S
    <3> QED BY <1>1, <2>1
  <2> QED BY <2>2
<1>8. Len(L[n]) \in Nat /\ DOMAIN L[n] = 1..Len(L[n]) /\ Len(L[n]) <= Len(cfg.tools)
  BY <1>7
<1> HIDE DEF n
<1> QED BY <1>1, <1>2, <1>7, <1>8
-----------------------------------------------------------------------------
(* The invariant.  Confined and BarsFit are not inductive by themselves:   *)
(* that a cap exists is what validation has left of the configuration, and *)
(* a call is only made by a process that serves.                           *)

Served == /\ process = "serving" => cfg.defaultLimit \in 1..cfg.maxRows
          /\ call # NoCall => process = "serving"
          /\ reply # Pending => process = "serving"
          /\ req = NoRequest => call = NoCall

RInv == Configured /\ Served /\ Confined /\ BarsFit

\* Whichever deadline passes, a call has ended by it.
LEMMA DeadlineEnds == Deadline => call # NoCall /\ TimesOut(Endpoints \ {"config"})
BY DEF Deadline, QueryDeadline, TailDeadline, GetJSONDeadline, StatusDeadline, TimesOut,
       NoCall, Endpoints

LEMMA InitHolds == Init => RInv
<1> SUFFICES ASSUME Init PROVE RInv
  OBVIOUS
<1>1. Configured
  BY ConfigAssumption DEF Init, Configured
<1>2. Served
  BY DEF Init, Served
<1>3. Confined /\ BarsFit
  BY DEF Init, Confined, BarsFit, Reading, NoCall, LogEndpoints, Endpoints
<1> QED BY <1>1, <1>2, <1>3 DEF RInv

\* A call that no check has refused: its filter is the tool's, its length is
\* capped, and its step fits (the handlers, Filters.apply, niceStep).
LEMMA CallIsRight ==
    ASSUME RInv, process = "serving", NEW r \in Requests, Refusal(r) = Pending,
           r.endpoint # "config"
    PROVE  LET c == CallOf(r) IN
           /\ c.endpoint = r.endpoint
           /\ r.endpoint \in LogEndpoints /\ cfg.tools # <<>> =>
                \E i \in DOMAIN cfg.tools :
                    Permitted(r.user, cfg.tools[i]) /\ c.filter = cfg.tools[i].query
           /\ r.endpoint \in {"query", "tail"} => c.limit \in 1..cfg.maxRows
           /\ r.endpoint = "hits" =>
                /\ c.start \in Int /\ c.end \in Int
                /\ r.step <= 0 => c.step = NiceStep(c.end - c.start)
<1> DEFINE c == CallOf(r)
<1>0. /\ r.endpoint \in Endpoints
      /\ r.start \in Int /\ r.end \in Int /\ r.limit \in Int /\ r.step \in Int
  BY RequestAssumption
<1>1. c.endpoint = r.endpoint
  BY DEF CallOf
<1>2. ASSUME r.endpoint \in LogEndpoints, cfg.tools # <<>>
      PROVE  \E i \in DOMAIN cfg.tools :
                Permitted(r.user, cfg.tools[i]) /\ c.filter = cfg.tools[i].query
  <2>1. ToolCheck(r) = Pending
    <3>1. CASE r.endpoint \in {"query", "hits", "facets"}
      BY <3>1 DEF Refusal, First
    <3>2. CASE r.endpoint = "tail"
      BY <3>2 DEF Refusal, First
    <3>3. CASE r.endpoint \in {"names", "values"}
      BY <3>3 DEF Refusal, First, Pending
    <3> QED BY <1>2, <3>1, <3>2, <3>3 DEF LogEndpoints, Endpoints
  <2>2. c.filter = ToolQuery(r)
    BY <1>2 DEF CallOf, FilterOf, LogEndpoints
  <2> QED BY <1>2, <2>1, <2>2, FilterIsTheTools DEF RInv
<1>3. ASSUME r.endpoint \in {"query", "tail"} PROVE c.limit \in 1..cfg.maxRows
  <2>1. c.limit = Limit(r)
    BY <1>3 DEF CallOf
  <2> QED BY <1>0, <2>1, LimitIsCapped DEF RInv, Served
<1>4. ASSUME r.endpoint = "hits"
      PROVE  /\ c.start \in Int /\ c.end \in Int
             /\ r.step <= 0 => c.step = NiceStep(c.end - c.start)
  <2>1. c.start = Start(r) /\ c.end = End(r) /\ c.step = Step(r)
    BY <1>4 DEF CallOf
  <2>2. c.start \in Int /\ c.end \in Int
    BY <1>0, <2>1, WindowTyped DEF RInv
  <2> QED BY <1>0, <2>1, <2>2 DEF Step, OptInt
<1> QED BY <1>1, <1>2, <1>3, <1>4

\* The step that makes a call.
LEMMA ForwardHolds ==
    ASSUME RInv, process = "serving", NEW r \in Requests, Forward(r),
           req' = r, UNCHANGED <<process, cfg>>
    PROVE  Confined' /\ BarsFit'
<1> DEFINE c == CallOf(r)
<1>1. Refusal(r) = Pending /\ r.endpoint # "config" /\ call' = c
  BY DEF Forward
<1>2. /\ c.endpoint = r.endpoint
      /\ r.endpoint \in LogEndpoints /\ cfg.tools # <<>> =>
            \E i \in DOMAIN cfg.tools :
                Permitted(r.user, cfg.tools[i]) /\ c.filter = cfg.tools[i].query
      /\ r.endpoint \in {"query", "tail"} => c.limit \in 1..cfg.maxRows
      /\ r.endpoint = "hits" =>
            /\ c.start \in Int /\ c.end \in Int
            /\ r.step <= 0 => c.step = NiceStep(c.end - c.start)
  BY <1>1, CallIsRight, Zenon
<1> HIDE DEF c
<1>3. Confined'
  BY <1>1, <1>2 DEF Confined, Reading, Permitted, InGroups
<1>4. BarsFit'
  <2> SUFFICES ASSUME c.endpoint = "hits", r.step <= 0
               PROVE  /\ c.end - c.start <= TargetBuckets * Ladder[Len(Ladder)]
                            => c.end - c.start <= TargetBuckets * c.step
                      /\ \A i \in DOMAIN Ladder :
                            Ladder[i] < c.step => c.end - c.start > TargetBuckets * Ladder[i]
    BY <1>1 DEF BarsFit
  <2>1. c.end - c.start \in Int /\ c.step = NiceStep(c.end - c.start)
    BY <1>2
  <2> QED BY <2>1, StepFits
<1> QED BY <1>3, <1>4

\* A step that makes no call.
LEMMA NoCallHolds ==
    ASSUME RInv, UNCHANGED cfg,
           (call' = NoCall) \/ (call' = call /\ req' = req)
    PROVE  Configured' /\ Confined' /\ BarsFit'
<1>1. Configured'
  BY DEF RInv, Configured
<1>2. CASE call' = NoCall
  BY <1>1, <1>2 DEF Confined, BarsFit, Reading, NoCall, LogEndpoints, Endpoints
<1>3. CASE call' = call /\ req' = req
  <2>1. Confined'
    BY <1>3 DEF RInv, Confined, Reading, Permitted, InGroups
  <2>2. BarsFit'
    BY <1>3 DEF RInv, BarsFit
  <2> QED BY <1>1, <2>1, <2>2
<1> QED BY <1>2, <1>3

LEMMA NextHolds == RInv /\ [Next]_vars => RInv'
<1> SUFFICES ASSUME RInv, [Next]_vars PROVE RInv'
  OBVIOUS
<1> USE DEF RInv
<1>1. CASE Load
  <2>1. Served'
    BY <1>1 DEF Load, Served, Valid, Configured
  <2> QED BY <1>1, <2>1, NoCallHolds DEF Load
<1>2. ASSUME NEW r \in Requests, Ask(r) PROVE RInv'
  <2>1. process = "serving" /\ call = NoCall /\ req' = r /\ UNCHANGED <<process, cfg>>
    BY <1>2 DEF Ask, Idle, Served
  <2>2. Served'
    <3>1. r # NoRequest
      BY RequestAssumption DEF NoRequest, Endpoints, LogEndpoints
    <3> QED BY <2>1, <3>1 DEF RInv, Served
  <2>3. CASE Forward(r)
    BY <1>2, <2>1, <2>2, <2>3, ForwardHolds DEF Configured
  <2>4. CASE ~Forward(r)
    <3>1. call' = call
      BY <1>2, <2>4 DEF Ask, Turned, ServeConfig, Refuse
    <3> QED BY <2>1, <2>2, <3>1, NoCallHolds
  <2> QED BY <2>3, <2>4
<1>3. CASE VLAnswers \/ (\E lines \in MetricsPages : MetricsAnswered(lines)) \/ Deadline \/ Leave
  <2>1. UNCHANGED <<process, cfg, req, call>>
    BY <1>3, DeadlineEnds DEF VLAnswers, MetricsAnswered, TimesOut, Leave
  <2>2. process = "serving"
    <3>1. CASE VLAnswers
      BY <3>1 DEF VLAnswers, Served
    <3>2. ASSUME NEW lines \in MetricsPages, MetricsAnswered(lines) PROVE process = "serving"
      <4>1. call.endpoint = "status"
        BY <3>2 DEF MetricsAnswered
      <4>2. call # NoCall
        BY <4>1 DEF NoCall
      <4> QED BY <4>2 DEF Served
    <3>3. CASE Deadline
      BY <3>3, DeadlineEnds DEF TimesOut, Served
    <3>4. CASE Leave
      BY <3>4 DEF Leave, Served
    <3> QED BY <1>3, <3>1, <3>2, <3>3, <3>4
  <2>3. Served'
    BY <2>1, <2>2 DEF Served
  <2> QED BY <2>1, <2>3, NoCallHolds
<1>4. CASE Done
  <2>1. Served'
    BY <1>4 DEF Done, Served
  <2> QED BY <1>4, <2>1, NoCallHolds DEF Done
<1>5. CASE UNCHANGED vars
  <2>1. Served'
    BY <1>5 DEF vars, Served
  <2> QED BY <1>5, <2>1, NoCallHolds DEF vars
<1> QED BY <1>1, <1>2, <1>3, <1>4, <1>5 DEF Next

-----------------------------------------------------------------------------
(* Accounts.  A reply says who is at fault, and a rail what its reader can  *)
(* do, because of what was decided earlier in the same request, or when the *)
(* page was loaded: the second invariant remembers it.                      *)

\* What there was to answer: nothing without a request; of a request that was
\* not turned down, the call that follows from it, and what became of that; and
\* of another, what was found wanting.
Failures == {"no storage", "4xx", "5xx", "unreachable", "garbled", "deadline"}

Accounted ==
    /\ process = "serving" => Valid(cfg)
    /\ req = NoRequest => reply = Pending
    /\ req # NoRequest => req \in Requests /\ process = "serving"
    /\ call # NoCall =>
        /\ call = CallOf(req) /\ req.endpoint # "config" /\ Refusal(req) = Pending
        /\ \/ reply \in {Pending, Unwritten}
           \/ reply = 200 /\ cause = "ok"
           \/ cause \in Failures /\ reply = FailureCode(req.endpoint, cause)
    /\ call = NoCall =>
        \/ reply \in {Pending, 401}
        \/ req.endpoint = "config" /\
            \/ reply = 200
            \/ reply = 500 /\ \E n \in StylesFor(req.user) : ~Encodes(cfg.styles[n])
        \/ reply = Refusal(req)

\* What the page was told is what this configuration says.
RailKept ==
    IF ~rail.loaded THEN rail.tools = <<>> ELSE
        /\ process = "serving"
        /\ rail.tools = RailFor(rail.user)
        /\ \A n \in StylesFor(rail.user) : Encodes(cfg.styles[n])
        /\ rail.styles = [n \in StylesFor(rail.user) |-> Publish(cfg.styles[n])]
AInv == RInv /\ cfg \in RawConfigs /\ Accounted /\ RailKept

\* What a request comes to depends on the configuration, which a process keeps.
LEMMA SameConfig ==
    ASSUME UNCHANGED cfg
    PROVE  /\ \A r : CallOf(r)' = CallOf(r) /\ Refusal(r)' = Refusal(r)
           /\ \A r : ResolveTool(r)' = ResolveTool(r)
           /\ \A u : RailFor(u)' = RailFor(u) /\ StylesFor(u)' = StylesFor(u)
<1>1. ASSUME NEW r PROVE ResolveTool(r)' = ResolveTool(r)
  BY DEF ResolveTool, Permitted, InGroups, SelectInSeq, Min
<1>2. ASSUME NEW r PROVE ToolQuery(r)' = ToolQuery(r) /\ ToolCheck(r)' = ToolCheck(r)
  BY <1>1 DEF ToolQuery, ToolCheck
<1>3. ASSUME NEW r
      PROVE  /\ End(r)' = End(r) /\ Start(r)' = Start(r) /\ Limit(r)' = Limit(r)
             /\ QueryFor(r)' = QueryFor(r) /\ Step(r)' = Step(r)
  <2>1. End(r)' = End(r) /\ Start(r)' = Start(r) /\ Limit(r)' = Limit(r)
    BY DEF End, Start, Limit
  <2> QED BY <1>2, <2>1 DEF QueryFor, Step
<1>4. ASSUME NEW r
      PROVE  QueryCheck(r)' = QueryCheck(r) /\ RangeCheck(r)' = RangeCheck(r)
  BY <1>3 DEF QueryCheck, RangeCheck, RangeOk
<1>5. ASSUME NEW r PROVE Refusal(r)' = Refusal(r)
  BY <1>2, <1>4 DEF Refusal, InGroups
<1>6. ASSUME NEW r PROVE CallOf(r)' = CallOf(r)
  <2>1. FilterOf(r)' = FilterOf(r)
    BY <1>2 DEF FilterOf
  <2> QED BY <1>3, <2>1 DEF CallOf
<1>7. ASSUME NEW u PROVE RailFor(u)' = RailFor(u)
  BY DEF RailFor, Permitted, InGroups
<1>8. ASSUME NEW u PROVE StylesFor(u)' = StylesFor(u)
  BY <1>7 DEF StylesFor
<1> QED BY <1>1, <1>5, <1>6, <1>7, <1>8

\* Whoever is refused has sent something malformed, or was left without a window,
\* or may not use what he asks for, which only a configuration with
\* authentication can say (the handlers' checks, validateTools).
LEMMA RefusedForCause ==
    ASSUME Configured, Valid(cfg), NEW r \in Requests, Refusal(r) # Pending
    PROVE  \/ Refusal(r) = 400 /\ r.endpoint \in LogEndpoints /\ (Malformed(r) \/ Windowless(r))
           \/ Refusal(r) = 403 /\ cfg.auth
<1>0. /\ r.endpoint \in Endpoints
      /\ r.start \in Int /\ r.end \in Int
  BY RequestAssumption
<1>1. \/ ToolCheck(r) = Pending
      \/ ToolCheck(r) = 400 /\ r.tool # NoId
                           /\ \A i \in DOMAIN cfg.tools : cfg.tools[i].id # r.tool
      \/ ToolCheck(r) = 403 /\ cfg.auth
  <2>1. CASE cfg.tools = <<>>
    BY <2>1 DEF ToolCheck, ResolveTool, Unknown, Forbidden
  <2>2. CASE cfg.tools # <<>> /\ ResolveTool(r) = Unknown
    <3>1. ASSUME NEW n \in DOMAIN cfg.tools,
                 ResolveTool(r) = IF Permitted(r.user, cfg.tools[n]) THEN n ELSE Forbidden
          PROVE  FALSE
      <4>1. n \in Nat
        BY DEF Configured
      <4> QED BY <2>2, <3>1, <4>1 DEF Unknown, Forbidden
    <3>2. r.tool # NoId /\ \A i \in DOMAIN cfg.tools : cfg.tools[i].id # r.tool
      BY <2>2, <3>1, ToolFound
    <3> QED BY <2>2, <3>2 DEF ToolCheck
  <2>3. CASE cfg.tools # <<>> /\ ResolveTool(r) # Unknown
    <3>1. PICK n \in DOMAIN cfg.tools :
              ResolveTool(r) = IF Permitted(r.user, cfg.tools[n]) THEN n ELSE Forbidden
      BY <2>3, ToolFound
    <3>2. n \in Nat
      BY DEF Configured
    <3>3. CASE Permitted(r.user, cfg.tools[n])
      BY <2>3, <3>1, <3>2, <3>3 DEF ToolCheck, Forbidden, Unknown
    <3>4. CASE ~Permitted(r.user, cfg.tools[n])
      <4>1. cfg.tools[n].groups # {}
        BY <3>4 DEF Permitted, InGroups
      <4>2. cfg.auth
        BY <4>1 DEF Valid, ValidTools
      <4> QED BY <2>3, <3>1, <3>4, <4>2 DEF ToolCheck, Forbidden, Unknown
    <3> QED BY <3>3, <3>4
  <2> QED BY <2>1, <2>2, <2>3
<1>2. QueryCheck(r) # Pending => QueryCheck(r) = 400 /\ r.query # "typed"
  BY DEF QueryCheck, QueryFor
<1>3. RangeCheck(r) # Pending =>
        /\ RangeCheck(r) = 400
        /\ \/ Unreadable \in {r.start, r.end}
           \/ r.start # Absent /\ r.start >= End(r)
           \/ r.start = Absent /\ cfg.defaultRange <= 0
  <2>1. End(r) \in Int /\ cfg.defaultRange \in Int
    BY <1>0, NowAssumption DEF End, Configured
  <2> QED BY <1>0, <2>1 DEF RangeCheck, RangeOk, Start
<1>4. CASE r.endpoint \in {"query", "hits", "facets"}
  <2>1. Refusal(r) = First(ToolCheck(r), First(QueryCheck(r), RangeCheck(r)))
    BY <1>4 DEF Refusal
  <2> QED BY <1>1, <1>2, <1>3, <1>4, <2>1 DEF First, Pending, Malformed, Windowless, LogEndpoints, Endpoints
<1>5. CASE r.endpoint = "tail"
  <2>1. Refusal(r) = First(ToolCheck(r), QueryCheck(r))
    BY <1>5 DEF Refusal
  <2> QED BY <1>1, <1>2, <1>5, <2>1 DEF First, Pending, Malformed, Windowless, LogEndpoints, Endpoints
<1>6. CASE r.endpoint \in {"names", "values"}
  <2>1. Refusal(r) = IF r.endpoint = "values" /\ ~r.field THEN 400
                     ELSE First(RangeCheck(r), ToolCheck(r))
    BY <1>6 DEF Refusal
  <2> QED BY <1>1, <1>3, <1>6, <2>1 DEF First, Pending, Malformed, Windowless, LogEndpoints, Endpoints
<1>7. CASE r.endpoint = "status"
  <2>1. Refusal(r) = 403 /\ ~InGroups(r.user, cfg.statusGroups)
    BY <1>7 DEF Refusal
  <2> QED BY <2>1 DEF InGroups, Valid
<1>8. CASE r.endpoint = "config"
  BY <1>8 DEF Refusal
<1> QED BY <1>0, <1>4, <1>5, <1>6, <1>7, <1>8 DEF Endpoints

LEMMA AccountsBegin == Init => AInv
<1> SUFFICES ASSUME Init PROVE AInv
  OBVIOUS
<1>1. RInv
  BY InitHolds
<1>2. Accounted
  BY DEF Init, Accounted
<1>3. RailKept
  BY DEF Init, RailKept, NotLoaded
<1>4. cfg \in RawConfigs
  BY DEF Init
<1> QED BY <1>1, <1>2, <1>3, <1>4 DEF AInv

\* A request that is asked is turned away, answered from the configuration,
\* refused, or made a call of.
LEMMA AskAccounted ==
    ASSUME AInv, NEW r \in Requests, Ask(r)
    PROVE  Accounted'
<1>1. /\ process = "serving" /\ req = NoRequest /\ call = NoCall /\ reply = Pending
      /\ req' = r /\ UNCHANGED <<process, cfg, cause>>
  BY DEF AInv, Accounted, RInv, Served, Ask, Idle
<1>2. r # NoRequest /\ r.endpoint # "none"
  BY RequestAssumption DEF NoRequest, Endpoints, LogEndpoints
<1>3. Valid(cfg)
  BY <1>1 DEF AInv, Accounted
<1>4. /\ CallOf(r)' = CallOf(r) /\ Refusal(r)' = Refusal(r)
      /\ \A u : StylesFor(u)' = StylesFor(u)
  BY <1>1, SameConfig
<1>5. \/ Turned(r) \/ ServeConfig(r) \/ Refuse(r) \/ Forward(r)
  BY DEF Ask
<1>6. CASE Turned(r)
  BY <1>1, <1>2, <1>3, <1>6 DEF Accounted, Turned
<1>7. CASE ServeConfig(r)
  <2>1. call' = NoCall /\ r.endpoint = "config"
    BY <1>1, <1>7 DEF ServeConfig
  <2>2. reply' = 200 \/ (reply' = 500 /\ \E n \in StylesFor(r.user) : ~Encodes(cfg.styles[n]))
    BY <1>7 DEF ServeConfig
  <2> QED BY <1>1, <1>2, <1>3, <1>4, <2>1, <2>2 DEF Accounted
<1>8. CASE Refuse(r)
  <2>1. call' = NoCall /\ reply' = Refusal(r)
    BY <1>1, <1>8 DEF Refuse
  <2> QED BY <1>1, <1>2, <1>3, <1>4, <2>1 DEF Accounted
<1>9. CASE Forward(r)
  <2>1. call' = CallOf(r) /\ r.endpoint # "config" /\ Refusal(r) = Pending /\ reply' = Pending
    BY <1>1, <1>9 DEF Forward
  <2>2. CallOf(r) # NoCall
    <3>1. CallOf(r).endpoint = r.endpoint
      BY DEF CallOf
    <3> QED BY <1>2, <3>1 DEF NoCall
  <2> QED BY <1>1, <1>2, <1>3, <1>4, <2>1, <2>2 DEF Accounted
<1> QED BY <1>5, <1>6, <1>7, <1>8, <1>9

\* A call that ends: with an answer, with a failure that names its cause, or
\* with nobody to answer.
LEMMA AnswerAccounted ==
    ASSUME AInv, VLAnswers \/ (\E lines \in MetricsPages : MetricsAnswered(lines)) \/ Deadline \/ Leave
    PROVE  Accounted'
<1>1. UNCHANGED <<process, cfg, req, call>>
  BY DeadlineEnds DEF VLAnswers, MetricsAnswered, TimesOut, Leave
<1>2. call # NoCall
  <2>1. ASSUME NEW lines \in MetricsPages, MetricsAnswered(lines) PROVE call # NoCall
    <3>1. call.endpoint = "status"
      BY <2>1 DEF MetricsAnswered
    <3> QED BY <3>1 DEF NoCall
  <2> QED BY <2>1, DeadlineEnds DEF VLAnswers, TimesOut, Leave
<1>3. call = CallOf(req) /\ req.endpoint # "config" /\ Refusal(req) = Pending
      /\ req # NoRequest /\ req \in Requests /\ process = "serving" /\ Valid(cfg)
  BY <1>2 DEF AInv, Accounted, RInv, Served
<1>4. call.endpoint = req.endpoint
  BY <1>3 DEF CallOf
<1>5. \/ reply' = Unwritten
      \/ reply' = 200 /\ cause' = "ok"
      \/ cause' \in Failures /\ reply' = FailureCode(req.endpoint, cause')
  <2>1. CASE VLAnswers
    BY <1>4, <2>1 DEF VLAnswers, Failures
  <2>2. ASSUME NEW lines \in MetricsPages, MetricsAnswered(lines)
        PROVE  \/ reply' = 200 /\ cause' = "ok"
               \/ cause' \in Failures /\ reply' = FailureCode(req.endpoint, cause')
    <3>1. req.endpoint = "status"
      BY <1>4, <2>2 DEF MetricsAnswered
    <3> QED BY <2>2, <3>1 DEF MetricsAnswered, Failures
  <2>3. CASE Deadline
    BY <1>4, <2>3, DeadlineEnds DEF TimesOut, Failures
  <2>4. CASE Leave
    BY <2>4 DEF Leave
  <2> QED BY <2>1, <2>2, <2>3, <2>4
<1>6. CallOf(req)' = CallOf(req) /\ Refusal(req)' = Refusal(req)
  <2>1. \A r : CallOf(r)' = CallOf(r) /\ Refusal(r)' = Refusal(r)
    BY <1>1, SameConfig
  <2> QED BY <1>1, <2>1
<1> QED BY <1>1, <1>2, <1>3, <1>5, <1>6 DEF Accounted

LEMMA AccountsHold == AInv /\ [Next]_vars => AInv'
<1> SUFFICES ASSUME AInv, [Next]_vars PROVE AInv'
  OBVIOUS
<1>1. RInv'
  BY NextHolds DEF AInv
<1>2. Accounted'
  <2>1. CASE Load
    <3>1. req = NoRequest /\ call = NoCall /\ reply = Pending
      BY <2>1 DEF Load, AInv, Accounted, RInv, Served
    <3> QED BY <2>1, <3>1 DEF Load, Accounted
  <2>2. ASSUME NEW r \in Requests, Ask(r) PROVE Accounted'
    BY <2>2, AskAccounted
  <2>3. CASE VLAnswers \/ (\E lines \in MetricsPages : MetricsAnswered(lines)) \/ Deadline \/ Leave
    BY <2>3, AnswerAccounted
  <2>4. CASE Done
    BY <2>4 DEF Done, AInv, Accounted
  <2>5. CASE UNCHANGED vars
    <3>1. UNCHANGED <<process, cfg, req, call, cause, reply>>
      BY <2>5 DEF vars
    <3>2. \A r : CallOf(r)' = CallOf(r) /\ Refusal(r)' = Refusal(r)
      BY <3>1, SameConfig
    <3>3. \A u : StylesFor(u)' = StylesFor(u)
      BY <3>1, SameConfig
    <3>4. StylesFor(req.user)' = StylesFor(req.user) /\ CallOf(req)' = CallOf(req)
          /\ Refusal(req)' = Refusal(req)
      BY <3>1, <3>2, <3>3
    <3> QED BY <3>1, <3>4 DEF AInv, Accounted
  <2> QED BY <2>1, <2>2, <2>3, <2>4, <2>5 DEF Next
<1>3. RailKept'
  <2>0. \A u : RailFor(u)' = RailFor(u) /\ StylesFor(u)' = StylesFor(u)
    <3>1. UNCHANGED cfg
      BY DeadlineEnds DEF Next, Load, Ask, VLAnswers, MetricsAnswered, TimesOut, Leave, Done, vars
    <3> QED BY <3>1, SameConfig
  <2>1. CASE UNCHANGED <<cfg, rail>> /\ (process = "serving" => process' = "serving")
    <3>1. RailFor(rail.user)' = RailFor(rail.user) /\ StylesFor(rail.user)' = StylesFor(rail.user)
      BY <2>0, <2>1
    <3> QED BY <2>1, <3>1 DEF AInv, RailKept
  <2>2. ASSUME NEW r \in Requests, Ask(r), ServeConfig(r), rail' # rail PROVE RailKept'
    <3>1. /\ \A n \in StylesFor(r.user) : Encodes(cfg.styles[n])
          /\ rail' = [user |-> r.user, tools |-> RailFor(r.user), loaded |-> TRUE,
                      styles |-> [n \in StylesFor(r.user) |-> Publish(cfg.styles[n])]]
      BY <2>2 DEF ServeConfig
    <3>2. process' = "serving" /\ cfg' = cfg
      BY <2>2 DEF Ask, Idle
    <3>3. RailFor(r.user)' = RailFor(r.user) /\ StylesFor(r.user)' = StylesFor(r.user)
      BY <2>0
    <3> QED BY <3>1, <3>2, <3>3 DEF RailKept
  <2>3. ASSUME NEW r \in Requests, Ask(r) PROVE RailKept'
    <3>1. UNCHANGED <<process, cfg>>
      BY <2>3 DEF Ask
    <3>2. rail' # rail => ServeConfig(r)
      BY <2>3 DEF Ask, Turned, Refuse, Forward
    <3> QED BY <2>1, <2>2, <2>3, <3>1, <3>2
  <2>4. CASE Load
    BY <2>1, <2>4 DEF Load
  <2>5. CASE VLAnswers \/ (\E lines \in MetricsPages : MetricsAnswered(lines)) \/ Deadline \/ Leave
    BY <2>1, <2>5, DeadlineEnds DEF VLAnswers, MetricsAnswered, TimesOut, Leave
  <2>6. CASE Done \/ UNCHANGED vars
    BY <2>1, <2>6 DEF Done, vars
  <2> QED BY <2>3, <2>4, <2>5, <2>6 DEF Next
<1>4. cfg' \in RawConfigs
  BY DeadlineEnds DEF AInv, Next, Load, Ask, VLAnswers, MetricsAnswered, TimesOut, Leave, Done, vars
<1> QED BY <1>1, <1>2, <1>3, <1>4 DEF AInv

\* The page is only told of styles that the configuration has (validateTools).
LEMMA StylesExist ==
    ASSUME Configured, Valid(cfg), NEW user
    PROVE  StylesFor(user) \subseteq DOMAIN cfg.styles
<1> SUFFICES ASSUME NEW k \in DOMAIN RailFor(user), RailFor(user)[k].style # NoStyle
             PROVE  RailFor(user)[k].style \in DOMAIN cfg.styles
  BY DEF StylesFor
<1>1. PICK i \in DOMAIN cfg.tools : RailFor(user)[k] = Entry(cfg.tools[i])
  BY RailLists
<1>2. RailFor(user)[k].style = cfg.tools[i].style
  BY <1>1 DEF Entry
<1>3. cfg.tools[i].style \in DOMAIN cfg.styles \cup {NoStyle}
  BY DEF Valid, ValidTools
<1> QED BY <1>2, <1>3

LEMMA AccountsBlame == AInv => BlamesTheRightOne
<1> SUFFICES ASSUME AInv PROVE BlamesTheRightOne
  OBVIOUS
<1> USE DEF AInv
<1>1. CASE req = NoRequest
  BY <1>1 DEF Accounted, BlamesTheRightOne, Pending
<1>2. CASE req # NoRequest /\ call # NoCall
  <2>1. req.endpoint \in Endpoints /\ req.endpoint # "config"
    BY <1>2, RequestAssumption DEF Accounted
  <2>2. \/ reply \in {Pending, Unwritten}
        \/ reply = 200 /\ cause = "ok"
        \/ cause \in Failures /\ reply = FailureCode(req.endpoint, cause)
    BY <1>2 DEF Accounted
  <2>3. CASE reply \in {Pending, Unwritten}
    <3>1. reply \notin {200, 400, 403, 500, 502, 504}
      BY <2>3 DEF Pending, Unwritten
    <3> QED BY <3>1, Zenon DEF BlamesTheRightOne
  <2>4. CASE reply = 200 /\ cause = "ok"
    BY <2>4 DEF BlamesTheRightOne
  <2>5. CASE cause \in Failures /\ reply = FailureCode(req.endpoint, cause)
    <3>1. reply \in {400, 502, 504} /\ (reply = 400 => cause = "4xx" /\ req.endpoint # "status")
      BY <2>5 DEF FailureCode
    <3>2. reply \notin {200, 403, 500}
      BY <3>1
    <3>3. reply = 400 => cause = "4xx" /\ req.endpoint \in LogEndpoints
      BY <2>1, <3>1 DEF LogEndpoints
    <3> QED BY <2>5, <3>2, <3>3, Zenon DEF BlamesTheRightOne, Failures
  <2> QED BY <2>2, <2>3, <2>4, <2>5
<1>3. CASE req # NoRequest /\ call = NoCall
  <2>1. req \in Requests /\ Valid(cfg) /\ Configured
    BY <1>3 DEF Accounted, RInv
  <2>2. \/ reply \in {Pending, 401}
        \/ req.endpoint = "config" /\ reply = 200
        \/ reply = 500 /\ \E n \in StylesFor(req.user) : ~Encodes(cfg.styles[n])
        \/ reply = Refusal(req)
    BY <1>3 DEF Accounted
  <2>3. CASE reply \in {Pending, 401}
    <3>1. reply \notin {200, 400, 403, 500, 502, 504}
      BY <2>3 DEF Pending
    <3> QED BY <3>1, Zenon DEF BlamesTheRightOne
  <2>4. CASE req.endpoint = "config" /\ reply = 200
    BY <2>4 DEF BlamesTheRightOne
  <2>5. CASE reply = 500 /\ \E n \in StylesFor(req.user) : ~Encodes(cfg.styles[n])
    <3>1. StylesFor(req.user) \subseteq DOMAIN cfg.styles
      BY <2>1, StylesExist
    <3>2. \E n \in DOMAIN cfg.styles : ~Encodes(cfg.styles[n])
      BY <2>5, <3>1
    <3> QED BY <2>5, <3>2 DEF BlamesTheRightOne
  <2>6. CASE reply = Refusal(req) /\ reply # Pending
    <3>1. \/ reply = 400 /\ req.endpoint \in LogEndpoints /\ (Malformed(req) \/ Windowless(req))
          \/ reply = 403 /\ cfg.auth
      BY <2>1, <2>6, RefusedForCause
    <3>2. reply \notin {200, 500, 502, 504}
      BY <3>1
    <3>3. reply = 403 => cfg.auth
      BY <3>1
    <3>4. reply = 400 => req.endpoint \in LogEndpoints /\ (Malformed(req) \/ Windowless(req))
      BY <3>1
    <3> QED BY <3>2, <3>3, <3>4, Zenon DEF BlamesTheRightOne
  <2> QED BY <2>2, <2>3, <2>4, <2>5, <2>6
<1> QED BY <1>1, <1>2, <1>3

\* The tool of a request from the page is the one that its rail has.
LEMMA RailResolves ==
    ASSUME Configured, Valid(cfg), NEW r, NEW k \in DOMAIN RailFor(r.user),
           r.tool = RailFor(r.user)[k].id
    PROVE  /\ ToolCheck(r) = Pending
           /\ ToolQuery(r) = RailFor(r.user)[k].query
<1>1. PICK i \in DOMAIN cfg.tools :
          Permitted(r.user, cfg.tools[i]) /\ RailFor(r.user)[k] = Entry(cfg.tools[i])
  BY RailLists
<1>2. r.tool = cfg.tools[i].id /\ RailFor(r.user)[k].query = cfg.tools[i].query
  BY <1>1 DEF Entry
<1>3. cfg.tools # <<>> /\ i \in Nat \ {0}
  BY DEF Configured
<1>4. \A n \in DOMAIN cfg.tools : cfg.tools[n].id = cfg.tools[i].id => n = i
  <2> DEFINE ids == [n \in DOMAIN cfg.tools |-> cfg.tools[n].id]
  <2>1. IsInjective(ids)
    BY DEF Valid, ValidTools
  <2>2. \A n \in DOMAIN ids : ids[n] = ids[i] => n = i
    BY <2>1 DEF IsInjective
  <2> QED BY <2>2
<1>5. r.tool # NoId
  BY <1>2 DEF Valid, ValidTools
<1>6. ResolveTool(r) = i
  BY <1>1, <1>2, <1>3, <1>4, <1>5, ToolFound
<1>7. ToolCheck(r) = Pending
  BY <1>3, <1>6 DEF ToolCheck, Unknown, Forbidden
<1>8. ToolQuery(r) = cfg.tools[i].query
  BY <1>3, <1>6 DEF ToolQuery
<1> QED BY <1>2, <1>7, <1>8

\* A request whose tool its caller may use is of a tool that his rail has.
LEMMA ReadersAreOffered ==
    ASSUME Configured, cfg.tools # <<>>, NEW r, ToolCheck(r) = Pending
    PROVE  \E k \in DOMAIN RailFor(r.user) :
              RailFor(r.user)[k].id = IF r.tool = NoId THEN cfg.tools[1].id ELSE r.tool
<1>1. ResolveTool(r) \notin {Unknown, Forbidden}
  BY DEF ToolCheck, Pending, Unknown, Forbidden
<1>2. PICK n \in DOMAIN cfg.tools :
          /\ IF r.tool = NoId THEN n = 1 ELSE cfg.tools[n].id = r.tool
          /\ ResolveTool(r) = IF Permitted(r.user, cfg.tools[n]) THEN n ELSE Forbidden
  BY <1>1, ToolFound
<1>3. Permitted(r.user, cfg.tools[n])
  BY <1>1, <1>2
<1>4. PICK k \in DOMAIN RailFor(r.user) : RailFor(r.user)[k] = Entry(cfg.tools[n])
  BY <1>3, RailLists
<1>5. RailFor(r.user)[k].id = cfg.tools[n].id
  BY <1>4 DEF Entry
<1> QED BY <1>2, <1>5

\* What no check refused, no tool did; and no other reply than a refusal is 403.
LEMMA ToolPassed ==
    ASSUME NEW r, r.endpoint \in LogEndpoints
    PROVE  /\ Refusal(r) = Pending => ToolCheck(r) = Pending
           /\ Refusal(r) = 403 => ToolCheck(r) = 403
<1>1. CASE r.endpoint \in {"query", "hits", "facets"}
  BY <1>1 DEF Refusal, First, Pending, QueryCheck, RangeCheck
<1>2. CASE r.endpoint = "tail"
  BY <1>2 DEF Refusal, First, Pending, QueryCheck
<1>3. CASE r.endpoint \in {"names", "values"}
  BY <1>3 DEF Refusal, First, Pending, RangeCheck
<1> QED BY <1>1, <1>2, <1>3 DEF LogEndpoints, Endpoints

LEMMA RailIsKept == AInv => RailIsTruth
<1> SUFFICES ASSUME AInv, FromPage, req.endpoint \in LogEndpoints
             PROVE  /\ \A i \in DOMAIN rail.tools : req.tool = rail.tools[i].id =>
                        reply # 403 /\ (Reading => call.filter = rail.tools[i].query)
                    /\ Reading /\ cfg.tools # <<>> =>
                        Offered(IF req.tool = NoId THEN cfg.tools[1].id ELSE req.tool)
  BY DEF RailIsTruth
<1>1. Configured /\ Accounted /\ RailKept
  BY DEF AInv, RInv
<1>2. rail.tools = RailFor(req.user) /\ Valid(cfg)
  BY <1>1 DEF RailKept, FromPage, Accounted
<1>3. Reading => call # NoCall
  BY DEF Reading, NoCall, LogEndpoints, Endpoints
<1>4. Reading => ToolCheck(req) = Pending /\ call.filter = ToolQuery(req)
  <2> SUFFICES ASSUME Reading PROVE ToolCheck(req) = Pending /\ call.filter = ToolQuery(req)
    OBVIOUS
  <2>1. call = CallOf(req) /\ Refusal(req) = Pending
    BY <1>1, <1>3 DEF Accounted
  <2>2. call.filter = ToolQuery(req)
    BY <2>1 DEF CallOf, FilterOf, LogEndpoints
  <2> QED BY <2>1, <2>2, ToolPassed
<1>5. reply = 403 => ToolCheck(req) = 403
  <2> SUFFICES ASSUME reply = 403 PROVE Refusal(req) = 403
    BY ToolPassed
  <2>1. CASE call # NoCall
    BY <1>1, <2>1 DEF Accounted, FailureCode, Pending, Unwritten
  <2>2. CASE call = NoCall
    BY <1>1, <2>2 DEF Accounted, Pending, LogEndpoints
  <2> QED BY <2>1, <2>2
<1>6. ASSUME NEW i \in DOMAIN rail.tools, req.tool = rail.tools[i].id
      PROVE  reply # 403 /\ (Reading => call.filter = rail.tools[i].query)
  <2>1. ToolCheck(req) = Pending /\ ToolQuery(req) = rail.tools[i].query
    BY <1>1, <1>2, <1>6, RailResolves
  <2> QED BY <1>4, <1>5, <2>1 DEF Pending
<1>7. ASSUME Reading, cfg.tools # <<>>
      PROVE  Offered(IF req.tool = NoId THEN cfg.tools[1].id ELSE req.tool)
  BY <1>1, <1>2, <1>4, <1>7, ReadersAreOffered DEF Offered
<1> QED BY <1>6, <1>7

\* Publishing a rule and matching it on the page add up to what was written.
LEMMA RuleIsMeant ==
    ASSUME NEW s, RulesTyped(s.rules), ValidStyle(s), Encodes(s), NEW v, v.n \in Int
    PROVE  ValueRule(v, Publish(s).rules) = Meant(v, s.rules)
<1> DEFINE out == Publish(s).rules
           hit(r) == \/ r.default
                     \/ v.id \in r.value \cup r.prefix
                     \/ r.range # <<>> /\ InRange(v, r.range[1])
           I == {i \in 1..Len(out) : hit(out[i])}
           C == {i \in DOMAIN s.rules : Covers(s.rules[i], v)}
<1>1. DOMAIN out = DOMAIN s.rules /\ Len(out) \in Nat /\ DOMAIN s.rules = 1..Len(out)
  <2>1. DOMAIN s.rules = 1..Len(s.rules) /\ Len(s.rules) \in Nat
    BY DEF RulesTyped
  <2>2. DOMAIN out = DOMAIN s.rules
    BY DEF Publish
  <2>3. Len(out) = Len(s.rules)
    BY <2>1 DEF Publish
  <2> QED BY <2>1, <2>2, <2>3
<1>2. ASSUME NEW i \in DOMAIN s.rules PROVE hit(out[i]) <=> Covers(s.rules[i], v)
  <2> DEFINE r == s.rules[i]
             p == [value |-> r.value, prefix |-> r.prefix, default |-> r.default,
                   color |-> r.color, text |-> r.text,
                   range |-> IF r.range = <<>> THEN <<>>
                             ELSE << [lo |-> Bound(r.range[1]), hi |-> Bound(r.range[2])] >>]
  <2>1. out[i] = p
    BY DEF Publish
  <2>2. /\ r.default \in BOOLEAN
        /\ r.range \in Seq([kind : {"blank", "word", "number", "nan"}, n : Int])
    BY DEF RulesTyped
  <2>3. Covers(r, v) <=> \/ r.default
                         \/ v.id \in r.value \cup r.prefix
                         \/ r.range # <<>> /\ Between(v, r.range)
    BY <2>2 DEF Covers, Matchers
  <2>4. CASE r.range = <<>>
    <3>1. p.range = <<>>
      BY <2>4
    <3> HIDE DEF out
    <3> QED BY <2>1, <2>3, <2>4, <3>1
  <2>5. CASE r.range # <<>>
    <3>1. /\ Len(r.range) = 2 /\ DOMAIN r.range = 1..2
          /\ \A k \in 1..2 : r.range[k].kind \in {"blank", "number"} /\ r.range[k].n \in Int
      <4>1. Len(r.range) = 2 /\ \A k \in 1..2 : r.range[k].kind # "word"
        BY <2>5 DEF ValidStyle, RangeParses
      <4>2. DOMAIN r.range = 1..2
        BY <2>2, <4>1
      <4> DEFINE Sides == [kind : {"blank", "word", "number", "nan"}, n : Int]
      <4>3. \A k \in 1..2 : r.range[k] \in Sides
        <5>1. r.range \in Seq(Sides)
          BY <2>2
        <5> HIDE DEF Sides, r
        <5> QED BY <4>1, <5>1
      <4>4. \A k \in 1..2 : r.range[k].kind # "nan"
        BY <4>2 DEF Encodes
      <4> HIDE DEF r
      <4> QED BY <4>1, <4>2, <4>3, <4>4
    <3> DEFINE lo == r.range[1]
               hi == r.range[2]
    <3>2. p.range # <<>> /\ p.range[1] = [lo |-> Bound(lo), hi |-> Bound(hi)]
      BY <2>5
    <3>3. lo.kind \in {"blank", "number"} /\ hi.kind \in {"blank", "number"}
          /\ lo.n \in Int /\ hi.n \in Int
      BY <3>1
    <3>4. InRange(v, p.range[1]) <=> Between(v, r.range)
      <4> HIDE DEF p, r
      <4>1. Between(v, r.range) <=> /\ v.kind = "number"
                                    /\ lo.kind = "number" => lo.n <= v.n
                                    /\ hi.kind = "number" => v.n <= hi.n
        BY DEF Between
      <4> HIDE DEF lo, hi
      <4>2. InRange(v, p.range[1]) <=> /\ v.kind = "number"
                                       /\ Bound(lo) # <<>> => v.n >= Bound(lo)[1]
                                       /\ Bound(hi) # <<>> => v.n <= Bound(hi)[1]
        BY <3>2 DEF InRange
      <4>3. ASSUME NEW side, side.kind \in {"blank", "number"}
            PROVE  /\ Bound(side) # <<>> <=> side.kind = "number"
                   /\ side.kind = "number" => Bound(side)[1] = side.n
        BY <4>3 DEF Bound
      <4> QED BY <3>3, <4>1, <4>2, <4>3
    <3> HIDE DEF out, lo, hi
    <3> QED BY <2>1, <2>3, <2>5, <3>2, <3>4
  <2> QED BY <2>4, <2>5
<1>3. I = C
  <2> HIDE DEF out, hit
  <2> QED BY <1>1, <1>2
<1>4. ValueRule(v, out) = IF v.blank \/ v.long THEN 0 ELSE IF I # {} THEN Min(I) ELSE 0
  <2> HIDE DEF out
  <2> QED BY DEF ValueRule, SelectInSeq
<1>5. Meant(v, s.rules) = IF v.blank \/ v.long \/ C = {} THEN 0 ELSE Min(C)
  BY DEF Meant
<1> HIDE DEF I, C
<1> QED BY <1>3, <1>4, <1>5

LEMMA StylesAreKept == AInv => StylesAsWritten
<1> SUFFICES ASSUME AInv, NEW i \in DOMAIN rail.tools, rail.tools[i].style # NoStyle,
                    NEW v \in Values
             PROVE  ValueRule(v, rail.styles[rail.tools[i].style].rules)
                        = Meant(v, cfg.styles[rail.tools[i].style].rules)
  BY DEF StylesAsWritten
<1> DEFINE n == rail.tools[i].style
<1>1. rail.loaded
  BY DEF AInv, RailKept
<1>2. /\ Valid(cfg) /\ Configured /\ cfg \in RawConfigs
      /\ rail.tools = RailFor(rail.user)
      /\ \A m \in StylesFor(rail.user) : Encodes(cfg.styles[m])
      /\ rail.styles = [m \in StylesFor(rail.user) |-> Publish(cfg.styles[m])]
  BY <1>1 DEF AInv, RailKept, Accounted, RInv
<1>3. n \in StylesFor(rail.user)
  BY <1>2 DEF StylesFor
<1>4. n \in DOMAIN cfg.styles
  BY <1>2, <1>3, StylesExist
<1>5. ValidStyle(cfg.styles[n]) /\ RulesTyped(cfg.styles[n].rules) /\ v.n \in Int
  BY <1>2, <1>4, ConfigAssumption, ValuesAssumption DEF Valid
<1>6. Encodes(cfg.styles[n]) /\ rail.styles[n] = Publish(cfg.styles[n])
  BY <1>2, <1>3
<1>7. ValueRule(v, Publish(cfg.styles[n]).rules) = Meant(v, cfg.styles[n].rules)
  BY <1>5, <1>6, RuleIsMeant
<1> QED BY <1>6, <1>7

-----------------------------------------------------------------------------
(* The status page.  Its figures are what one loop over the lines makes of *)
(* them.  After any number of turns they are what the lines read so far    *)
(* have said, which is written down here without the loop.                 *)

\* The lines of one gauge under one label among the first n, and the last's value.
LinesOf(lines, n, gauge, label) ==
    {i \in 1..n : lines[i].fits /\ lines[i].gauge = gauge /\ lines[i].label = label}
SaidBy(lines, n, gauge, label) ==
    LET at == LinesOf(lines, n, gauge, label) IN IF at = {} THEN 0 ELSE lines[Max(at)].v

\* A line that makes a tier, or a path, and those of the first n lines.
OnTier(s) == s.fits /\ s.gauge \in TierGauges /\ s.label.under = "storage/"
OnPath(s) == s.fits /\ s.gauge \in PathGauges /\ s.label # NoLabel
TiersBy(lines, n) == {lines[i].label.name : i \in {k \in 1..n : OnTier(lines[k])}}
PathsBy(lines, n) == {lines[i].label : i \in {k \in 1..n : OnPath(lines[k])}}

TierRows(lines, n) ==
    [t \in TiersBy(lines, n) |->
        [g \in TierGauges |-> Figure(g, SaidBy(lines, n, g, OfTier(t)))]]
PathRows(lines, n) ==
    [l \in PathsBy(lines, n) |->
        [g \in PathGauges |-> Figure(g, SaidBy(lines, n, g, l))]]

\* What the first n lines have said.
Says(lines, n) ==
    [found      |-> \E k \in 1..n : OfStorage(lines[k]),
     data       |-> Int64(SaidBy(lines, n, "data", Plain("storage"))),
     indexdb    |-> Int64(SaidBy(lines, n, "data", Plain("indexdb"))),
     partitions |-> Int64(SaidBy(lines, n, "partitions", NoLabel)),
     flag       |-> SaidBy(lines, n, "flag", Plain("retentionPeriod")),
     tiers      |-> TierRows(lines, n),
     paths      |-> PathRows(lines, n)]

LEMMA PageTyped ==
    ASSUME NEW lines, LinesTyped(lines)
    PROVE  Len(lines) \in Nat /\ DOMAIN lines = 1..Len(lines)
<1> DEFINE S == {lines[i] : i \in DOMAIN lines}
<1>1. lines \in Seq(S)
  BY Zenon DEF LinesTyped
<1> HIDE DEF S
<1> QED BY <1>1

\* The last word on a gauge changes with a line that is about it, and only then.
LEMMA LastWord ==
    ASSUME NEW lines, NEW n \in Nat \ {0}, NEW gauge, NEW label
    PROVE  SaidBy(lines, n, gauge, label) =
                IF lines[n].fits /\ lines[n].gauge = gauge /\ lines[n].label = label
                THEN lines[n].v ELSE SaidBy(lines, n - 1, gauge, label)
<1> DEFINE at == LinesOf(lines, n, gauge, label)
<1>1. CASE lines[n].fits /\ lines[n].gauge = gauge /\ lines[n].label = label
  <2>1. n \in at /\ \A i \in at : i \in Int /\ n >= i
    BY <1>1 DEF LinesOf
  <2>2. at # {} /\ Max(at) = n
    <3> DEFINE m == CHOOSE x \in at : \A y \in at : x >= y
    <3>1. m \in at /\ \A y \in at : m >= y
      <4> HIDE DEF at
      <4> QED BY <2>1
    <3>2. m = n
      <4> HIDE DEF at, m
      <4> QED BY <2>1, <3>1
    <3>3. Max(at) = m
      BY Zenon DEF Max
    <3> QED BY <2>1, <3>2, <3>3
  <2> QED BY <1>1, <2>2 DEF SaidBy
<1>2. CASE ~(lines[n].fits /\ lines[n].gauge = gauge /\ lines[n].label = label)
  <2>1. at = LinesOf(lines, n - 1, gauge, label)
    BY <1>2 DEF LinesOf
  <2> QED BY <1>2, <2>1 DEF SaidBy
<1> QED BY <1>1, <1>2

\* A figure begins as that of a zero, so what nobody has mentioned is said to be 0.
LEMMA Unsaid ==
    ASSUME NEW lines, NEW n \in Nat
    PROVE  /\ \A t, g : g \in TierGauges /\ t \notin TiersBy(lines, n) =>
                SaidBy(lines, n, g, OfTier(t)) = 0
           /\ \A l, g : g \in PathGauges /\ l # NoLabel /\ l \notin PathsBy(lines, n) =>
                SaidBy(lines, n, g, l) = 0
<1>1. ASSUME NEW t, NEW g, g \in TierGauges, t \notin TiersBy(lines, n)
      PROVE  SaidBy(lines, n, g, OfTier(t)) = 0
  <2>1. LinesOf(lines, n, g, OfTier(t)) = {}
    <3>1. SUFFICES ASSUME NEW i \in LinesOf(lines, n, g, OfTier(t)) PROVE FALSE
      OBVIOUS
    <3>2. i \in 1..n /\ OnTier(lines[i]) /\ lines[i].label.name = t
      BY <1>1, <3>1 DEF LinesOf, OnTier, OfTier
    <3> QED BY <1>1, <3>2 DEF TiersBy
  <2> QED BY <2>1 DEF SaidBy
<1>2. ASSUME NEW l, NEW g, g \in PathGauges, l # NoLabel, l \notin PathsBy(lines, n)
      PROVE  SaidBy(lines, n, g, l) = 0
  <2>1. LinesOf(lines, n, g, l) = {}
    <3>1. SUFFICES ASSUME NEW i \in LinesOf(lines, n, g, l) PROVE FALSE
      OBVIOUS
    <3>2. i \in 1..n /\ OnPath(lines[i]) /\ lines[i].label = l
      BY <1>2, <3>1 DEF LinesOf, OnPath
    <3> QED BY <1>2, <3>2 DEF PathsBy
  <2> QED BY <2>1 DEF SaidBy
<1> QED BY <1>1, <1>2

\* A line adds the tier, or the path, that it is about.
LEMMA KeysGrow ==
    ASSUME NEW lines, NEW n \in Nat \ {0}
    PROVE  /\ TiersBy(lines, n) = IF OnTier(lines[n])
                                  THEN TiersBy(lines, n - 1) \cup {lines[n].label.name}
                                  ELSE TiersBy(lines, n - 1)
           /\ PathsBy(lines, n) = IF OnPath(lines[n])
                                  THEN PathsBy(lines, n - 1) \cup {lines[n].label}
                                  ELSE PathsBy(lines, n - 1)
<1>1. 1..n = 1..(n - 1) \cup {n}
  OBVIOUS
<1>2. {k \in 1..n : OnTier(lines[k])}
        = {k \in 1..(n - 1) : OnTier(lines[k])} \cup (IF OnTier(lines[n]) THEN {n} ELSE {})
  BY <1>1, Zenon
<1>3. {k \in 1..n : OnPath(lines[k])}
        = {k \in 1..(n - 1) : OnPath(lines[k])} \cup (IF OnPath(lines[n]) THEN {n} ELSE {})
  BY <1>1, Zenon
<1>4. CASE OnTier(lines[n])
  BY <1>2, <1>3, <1>4 DEF TiersBy, PathsBy
<1>5. CASE ~OnTier(lines[n])
  BY <1>2, <1>3, <1>5 DEF TiersBy, PathsBy
<1> QED BY <1>4, <1>5

\* Rows of figures, and those rows with one figure put.
Table(X, G, fig) == [k \in X |-> [g \in G |-> fig[<<k, g>>]]]
TableWith(X, G, fig, key, gauge, v) ==
    [k \in X \cup {key} |-> [g \in G |->
        IF k = key /\ g = gauge THEN v ELSE IF k \in X THEN fig[<<k, g>>] ELSE Figure(g, 0)]]

\* An entry that is put changes one figure of one row, and nothing else.
LEMMA PutOne ==
    ASSUME NEW X, NEW G, NEW fig, NEW key, NEW gauge \in G, NEW v
    PROVE  Put(Table(X, G, fig), key, G, gauge, v) = TableWith(X, G, fig, key, gauge, v)
<1> DEFINE m == [k \in X |-> [g \in G |-> fig[<<k, g>>]]]
           old(k) == IF k \in X THEN m[k] ELSE [g \in G |-> Figure(g, 0)]
<1>1. Put(m, key, G, gauge, v)
        = [k \in X \cup {key} |-> IF k = key THEN [old(k) EXCEPT ![gauge] = v] ELSE old(k)]
  BY DEF Put
<1>2. ASSUME NEW k
      PROVE  old(k) = [g \in G |-> IF k \in X THEN fig[<<k, g>>] ELSE Figure(g, 0)]
  OBVIOUS
<1> HIDE DEF m, old
<1>3. ASSUME NEW k \in X \cup {key}
      PROVE  (IF k = key THEN [old(k) EXCEPT ![gauge] = v] ELSE old(k))
                = [g \in G |-> IF k = key /\ g = gauge THEN v
                               ELSE IF k \in X THEN fig[<<k, g>>] ELSE Figure(g, 0)]
  BY <1>2
<1>4. Put(m, key, G, gauge, v)
        = [k \in X \cup {key} |-> [g \in G |->
                IF k = key /\ g = gauge THEN v
                ELSE IF k \in X THEN fig[<<k, g>>] ELSE Figure(g, 0)]]
  BY <1>1, <1>3
<1> QED BY <1>4 DEF m, Table, TableWith

\* The tiers' rows after a line: its own changes by one figure.
LEMMA TierHeard ==
    ASSUME NEW lines, LinesTyped(lines), NEW n \in 1..Len(lines)
    PROVE  TierRows(lines, n) =
                LET s == lines[n] IN
                IF OnTier(s)
                THEN Put(TierRows(lines, n - 1), s.label.name, TierGauges, s.gauge,
                         Figure(s.gauge, s.v))
                ELSE TierRows(lines, n - 1)
<1> DEFINE s == lines[n]
           X == TiersBy(lines, n - 1)
           fig == [p \in X \X TierGauges |-> Figure(p[2], SaidBy(lines, n - 1, p[2], OfTier(p[1])))]
<1>1. /\ n \in Nat \ {0} /\ n - 1 \in Nat
      /\ s.label \in Labels
  BY PageTyped DEF LinesTyped
<1>2. \A g, l : SaidBy(lines, n, g, l) =
                  IF s.fits /\ s.gauge = g /\ s.label = l THEN s.v ELSE SaidBy(lines, n - 1, g, l)
  BY <1>1, LastWord
<1>3. \A t : s.label = OfTier(t) <=> s.label.under = "storage/" /\ s.label.name = t
  <2>1. s.label = [under |-> s.label.under, name |-> s.label.name]
    BY <1>1 DEF Labels
  <2> HIDE DEF s
  <2> QED BY <2>1 DEF OfTier
<1>4. \A t, g : g \in TierGauges /\ t \notin X => SaidBy(lines, n - 1, g, OfTier(t)) = 0
  BY <1>1, Unsaid
<1>5. TierRows(lines, n - 1) = Table(X, TierGauges, fig)
  BY DEF TierRows, Table
<1>6. CASE OnTier(s)
  <2> DEFINE p == Put(TierRows(lines, n - 1), s.label.name, TierGauges, s.gauge, Figure(s.gauge, s.v))
  <2>1. s.fits /\ s.gauge \in TierGauges /\ s.label.under = "storage/"
    BY <1>6 DEF OnTier
  <2>2. TiersBy(lines, n) = X \cup {s.label.name}
    BY <1>1, <1>6, KeysGrow
  <2>3. p = TableWith(X, TierGauges, fig, s.label.name, s.gauge, Figure(s.gauge, s.v))
    <3> HIDE DEF X, fig, s
    <3> QED BY <1>5, <2>1, PutOne
  <2>4. ASSUME NEW t \in X \cup {s.label.name}, NEW g \in TierGauges
        PROVE  Figure(g, SaidBy(lines, n, g, OfTier(t))) =
                 IF t = s.label.name /\ g = s.gauge THEN Figure(s.gauge, s.v)
                 ELSE IF t \in X THEN fig[<<t, g>>] ELSE Figure(g, 0)
    <3>1. CASE t = s.label.name /\ g = s.gauge
      <4>1. SaidBy(lines, n, g, OfTier(t)) = s.v
        BY <1>2, <1>3, <2>1, <3>1
      <4> QED BY <3>1, <4>1
    <3>2. CASE ~(t = s.label.name /\ g = s.gauge)
      <4>1. SaidBy(lines, n, g, OfTier(t)) = SaidBy(lines, n - 1, g, OfTier(t))
        BY <1>2, <1>3, <2>1, <3>2
      <4>2. t \in X => fig[<<t, g>>] = Figure(g, SaidBy(lines, n - 1, g, OfTier(t)))
        OBVIOUS
      <4>3. t \notin X => SaidBy(lines, n - 1, g, OfTier(t)) = 0
        BY <1>4
      <4> HIDE DEF X, fig, s
      <4> QED BY <3>2, <4>1, <4>2, <4>3
    <3> QED BY <3>1, <3>2
  <2>5. TierRows(lines, n) = p
    <3> HIDE DEF X, fig, s, p
    <3> QED BY <2>2, <2>3, <2>4 DEF TierRows, TableWith
  <2> QED BY <1>6, <2>5
<1>7. CASE ~OnTier(s)
  <2>1. TiersBy(lines, n) = X
    BY <1>1, <1>7, KeysGrow
  <2>2. \A t, g : g \in TierGauges =>
            SaidBy(lines, n, g, OfTier(t)) = SaidBy(lines, n - 1, g, OfTier(t))
    BY <1>2, <1>3, <1>7 DEF OnTier
  <2>3. TierRows(lines, n) = TierRows(lines, n - 1)
    <3> HIDE DEF s
    <3> QED BY <2>1, <2>2 DEF TierRows
  <2> QED BY <1>7, <2>3
<1> QED BY <1>6, <1>7

\* The paths' rows likewise.
LEMMA PathHeard ==
    ASSUME NEW lines, LinesTyped(lines), NEW n \in 1..Len(lines)
    PROVE  PathRows(lines, n) =
                LET s == lines[n] IN
                IF OnPath(s)
                THEN Put(PathRows(lines, n - 1), s.label, PathGauges, s.gauge,
                         Figure(s.gauge, s.v))
                ELSE PathRows(lines, n - 1)
<1> DEFINE s == lines[n]
           X == PathsBy(lines, n - 1)
           fig == [p \in X \X PathGauges |-> Figure(p[2], SaidBy(lines, n - 1, p[2], p[1]))]
<1>1. n \in Nat \ {0} /\ n - 1 \in Nat
  BY PageTyped
<1>2. \A g, l : SaidBy(lines, n, g, l) =
                  IF s.fits /\ s.gauge = g /\ s.label = l THEN s.v ELSE SaidBy(lines, n - 1, g, l)
  BY <1>1, LastWord
<1>3. \A l, g : g \in PathGauges /\ l # NoLabel /\ l \notin X => SaidBy(lines, n - 1, g, l) = 0
  BY <1>1, Unsaid
<1>4. PathRows(lines, n - 1) = Table(X, PathGauges, fig)
  BY DEF PathRows, Table
<1>5. NoLabel \notin X
  BY DEF PathsBy, OnPath
<1>6. CASE OnPath(s)
  <2> DEFINE p == Put(PathRows(lines, n - 1), s.label, PathGauges, s.gauge, Figure(s.gauge, s.v))
  <2>1. s.fits /\ s.gauge \in PathGauges /\ s.label # NoLabel
    BY <1>6 DEF OnPath
  <2>2. PathsBy(lines, n) = X \cup {s.label}
    BY <1>1, <1>6, KeysGrow
  <2>3. p = TableWith(X, PathGauges, fig, s.label, s.gauge, Figure(s.gauge, s.v))
    <3> HIDE DEF X, fig, s
    <3> QED BY <1>4, <2>1, PutOne
  <2>4. ASSUME NEW l \in X \cup {s.label}, NEW g \in PathGauges
        PROVE  Figure(g, SaidBy(lines, n, g, l)) =
                 IF l = s.label /\ g = s.gauge THEN Figure(s.gauge, s.v)
                 ELSE IF l \in X THEN fig[<<l, g>>] ELSE Figure(g, 0)
    <3>1. CASE l = s.label /\ g = s.gauge
      <4>1. SaidBy(lines, n, g, l) = s.v
        BY <1>2, <2>1, <3>1
      <4> QED BY <3>1, <4>1
    <3>2. CASE ~(l = s.label /\ g = s.gauge)
      <4>1. SaidBy(lines, n, g, l) = SaidBy(lines, n - 1, g, l)
        BY <1>2, <3>2
      <4>2. l \in X => fig[<<l, g>>] = Figure(g, SaidBy(lines, n - 1, g, l))
        OBVIOUS
      <4>3. l \notin X => SaidBy(lines, n - 1, g, l) = 0
        BY <1>3, <2>1
      <4> HIDE DEF X, fig, s
      <4> QED BY <3>2, <4>1, <4>2, <4>3
    <3> QED BY <3>1, <3>2
  <2>5. PathRows(lines, n) = p
    <3> HIDE DEF X, fig, s, p
    <3> QED BY <2>2, <2>3, <2>4 DEF PathRows, TableWith
  <2> QED BY <1>6, <2>5
<1>7. CASE ~OnPath(s)
  <2>1. PathsBy(lines, n) = X
    BY <1>1, <1>7, KeysGrow
  <2>2. \A l \in X : \A g \in PathGauges : SaidBy(lines, n, g, l) = SaidBy(lines, n - 1, g, l)
    BY <1>2, <1>5, <1>7 DEF OnPath
  <2>3. PathRows(lines, n) = PathRows(lines, n - 1)
    <3> HIDE DEF s
    <3> QED BY <2>1, <2>2 DEF PathRows
  <2> QED BY <1>7, <2>3
<1> QED BY <1>6, <1>7

\* Whether a storage has been heard of.
LEMMA FoundHeard ==
    ASSUME NEW lines, NEW n \in Nat \ {0}
    PROVE  Says(lines, n).found <=> OfStorage(lines[n]) \/ Says(lines, n - 1).found
<1>1. 1..n = 1..(n - 1) \cup {n}
  OBVIOUS
<1> QED BY <1>1, Zenon DEF Says

\* A turn of the loop makes what n - 1 lines have said what n lines have said
\* (summarise).
LEMMA TurnSays ==
    ASSUME NEW lines, LinesTyped(lines), NEW n \in 1..Len(lines)
    PROVE  Says(lines, n) = IF Kept(lines[n]) THEN Take(Says(lines, n - 1), lines[n])
                            ELSE Says(lines, n - 1)
<1> DEFINE s == lines[n]
           o == Says(lines, n - 1)
           v == Figure(s.gauge, s.v)
<1>1. /\ n \in Nat \ {0} /\ n - 1 \in Nat /\ s.label \in Labels
      /\ s.gauge = "partitions" => s.label = NoLabel
  BY PageTyped DEF LinesTyped
<1>2. \A g, l : SaidBy(lines, n, g, l) =
                  IF s.fits /\ s.gauge = g /\ s.label = l THEN s.v ELSE SaidBy(lines, n - 1, g, l)
  BY <1>1, LastWord
<1>3. /\ OnTier(s) => TierRows(lines, n) = Put(o.tiers, s.label.name, TierGauges, s.gauge, v)
      /\ ~OnTier(s) => TierRows(lines, n) = o.tiers
  BY TierHeard DEF Says
<1>4. /\ OnPath(s) => PathRows(lines, n) = Put(o.paths, s.label, PathGauges, s.gauge, v)
      /\ ~OnPath(s) => PathRows(lines, n) = o.paths
  BY PathHeard DEF Says
<1>5. Says(lines, n) =
        [found      |-> Says(lines, n).found,
         data       |-> IF s.fits /\ s.gauge = "data" /\ s.label = Plain("storage")
                        THEN Int64(s.v) ELSE o.data,
         indexdb    |-> IF s.fits /\ s.gauge = "data" /\ s.label = Plain("indexdb")
                        THEN Int64(s.v) ELSE o.indexdb,
         partitions |-> IF s.fits /\ s.gauge = "partitions" THEN Int64(s.v) ELSE o.partitions,
         flag       |-> IF s.fits /\ s.gauge = "flag" /\ s.label = Plain("retentionPeriod")
                        THEN s.v ELSE o.flag,
         tiers      |-> TierRows(lines, n),
         paths      |-> PathRows(lines, n)]
  BY <1>1, <1>2 DEF Says
<1>6. Says(lines, n).found <=> OfStorage(s) \/ o.found
  BY <1>1, FoundHeard
<1>7. /\ Says(lines, n).found \in BOOLEAN
      /\ o = [found |-> o.found, data |-> o.data, indexdb |-> o.indexdb,
              partitions |-> o.partitions, flag |-> o.flag, tiers |-> o.tiers, paths |-> o.paths]
      /\ o.found \in BOOLEAN
  BY DEF Says
<1> SUFFICES Says(lines, n) = IF Kept(s) THEN Take(o, s) ELSE o
  OBVIOUS
<1> HIDE DEF o, s
<1>8. CASE Kept(s) /\ s.gauge = "data"
  <2>1. Take(o, s) = [o EXCEPT !.found = TRUE,
                               !.data    = IF s.label = Plain("storage") THEN v ELSE @,
                               !.indexdb = IF s.label = Plain("indexdb") THEN v ELSE @]
    BY <1>8 DEF Take, TierGauges, PathGauges
  <2>2. v = Int64(s.v) /\ s.fits
    BY <1>8 DEF Figure, Kept
  <2>3. ~OnTier(s) /\ ~OnPath(s) /\ OfStorage(s)
    BY <1>8, <2>2 DEF OnTier, OnPath, OfStorage, TierGauges, PathGauges
  <2>4. Says(lines, n).found = TRUE
    BY <1>6, <1>7, <2>3
  <2> HIDE DEF v
  <2>5. Says(lines, n) = Take(o, s)
    BY <1>3, <1>4, <1>5, <1>7, <1>8, <2>1, <2>2, <2>3, <2>4
  <2> QED BY <1>8, <2>5
<1>9. CASE Kept(s) /\ s.gauge \in TierGauges /\ IsTier(s.label)
  <2>1. Take(o, s) = [o EXCEPT !.found = TRUE,
                               !.tiers = Put(@, s.label.name, TierGauges, s.gauge, v)]
    BY <1>9 DEF Take, TierGauges, PathGauges
  <2>2. OnTier(s) /\ ~OnPath(s) /\ OfStorage(s)
    BY <1>9 DEF Kept, IsTier, OnTier, OnPath, OfStorage, TierGauges, PathGauges
  <2>3. s.gauge \notin {"data", "partitions", "flag"}
    BY <1>9 DEF TierGauges
  <2>4. Says(lines, n).found = TRUE
    BY <1>6, <1>7, <2>2
  <2> HIDE DEF v
  <2>5. Says(lines, n) = Take(o, s)
    BY <1>3, <1>4, <1>5, <1>7, <1>9, <2>1, <2>2, <2>3, <2>4
  <2> QED BY <1>9, <2>5
<1>10. CASE Kept(s) /\ s.gauge = "partitions"
  <2>1. Take(o, s) = [o EXCEPT !.found = TRUE, !.partitions = v]
    BY <1>10 DEF Take, TierGauges, PathGauges
  <2>2. v = Int64(s.v) /\ s.fits
    BY <1>10 DEF Figure, Kept
  <2>3. ~OnTier(s) /\ ~OnPath(s) /\ OfStorage(s)
    BY <1>10, <2>2 DEF OnTier, OnPath, OfStorage, TierGauges, PathGauges
  <2>4. Says(lines, n).found = TRUE
    BY <1>6, <1>7, <2>3
  <2> HIDE DEF v
  <2>5. Says(lines, n) = Take(o, s)
    BY <1>3, <1>4, <1>5, <1>7, <1>10, <2>1, <2>2, <2>3, <2>4
  <2> QED BY <1>10, <2>5
<1>11. CASE Kept(s) /\ s.gauge \in PathGauges /\ s.label # NoLabel
  <2>1. Take(o, s) = [o EXCEPT !.paths = Put(@, s.label, PathGauges, s.gauge, v)]
    BY <1>11 DEF Take, TierGauges, PathGauges
  <2>2. OnPath(s) /\ ~OnTier(s) /\ ~OfStorage(s)
    BY <1>11 DEF Kept, OnTier, OnPath, OfStorage, TierGauges, PathGauges
  <2>3. s.gauge \notin {"data", "partitions", "flag"}
    BY <1>11 DEF PathGauges
  <2>4. Says(lines, n).found = o.found
    BY <1>6, <1>7, <2>2
  <2> HIDE DEF v
  <2>5. Says(lines, n) = Take(o, s)
    BY <1>3, <1>4, <1>5, <1>7, <1>11, <2>1, <2>2, <2>3, <2>4
  <2> QED BY <1>11, <2>5
<1>12. CASE Kept(s) /\ s.gauge = "flag" /\ s.label = Plain("retentionPeriod")
  <2>1. Take(o, s) = [o EXCEPT !.flag = s.v]
    BY <1>12 DEF Take, TierGauges, PathGauges
  <2>2. ~OnTier(s) /\ ~OnPath(s) /\ ~OfStorage(s) /\ s.fits
    BY <1>12 DEF Kept, OnTier, OnPath, OfStorage, TierGauges, PathGauges
  <2>3. Says(lines, n).found = o.found
    BY <1>6, <1>7, <2>2
  <2>4. Says(lines, n) = Take(o, s)
    BY <1>3, <1>4, <1>5, <1>7, <1>12, <2>1, <2>2, <2>3
  <2> QED BY <1>12, <2>4
<1>13. CASE \/ ~Kept(s)
            \/ /\ s.gauge \notin {"data", "partitions"}
               /\ ~(s.gauge \in TierGauges /\ IsTier(s.label))
               /\ ~(s.gauge \in PathGauges /\ s.label # NoLabel)
               /\ ~(s.gauge = "flag" /\ s.label = Plain("retentionPeriod"))
  <2>1. Kept(s) => Take(o, s) = o
    BY <1>13 DEF Take
  <2>2. ~OnTier(s) /\ ~OnPath(s) /\ ~OfStorage(s)
    BY <1>13 DEF Kept, Wanted, IsTier, OnTier, OnPath, OfStorage
  <2>3. ~(s.fits /\ s.gauge \in {"data", "partitions"})
        /\ ~(s.fits /\ s.gauge = "flag" /\ s.label = Plain("retentionPeriod"))
    BY <1>13 DEF Kept, Wanted
  <2>4. Says(lines, n).found = o.found
    BY <1>6, <1>7, <2>2
  <2>5. Says(lines, n) = o
    BY <1>3, <1>4, <1>5, <1>7, <2>2, <2>3, <2>4
  <2> QED BY <2>1, <2>5
<1> QED BY <1>8, <1>9, <1>10, <1>11, <1>12, <1>13

LEMMA NothingSaid == ASSUME NEW lines PROVE Says(lines, 0) = Nothing
<1>1. \A g, l : SaidBy(lines, 0, g, l) = 0
  <2>1. \A g, l : LinesOf(lines, 0, g, l) = {}
    BY DEF LinesOf
  <2> QED BY <2>1 DEF SaidBy
<1>2. TiersBy(lines, 0) = {} /\ PathsBy(lines, 0) = {}
  BY DEF TiersBy, PathsBy
<1>3. TierRows(lines, 0) = << >> /\ PathRows(lines, 0) = << >>
  BY <1>2 DEF TierRows, PathRows
<1>4. Int64(0) = 0
  BY DEF Int64
<1>5. (\E k \in 1..0 : OfStorage(lines[k])) = FALSE
  OBVIOUS
<1> QED BY <1>1, <1>3, <1>4, <1>5 DEF Says, Nothing

\* What the loop has gathered at the end of a page is what the page said.
LEMMA PageSaid ==
    ASSUME NEW lines, LinesTyped(lines)
    PROVE  Gathered(lines) = Says(lines, Len(lines))
<1> DEFINE n == Len(lines)
           Looped(f) == f = [i \in 0..n |->
                            IF i = 0 THEN Nothing
                            ELSE IF Kept(lines[i]) THEN Take(f[i - 1], lines[i]) ELSE f[i - 1]]
           F == CHOOSE f : Looped(f)
           said == [i \in 0..n |-> Says(lines, i)]
<1>1. n \in Nat /\ DOMAIN lines = 1..n
  BY PageTyped
<1>2. Gathered(lines) = F[n]
  BY DEF Gathered
<1>3. ASSUME NEW i \in 0..n
      PROVE  said[i] = IF i = 0 THEN Nothing
                       ELSE IF Kept(lines[i]) THEN Take(said[i - 1], lines[i]) ELSE said[i - 1]
  <2>1. CASE i = 0
    BY <2>1, NothingSaid
  <2>2. CASE i # 0
    <3>1. i \in 1..n /\ i - 1 \in 0..n
      BY <1>1, <2>2
    <3>2. Says(lines, i) = IF Kept(lines[i]) THEN Take(Says(lines, i - 1), lines[i])
                           ELSE Says(lines, i - 1)
      BY <3>1, TurnSays
    <3>3. said[i] = Says(lines, i) /\ said[i - 1] = Says(lines, i - 1)
      BY <3>1
    <3> HIDE DEF said, n
    <3> QED BY <2>2, <3>2, <3>3
  <2> QED BY <2>1, <2>2
<1>4. Looped(said)
  <2>1. DOMAIN said = 0..n /\ said = [i \in 0..n |-> said[i]]
    OBVIOUS
  <2> HIDE DEF said, n
  <2> QED BY <1>3, <2>1
<1>5. Looped(F)
  <2> HIDE DEF Looped, said
  <2> QED BY <1>4, Zenon
<1> HIDE DEF F
<1>6. ASSUME NEW i \in 0..n
      PROVE  F[i] = IF i = 0 THEN Nothing
                    ELSE IF Kept(lines[i]) THEN Take(F[i - 1], lines[i]) ELSE F[i - 1]
  <2> HIDE DEF n
  <2> QED BY <1>5, Zenon
<1> HIDE DEF Looped
<1> DEFINE S == {i \in 0..n : F[i] = Says(lines, i)}
<1>7. 0 \in S
  BY <1>1, <1>6, NothingSaid
<1>8. ASSUME NEW i \in 1..n, i - 1 \in S PROVE i \in S
  <2>1. i \in 0..n /\ i # 0
    BY <1>1
  <2>2. F[i] = IF Kept(lines[i]) THEN Take(F[i - 1], lines[i]) ELSE F[i - 1]
    BY <1>6, <2>1
  <2>3. F[i - 1] = Says(lines, i - 1)
    BY <1>8
  <2> QED BY <2>1, <2>2, <2>3, TurnSays
<1>9. n \in S
  <2>1. \A i \in 0..n : i \in S
    <3> HIDE DEF S, n
    <3> QED BY <1>1, <1>7, <1>8, EveryTurn, Zenon
  <2>2. n \in 0..n
    BY <1>1
  <2> HIDE DEF S, n
  <2> QED BY <2>1, <2>2
<1> QED BY <1>2, <1>9

\* A summary leaves nothing out and makes nothing up, and there is one only of a
\* page that speaks of a storage.
LEMMA SummaryIsFaithful ==
    ASSUME NEW lines, LinesTyped(lines)
    PROVE  /\ Faithful(lines, Summarise(lines))
           /\ Summarise(lines).found => \E i \in DOMAIN lines : OfStorage(lines[i])
<1> DEFINE n == Len(lines)
           o == Gathered(lines)
           S == Summarise(lines)
<1>1. n \in Nat /\ DOMAIN lines = 1..n
  BY PageTyped
<1>2. o = Says(lines, n)
  BY PageSaid
<1>3. \A g, l : SaidBy(lines, n, g, l) = Said(lines, g, l)
  BY <1>1 DEF Said, SaidBy, LinesOf
<1>4. TiersBy(lines, n) = TiersOf(lines)
  BY <1>1 DEF TiersBy, TiersOf, LabelsOf, OnTier
<1>5. PathsBy(lines, n) = PathsOf(lines)
  BY <1>1 DEF PathsBy, PathsOf, LabelsOf, OnPath
<1>6. /\ S.found = o.found /\ S.data = o.data /\ S.indexdb = o.indexdb
      /\ S.partitions = o.partitions /\ S.flag = o.flag
      /\ S.tiers = o.tiers /\ S.paths = o.paths
      /\ S.sums = [g \in TierGauges |-> SumFunction([t \in DOMAIN o.tiers |-> o.tiers[t][g]])]
  BY DEF Summarise
<1> HIDE DEF n, S
<1>7. /\ o.data = Int64(Said(lines, "data", Plain("storage")))
      /\ o.indexdb = Int64(Said(lines, "data", Plain("indexdb")))
      /\ o.partitions = Int64(Said(lines, "partitions", NoLabel))
      /\ o.flag = Said(lines, "flag", Plain("retentionPeriod"))
      /\ o.tiers = TierRows(lines, n) /\ o.paths = PathRows(lines, n)
      /\ o.found = \E k \in 1..n : OfStorage(lines[k])
  BY <1>2, <1>3 DEF Says
<1> HIDE DEF o
<1>8. o.tiers = [t \in TiersOf(lines) |->
                    [g \in TierGauges |-> Figure(g, Said(lines, g, OfTier(t)))]]
  BY <1>3, <1>4, <1>7 DEF TierRows
<1>9. o.paths = [l \in PathsOf(lines) |-> [g \in PathGauges |-> Figure(g, Said(lines, g, l))]]
  BY <1>3, <1>5, <1>7 DEF PathRows
<1>10. \A t \in TiersOf(lines), g \in TierGauges : o.tiers[t][g] = Int64(Said(lines, g, OfTier(t)))
  BY <1>8 DEF Figure, TierGauges
<1>11. ASSUME NEW g \in TierGauges
       PROVE  S.sums[g] = SumFunction([t \in TiersOf(lines) |-> Int64(Said(lines, g, OfTier(t)))])
  <2>1. [t \in DOMAIN o.tiers |-> o.tiers[t][g]]
            = [t \in TiersOf(lines) |-> Int64(Said(lines, g, OfTier(t)))]
    BY <1>8, <1>10
  <2>2. S.sums[g] = SumFunction([t \in DOMAIN o.tiers |-> o.tiers[t][g]])
    BY <1>6
  <2> QED BY <2>1, <2>2, Zenon
<1>12. \A l \in PathsOf(lines), g \in PathGauges :
            o.paths[l][g] = IF g = "read_only" THEN Said(lines, g, l) # 0
                            ELSE Int64(Said(lines, g, l))
  BY <1>9 DEF Figure
<1>13. DOMAIN o.tiers = TiersOf(lines) /\ DOMAIN o.paths = PathsOf(lines)
  BY <1>8, <1>9
<1>14. Faithful(lines, S)
  BY <1>6, <1>7, <1>10, <1>11, <1>12, <1>13, Zenon DEF Faithful
<1>15. S.found => \E i \in DOMAIN lines : OfStorage(lines[i])
  BY <1>1, <1>6, <1>7, Zenon
<1> QED BY <1>14, <1>15 DEF S

-----------------------------------------------------------------------------
(* The status page is told by the page of metrics that answered it.        *)

\* What a status request was answered 200 with: the figures of a page of
\* metrics that speaks of a storage.
FiguresKept ==
    reply = 200 /\ req.endpoint = "status" =>
        /\ figures.lines \in MetricsPages
        /\ figures.stats = Summarise(figures.lines)
        /\ figures.stats.found

LEMMA FiguresBegin == Init => FiguresKept
BY DEF Init, FiguresKept, Pending

\* Only /metrics can answer a status request with 200.
LEMMA FiguresHold == AInv /\ FiguresKept /\ [Next]_vars => FiguresKept'
<1> SUFFICES ASSUME AInv, FiguresKept, [Next]_vars PROVE FiguresKept'
  OBVIOUS
<1>1. CASE UNCHANGED <<req, reply, figures>>
  BY <1>1 DEF FiguresKept
<1>2. ASSUME NEW r \in Requests, Ask(r), reply' = 200, req'.endpoint = "status" PROVE FALSE
  <2>1. r.endpoint = "status" /\ reply = Pending
    BY <1>2 DEF Ask, Idle, AInv, Accounted, RInv, Served
  <2>2. Refusal(r) \in {Pending, 403}
    BY <2>1 DEF Refusal
  <2> QED BY <1>2, <2>1, <2>2 DEF Ask, Turned, ServeConfig, Refuse, Forward, Pending
<1>3. CASE VLAnswers
  <2>1. call # NoCall /\ UNCHANGED req
    BY <1>3 DEF VLAnswers
  <2>2. call.endpoint = req.endpoint
    <3>1. call = CallOf(req)
      BY <2>1 DEF AInv, Accounted
    <3> QED BY <3>1 DEF CallOf
  <2>3. ASSUME req.endpoint = "status" PROVE reply' # 200
    BY <1>3, <2>2, <2>3 DEF VLAnswers, FailureCode
  <2> QED BY <2>1, <2>3 DEF FiguresKept
<1>4. ASSUME NEW lines \in MetricsPages, MetricsAnswered(lines) PROVE FiguresKept'
  <2>1. figures' = [lines |-> lines, stats |-> Summarise(lines)]
    BY <1>4 DEF MetricsAnswered
  <2>2. FailureCode("status", "no storage") = 502
    BY Zenon DEF FailureCode
  <2>3. reply' = IF figures'.stats.found THEN 200 ELSE FailureCode("status", "no storage")
    BY <1>4, Zenon DEF MetricsAnswered
  <2>4. ASSUME reply' = 200 PROVE figures'.stats.found
    <3>1. ~ figures'.stats.found => reply' = 502
      BY <2>2, <2>3, Zenon
    <3> QED BY <2>4, <3>1
  <2> QED BY <2>1, <2>4 DEF FiguresKept
<1>5. CASE Deadline \/ Leave \/ Done
  BY <1>5, DeadlineEnds DEF TimesOut, Leave, Done, FailureCode, Unwritten, Pending, FiguresKept
<1> QED BY <1>1, <1>2, <1>3, <1>4, <1>5 DEF Next, Load, vars, FiguresKept

LEMMA FiguresAreFaithful == FiguresKept => StatusIsFaithful
<1> SUFFICES ASSUME FiguresKept, reply = 200, req.endpoint = "status"
             PROVE  /\ Faithful(figures.lines, figures.stats)
                    /\ \E i \in DOMAIN figures.lines : OfStorage(figures.lines[i])
  BY DEF StatusIsFaithful
<1>1. /\ figures.lines \in MetricsPages /\ figures.stats = Summarise(figures.lines)
      /\ figures.stats.found
  BY DEF FiguresKept
<1>2. LinesTyped(figures.lines)
  BY <1>1, MetricsAssumption
<1> QED BY <1>1, <1>2, SummaryIsFaithful

-----------------------------------------------------------------------------
(* Types.  Most of them follow from the accounts: a call is the one that   *)
(* follows from a request, and a reply what became of it.                  *)

Causes == {"none", "canceled", "ok"} \cup Failures

CallersTyped ==
    /\ process \in {"starting", "serving", "refused"}
    /\ cause \in Causes
    /\ rail.user \in Callers /\ rail.loaded \in BOOLEAN

LEMMA CallersBegin == Init => CallersTyped
BY DEF Init, CallersTyped, Causes, Callers, NotLoaded

LEMMA CallersStay == CallersTyped /\ [Next]_vars => CallersTyped'
<1> SUFFICES ASSUME CallersTyped, [Next]_vars PROVE CallersTyped'
  OBVIOUS
<1>1. CASE Load
  BY <1>1 DEF Load, CallersTyped, Callers
<1>2. ASSUME NEW r \in Requests, Ask(r) PROVE CallersTyped'
  <2>1. r.user \in Callers
    BY RequestAssumption DEF Callers
  <2>2. UNCHANGED <<process, cause>>
    BY <1>2 DEF Ask
  <2>3. rail' = rail \/ (rail'.user = r.user /\ rail'.loaded = TRUE)
    BY <1>2 DEF Ask, Turned, ServeConfig, Refuse, Forward
  <2> QED BY <2>1, <2>2, <2>3 DEF CallersTyped, Callers
<1>3. CASE VLAnswers
  BY <1>3 DEF VLAnswers, CallersTyped, Callers, Causes, Failures
<1>4. ASSUME NEW lines \in MetricsPages, MetricsAnswered(lines) PROVE CallersTyped'
  <2>1. cause' \in {"ok", "no storage"} /\ UNCHANGED <<process, rail>>
    BY <1>4, Zenon DEF MetricsAnswered
  <2> QED BY <2>1 DEF CallersTyped, Callers, Causes, Failures
<1>5. CASE Deadline \/ Leave \/ Done
  BY <1>5, DeadlineEnds DEF TimesOut, Leave, Done, CallersTyped, Callers, Causes, Failures
<1>6. CASE UNCHANGED vars
  BY <1>6 DEF vars, CallersTyped, Callers
<1> QED BY <1>1, <1>2, <1>3, <1>4, <1>5, <1>6 DEF Next

\* A call has numbers where its endpoint has them, whatever the caller sent
\* (limit, optInt, optDuration, timeRange).
LEMMA CallTyped ==
    ASSUME RInv, process = "serving", NEW r \in Requests
    PROVE  /\ CallOf(r).endpoint \in Endpoints
           /\ CallOf(r).query \in {"none", "star", "blank", "typed"}
           /\ CallOf(r).start \in Int /\ CallOf(r).end \in Int
           /\ {CallOf(r).limit, CallOf(r).step} \subseteq {Absent} \cup (Nat \ {0})
<1>1. /\ r.endpoint \in Endpoints /\ r.query \in {"none", "blank", "typed"}
      /\ r.start \in Int /\ r.end \in Int /\ r.limit \in Int /\ r.step \in Int
  BY RequestAssumption
<1>2. Start(r) \in Int /\ End(r) \in Int
  BY <1>1, WindowTyped DEF RInv
<1>3. Limit(r) \in Nat \ {0}
  <2>1. Limit(r) \in 1..cfg.maxRows /\ cfg.maxRows \in Int
    BY <1>1, LimitIsCapped DEF RInv, Served, Configured
  <2> QED BY <2>1
<1>4. Step(r) \in Nat \ {0}
  <2>1. NiceStep(End(r) - Start(r)) \in Nat \ {0}
    <3>1. End(r) - Start(r) \in Int
      BY <1>2
    <3> QED BY <3>1, StepFits
  <2> QED BY <1>1, <2>1 DEF Step, OptInt
<1>5. OptInt(r.limit, DefaultFacetValues) \in Nat \ {0}
      /\ OptInt(r.limit, DefaultValueLimit) \in Nat \ {0}
  BY <1>1 DEF OptInt, DefaultFacetValues, DefaultValueLimit
<1>6. QueryFor(r) \in {"none", "star", "typed"} /\ ValuesQuery(r) \in {"star", "blank", "typed"}
  BY <1>1 DEF QueryFor, ValuesQuery
<1> QED BY <1>1, <1>2, <1>3, <1>4, <1>5, <1>6 DEF CallOf, Absent

LEMMA AccountsAreTyped == AInv /\ CallersTyped => TypeOK
<1> SUFFICES ASSUME AInv, CallersTyped PROVE TypeOK
  OBVIOUS
<1>1. cfg.maxRows \in Int /\ cfg.defaultLimit \in Int /\ cfg.defaultRange \in Int
  BY DEF AInv, RInv, Configured
<1>2. req.endpoint \in Endpoints \cup {"none"} /\ req.user \in Callers
  <2>1. CASE req = NoRequest
    BY <2>1 DEF NoRequest, Callers
  <2>2. CASE req # NoRequest
    BY <2>2, RequestAssumption DEF AInv, Accounted, Callers
  <2> QED BY <2>1, <2>2
<1>3. /\ call.endpoint \in Endpoints \cup {"none"}
      /\ call.query \in {"none", "star", "blank", "typed"}
      /\ call.start \in Int /\ call.end \in Int
      /\ {call.limit, call.step} \subseteq {Absent} \cup (Nat \ {0})
  <2>1. CASE call = NoCall
    BY <2>1 DEF NoCall, Absent
  <2>2. CASE call # NoCall
    <3>1. call = CallOf(req) /\ process = "serving" /\ req # NoRequest
      BY <2>2 DEF AInv, Accounted, RInv, Served
    <3>2. req \in Requests
      BY <3>1 DEF AInv, Accounted
    <3> QED BY <3>1, <3>2, CallTyped DEF AInv
  <2> QED BY <2>1, <2>2
<1>4. cause \in {"none", "ok", "no storage", "4xx", "5xx", "unreachable", "garbled", "deadline", "canceled"}
  BY DEF CallersTyped, Causes, Failures
<1>5. reply \in {Pending, Unwritten, 200, 400, 401, 403, 500, 502, 504}
  <2>1. CASE req = NoRequest
    BY <2>1 DEF AInv, Accounted
  <2>2. CASE call # NoCall
    <3>1. ASSUME NEW why \in Failures PROVE FailureCode(req.endpoint, why) \in {400, 502, 504}
      <4>1. CASE why = "4xx"
        BY <4>1 DEF FailureCode
      <4>2. CASE why = "deadline"
        BY <4>2 DEF FailureCode
      <4>3. CASE why \notin {"4xx", "deadline"}
        BY <4>3 DEF FailureCode
      <4> QED BY <4>1, <4>2, <4>3
    <3> QED BY <2>2, <3>1 DEF AInv, Accounted
  <2>3. CASE call = NoCall /\ req # NoRequest
    <3>1. req \in Requests /\ process = "serving" /\ Valid(cfg) /\ Configured
      BY <2>3 DEF AInv, RInv, Accounted
    <3>2. Refusal(req) \in {Pending, 400, 403}
      <4>1. ASSUME Refusal(req) # Pending PROVE Refusal(req) \in {400, 403}
        BY <3>1, <4>1, RefusedForCause
      <4> QED BY <4>1
    <3> QED BY <2>3, <3>2 DEF AInv, Accounted
  <2> QED BY <2>1, <2>2, <2>3
<1>6. Len(rail.tools) <= Len(cfg.tools)
  <2>1. Configured /\ Len(cfg.tools) \in Nat
    BY DEF AInv, RInv, Configured
  <2>2. CASE rail.loaded
    BY <2>1, <2>2, RailLists DEF AInv, RailKept
  <2>3. CASE ~rail.loaded
    BY <2>1, <2>3 DEF AInv, RailKept
  <2> QED BY <2>2, <2>3
<1> QED BY <1>1, <1>2, <1>3, <1>4, <1>5, <1>6, Zenon DEF TypeOK, CallersTyped

-----------------------------------------------------------------------------
(* The theorems.                                                           *)

\* Every variable keeps its type, and a call's limit and step are positive
\* where its endpoint has one, for every configuration and every request (limit,
\* optInt, optDuration).
THEOREM RequestsTyped == Spec => []TypeOK
<1>1. Init => AInv /\ CallersTyped
  BY AccountsBegin, CallersBegin
<1>2. AInv /\ CallersTyped /\ [Next]_vars => (AInv /\ CallersTyped)'
  BY AccountsHold, CallersStay
<1> QED BY <1>1, <1>2, AccountsAreTyped, PTL DEF Spec

\* Whatever is read from the logs is read under the query of a tool its reader
\* may use, and no more rows than max_rows, for every configuration that passes
\* validation and every request (resolveTool, filters, limit, validate).
THEOREM ReadsAreConfined == Spec => []Confined
<1>1. RInv => Confined
  BY DEF RInv
<1> QED BY InitHolds, NextHolds, <1>1, PTL DEF Spec

\* A histogram has as many bars as fit and none finer would do, for every
\* window (niceStep).
THEOREM HistogramFits == Spec => []BarsFit
<1>1. RInv => BarsFit
  BY DEF RInv
<1> QED BY InitHolds, NextHolds, <1>1, PTL DEF Spec

\* A reply names the one who is at fault, whatever was asked and whatever
\* VictoriaLogs did (errors.go, status.go).
THEOREM RepliesBlameFairly == Spec => []BlamesTheRightOne
BY AccountsBegin, AccountsHold, AccountsBlame, PTL DEF Spec

\* The rail that /api/config listed stays what its reader can use: for every
\* valid configuration and every account (handleConfig, resolveTool,
\* validateTools).
THEOREM RailIsTold == Spec => []RailIsTruth
BY AccountsBegin, AccountsHold, RailIsKept, PTL DEF Spec

\* A value on the page gets the rule its operator wrote first for it, for every
\* list of rules that passes validation and every value (validateValueStyles,
\* handleConfig, valueRule).
THEOREM StylesAreDrawn == Spec => []StylesAsWritten
BY AccountsBegin, AccountsHold, StylesAreKept, PTL DEF Spec

\* The status page shows what VictoriaLogs said, for every page of metrics whose
\* figures fit an int64 (LinesTyped and the header of StorageStats say what a page
\* is): every tier and every path that a line names has its row, with the last
\* figure said of it, the sums are over all tiers, and no line counts twice
\* (summarise, parseSamples).
THEOREM StatusIsTold == Spec => []StatusIsFaithful
<1>1. AInv /\ FiguresKept /\ [Next]_vars => (AInv /\ FiguresKept)'
  BY AccountsHold, FiguresHold
<1>2. Init => AInv /\ FiguresKept
  BY AccountsBegin, FiguresBegin
<1>3. AInv /\ FiguresKept => StatusIsFaithful
  BY FiguresAreFaithful
<1> QED BY <1>1, <1>2, <1>3, PTL DEF Spec
=============================================================================
