------------------------- MODULE QueryStreamProofs -------------------------
(***************************************************************************)
(* Proofs about QueryStream, for every row cap and every length of result: *)
(* the rows shown are the first ones VictoriaLogs sent, however they were  *)
(* cut into chunks, and a result that was cut short is never taken for a   *)
(* whole one.                                                              *)
(*                                                                         *)
(* The response is whole lines, then perhaps pieces of one more, then      *)
(* perhaps the sentinel (Piped); the browser has read whole lines and is   *)
(* inside a line it has in its buffer (Reading).                           *)
(***************************************************************************)
EXTENDS QueryStream, SequenceTheorems, WellFoundedInduction, TLAPS

-----------------------------------------------------------------------------
(* Loops.                                                                  *)

\* Of some positions one is the least.
LEMMA LeastPosition ==
    ASSUME NEW n \in Nat, NEW S \in SUBSET (1..n), S # {}
    PROVE  \E m \in S : \A i \in S : m <= i
<1> DEFINE R == OpToRel(<, Nat)
<1>1. S \in SUBSET Nat
  OBVIOUS
<1>2. \A x, y \in Nat : x < y => <<x, y>> \in R
  BY Zenon DEF OpToRel
<1>3. PICK x \in S : \A y \in S : ~ (<<y, x>> \in R)
  BY <1>1, WFMin, NatLessThanWellFounded, Zenon
<1>4. \A y \in S : ~ (y < x)
  BY <1>1, <1>2, <1>3, Zenon
<1> HIDE DEF R
<1> QED BY <1>1, <1>4

\* What holds before the first turn and survives every turn holds after each.
LEMMA EveryTurn ==
    ASSUME NEW n \in Nat, NEW S, 0 \in S, \A i \in 1..n : i - 1 \in S => i \in S
    PROVE  \A i \in 0..n : i \in S
<1> DEFINE T == {i \in 1..n : i \notin S}
<1>1. T = {}
  <2>1. SUFFICES ASSUME T # {} PROVE FALSE
    OBVIOUS
  <2>2. T \in SUBSET (1..n)
    OBVIOUS
  <2>3. PICK m \in T : \A i \in T : m <= i
    <3> HIDE DEF T
    <3> QED BY <2>1, <2>2, LeastPosition, Zenon
  <2>4. m - 1 \in S
    <3>1. CASE m = 1
      BY <3>1
    <3>2. CASE m # 1
      <4>1. m - 1 \in 1..n /\ ~(m <= m - 1)
        BY <3>2
      <4> QED BY <2>3, <4>1
    <3> QED BY <3>1, <3>2
  <2> QED BY <2>3, <2>4
<1> QED BY <1>1

\* A value of A for each number of turns: the base, and what the turns make of it.
RunOf(f, A, base, n, turn) ==
    /\ f \in [0..n -> A]
    /\ f[0] = base
    /\ \A i \in 1..n : f[i] = turn[<<f[i - 1], i>>]

\* A loop that carries a value of A through n turns has a value after each.
LEMMA LoopRuns ==
    ASSUME NEW A, NEW base \in A, NEW n \in Nat, NEW turn \in [A \X (1..n) -> A]
    PROVE  \E f : RunOf(f, A, base, n, turn)
<1> DEFINE Runs(f, k) == f[0] = base /\ \A i \in 1..k : f[i] = turn[<<f[i - 1], i>>]
           S == {k \in 0..n : \E f \in [0..k -> A] : Runs(f, k)}
<1>1. 0 \in S
  <2> DEFINE f == [i \in 0..0 |-> base]
  <2>1. f \in [0..0 -> A] /\ Runs(f, 0)
    OBVIOUS
  <2> HIDE DEF f, Runs
  <2> QED BY <2>1
<1>2. ASSUME NEW k \in 1..n, k - 1 \in S PROVE k \in S
  <2>1. PICK f \in [0..(k - 1) -> A] : Runs(f, k - 1)
    BY <1>2
  <2> DEFINE g == [i \in 0..k |-> IF i = k THEN turn[<<f[k - 1], k>>] ELSE f[i]]
  <2>2. f[k - 1] \in A
    BY <2>1
  <2>3. turn[<<f[k - 1], k>>] \in A
    BY <2>2
  <2>4. g \in [0..k -> A]
    BY <2>3
  <2>5. g[0] = base
    BY <2>1
  <2>6. ASSUME NEW i \in 1..k PROVE g[i] = turn[<<g[i - 1], i>>]
    <3>1. g[i - 1] = f[i - 1]
      OBVIOUS
    <3>2. CASE i = k
      <4>1. g[i] = turn[<<f[k - 1], k>>]
        BY <3>2
      <4> HIDE DEF g
      <4> QED BY <3>1, <3>2, <4>1, Zenon
    <3>3. CASE i # k
      <4>1. i \in 1..(k - 1) /\ g[i] = f[i]
        BY <3>3
      <4>2. f[i] = turn[<<f[i - 1], i>>]
        BY <2>1, <4>1
      <4> QED BY <3>1, <4>1, <4>2
    <3> QED BY <3>2, <3>3
  <2>7. Runs(g, k)
    BY <2>5, <2>6
  <2> HIDE DEF g, Runs
  <2> QED BY <2>4, <2>7
<1>3. n \in S
  <2>1. \A i \in 0..n : i \in S
    <3> HIDE DEF S
    <3> QED BY <1>1, <1>2, EveryTurn, Zenon
  <2> QED BY <2>1
<1> QED BY <1>3 DEF RunOf

-----------------------------------------------------------------------------
(* Lines.                                                                  *)

\* The pieces of a line, one by one.
LEMMA LinePieces ==
    ASSUME NEW i \in 0..MaxRows
    PROVE  /\ Line(i) \in Seq(Piece) /\ Len(Line(i)) = 3
           /\ Line(i)[1] = [line |-> i, part |-> "head"]
           /\ Line(i)[2] = [line |-> i, part |-> "rest"]
           /\ Line(i)[3] = [line |-> i, part |-> "newline"]
<1> DEFINE a == [line |-> i, part |-> "head"]
           b == [line |-> i, part |-> "rest"]
           c == [line |-> i, part |-> "newline"]
<1>1. a \in Piece /\ b \in Piece /\ c \in Piece
  BY DEF Piece
<1>2. Line(i) = <<a, b, c>>
  BY DEF Line
<1> HIDE DEF a, b, c
<1>4. <<a, b, c>> \in Seq(Piece)
  BY <1>1
<1>5. Len(<<a, b, c>>) = 3 /\ <<a, b, c>>[1] = a /\ <<a, b, c>>[2] = b /\ <<a, b, c>>[3] = c
  OBVIOUS
<1>6. Line(i)[1] = a /\ Line(i)[2] = b /\ Line(i)[3] = c /\ Line(i) \in Seq(Piece) /\ Len(Line(i)) = 3
  BY <1>2, <1>4, <1>5
<1> QED BY <1>6 DEF a, b, c

\* What is before the newline of a line: the whole of it, or a part.
LEMMA LineStart ==
    ASSUME NEW i \in 0..MaxRows, NEW n \in 0..2
    PROVE  /\ SubSeq(Line(i), 1, n) \in Seq(Piece) /\ Len(SubSeq(Line(i), 1, n)) = n
           /\ \A k \in 1..n : SubSeq(Line(i), 1, n)[k] = Line(i)[k]
<1> DEFINE L == Line(i)
<1>1. \A k \in 1..n : L[k] \in Piece
  <2>1. L \in Seq(Piece) /\ Len(L) = 3
    BY LinePieces
  <2> HIDE DEF L
  <2>2. \A k \in 1..n : k \in 1..Len(L)
    BY <2>1
  <2> QED BY <2>1, <2>2, ElementOfSeq
<1> HIDE DEF L
<1>2. /\ SubSeq(L, 1, n) \in Seq(Piece) /\ Len(SubSeq(L, 1, n)) = IF 1 <= n THEN n - 1 + 1 ELSE 0
      /\ \A k \in 1..(n - 1 + 1) : SubSeq(L, 1, n)[k] = L[1 + k - 1]
  BY <1>1, SubSeqProperties
<1> QED BY <1>2 DEF L

\* A row is the two pieces of one line.
LEMMA RowPieces ==
    ASSUME NEW b \in Seq(Piece)
    PROVE  IsRow(b) <=> /\ Len(b) = 2
                        /\ b[1] = [line |-> b[1].line, part |-> "head"]
                        /\ b[2] = [line |-> b[1].line, part |-> "rest"]
<1>1. ASSUME IsRow(b)
      PROVE  /\ Len(b) = 2
             /\ b[1] = [line |-> b[1].line, part |-> "head"]
             /\ b[2] = [line |-> b[1].line, part |-> "rest"]
  <2>1. PICK i \in 0..MaxRows : b = SubSeq(Line(i), 1, 2)
    BY <1>1 DEF IsRow
  <2>2. Len(b) = 2 /\ b[1] = Line(i)[1] /\ b[2] = Line(i)[2]
    BY <2>1, LineStart
  <2>3. Line(i)[1] = [line |-> i, part |-> "head"] /\ Line(i)[2] = [line |-> i, part |-> "rest"]
    BY LinePieces
  <2> QED BY <2>2, <2>3
<1>2. ASSUME Len(b) = 2, b[1] = [line |-> b[1].line, part |-> "head"],
             b[2] = [line |-> b[1].line, part |-> "rest"]
      PROVE  IsRow(b)
  <2> DEFINE i == b[1].line
             s == SubSeq(Line(i), 1, 2)
  <2>1. b[1] \in Piece
    BY <1>2
  <2>2. i \in 0..MaxRows
    BY <2>1 DEF Piece
  <2>3. s \in Seq(Piece) /\ Len(s) = 2 /\ s[1] = Line(i)[1] /\ s[2] = Line(i)[2]
    BY <2>2, LineStart
  <2>4. Line(i)[1] = [line |-> i, part |-> "head"] /\ Line(i)[2] = [line |-> i, part |-> "rest"]
    BY <2>2, LinePieces
  <2>5. s[1] = b[1] /\ s[2] = b[2]
    BY <1>2, <2>3, <2>4
  <2>6. \A k \in 1..Len(b) : b[k] = s[k]
    BY <1>2, <2>5
  <2> HIDE DEF s
  <2>7. b = s
    BY <1>2, <2>3, <2>6, SeqEqual
  <2> QED BY <2>2, <2>7 DEF IsRow, s
<1> QED BY <1>1, <1>2

-----------------------------------------------------------------------------
(* The response, and a browser that reads it.                              *)

\* The first n lines are whole.
Whole(n) ==
    /\ 3 * n <= Len(pipe)
    /\ \A i \in 1..n : /\ pipe[3 * i - 2] = Line(i)[1]
                       /\ pipe[3 * i - 1] = Line(i)[2]
                       /\ pipe[3 * i] = Line(i)[3]

\* The rows, c pieces of one more line, and z of the sentinel.
Piped(c, z) ==
    /\ pipe \in Seq(Piece) /\ rows \in 0..MaxRows /\ c \in 0..2 /\ z \in {0, 3}
    /\ Whole(rows) /\ Len(pipe) = 3 * rows + c + z
    /\ \A k \in 1..c : pipe[3 * rows + k] = Line(rows + 1)[k]
    /\ \A k \in 1..z : pipe[3 * rows + c + k] = Line(Sentinel)[k]
    /\ c > 0 => rows < MaxRows

\* Who has read g pieces is past m lines, and has begun another in b.
Reading(m, b, g) ==
    /\ m \in 0..rows /\ g \in Nat /\ 3 * m <= g /\ g <= Len(pipe)
    /\ b \in Seq(Piece) /\ Len(b) = g - 3 * m
    /\ \A k \in 1..Len(b) : b[k] = pipe[3 * m + k] /\ b[k].part # "newline"

\* The pieces of line m + 1, where the response has it.
LEMMA LineAt ==
    ASSUME NEW c, NEW z, Piped(c, z), NEW m \in 0..rows, m < rows
    PROVE  /\ 3 * m + 3 <= Len(pipe)
           /\ pipe[3 * m + 1] = [line |-> m + 1, part |-> "head"]
           /\ pipe[3 * m + 2] = [line |-> m + 1, part |-> "rest"]
           /\ pipe[3 * m + 3] = [line |-> m + 1, part |-> "newline"]
<1> DEFINE i == m + 1
<1>1. rows \in Nat /\ m \in Nat /\ rows <= MaxRows
  BY MaxRowsAssumption DEF Piped
<1>2. i \in 1..rows /\ i \in 0..MaxRows
  BY <1>1, MaxRowsAssumption
<1>3. 3 * i - 2 = 3 * m + 1 /\ 3 * i - 1 = 3 * m + 2 /\ 3 * i = 3 * m + 3
  BY <1>1
<1>4. /\ pipe[3 * i - 2] = Line(i)[1] /\ pipe[3 * i - 1] = Line(i)[2] /\ pipe[3 * i] = Line(i)[3]
      /\ 3 * rows <= Len(pipe)
  BY <1>2 DEF Piped, Whole
<1>5. /\ Line(i)[1] = [line |-> i, part |-> "head"] /\ Line(i)[2] = [line |-> i, part |-> "rest"]
      /\ Line(i)[3] = [line |-> i, part |-> "newline"]
  BY <1>2, LinePieces
<1>6. 3 * m + 3 <= Len(pipe)
  <2>1. Len(pipe) \in Nat
    BY DEF Piped
  <2> QED BY <1>1, <1>4, <2>1
<1> HIDE DEF i
<1>7. /\ pipe[3 * m + 1] = [line |-> i, part |-> "head"]
      /\ pipe[3 * m + 2] = [line |-> i, part |-> "rest"]
      /\ pipe[3 * m + 3] = [line |-> i, part |-> "newline"]
  BY <1>3, <1>4, <1>5
<1> QED BY <1>6, <1>7 DEF i

\* A piece that is not a newline joins the line being read.
LEMMA PieceRead ==
    ASSUME NEW c, NEW z, Piped(c, z), NEW m, NEW b, NEW g, Reading(m, b, g), g < Len(pipe),
           pipe[g + 1].part # "newline"
    PROVE  Reading(m, Append(b, pipe[g + 1]), g + 1)
<1> DEFINE p == pipe[g + 1]
           t == Append(b, p)
<1>1. /\ m \in Nat /\ Len(pipe) \in Nat /\ g \in Nat /\ Len(b) \in Nat /\ b \in Seq(Piece)
      /\ 3 * m <= g /\ Len(b) = g - 3 * m /\ m \in 0..rows
  <2>1. m \in 0..rows /\ rows \in Nat /\ b \in Seq(Piece) /\ pipe \in Seq(Piece) /\ Len(b) = g - 3 * m
        /\ 3 * m <= g
    BY MaxRowsAssumption DEF Piped, Reading
  <2>2. Len(b) \in Nat /\ Len(pipe) \in Nat
    BY <2>1
  <2>3. g \in Nat
    BY DEF Reading
  <2> QED BY <2>1, <2>2, <2>3
<1>2. p \in Piece
  BY <1>1 DEF Piped
<1> HIDE DEF p
<1>3. t \in Seq(Piece) /\ Len(t) = Len(b) + 1 /\ t[Len(b) + 1] = p
      /\ \A k \in 1..Len(b) : t[k] = b[k]
  BY <1>1, <1>2
<1>4. ASSUME NEW k \in 1..Len(t) PROVE t[k] = pipe[3 * m + k] /\ t[k].part # "newline"
  <2>1. CASE k = Len(b) + 1
    <3>1. 3 * m + k = g + 1
      BY <1>1, <2>1
    <3> QED BY <1>3, <2>1, <3>1 DEF p
  <2>2. CASE k # Len(b) + 1
    <3>1. k \in 1..Len(b)
      BY <1>1, <1>3, <2>2
    <3> QED BY <1>3, <3>1 DEF Reading
  <2> QED BY <2>1, <2>2
<1> HIDE DEF t
<1>5. Reading(m, t, g + 1)
  BY <1>1, <1>3, <1>4 DEF Reading
<1> QED BY <1>5 DEF t, p

\* A newline ends a row of the result, or what cannot be one.
LEMMA NewlineRead ==
    ASSUME NEW c, NEW z, Piped(c, z), NEW m, NEW b, NEW g, Reading(m, b, g), g < Len(pipe),
           pipe[g + 1].part = "newline"
    PROVE  \/ Verdict(b) = "row" /\ b[1].line = m + 1 /\ Reading(m + 1, <<>>, g + 1)
           \/ Verdict(b) \in {"unreadable", "sentinel"}
<1>1. /\ rows \in Nat /\ rows <= MaxRows /\ m \in 0..rows /\ g \in Nat /\ c \in 0..2 /\ z \in {0, 3}
      /\ pipe \in Seq(Piece) /\ b \in Seq(Piece) /\ Len(b) = g - 3 * m /\ 3 * m <= g
      /\ Len(pipe) = 3 * rows + c + z
  BY MaxRowsAssumption DEF Piped, Reading
<1>2. \A k \in 1..Len(b) : b[k] = pipe[3 * m + k] /\ b[k].part # "newline"
  BY DEF Reading
<1>3. CASE m < rows
  <2>1. /\ 3 * m + 3 <= Len(pipe)
        /\ pipe[3 * m + 1] = [line |-> m + 1, part |-> "head"]
        /\ pipe[3 * m + 2] = [line |-> m + 1, part |-> "rest"]
        /\ pipe[3 * m + 3] = [line |-> m + 1, part |-> "newline"]
    BY <1>1, <1>3, LineAt
  <2>2. g = 3 * m + 2
    <3>1. ~(3 \in 1..Len(b))
      BY <1>2, <2>1
    <3>2. g + 1 # 3 * m + 1 /\ g + 1 # 3 * m + 2
      BY <2>1
    <3> QED BY <1>1, <3>1, <3>2
  <2>3. Len(b) = 2 /\ b[1] = pipe[3 * m + 1] /\ b[2] = pipe[3 * m + 2]
    BY <1>1, <1>2, <2>2
  <2>4. b[1].line = m + 1 /\ IsRow(b)
    BY <1>1, <2>1, <2>3, RowPieces
  <2>5. Verdict(b) = "row"
    <3>0. Len(b) = 2
      BY <2>3
    <3>1. b # <<>>
      BY <3>0
    <3>2. m + 1 # Sentinel
      BY <1>1 DEF Sentinel
    <3> QED BY <2>4, <3>1, <3>2 DEF Verdict
  <2>6. Reading(m + 1, <<>>, g + 1)
    <3>1. m + 1 \in 0..rows /\ g + 1 \in Nat /\ 3 * (m + 1) <= g + 1 /\ g + 1 <= Len(pipe)
      BY <1>1, <1>3, <2>1, <2>2
    <3>2. <<>> \in Seq(Piece) /\ Len(<<>>) = g + 1 - 3 * (m + 1)
      BY <1>1, <2>2
    <3> QED BY <3>1, <3>2 DEF Reading
  <2> QED BY <2>4, <2>5, <2>6
<1>4. CASE m = rows
  <2> DEFINE k == g + 1 - 3 * rows
  <2>1. k \in 1..(c + z) /\ pipe[3 * rows + k].part = "newline"
    BY <1>1, <1>4
  <2>2. ~(k \in 1..c)
    <3> SUFFICES ASSUME k \in 1..c PROVE FALSE
      OBVIOUS
    <3>1. pipe[3 * rows + k] = Line(rows + 1)[k] /\ rows + 1 \in 0..MaxRows /\ k \in {1, 2}
      BY <1>1, MaxRowsAssumption DEF Piped
    <3>2. /\ Line(rows + 1)[1] = [line |-> rows + 1, part |-> "head"]
          /\ Line(rows + 1)[2] = [line |-> rows + 1, part |-> "rest"]
      BY <3>1, LinePieces
    <3>3. Line(rows + 1)[1].part = "head" /\ Line(rows + 1)[2].part = "rest"
      BY <3>2
    <3> QED BY <2>1, <3>1, <3>3
  <2> DEFINE j == k - c
  <2>3. j \in 1..z /\ j \in 1..3 /\ 3 * rows + k = 3 * rows + c + j
    BY <1>1, <2>1, <2>2
  <2>4. pipe[3 * rows + c + j] = Line(Sentinel)[j]
    BY <2>3 DEF Piped
  <2>5. Sentinel \in 0..MaxRows
    BY MaxRowsAssumption DEF Sentinel
  <2>6. /\ Line(Sentinel)[1] = [line |-> 0, part |-> "head"]
        /\ Line(Sentinel)[2] = [line |-> 0, part |-> "rest"]
    BY <2>5, LinePieces DEF Sentinel
  <2>7. Line(Sentinel)[j].part = "newline"
    BY <2>1, <2>3, <2>4
  <2>8. j = 3 /\ z = 3
    BY <1>1, <2>3, <2>6, <2>7
  <2>9. Len(b) = c + 2
    BY <1>1, <1>4, <2>8
  <2>10. b # <<>>
    BY <1>1, <2>9
  <2>11. CASE c = 0
    <3>1. b[1] = pipe[3 * rows + 1] /\ pipe[3 * rows + 1] = Line(Sentinel)[1]
      <4>1. 1 \in 1..Len(b)
        BY <2>9, <2>11
      <4>2. b[1] = pipe[3 * rows + 1]
        BY <1>2, <1>4, <4>1
      <4>3. \A i \in 1..3 : pipe[3 * rows + 0 + i] = Line(Sentinel)[i]
        BY <2>8, <2>11 DEF Piped
      <4>4. 3 * rows + 0 + 1 = 3 * rows + 1
        BY <1>1
      <4> QED BY <4>2, <4>3, <4>4
    <3>2. b[1].line = Sentinel
      BY <2>6, <3>1 DEF Sentinel
    <3> QED BY <2>10, <3>2 DEF Verdict
  <2>12. CASE c # 0
    <3>1. Len(b) # 2
      BY <1>1, <2>9, <2>12
    <3>2. ~IsRow(b)
      BY <1>1, <3>1, RowPieces
    <3> QED BY <2>10, <3>2 DEF Verdict
  <2> QED BY <2>11, <2>12
<1> QED BY <1>1, <1>3, <1>4

\* Who has read a response without a newline after what it is past has read all
\* its rows, and has in front of it what is left of a line that broke off.
LEMMA EndRead ==
    ASSUME NEW c, NEW z, Piped(c, z), NEW m, NEW b, Reading(m, b, Len(pipe))
    PROVE  /\ m = rows /\ z = 0
           /\ c = 0 => Verdict(b) = "blank"
           /\ c = 1 => Verdict(b) = "unreadable"
           /\ c = 2 => Verdict(b) = "row" /\ b[1].line = rows + 1
<1>1. /\ rows \in Nat /\ rows <= MaxRows /\ m \in 0..rows /\ c \in 0..2 /\ z \in {0, 3}
      /\ pipe \in Seq(Piece) /\ b \in Seq(Piece) /\ Len(b) = Len(pipe) - 3 * m
      /\ Len(pipe) = 3 * rows + c + z
  BY MaxRowsAssumption DEF Piped, Reading
<1>2. \A k \in 1..Len(b) : b[k] = pipe[3 * m + k] /\ b[k].part # "newline"
  BY DEF Reading
<1>3. m = rows
  <2> SUFFICES ASSUME m < rows PROVE FALSE
    BY <1>1
  <2>1. 3 * m + 3 <= Len(pipe) /\ pipe[3 * m + 3] = [line |-> m + 1, part |-> "newline"]
    BY <1>1, LineAt
  <2>2. 3 \in 1..Len(b)
    BY <1>1, <2>1
  <2>3. pipe[3 * m + 3].part = "newline"
    BY <2>1
  <2> QED BY <1>2, <2>2, <2>3
<1>4. z = 0
  <2> SUFFICES ASSUME z = 3 PROVE FALSE
    BY <1>1
  <2> DEFINE k == c + 3
  <2>1. k \in 1..Len(b) /\ 3 * m + k = 3 * rows + c + 3
    BY <1>1, <1>3
  <2>2. pipe[3 * rows + c + 3] = Line(Sentinel)[3]
    BY DEF Piped
  <2>3. Line(Sentinel)[3] = [line |-> Sentinel, part |-> "newline"]
    <3>1. Sentinel \in 0..MaxRows
      BY MaxRowsAssumption DEF Sentinel
    <3> QED BY <3>1, LinePieces
  <2>4. Line(Sentinel)[3].part = "newline"
    BY <2>3
  <2> QED BY <1>2, <2>1, <2>2, <2>4
<1>5. Len(b) = c
  BY <1>1, <1>3, <1>4
<1>6. CASE c = 0
  <2>1. b = <<>>
    BY <1>1, <1>5, <1>6
  <2> QED BY <1>3, <1>4, <1>6, <2>1 DEF Verdict
<1>7. CASE c = 1
  <2>1. b # <<>> /\ Len(b) # 2
    BY <1>1, <1>5, <1>7
  <2>2. ~IsRow(b)
    BY <1>1, <2>1, RowPieces
  <2> QED BY <1>3, <1>4, <1>7, <2>1, <2>2 DEF Verdict
<1>8. CASE c = 2
  <2>1. rows + 1 \in 0..MaxRows
    BY <1>1, <1>8, MaxRowsAssumption DEF Piped
  <2>2. b[1] = pipe[3 * rows + 1] /\ b[2] = pipe[3 * rows + 2]
    BY <1>2, <1>3, <1>5, <1>8
  <2>3. pipe[3 * rows + 1] = Line(rows + 1)[1] /\ pipe[3 * rows + 2] = Line(rows + 1)[2]
    BY <1>8 DEF Piped
  <2>4. /\ b[1] = [line |-> rows + 1, part |-> "head"]
        /\ b[2] = [line |-> rows + 1, part |-> "rest"]
    BY <2>1, <2>2, <2>3, LinePieces
  <2>5. IsRow(b) /\ b # <<>> /\ b[1].line = rows + 1
    BY <1>1, <1>5, <1>8, <2>4, RowPieces
  <2>6. b[1].line # Sentinel
    BY <1>1, <2>5 DEF Sentinel
  <2> QED BY <1>3, <1>4, <1>8, <2>5, <2>6 DEF Verdict
<1> QED BY <1>1, <1>3, <1>4, <1>6, <1>7, <1>8

-----------------------------------------------------------------------------
(* One chunk.                                                              *)

Verdicts == {"none", "blank", "unreadable", "sentinel", "row"}
Taking   == [buffer: Seq(Piece), batch: Seq(0..MaxRows), reason: Verdicts]

\* What is carried from piece to piece keeps its type.
LEMMA TakeTyped ==
    ASSUME NEW acc \in Taking, NEW p \in Piece
    PROVE  Take(acc, p) \in Taking
<1>1. acc.buffer \in Seq(Piece) /\ acc.batch \in Seq(0..MaxRows) /\ acc.reason \in Verdicts
  BY DEF Taking
<1>2. CASE acc.reason # "none"
  BY <1>2 DEF Take
<1>3. CASE acc.reason = "none" /\ p.part # "newline"
  <2>1. Take(acc, p) = [acc EXCEPT !.buffer = Append(acc.buffer, p)]
    BY <1>3, Zenon DEF Take
  <2>2. Append(acc.buffer, p) \in Seq(Piece)
    BY <1>1
  <2> QED BY <2>1, <2>2 DEF Taking
<1>4. CASE acc.reason = "none" /\ p.part = "newline"
  <2> DEFINE v == Verdict(acc.buffer)
  <2>1. v \in Verdicts
    BY DEF Verdict, Verdicts
  <2>2. CASE v = "blank"
    BY <1>4, <2>2 DEF Take
  <2>3. CASE v = "row"
    <3>1. Take(acc, p) = [acc EXCEPT !.buffer = <<>>, !.batch = Append(acc.batch, acc.buffer[1].line)]
      BY <1>4, <2>3 DEF Take
    <3>2. IsRow(acc.buffer)
      BY <2>3 DEF Verdict
    <3>3. acc.buffer[1] \in Piece
      <4>1. Len(acc.buffer) = 2
        BY <1>1, <3>2, RowPieces
      <4>2. 1 \in 1..Len(acc.buffer)
        BY <4>1
      <4> QED BY <1>1, <4>2, ElementOfSeq
    <3>4. acc.buffer[1].line \in 0..MaxRows
      BY <3>3 DEF Piece
    <3>5. Append(acc.batch, acc.buffer[1].line) \in Seq(0..MaxRows) /\ <<>> \in Seq(Piece)
      BY <1>1, <3>4
    <3> QED BY <3>1, <3>5 DEF Taking
  <2>4. CASE v \notin {"blank", "row"}
    <3>1. Take(acc, p) = [acc EXCEPT !.reason = v]
      BY <1>4, <2>4 DEF Take
    <3> QED BY <2>1, <3>1 DEF Taking
  <2> QED BY <2>2, <2>3, <2>4
<1> QED BY <1>2, <1>3, <1>4

Begun == [buffer |-> buffer, batch |-> <<>>, reason |-> "none"]

\* The loop over a chunk takes one piece at a time.
LEMMA ChunkTakes ==
    ASSUME buffer \in Seq(Piece), NEW pieces \in Seq(Piece)
    PROVE  \E f \in [0..Len(pieces) -> Taking] :
                /\ f[0] = Begun
                /\ \A j \in 1..Len(pieces) : f[j] = Take(f[j - 1], pieces[j])
                /\ Chunk(pieces) = f[Len(pieces)]
<1> DEFINE n == Len(pieces)
           turn == [q \in Taking \X (1..n) |-> Take(q[1], pieces[q[2]])]
           Listed(f) == f = [j \in 0..n |-> IF j = 0 THEN Begun ELSE Take(f[j - 1], pieces[j])]
           L == CHOOSE f : Listed(f)
<1>1. n \in Nat
  OBVIOUS
<1>2. Chunk(pieces) = L[n]
  BY DEF Chunk, Begun
<1>3. Begun \in Taking
  <2>1. <<>> \in Seq(0..MaxRows) /\ "none" \in Verdicts
    BY DEF Verdicts
  <2> QED BY <2>1 DEF Begun, Taking
<1>4. turn \in [Taking \X (1..n) -> Taking]
  <2>1. ASSUME NEW a \in Taking, NEW j \in 1..n PROVE Take(a, pieces[j]) \in Taking
    <3>1. pieces[j] \in Piece
      OBVIOUS
    <3> QED BY <3>1, TakeTyped
  <2> HIDE DEF n
  <2> QED BY <2>1
<1>5. PICK f \in [0..n -> Taking] : f[0] = Begun /\ \A j \in 1..n : f[j] = turn[<<f[j - 1], j>>]
  <2>1. \E f : RunOf(f, Taking, Begun, n, turn)
    <3> HIDE DEF turn, n
    <3> QED BY <1>1, <1>3, <1>4, LoopRuns, Zenon
  <2> HIDE DEF turn
  <2> QED BY <2>1 DEF RunOf
<1>6. ASSUME NEW g \in [0..n -> Taking], NEW j \in 1..n
      PROVE  turn[<<g[j - 1], j>>] = Take(g[j - 1], pieces[j])
  <2>1. g[j - 1] \in Taking
    BY <1>1
  <2> HIDE DEF n
  <2> QED BY <2>1
<1>7. Listed(f)
  <2>1. ASSUME NEW j \in 0..n
        PROVE  f[j] = IF j = 0 THEN Begun ELSE Take(f[j - 1], pieces[j])
    <3>1. CASE j = 0
      BY <1>5, <3>1
    <3>2. CASE j # 0
      <4>1. j \in 1..n
        BY <1>1, <3>2
      <4>2. f[j] = turn[<<f[j - 1], j>>]
        BY <1>5, <4>1
      <4>3. turn[<<f[j - 1], j>>] = Take(f[j - 1], pieces[j])
        BY <1>6, <4>1
      <4> QED BY <3>2, <4>2, <4>3
    <3> QED BY <3>1, <3>2
  <2> HIDE DEF n, turn
  <2> QED BY <2>1
<1>8. Listed(L)
  <2> HIDE DEF Listed
  <2> QED BY <1>7, Zenon
<1>9. /\ L[0] = Begun
      /\ \A j \in 1..n : L[j] = Take(L[j - 1], pieces[j])
  <2> HIDE DEF L, turn
  <2>1. ASSUME NEW j \in 0..n
        PROVE  L[j] = IF j = 0 THEN Begun ELSE Take(L[j - 1], pieces[j])
    <3> HIDE DEF n
    <3> QED BY <1>8, Zenon
  <2>2. 0 \in 0..n /\ \A j \in 1..n : j \in 0..n /\ j # 0
    BY <1>1
  <2> HIDE DEF n
  <2> QED BY <2>1, <2>2
<1>10. L \in [0..n -> Taking]
  <2> HIDE DEF L, turn
  <2> DEFINE S == {j \in 0..n : L[j] \in Taking}
  <2>1. 0 \in S
    BY <1>1, <1>3, <1>9
  <2>2. ASSUME NEW j \in 1..n, j - 1 \in S PROVE j \in S
    <3>1. L[j - 1] \in Taking /\ pieces[j] \in Piece /\ L[j] = Take(L[j - 1], pieces[j])
      BY <1>9, <2>2
    <3>2. L[j] \in Taking
      BY <3>1, TakeTyped
    <3> QED BY <1>1, <3>2
  <2>3. \A j \in 0..n : j \in S
    <3> HIDE DEF S, n
    <3> QED BY <1>1, <2>1, <2>2, EveryTurn, Zenon
  <2>4. L = [j \in 0..n |-> IF j = 0 THEN Begun ELSE Take(L[j - 1], pieces[j])]
    BY <1>8, Zenon
  <2> HIDE DEF n
  <2> QED BY <2>3, <2>4
<1> HIDE DEF L, turn
<1> QED BY <1>2, <1>9, <1>10

\* After j pieces of a chunk nothing has failed: the batch goes on from the rows
\* shown, and the buffer from the batch.
Advanced(m, acc, j) ==
    /\ \A i \in 1..Len(acc.batch) : acc.batch[i] = m + i
    /\ Reading(m + Len(acc.batch), acc.buffer, got + j)

\* One piece keeps it so.
LEMMA PieceAdvances ==
    ASSUME NEW c, NEW z, Piped(c, z), NEW m \in Nat, got \in Nat, NEW j \in Nat, NEW acc \in Taking,
           acc.reason = "none", Advanced(m, acc, j), got + j < Len(pipe)
    PROVE  LET next == Take(acc, pipe[got + j + 1])
           IN \/ next.reason = "none" /\ Advanced(m, next, j + 1)
              \/ next.reason \in {"unreadable", "sentinel"}
<1> DEFINE p == pipe[got + j + 1]
           next == Take(acc, p)
           d == Len(acc.batch)
           b == acc.buffer
<1>1. /\ acc.buffer \in Seq(Piece) /\ acc.batch \in Seq(0..MaxRows) /\ d \in Nat
      /\ got + j + 1 = (got + j) + 1 /\ got + (j + 1) = (got + j) + 1
  BY DEF Taking
<1>2. Reading(m + d, b, got + j) /\ \A i \in 1..d : acc.batch[i] = m + i
  BY DEF Advanced
<1>3. CASE p.part # "newline"
  <2>1. next = [acc EXCEPT !.buffer = Append(b, p)]
    BY <1>3, Zenon DEF Take
  <2>2. Reading(m + d, Append(b, p), (got + j) + 1)
    <3>1. p = pipe[(got + j) + 1]
      BY <1>1
    <3> HIDE DEF d, b, p
    <3> QED BY <1>2, <1>3, <3>1, PieceRead
  <2>3. next.reason = "none" /\ next.batch = acc.batch /\ next.buffer = Append(b, p)
    BY <2>1 DEF Taking
  <2>4. Advanced(m, next, j + 1)
    <3> HIDE DEF next, p
    <3> QED BY <1>1, <1>2, <2>2, <2>3 DEF Advanced
  <2> QED BY <2>3, <2>4
<1>4. CASE p.part = "newline"
  <2>1. \/ Verdict(b) = "row" /\ b[1].line = (m + d) + 1 /\ Reading((m + d) + 1, <<>>, (got + j) + 1)
        \/ Verdict(b) \in {"unreadable", "sentinel"}
    <3>1. p = pipe[(got + j) + 1]
      BY <1>1
    <3> HIDE DEF d, b, p
    <3> QED BY <1>2, <1>4, <3>1, NewlineRead
  <2>2. CASE Verdict(b) = "row" /\ b[1].line = (m + d) + 1 /\ Reading((m + d) + 1, <<>>, (got + j) + 1)
    <3>1. next = [acc EXCEPT !.buffer = <<>>, !.batch = Append(acc.batch, b[1].line)]
      BY <1>4, <2>2 DEF Take
    <3>2. next.reason = "none" /\ next.buffer = <<>> /\ next.batch = Append(acc.batch, b[1].line)
      BY <3>1 DEF Taking
    <3>3. b[1].line \in 0..MaxRows
      <4>1. next \in Taking
        <5>1. p \in Piece
          BY <1>1 DEF Piped
        <5> QED BY <5>1, TakeTyped
      <4>2. next.batch \in Seq(0..MaxRows)
        BY <4>1 DEF Taking
      <4>3. (m + d) + 1 \in 0..rows /\ rows \in 0..MaxRows
        BY <2>2 DEF Piped, Reading
      <4> HIDE DEF d, b
      <4> QED BY <2>2, <4>3, MaxRowsAssumption
    <3> DEFINE t == Append(acc.batch, b[1].line)
    <3>4. Len(t) = d + 1 /\ t[d + 1] = b[1].line /\ \A i \in 1..d : t[i] = acc.batch[i]
      BY <1>1, <3>3
    <3>5. \A i \in 1..Len(t) : t[i] = m + i
      <4> SUFFICES ASSUME NEW i \in 1..Len(t) PROVE t[i] = m + i
        OBVIOUS
      <4> HIDE DEF t, d, b
      <4>1. CASE i = d + 1
        <5>1. t[i] = (m + d) + 1
          BY <2>2, <3>4, <4>1
        <5>2. (m + d) + 1 = m + (d + 1)
          BY <1>1
        <5> QED BY <4>1, <5>1, <5>2
      <4>2. CASE i # d + 1
        <5>1. i \in 1..d
          BY <1>1, <3>4, <4>2
        <5> QED BY <1>2, <3>4, <5>1
      <4> QED BY <4>1, <4>2
    <3>6. Reading(m + Len(t), <<>>, got + (j + 1))
      <4>1. m + Len(t) = (m + d) + 1
        <5> HIDE DEF t, d
        <5> QED BY <1>1, <3>4
      <4> QED BY <1>1, <2>2, <4>1
    <3>7. Advanced(m, next, j + 1)
      <4> HIDE DEF next
      <4> QED BY <3>2, <3>5, <3>6 DEF Advanced
    <3> QED BY <3>2, <3>7
  <2>3. CASE Verdict(b) \in {"unreadable", "sentinel"}
    <3>1. next = [acc EXCEPT !.reason = Verdict(b)]
      BY <1>4, <2>3 DEF Take
    <3>2. next.reason = Verdict(b)
      BY <3>1 DEF Taking
    <3> QED BY <2>3, <3>2
  <2> QED BY <2>1, <2>2, <2>3
<1> QED BY <1>3, <1>4

\* A chunk of any size is read line by line, as far as it does not fail.
LEMMA ChunkReads ==
    ASSUME NEW c, NEW z, Piped(c, z), NEW m \in Nat, Reading(m, buffer, got), NEW n \in Nat,
           got + n <= Len(pipe)
    PROVE  LET read == Chunk(SubSeq(pipe, got + 1, got + n))
           IN \/ read.reason = "none" /\ read.batch \in Seq(0..MaxRows) /\ Advanced(m, read, n)
              \/ read.reason \in {"unreadable", "sentinel"}
<1> DEFINE s == SubSeq(pipe, got + 1, got + n)
<1>1. got \in Nat /\ buffer \in Seq(Piece) /\ pipe \in Seq(Piece) /\ Len(pipe) \in Nat
  BY DEF Reading, Piped
<1>2. s \in Seq(Piece) /\ Len(s) = n /\ \A j \in 1..n : s[j] = pipe[got + j]
  <2>1. \A i \in (got + 1)..(got + n) : pipe[i] \in Piece
    BY <1>1
  <2>2. /\ s \in Seq(Piece)
        /\ Len(s) = IF got + 1 <= got + n THEN (got + n) - (got + 1) + 1 ELSE 0
        /\ \A i \in 1..((got + n) - (got + 1) + 1) : s[i] = pipe[(got + 1) + i - 1]
    <3> HIDE DEF s
    <3>1. got + 1 \in Int /\ got + n \in Int
      BY <1>1
    <3> QED BY <2>1, <3>1, SubSeqProperties DEF s
  <2> HIDE DEF s
  <2> QED BY <1>1, <2>2
<1> HIDE DEF s
<1>3. PICK f \in [0..n -> Taking] :
        f[0] = Begun /\ (\A j \in 1..n : f[j] = Take(f[j - 1], s[j])) /\ Chunk(s) = f[n]
  BY <1>1, <1>2, ChunkTakes
<1> DEFINE S == {j \in 0..n : \/ f[j].reason = "none" /\ Advanced(m, f[j], j)
                              \/ f[j].reason \in {"unreadable", "sentinel"}}
<1>4. 0 \in S
  <2>1. f[0].reason = "none" /\ f[0].batch = <<>> /\ f[0].buffer = buffer
    BY <1>3 DEF Begun
  <2>2. Len(<<>>) = 0 /\ m + 0 = m /\ got + 0 = got
    BY <1>1
  <2>3. Advanced(m, f[0], 0)
    BY <2>1, <2>2 DEF Advanced
  <2> QED BY <2>1, <2>3
<1>5. ASSUME NEW j \in 1..n, j - 1 \in S PROVE j \in S
  <2> DEFINE i == j - 1
             acc == f[i]
  <2>1. i \in 0..n /\ i \in Nat /\ i + 1 = j /\ got + i < Len(pipe) /\ got + i + 1 = got + j
    BY <1>1
  <2>2. acc \in Taking
    BY <1>3, <2>1
  <2>3. f[j] = Take(acc, pipe[got + i + 1])
    BY <1>2, <1>3, <2>1
  <2>4. CASE acc.reason = "none" /\ Advanced(m, acc, i)
    <3>1. \/ f[j].reason = "none" /\ Advanced(m, f[j], i + 1)
          \/ f[j].reason \in {"unreadable", "sentinel"}
      <4> HIDE DEF acc, i
      <4> QED BY <1>1, <2>1, <2>2, <2>3, <2>4, PieceAdvances
    <3> QED BY <2>1, <3>1
  <2>5. CASE acc.reason \in {"unreadable", "sentinel"}
    <3>1. f[j] = acc
      BY <2>3, <2>5 DEF Take
    <3> QED BY <2>5, <3>1
  <2> QED BY <1>5, <2>4, <2>5
<1>6. n \in S
  <2>1. \A j \in 0..n : j \in S
    <3> HIDE DEF S
    <3> QED BY <1>4, <1>5, EveryTurn, Zenon
  <2> QED BY <2>1
<1>7. f[n].batch \in Seq(0..MaxRows)
  BY <1>3 DEF Taking
<1> QED BY <1>3, <1>6, <1>7 DEF s

-----------------------------------------------------------------------------
(* The inductive invariant.                                                *)

\* What the pieces after the rows are there for: the ones of another line,
\* because the body broke off inside it; the sentinel, because something failed;
\* and where there is no sentinel in front of a browser, nothing has.
Excused(c, z) ==
    /\ pc \in {"opening", "pumping", "refused"} => c = 0 /\ z = 0
    /\ pc = "failing" => z = 0
    /\ c > 0 => c = torn /\ body # "open" /\ rows = arrived /\ rows < Limit
    /\ pc = "done" /\ z = 0 /\ peer = "here" =>
        \/ rows = Limit /\ c = 0
        \/ body = "eof" /\ rows = arrived /\ c = torn /\ rows < Limit

ServerInv ==
    /\ torn > 0 => arrived < MaxRows
    /\ body \in {"none", "open"} => torn = 0
    /\ pc = "opening" => body = "none"
    /\ ctx = "canceled" => peer = "gone"
    /\ \E c \in 0..2, z \in {0, 3} : Piped(c, z) /\ Excused(c, z)

\* The rows of the result: a last one may have come without its newline.
WithinResult(n) == n <= Limit /\ n <= arrived + (IF torn = 2 /\ body # "open" THEN 1 ELSE 0)

ClientInv ==
    /\ peer = "gone" => client # "reading"
    /\ client = "reading" => Reading(Len(shown), buffer, got)
    /\ \A i \in 1..Len(shown) : shown[i] = i
    /\ WithinResult(Len(shown))
    /\ client = "ok" => pc = "done"
    /\ NoSilentTruncation

IInv == TypeOK /\ ServerInv /\ ClientInv

LEMMA InvBegins == Init => IInv
<1> SUFFICES ASSUME Init PROVE IInv
  OBVIOUS
<1>1. TypeOK
  <2>1. <<>> \in Seq(Piece) /\ <<>> \in Seq(1..MaxRows) /\ Len(<<>>) = 0
    OBVIOUS
  <2> QED BY <2>1, LimitAssumption, MaxRowsAssumption DEF Init, TypeOK, MaxAge
<1>2. Piped(0, 0)
  <2>1. pipe = <<>> /\ rows = 0 /\ pipe \in Seq(Piece) /\ Len(pipe) = 0
    BY DEF Init
  <2>2. Whole(0)
    BY <2>1 DEF Whole
  <2> QED BY <2>1, <2>2, MaxRowsAssumption DEF Piped
<1>3. ServerInv
  <2>1. Excused(0, 0)
    BY DEF Init, Excused
  <2> QED BY <1>2, <2>1 DEF Init, ServerInv
<1>4. Reading(0, <<>>, 0)
  <2>1. rows = 0 /\ Len(pipe) = 0
    BY DEF Init
  <2> QED BY <2>1 DEF Reading
<1>5. ClientInv
  <2>1. Len(shown) = 0 /\ buffer = <<>> /\ got = 0 /\ peer = "here" /\ client = "reading" /\ arrived = 0
    BY DEF Init
  <2> QED BY <1>4, <2>1, LimitAssumption DEF ClientInv, WithinResult, NoSilentTruncation
<1> QED BY <1>1, <1>3, <1>5 DEF IInv

\* What was read of a response was read of any longer one.
LEMMA ReadingOn ==
    ASSUME pipe' \in Seq(Piece), rows \in Nat, rows' \in Nat, rows <= rows',
           Len(pipe) <= Len(pipe'), Len(pipe) \in Nat,
           \A k \in 1..Len(pipe) : pipe'[k] = pipe[k]
    PROVE  \A m, b, g : Reading(m, b, g) => Reading(m, b, g)'
<1> SUFFICES ASSUME NEW m, NEW b, NEW g, Reading(m, b, g) PROVE Reading(m, b, g)'
  OBVIOUS
<1>1. /\ m \in 0..rows /\ g \in Nat /\ 3 * m <= g /\ g <= Len(pipe)
      /\ b \in Seq(Piece) /\ Len(b) = g - 3 * m
      /\ \A k \in 1..Len(b) : b[k] = pipe[3 * m + k] /\ b[k].part # "newline"
  BY DEF Reading
<1>2. m \in 0..rows' /\ g <= Len(pipe')
  <2>1. Len(pipe') \in Nat
    OBVIOUS
  <2> QED BY <1>1, <2>1
<1>3. ASSUME NEW k \in 1..Len(b) PROVE b[k] = pipe'[3 * m + k]
  <2>1. 3 * m + k \in 1..Len(pipe)
    BY <1>1
  <2> QED BY <1>1, <2>1
<1> QED BY <1>1, <1>2, <1>3 DEF Reading

\* A response that is left alone stays what it is.
LEMMA SamePipe ==
    ASSUME UNCHANGED <<pipe, rows>>
    PROVE  \A c, z : Piped(c, z)' = Piped(c, z)
BY DEF Piped, Whole

\* A result's length is accounted for by what has arrived since.
LEMMA ResultGrows ==
    ASSUME TypeOK, ServerInv, UNCHANGED <<arrived, torn, body>> \/ LineArrives \/ BodyEnds \/ Open
    PROVE  \A n \in Nat : WithinResult(n) => WithinResult(n)'
<1>1. CASE UNCHANGED <<arrived, torn, body>>
  BY <1>1 DEF WithinResult
<1>2. CASE LineArrives
  BY <1>2 DEF WithinResult, LineArrives, TypeOK
<1>3. CASE BodyEnds
  BY <1>3 DEF WithinResult, BodyEnds, TypeOK
<1>4. CASE Open
  <2>1. torn = 0 /\ torn' = 0 /\ arrived' = arrived
    BY <1>4 DEF Open, ServerInv
  <2> QED BY <2>1 DEF WithinResult
<1> QED BY <1>1, <1>2, <1>3, <1>4

\* A browser that does nothing is where it was.
LEMMA ClientKept ==
    ASSUME TypeOK, ClientInv, UNCHANGED <<clientVars, peer>>,
           \A m, b, g : Reading(m, b, g) => Reading(m, b, g)',
           \A n \in Nat : WithinResult(n) => WithinResult(n)',
           pc = "done" => UNCHANGED <<pc, arrived, body, torn>>
    PROVE  ClientInv'
<1>1. /\ peer' = peer /\ client' = client /\ got' = got /\ buffer' = buffer /\ shown' = shown
      /\ Len(shown) \in Nat
  BY DEF clientVars, TypeOK
<1>2. client = "reading" => Reading(Len(shown), buffer, got)'
  <2>1. client = "reading" => Reading(Len(shown), buffer, got)
    BY DEF ClientInv
  <2> QED BY <1>1, <2>1
<1>3. WithinResult(Len(shown))'
  <2>1. WithinResult(Len(shown))
    BY DEF ClientInv
  <2> QED BY <1>1, <2>1
<1>4. NoSilentTruncation'
  <2>1. client = "ok" => pc = "done" /\ UNCHANGED <<arrived, body, torn>>
    BY DEF ClientInv
  <2> QED BY <1>1, <2>1 DEF ClientInv, NoSilentTruncation
<1> QED BY <1>1, <1>2, <1>3, <1>4 DEF ClientInv

\* VictoriaLogs, the clock and net/http.
LEMMA EnvironmentStep ==
    ASSUME IInv, Environment
    PROVE  IInv'
<1>1. TypeOK /\ ServerInv /\ ClientInv
  BY DEF IInv
<1>2. UNCHANGED <<pipe, rows, pc, flushed, clientVars, peer>>
  BY DEF Environment, LineArrives, BodyEnds, Deadline, Canceled, IntervalPasses, serverVars
<1>3. TypeOK'
  <2>1. UNCHANGED <<client, got, buffer, shown, reason>>
    BY <1>2 DEF clientVars
  <2>2. CASE LineArrives
    <3>1. arrived \in 0..MaxRows /\ rows \in 0..Limit /\ rows <= arrived
      BY <1>1 DEF TypeOK
    <3>2. arrived' \in 0..MaxRows /\ rows <= arrived'
      BY <2>2, <3>1, LimitAssumption, MaxRowsAssumption DEF LineArrives
    <3>3. UNCHANGED <<torn, body, ctx, age>>
      BY <2>2 DEF LineArrives, serverVars
    <3> QED BY <1>1, <1>2, <2>1, <3>2, <3>3 DEF TypeOK
  <2>3. CASE BodyEnds
    BY <1>1, <1>2, <2>1, <2>3 DEF BodyEnds, TypeOK, serverVars
  <2>4. CASE Deadline \/ Canceled
    BY <1>1, <1>2, <2>1, <2>4 DEF Deadline, Canceled, TypeOK, serverVars, upVars
  <2>5. CASE IntervalPasses
    BY <1>1, <1>2, <2>1, <2>5 DEF IntervalPasses, TypeOK, upVars, MaxAge
  <2> QED BY <2>2, <2>3, <2>4, <2>5 DEF Environment
<1>4. ServerInv'
  <2>1. PICK c \in 0..2, z \in {0, 3} : Piped(c, z) /\ Excused(c, z)
    BY <1>1 DEF ServerInv
  <2>2. Piped(c, z)'
    BY <1>2, <2>1, SamePipe
  <2>3. Excused(c, z)'
    <3>1. CASE UNCHANGED upVars
      BY <1>2, <2>1, <3>1 DEF Excused, upVars
    <3>2. CASE LineArrives \/ BodyEnds
      <4>1. pc = "pumping"
        BY <3>2 DEF LineArrives, BodyEnds
      <4> QED BY <1>2, <2>1, <4>1 DEF Excused
    <3> QED BY <3>1, <3>2 DEF Environment, Deadline, Canceled, IntervalPasses
  <2>4. (torn > 0 => arrived < MaxRows)' /\ (body \in {"none", "open"} => torn = 0)'
        /\ (pc = "opening" => body = "none")' /\ (ctx = "canceled" => peer = "gone")'
    BY <1>1, <1>2 DEF ServerInv, Environment, LineArrives, BodyEnds, Deadline, Canceled,
                      IntervalPasses, upVars, TypeOK
  <2> QED BY <2>2, <2>3, <2>4 DEF ServerInv
<1>5. ClientInv'
  <2>1. \A m, b, g : Reading(m, b, g) => Reading(m, b, g)'
    BY <1>2 DEF Reading
  <2>2. \A n \in Nat : WithinResult(n) => WithinResult(n)'
    BY <1>1, ResultGrows DEF Environment, Deadline, Canceled, IntervalPasses, upVars
  <2>3. pc = "done" => UNCHANGED <<pc, arrived, body, torn>>
    BY <1>2 DEF Environment, LineArrives, BodyEnds, Deadline, Canceled, IntervalPasses, upVars
  <2> QED BY <1>1, <1>2, <2>1, <2>2, <2>3, ClientKept
<1> QED BY <1>3, <1>4, <1>5 DEF IInv

\* handleQuery where it writes nothing.
LEMMA QuietServerStep ==
    ASSUME IInv, Open \/ Refuse \/ WriteFails \/ LimitReached
    PROVE  IInv'
<1>1. TypeOK /\ ServerInv /\ ClientInv
  BY DEF IInv
<1>2. UNCHANGED <<pipe, rows, arrived, torn, ctx, clientVars, peer>> /\ (Open \/ body' = body)
  BY DEF Open, Refuse, WriteFails, LimitReached, upVars
<1>3. TypeOK'
  <2>1. UNCHANGED <<client, got, buffer, shown, reason>>
    BY <1>2 DEF clientVars
  <2>2. Len(pipe) \in Nat
    BY <1>1 DEF TypeOK
  <2> QED BY <1>1, <1>2, <2>1, <2>2
          DEF Open, Refuse, WriteFails, LimitReached, Finish, TypeOK, MaxAge
<1>4. ServerInv'
  <2>1. PICK c \in 0..2, z \in {0, 3} : Piped(c, z) /\ Excused(c, z)
    BY <1>1 DEF ServerInv
  <2>2. Piped(c, z)'
    BY <1>2, <2>1, SamePipe
  <2>3. Excused(c, z)'
    <3>1. pc \in {"opening", "pumping"} /\ c = 0 /\ z = 0
      BY <2>1 DEF Open, Refuse, WriteFails, LimitReached, Excused
    <3>2. pc' = "done" /\ peer = "here" => rows = Limit
      BY <1>1, LimitAssumption DEF Open, Refuse, WriteFails, LimitReached, TypeOK
    <3>3. pc' \in {"pumping", "refused", "done"}
      BY DEF Open, Refuse, WriteFails, LimitReached, Finish
    <3> QED BY <1>2, <3>1, <3>2, <3>3 DEF Excused
  <2>4. (torn > 0 => arrived < MaxRows)' /\ (body \in {"none", "open"} => torn = 0)'
        /\ (pc = "opening" => body = "none")' /\ (ctx = "canceled" => peer = "gone")'
    BY <1>1, <1>2 DEF ServerInv, Open, Refuse, WriteFails, LimitReached, Finish
  <2> QED BY <2>2, <2>3, <2>4 DEF ServerInv
<1>5. ClientInv'
  <2>1. \A m, b, g : Reading(m, b, g) => Reading(m, b, g)'
    BY <1>2 DEF Reading
  <2>2. \A n \in Nat : WithinResult(n) => WithinResult(n)'
    BY <1>1, <1>2, ResultGrows
  <2>3. pc # "done"
    BY DEF Open, Refuse, WriteFails, LimitReached
  <2> QED BY <1>1, <1>2, <2>1, <2>2, <2>3, ClientKept
<1> QED BY <1>3, <1>4, <1>5 DEF IInv

\* What is written goes behind what there is.
LEMMA PipeGrows ==
    ASSUME pipe \in Seq(Piece), NEW s \in Seq(Piece), pipe' = pipe \o s
    PROVE  /\ pipe' \in Seq(Piece) /\ Len(pipe) \in Nat /\ Len(s) \in Nat
           /\ Len(pipe') = Len(pipe) + Len(s)
           /\ \A k \in 1..Len(pipe) : pipe'[k] = pipe[k]
           /\ \A k \in 1..Len(s) : pipe'[Len(pipe) + k] = s[k]
<1>1. Len(pipe) \in Nat /\ Len(s) \in Nat
  OBVIOUS
<1>2. /\ pipe' \in Seq(Piece)
      /\ Len(pipe') = Len(pipe) + Len(s)
      /\ \A i \in 1..(Len(pipe) + Len(s)) :
            pipe'[i] = IF i <= Len(pipe) THEN pipe[i] ELSE s[i - Len(pipe)]
  BY ConcatProperties
<1>3. ASSUME NEW k \in 1..Len(s) PROVE pipe'[Len(pipe) + k] = s[k]
  <2>1. Len(pipe) + k \in 1..(Len(pipe) + Len(s)) /\ ~(Len(pipe) + k <= Len(pipe))
        /\ Len(pipe) + k - Len(pipe) = k
    BY <1>1
  <2> QED BY <1>2, <2>1
<1> QED BY <1>1, <1>2, <1>3

\* A complete line is forwarded.
LEMMA ForwardStep ==
    ASSUME IInv, Forward
    PROVE  IInv'
<1>1. TypeOK /\ ServerInv /\ ClientInv
  BY DEF IInv
<1>2. UNCHANGED <<pc, arrived, torn, body, ctx, peer, clientVars>> /\ pc = "pumping"
      /\ rows' = rows + 1 /\ pipe' = pipe \o Line(rows + 1)
  BY DEF Forward, upVars
<1>3. Piped(0, 0)
  BY <1>1, <1>2 DEF ServerInv, Excused
<1>4. /\ rows \in Nat /\ rows + 1 \in 0..MaxRows /\ rows + 1 \in 0..Limit /\ rows + 1 <= arrived
      /\ pipe \in Seq(Piece) /\ Len(pipe) = 3 * rows
  <2>1. rows \in 0..Limit /\ arrived \in 0..MaxRows /\ rows < arrived /\ rows < Limit
    BY <1>1 DEF TypeOK, Forward
  <2>2. pipe \in Seq(Piece) /\ Len(pipe) = 3 * rows + 0 + 0
    BY <1>3 DEF Piped
  <2> QED BY <2>1, <2>2, LimitAssumption, MaxRowsAssumption
<1>5. Line(rows + 1) \in Seq(Piece) /\ Len(Line(rows + 1)) = 3
  BY <1>4, LinePieces
<1>6. /\ pipe' \in Seq(Piece) /\ Len(pipe') = 3 * rows + 3
      /\ \A k \in 1..Len(pipe) : pipe'[k] = pipe[k]
      /\ \A k \in 1..3 : pipe'[3 * rows + k] = Line(rows + 1)[k]
  <2> DEFINE s == Line(rows + 1)
  <2>1. s \in Seq(Piece) /\ pipe' = pipe \o s
    BY <1>2, <1>5
  <2> HIDE DEF s
  <2>2. /\ pipe' \in Seq(Piece) /\ Len(pipe') = Len(pipe) + Len(s)
        /\ \A k \in 1..Len(pipe) : pipe'[k] = pipe[k]
        /\ \A k \in 1..Len(s) : pipe'[Len(pipe) + k] = s[k]
    BY <1>4, <2>1, PipeGrows
  <2>3. Len(s) = 3
    BY <1>5 DEF s
  <2>4. /\ pipe' \in Seq(Piece) /\ Len(pipe') = 3 * rows + 3
        /\ \A k \in 1..Len(pipe) : pipe'[k] = pipe[k]
        /\ \A k \in 1..3 : pipe'[3 * rows + k] = s[k]
    BY <1>4, <2>2, <2>3
  <2> QED BY <2>4 DEF s
<1>7. Piped(0, 0)'
  <2>1. \A i \in 1..rows : /\ pipe[3 * i - 2] = Line(i)[1] /\ pipe[3 * i - 1] = Line(i)[2]
                           /\ pipe[3 * i] = Line(i)[3]
    BY <1>3 DEF Piped, Whole
  <2>2. ASSUME NEW i \in 1..(rows + 1)
        PROVE  /\ pipe'[3 * i - 2] = Line(i)[1] /\ pipe'[3 * i - 1] = Line(i)[2]
               /\ pipe'[3 * i] = Line(i)[3]
    <3>1. CASE i = rows + 1
      <4>1. 3 * i - 2 = 3 * rows + 1 /\ 3 * i - 1 = 3 * rows + 2 /\ 3 * i = 3 * rows + 3
        BY <1>4, <3>1
      <4> QED BY <1>6, <3>1, <4>1
    <3>2. CASE i # rows + 1
      <4>1. /\ i \in 1..rows /\ 3 * i - 2 \in 1..Len(pipe) /\ 3 * i - 1 \in 1..Len(pipe)
            /\ 3 * i \in 1..Len(pipe)
        BY <1>4, <3>2
      <4> QED BY <1>6, <2>1, <4>1
    <3> QED BY <3>1, <3>2
  <2>3. 3 * rows' <= Len(pipe')
    BY <1>2, <1>4, <1>6
  <2>4. Len(pipe') = 3 * rows' + 0 + 0
    BY <1>2, <1>4, <1>6
  <2>5. rows' \in 0..MaxRows
    BY <1>2, <1>4
  <2>6. Whole(rows)'
    BY <1>2, <2>2, <2>3 DEF Whole
  <2> QED BY <1>6, <2>4, <2>5, <2>6 DEF Piped
<1>8. ServerInv'
  <2>1. Excused(0, 0)'
    BY <1>2 DEF Excused
  <2> QED BY <1>1, <1>2, <1>7, <2>1 DEF ServerInv
<1>9. TypeOK'
  <2>1. flushed \in 0..Len(pipe) /\ got \in 0..flushed /\ age \in 0..MaxAge
    BY <1>1 DEF TypeOK
  <2>2. flushed' \in 0..Len(pipe') /\ got \in 0..flushed' /\ age' \in 0..MaxAge
    <3>1. flushed' \in {flushed, Len(pipe')} /\ age' \in {age, 0}
      BY DEF Forward
    <3> QED BY <1>4, <1>6, <2>1, <3>1 DEF MaxAge
  <2>3. UNCHANGED <<client, got, buffer, shown, reason>>
    BY <1>2 DEF clientVars
  <2> QED BY <1>1, <1>2, <1>4, <1>6, <2>2, <2>3 DEF TypeOK
<1>10. ClientInv'
  <2>1. \A m, b, g : Reading(m, b, g) => Reading(m, b, g)'
    <3>1. rows' \in Nat /\ rows <= rows' /\ Len(pipe) <= Len(pipe') /\ Len(pipe) \in Nat
      BY <1>2, <1>4, <1>6
    <3> QED BY <1>4, <1>6, <3>1, ReadingOn
  <2>2. \A n \in Nat : WithinResult(n) => WithinResult(n)'
    BY <1>1, <1>2, ResultGrows
  <2> QED BY <1>1, <1>2, <2>1, <2>2, ClientKept
<1> QED BY <1>8, <1>9, <1>10 DEF IInv

\* Whole lines stay whole when something goes behind them.
LEMMA WholeOn ==
    ASSUME UNCHANGED rows, rows \in Nat, Len(pipe) \in Nat, Len(pipe') \in Nat, Len(pipe) <= Len(pipe'),
           \A k \in 1..Len(pipe) : pipe'[k] = pipe[k], Whole(rows)
    PROVE  Whole(rows)'
<1>1. 3 * rows <= Len(pipe)
  BY DEF Whole
<1>2. \A i \in 1..rows : /\ 3 * i - 2 \in 1..Len(pipe) /\ 3 * i - 1 \in 1..Len(pipe)
                         /\ 3 * i \in 1..Len(pipe)
  BY <1>1
<1>3. \A i \in 1..rows : /\ pipe'[3 * i - 2] = Line(i)[1] /\ pipe'[3 * i - 1] = Line(i)[2]
                         /\ pipe'[3 * i] = Line(i)[3]
  BY <1>2 DEF Whole
<1>4. 3 * rows' <= Len(pipe')
  BY <1>1
<1> QED BY <1>3, <1>4 DEF Whole

\* More of one line goes behind the rows: Piped with other pieces at its end.
LEMMA TailWritten ==
    ASSUME IInv, NEW s \in Seq(Piece), pipe' = pipe \o s,
           UNCHANGED <<rows, arrived, torn, body, ctx, age, clientVars, peer>>,
           NEW c \in 0..2, NEW z \in {0, 3},
           Piped(c, z)', Excused(c, z)', pc \in {"pumping", "failing"}, pc' \in {"failing", "done"},
           flushed' = Len(pipe')
    PROVE  IInv'
<1>1. TypeOK /\ ServerInv /\ ClientInv
  BY DEF IInv
<1>2. /\ pipe' \in Seq(Piece) /\ Len(pipe) \in Nat /\ Len(s) \in Nat
      /\ Len(pipe') = Len(pipe) + Len(s)
      /\ \A k \in 1..Len(pipe) : pipe'[k] = pipe[k]
  BY <1>1, PipeGrows DEF TypeOK
<1>3. ServerInv'
  BY <1>1 DEF ServerInv
<1>4. TypeOK'
  <2>1. UNCHANGED <<client, got, buffer, shown, reason>>
    BY DEF clientVars
  <2>2. flushed' \in 0..Len(pipe') /\ got \in 0..flushed'
    BY <1>1, <1>2 DEF TypeOK
  <2> QED BY <1>1, <1>2, <2>1, <2>2 DEF TypeOK
<1>5. ClientInv'
  <2>1. \A m, b, g : Reading(m, b, g) => Reading(m, b, g)'
    <3>1. rows \in Nat /\ rows' \in Nat /\ rows <= rows' /\ Len(pipe) <= Len(pipe')
      BY <1>1, <1>2, LimitAssumption DEF TypeOK
    <3> QED BY <1>2, <3>1, ReadingOn
  <2>2. \A n \in Nat : WithinResult(n) => WithinResult(n)'
    BY <1>1, ResultGrows
  <2> QED BY <1>1, <2>1, <2>2, ClientKept
<1> QED BY <1>3, <1>4, <1>5 DEF IInv

\* The end of the body: what there is of one more line is forwarded.
LEMMA ForwardLastStep ==
    ASSUME IInv, ForwardLast
    PROVE  IInv'
<1>1. TypeOK /\ ServerInv /\ ClientInv
  BY DEF IInv
<1>2. /\ pc = "pumping" /\ rows < Limit /\ rows = arrived /\ body \in {"eof", "failed"}
      /\ UNCHANGED <<rows, arrived, torn, body, ctx, age, clientVars, peer>>
      /\ pipe' = pipe \o SubSeq(Line(rows + 1), 1, torn)
      /\ flushed' = Len(pipe')
      /\ pc' = IF body = "eof" THEN "done" ELSE "failing"
  BY DEF ForwardLast, Finish, upVars
<1>3. Piped(0, 0)
  BY <1>1, <1>2 DEF ServerInv, Excused
<1>4. /\ rows \in 0..MaxRows /\ rows \in Nat /\ torn \in 0..2 /\ pipe \in Seq(Piece)
      /\ Len(pipe) = 3 * rows /\ (torn > 0 => rows < MaxRows)
  <2>1. rows \in 0..MaxRows /\ pipe \in Seq(Piece) /\ Len(pipe) = 3 * rows + 0 + 0
    BY <1>3 DEF Piped
  <2>2. torn \in 0..2 /\ (torn > 0 => rows < MaxRows)
    BY <1>1, <1>2 DEF TypeOK, ServerInv
  <2> QED BY <2>1, <2>2, MaxRowsAssumption
<1> DEFINE s == SubSeq(Line(rows + 1), 1, torn)
<1>5. s \in Seq(Piece) /\ Len(s) = torn /\ \A k \in 1..torn : s[k] = Line(rows + 1)[k]
  <2>1. CASE torn > 0
    <3>1. rows + 1 \in 0..MaxRows
      BY <1>4, <2>1, MaxRowsAssumption
    <3> QED BY <1>4, <3>1, LineStart
  <2>2. CASE torn = 0
    <3>1. s = <<>>
      BY <2>2, SubSeqEmpty
    <3> HIDE DEF s
    <3> QED BY <2>2, <3>1
  <2> QED BY <1>4, <2>1, <2>2
<1> HIDE DEF s
<1>6. pipe' = pipe \o s
  BY <1>2 DEF s
<1>7. /\ pipe' \in Seq(Piece) /\ Len(pipe') = 3 * rows + torn
      /\ \A k \in 1..Len(pipe) : pipe'[k] = pipe[k]
      /\ \A k \in 1..torn : pipe'[3 * rows + k] = Line(rows + 1)[k]
  <2>1. /\ pipe' \in Seq(Piece) /\ Len(pipe') = Len(pipe) + Len(s)
        /\ \A k \in 1..Len(pipe) : pipe'[k] = pipe[k]
        /\ \A k \in 1..Len(s) : pipe'[Len(pipe) + k] = s[k]
    BY <1>4, <1>5, <1>6, PipeGrows
  <2> QED BY <1>4, <1>5, <2>1
<1>8. Piped(torn, 0)'
  <2>1. Whole(rows)'
    <3>1. Len(pipe) \in Nat /\ Len(pipe') \in Nat /\ Len(pipe) <= Len(pipe') /\ rows' = rows
      BY <1>2, <1>4, <1>7
    <3>2. Whole(rows)
      BY <1>3 DEF Piped
    <3> QED BY <1>4, <1>7, <3>1, <3>2, WholeOn
  <2>2. Len(pipe') = 3 * rows' + torn' + 0
    BY <1>2, <1>4, <1>7
  <2> QED BY <1>2, <1>4, <1>7, <2>1, <2>2 DEF Piped
<1>9. Excused(torn, 0)'
  BY <1>2 DEF Excused
<1>10. PICK c \in 0..2 : c = torn
  BY <1>4
<1>11. Piped(c, 0)' /\ Excused(c, 0)'
  <2>1. torn' = c
    BY <1>2, <1>10
  <2> QED BY <1>8, <1>9, <2>1
<1>12. pc' \in {"failing", "done"}
  BY <1>2
<1> QED BY <1>2, <1>5, <1>6, <1>11, <1>12, TailWritten

\* What failed is said to whoever is still there.
LEMMA StreamFailedStep ==
    ASSUME IInv, StreamFailed
    PROVE  IInv'
<1>1. TypeOK /\ ServerInv /\ ClientInv
  BY DEF IInv
<1>2. /\ pc = "failing" /\ pc' = "done" /\ flushed' = Len(pipe')
      /\ UNCHANGED <<rows, arrived, torn, body, ctx, age, clientVars, peer>>
  BY DEF StreamFailed, Finish, upVars
<1>3. PICK c \in 0..2 : Piped(c, 0) /\ Excused(c, 0)
  BY <1>1, <1>2 DEF ServerInv, Excused
<1>4. /\ pipe \in Seq(Piece) /\ Len(pipe) = 3 * rows + c /\ rows \in Nat /\ Len(pipe) \in Nat
  <2>1. /\ pipe \in Seq(Piece) /\ Len(pipe) = 3 * rows + c + 0 /\ rows \in 0..MaxRows
    BY <1>3 DEF Piped
  <2> QED BY <2>1, MaxRowsAssumption
<1>5. CASE ctx = "canceled"
  <2>1. pipe' = pipe /\ peer = "gone"
    BY <1>1, <1>5 DEF StreamFailed, ServerInv
  <2>2. pipe' = pipe \o <<>> /\ <<>> \in Seq(Piece)
    BY <1>4, <2>1, ConcatEmptySeq
  <2>3. Piped(c, 0)'
    BY <1>2, <1>3, <2>1, SamePipe
  <2>4. Excused(c, 0)'
    BY <1>2, <1>3, <2>1 DEF Excused
  <2> QED BY <1>2, <2>2, <2>3, <2>4, TailWritten
<1>6. CASE ctx # "canceled"
  <2> DEFINE s == Line(Sentinel)
  <2>1. pipe' = pipe \o s
    BY <1>6 DEF StreamFailed
  <2>2. s \in Seq(Piece) /\ Len(s) = 3
    <3>1. Sentinel \in 0..MaxRows
      BY MaxRowsAssumption DEF Sentinel
    <3> QED BY <3>1, LinePieces
  <2> HIDE DEF s
  <2>3. /\ pipe' \in Seq(Piece) /\ Len(pipe') = 3 * rows + c + 3
        /\ \A k \in 1..Len(pipe) : pipe'[k] = pipe[k]
        /\ \A k \in 1..3 : pipe'[3 * rows + c + k] = s[k]
    <3>1. /\ pipe' \in Seq(Piece) /\ Len(pipe') = Len(pipe) + Len(s)
          /\ \A k \in 1..Len(pipe) : pipe'[k] = pipe[k]
          /\ \A k \in 1..Len(s) : pipe'[Len(pipe) + k] = s[k]
      BY <1>4, <2>1, <2>2, PipeGrows
    <3> QED BY <1>4, <2>2, <3>1
  <2>4. Piped(c, 3)'
    <3>1. Whole(rows)'
      <4>1. Len(pipe') \in Nat /\ Len(pipe) <= Len(pipe') /\ rows' = rows
        BY <1>2, <1>4, <2>3
      <4>2. Whole(rows)
        BY <1>3 DEF Piped
      <4> QED BY <1>4, <2>3, <4>1, <4>2, WholeOn
    <3>2. ASSUME NEW k \in 1..c PROVE pipe'[3 * rows + k] = Line(rows + 1)[k]
      <4>1. 3 * rows + k \in 1..Len(pipe)
        BY <1>4
      <4> QED BY <1>3, <2>3, <4>1 DEF Piped
    <3>3. \A k \in 1..3 : pipe'[3 * rows + c + k] = Line(Sentinel)[k]
      BY <2>3 DEF s
    <3>4. rows \in 0..MaxRows /\ (c > 0 => rows < MaxRows)
      BY <1>3 DEF Piped
    <3>5. Len(pipe') = 3 * rows' + c + 3
      BY <1>2, <2>3
    <3> QED BY <1>2, <2>3, <3>1, <3>2, <3>3, <3>4, <3>5 DEF Piped
  <2>5. Excused(c, 3)'
    BY <1>2, <1>3 DEF Excused
  <2> QED BY <1>2, <2>1, <2>2, <2>4, <2>5, TailWritten
<1> QED BY <1>5, <1>6

\* A chunk that is read.
LEMMA ReadChunkStep ==
    ASSUME IInv, ReadChunk
    PROVE  IInv'
<1>1. TypeOK /\ ServerInv /\ ClientInv
  BY DEF IInv
<1>2. UNCHANGED <<arrived, torn, body, ctx, pc, rows, pipe, flushed, age>>
      /\ client = "reading" /\ peer = "here"
  BY DEF ReadChunk, upVars, serverVars
<1>3. PICK c \in 0..2, z \in {0, 3} : Piped(c, z) /\ Excused(c, z)
  BY <1>1 DEF ServerInv
<1>4. PICK n \in 1..flushed - got :
        LET read == Chunk(SubSeq(pipe, got + 1, got + n))
        IN  /\ got' = got + n
            /\ IF read.reason = "none"
               THEN /\ shown' = shown \o read.batch
                    /\ buffer' = read.buffer
                    /\ UNCHANGED <<client, reason, peer>>
               ELSE /\ client' = "failed" /\ reason' = read.reason
                    /\ peer' = "gone"
                    /\ UNCHANGED <<shown, buffer>>
  BY DEF ReadChunk
<1> DEFINE read == Chunk(SubSeq(pipe, got + 1, got + n))
           m == Len(shown)
<1>5. /\ got \in Nat /\ flushed \in 0..Len(pipe) /\ n \in Nat /\ got + n \in 0..flushed
      /\ got + n <= Len(pipe) /\ m \in Nat /\ Len(pipe) \in Nat /\ shown \in Seq(1..MaxRows)
  <2>1. flushed \in 0..Len(pipe) /\ got \in 0..flushed /\ shown \in Seq(1..MaxRows) /\ pipe \in Seq(Piece)
    BY <1>1 DEF TypeOK
  <2>2. Len(pipe) \in Nat /\ m \in Nat
    BY <2>1
  <2> QED BY <2>1, <2>2
<1>6. Reading(m, buffer, got) /\ (\A i \in 1..m : shown[i] = i) /\ WithinResult(m)
  BY <1>1, <1>2 DEF ClientInv
<1>7. \/ read.reason = "none" /\ read.batch \in Seq(0..MaxRows) /\ Advanced(m, read, n)
      \/ read.reason \in {"unreadable", "sentinel"}
  <2> HIDE DEF m
  <2> QED BY <1>3, <1>5, <1>6, ChunkReads
<1> HIDE DEF read
<1>8. ServerInv'
  <2>1. Piped(c, z)'
    BY <1>2, <1>3, SamePipe
  <2>2. peer' = "here" => peer = "here"
    BY <1>2
  <2>3. Excused(c, z)'
    BY <1>2, <1>3, <2>2 DEF Excused
  <2>4. ctx' # "canceled"
    BY <1>1, <1>2 DEF ServerInv
  <2> QED BY <1>1, <1>2, <2>1, <2>3, <2>4 DEF ServerInv
<1>9. CASE read.reason = "none"
  <2> DEFINE d == Len(read.batch)
             t == shown \o read.batch
  <2>1. /\ got' = got + n /\ shown' = t /\ buffer' = read.buffer
        /\ UNCHANGED <<client, reason, peer>>
    BY <1>4, <1>9 DEF read
  <2>2. /\ read.batch \in Seq(0..MaxRows) /\ d \in Nat
        /\ \A i \in 1..d : read.batch[i] = m + i
        /\ Reading(m + d, read.buffer, got + n)
    BY <1>7, <1>9 DEF Advanced
  <2>3. m + d \in 0..rows /\ read.buffer \in Seq(Piece)
    BY <2>2 DEF Reading
  <2>4. rows \in 0..Limit /\ rows <= arrived /\ arrived \in 0..MaxRows
    BY <1>1 DEF TypeOK
  <2>5. /\ t \in Seq(0..MaxRows) /\ Len(t) = m + d
        /\ \A i \in 1..(m + d) : t[i] = IF i <= m THEN shown[i] ELSE read.batch[i - m]
    <3>1. shown \in Seq(0..MaxRows)
      <4>1. 1..MaxRows \subseteq 0..MaxRows
        OBVIOUS
      <4> QED BY <1>5, <4>1, SeqMonotonic
    <3> QED BY <2>2, <3>1, ConcatProperties
  <2> HIDE DEF t
  <2>6. \A i \in 1..(m + d) : t[i] = i
    <3> SUFFICES ASSUME NEW i \in 1..(m + d) PROVE t[i] = i
      OBVIOUS
    <3> HIDE DEF m, d
    <3>1. CASE i <= m
      <4>1. i \in 1..m
        BY <3>1
      <4> QED BY <1>6, <2>5, <3>1, <4>1
    <3>2. CASE ~(i <= m)
      <4>1. i - m \in 1..d /\ m + (i - m) = i
        BY <1>5, <2>2, <3>2
      <4>2. read.batch[i - m] = m + (i - m)
        BY <2>2, <4>1
      <4> QED BY <2>5, <3>2, <4>1, <4>2
    <3> QED BY <3>1, <3>2
  <2>7. t \in Seq(1..MaxRows)
    <3>1. \A i \in 1..Len(t) : t[i] \in 1..MaxRows
      <4> HIDE DEF m, d
      <4> QED BY <1>5, <2>2, <2>3, <2>4, <2>5, <2>6, MaxRowsAssumption, LimitAssumption
    <3>2. Len(t) \in Nat /\ t \in [1..Len(t) -> 0..MaxRows]
      <4>1. t \in Seq(0..MaxRows)
        BY <2>5
      <4> QED BY <4>1, LenProperties
    <3>3. t \in [1..Len(t) -> 1..MaxRows]
      BY <3>1, <3>2
    <3> QED BY <3>2, <3>3, SeqDef
  <2>8. TypeOK'
    <3>1. buffer' \in Seq(Piece) /\ shown' \in Seq(1..MaxRows) /\ got' \in 0..flushed'
      BY <1>2, <1>5, <2>1, <2>3, <2>7
    <3> QED BY <1>1, <1>2, <2>1, <3>1 DEF TypeOK
  <2>9. ClientInv'
    <3>1. Reading(Len(shown), buffer, got)'
      <4>1. Len(shown') = m + d
        BY <2>1, <2>5
      <4>2. UNCHANGED <<pipe, rows>>
        BY <1>2
      <4> HIDE DEF m, d
      <4> QED BY <2>1, <2>2, <4>1, <4>2 DEF Reading
    <3>2. \A i \in 1..Len(shown') : shown'[i] = i
      BY <2>1, <2>5, <2>6
    <3>3. WithinResult(Len(shown))'
      <4>1. Len(shown') \in Nat /\ Len(shown') <= rows
        BY <2>1, <2>3, <2>4, <2>5
      <4> HIDE DEF m, d
      <4> QED BY <1>2, <2>4, <4>1, LimitAssumption, MaxRowsAssumption DEF WithinResult
    <3>4. client' = "reading" /\ peer' = "here"
      BY <1>2, <2>1
    <3> QED BY <3>1, <3>2, <3>3, <3>4 DEF ClientInv, NoSilentTruncation
  <2> QED BY <1>8, <2>8, <2>9 DEF IInv
<1>10. CASE read.reason # "none"
  <2>1. /\ got' = got + n /\ client' = "failed" /\ reason' = read.reason /\ peer' = "gone"
        /\ UNCHANGED <<shown, buffer>>
    BY <1>4, <1>10 DEF read
  <2>2. TypeOK'
    <3>1. got' \in 0..flushed'
      BY <1>2, <1>5, <2>1
    <3> QED BY <1>1, <1>2, <1>7, <1>10, <2>1, <3>1 DEF TypeOK
  <2>3. ClientInv'
    <3>1. WithinResult(Len(shown))'
      BY <1>2, <1>6, <2>1 DEF WithinResult
    <3> QED BY <1>6, <2>1, <3>1 DEF ClientInv, NoSilentTruncation
  <2> QED BY <1>8, <2>2, <2>3 DEF IInv
<1> QED BY <1>9, <1>10

\* The end of the response.
LEMMA ReadEndStep ==
    ASSUME IInv, ReadEnd
    PROVE  IInv'
<1>1. TypeOK /\ ServerInv /\ ClientInv
  BY DEF IInv
<1>2. /\ UNCHANGED <<arrived, torn, body, ctx, peer, pc, rows, pipe, flushed, age, got>>
      /\ client = "reading" /\ peer = "here" /\ pc = "done" /\ got = Len(pipe) /\ buffer' = <<>>
  BY DEF ReadEnd, upVars, serverVars
<1>3. PICK c \in 0..2, z \in {0, 3} : Piped(c, z) /\ Excused(c, z)
  BY <1>1 DEF ServerInv
<1> DEFINE m == Len(shown)
<1>4. Reading(m, buffer, Len(pipe)) /\ (\A i \in 1..m : shown[i] = i) /\ WithinResult(m)
  BY <1>1, <1>2 DEF ClientInv
<1>5. /\ m = rows /\ z = 0
      /\ c = 0 => Verdict(buffer) = "blank"
      /\ c = 1 => Verdict(buffer) = "unreadable"
      /\ c = 2 => Verdict(buffer) = "row" /\ buffer[1].line = rows + 1
  <2> HIDE DEF m
  <2> QED BY <1>3, <1>4, EndRead
<1>6. \/ rows = Limit /\ c = 0
      \/ body = "eof" /\ rows = arrived /\ c = torn /\ rows < Limit
  BY <1>2, <1>3, <1>5 DEF Excused
<1>7. ServerInv'
  <2>1. Piped(c, z)' /\ Excused(c, z)'
    BY <1>2, <1>3, SamePipe DEF Excused
  <2> QED BY <1>1, <1>2, <2>1 DEF ServerInv
<1>8. /\ shown \in Seq(1..MaxRows) /\ m \in Nat /\ rows \in 0..Limit /\ rows <= arrived
      /\ arrived \in 0..MaxRows /\ buffer' \in Seq(Piece) /\ rows \in Nat
  <2>1. shown \in Seq(1..MaxRows) /\ rows \in 0..Limit /\ rows <= arrived /\ arrived \in 0..MaxRows
    BY <1>1 DEF TypeOK
  <2>2. buffer' \in Seq(Piece)
    BY <1>2
  <2> QED BY <2>1, <2>2, LimitAssumption
<1>9. CASE c = 0
  <2>1. client' = "ok" /\ UNCHANGED <<shown, reason>>
    BY <1>5, <1>9 DEF ReadEnd
  <2>2. TypeOK'
    BY <1>1, <1>2, <1>8, <2>1 DEF TypeOK
  <2>3. NoSilentTruncation'
    BY <1>2, <1>5, <1>6, <1>8, <1>9, <2>1 DEF NoSilentTruncation
  <2>4. WithinResult(Len(shown))'
    BY <1>2, <1>4, <2>1 DEF WithinResult
  <2>5. ClientInv'
    BY <1>2, <1>4, <2>1, <2>3, <2>4 DEF ClientInv
  <2> QED BY <1>7, <2>2, <2>5 DEF IInv
<1>10. CASE c = 1
  <2>1. client' = "failed" /\ reason' = "unreadable" /\ UNCHANGED shown
    BY <1>5, <1>10 DEF ReadEnd
  <2>2. TypeOK'
    BY <1>1, <1>2, <1>8, <2>1 DEF TypeOK
  <2>3. WithinResult(Len(shown))'
    BY <1>2, <1>4, <2>1 DEF WithinResult
  <2>4. ClientInv'
    BY <1>2, <1>4, <2>1, <2>3 DEF ClientInv, NoSilentTruncation
  <2> QED BY <1>7, <2>2, <2>4 DEF IInv
<1>11. CASE c = 2
  <2> DEFINE t == Append(shown, rows + 1)
  <2>1. client' = "ok" /\ shown' = t /\ UNCHANGED reason
    BY <1>5, <1>11 DEF ReadEnd
  <2>2. rows + 1 \in 1..MaxRows
    <3>1. rows < MaxRows
      BY <1>3, <1>11 DEF Piped
    <3> QED BY <1>8, <3>1, MaxRowsAssumption
  <2>3. t \in Seq(1..MaxRows) /\ Len(t) = m + 1 /\ t[m + 1] = rows + 1
        /\ \A i \in 1..m : t[i] = shown[i]
    BY <1>8, <2>2
  <2>4. body = "eof" /\ rows = arrived /\ torn = 2 /\ rows < Limit
    BY <1>6, <1>11
  <2> HIDE DEF t, m
  <2>5. \A i \in 1..Len(t) : t[i] = i
    <3> SUFFICES ASSUME NEW i \in 1..Len(t) PROVE t[i] = i
      OBVIOUS
    <3>1. CASE i = m + 1
      BY <1>5, <2>3, <3>1
    <3>2. CASE i # m + 1
      <4>1. i \in 1..m
        BY <1>8, <2>3, <3>2
      <4> QED BY <1>4, <2>3, <4>1 DEF m
    <3> QED BY <3>1, <3>2
  <2>6. TypeOK'
    BY <1>1, <1>2, <1>8, <2>1, <2>3 DEF TypeOK
  <2>7. Len(shown') = arrived + 1 /\ Len(shown') <= Limit
    BY <1>5, <1>8, <2>1, <2>3, <2>4, LimitAssumption
  <2>8. NoSilentTruncation'
    BY <1>2, <2>4, <2>7 DEF NoSilentTruncation
  <2>9. WithinResult(Len(shown))'
    BY <1>2, <1>8, <2>4, <2>7 DEF WithinResult
  <2>10. ClientInv'
    BY <1>2, <2>1, <2>5, <2>8, <2>9 DEF ClientInv
  <2> QED BY <1>7, <2>6, <2>10 DEF IInv
<1> QED BY <1>3, <1>9, <1>10, <1>11

\* A refusal, and a browser that goes away.
LEMMA LeaveStep ==
    ASSUME IInv, ReadStatus \/ Leave
    PROVE  IInv'
<1>1. TypeOK /\ ServerInv /\ ClientInv
  BY DEF IInv
<1>2. /\ UNCHANGED <<arrived, torn, body, ctx, pc, rows, pipe, flushed, age, got, buffer, shown>>
      /\ client' \in {"failed", "aborted"} /\ peer = "here" /\ peer' \in {"here", "gone"}
      /\ reason' \in {reason, "http", "network"}
  BY DEF ReadStatus, Leave, upVars, serverVars
<1>3. PICK c \in 0..2, z \in {0, 3} : Piped(c, z) /\ Excused(c, z)
  BY <1>1 DEF ServerInv
<1>4. ServerInv'
  <2>1. Piped(c, z)'
    BY <1>2, <1>3, SamePipe
  <2>2. Excused(c, z)'
    BY <1>2, <1>3 DEF Excused
  <2>3. ctx' # "canceled"
    BY <1>1, <1>2 DEF ServerInv
  <2> QED BY <1>1, <1>2, <2>1, <2>2, <2>3 DEF ServerInv
<1>5. TypeOK'
  BY <1>1, <1>2 DEF TypeOK
<1>6. ClientInv'
  <2>1. WithinResult(Len(shown))'
    BY <1>1, <1>2 DEF WithinResult, ClientInv
  <2> QED BY <1>1, <1>2, <2>1 DEF ClientInv, NoSilentTruncation
<1> QED BY <1>4, <1>5, <1>6 DEF IInv

LEMMA InvHolds == IInv /\ [Next]_vars => IInv'
<1> SUFFICES ASSUME IInv, [Next]_vars PROVE IInv'
  OBVIOUS
<1>1. CASE Environment
  BY <1>1, EnvironmentStep
<1>2. CASE Server
  BY <1>2, QuietServerStep, ForwardStep, ForwardLastStep, StreamFailedStep DEF Server
<1>3. CASE Client
  BY <1>3, ReadChunkStep, ReadEndStep, LeaveStep DEF Client
<1>4. CASE Leave
  BY <1>4, LeaveStep
<1>5. CASE UNCHANGED vars
  <2>1. UNCHANGED <<arrived, torn, body, ctx, peer, pc, rows, pipe, flushed, age,
                    client, got, buffer, shown, reason>>
    BY <1>5 DEF vars, upVars, serverVars, clientVars
  <2>2. TypeOK'
    BY <2>1 DEF IInv, TypeOK
  <2>3. ServerInv'
    <3>1. PICK c \in 0..2, z \in {0, 3} : Piped(c, z) /\ Excused(c, z)
      BY DEF IInv, ServerInv
    <3>2. Piped(c, z)' /\ Excused(c, z)'
      BY <2>1, <3>1, SamePipe DEF Excused
    <3> QED BY <2>1, <3>2 DEF IInv, ServerInv
  <2>4. ClientInv'
    <3>1. \A m, b, g : Reading(m, b, g) => Reading(m, b, g)'
      BY <2>1 DEF Reading
    <3>2. \A n \in Nat : WithinResult(n) => WithinResult(n)'
      BY <2>1 DEF WithinResult
    <3>3. UNCHANGED <<clientVars, peer>>
      BY <2>1 DEF clientVars
    <3> QED BY <2>1, <3>1, <3>2, <3>3, ClientKept DEF IInv
  <2> QED BY <2>2, <2>3, <2>4 DEF IInv
<1> QED BY <1>1, <1>2, <1>3, <1>4, <1>5 DEF Next

-----------------------------------------------------------------------------
(* The theorems.                                                           *)

\* Every variable keeps its type.
THEOREM StreamTyped == Spec => []TypeOK
<1>1. IInv => TypeOK
  BY DEF IInv
<1> QED BY InvBegins, InvHolds, <1>1, PTL DEF Spec

\* The rows on the page are the first ones that VictoriaLogs sent, each once and
\* in order, and no more than were asked for: for every limit, every result and
\* every way of cutting it into chunks (pump, streamQuery).
THEOREM RowsAreAPrefix == Spec => []ShownIsPrefix
<1>1. IInv => ShownIsPrefix
  <2> SUFFICES ASSUME IInv PROVE ShownIsPrefix
    OBVIOUS
  <2>1. shown \in Seq(1..MaxRows) /\ (\A i \in 1..Len(shown) : shown[i] = i) /\ WithinResult(Len(shown))
    BY DEF IInv, TypeOK, ClientInv
  <2>2. shown \in [1..Len(shown) -> 1..MaxRows]
    BY <2>1, LenProperties
  <2>3. shown = [i \in 1..Len(shown) |-> i]
    BY <2>1, <2>2
  <2> QED BY <2>1, <2>3 DEF ShownIsPrefix, WithinResult
<1> QED BY InvBegins, InvHolds, <1>1, PTL DEF Spec

\* A result that was cut short, by VictoriaLogs, by the network or by the
\* timeout, is never taken for a whole one (streamFailed, streamQuery).
THEOREM NothingIsCutSilently == Spec => []NoSilentTruncation
<1>1. IInv => NoSilentTruncation
  BY DEF IInv, ClientInv
<1> QED BY InvBegins, InvHolds, <1>1, PTL DEF Spec
=============================================================================
