------------------------- MODULE TailSessionProofs -------------------------
(***************************************************************************)
(* What following keeps for every window, row cap, ceiling and pair of     *)
(* periods, whenever rows arrive and however often the tail is cut and     *)
(* opened again: nothing is missed, and no tail that follows is silent for *)
(* longer than a keepalive.                                                *)
(***************************************************************************)
EXTENDS TailSession, FiniteSetTheorems, TLAPS

-----------------------------------------------------------------------------
(* The two timers of one tail (TailTimers).                                *)

\* While nothing is held the last byte is no older than the ticker: each resets
\* the other.  Only held rows push the ticker back without sending anything.
Covered == ~held => idle <= tick

IInv == TypeOK /\ Covered

\* A tail starts with both timers running and with headers just sent.
LEMMA StartCovered == Init => IInv
<1> SUFFICES ASSUME Init PROVE IInv
  OBVIOUS
<1>1. open \in BOOLEAN /\ held \in BOOLEAN /\ (held => open = TRUE)
  BY DEF Init
<1>2. settle \in IF open THEN 0..Settle ELSE {Off}
  BY SettleAssumption DEF Init
<1>3. tick \in 0..Keepalive /\ idle \in 0..TooLong /\ Covered
  BY KeepaliveAssumption DEF Init, TooLong, Covered
<1> QED
  BY <1>1, <1>2, <1>3 DEF IInv, TypeOK

\* Every step keeps the types, and the ticker ahead of the silence.
LEMMA StepCovered == IInv /\ [Next]_vars => IInv'
<1> SUFFICES ASSUME IInv, [Next]_vars PROVE IInv'
  OBVIOUS
<1>1. CASE Elapse
  BY <1>1, SettleAssumption, KeepaliveAssumption
  DEF Elapse, IInv, TypeOK, Covered, Off, TooLong
<1>2. CASE HistoryRow
  BY <1>2, SettleAssumption, KeepaliveAssumption
  DEF HistoryRow, IInv, TypeOK, Covered, Off, TooLong
<1>3. CASE LiveRow
  <2>1. open' = FALSE /\ held' = FALSE /\ settle' = Off
    BY <1>3 DEF LiveRow
  <2>2. tick' \in 0..Keepalive /\ idle' \in 0..TooLong /\ Covered'
    BY <1>3, KeepaliveAssumption DEF LiveRow, IInv, TypeOK, Covered, TooLong
  <2> QED
    BY <2>1, <2>2 DEF IInv, TypeOK
<1>4. CASE SettleFires
  <2>1. open' = FALSE /\ held' = FALSE /\ settle' = Off
    BY <1>4 DEF SettleFires
  <2>2. tick' \in 0..Keepalive /\ idle' \in 0..TooLong /\ Covered'
    BY <1>4, KeepaliveAssumption DEF SettleFires, IInv, TypeOK, Covered, TooLong
  <2> QED
    BY <2>1, <2>2 DEF IInv, TypeOK
<1>5. CASE KeepaliveFires
  BY <1>5, SettleAssumption, KeepaliveAssumption
  DEF KeepaliveFires, IInv, TypeOK, Covered, Off, TooLong
<1>6. CASE UNCHANGED vars
  BY <1>6 DEF vars, IInv, TypeOK, Covered
<1> QED
  BY <1>1, <1>2, <1>3, <1>4, <1>5, <1>6 DEF Next

\* The types hold in every state; in particular the settle timer runs exactly
\* while the backfill is held.
THEOREM TimersTyped == Spec => []TypeOK
<1>1. IInv => TypeOK
  BY DEF IInv
<1> QED
  BY <1>1, StartCovered, StepCovered, PTL DEF Spec

\* Once the backfill is over, bytes go down the stream at least every keepalive.
THEOREM FollowingIsKeptAlive == Spec => []FollowIsKeptAlive
<1>1. IInv => FollowIsKeptAlive
  BY KeepaliveAssumption DEF IInv, TypeOK, Covered, FollowIsKeptAlive, Off, TooLong
<1> QED
  BY <1>1, StartCovered, StepCovered, PTL DEF Spec

-----------------------------------------------------------------------------
(* Lemmas about rows.                                                      *)

\* Of the rows up to n, the ones that a window leaves out are the first few:
\* older rows are further back.
LEMMA PrefixCounted ==
  ASSUME NEW n \in Nat, NEW S \in SUBSET (1..n),
         \A i \in S : \A j \in 1..i : j \in S
  PROVE  S = 1..Cardinality(S) /\ Cardinality(S) \in 0..n
<1>1. IsFiniteSet(1..n) /\ Cardinality(1..n) = n
  BY FS_Interval
<1>2. IsFiniteSet(S) /\ Cardinality(S) \in Nat /\ Cardinality(S) <= n
  BY <1>1, FS_Subset, FS_CardinalityType
<1> DEFINE c == Cardinality(S)
<1>3. S \subseteq 1..c
  <2> SUFFICES ASSUME NEW i \in S, i > c PROVE FALSE
    BY <1>2
  <2>1. 1..i \in SUBSET S
    OBVIOUS
  <2>2. Cardinality(1..i) <= c
    BY <1>2, <2>1, FS_Subset
  <2>3. Cardinality(1..i) = i
    BY FS_Interval
  <2> QED
    BY <1>2, <2>2, <2>3
<1>4. IsFiniteSet(1..c) /\ Cardinality(1..c) = c
  BY <1>2, FS_Interval
<1>5. S = 1..c
  BY <1>3, <1>4, FS_Subset
<1> QED
  BY <1>2, <1>5

\* What is beyond the cap among some of the rows is beyond it among all.
LEMMA BeyondTheCap ==
  ASSUME NEW n \in Nat, NEW S \in SUBSET (1..n), NEW i \in S, i \notin Newest(S)
  PROVE  i \notin Newest(1..n)
<1>1. IsFiniteSet(1..n)
  BY FS_Interval
<1> DEFINE A == {j \in S : j > i}
           B == {j \in 1..n : j > i}
<1>2. IsFiniteSet(B)
  BY <1>1, FS_Subset
<1>3. Cardinality(A) <= Cardinality(B) /\ IsFiniteSet(A)
  BY <1>2, FS_Subset
<1>4. Cardinality(A) \in Nat /\ Cardinality(B) \in Nat
  BY <1>2, <1>3, FS_CardinalityType
<1>5. ~(Cardinality(A) < Limit)
  BY DEF Newest
<1>6. ~(Cardinality(B) < Limit)
  BY <1>3, <1>4, <1>5, SessionAssumption
<1> QED
  BY <1>6 DEF Newest

-----------------------------------------------------------------------------
(* The inductive invariant.                                                *)

\* Types; a tail that is not running holds nothing, and one that is has taken
\* no more rows than there are.
SessionTyped ==
    /\ conn \in {"connecting", "open", "dead", "stopped"}
    /\ age \in Seq(Nat) /\ Len(age) <= MaxLog
    /\ known \in 0..Len(age) /\ taken \in 0..Len(age)
    /\ ring \subseteq 1..taken
    /\ shown \in [Rows -> Nat]
    /\ ~Running => ring = {}

\* Rows grow old together.
OlderFirst == \A i \in Ingested : \A j \in 1..i : age[j] >= age[i]

\* A backfill holds rows of the history only; a tail that follows holds none.
HeldIsHistory == IF open THEN ring \subseteq 1..known ELSE ring = {}

\* What is neither shown nor excused: rows that are held, or beyond what this
\* tail has taken, and among the rows that it found, only the newest.
Settled(i) == shown[i] > 0 \/ i \in excused

Accounted ==
    conn = "open" =>
        /\ \A i \in 1..taken : Settled(i) \/ i \in ring
        /\ \A i \in 1..known : Settled(i) \/ i \in Newest(1..known)

SInv == SessionTyped /\ OlderFirst /\ HeldIsHistory /\ Accounted

\* What was shown or excused stays so.
LEMMA Shown ==
  ASSUME SessionTyped, NEW S, Show(S) \/ UNCHANGED shown, excused \subseteq excused'
  PROVE  /\ shown' \in [Rows -> Nat]
         /\ \A i \in Rows : Settled(i) => Settled(i)'
         /\ Show(S) /\ conn = "open" => \A i \in S \cap Rows : Settled(i)'
<1>1. CASE UNCHANGED shown
  BY <1>1 DEF SessionTyped, Settled, Show
<1>2. CASE Show(S)
  <2>1. CASE conn = "open"
    <3>1. shown' = [i \in Rows |-> IF i \in S /\ shown[i] < 2 THEN shown[i] + 1 ELSE shown[i]]
      BY <1>2, <2>1 DEF Show
    <3>2. \A i \in Rows : shown[i] \in Nat
      BY DEF SessionTyped
    <3>3. shown' \in [Rows -> Nat]
      BY <3>1, <3>2
    <3>4. \A i \in Rows : shown'[i] >= shown[i] /\ (i \in S => shown'[i] > 0)
      BY <3>1, <3>2
    <3> QED
      BY <3>2, <3>3, <3>4 DEF Settled
  <2>2. CASE conn # "open"
    BY <1>2, <2>2 DEF Show, SessionTyped, Settled
  <2> QED
    BY <2>1, <2>2
<1> QED
  BY <1>1, <1>2

LEMMA SessionStarts == SessionInit => SInv
<1> SUFFICES ASSUME SessionInit PROVE SInv
  OBVIOUS
<1>1. Len(age) = 0 /\ age \in Seq(Nat) /\ Ingested = {}
  BY DEF SessionInit, Ingested
<1>2. open = TRUE
  BY DEF SessionInit, Init
<1>3. SessionTyped
  BY <1>1, SessionAssumption DEF SessionInit, SessionTyped, Rows
<1>4. OlderFirst /\ HeldIsHistory /\ Accounted
  BY <1>1, <1>2 DEF SessionInit, OlderFirst, HeldIsHistory, Accounted
<1> QED
  BY <1>3, <1>4 DEF SInv

\* A tail ends, and what it held was shown, or lost with it.
LEMMA TailEnds ==
  ASSUME SInv, NEW next \in {"connecting", "stopped"}, Over(next),
         UNCHANGED shown \/ Show(ring)
  PROVE  SInv'
<1>1. shown' \in [Rows -> Nat]
  BY Shown DEF SInv, Over
<1>2. SessionTyped'
  BY <1>1 DEF Over, SInv, SessionTyped, Rows, Running
<1>3. OlderFirst' /\ HeldIsHistory' /\ Accounted'
  BY DEF Over, Reset, SInv, OlderFirst, HeldIsHistory, Accounted, Ingested
<1> QED
  BY <1>2, <1>3 DEF SInv

\* A tail begins: the window leaves out the first rows, and excuses them.
LEMMA TailBegins ==
  ASSUME SInv, Connect
  PROVE  SInv'
<1> DEFINE S == {i \in Ingested : age[i] > Window}
           n == Len(age)
<1>1. n \in Nat /\ Ingested = 1..n /\ n <= MaxLog
  BY DEF SInv, SessionTyped, Ingested
<1>2. \A i \in S : \A j \in 1..i : j \in S
  <2> SUFFICES ASSUME NEW i \in S, NEW j \in 1..i PROVE age[j] > Window
    BY <1>1
  <2>1. i \in 1..n /\ j \in 1..n /\ age[i] \in Nat /\ age[j] \in Nat
    BY <1>1 DEF SInv, SessionTyped
  <2>2. age[j] >= age[i]
    BY <1>1 DEF SInv, OlderFirst
  <2> QED
    BY <2>1, <2>2, SessionAssumption
<1>3. S = 1..taken' /\ taken' \in 0..n
  <2>1. S \in SUBSET (1..n)
    BY <1>1
  <2> QED
    BY <1>1, <1>2, <2>1, PrefixCounted DEF Connect
<1>4. ring = {} /\ ring' = {} /\ known' = n /\ UNCHANGED <<age, shown, open>> /\ conn' = "open"
  BY DEF Connect, SInv, SessionTyped, Running, vars
<1>5. SessionTyped'
  BY <1>1, <1>3, <1>4 DEF SInv, SessionTyped, Running, Rows
<1>6. OlderFirst' /\ HeldIsHistory'
  BY <1>4 DEF SInv, OlderFirst, HeldIsHistory, Ingested
<1>7. Accounted'
  <2>1. ASSUME NEW i \in 1..n, ~Settled(i)'
        PROVE  ~(age[i] > Window) /\ i \in Newest(1..n)
    <3>1. i \in Rows
      BY <1>1, SessionAssumption DEF Rows
    <3>2. shown[i] \in Nat
      BY <3>1 DEF SInv, SessionTyped
    <3>3. ~(shown[i] > 0)
      BY <1>4, <2>1 DEF Settled
    <3>4. shown[i] = 0
      BY <3>2, <3>3
    <3> QED
      BY <1>1, <2>1, <3>4 DEF Settled, Connect
  <2>2. \A i \in 1..taken' : Settled(i)'
    BY <1>1, <1>3, <2>1
  <2>3. \A i \in 1..known' : Settled(i)' \/ i \in Newest(1..known')
    BY <1>4, <2>1
  <2> QED
    BY <2>2, <2>3 DEF Accounted
<1> QED
  BY <1>5, <1>6, <1>7 DEF SInv

\* The rows of this log, and what a step leaves of them.
LEMMA RowsUpTo ==
  ASSUME SInv, NEW n \in 0..Len(age)
  PROVE  1..n \subseteq Rows
BY SessionAssumption DEF SInv, SessionTyped, Rows

\* A row of the history is held, and takes the place of one beyond the cap.
LEMMA HistoryHeld ==
  ASSUME SInv, Hold
  PROVE  SInv'
<1>1. /\ taken' = taken + 1 /\ ring' = Newest(ring \cup {taken + 1})
      /\ UNCHANGED <<conn, age, known, life, shown, excused, open>>
      /\ open /\ taken < known /\ Running
  BY DEF Hold, HistoryRow
<1>2. Len(age) \in Nat /\ known \in 0..Len(age) /\ taken \in 0..Len(age)
  BY DEF SInv, SessionTyped
<1>3. ring \cup {taken + 1} \subseteq 1..known /\ ring \subseteq 1..taken
  BY <1>1, <1>2 DEF SInv, SessionTyped, HeldIsHistory
<1>4. ring' \subseteq ring \cup {taken + 1}
  BY <1>1 DEF Newest
<1>5. SessionTyped'
  <2>1. taken' \in 0..Len(age')
    BY <1>1, <1>2
  <2>2. ring \cup {taken + 1} \subseteq 1..taken + 1
    BY <1>2, <1>3
  <2>3. ring' \subseteq 1..taken'
    BY <1>1, <1>4, <2>2
  <2> QED
    BY <1>1, <2>1, <2>3 DEF SInv, SessionTyped, Running, Rows
<1>6. OlderFirst' /\ HeldIsHistory'
  BY <1>1, <1>3, <1>4 DEF SInv, OlderFirst, HeldIsHistory, Ingested
<1>7. Accounted'
  <2> SUFFICES ASSUME conn = "open"
               PROVE  /\ \A i \in 1..taken' : Settled(i) \/ i \in ring'
                      /\ \A i \in 1..known : Settled(i) \/ i \in Newest(1..known)
    BY <1>1 DEF Accounted, Settled
  <2>1. /\ \A i \in 1..taken : Settled(i) \/ i \in ring
        /\ \A i \in 1..known : Settled(i) \/ i \in Newest(1..known)
    BY DEF SInv, Accounted
  <2>2. ASSUME NEW i \in 1..taken' PROVE Settled(i) \/ i \in ring'
    <3>1. CASE Settled(i)
      BY <3>1
    <3>2. CASE ~Settled(i)
      <4>1. i \in ring \cup {taken + 1} /\ i \in 1..known
        BY <1>1, <1>2, <2>1, <3>2
      <4>2. i \in Newest(1..known) /\ known \in Nat
        BY <1>2, <2>1, <3>2, <4>1
      <4>3. i \in Newest(ring \cup {taken + 1})
        BY <1>3, <4>1, <4>2, BeyondTheCap
      <4> QED
        BY <1>1, <4>3
    <3> QED
      BY <3>1, <3>2
  <2> QED
    BY <2>1, <2>2
<1> QED
  BY <1>5, <1>6, <1>7 DEF SInv

\* What is held goes out, alone or before the row that follows it.
LEMMA HeldGoesOut ==
  ASSUME SInv, NEW S \in SUBSET (1..taken'), ring \subseteq S, Show(S),
         taken' = taken \/ (taken' = taken + 1 /\ taken' \in S),
         taken' \in 0..Len(age), ring' = {}, open' = FALSE,
         UNCHANGED <<conn, age, known, life, excused>>
  PROVE  SInv'
<1>1. Len(age) \in Nat /\ known \in 0..Len(age) /\ taken \in 0..Len(age)
  BY DEF SInv, SessionTyped
<1>2. 1..taken' \subseteq Rows /\ 1..known \subseteq Rows
  BY <1>1, RowsUpTo
<1>3. SessionTyped
  BY DEF SInv
<1>4. /\ shown' \in [Rows -> Nat]
      /\ \A i \in Rows : Settled(i) => Settled(i)'
      /\ conn = "open" => \A i \in S \cap Rows : Settled(i)'
  BY <1>3, Shown
<1>5. SessionTyped'
  BY <1>4 DEF SInv, SessionTyped, Running, Rows
<1>6. OlderFirst' /\ HeldIsHistory'
  BY DEF SInv, OlderFirst, HeldIsHistory, Ingested
<1>7. ASSUME conn = "open"
      PROVE  /\ \A i \in 1..taken' : Settled(i)'
             /\ \A i \in 1..known : Settled(i)' \/ i \in Newest(1..known)
  <2>1. /\ \A i \in 1..taken : Settled(i) \/ i \in ring
        /\ \A i \in 1..known : Settled(i) \/ i \in Newest(1..known)
    BY <1>7 DEF SInv, Accounted
  <2>2. \A i \in 1..taken' : i \in S \/ Settled(i)
    BY <1>1, <2>1
  <2> QED
    BY <1>2, <1>4, <1>7, <2>1, <2>2
<1>8. Accounted'
  BY <1>7 DEF Accounted
<1> QED
  BY <1>5, <1>6, <1>8 DEF SInv

LEMMA Followed ==
  ASSUME SInv, Follow
  PROVE  SInv'
<1>1. /\ taken' = taken + 1 /\ Show(ring \cup {taken'}) /\ ring' = {} /\ open' = FALSE
      /\ UNCHANGED <<conn, age, known, life, excused>> /\ taken < Len(age)
  BY DEF Follow, LiveRow
<1>2. taken \in Nat /\ Len(age) \in Nat /\ ring \subseteq 1..taken
  BY DEF SInv, SessionTyped
<1>3. ring \cup {taken'} \subseteq 1..taken' /\ taken' \in 0..Len(age)
  BY <1>1, <1>2
<1> QED
  BY <1>1, <1>3, HeldGoesOut

LEMMA BackfillSettled ==
  ASSUME SInv, Settles
  PROVE  SInv'
<1>1. taken' = taken /\ taken' \in 0..Len(age) /\ ring \subseteq 1..taken'
  BY DEF Settles, SInv, SessionTyped
<1>2. open' = FALSE
  BY DEF Settles, SettleFires
<1> QED
  BY <1>1, <1>2, HeldGoesOut DEF Settles

\* The log grows, and grows old.
LEMMA RowIngested ==
  ASSUME SInv, Ingest
  PROVE  SInv'
<1>1. /\ Len(age) < MaxLog /\ age' = Append(age, 0)
      /\ UNCHANGED <<open, conn, known, taken, ring, life, shown, excused>>
  BY DEF Ingest, vars
<1>2. age \in Seq(Nat) /\ Len(age) \in Nat
  BY DEF SInv, SessionTyped
<1>3. /\ age' \in Seq(Nat) /\ Len(age') = Len(age) + 1
      /\ \A i \in 1..Len(age) : age'[i] = age[i] /\ age[i] \in Nat
      /\ age'[Len(age) + 1] = 0
  BY <1>1, <1>2
<1>4. SessionTyped'
  BY <1>1, <1>2, <1>3, SessionAssumption DEF SInv, SessionTyped, Running, Rows
<1>5. OlderFirst'
  <2> SUFFICES ASSUME NEW i \in 1..Len(age'), NEW j \in 1..i PROVE age'[j] >= age'[i]
    BY <1>3 DEF OlderFirst, Ingested
  <2>1. CASE i = Len(age) + 1
    BY <1>2, <1>3, <2>1
  <2>2. CASE i \in 1..Len(age)
    <3>1. age[j] >= age[i]
      BY <1>2, <2>2 DEF SInv, OlderFirst, Ingested
    <3>2. j \in 1..Len(age)
      BY <1>2, <2>2
    <3>3. age'[i] = age[i] /\ age'[j] = age[j]
      BY <1>3, <2>2, <3>2
    <3> QED
      BY <3>1, <3>3
  <2> QED
    BY <1>2, <1>3, <2>1, <2>2
<1>6. HeldIsHistory' /\ Accounted'
  BY <1>1 DEF SInv, HeldIsHistory, Accounted, Settled
<1> QED
  BY <1>4, <1>5, <1>6 DEF SInv

LEMMA TimePassed ==
  ASSUME SInv, Pass
  PROVE  SInv'
<1>1. /\ age' = [i \in Ingested |-> IF age[i] > Window THEN age[i] ELSE age[i] + 1]
      /\ UNCHANGED <<open, conn, known, taken, ring, shown, excused>>
  BY DEF Pass, Elapse, vars
<1>2. age \in Seq(Nat) /\ Len(age) \in Nat /\ Ingested = 1..Len(age)
  BY DEF SInv, SessionTyped, Ingested
<1>3. age' \in Seq(Nat) /\ Len(age') = Len(age)
  BY <1>1, <1>2
<1>4. SessionTyped'
  BY <1>1, <1>3 DEF SInv, SessionTyped, Running, Rows
<1>5. OlderFirst'
  <2> SUFFICES ASSUME NEW i \in 1..Len(age), NEW j \in 1..i PROVE age'[j] >= age'[i]
    BY <1>3 DEF OlderFirst, Ingested
  <2>1. j \in 1..Len(age) /\ age[i] \in Nat /\ age[j] \in Nat /\ age[j] >= age[i]
    BY <1>2 DEF SInv, OlderFirst
  <2>2. /\ age'[i] = IF age[i] > Window THEN age[i] ELSE age[i] + 1
        /\ age'[j] = IF age[j] > Window THEN age[j] ELSE age[j] + 1
    BY <1>1, <1>2, <2>1
  <2> QED
    BY <2>1, <2>2, SessionAssumption
<1>6. HeldIsHistory' /\ Accounted'
  BY <1>1 DEF SInv, HeldIsHistory, Accounted, Settled
<1> QED
  BY <1>4, <1>5, <1>6 DEF SInv

\* Steps that leave rows alone: a keepalive, a cut that is not noticed yet.
LEMMA RowsLeftAlone ==
  ASSUME SInv, UNCHANGED <<open, age, known, taken, ring, shown, excused>>,
         conn' = conn \/ (conn = "open" /\ conn' = "dead")
  PROVE  SInv'
BY DEF SInv, SessionTyped, OlderFirst, HeldIsHistory, Accounted, Settled, Running, Rows, Ingested

LEMMA SessionStays == SInv /\ [SessionNext]_sessionVars => SInv'
<1> SUFFICES ASSUME SInv, [SessionNext]_sessionVars PROVE SInv'
  OBVIOUS
<1>1. CASE StaysAlive \/ Cut
  BY <1>1, RowsLeftAlone DEF StaysAlive, Cut, KeepaliveFires, session, vars
<1>2. CASE UNCHANGED sessionVars
  BY <1>2, RowsLeftAlone DEF sessionVars, session, vars
<1>3. CASE CeilingEnds \/ Notice \/ StreamEnds \/ StreamFails \/ Refused \/ Stop
  BY <1>3, TailEnds DEF CeilingEnds, Notice, StreamEnds, StreamFails, Refused, Stop
<1> QED
  BY <1>1, <1>2, <1>3, RowIngested, TailBegins, HistoryHeld, Followed, BackfillSettled,
     TimePassed
  DEF SessionNext, Undisturbed

-----------------------------------------------------------------------------
\* Every step of a session is a step of the timers, or sets them as a tail
\* that is yet to begin has them.
LEMMA SessionTimers ==
  ASSUME [SessionNext]_sessionVars
  PROVE  [Next]_vars \/ Reset
<1>1. CASE UNCHANGED sessionVars
  BY <1>1 DEF sessionVars
<1>2. CASE SessionNext
  BY <1>2 DEF SessionNext, Undisturbed, Ingest, Connect, Hold, Follow, Settles, StaysAlive,
              Pass, CeilingEnds, Stop, Cut, Notice, StreamEnds, StreamFails, Refused, Over, Next
<1> QED
  BY <1>1, <1>2

-----------------------------------------------------------------------------
\* However many tails it took, the pane that follows has every row that it was
\* to have (handleTail, openTail).
THEOREM NoRowIsMissed == SessionSpec => []NothingMissed
<1>1. SInv => NothingMissed
  BY DEF SInv, SessionTyped, HeldIsHistory, Accounted, Settled, NothingMissed
<1> QED
  BY <1>1, SessionStarts, SessionStays, PTL DEF SessionSpec

\* No tail of a session that follows is silent for longer than a keepalive.
THEOREM SessionIsKeptAlive == SessionSpec => []FollowIsKeptAlive
<1>1. SessionInit => IInv
  BY StartCovered DEF SessionInit
<1>2. IInv /\ [SessionNext]_sessionVars => IInv'
  <2> SUFFICES ASSUME IInv, [SessionNext]_sessionVars PROVE IInv'
    OBVIOUS
  <2>1. CASE [Next]_vars
    BY <2>1, StepCovered
  <2>2. CASE Reset
    <3>1. open' \in BOOLEAN /\ held' \in BOOLEAN /\ (held' => open' = TRUE)
      BY <2>2 DEF Reset
    <3>2. settle' \in IF open' THEN 0..Settle ELSE {Off}
      BY <2>2, SettleAssumption DEF Reset
    <3>3. tick' \in 0..Keepalive /\ idle' \in 0..TooLong /\ Covered'
      BY <2>2, KeepaliveAssumption DEF Reset, TooLong, Covered
    <3> QED
      BY <3>1, <3>2, <3>3 DEF IInv, TypeOK
  <2> QED
    BY <2>1, <2>2, SessionTimers
<1>3. IInv => FollowIsKeptAlive
  BY KeepaliveAssumption DEF IInv, TypeOK, Covered, FollowIsKeptAlive, Off, TooLong
<1> QED
  BY <1>1, <1>2, <1>3, PTL DEF SessionSpec
=============================================================================
