----------------------------- MODULE TailProofs -----------------------------
(***************************************************************************)
(* Theorems about one live tail, for every limit and every stream: the     *)
(* types, the ring, what the browser is shown, the metrics, how a tail     *)
(* ends, the bound on the backfill, and that Tail implements TailPromise.  *)
(* All but the last two follow from one inductive invariant, IInv.         *)
(***************************************************************************)
EXTENDS Tail, SequenceTheorems, TLAPS

\* newRing never makes an empty ring.
LEMMA SizeIsPositive == Size \in Nat \ {0}
  BY LimitAssumption DEF Size

\* A slot number is always one of the ring's slots.
LEMMA ModRange ==
  ASSUME NEW n \in Nat, NEW s \in Nat \ {0}
  PROVE  n % s \in 0..s - 1
  OBVIOUS

\* Rows fewer than a whole ring apart have different slots.
LEMMA ModDistinct ==
  ASSUME NEW s \in Nat \ {0}, NEW i \in Nat, NEW j \in Nat, i < j, j < i + s
  PROVE  i % s # j % s
<1> DEFINE qi == i \div s
           qj == j \div s
<1>1. i = s * qi + (i % s) /\ qi \in Nat
  OBVIOUS
<1>2. j = s * qj + (j % s) /\ qj \in Nat
  OBVIOUS
<1>3. SUFFICES ASSUME i % s = j % s PROVE FALSE
  OBVIOUS
<1> HIDE DEF qi, qj
<1>4. j - i = s * (qj - qi)
  BY <1>1, <1>2, <1>3
<1>5. CASE qj - qi <= 0
  BY <1>1, <1>2, <1>4, <1>5
<1>6. CASE qj - qi >= 1
  BY <1>1, <1>2, <1>4, <1>6
<1> QED
  BY <1>1, <1>2, <1>5, <1>6

-----------------------------------------------------------------------------
(* Runs of consecutive rows.                                               *)

Rows(a, n) == [j \in 1..n |-> a + j]

\* Consecutive rows are a sequence of rows, and this long.
LEMMA RowsType ==
  ASSUME NEW a \in Nat, NEW n \in Nat
  PROVE  /\ Rows(a, n) \in Seq(Nat)
         /\ Len(Rows(a, n)) = n
  BY DEF Rows

\* What a write that stops early has written is still a run.
LEMMA RowsPrefix ==
  ASSUME NEW a \in Nat, NEW n \in Nat, NEW k \in 0..n
  PROVE  SubSeq(Rows(a, n), 1, k) = Rows(a, k)
  BY DEF Rows

\* The next row lengthens a run.
LEMMA RowsAppend ==
  ASSUME NEW a \in Nat, NEW n \in Nat
  PROVE  Append(Rows(a, n), a + n + 1) = Rows(a, n + 1)
  BY DEF Rows

\* No rows at all are a run, from wherever it would start.
LEMMA RowsNone ==
  ASSUME NEW a \in Nat
  PROVE  Rows(a, 0) = <<>>
  BY DEF Rows

\* Two runs, the second of which starts where the first ends, are one.
LEMMA RowsConcat ==
  ASSUME NEW a \in Nat, NEW n \in Nat, NEW m \in Nat, NEW k \in 0..m
  PROVE  Rows(a, n) \o SubSeq(Rows(a + n, m), 1, k) = Rows(a, n + k)
<1>1. SubSeq(Rows(a + n, m), 1, k) = Rows(a + n, k)
  BY RowsPrefix
<1>2. Rows(a, n) \o Rows(a + n, k) = Rows(a, n + k)
  BY DEF Rows
<1> QED
  BY <1>1, <1>2

-----------------------------------------------------------------------------
(* The inductive invariant, and what it says of a write.                   *)

IInv == TypeOK /\ Flow /\ Accounted /\ RingHolds /\ NoGap

\* How many rows drain returns.
Held == IF open THEN added - Skipped ELSE 0

\* drain returns the newest rows added, oldest first: with RingHolds, a run
\* of exactly the rows that are held.
LEMMA DrainedRows ==
  ASSUME IInv
  PROVE  /\ Drained = Rows(Skipped + Len(out), Held)
         /\ Skipped \in Nat
         /\ Held \in 0..Size
         /\ Len(out) \in Nat
         /\ pc = "following" => Skipped + Len(out) + Held = taken
<1> USE SizeIsPositive
<1>0. /\ added \in Nat /\ taken \in Nat /\ open \in BOOLEAN
      /\ Len(out) \in Nat
  BY DEF IInv, TypeOK
<1>1. Skipped \in Nat /\ Held \in 0..Size
  BY <1>0 DEF Skipped, Held
<1>2. open => Len(out) = 0 /\ added = taken
  BY DEF IInv, NoGap, RingHolds
<1>3. pc = "following" => Skipped + Len(out) + Held = taken
  <2>1. CASE open
    BY <2>1, <1>0, <1>1, <1>2 DEF Held
  <2>2. CASE ~open
    BY <2>2, <1>0, <1>1 DEF Held, IInv, NoGap
  <2> QED
    BY <2>1, <2>2
<1>4. Drained = Rows(Skipped + Len(out), Held)
  <2>1. CASE open
    <3>1. Oldest = Skipped /\ Held = added - Skipped
      BY <2>1 DEF Oldest, Skipped, Held
    <3>2. ASSUME NEW k \in 1..Held
          PROVE  slots[(Oldest + k - 1) % Size] = Skipped + k
      <4> DEFINE i == Oldest + k - 1
      <4>1. i \in 0..added - 1 /\ added - Size <= i /\ i + 1 = Skipped + k
        BY <3>1, <1>0, <1>1 DEF Skipped
      <4> HIDE DEF i
      <4>2. slots[i % Size] = i + 1
        BY <4>1, <2>1 DEF IInv, RingHolds
      <4> QED
        BY <4>1, <4>2 DEF i
    <3>3. Drained = [k \in 1..Held |-> slots[(Oldest + k - 1) % Size]]
      BY <3>1 DEF Drained
    <3>4. Skipped + Len(out) = Skipped
      BY <1>1, <1>2, <2>1
    <3> QED
      BY <3>2, <3>3, <3>4, Zenon DEF Rows
  <2>2. CASE ~open
    <3>1. added - Oldest = 0 /\ Held = 0
      BY <2>2, <1>0 DEF Oldest, Held
    <3> QED
      BY <3>1 DEF Drained, Rows
  <2> QED
    BY <2>1, <2>2
<1> QED
  BY <1>0, <1>1, <1>3, <1>4

\* Writing a part of the run that comes next keeps the output a run.
LEMMA WriteRows ==
  ASSUME IInv, NEW n \in Nat, NEW k, 
         k \in Accepted(Rows(Skipped + Len(out), n)),
         Write(Rows(Skipped + Len(out), n), k)
  PROVE  /\ k \in 0..n
         /\ peer = "here" => k = n
         /\ out' = Rows(Skipped, Len(out) + k)
         /\ Len(out') = Len(out) + k
         /\ out' \in Seq(Nat)
<1>1. Len(Rows(Skipped + Len(out), n)) = n
  BY DrainedRows, RowsType
<1>2. k \in 0..n /\ (peer = "here" => k = n)
  BY <1>1 DEF Accepted
<1>3. out = Rows(Skipped, Len(out))
  BY DEF IInv, NoGap, Rows
<1>4. out' = Rows(Skipped, Len(out) + k)
  <2>1. Rows(Skipped, Len(out)) \o SubSeq(Rows(Skipped + Len(out), n), 1, k)
        = Rows(Skipped, Len(out) + k)
    BY <1>2, DrainedRows, RowsConcat
  <2> QED
    BY <2>1, <1>3 DEF Write
<1> QED
  BY <1>2, <1>4, DrainedRows, RowsType

-----------------------------------------------------------------------------
(* The initial states.                                                     *)

\* A tail that has not connected yet satisfies the invariant.
LEMMA InitIInv == Init => IInv
<1> SUFFICES ASSUME Init PROVE IInv
  OBVIOUS
<1>1. TypeOK
  BY SizeIsPositive, FeedsAssumption DEF Init, TypeOK, EmptySlots
<1>2. Flow /\ Accounted /\ RingHolds
  BY DEF Init, Flow, Accounted, RingHolds
<1>3. NoGap
  BY DEF Init, NoGap, Skipped
<1> QED
  BY <1>1, <1>2, <1>3 DEF IInv

-----------------------------------------------------------------------------
(* The steps that leave the ring and what was written alone.               *)

\* A step that leaves the ring and the output alone keeps what the invariant
\* says of both.
LEMMA QuietStep ==
  ASSUME IInv, UNCHANGED <<slots, added, open, out, taken>>,
         pc' = "following" => pc = "following" \/ open
  PROVE  RingHolds' /\ NoGap'
<1>1. RingHolds'
  BY DEF IInv, RingHolds
<1>2. NoGap'
  BY DEF IInv, NoGap, Skipped
<1> QED
  BY <1>1, <1>2

\* VictoriaLogs, the network, the clock and readLines keep the invariant.
LEMMA EnvironmentStep ==
  ASSUME IInv, Environment \/ SettleExpires \/ Reader
  PROVE  IInv'
<1> USE DEF IInv, TypeOK, Flow, upstreamVars, readerVars, ringVars, linkVars,
            reportVars
<1>1. UNCHANGED <<pc, ringVars, taken, reportVars>>
  BY DEF Environment, RowArrives, BodyEnds, PeerLeaves, CtxEnds, SettleExpires,
         Reader, ReaderReads, ReaderEnds, ReaderGivesUp
<1>2. Accounted'
  BY <1>1 DEF Accounted
<1>3. RingHolds' /\ NoGap'
  BY <1>1, QuietStep
<1>4. TypeOK' /\ Flow'
  <2>1. CASE RowArrives
    BY <2>1 DEF RowArrives
  <2>2. CASE BodyEnds
    BY <2>2 DEF BodyEnds
  <2>3. CASE PeerLeaves
    BY <2>3 DEF PeerLeaves
  <2>4. CASE CtxEnds
    BY <2>4 DEF CtxEnds
  <2>5. CASE SettleExpires
    BY <2>5 DEF SettleExpires
  <2>6. CASE ReaderReads
    BY <2>6 DEF ReaderReads
  <2>7. CASE ReaderEnds
    BY <2>7 DEF ReaderEnds
  <2>8. CASE ReaderGivesUp
    BY <2>8 DEF ReaderGivesUp
  <2> QED
    BY <2>1, <2>2, <2>3, <2>4, <2>5, <2>6, <2>7, <2>8 DEF Environment, Reader
<1> QED
  BY <1>2, <1>3, <1>4

-----------------------------------------------------------------------------
(* handleTail's steps.                                                     *)

\* Connecting keeps the invariant, whether VictoriaLogs answers or refuses.
LEMMA ConnectStep ==
  ASSUME IInv, Connect \/ Refuse
  PROVE  IInv'
<1> USE DEF IInv, TypeOK, Flow, upstreamVars, readerVars, ringVars, linkVars,
            reportVars
<1>1. UNCHANGED <<ringVars, taken, out, counted>> /\ open
  BY DEF Connect, Refuse
<1>2. RingHolds' /\ NoGap'
  BY <1>1, QuietStep
<1>3. CASE Connect
  BY <1>2, <1>3 DEF Connect, Accounted
<1>4. CASE Refuse
  <2>1. Len(out) = 0
    BY <1>1 DEF NoGap
  <2>2. Accounted'
    BY <1>4, <2>1 DEF Refuse, Accounted
  <2>3. TypeOK' /\ Flow'
    BY <1>4 DEF Refuse
  <2> QED
    BY <1>2, <2>2, <2>3
<1> QED
  BY <1>3, <1>4

\* So does returning without writing: the end of the context, and a
\* keepalive that cannot be written.
LEMMA LeaveStep ==
  ASSUME IInv, CtxDone \/ KeepaliveFails
  PROVE  IInv'
<1> USE DEF IInv, readerVars, ringVars
<1>1. /\ pc = "following"
      /\ UNCHANGED <<ringVars, out, feed, arrived, torn, readerVars, peer,
                     complained>>
      /\ Return
  BY DEF CtxDone, KeepaliveFails
<1>2. RingHolds' /\ NoGap'
  BY <1>1, QuietStep DEF Return
<1>3. Accounted'
  BY <1>1 DEF Accounted, Return, TypeOK
<1>4. TypeOK' /\ Flow'
  BY <1>1 DEF TypeOK, Flow, Return, Accounted
<1> QED
  BY <1>2, <1>3, <1>4

\* So does holding one more row, also when it overwrites the oldest.
LEMMA ReceiveHistoryStep ==
  ASSUME IInv, ReceiveHistory
  PROVE  IInv'
<1> USE SizeIsPositive
<1>1. /\ added = taken /\ added \in Nat /\ slots \in [0..Size - 1 -> Nat]
      /\ added' = added + 1 /\ taken' = taken + 1 /\ open /\ open'
      /\ slots' = [slots EXCEPT ![added % Size] = added + 1]
  BY DEF IInv, RingHolds, TypeOK, ReceiveHistory, HandOver, Add
<1>2. added % Size \in 0..Size - 1
  BY <1>1, ModRange
<1>3. TypeOK' /\ Flow' /\ Accounted'
  BY <1>1 DEF IInv, ReceiveHistory, HandOver, TypeOK, Flow, Accounted,
              upstreamVars, linkVars, reportVars
<1>4. RingHolds'
  <2> SUFFICES ASSUME NEW i \in 0..added, added + 1 - Size <= i
               PROVE  slots'[i % Size] = i + 1
    BY <1>1 DEF RingHolds
  <2>1. CASE i = added
    BY <2>1, <1>1, <1>2
  <2>2. CASE i < added
    <3>1. i \in Nat /\ added < i + Size
      BY <1>1
    <3>2. slots[i % Size] = i + 1
      <4>1. i \in 0..added - 1 /\ added - Size <= i
        BY <2>2, <1>1
      <4>2. \A j \in 0..added - 1 : added - Size <= j => slots[j % Size] = j + 1
        BY <1>1 DEF IInv, RingHolds
      <4> QED
        BY <4>1, <4>2, Zenon
    <3>4. i % Size # added % Size
      BY <2>2, <3>1, <1>1, ModDistinct
    <3>3. i % Size \in 0..Size - 1
      BY ModRange
    <3> QED
      BY <3>4, <3>2, <3>3, <1>1
  <2> QED
    BY <2>1, <2>2, <1>1
<1>5. NoGap'
  <2>1. out' = <<>>
    BY <1>1 DEF IInv, ReceiveHistory, NoGap, reportVars
  <2> QED
    BY <2>1, <1>1 DEF NoGap
<1> QED
  BY <1>3, <1>4, <1>5 DEF IInv

\* What SettleTick and ReceiveLive have in common: n rows that come next are
\* written, all of them or not, and the ring is drained.
LEMMA FlushStep ==
  ASSUME IInv, pc = "following", NEW n \in Nat, NEW k,
         k \in Accepted(Rows(Skipped + Len(out), n)),
         Write(Rows(Skipped + Len(out), n), k),
         GoOnOrReturn(Rows(Skipped + Len(out), n), k),
         Drain,
         Skipped + Len(out) + n = taken',
         UNCHANGED <<feed, arrived, torn, errc, peer, complained>>,
         \/ UNCHANGED <<taken, reader>>
         \/ HandOver
  PROVE  IInv'
<1> DEFINE s == Rows(Skipped + Len(out), n)
<1>1. Len(s) = n
  BY DrainedRows, RowsType
<1>2. /\ k \in 0..n /\ out' = Rows(Skipped, Len(out) + k)
      /\ Len(out') = Len(out) + k /\ out' \in Seq(Nat)
  BY WriteRows
<1>3. Len(out) \in Nat /\ Skipped \in Nat
  BY DrainedRows
<1>4. Skipped' = Skipped /\ open' = FALSE /\ added' = added
  BY DEF Drain, Skipped
<1>5. NoGap'
  <2>1. out' = [j \in 1..Len(out') |-> Skipped' + j]
    BY <1>2, <1>4 DEF Rows
  <2>2. pc' = "following" => k = n
    BY <1>1 DEF GoOnOrReturn, Return
  <2>3. k = n => Skipped' + Len(out') = Skipped + Len(out) + n
    BY <1>2, <1>3, <1>4
  <2>4. pc' = "following" => Skipped' + Len(out') = taken'
    BY <2>2, <2>3
  <2> QED
    BY <2>1, <2>4, <1>4 DEF NoGap
<1>6. RingHolds'
  BY <1>4 DEF RingHolds
<1>7. EmptySlots \in [0..Size - 1 -> Nat]
  BY DEF EmptySlots
<1>8. Accounted'
  <2>1. counted = 0 /\ gauge = 1
    BY DEF IInv, Accounted
  <2> QED
    BY <2>1, <1>2, <1>3 DEF Accounted, GoOnOrReturn, Return
<1>9. Len(out') \in Nat /\ settle' = "off" /\ pc' \in {"following", "returned"}
  BY <1>2, <1>3 DEF GoOnOrReturn, Return
<1>10. /\ body' \in {body, "closed"} /\ ctx' \in {ctx, "done"}
       /\ body' = "closed" => ctx' = "done" \/ body = "closed"
       /\ pc' = "following" => body' = body
  BY DEF GoOnOrReturn, Return
<1>11. /\ taken' \in 0..arrived' /\ taken <= taken'
       /\ reader' \in {reader, "reading"}
       /\ reader' = "offering" => taken' < arrived'
       /\ reader' = "ended" => taken' = taken
  BY DEF HandOver, IInv, TypeOK, Flow
<1>12. TypeOK'
  <2>1. slots' \in [0..Size - 1 -> Nat] /\ added' \in 0..taken'
    BY <1>7, <1>11 DEF Drain, IInv, TypeOK
  <2>2. gauge' \in {0, 1} /\ counted' \in Nat
    BY <1>8, <1>9 DEF Accounted
  <2> QED
    BY <2>1, <2>2, <1>2, <1>4, <1>9, <1>10, <1>11 DEF IInv, TypeOK
<1>13. Flow'
  BY <1>4, <1>9, <1>10, <1>11 DEF IInv, Flow, TypeOK
<1> QED
  BY <1>5, <1>6, <1>8, <1>12, <1>13 DEF IInv

\* So does the end of the backfill by silence.
LEMMA SettleTickStep ==
  ASSUME IInv, SettleTick
  PROVE  IInv'
<1>1. pc = "following" /\ Drain /\ UNCHANGED <<taken, reader, errc>>
      /\ UNCHANGED <<feed, arrived, torn, peer, complained>>
  BY DEF SettleTick, readerVars
<1>2. PICK k \in Accepted(Drained) :
        Write(Drained, k) /\ GoOnOrReturn(Drained, k)
  BY DEF SettleTick
<1>3. /\ Drained = Rows(Skipped + Len(out), Held) /\ Held \in Nat
      /\ Skipped + Len(out) + Held = taken
  BY <1>1, DrainedRows, SizeIsPositive
<1> QED
  BY <1>1, <1>2, <1>3, FlushStep

\* With row taken+1 behind them the drained rows are still a run.
LEMMA DrainedThenNext ==
  ASSUME IInv, pc = "following"
  PROVE  /\ Append(Drained, taken + 1) = Rows(Skipped + Len(out), Held + 1)
         /\ Held + 1 \in Nat
         /\ Skipped + Len(out) + (Held + 1) = taken + 1
<1>1. /\ Drained = Rows(Skipped + Len(out), Held) /\ Held \in Nat
      /\ Skipped \in Nat /\ Len(out) \in Nat
      /\ taken = Skipped + Len(out) + Held
  BY DrainedRows, SizeIsPositive
<1>2. ASSUME NEW a \in Nat, a = Skipped + Len(out)
      PROVE  Append(Rows(a, Held), a + Held + 1) = Rows(a, Held + 1)
  BY <1>1, RowsAppend
<1>3. Skipped + Len(out) \in Nat /\ Skipped + Len(out) + Held + 1 = taken + 1
  BY <1>1
<1>4. Append(Rows(Skipped + Len(out), Held), taken + 1)
      = Rows(Skipped + Len(out), Held + 1)
  BY <1>2, <1>3
<1> QED
  BY <1>1, <1>3, <1>4

\* So does a row that goes out, the one that ends the backfill included.
LEMMA ReceiveLiveStep ==
  ASSUME IInv, ReceiveLive
  PROVE  IInv'
<1>1. /\ pc = "following" /\ Drain /\ HandOver /\ taken' = taken + 1
      /\ UNCHANGED errc /\ UNCHANGED <<feed, arrived, torn, peer, complained>>
  BY DEF ReceiveLive, HandOver
<1>2. PICK k \in Accepted(Append(Drained, taken + 1)) :
        /\ Write(Append(Drained, taken + 1), k)
        /\ GoOnOrReturn(Append(Drained, taken + 1), k)
  BY DEF ReceiveLive
<1>3. /\ Append(Drained, taken + 1) = Rows(Skipped + Len(out), Held + 1)
      /\ Held + 1 \in Nat /\ Skipped + Len(out) + (Held + 1) = taken'
  BY <1>1, DrainedThenNext
<1> QED
  BY <1>1, <1>2, <1>3, FlushStep

\* So does the end of the stream.
LEMMA LinesClosedStep ==
  ASSUME IInv, LinesClosed
  PROVE  /\ IInv'
         /\ peer = "here" => Skipped' + Len(out') = taken
<1>1. /\ pc = "following" /\ reader = "ended" /\ Drain /\ Return
      /\ UNCHANGED <<feed, arrived, torn, taken, reader, peer>>
      /\ errc' = "empty" /\ complained' \in BOOLEAN
  BY DEF LinesClosed
<1>2. PICK k \in Accepted(Drained) : Write(Drained, k)
  BY DEF LinesClosed
<1>3. /\ Drained = Rows(Skipped + Len(out), Held) /\ Held \in Nat
      /\ Skipped + Len(out) + Held = taken /\ Skipped \in Nat /\ Len(out) \in Nat
  BY <1>1, DrainedRows, SizeIsPositive
<1>4. /\ k \in 0..Held /\ (peer = "here" => k = Held)
      /\ out' = Rows(Skipped, Len(out) + k)
      /\ Len(out') = Len(out) + k /\ out' \in Seq(Nat)
  BY <1>2, <1>3, WriteRows
<1>5. Skipped' = Skipped /\ open' = FALSE /\ added' = added /\ pc' = "returned"
  BY <1>1 DEF Drain, Skipped, Return
<1>6. RingHolds' /\ NoGap'
  BY <1>4, <1>5 DEF RingHolds, NoGap, Rows
<1>7. Accounted'
  BY <1>1, <1>3, <1>4 DEF IInv, Accounted, Return
<1>8. slots' \in [0..Size - 1 -> Nat] /\ gauge' = 0 /\ counted' \in Nat
  BY <1>1, <1>3, <1>4, <1>5, <1>7 DEF Drain, EmptySlots, Accounted
<1>9. TypeOK' /\ Flow'
  BY <1>1, <1>4, <1>5, <1>8 DEF IInv, TypeOK, Flow, Return
<1> QED
  BY <1>3, <1>4, <1>5, <1>6, <1>7, <1>9 DEF IInv

-----------------------------------------------------------------------------
(* The invariants.                                                         *)

\* Every step keeps the invariant.
LEMMA NextIInv == IInv /\ [Next]_vars => IInv'
<1> SUFFICES ASSUME IInv, [Next]_vars PROVE IInv'
  OBVIOUS
<1>1. CASE Environment \/ SettleExpires \/ Reader
  BY <1>1, EnvironmentStep
<1>2. CASE Connect \/ Refuse
  BY <1>2, ConnectStep
<1>3. CASE CtxDone \/ KeepaliveFails
  BY <1>3, LeaveStep
<1>4. CASE SettleTick
  BY <1>4, SettleTickStep
<1>5. CASE ReceiveHistory
  BY <1>5, ReceiveHistoryStep
<1>6. CASE ReceiveLive
  BY <1>6, ReceiveLiveStep
<1>7. CASE LinesClosed
  BY <1>7, LinesClosedStep
<1>8. CASE UNCHANGED vars
  <2> USE <1>8 DEF vars, upstreamVars, readerVars, ringVars, linkVars, reportVars
  <2>1. RingHolds' /\ NoGap'
    BY QuietStep
  <2>2. TypeOK'
    BY DEF IInv, TypeOK
  <2>3. Flow'
    BY DEF IInv, Flow
  <2>4. Accounted'
    BY DEF IInv, Accounted
  <2> QED
    BY <2>1, <2>2, <2>3, <2>4 DEF IInv
<1> QED
  BY <1>1, <1>2, <1>3, <1>4, <1>5, <1>6, <1>7, <1>8 DEF Next, Handler, Loop

\* The inductive invariant holds in every state of every tail, for every limit
\* and every stream VictoriaLogs may send.
THEOREM Invariance == Spec => []IInv
<1>1. Init => IInv
  BY InitIInv
<1>2. IInv /\ [Next]_vars => IInv'
  BY NextIInv
<1> QED
  BY <1>1, <1>2, PTL DEF Spec

\* Every variable keeps its type.
THEOREM TypeCorrect == Spec => []TypeOK
<1>1. IInv => TypeOK
  BY DEF IInv
<1> QED
  BY <1>1, Invariance, PTL

\* The browser is shown one contiguous run of the stream: nothing is lost,
\* repeated or reordered where the backfill meets the follow.
THEOREM ShownIsContiguous == Spec => []NoGap
<1>1. IInv => NoGap
  BY DEF IInv
<1> QED
  BY <1>1, Invariance, PTL

\* The ring holds the newest rows in the slots drain reads, after any number of
\* rows.
THEOREM RingIsRight == Spec => []RingHolds
<1>1. IInv => RingHolds
  BY DEF IInv
<1> QED
  BY <1>1, Invariance, PTL

\* The gauge and the row counter agree with what happened on every way out.
THEOREM MetricsAreRight == Spec => []Accounted
<1>1. IInv => Accounted
  BY DEF IInv
<1> QED
  BY <1>1, Invariance, PTL

\* A tail that VictoriaLogs ended has shown everything that arrived, and says
\* so when it was a failure.
THEOREM EndingIsComplete == Spec => EndIsComplete
<1> DEFINE Step == pc = "following" /\ pc' = "returned" /\ ctx = "live" /\ peer = "here"
                   => /\ Skipped + Len(out') = arrived
                      /\ complained' <=> body = "failed"
<1>1. IInv /\ [Next]_vars => [Step]_vars
  <2> SUFFICES ASSUME IInv, Next, pc = "following", pc' = "returned",
                      ctx = "live", peer = "here"
               PROVE  Step
    BY DEF vars
  <2>1. LinesClosed
    <3>1. ~Environment /\ ~SettleExpires /\ ~Reader
      BY DEF Environment, RowArrives, BodyEnds, PeerLeaves, CtxEnds,
             SettleExpires, Reader, ReaderReads, ReaderEnds, ReaderGivesUp
    <3>2. ~Connect /\ ~Refuse /\ ~CtxDone /\ ~KeepaliveFails /\ ~ReceiveHistory
      BY DEF Connect, Refuse, CtxDone, KeepaliveFails, ReceiveHistory
    <3>3. ASSUME NEW s, NEW k \in Accepted(s), GoOnOrReturn(s, k)
          PROVE  FALSE
      BY <3>3 DEF Accepted, GoOnOrReturn
    <3>4. ~SettleTick /\ ~ReceiveLive
      BY <3>3 DEF SettleTick, ReceiveLive
    <3> QED
      BY <3>1, <3>2, <3>4 DEF Next, Handler, Loop
  <2>2. Skipped + Len(out') = taken
    BY <2>1, LinesClosedStep DEF LinesClosed, Drain, Skipped
  <2>3. taken = arrived /\ (errc = "error" <=> body = "failed")
    BY <2>1 DEF LinesClosed, IInv, Flow
  <2>4. complained' <=> errc = "error"
    BY <2>1 DEF LinesClosed
  <2> QED
    BY <2>2, <2>3, <2>4
<1> QED
  BY <1>1, Invariance, PTL DEF Spec, EndIsComplete

-----------------------------------------------------------------------------
(* The bound on the backfill.                                              *)

\* No row still to be taken will pass for history.
HistoryOver ==
    \A i \in taken + 1..Len(feed) :
        feed[i] # "history" \/ (torn # 0 /\ torn <= i)

BoundInv ==
    /\ feed \in Steady
    /\ settle = "fired" => HistoryOver
    /\ pc = "following" /\ ~open => HistoryOver
    /\ HistoryBounded

\* The bound on the backfill speaks of the output and the stream only.
LEMMA SameRowsBounded ==
  ASSUME IInv, IInv', HistoryBounded, out' = out, feed' = feed,
         torn' = torn \/ torn = 0
  PROVE  HistoryBounded'
<1> SUFFICES ASSUME NEW k \in 1..Len(out), IsHistory(out[k])'
             PROVE  k <= Size
  BY DEF HistoryBounded
<1>1. out[k] # 0
  BY DrainedRows DEF IInv, NoGap
<1>2. IsHistory(out[k])
  BY <1>1 DEF IsHistory
<1> QED
  BY <1>2 DEF HistoryBounded

\* A step that adds no row to the output keeps the bound.
LEMMA SameBound ==
  ASSUME IInv, IInv', BoundInv, out' = out, feed' = feed, taken' = taken,
         torn' = torn \/ torn = 0,
         settle' = "fired" => settle = "fired",
         pc' = "following" /\ ~open' => pc = "following" /\ ~open
  PROVE  BoundInv'
<1>1. HistoryOver => HistoryOver'
  BY DEF HistoryOver
<1>2. HistoryBounded'
  BY SameRowsBounded DEF BoundInv
<1> QED
  BY <1>1, <1>2 DEF BoundInv

\* A row that goes out after the ring was closed is not history.
LEMMA NextIsLive ==
  ASSUME IInv, reader = "offering", HistoryOver
  PROVE  ~IsHistory(taken + 1)
<1>1. taken + 1 \in taken + 1..Len(feed) /\ taken + 1 <= arrived /\ taken \in Nat
      /\ torn \in Nat
  BY DEF IInv, TypeOK, Flow
<1>2. torn # 0 => torn = arrived
  BY DEF IInv, Flow
<1> QED
  BY <1>1, <1>2 DEF HistoryOver, IsHistory

\* Rows that are written before the ring is closed fit in it.
LEMMA FlushBounded ==
  ASSUME IInv, BoundInv, feed' = feed, torn' = torn,
         out' = Rows(Skipped, Len(out'))  ,
         \/ open /\ Len(out') \in 0..Held
         \/ ~open /\ Len(out') = Len(out)
         \/ /\ pc = "following" /\ Len(out') \in 0..Len(out) + Held + 1
            /\ ~IsHistory(taken + 1)
  PROVE  HistoryBounded'
<1>0. /\ Len(out) \in Nat /\ Held \in 0..Size /\ Skipped \in Nat /\ Size \in Nat
      /\ pc = "following" => Skipped + Len(out) + Held = taken
      /\ open => Len(out) = 0
      /\ ~open => Held = 0
      /\ open \in BOOLEAN
  BY DrainedRows, SizeIsPositive DEF IInv, NoGap, Held, TypeOK
<1> SUFFICES ASSUME NEW k \in 1..Len(out'), IsHistory(out'[k])
             PROVE  k <= Size
  BY DEF HistoryBounded, IsHistory
<1>1. Len(out') \in Nat /\ k \in Nat /\ k <= Len(out')
  BY <1>0
<1>2. out'[k] = Skipped + k
  BY DEF Rows
<1>3. k <= Len(out) => k <= Size
  <2> SUFFICES ASSUME k <= Len(out) PROVE k <= Size
    OBVIOUS
  <2>1. out[k] = Skipped + k
    BY <1>0, <1>1 DEF IInv, NoGap
  <2> QED
    BY <2>1, <1>0, <1>1, <1>2 DEF BoundInv, HistoryBounded
<1>4. CASE open /\ Len(out') \in 0..Held
  BY <1>4, <1>0, <1>1
<1>5. CASE ~open /\ Len(out') = Len(out)
  BY <1>5, <1>1, <1>3
<1>6. CASE /\ pc = "following" /\ Len(out') \in 0..Len(out) + Held + 1
           /\ ~IsHistory(taken + 1)
  <2>1. k # Len(out) + Held + 1
    BY <1>0, <1>2, <1>6
  <2> QED
    BY <2>1, <1>0, <1>1, <1>3, <1>6
<1> QED
  BY <1>4, <1>5, <1>6

\* Every step keeps the bound, when VictoriaLogs does not pause.
LEMMA BoundStep ==
  ASSUME IInv, IInv', BoundInv, [Next]_vars
  PROVE  BoundInv'
<1> USE DEF upstreamVars, readerVars, ringVars, linkVars, reportVars
<1>0. /\ HistoryFirst(feed) /\ feed \in Seq(Kinds) /\ taken \in 0..arrived
      /\ arrived \in 0..Len(feed) /\ torn \in Nat /\ Len(feed) \in Nat
  BY SteadyAssumption DEF BoundInv, IInv, TypeOK
<1>1. CASE Environment \/ Reader
  <2>1. out' = out /\ feed' = feed /\ taken' = taken /\ settle' = settle
        /\ pc' = pc /\ open' = open
    BY <1>1 DEF Environment, RowArrives, BodyEnds, PeerLeaves, CtxEnds, Reader,
                ReaderReads, ReaderEnds, ReaderGivesUp
  <2>2. torn' = torn \/ torn = 0
    BY <1>1 DEF Environment, RowArrives, BodyEnds, PeerLeaves, CtxEnds, Reader,
                ReaderReads, ReaderEnds, ReaderGivesUp, IInv, Flow
  <2> QED
    BY <2>1, <2>2, SameBound
<1>2. CASE Connect \/ Refuse \/ CtxDone \/ KeepaliveFails \/ UNCHANGED vars
  <2>1. out' = out /\ feed' = feed /\ taken' = taken /\ torn' = torn /\ open' = open
    BY <1>2 DEF Connect, Refuse, CtxDone, KeepaliveFails, vars
  <2>2. settle' = "fired" => settle = "fired"
    BY <1>2 DEF Connect, Refuse, CtxDone, KeepaliveFails, Return, vars
  <2>3. pc' = "following" /\ ~open' => pc = "following" /\ ~open
    BY <1>2 DEF Connect, Refuse, CtxDone, KeepaliveFails, Return, vars, IInv, Flow
  <2> QED
    BY <2>1, <2>2, <2>3, SameBound
<1>3. CASE SettleExpires
  <2>1. /\ out' = out /\ feed' = feed /\ taken' = taken /\ torn' = torn
        /\ open' = open /\ pc' = pc /\ settle = "armed"
        /\ taken < Len(feed) => feed[taken + 1] # "history"
    BY <1>3 DEF SettleExpires, BoundInv
  <2>2. HistoryOver
    <3> SUFFICES ASSUME NEW i \in taken + 1..Len(feed) PROVE feed[i] # "history"
      BY DEF HistoryOver
    <3>1. CASE i = taken + 1
      BY <3>1, <2>1, <1>0
    <3>2. CASE i > taken + 1
      <4>1. taken + 1 \in 1..Len(feed) /\ i \in 1..Len(feed) /\ taken + 1 < i
        BY <3>2, <1>0
      <4> QED
        BY <4>1, <2>1, <1>0 DEF HistoryFirst
    <3> QED
      BY <3>1, <3>2, <1>0
  <2>3. HistoryOver'
    BY <2>1, <2>2 DEF HistoryOver
  <2>4. open
    BY <2>1 DEF IInv, Flow
  <2>5. HistoryBounded'
    BY <2>1, SameRowsBounded DEF BoundInv
  <2> QED
    BY <2>1, <2>3, <2>4, <2>5 DEF BoundInv
<1>4. CASE SettleTick
  <2>1. /\ pc = "following" /\ settle = "fired" /\ settle' = "off" /\ feed' = feed
        /\ taken' = taken /\ torn' = torn
    BY <1>4 DEF SettleTick, GoOnOrReturn, Return
  <2>2. HistoryOver'
    BY <2>1 DEF BoundInv, HistoryOver
  <2>3. PICK k \in Accepted(Drained) : Write(Drained, k)
    BY <1>4 DEF SettleTick
  <2>4. /\ Drained = Rows(Skipped + Len(out), Held) /\ Held \in Nat
        /\ Len(out) \in Nat
    BY DrainedRows, SizeIsPositive
  <2>5. /\ k \in 0..Held /\ out' = Rows(Skipped, Len(out) + k)
        /\ Len(out') = Len(out) + k
    BY <2>3, <2>4, WriteRows
  <2>6. HistoryBounded'
    <3>1. open => Len(out') \in 0..Held
      BY <2>4, <2>5 DEF IInv, NoGap
    <3>2. ~open => Len(out') = Len(out)
      BY <2>4, <2>5 DEF Held
    <3> QED
      BY <2>1, <2>5, <3>1, <3>2, FlushBounded
  <2> QED
    BY <2>1, <2>2, <2>6 DEF BoundInv
<1>5. CASE ReceiveHistory
  <2>1. out' = out /\ feed' = feed /\ torn' = torn /\ settle' = "armed" /\ open'
    BY <1>5 DEF ReceiveHistory, Add
  <2>2. HistoryBounded'
    BY <2>1, SameRowsBounded DEF BoundInv
  <2> QED
    BY <2>1, <2>2 DEF BoundInv
<1>6. CASE ReceiveLive
  <2>1. /\ pc = "following" /\ settle' = "off" /\ feed' = feed /\ torn' = torn
        /\ taken' = taken + 1 /\ reader = "offering"
        /\ ~(open /\ IsHistory(taken + 1))
    BY <1>6 DEF ReceiveLive, HandOver, GoOnOrReturn, Return
  <2>2. ~IsHistory(taken + 1)
    BY <2>1, NextIsLive DEF BoundInv
  <2>3. taken + 1 \in 1..Len(feed)
    BY <2>1, <1>0 DEF IInv, Flow
  <2>4. HistoryOver'
    <3> SUFFICES ASSUME NEW i \in taken + 2..Len(feed), feed[i] = "history"
                 PROVE  torn # 0 /\ torn <= i
      BY <2>1, <1>0 DEF HistoryOver
    <3>1. feed[taken + 1] = "history"
      <4>1. i \in 1..Len(feed) /\ taken + 1 < i
        BY <1>0
      <4> QED
        BY <4>1, <2>3, <1>0 DEF HistoryFirst
    <3> QED
      BY <3>1, <2>2, <1>0 DEF IsHistory
  <2>5. PICK k \in Accepted(Append(Drained, taken + 1)) :
          Write(Append(Drained, taken + 1), k)
    BY <1>6 DEF ReceiveLive
  <2>6. /\ Append(Drained, taken + 1) = Rows(Skipped + Len(out), Held + 1)
        /\ Held + 1 \in Nat /\ Len(out) \in Nat
    BY <2>1, DrainedThenNext, DrainedRows
  <2>7. /\ k \in 0..Held + 1 /\ out' = Rows(Skipped, Len(out) + k)
        /\ Len(out') = Len(out) + k
    BY <2>5, <2>6, WriteRows
  <2>8. Len(out') \in 0..Len(out) + Held + 1
    BY <2>6, <2>7, DrainedRows, SizeIsPositive
  <2>9. HistoryBounded'
    BY <2>1, <2>2, <2>7, <2>8, FlushBounded
  <2> QED
    BY <2>1, <2>4, <2>9 DEF BoundInv
<1>7. CASE LinesClosed
  <2>1. /\ pc' = "returned" /\ settle' = "off" /\ feed' = feed /\ torn' = torn
    BY <1>7 DEF LinesClosed, Return
  <2>2. PICK k \in Accepted(Drained) : Write(Drained, k)
    BY <1>7 DEF LinesClosed
  <2>3. /\ Drained = Rows(Skipped + Len(out), Held) /\ Held \in Nat
        /\ Len(out) \in Nat
    BY DrainedRows, SizeIsPositive
  <2>4. /\ k \in 0..Held /\ out' = Rows(Skipped, Len(out) + k)
        /\ Len(out') = Len(out) + k
    BY <2>2, <2>3, WriteRows
  <2>5. HistoryBounded'
    <3>1. open => Len(out') \in 0..Held
      BY <2>3, <2>4 DEF IInv, NoGap
    <3>2. ~open => Len(out') = Len(out)
      BY <2>3, <2>4 DEF Held
    <3> QED
      BY <2>1, <2>4, <3>1, <3>2, FlushBounded
  <2> QED
    BY <2>1, <2>5 DEF BoundInv
<1> QED
  BY <1>1, <1>2, <1>3, <1>4, <1>5, <1>6, <1>7 DEF Next, Handler, Loop

\* No step changes what VictoriaLogs has for a tail.
LEMMA FeedIsFixed == [Next]_vars => feed' = feed
<1> USE DEF upstreamVars
<1> SUFFICES ASSUME [Next]_vars PROVE feed' = feed
  OBVIOUS
<1>1. CASE Environment \/ SettleExpires \/ Reader
  BY <1>1 DEF Environment, RowArrives, BodyEnds, PeerLeaves, CtxEnds, SettleExpires,
              Reader, ReaderReads, ReaderEnds, ReaderGivesUp
<1>2. CASE Handler
  BY <1>2 DEF Handler, Connect, Refuse, Loop, CtxDone, SettleTick, KeepaliveFails,
              ReceiveHistory, ReceiveLive, LinesClosed
<1>3. CASE UNCHANGED vars
  BY <1>3 DEF vars
<1> QED
  BY <1>1, <1>2, <1>3 DEF Next

\* As long as VictoriaLogs sends the history first and does not pause in it for
\* backfillSettle, no more than `limit` rows of it reach the browser, whatever
\* the limit.  Without either assumption the bound fails.
THEOREM BackfillIsBounded == Spec => []BackfillBounded
<1> DEFINE Bound == feed \in Steady => BoundInv
<1>1. Init => Bound
  BY DEF Init, BoundInv, HistoryBounded
<1>2. IInv /\ IInv' /\ Bound /\ [Next]_vars => Bound'
  BY BoundStep, FeedIsFixed
<1>3. Bound => BackfillBounded
  BY DEF BoundInv, BackfillBounded
<1> QED
  BY <1>1, <1>2, <1>3, Invariance, PTL DEF Spec

-----------------------------------------------------------------------------
(* The handler implements the abstract tail.                               *)

MappedSkipped == IF open THEN 0 ELSE Skipped
MappedPhase   == IF pc = "returned" THEN "over"
                 ELSE IF open THEN "holding" ELSE "following"

\* A step that writes nothing leaves the abstract tail alone or ends it.
LEMMA SilentStep ==
  ASSUME IInv, IInv', UNCHANGED <<out, open>>, ~open => added' = added,
         pc' = pc \/ pc' = "returned" \/ (pc = "connecting" /\ pc' = "following")
  PROVE  [Promise!PNext]_(Promise!pvars)
<1>1. MappedSkipped' = MappedSkipped
  BY DEF MappedSkipped, Skipped
<1>2. MappedPhase' = MappedPhase \/ MappedPhase' = "over"
  BY DEF MappedPhase
<1> QED
  BY <1>1, <1>2 DEF MappedSkipped, MappedPhase, Promise!PNext, Promise!End,
                    Promise!pvars

\* Closing the ring releases what it holds, with the row that closed it if any.
LEMMA ReleaseStep ==
  ASSUME IInv, IInv', open, ~open', added' = added, pc = "following",
         pc' \in {"following", "returned"}, Len(out') <= Held + 1,
         pc' = "following" => Len(out') >= Held
  PROVE  Promise!PNext
<1>1. /\ Size \in Nat /\ Held \in 0..Size /\ Held = added - Skipped
      /\ Skipped' = Skipped /\ Skipped \in Nat /\ added \in Nat /\ Len(out') \in Nat
  BY DrainedRows, SizeIsPositive DEF Held, Skipped, IInv, TypeOK
<1>2. Skipped > 0 => Held = Size
  BY <1>1 DEF Skipped
<1>3. MappedPhase = "holding" /\ MappedPhase' \in {"following", "over"}
      /\ MappedSkipped' = Skipped
  BY <1>1 DEF MappedPhase, MappedSkipped
<1>4. out' = [j \in 1..Len(out') |-> Skipped + j]
  BY <1>1 DEF IInv, NoGap
<1>5. Len(out') <= Size + 1
  BY <1>1
<1>6. MappedPhase' = "following" => pc' = "following"
  BY DEF MappedPhase
<1>7. MappedPhase' = "following" /\ Skipped > 0 => Len(out') >= Size
  BY <1>1, <1>2, <1>6
<1>8. Promise!Run(MappedSkipped', Len(out')) = out'
  BY <1>3, <1>4 DEF Promise!Run
<1> QED
  BY <1>1, <1>3, <1>5, <1>7, <1>8
     DEF Promise!PNext, Promise!Release, MappedSkipped, MappedPhase

\* Every step of the handler is a step of the abstract tail, or none.
LEMMA PromiseStep ==
  ASSUME IInv, IInv', [Next]_vars
  PROVE  [Promise!PNext]_(Promise!pvars)
<1> USE DEF upstreamVars, readerVars, ringVars, linkVars, reportVars
<1>1. CASE Environment \/ SettleExpires \/ Reader \/ UNCHANGED vars
  BY <1>1, SilentStep DEF Environment, RowArrives, BodyEnds, PeerLeaves, CtxEnds,
     SettleExpires, Reader, ReaderReads, ReaderEnds, ReaderGivesUp, vars
<1>2. CASE Connect \/ Refuse \/ CtxDone \/ KeepaliveFails
  BY <1>2, SilentStep DEF Connect, Refuse, CtxDone, KeepaliveFails, Return
<1>3. CASE ReceiveHistory
  BY <1>3, SilentStep DEF ReceiveHistory, Add
<1>4. CASE SettleTick \/ LinesClosed
  <2>1. PICK k \in Accepted(Drained) :
          /\ Write(Drained, k)
          /\ GoOnOrReturn(Drained, k) \/ Return
    BY <1>4 DEF SettleTick, LinesClosed
  <2>2. /\ pc = "following" /\ open' = FALSE /\ added' = added
        /\ SettleTick => open
    BY <1>4 DEF SettleTick, LinesClosed, Drain, IInv, Flow
  <2>3. /\ Drained = Rows(Skipped + Len(out), Held) /\ Held \in Nat
        /\ Len(out) \in Nat /\ Skipped \in Nat
    BY DrainedRows, SizeIsPositive
  <2>4. /\ k \in 0..Held /\ Len(out') = Len(out) + k
        /\ out' = Rows(Skipped, Len(out) + k)
    BY <2>1, <2>3, WriteRows
  <2>5. Len(Drained) = Held
    BY <2>3, RowsType
  <2>6. CASE open
    <3>1. Len(out) = 0
      BY <2>6 DEF IInv, NoGap
    <3>2. pc' \in {"following", "returned"} /\ (pc' = "following" => k = Held)
      BY <2>1, <2>2, <2>5 DEF GoOnOrReturn, Return
    <3> QED
      BY <2>2, <2>3, <2>4, <2>6, <3>1, <3>2, ReleaseStep
  <2>7. CASE ~open
    <3>0. Held = 0 /\ out = Rows(Skipped, Len(out))
      BY <2>7 DEF Held, IInv, NoGap, Rows
    <3>1. out' = out
      <4>1. Len(out) + k = Len(out)
        BY <2>3, <2>4, <3>0
      <4> QED
        BY <4>1, <2>4, <3>0
    <3>2. pc' = "returned"
      BY <1>4, <2>2, <2>7 DEF LinesClosed, Return
    <3>3. open' = open
      BY <2>2, <2>7 DEF IInv, TypeOK
    <3> QED
      BY <2>2, <3>1, <3>2, <3>3, SilentStep
  <2> QED
    BY <2>6, <2>7
<1>5. CASE ReceiveLive
  <2>1. PICK k \in Accepted(Append(Drained, taken + 1)) :
          /\ Write(Append(Drained, taken + 1), k)
          /\ GoOnOrReturn(Append(Drained, taken + 1), k)
    BY <1>5 DEF ReceiveLive
  <2>2. pc = "following" /\ open' = FALSE /\ added' = added
    BY <1>5 DEF ReceiveLive, HandOver, Drain
  <2>3. /\ Append(Drained, taken + 1) = Rows(Skipped + Len(out), Held + 1)
        /\ Held + 1 \in Nat /\ Held \in Nat /\ Len(out) \in Nat /\ Skipped \in Nat
    BY <2>2, DrainedThenNext, DrainedRows, SizeIsPositive
  <2>4. /\ k \in 0..Held + 1 /\ Len(out') = Len(out) + k
        /\ out' = Rows(Skipped, Len(out) + k)
    BY <2>1, <2>3, WriteRows
  <2>5. Len(Append(Drained, taken + 1)) = Held + 1
    BY <2>3, RowsType
  <2>6. /\ pc' \in {"following", "returned"}
        /\ pc' = "following" => k = Held + 1
        /\ k = Held + 1 => pc' = "following"
    BY <2>1, <2>2, <2>3, <2>5 DEF GoOnOrReturn, Return
  <2>7. CASE open
    <3>1. Len(out) = 0
      BY <2>7 DEF IInv, NoGap
    <3> QED
      BY <2>2, <2>3, <2>4, <2>6, <2>7, <3>1, ReleaseStep
  <2>8. CASE ~open
    <3>1. Held = 0 /\ open' = open
      BY <2>2, <2>8 DEF Held, IInv, TypeOK
    <3>2. out = Rows(Skipped, Len(out))
      BY DEF IInv, NoGap, Rows
    <3>3. CASE k = 0
      BY <2>2, <2>3, <2>4, <2>6, <3>1, <3>2, <3>3, SilentStep
    <3>4. CASE k = 1
      <4>1. Skipped' = Skipped
        BY <2>2 DEF Skipped
      <4>2. out' = Append(out, Skipped + Len(out) + 1)
        BY <2>3, <2>4, <3>2, <3>4, RowsAppend
      <4>3. pc' = "following"
        BY <2>6, <3>1, <3>4
      <4> QED
        BY <2>2, <2>8, <3>1, <4>1, <4>2, <4>3 DEF Promise!PNext, Promise!Follow
    <3> QED
      BY <2>4, <3>1, <3>3, <3>4
  <2> QED
    BY <2>7, <2>8
<1> QED
  BY <1>1, <1>2, <1>3, <1>4, <1>5 DEF Next, Handler, Loop

\* Every behaviour of the handler is one of the abstract tail.
THEOREM TailKeepsPromise == Spec => KeepsPromise
<1>1. Init => Promise!PInit
  BY DEF Init, Promise!PInit
<1>2. IInv /\ IInv' /\ [Next]_vars => [Promise!PNext]_(Promise!pvars)
  BY PromiseStep
<1> QED
  BY <1>1, <1>2, Invariance, PTL DEF Spec, KeepsPromise, Promise!PSpec
=============================================================================
