-------------------------- MODULE WorkspaceProofs --------------------------
(***************************************************************************)
(* What the workspace keeps for every deployment and however long the      *)
(* visit: the pane has one writer, the banner is about what was asked for  *)
(* last, the histogram is that of the window that is shown (IInv); what    *)
(* settles on the pane, and what is behind the gate (Screen); and the      *)
(* types of all of it (Panels).                                            *)
(***************************************************************************)
EXTENDS Workspace, FiniteSetTheorems, SequenceTheorems, TLAPS

\* A call of run().
Call == [id : 1..MaxRequests, collected : Seq(Row), aborted : BOOLEAN]

\* Types, as far as the rest needs them.
CallsTyped ==
    /\ asked \in Seq(Request) /\ Latest <= MaxRequests
    /\ tool \in Tools
    /\ runs \subseteq Call

\* Only what was asked for last still writes: a query whose call was not
\* aborted, or a tail, and there is no second one.
LatestWrites ==
    /\ \A r \in runs : ~r.aborted => r.id = Latest /\ source = 0
    /\ \A r, s \in runs : ~r.aborted /\ ~s.aborted => r = s
    /\ source \in {0, Latest} /\ error \in {0, Latest}

\* A histogram that is awaited, or drawn for good, is of the window shown.
HitsFollow ==
    ~signedOut =>
        /\ hitsAsked \subseteq {shownRange}
        /\ ~hitsLoading /\ hits # 0 => hits = shownRange

IInv == CallsTyped /\ LatestWrites /\ HitsFollow

\* An aborted call stays what it was, and is no longer live.
LEMMA AllAborted ==
  ASSUME CallsTyped
  PROVE  /\ Aborted \subseteq Call
         /\ \A r \in Aborted : r.aborted
<1> SUFFICES ASSUME NEW r \in runs
             PROVE  /\ [r EXCEPT !.aborted = TRUE] \in Call
                    /\ [r EXCEPT !.aborted = TRUE].aborted
  BY DEF Aborted
<1>1. r \in Call
  BY DEF CallsTyped
<1> QED
  BY <1>1 DEF Call

LEMMA StartsAlone == Init => IInv
<1> SUFFICES ASSUME Init PROVE IInv
  OBVIOUS
<1>1. Latest = 0 /\ asked \in Seq(Request)
  BY DEF Init, Latest
<1>2. CallsTyped
  BY <1>1, BoundsAssumption DEF Init, CallsTyped
<1>3. LatestWrites /\ HitsFollow
  BY <1>1 DEF Init, LatestWrites, HitsFollow
<1> QED
  BY <1>2, <1>3 DEF IInv

-----------------------------------------------------------------------------
(* The actions, by what they do to the calls.                              *)

\* Something is asked for.
LEMMA OneMoreAsked ==
  ASSUME CallsTyped, Latest < MaxRequests, NEW kind \in {"run", "tail"}, Ask(kind),
         tool' \in Tools
  PROVE  /\ asked' \in Seq(Request) /\ Latest' = Latest + 1
         /\ Latest' \in 1..MaxRequests /\ Len(asked') = Latest'
<1>1. [kind |-> kind, tool |-> tool'] \in Request
  BY DEF Request
<1>2. asked \in Seq(Request) /\ Len(asked) \in Nat
  BY DEF CallsTyped
<1>3. asked' \in Seq(Request) /\ Len(asked') = Len(asked) + 1
  BY <1>1, <1>2 DEF Ask
<1> QED
  BY <1>2, <1>3, BoundsAssumption DEF Latest

\* A query starts, and everything before it is aborted.
LEMMA QueryStarts ==
  ASSUME IInv, Start, tool' \in Tools
  PROVE  IInv'
<1> DEFINE new == [id |-> Len(asked'), collected |-> <<>>, aborted |-> FALSE]
<1>1. /\ asked' \in Seq(Request) /\ Latest' = Latest + 1
      /\ Latest' \in 1..MaxRequests /\ Len(asked') = Latest'
  BY OneMoreAsked DEF IInv, Start
<1>2. runs' = Aborted \cup {new} /\ source' = 0 /\ error' = 0
  BY DEF Start
<1>3. new \in Call /\ new.id = Latest' /\ ~new.aborted
  BY <1>1 DEF Call
<1> HIDE DEF new
<1>4. CallsTyped'
  BY <1>1, <1>2, <1>3, AllAborted DEF IInv, CallsTyped
<1>5. LatestWrites'
  <2>1. \A r \in runs' : ~r.aborted => r = new
    BY <1>2, AllAborted DEF IInv
  <2> QED
    BY <1>2, <1>3, <2>1 DEF LatestWrites
<1>6. HitsFollow'
  BY DEF Start, LoadHits, HitsFollow
<1> QED
  BY <1>4, <1>5, <1>6 DEF IInv

\* Everything is aborted, and perhaps a tail begins.
LEMMA CallsAborted ==
  ASSUME IInv, CancelAll, asked' = asked, tool' = tool,
         source' \in {0, source}, error' = error,
         UNCHANGED <<shownRange, hits, hitsLoading>>, signedOut' \in {signedOut, TRUE}
  PROVE  IInv'
<1>1. CallsTyped'
  BY AllAborted DEF IInv, CallsTyped, CancelAll, Latest
<1>2. LatestWrites'
  BY AllAborted DEF IInv, LatestWrites, CancelAll, Latest
<1>3. HitsFollow'
  BY DEF IInv, HitsFollow, CancelAll
<1> QED
  BY <1>1, <1>2, <1>3 DEF IInv

LEMMA TailStarts ==
  ASSUME IInv, Follow
  PROVE  IInv'
<1>1. /\ asked' \in Seq(Request) /\ Latest' = Latest + 1
      /\ Latest' \in 1..MaxRequests /\ Len(asked') = Latest'
  BY OneMoreAsked DEF IInv, Follow, CallsTyped
<1>2. CallsTyped'
  BY <1>1, AllAborted DEF IInv, CallsTyped, Follow, CancelAll
<1>3. LatestWrites'
  BY <1>1, AllAborted DEF IInv, LatestWrites, Follow, CancelAll
<1>4. HitsFollow'
  BY DEF HitsFollow, Follow, CancelAll
<1> QED
  BY <1>2, <1>3, <1>4 DEF IInv

\* A call goes on: it is live, so it is the latest.
LEMMA CallGoesOn ==
  ASSUME IInv, NEW r \in runs, Batch(r)
  PROVE  IInv'
<1> PICK at \in 1..MaxRows :
       runs' = (runs \ {r}) \cup
          {[r EXCEPT !.collected = Append(r.collected, [src |-> r.id, at |-> at])]}
  BY DEF Batch
<1> DEFINE more == [r EXCEPT !.collected = Append(r.collected, [src |-> r.id, at |-> at])]
<1>1. r \in Call
  BY DEF IInv, CallsTyped
<1>2. [src |-> r.id, at |-> at] \in Row
  BY <1>1 DEF Row, Call
<1>3. /\ more \in Call
      /\ more.id = r.id /\ more.aborted = r.aborted
  BY <1>1, <1>2 DEF Call
<1>4. UNCHANGED <<tool, asked, source, error, shownRange, hits, hitsAsked, hitsLoading, signedOut>>
  BY DEF Batch, hitsVars, tailVars, sessionVars
<1>5. CallsTyped'
  BY <1>3, <1>4 DEF IInv, CallsTyped, Latest
<1>6. LatestWrites'
  <2>1. \A s \in runs : ~s.aborted
    BY DEF Batch, Task
  <2>2. runs = {r}
    BY <2>1 DEF IInv, LatestWrites
  <2>3. runs' = {more}
    BY <2>2
  <2> QED
    BY <1>3, <1>4, <2>1, <2>3 DEF IInv, LatestWrites, Latest
<1>7. HitsFollow'
  BY <1>4 DEF IInv, HitsFollow
<1> QED
  BY <1>5, <1>6, <1>7 DEF IInv

\* A call returns; one that failed was the latest.
LEMMA CallReturns ==
  ASSUME IInv, NEW r \in runs, RunEnds(r) \/ RunFails(r) \/ RunAborted(r)
  PROVE  IInv'
<1>1. /\ runs' = runs \ {r} /\ UNCHANGED <<tool, asked, source, shownRange, hits, hitsAsked, hitsLoading>>
      /\ signedOut' \in {signedOut, TRUE}
  BY DEF RunEnds, RunFails, RunAborted, AbortRaises, Return, hitsVars, tailVars, sessionVars
<1>2. error' = error \/ error' = Latest
  BY DEF RunEnds, RunFails, RunAborted, Task, IInv, LatestWrites
<1>3. CallsTyped'
  BY <1>1 DEF IInv, CallsTyped, Latest
<1>4. LatestWrites'
  BY <1>1, <1>2 DEF IInv, LatestWrites, Latest
<1>5. HitsFollow'
  BY <1>1 DEF IInv, HitsFollow
<1> QED
  BY <1>3, <1>4, <1>5 DEF IInv

\* The histogram arrives, or does not.
LEMMA HitsAnswered ==
  ASSUME IInv, HitsArrive \/ HitsFail
  PROVE  IInv'
<1>1. UNCHANGED <<tool, asked, runs, source, error, shownRange>> /\ signedOut' \in {signedOut, TRUE}
  BY DEF HitsArrive, HitsFail, runVars, tailVars, sessionVars
<1>2. PICK h \in hitsAsked : hitsAsked' = hitsAsked \ {h} /\ hits' \in {0, h}
  BY DEF HitsArrive, HitsFail
<1>3. CallsTyped' /\ LatestWrites'
  BY <1>1 DEF IInv, CallsTyped, LatestWrites, Latest
<1>4. HitsFollow'
  BY <1>1, <1>2 DEF IInv, HitsFollow
<1> QED
  BY <1>3, <1>4 DEF IInv

\* What is left leaves calls and histogram alone, or clears the screen behind
\* the gate.
LEMMA CallsLeftAlone ==
  ASSUME IInv, UNCHANGED <<tool, asked, runs>>,
         source' \in {0, source}, error' \in {0, error, Latest},
         signedOut' \in {signedOut, TRUE},
         signedOut' \/ UNCHANGED <<shownRange, hits, hitsAsked, hitsLoading>>
  PROVE  IInv'
<1>1. CallsTyped' /\ LatestWrites'
  BY DEF IInv, CallsTyped, LatestWrites, Latest
<1>2. HitsFollow'
  BY DEF IInv, HitsFollow
<1> QED
  BY <1>1, <1>2 DEF IInv

LEMMA StaysAlone == IInv /\ [Next]_vars => IInv'
<1> SUFFICES ASSUME IInv, [Next]_vars PROVE IInv'
  OBVIOUS
<1>1. CASE Run
  BY <1>1, QueryStarts DEF Run, IInv, CallsTyped
<1>2. ASSUME NEW t \in Tools, SelectTool(t) PROVE IInv'
  BY <1>2, QueryStarts DEF SelectTool
<1>3. CASE Cancel \/ SignOut
  BY <1>3, CallsAborted DEF Cancel, SignOut, CancelAll, AbortRaises, StopTail, tailVars
<1>4. CASE ToggleFacets \/ StopFollowing \/ FacetsArrive \/ FacetsFail
  BY <1>4, CallsLeftAlone
  DEF ToggleFacets, AbortRaises, StopFollowing, FacetsArrive, FacetsFail, StopTail, runVars, hitsVars,
      tailVars, sessionVars
<1>5. CASE TailRow \/ FlushTail \/ ConnectGrace \/ ProbeAnswered
  BY <1>5, CallsLeftAlone
  DEF TailRow, FlushTail, ConnectGrace, ProbeAnswered, runVars, hitsVars, tailVars, sessionVars
<1>6. CASE TailFails
  <2>1. source = Latest
    BY <1>6 DEF TailFails, IInv, LatestWrites
  <2> QED
    BY <1>6, <2>1, CallsLeftAlone DEF TailFails, StopTail, runVars, hitsVars
<1>7. CASE LoggedOut
  BY <1>7, CallsLeftAlone DEF LoggedOut, runVars, tailVars
<1>8. CASE UNCHANGED vars
  BY <1>8, CallsLeftAlone DEF vars, runVars, hitsVars, tailVars, sessionVars
<1> QED
  BY <1>1, <1>2, <1>3, <1>4, <1>5, <1>6, <1>7, <1>8, TailStarts, CallGoesOn, CallReturns,
     HitsAnswered
  DEF Next, Reader, Answers, Timers

-----------------------------------------------------------------------------
\* The pane has one writer, whatever the reader clicks while one is in flight
\* (run, toggleTail, stopEverything).
THEOREM PaneHasOneWriter == Spec => []OneWriter
<1>1. ASSUME IInv PROVE OneWriter
  <2>1. CASE Live = {}
    <3>1. Cardinality(Live) = 0
      BY <2>1, FS_EmptySet
    <3> QED
      BY <3>1 DEF OneWriter
  <2>2. CASE Live # {}
    <3>1. PICK r \in Live : TRUE
      BY <2>2
    <3>2. Live = {r} /\ source = 0
      BY <1>1, <3>1 DEF IInv, LatestWrites, Live
    <3>3. Cardinality(Live) = 1
      BY <3>2, FS_Singleton
    <3> QED
      BY <3>2, <3>3 DEF OneWriter
  <2> QED
    BY <2>1, <2>2
<1> QED
  BY <1>1, StartsAlone, StaysAlone, PTL DEF Spec

\* The banner is about the last thing the reader asked for: an aborted query
\* says nothing (run, onError).
THEOREM BannerIsTheLatest == Spec => []ErrorIsTheLatest
<1>1. IInv => ErrorIsTheLatest
  BY DEF IInv, LatestWrites, ErrorIsTheLatest
<1> QED
  BY <1>1, StartsAlone, StaysAlone, PTL DEF Spec

\* The histogram is drawn over the window that is shown (loadHits).
THEOREM HistogramMatches == Spec => []HitsMatchWindow
<1>1. IInv => HitsMatchWindow
  BY DEF IInv, HitsFollow, HitsMatchWindow
<1> QED
  BY <1>1, StartsAlone, StaysAlone, PTL DEF Spec

-----------------------------------------------------------------------------
(* What is on the screen.  Each part is inductive given the parts above.   *)

\* The rows of a call, of the buffer and of the screen.
RowsTyped ==
    /\ rows \in Seq(Row) /\ buffer \in Seq(Row)
    /\ received \in Nat
    /\ \A r \in runs : \A i \in 1..Len(r.collected) : r.collected[i].src = r.id
    /\ \A i \in 1..Len(buffer) : buffer[i].src = source
    /\ source = 0 => buffer = <<>>

\* What was asked for last, and what is shown of it.
LastAsked ==
    /\ Latest > 0 => asked[Latest].tool = tool
    /\ \A r \in runs : r.id \in 1..Latest
    /\ source # 0 => asked[Latest].kind = "tail"
    /\ \A r \in runs : ~r.aborted => asked[Latest].kind = "run"
    /\ \A r \in runs : r.id = Latest => asked[Latest].kind = "run"
    /\ ~signedOut => shownRange \in {0, Latest}
    /\ running => runs # {}

\* The latest query, if it is one, is in flight, or has left its rows.
RowsOfQuery ==
    /\ \A r \in runs : r.aborted /\ r.id = Latest => runs = {r}
    /\ (Latest > 0 /\ asked[Latest].kind = "run") =>
          \/ \E r \in runs : r.id = Latest
          \/ runs = {} /\ \A i \in 1..Len(rows) : rows[i].src = Latest

\* The rows of the tail, if it is one, are the newest on top; it has none while
\* a query it has aborted is still to return.
NewestOnTop(pane, n) ==
    /\ n >= (IF received < Cap THEN received ELSE Cap)
    /\ \A i \in 1..n : pane[i] = [src |-> Latest, at |-> received - i + 1]
    /\ \A i \in (n+1)..Len(pane) : pane[i].src # Latest

RowsOfTail ==
    (Latest > 0 /\ asked[Latest].kind = "tail") =>
        /\ runs # {} => received = 0 /\ buffer = <<>>
        /\ ~signedOut => \E n \in 0..Len(TailPane) : NewestOnTop(TailPane, n)

\* Nothing that was asked for before a sign-out is at work, or shown.
Left ==
    /\ leftAt \in 0..Latest /\ leaving \in Nat
    /\ leftAt > 0 => leaving # 0 \/ signedOut
    /\ \A r \in runs : ~r.aborted => r.id > leftAt
    /\ source = 0 \/ source > leftAt
    /\ \A h \in hitsAsked : h > leftAt

Gate ==
    (signedOut /\ leaving = 0 /\ leftAt > 0) =>
        /\ \A r \in runs : r.id > leftAt
        /\ error \notin 1..leftAt /\ hits \notin 1..leftAt
        /\ \A i \in 1..Len(rows) : rows[i].src > leftAt

Screen == RowsTyped /\ LastAsked /\ RowsOfQuery /\ RowsOfTail /\ Left /\ Gate

(* The helpers on rows.                                                    *)

LEMMA Reversed ==
  ASSUME NEW rs \in Seq(Row)
  PROVE  /\ Reverse(rs) \in Seq(Row) /\ Len(Reverse(rs)) = Len(rs)
         /\ \A i \in 1..Len(rs) : Reverse(rs)[i] = rs[Len(rs) - i + 1]
<1> DEFINE n == Len(rs)
<1>1. n \in Nat /\ \A i \in 1..n : rs[i] \in Row
  OBVIOUS
<1>2. \A i \in 1..n : n - i + 1 \in 1..n
  BY <1>1
<1>3. Reverse(rs) = [i \in 1..n |-> rs[n - i + 1]]
  BY DEF Reverse
<1> HIDE DEF n
<1>4. Reverse(rs) \in [1..n -> Row]
  BY <1>1, <1>2, <1>3
<1>5. Reverse(rs) \in Seq(Row) /\ Len(Reverse(rs)) = n
  BY <1>1, <1>4
<1> QED
  BY <1>3, <1>5 DEF n

\* What is on the screen, is in the buffer, or is cut.
LEMMA OnTop ==
  ASSUME NEW bs \in Seq(Row), NEW rs \in Seq(Row)
  PROVE  /\ Reverse(bs) \o rs \in Seq(Row)
         /\ Len(Reverse(bs) \o rs) = Len(bs) + Len(rs)
         /\ \A i \in 1..Len(bs) : (Reverse(bs) \o rs)[i] = bs[Len(bs) - i + 1]
         /\ \A i \in (Len(bs)+1)..(Len(bs) + Len(rs)) :
               (Reverse(bs) \o rs)[i] = rs[i - Len(bs)]
<1> DEFINE top == Reverse(bs)
<1>1. /\ top \in Seq(Row) /\ Len(top) = Len(bs)
      /\ \A i \in 1..Len(bs) : top[i] = bs[Len(bs) - i + 1]
  BY Reversed
<1> HIDE DEF top
<1>2. top \o rs \in Seq(Row) /\ Len(top \o rs) = Len(bs) + Len(rs)
  BY <1>1
<1>3. \A i \in 1..Len(bs) : (top \o rs)[i] = top[i]
  BY <1>1
<1>4. \A i \in (Len(bs)+1)..(Len(bs) + Len(rs)) : (top \o rs)[i] = rs[i - Len(bs)]
  BY <1>1
<1> QED
  BY <1>1, <1>2, <1>3, <1>4 DEF top

LEMMA NothingOnTop ==
  ASSUME NEW rs \in Seq(Row)
  PROVE  /\ Len(Reverse(<<>>) \o rs) = Len(rs)
         /\ \A i \in 1..Len(rs) : (Reverse(<<>>) \o rs)[i] = rs[i]
<1> DEFINE bs == <<>>
           all == Reverse(bs) \o rs
<1>1. bs \in Seq(Row) /\ Len(bs) = 0 /\ Len(rs) \in Nat
  OBVIOUS
<1> HIDE DEF bs
<1>2. /\ Len(all) = Len(bs) + Len(rs)
      /\ \A i \in (Len(bs)+1)..(Len(bs) + Len(rs)) : all[i] = rs[i - Len(bs)]
  BY <1>1, OnTop, Zenon
<1> HIDE DEF all
<1>3. \A i \in 1..Len(rs) : i \in (0+1)..(0 + Len(rs)) /\ i - 0 = i
  BY <1>1
<1>4. Len(all) = Len(rs) /\ \A i \in 1..Len(rs) : all[i] = rs[i]
  BY <1>1, <1>2, <1>3
<1> QED
  BY <1>4 DEF all, bs

LEMMA Cut ==
  ASSUME NEW rs \in Seq(Row)
  PROVE  /\ FirstRows(Cap, rs) \in Seq(Row)
         /\ Len(FirstRows(Cap, rs)) = IF Cap < Len(rs) THEN Cap ELSE Len(rs)
         /\ \A i \in 1..Len(FirstRows(Cap, rs)) : FirstRows(Cap, rs)[i] = rs[i]
<1> DEFINE m == IF Cap < Len(rs) THEN Cap ELSE Len(rs)
<1>1. m \in 0..Len(rs)
  BY CapAssumption
<1>2. FirstRows(Cap, rs) = SubSeq(rs, 1, m)
  BY DEF FirstRows
<1> HIDE DEF m
<1>3. /\ SubSeq(rs, 1, m) \in Seq(Row) /\ Len(SubSeq(rs, 1, m)) = m
      /\ \A i \in 1..m : SubSeq(rs, 1, m)[i] = rs[i]
  BY <1>1
<1> QED
  BY <1>2, <1>3 DEF m

\* The rows of a query that has come to its end are those it has delivered.
LEMMA Sorted ==
  ASSUME NEW rs \in Seq(Row), NEW sorted \in NewestFirst(rs)
  PROVE  /\ sorted \in Seq(Row) /\ Len(sorted) = Len(rs)
         /\ \A i \in 1..Len(sorted) : \E j \in 1..Len(rs) : sorted[i] = rs[j]
<1>1. PICK p \in [DOMAIN rs -> DOMAIN rs] : sorted = [i \in DOMAIN rs |-> rs[p[i]]]
  BY DEF NewestFirst
<1>2. DOMAIN rs = 1..Len(rs) /\ Len(rs) \in Nat /\ \A i \in 1..Len(rs) : rs[i] \in Row
  OBVIOUS
<1>3. sorted \in [1..Len(rs) -> Row]
  BY <1>1, <1>2
<1>4. sorted \in Seq(Row) /\ Len(sorted) = Len(rs)
  BY <1>2, <1>3
<1> QED
  BY <1>1, <1>2, <1>4

\* A pane that a tail's buffer was put on is made of its rows and the buffer's.
LEMMA FlushedRows ==
  ASSUME rows \in Seq(Row), buffer \in Seq(Row)
  PROVE  /\ Flushed \in Seq(Row)
         /\ \A i \in 1..Len(Flushed) :
               \/ \E j \in 1..Len(rows) : Flushed[i] = rows[j]
               \/ \E j \in 1..Len(buffer) : Flushed[i] = buffer[j]
<1>1. CASE buffer = <<>>
  BY <1>1 DEF Flushed
<1>2. CASE buffer # <<>>
  <2> DEFINE all == Reverse(buffer) \o rows
  <2>1. /\ all \in Seq(Row) /\ Len(all) = Len(buffer) + Len(rows)
        /\ \A i \in 1..Len(buffer) : all[i] = buffer[Len(buffer) - i + 1]
        /\ \A i \in (Len(buffer)+1)..(Len(buffer) + Len(rows)) : all[i] = rows[i - Len(buffer)]
    BY OnTop
  <2>2. Flushed = FirstRows(Cap, all)
    BY <1>2 DEF Flushed
  <2> HIDE DEF all
  <2>3. /\ Flushed \in Seq(Row) /\ Len(Flushed) <= Len(all)
        /\ \A i \in 1..Len(Flushed) : Flushed[i] = all[i]
    <3>1. all \in Seq(Row) /\ Len(all) \in Nat
      BY <2>1
    <3>2. /\ FirstRows(Cap, all) \in Seq(Row)
          /\ Len(FirstRows(Cap, all)) = IF Cap < Len(all) THEN Cap ELSE Len(all)
          /\ \A i \in 1..Len(FirstRows(Cap, all)) : FirstRows(Cap, all)[i] = all[i]
      BY <3>1, Cut, Zenon
    <3>3. Len(FirstRows(Cap, all)) <= Len(all)
      BY <3>1, <3>2, CapAssumption
    <3> QED
      BY <2>2, <3>2, <3>3, Zenon
  <2>4. ASSUME NEW i \in 1..Len(all)
        PROVE  \/ \E j \in 1..Len(rows) : all[i] = rows[j]
               \/ \E j \in 1..Len(buffer) : all[i] = buffer[j]
    <3>1. CASE i <= Len(buffer)
      <4>1. Len(buffer) - i + 1 \in 1..Len(buffer)
        BY <3>1
      <4> QED
        BY <2>1, <3>1, <4>1
    <3>2. CASE i > Len(buffer)
      <4>1. i - Len(buffer) \in 1..Len(rows)
        BY <2>1, <3>2
      <4> QED
        BY <2>1, <3>2, <4>1
    <3> QED
      BY <3>1, <3>2
  <2>5. \A i \in 1..Len(Flushed) : i \in 1..Len(all)
    BY <2>1, <2>3
  <2> QED
    BY <2>3, <2>4, <2>5
<1> QED
  BY <1>1, <1>2

\* An aborted call has the rows it had.
LEMMA AbortedSame ==
  ASSUME CallsTyped
  PROVE  /\ \A a \in Aborted : a.aborted /\ \E r \in runs : a.id = r.id /\ a.collected = r.collected
         /\ \A r \in runs : \E a \in Aborted : a.id = r.id
         /\ Aborted = {} <=> runs = {}
         /\ \A r \in runs : runs = {r} => \A a, b \in Aborted : a = b
<1> SUFFICES ASSUME NEW r \in runs
             PROVE  LET a == [r EXCEPT !.aborted = TRUE]
                    IN  a.aborted /\ a.id = r.id /\ a.collected = r.collected
  BY DEF Aborted
<1>1. r \in Call
  BY DEF CallsTyped
<1> QED
  BY <1>1 DEF Call

\* Rows that were the newest on top are so when the buffer is flushed.
LEMMA StillNewest ==
  ASSUME RowsTyped, Latest \in Nat, NEW n \in 0..Len(TailPane), NewestOnTop(TailPane, n)
  PROVE  \E m \in 0..Len(Flushed) : NewestOnTop(Flushed, m)
<1>1. /\ Reverse(buffer) \o rows \in Seq(Row)
      /\ Len(Reverse(buffer) \o rows) = Len(buffer) + Len(rows)
      /\ \A i \in (Len(buffer)+1)..(Len(buffer) + Len(rows)) :
            (Reverse(buffer) \o rows)[i] = rows[i - Len(buffer)]
  BY OnTop DEF RowsTyped
<1>2. CASE buffer = <<>>
  <2>1. Len(TailPane) = Len(rows) /\ \A i \in 1..Len(rows) : TailPane[i] = rows[i]
    <3>1. Len(buffer) = 0 /\ Len(rows) \in Nat
      BY <1>2 DEF RowsTyped
    <3>2. \A i \in 1..Len(rows) : i \in (0+1)..(0 + Len(rows)) /\ i - 0 = i
      BY <3>1
    <3> QED
      BY <1>1, <3>1, <3>2 DEF TailPane
  <2>2. Len(rows) \in Nat /\ Flushed = rows
    BY <1>2 DEF RowsTyped, Flushed
  <2>3. n \in 0..Len(rows) /\ \A i \in 1..n : i \in 1..Len(rows)
    BY <2>1, <2>2
  <2>4. \A i \in (n+1)..Len(rows) : i \in 1..Len(rows)
    BY <2>2, <2>3
  <2>5. NewestOnTop(rows, n)
    BY <2>1, <2>3, <2>4 DEF NewestOnTop
  <2> QED
    BY <2>2, <2>3, <2>5
<1>3. CASE buffer # <<>>
  <2> DEFINE pane == TailPane
             m == IF n < Cap THEN n ELSE Cap
  <2>1. pane = Reverse(buffer) \o rows
    BY <1>3 DEF TailPane, RowsTyped
  <2>2. pane \in Seq(Row) /\ Len(pane) \in Nat
    BY <1>1, <2>1
  <2>3. Flushed = FirstRows(Cap, pane)
    BY <1>3, <2>1 DEF Flushed
  <2> HIDE DEF pane
  <2>4. /\ Flushed \in Seq(Row) /\ Len(Flushed) = IF Cap < Len(pane) THEN Cap ELSE Len(pane)
        /\ \A i \in 1..Len(Flushed) : Flushed[i] = pane[i]
    BY <2>2, <2>3, Cut, Zenon
  <2>5. NewestOnTop(pane, n) /\ n \in 0..Len(pane) /\ received \in Nat
    BY DEF pane, RowsTyped
  <2>6. m \in 0..Len(Flushed) /\ m <= n
    BY <2>2, <2>4, <2>5, CapAssumption
  <2>7. m >= (IF received < Cap THEN received ELSE Cap)
    BY <2>5, CapAssumption DEF NewestOnTop
  <2>8. \A i \in 1..m : i \in 1..n /\ i \in 1..Len(Flushed)
    BY <2>4, <2>5, <2>6, <2>2, CapAssumption
  <2>9. \A i \in (m+1)..Len(Flushed) : i \in (n+1)..Len(pane) /\ i \in 1..Len(Flushed)
    BY <2>4, <2>5, <2>2, CapAssumption
  <2> HIDE DEF m
  <2>10. NewestOnTop(Flushed, m)
    BY <2>4, <2>5, <2>7, <2>8, <2>9, Zenon DEF NewestOnTop
  <2> QED
    BY <2>6, <2>10
<1> QED
  BY <1>2, <1>3

\* One more row in the buffer is one more on top.
LEMMA Shifted ==
  ASSUME NEW bs \in Seq(Row), NEW rs \in Seq(Row), NEW row \in Row
  PROVE  LET old == Reverse(bs) \o rs
             new == Reverse(Append(bs, row)) \o rs
         IN  /\ Len(old) \in Nat /\ Len(new) = Len(old) + 1
             /\ new[1] = row /\ \A i \in 2..Len(new) : new[i] = old[i - 1]
<1> DEFINE old == Reverse(bs) \o rs
           new == Reverse(Append(bs, row)) \o rs
           k == Len(bs)
           l == Len(rs)
           more == Append(bs, row)
<1>1. k \in Nat /\ l \in Nat
  OBVIOUS
<1>2. more \in Seq(Row) /\ Len(more) = k + 1 /\ more[k + 1] = row /\ \A i \in 1..k : more[i] = bs[i]
  OBVIOUS
<1>3. /\ Len(old) = k + l
      /\ \A i \in 1..k : old[i] = bs[k - i + 1]
      /\ \A i \in (k+1)..(k + l) : old[i] = rs[i - k]
  BY OnTop, Zenon
<1>4. /\ Len(new) = Len(more) + l
      /\ \A i \in 1..Len(more) : new[i] = more[Len(more) - i + 1]
      /\ \A i \in (Len(more)+1)..(Len(more) + l) : new[i] = rs[i - Len(more)]
  BY <1>2, OnTop, Zenon
<1> HIDE DEF k, l, more, old, new
<1>5. Len(new) = k + 1 + l /\ new[1] = row
  BY <1>1, <1>2, <1>4
<1>6. ASSUME NEW i \in 2..(k + 1 + l) PROVE new[i] = old[i - 1]
  <2>1. CASE i <= k + 1
    <3>1. i \in 1..(k+1) /\ i - 1 \in 1..k /\ (k + 1) - i + 1 = k - (i - 1) + 1
          /\ k - (i - 1) + 1 \in 1..k
      BY <1>1, <2>1
    <3>2. new[i] = more[(k + 1) - i + 1]
      BY <1>2, <1>4, <3>1, Zenon
    <3>3. old[i - 1] = bs[k - (i - 1) + 1]
      BY <1>3, <3>1, Zenon
    <3> QED
      BY <1>2, <3>1, <3>2, <3>3, Zenon
  <2>2. CASE i > k + 1
    <3>1. i \in ((k+1)+1)..((k + 1) + l) /\ i - 1 \in (k+1)..(k+l) /\ i - (k + 1) = (i - 1) - k
      BY <1>1, <2>2
    <3>2. new[i] = rs[i - (k + 1)]
      BY <1>2, <1>4, <3>1, Zenon
    <3>3. old[i - 1] = rs[(i - 1) - k]
      BY <1>3, <3>1, Zenon
    <3> QED
      BY <3>1, <3>2, <3>3, Zenon
  <2>3. i <= k + 1 \/ i > k + 1
    BY <1>1
  <2> QED
    BY <2>1, <2>2, <2>3, Zenon
<1>7. Len(old) \in Nat /\ Len(new) = Len(old) + 1
  BY <1>1, <1>3, <1>5
<1> QED
  BY <1>5, <1>6, <1>7, Zenon DEF old, new

LEMMA OneMoreOnTop ==
  ASSUME RowsTyped, source # 0, source' = source, source = Latest, rows' = rows,
         Latest' = Latest, received' = received + 1,
         [src |-> source, at |-> received'] \in Row,
         buffer' = Append(buffer, [src |-> source, at |-> received']),
         NEW n \in 0..Len(TailPane), NewestOnTop(TailPane, n)
  PROVE  \E m \in 0..Len(TailPane') : NewestOnTop(TailPane, m)'
<1> DEFINE row == [src |-> source, at |-> received']
           old == TailPane
           new == TailPane'
           m == n + 1
<1>1. old = Reverse(buffer) \o rows /\ new = Reverse(Append(buffer, row)) \o rows
  BY DEF TailPane
<1>2. buffer \in Seq(Row) /\ rows \in Seq(Row) /\ received \in Nat
  BY DEF RowsTyped
<1>3. row.src = Latest /\ row.at = received + 1 /\ row \in Row
      /\ row = [src |-> Latest, at |-> received + 1]
  OBVIOUS
<1>4. n \in 0..Len(old) /\ NewestOnTop(old, n)
  OBVIOUS
<1> HIDE DEF row, old, new
<1>5. /\ Len(old) \in Nat /\ Len(new) = Len(old) + 1
      /\ new[1] = row /\ \A i \in 2..Len(new) : new[i] = old[i - 1]
  <2>1. \A bs \in Seq(Row), rs \in Seq(Row), r \in Row :
          LET o == Reverse(bs) \o rs
              w == Reverse(Append(bs, r)) \o rs
          IN  /\ Len(o) \in Nat /\ Len(w) = Len(o) + 1
              /\ w[1] = r /\ \A i \in 2..Len(w) : w[i] = o[i - 1]
    BY Shifted, Zenon
  <2> HIDE DEF m
  <2>2. LET o == Reverse(buffer) \o rows
            w == Reverse(Append(buffer, row)) \o rows
        IN  /\ Len(o) \in Nat /\ Len(w) = Len(o) + 1
            /\ w[1] = row /\ \A i \in 2..Len(w) : w[i] = o[i - 1]
    BY <1>2, <1>3, <2>1, Zenon
  <2> QED
    BY <1>1, <2>2, Zenon
<1>6. m \in 0..Len(new) /\ m >= (IF received' < Cap THEN received' ELSE Cap)
  BY <1>2, <1>4, <1>5, CapAssumption DEF NewestOnTop
<1>7. ASSUME NEW i \in 1..m PROVE new[i] = [src |-> Latest, at |-> received' - i + 1]
  <2>1. CASE i = 1
    <3>1. received' - 1 + 1 = received + 1
      BY <1>2
    <3> QED
      BY <1>3, <1>5, <2>1, <3>1, Zenon
  <2>2. CASE i # 1
    <3>1. i \in 2..Len(new) /\ i - 1 \in 1..n /\ received - (i - 1) + 1 = received' - i + 1
      BY <1>2, <1>4, <1>5, <2>2
    <3>2. old[i - 1] = [src |-> Latest, at |-> received - (i - 1) + 1]
      BY <1>4, <3>1 DEF NewestOnTop
    <3> QED
      BY <1>5, <3>1, <3>2, Zenon
  <2> QED
    BY <2>1, <2>2
<1>8. ASSUME NEW i \in (m+1)..Len(new) PROVE new[i].src # Latest
  <2>1. i \in 2..Len(new) /\ i - 1 \in (n+1)..Len(old)
    BY <1>4, <1>5
  <2>2. old[i - 1].src # Latest
    BY <1>4, <2>1 DEF NewestOnTop
  <2> QED
    BY <1>5, <2>1, <2>2, Zenon
<1> HIDE DEF m
<1>9. NewestOnTop(TailPane, m)'
  BY <1>6, <1>7, <1>8 DEF NewestOnTop, new
<1> QED
  BY <1>6, <1>9 DEF new

-----------------------------------------------------------------------------
(* The actions, by what they do to the screen.                             *)

LEMMA EmptyScreen == Init => Screen
<1> SUFFICES ASSUME Init PROVE Screen
  OBVIOUS
<1>1. Latest = 0 /\ runs = {} /\ hitsAsked = {} /\ leftAt = 0 /\ source = 0 /\ ~running
  BY DEF Init, Latest
<1>2. RowsTyped
  BY DEF Init, RowsTyped
<1>3. LastAsked /\ RowsOfQuery /\ RowsOfTail /\ Left /\ Gate
  BY <1>1 DEF Init, LastAsked, RowsOfQuery, RowsOfTail, Left, Gate
<1> QED
  BY <1>2, <1>3 DEF Screen

\* Nothing that is asked for, streamed or shown changes, but the gate may go up.
Quiet ==
    /\ UNCHANGED <<tool, asked, runs, running, rows, error, shownRange, source, received,
                   buffer, leaving, leftAt>>
    /\ signedOut' \in {signedOut, TRUE} /\ hitsAsked' \subseteq hitsAsked
    /\ hits' \in {hits, 0} \cup hitsAsked

LEMMA QuietSteps ==
  ASSUME \/ ToggleFacets \/ HitsArrive \/ HitsFail \/ FacetsArrive \/ FacetsFail
         \/ ConnectGrace \/ ProbeAnswered \/ UNCHANGED vars
  PROVE  Quiet
<1>1. CASE ToggleFacets
  BY <1>1 DEF ToggleFacets, AbortRaises, Quiet, runVars, hitsVars, tailVars, sessionVars
<1>2. CASE HitsArrive \/ HitsFail
  BY <1>2 DEF HitsArrive, HitsFail, Quiet, runVars, tailVars, sessionVars
<1>3. CASE FacetsArrive \/ FacetsFail
  BY <1>3 DEF FacetsArrive, FacetsFail, Quiet, runVars, hitsVars, tailVars, sessionVars
<1>4. CASE ConnectGrace \/ ProbeAnswered
  BY <1>4 DEF ConnectGrace, ProbeAnswered, Quiet, runVars, hitsVars, tailVars, sessionVars
<1>5. CASE UNCHANGED vars
  BY <1>5 DEF vars, Quiet, runVars, hitsVars, tailVars, sessionVars
<1> QED
  BY <1>1, <1>2, <1>3, <1>4, <1>5

\* The rows of the tail on screen are still those.
LEMMA PaneKept ==
  ASSUME RowsOfTail, UNCHANGED <<asked, rows, source, received, buffer>>,
         runs' # {} => runs # {}, signedOut' \in {signedOut, TRUE}
  PROVE  RowsOfTail'
<1>1. Latest' = Latest /\ asked'[Latest'] = asked[Latest] /\ TailPane' = TailPane
  BY DEF Latest, TailPane
<1>2. \A n : NewestOnTop(TailPane, n) => NewestOnTop(TailPane, n)'
  BY <1>1, Zenon DEF NewestOnTop
<1>3. (\E n \in 0..Len(TailPane) : NewestOnTop(TailPane, n))
      => \E n \in 0..Len(TailPane') : NewestOnTop(TailPane, n)'
  BY <1>1, <1>2, Zenon
<1>4. runs' # {} => received' = received /\ buffer' = buffer /\ runs # {}
  OBVIOUS
<1> QED
  BY <1>1, <1>3, <1>4, Zenon DEF RowsOfTail

LEMMA QuietKeeps ==
  ASSUME IInv, Screen, Quiet
  PROVE  Screen'
<1>1. /\ Latest' = Latest /\ tool' = tool /\ asked' = asked /\ runs' = runs
      /\ running' = running /\ rows' = rows /\ error' = error /\ shownRange' = shownRange
      /\ source' = source /\ leaving' = leaving /\ leftAt' = leftAt
      /\ (signedOut' = signedOut \/ signedOut' = TRUE) /\ hitsAsked' \subseteq hitsAsked
  BY DEF Latest, Quiet
<1>2. signedOut => signedOut'
  BY DEF Quiet
<1>8. RowsTyped'
  BY DEF Screen, Quiet, RowsTyped
<1>3. LastAsked'
  <2>1. ~signedOut' => shownRange' \in {0, Latest'}
    BY <1>1, <1>2 DEF Screen, LastAsked
  <2>2. running' => runs' # {}
    BY <1>1, Zenon DEF Screen, LastAsked
  <2>3. \A r \in runs' : /\ r.id \in 1..Latest'
                         /\ ~r.aborted \/ r.id = Latest' => asked'[Latest'].kind = "run"
    BY <1>1 DEF Screen, LastAsked
  <2> QED
    BY <1>1, <2>1, <2>2, <2>3 DEF Screen, LastAsked
<1>4. RowsOfQuery'
  BY <1>1 DEF Screen, RowsOfQuery
<1>5. Left'
  <2>1. leftAt' > 0 => leaving' # 0 \/ signedOut'
    BY <1>1, <1>2 DEF Screen, Left
  <2> QED
    BY <1>1, <2>1 DEF Screen, Left
<1>6. Gate'
  <2> SUFFICES ASSUME leaving = 0, leftAt > 0
               PROVE  /\ \A r \in runs : r.id > leftAt
                      /\ error \notin 1..leftAt /\ hits' \notin 1..leftAt
                      /\ \A i \in 1..Len(rows) : rows[i].src > leftAt
    BY <1>1, Zenon DEF Gate
  <2>1. /\ \A r \in runs : r.id > leftAt
        /\ error \notin 1..leftAt /\ hits \notin 1..leftAt
        /\ \A i \in 1..Len(rows) : rows[i].src > leftAt
    BY DEF Screen, Left, Gate
  <2>2. leftAt \in Nat
    BY DEF Screen, Left, Latest, IInv, CallsTyped
  <2>3. hits' \notin 1..leftAt
    BY <2>1, <2>2 DEF Quiet, Screen, Left
  <2> QED
    BY <2>1, <2>3
<1>7. RowsOfTail'
  BY PaneKept DEF Screen, Quiet
<1> QED
  BY <1>3, <1>4, <1>5, <1>6, <1>7, <1>8 DEF Screen

\* The last request is what was just asked for.
LEMMA JustAsked ==
  ASSUME IInv, Latest < MaxRequests, NEW kind \in {"run", "tail"}, Ask(kind), tool' \in Tools
  PROVE  /\ Latest' = Latest + 1 /\ Latest \in Nat
         /\ asked'[Latest'].kind = kind /\ asked'[Latest'].tool = tool'
<1>1. Latest' = Latest + 1 /\ Latest \in Nat
  BY OneMoreAsked DEF IInv, CallsTyped, Latest
<1>2. asked'[Len(asked) + 1] = [kind |-> kind, tool |-> tool']
  BY DEF IInv, CallsTyped, Ask
<1> QED
  BY <1>1, <1>2 DEF Latest

\* A query starts on an empty pane; a tail is stopped.
LEMMA QueryShows ==
  ASSUME IInv, Screen, Start, tool' \in Tools
  PROVE  Screen'
<1> DEFINE new == [id |-> Len(asked'), collected |-> <<>>, aborted |-> FALSE]
<1>1. /\ runs' = Aborted \cup {new} /\ rows' = <<>> /\ buffer' = <<>> /\ source' = 0
      /\ received' = received /\ running' = TRUE /\ error' = 0 /\ shownRange' = Len(asked')
      /\ hitsAsked' = {Len(asked')}
      /\ UNCHANGED <<leaving, leftAt, hits>> /\ (signedOut => signedOut')
  BY DEF Start, LoadHits, AbortRaises
<1>2. new.id = Latest' /\ new.collected = <<>> /\ ~new.aborted
  BY DEF Latest
<1> HIDE DEF new
<1>3. /\ Latest' = Latest + 1 /\ Latest \in Nat
      /\ asked'[Latest'].kind = "run" /\ asked'[Latest'].tool = tool'
  BY JustAsked DEF Start
<1>4. /\ \A a \in Aborted : a.aborted /\ \E r \in runs : a.id = r.id /\ a.collected = r.collected
  BY AbortedSame DEF IInv
<1>5. Len(asked') = Latest' /\ leftAt \in 0..Latest
  BY DEF Latest, Screen, Left
<1>6. \A a \in Aborted : a.id # Latest'
  <2>1. \A r \in runs : r.id \in 1..Latest
    BY DEF Screen, LastAsked
  <2> QED
    BY <1>3, <1>4, <2>1
<1>7. RowsTyped'
  BY <1>1, <1>2, <1>4 DEF Screen, RowsTyped
<1>8. LastAsked'
  <2>1. \A r \in runs' : r.id \in 1..Latest'
    <3>1. \A r \in runs : r.id \in 1..Latest
      BY DEF Screen, LastAsked
    <3> QED
      BY <1>1, <1>2, <1>3, <1>4, <3>1
  <2> QED
    BY <1>1, <1>2, <1>3, <1>4, <1>5, <2>1 DEF LastAsked
<1>9. RowsOfQuery'
  BY <1>1, <1>2, <1>3, <1>6 DEF RowsOfQuery
<1>10. RowsOfTail'
  BY <1>3 DEF RowsOfTail
<1>11. Left'
  <2>1. leftAt' > 0 => leaving' # 0 \/ signedOut'
    BY <1>1 DEF Screen, Left
  <2> QED
    BY <1>1, <1>2, <1>3, <1>4, <1>5, <2>1 DEF Screen, Left
<1>12. Gate'
  <2> SUFFICES ASSUME leaving = 0, leftAt > 0
               PROVE  (\A r \in runs' : r.id > leftAt) /\ hits \notin 1..leftAt
    BY <1>1 DEF Gate
  <2>1. (\A r \in runs : r.id > leftAt) /\ hits \notin 1..leftAt
    BY DEF Screen, Left, Gate
  <2> QED
    BY <1>1, <1>2, <1>3, <1>4, <1>5, <2>1
<1> QED
  BY <1>7, <1>8, <1>9, <1>10, <1>11, <1>12 DEF Screen

\* A buffer is flushed, and its tail perhaps stopped.
LEMMA PaneFlushed ==
  ASSUME IInv, Screen, rows' = Flushed, buffer' = <<>>, source' \in {0, source},
         received' = received, asked' = asked, signedOut => signedOut',
         runs' = {} <=> runs = {},
         \A r \in runs' : \E s \in runs : r.id = s.id /\ r.collected = s.collected
  PROVE  /\ RowsTyped' /\ RowsOfTail'
         /\ \A i \in 1..Len(rows') :
               \/ \E j \in 1..Len(rows) : rows'[i] = rows[j]
               \/ source # 0 /\ rows'[i].src = source
         /\ source = 0 => rows' = rows
<1>1. /\ Flushed \in Seq(Row)
      /\ \A i \in 1..Len(Flushed) :
            \/ \E j \in 1..Len(rows) : Flushed[i] = rows[j]
            \/ \E j \in 1..Len(buffer) : Flushed[i] = buffer[j]
  BY FlushedRows DEF Screen, RowsTyped
<1>2. RowsTyped'
  BY <1>1 DEF Screen, RowsTyped
<1>3. \A j \in 1..Len(buffer) : source # 0 /\ buffer[j].src = source
  BY DEF Screen, RowsTyped
<1>4. source = 0 => rows' = rows
  BY DEF Screen, RowsTyped, Flushed
<1>5. RowsOfTail'
  <2> SUFFICES ASSUME Latest' > 0, asked'[Latest'].kind = "tail"
               PROVE  /\ runs' # {} => received' = 0 /\ buffer' = <<>>
                      /\ ~signedOut' => \E n \in 0..Len(TailPane') : NewestOnTop(TailPane, n)'
    BY DEF RowsOfTail
  <2>1. Latest' = Latest /\ Latest \in Nat /\ Latest > 0 /\ asked[Latest].kind = "tail"
    BY DEF Latest, IInv, CallsTyped
  <2>2. runs' # {} => received' = 0
    BY <2>1 DEF Screen, RowsOfTail
  <2>3. ASSUME ~signedOut' PROVE \E n \in 0..Len(TailPane') : NewestOnTop(TailPane, n)'
    <3>1. PICK n \in 0..Len(TailPane) : NewestOnTop(TailPane, n)
      BY <2>1, <2>3 DEF Screen, RowsOfTail
    <3>2. PICK m \in 0..Len(Flushed) : NewestOnTop(Flushed, m)
      BY <2>1, <3>1, StillNewest DEF Screen
    <3>3. Len(TailPane') = Len(rows') /\ \A i \in 1..Len(rows') : TailPane'[i] = rows'[i]
      <4>1. CASE source' = 0
        BY <4>1 DEF TailPane
      <4>2. CASE source' # 0
        <5>1. TailPane' = Reverse(<<>>) \o rows'
          BY <4>2 DEF TailPane
        <5>2. rows' \in Seq(Row)
          BY <1>1
        <5> QED
          BY <5>1, <5>2, NothingOnTop, Zenon
      <4> QED
        BY <4>1, <4>2
    <3>4. NewestOnTop(TailPane, m)'
      <4>1. rows' = Flushed /\ Len(rows') \in Nat
        BY <1>1
      <4>2. \A i \in 1..m : i \in 1..Len(rows')
        BY <3>2, <4>1
      <4>3. \A i \in (m+1)..Len(rows') : i \in 1..Len(rows')
        BY <3>2, <4>1
      <4> QED
        BY <2>1, <3>2, <3>3, <4>1, <4>2, <4>3 DEF NewestOnTop
    <3> QED
      BY <3>2, <3>3, <3>4
  <2> QED
    BY <2>2, <2>3
<1> QED
  BY <1>1, <1>2, <1>3, <1>4, <1>5

LEMMA TailFlushed ==
  ASSUME IInv, Screen, rows' = Flushed, buffer' = <<>>, source' \in {0, source},
         UNCHANGED <<tool, asked, runs, running, shownRange, received, leaving, leftAt,
                     signedOut, hits, hitsAsked>>,
         error' = error \/ (source # 0 /\ error' = source)
  PROVE  Screen'
<1>1. /\ RowsTyped' /\ RowsOfTail'
      /\ \A i \in 1..Len(rows') :
            \/ \E j \in 1..Len(rows) : rows'[i] = rows[j]
            \/ source # 0 /\ rows'[i].src = source
      /\ source = 0 => rows' = rows
  BY PaneFlushed
<1>2. Latest' = Latest /\ asked' = asked /\ runs' = runs /\ leftAt \in 0..Latest /\ Latest \in Nat
  BY DEF Latest, Screen, Left, IInv, CallsTyped
<1>3. LastAsked'
  BY <1>2 DEF Screen, LastAsked
<1>4. RowsOfQuery'
  <2>1. asked[Latest].kind = "run" => source = 0
    BY DEF Screen, LastAsked
  <2> QED
    BY <1>1, <1>2, <2>1 DEF Screen, RowsOfQuery
<1>5. Left'
  BY <1>2 DEF Screen, Left
<1>6. Gate'
  <2> SUFFICES ASSUME signedOut, leaving = 0, leftAt > 0
               PROVE  /\ \A r \in runs' : r.id > leftAt
                      /\ error' \notin 1..leftAt /\ hits' \notin 1..leftAt
                      /\ \A i \in 1..Len(rows') : rows'[i].src > leftAt
    BY DEF Gate
  <2>1. /\ \A r \in runs : r.id > leftAt
        /\ error \notin 1..leftAt /\ hits \notin 1..leftAt
        /\ \A i \in 1..Len(rows) : rows[i].src > leftAt
    BY DEF Screen, Gate
  <2>2. source # 0 => source > leftAt /\ source \notin 1..leftAt
    BY <1>2 DEF Screen, Left
  <2> QED
    BY <1>1, <1>2, <2>1, <2>2
<1> QED
  BY <1>1, <1>3, <1>4, <1>5, <1>6 DEF Screen

\* Everything in flight is aborted; signing out stops a tail, too.
LEMMA CallsCancelled ==
  ASSUME IInv, Screen, Cancel \/ SignOut
  PROVE  Screen'
<1>1. /\ Task /\ ~signedOut /\ runs' = Aborted /\ running' = FALSE
      /\ hitsAsked' = {} /\ UNCHANGED <<tool, asked, shownRange, received>>
      /\ signedOut' \in {signedOut, TRUE}
  BY DEF Cancel, SignOut, Input, CancelAll, AbortRaises, StopTail, tailVars
<1>2. Latest' = Latest /\ leftAt \in 0..Latest /\ Latest \in Nat
  BY <1>1 DEF Latest, Screen, Left, IInv, CallsTyped
<1>3. /\ \A a \in Aborted : a.aborted /\ \E r \in runs : a.id = r.id /\ a.collected = r.collected
      /\ \A r \in runs : \E a \in Aborted : a.id = r.id
      /\ Aborted = {} <=> runs = {}
      /\ \A r \in runs : runs = {r} => \A a, b \in Aborted : a = b
  BY AbortedSame DEF IInv
<1>4. /\ RowsTyped' /\ RowsOfTail'
      /\ source = 0 => rows' = rows
  <2>1. CASE Cancel
    <3>1. UNCHANGED <<rows, source, buffer, received, asked>>
      BY <2>1 DEF Cancel, tailVars
    <3>2. RowsTyped'
      BY <1>1, <1>3, <3>1 DEF Screen, RowsTyped
    <3> QED
      BY <1>1, <1>3, <3>1, <3>2, PaneKept DEF Screen
  <2>2. CASE SignOut
    <3>1. rows' = Flushed /\ buffer' = <<>> /\ source' = 0 /\ asked' = asked
      BY <2>2 DEF SignOut, StopTail
    <3>2. /\ runs' = {} <=> runs = {}
          /\ \A r \in runs' : \E s \in runs : r.id = s.id /\ r.collected = s.collected
      BY <1>1, <1>3
    <3> QED
      BY <1>1, <3>1, <3>2, PaneFlushed
  <2> QED
    BY <2>1, <2>2
<1>5. source' \in {0, source}
  BY DEF Cancel, SignOut, StopTail, tailVars
<1>6. LastAsked'
  <2>1. \A r \in runs' : r.id \in 1..Latest /\ r.aborted /\ (r.id = Latest => asked[Latest].kind = "run")
    BY <1>1, <1>3 DEF Screen, LastAsked
  <2> QED
    BY <1>1, <1>2, <1>5, <2>1 DEF Screen, LastAsked
<1>7. RowsOfQuery'
  <2>1. \A r, s \in runs : r = s
    BY <1>1 DEF IInv, LatestWrites, Task
  <2>2. \A a, b \in runs' : a = b
    BY <1>1, <1>3, <2>1
  <2>3. asked[Latest].kind = "run" => source = 0
    BY DEF Screen, LastAsked
  <2> QED
    BY <1>1, <1>2, <1>3, <1>4, <2>2, <2>3 DEF Screen, RowsOfQuery
<1>8. Left'
  <2>1. CASE Cancel
    <3>1. leftAt' = leftAt /\ leaving' = leaving /\ source' = source
      BY <2>1 DEF Cancel, tailVars
    <3>2. leftAt' > 0 => leaving' # 0 \/ signedOut'
      BY <1>1, <3>1 DEF Screen, Left
    <3> QED
      BY <1>1, <1>2, <1>3, <3>1, <3>2 DEF Screen, Left
  <2>2. CASE SignOut
    <3>1. leaving' \in Nat /\ leaving' # 0
      BY <2>2 DEF SignOut, Screen, Left
    <3> QED
      BY <1>1, <1>2, <1>3, <2>2, <3>1 DEF SignOut, StopTail, Left
  <2> QED
    BY <2>1, <2>2
<1>9. Gate'
  <2>1. leftAt' > 0 => leaving' # 0
    BY <1>1 DEF Cancel, SignOut, Screen, Left
  <2> QED
    BY <2>1 DEF Gate
<1> QED
  BY <1>4, <1>6, <1>7, <1>8, <1>9 DEF Screen

\* A tail begins on an empty pane.
LEMMA TailShows ==
  ASSUME IInv, Screen, Follow
  PROVE  Screen'
<1>1. /\ Task /\ ~signedOut /\ source = 0 /\ runs' = Aborted /\ running' = FALSE /\ hitsAsked' = {}
      /\ rows' = <<>> /\ shownRange' = 0 /\ received' = 0 /\ source' = Len(asked')
      /\ UNCHANGED <<tool, buffer, leaving, leftAt>> /\ (signedOut => signedOut')
  BY DEF Follow, Input, CancelAll, AbortRaises
<1>2. /\ Latest' = Latest + 1 /\ Latest \in Nat /\ source' = Latest'
      /\ asked'[Latest'].kind = "tail" /\ asked'[Latest'].tool = tool
  <2>1. tool' = tool /\ tool \in Tools
    BY <1>1 DEF IInv, CallsTyped
  <2>2. Latest < MaxRequests /\ Ask("tail")
    BY DEF Follow
  <2> QED
    BY <1>1, <2>1, <2>2, JustAsked DEF Latest
<1>3. \A a \in Aborted : a.aborted /\ \E r \in runs : a.id = r.id /\ a.collected = r.collected
  BY AbortedSame DEF IInv
<1>4. buffer' = <<>> /\ \A r \in runs' : r.aborted /\ r.id \in 1..Latest
  BY <1>1, <1>3 DEF Screen, RowsTyped, LastAsked
<1>5. RowsTyped'
  BY <1>1, <1>3, <1>4 DEF Screen, RowsTyped
<1>6. LastAsked'
  BY <1>1, <1>2, <1>4 DEF LastAsked
<1>7. RowsOfQuery'
  BY <1>1, <1>2, <1>4 DEF RowsOfQuery
<1>8. RowsOfTail'
  <2>1. TailPane' = Reverse(<<>>) \o <<>>
    BY <1>1, <1>2, <1>4 DEF TailPane
  <2>2. Len(Reverse(<<>>) \o <<>>) = 0
    <3> DEFINE none == <<>>
    <3>1. none \in Seq(Row) /\ Len(none) = 0
      OBVIOUS
    <3> HIDE DEF none
    <3>2. Len(Reverse(<<>>) \o none) = 0
      BY <3>1, NothingOnTop
    <3> QED
      BY <3>2 DEF none
  <2>3. Len(TailPane') = 0
    BY <2>1, <2>2
  <2>4. NewestOnTop(TailPane, 0)'
    BY <1>1, <2>3, CapAssumption DEF NewestOnTop
  <2> QED
    BY <1>1, <1>4, <2>3, <2>4 DEF RowsOfTail
<1>9. Left'
  <2>1. leftAt \in 0..Latest /\ leaving \in Nat /\ (leftAt > 0 => leaving # 0 \/ signedOut)
    BY DEF Screen, Left
  <2>2. leftAt' > 0 => leaving' # 0 \/ signedOut'
    BY <1>1, <2>1
  <2> QED
    BY <1>1, <1>2, <1>4, <2>1, <2>2 DEF Left
<1>10. Gate'
  <2>1. leftAt > 0 => leaving # 0
    BY <1>1 DEF Screen, Left
  <2> QED
    BY <1>1, <2>1 DEF Gate
<1> QED
  BY <1>5, <1>6, <1>7, <1>8, <1>9, <1>10 DEF Screen

\* A row of the tail: no call of run() is left.
LEMMA TailRowShows ==
  ASSUME IInv, Screen, TailRow
  PROVE  Screen'
<1>1. /\ Task /\ source # 0 /\ received < MaxRows /\ received' = received + 1
      /\ buffer' = Append(buffer, [src |-> source, at |-> received'])
      /\ UNCHANGED <<tool, asked, runs, running, rows, error, shownRange, hits, hitsAsked, source,
                     leaving, leftAt, signedOut>>
  BY DEF TailRow, runVars, hitsVars, sessionVars
<1>2. /\ Latest' = Latest /\ Latest \in Nat /\ source = Latest /\ source \in 1..MaxRequests
      /\ asked[Latest].kind = "tail" /\ asked'[Latest'] = asked[Latest]
  BY <1>1 DEF Latest, IInv, CallsTyped, LatestWrites, Screen, LastAsked
<1>3. runs = {}
  BY <1>1, <1>2 DEF Task, Screen, LastAsked
<1>4. [src |-> source, at |-> received'] \in Row
  BY <1>1, <1>2, BoundsAssumption DEF Row, Screen, RowsTyped
<1>5. RowsTyped'
  <2> DEFINE row == [src |-> source, at |-> received']
  <2>1. row \in Row /\ row.src = source /\ buffer' = Append(buffer, row)
    BY <1>1, <1>4
  <2> HIDE DEF row
  <2>2. buffer \in Seq(Row) /\ \A i \in 1..Len(buffer) : buffer[i].src = source
    BY DEF Screen, RowsTyped
  <2>3. buffer' \in Seq(Row) /\ \A i \in 1..Len(buffer') : buffer'[i].src = source
    BY <2>1, <2>2
  <2> QED
    BY <1>1, <1>3, <2>3 DEF Screen, RowsTyped
<1>6. LastAsked'
  <2>1. ~signedOut' => shownRange' \in {0, Latest'}
    BY <1>1, <1>2 DEF Screen, LastAsked
  <2>2. running' => runs' # {}
    BY <1>1 DEF Screen, LastAsked
  <2> QED
    BY <1>1, <1>2, <1>3, <2>1, <2>2 DEF Screen, LastAsked
<1>7. RowsOfQuery'
  BY <1>1, <1>2, <1>3 DEF RowsOfQuery
<1>8. RowsOfTail'
  <2> SUFFICES ASSUME ~signedOut'
               PROVE  \E n \in 0..Len(TailPane') : NewestOnTop(TailPane, n)'
    BY <1>1, <1>3 DEF RowsOfTail
  <2>1. ~signedOut /\ Latest > 0
    BY <1>1, <1>2
  <2>2. PICK n \in 0..Len(TailPane) : NewestOnTop(TailPane, n)
    BY <1>2, <2>1 DEF Screen, RowsOfTail
  <2> QED
    BY <1>1, <1>2, <1>4, <2>2, OneMoreOnTop DEF Screen
<1>9. Left'
  <2>1. leftAt' > 0 => leaving' # 0 \/ signedOut'
    BY <1>1 DEF Screen, Left
  <2> QED
    BY <1>1, <1>2, <2>1 DEF Screen, Left
<1>10. Gate'
  BY <1>1 DEF Screen, Gate
<1> QED
  BY <1>5, <1>6, <1>7, <1>8, <1>9, <1>10 DEF Screen

\* The gate goes up, and nothing is left on the screen.
LEMMA GateShows ==
  ASSUME IInv, Screen, LoggedOut
  PROVE  Screen'
<1>1. /\ Task /\ rows' = <<>> /\ error' = 0 /\ signedOut' /\ leaving > 0 /\ leaving' = leaving - 1
      /\ hits' = 0 /\ UNCHANGED <<tool, asked, runs, running, hitsAsked, source, received, buffer, leftAt>>
  BY DEF LoggedOut, runVars, tailVars
<1>2. Latest' = Latest /\ Latest \in Nat
  BY <1>1 DEF Latest, IInv, CallsTyped
<1>3. RowsTyped'
  BY <1>1 DEF Screen, RowsTyped
<1>4. LastAsked'
  <2>1. running' => runs' # {}
    BY <1>1 DEF Screen, LastAsked
  <2> QED
    BY <1>1, <1>2, <2>1 DEF Screen, LastAsked
<1>5. RowsOfQuery' /\ RowsOfTail'
  BY <1>1, <1>2 DEF Screen, RowsOfQuery, RowsOfTail
<1>6. Left' /\ Gate'
  BY <1>1, <1>2 DEF Screen, Left, Gate, Task
<1> QED
  BY <1>3, <1>4, <1>5, <1>6 DEF Screen

\* A query streams on: it is the only call, and the latest.
LEMMA OnlyCall ==
  ASSUME IInv, Screen, NEW r \in runs, Task
  PROVE  /\ runs = {r} /\ r.id = Latest /\ ~r.aborted /\ source = 0
         /\ asked[Latest].kind = "run" /\ r \in Call /\ r.id > leftAt
  BY DEF IInv, CallsTyped, LatestWrites, Task, Screen, LastAsked, Left

LEMMA BatchShows ==
  ASSUME IInv, Screen, NEW r \in runs, Batch(r)
  PROVE  Screen'
<1> PICK at \in 1..MaxRows :
       /\ rows' = Append(r.collected, [src |-> r.id, at |-> at])
       /\ runs' = (runs \ {r}) \cup
             {[r EXCEPT !.collected = Append(r.collected, [src |-> r.id, at |-> at])]}
  BY DEF Batch
<1> DEFINE row == [src |-> r.id, at |-> at]
           more == Append(r.collected, row)
           new == [r EXCEPT !.collected = more]
<1>1. /\ runs = {r} /\ r.id = Latest /\ ~r.aborted /\ source = 0
      /\ asked[Latest].kind = "run" /\ r \in Call /\ r.id > leftAt
  BY OnlyCall DEF Batch
<1>2. /\ UNCHANGED <<tool, asked, running, error, shownRange, hits, hitsAsked, source, received, buffer,
                     leaving, leftAt, signedOut>>
  BY DEF Batch, hitsVars, tailVars, sessionVars
<1>3. row \in Row /\ row.src = r.id
  BY <1>1 DEF Row, Call
<1>4. r.collected \in Seq(Row) /\ \A i \in 1..Len(r.collected) : r.collected[i].src = r.id
  BY <1>1 DEF Call, Screen, RowsTyped
<1>5. new.id = r.id /\ new.aborted = r.aborted /\ new.collected = more
  BY <1>1 DEF Call
<1>6. rows' = more /\ runs' = {new}
  BY <1>1
<1> HIDE DEF row
<1>7. more \in Seq(Row) /\ \A i \in 1..Len(more) : more[i].src = r.id
  BY <1>3, <1>4
<1> HIDE DEF new, more
<1>8. Latest' = Latest /\ asked'[Latest'] = asked[Latest]
  BY <1>2 DEF Latest
<1>9. RowsTyped'
  BY <1>2, <1>5, <1>6, <1>7 DEF Screen, RowsTyped
<1>10. LastAsked'
  <2>1. ~signedOut' => shownRange' \in {0, Latest'}
    BY <1>2, <1>8 DEF Screen, LastAsked
  <2> QED
    BY <1>1, <1>2, <1>5, <1>6, <1>8, <2>1 DEF Screen, LastAsked
<1>11. RowsOfQuery' /\ RowsOfTail'
  BY <1>1, <1>5, <1>6, <1>8 DEF RowsOfQuery, RowsOfTail
<1>12. Left'
  <2>1. leftAt' > 0 => leaving' # 0 \/ signedOut'
    BY <1>2 DEF Screen, Left
  <2> QED
    BY <1>1, <1>2, <1>5, <1>6, <1>8, <2>1 DEF Screen, Left
<1>13. Gate'
  BY <1>1, <1>2, <1>5, <1>6, <1>7 DEF Screen, Gate
<1> QED
  BY <1>9, <1>10, <1>11, <1>12, <1>13 DEF Screen

\* run() returns with rows of its own on the screen.
LEMMA ReturnShows ==
  ASSUME IInv, Screen, NEW r \in runs, RunEnds(r) \/ RunFails(r) \/ RunAborted(r)
  PROVE  Screen'
<1>1. /\ runs' = runs \ {r} /\ running' = FALSE
      /\ UNCHANGED <<tool, asked, shownRange, hits, hitsAsked, source, received, buffer, leaving, leftAt>>
      /\ (signedOut => signedOut')
  <2>1. CASE RunEnds(r) \/ RunAborted(r)
    BY <2>1 DEF RunEnds, RunAborted, AbortRaises, Return, hitsVars, tailVars, sessionVars
  <2>2. CASE RunFails(r)
    BY <2>2 DEF RunFails, Return, hitsVars, tailVars
  <2> QED
    BY <2>1, <2>2
<1>2. r.collected \in Seq(Row) /\ \A i \in 1..Len(r.collected) : r.collected[i].src = r.id
  BY DEF IInv, CallsTyped, Call, Screen, RowsTyped
<1>3. rows' \in Seq(Row) /\ \A i \in 1..Len(rows') : rows'[i].src = r.id
  <2>1. CASE RunEnds(r)
    BY <1>2, <2>1, Sorted DEF RunEnds
  <2>2. CASE RunFails(r) \/ RunAborted(r)
    BY <1>2, <2>2 DEF RunFails, RunAborted
  <2> QED
    BY <2>1, <2>2
<1>4. Latest' = Latest /\ asked'[Latest'] = asked[Latest] /\ Latest \in Nat /\ leftAt \in 0..Latest
  BY <1>1 DEF Latest, IInv, CallsTyped, Screen, Left
<1>5. r.id = Latest => runs = {r}
  BY OnlyCall DEF RunEnds, RunFails, RunAborted, Screen, RowsOfQuery
<1>6. RowsTyped'
  BY <1>1, <1>3 DEF Screen, RowsTyped
<1>7. LastAsked'
  <2>1. ~signedOut' => shownRange' \in {0, Latest'}
    BY <1>1, <1>4 DEF Screen, LastAsked
  <2> QED
    BY <1>1, <1>4, <2>1 DEF Screen, LastAsked
<1>8. RowsOfQuery'
  BY <1>1, <1>3, <1>4, <1>5 DEF Screen, RowsOfQuery
<1>9. RowsOfTail'
  <2> SUFFICES ASSUME Latest > 0, asked[Latest].kind = "tail"
               PROVE  /\ runs' # {} => received' = 0 /\ buffer' = <<>>
                      /\ \E n \in 0..Len(TailPane') : NewestOnTop(TailPane, n)'
    BY <1>4 DEF RowsOfTail
  <2>1. received = 0 /\ buffer = <<>>
    BY DEF Screen, RowsOfTail
  <2>2. r.id # Latest
    BY DEF Screen, LastAsked
  <2>3. Len(TailPane') = Len(rows') /\ \A i \in 1..Len(rows') : TailPane'[i] = rows'[i]
    <3>1. CASE source' = 0
      BY <3>1 DEF TailPane
    <3>2. CASE source' # 0
      <4>1. TailPane' = Reverse(<<>>) \o rows'
        BY <1>1, <2>1, <3>2 DEF TailPane
      <4> QED
        BY <1>3, <4>1, NothingOnTop, Zenon
    <3> QED
      BY <3>1, <3>2
  <2>4. \A i \in (0+1)..Len(TailPane') : i \in 1..Len(rows')
    BY <2>3
  <2>5. \A i \in (0+1)..Len(TailPane') : TailPane'[i].src # Latest
    BY <1>3, <2>2, <2>3, <2>4
  <2>6. NewestOnTop(TailPane, 0)'
    BY <1>1, <1>4, <2>1, <2>5, CapAssumption DEF NewestOnTop
  <2>7. 0 \in 0..Len(TailPane')
    BY <1>3, <2>3
  <2> QED
    BY <1>1, <2>1, <2>6, <2>7
<1>10. Left'
  <2>1. leftAt' > 0 => leaving' # 0 \/ signedOut'
    BY <1>1 DEF Screen, Left
  <2> QED
    BY <1>1, <1>4, <2>1 DEF Screen, Left
<1>11. Gate'
  <2> SUFFICES ASSUME signedOut', leaving' = 0, leftAt' > 0
               PROVE  /\ \A s \in runs' : s.id > leftAt'
                      /\ error' \notin 1..leftAt' /\ hits' \notin 1..leftAt'
                      /\ \A i \in 1..Len(rows') : rows'[i].src > leftAt'
    BY DEF Gate
  <2>1. leaving = 0 /\ leftAt > 0
    BY <1>1
  <2>2. signedOut
    BY <2>1 DEF Screen, Left
  <2>3. /\ \A s \in runs : s.id > leftAt
        /\ error \notin 1..leftAt /\ hits \notin 1..leftAt
    BY <2>1, <2>2 DEF Screen, Gate
  <2>4. r.id > leftAt /\ r.id \in 1..Latest
    BY <2>3 DEF Screen, LastAsked
  <2>5. error' \in {error, r.id}
    BY DEF RunEnds, RunFails, RunAborted
  <2> QED
    BY <1>1, <1>3, <1>4, <2>3, <2>4, <2>5
<1> QED
  BY <1>6, <1>7, <1>8, <1>9, <1>10, <1>11 DEF Screen

LEMMA ScreenStays == IInv /\ Screen /\ [Next]_vars => Screen'
<1> SUFFICES ASSUME IInv, Screen, [Next]_vars PROVE Screen'
  OBVIOUS
<1>1. CASE Run
  BY <1>1, QueryShows DEF Run, IInv, CallsTyped
<1>2. ASSUME NEW t \in Tools, SelectTool(t) PROVE Screen'
  BY <1>2, QueryShows DEF SelectTool
<1>3. CASE StopFollowing \/ FlushTail
  BY <1>3, TailFlushed DEF StopFollowing, FlushTail, StopTail, runVars, hitsVars, sessionVars
<1>4. CASE TailFails
  BY <1>4, TailFlushed DEF TailFails, StopTail, runVars, hitsVars
<1> QED
  BY <1>1, <1>2, <1>3, <1>4, CallsCancelled, TailShows, TailRowShows, GateShows, BatchShows,
     ReturnShows, QuietSteps, QuietKeeps
  DEF Next, Reader, Answers, Timers

-----------------------------------------------------------------------------
LEMMA ScreenHolds == Spec => [](IInv /\ Screen)
<1> QED
  BY StartsAlone, EmptyScreen, StaysAlone, ScreenStays, PTL DEF Spec

\* Once the latest query has run its course, the rows on screen are its own and
\* of the tool that is selected, and so is the histogram, whatever was run,
\* cancelled or followed meanwhile (run, cancel, selectTool).
THEOREM RowsSettle == Spec => []SettledRowsAreTheLatest
<1>1. IInv /\ Screen => SettledRowsAreTheLatest
  <2> SUFFICES ASSUME IInv, Screen, runs = {}, Latest > 0, asked[Latest].kind = "run"
               PROVE  /\ ~running
                      /\ \A i \in 1..Len(rows) : rows[i].src = Latest
                      /\ asked[Latest].tool = tool
                      /\ ~signedOut /\ ~hitsLoading /\ hits # 0 => asked[hits].tool = tool
    BY DEF SettledRowsAreTheLatest
  <2>1. ~running /\ asked[Latest].tool = tool
    BY DEF Screen, LastAsked
  <2>2. \A i \in 1..Len(rows) : rows[i].src = Latest
    BY DEF Screen, RowsOfQuery
  <2>3. ~signedOut /\ ~hitsLoading /\ hits # 0 => hits = Latest
    BY DEF IInv, HitsFollow, Screen, LastAsked
  <2> QED
    BY <2>1, <2>2, <2>3
<1> QED
  BY <1>1, ScreenHolds, PTL

\* The pane of a tail has the newest rows on top, none of them missing, for
\* every cap (flushTail, stopTail).
THEOREM TailPaneKept == Spec => []TailPaneIsNewest
<1>1. Screen => TailPaneIsNewest
  BY DEF Screen, RowsOfTail, NewestOnTop, TailPaneIsNewest
<1> QED
  BY <1>1, ScreenHolds, PTL

\* What was asked for before a sign-out was clicked no longer streams into the
\* pane or loads its histogram, and once every logout was answered neither its
\* rows nor its histogram nor its failure are on the screen.  It says nothing
\* of what is asked for after the click, nor of a gate that a 401 raised
\* without a sign-out (signOut, cancel, stopTail, clearSession).
THEOREM SignOutLeavesNothing == Spec => []GateIsQuiet
<1>1. IInv /\ Screen => GateIsQuiet
  <2> SUFFICES ASSUME IInv, Screen PROVE GateIsQuiet
    OBVIOUS
  <2>1. \A r \in Live : r.id > leftAt
    BY DEF Live, Screen, Left
  <2> QED
    BY <2>1 DEF Screen, Left, Gate, GateIsQuiet
<1> QED
  BY <1>1, ScreenHolds, PTL

-----------------------------------------------------------------------------
(* Types.                                                                  *)

\* What CallsTyped and Screen leave open of the type invariant: the histogram,
\* the field panel, and what is only on or off or counted.
HitsTyped ==
    /\ shownRange \in 0..Latest /\ hits \in 0..Latest /\ hitsAsked \subseteq 1..Latest
    /\ hitsLoading \in BOOLEAN
FacetsTyped ==
    /\ facets \in Maybe(Window) /\ facetsAsked \in Maybe(Window)
    /\ facetsLoading \in BOOLEAN /\ facetsOpen \in BOOLEAN
FlagsTyped ==
    /\ running \in BOOLEAN /\ connecting \in BOOLEAN /\ received \in 0..MaxRows
    /\ leaving \in 0..MaxLogouts /\ probing \in Nat /\ signedOut \in BOOLEAN

Panels == HitsTyped /\ FacetsTyped /\ FlagsTyped

\* What leaves the variables of a part alone leaves the part alone.
LEMMA PanelsKept ==
  ASSUME Panels
  PROVE  /\ UNCHANGED <<asked, shownRange, hitsVars>> => HitsTyped'
         /\ UNCHANGED <<facetsVars, facetsOpen>> => FacetsTyped'
         /\ UNCHANGED <<running, connecting, received, sessionVars>> => FlagsTyped'
<1>1. UNCHANGED <<asked, shownRange, hitsVars>> => HitsTyped'
  BY DEF Panels, HitsTyped, hitsVars, Latest
<1>2. UNCHANGED <<facetsVars, facetsOpen>> => FacetsTyped'
  BY DEF Panels, FacetsTyped, facetsVars
<1>3. UNCHANGED <<running, connecting, received, sessionVars>> => FlagsTyped'
  BY DEF Panels, FlagsTyped, sessionVars
<1> QED
  BY <1>1, <1>2, <1>3

LEMMA StartTyped ==
  ASSUME IInv, Panels, Start, tool' \in Tools
  PROVE  Panels'
<1>1. Latest' \in 1..MaxRequests /\ Len(asked') = Latest' /\ Latest' = Latest + 1 /\ Latest \in Nat
  BY OneMoreAsked DEF IInv, Start, CallsTyped, Latest
<1>2. HitsTyped'
  <2>1. /\ shownRange' = Latest' /\ hitsAsked' = {Latest'} /\ hitsLoading' = TRUE /\ hits' = hits
    BY <1>1 DEF Start, LoadHits
  <2> QED
    BY <1>1, <2>1 DEF Panels, HitsTyped
<1>3. FacetsTyped'
  <2>1. [tool |-> tool', window |-> Len(asked')] \in Window
    BY <1>1 DEF Window
  <2>2. CASE facetsOpen
    BY <2>1, <2>2 DEF Start, LoadFacets, Panels, FacetsTyped, Maybe
  <2>3. CASE ~facetsOpen
    BY <2>3, PanelsKept DEF Start
  <2> QED
    BY <2>2, <2>3
<1>4. FlagsTyped'
  BY DEF Start, AbortRaises, Panels, FlagsTyped
<1> QED
  BY <1>2, <1>3, <1>4 DEF Panels

LEMMA FollowTyped ==
  ASSUME IInv, Panels, Follow
  PROVE  Panels'
<1>1. Latest' \in 1..MaxRequests
  BY OneMoreAsked DEF IInv, Follow, CallsTyped
<1>2. HitsTyped'
  BY <1>1 DEF Follow, CancelAll, Panels, HitsTyped
<1>3. FacetsTyped'
  BY DEF Follow, CancelAll, Panels, FacetsTyped, Maybe
<1>4. FlagsTyped'
  <2>1. 0 \in 0..MaxRows
    BY BoundsAssumption
  <2> QED
    BY <2>1 DEF Follow, CancelAll, AbortRaises, Panels, FlagsTyped
<1> QED
  BY <1>2, <1>3, <1>4 DEF Panels

LEMMA CancelTyped ==
  ASSUME IInv, Panels, Cancel \/ SignOut
  PROVE  Panels'
<1>1. HitsTyped'
  BY DEF Cancel, SignOut, CancelAll, Panels, HitsTyped, Latest
<1>2. FacetsTyped'
  BY DEF Cancel, SignOut, CancelAll, Panels, FacetsTyped, Maybe
<1>3. FlagsTyped'
  <2>1. CASE Cancel
    BY <2>1 DEF Cancel, CancelAll, AbortRaises, Panels, FlagsTyped, tailVars
  <2>2. CASE SignOut
    <3>1. leaving' \in 0..MaxLogouts
      BY <2>2, BoundsAssumption DEF SignOut, Panels, FlagsTyped
    <3> QED
      BY <2>2, <3>1 DEF SignOut, CancelAll, AbortRaises, StopTail, Panels, FlagsTyped
  <2> QED
    BY <2>1, <2>2
<1> QED
  BY <1>1, <1>2, <1>3 DEF Panels

LEMMA CallTyped ==
  ASSUME IInv, Panels, NEW r \in runs, Batch(r) \/ RunEnds(r) \/ RunFails(r) \/ RunAborted(r)
  PROVE  Panels'
<1>1. HitsTyped' /\ FacetsTyped'
  BY PanelsKept DEF Batch, RunEnds, RunFails, RunAborted
<1>2. FlagsTyped'
  <2>1. UNCHANGED <<connecting, received, leaving, probing>>
    BY DEF Batch, RunEnds, RunFails, RunAborted, tailVars, sessionVars
  <2>2. running' \in {running, FALSE} /\ signedOut' \in {signedOut, TRUE}
    BY DEF Batch, RunEnds, RunFails, RunAborted, AbortRaises, Return, sessionVars
  <2> QED
    BY <2>1, <2>2 DEF Panels, FlagsTyped
<1> QED
  BY <1>1, <1>2 DEF Panels

LEMMA SidecarTyped ==
  ASSUME IInv, Panels, HitsArrive \/ HitsFail \/ FacetsArrive \/ FacetsFail \/ ToggleFacets
  PROVE  Panels'
<1>1. HitsTyped'
  <2>1. CASE HitsArrive \/ HitsFail
    <3>1. PICK h \in hitsAsked :
              hitsAsked' = hitsAsked \ {h} /\ hits' \in {0, h} /\ hitsLoading' = FALSE
      BY <2>1 DEF HitsArrive, HitsFail
    <3>2. Latest' = Latest /\ shownRange' = shownRange
      BY <2>1 DEF HitsArrive, HitsFail, Latest
    <3>3. Latest \in Nat
      BY DEF IInv, CallsTyped, Latest
    <3>4. h \in 1..Latest
      BY DEF Panels, HitsTyped
    <3>5. hits' \in 0..Latest
      BY <3>1, <3>3, <3>4
    <3> QED
      BY <3>1, <3>2, <3>5 DEF Panels, HitsTyped
  <2>2. CASE FacetsArrive \/ FacetsFail \/ ToggleFacets
    BY <2>2, PanelsKept DEF FacetsArrive, FacetsFail, ToggleFacets
  <2> QED
    BY <2>1, <2>2
<1>2. FacetsTyped'
  <2>1. CASE HitsArrive \/ HitsFail
    BY <2>1, PanelsKept DEF HitsArrive, HitsFail
  <2>2. CASE FacetsArrive \/ FacetsFail
    <3>1. PICK f \in facetsAsked : facetsAsked' = facetsAsked \ {f} /\ facets' \in {{}, {f}}
      BY <2>2 DEF FacetsArrive, FacetsFail
    <3>2. facetsAsked \in Maybe(Window)
      BY DEF Panels, FacetsTyped
    <3>3. {} \in Maybe(Window) /\ {f} \in Maybe(Window) /\ facetsAsked \ {f} \in Maybe(Window)
      BY <3>2 DEF Maybe
    <3>4. facets' \in Maybe(Window) /\ facetsAsked' \in Maybe(Window)
      BY <3>1, <3>3
    <3> QED
      BY <2>2, <3>4 DEF FacetsArrive, FacetsFail, Panels, FacetsTyped
  <2>3. CASE ToggleFacets
    <3>1. facetsOpen' \in BOOLEAN
      BY <2>3 DEF ToggleFacets
    <3>2. CASE UNCHANGED facetsVars
      BY <3>1, <3>2 DEF Panels, FacetsTyped, facetsVars
    <3>3. CASE shownRange # 0 /\ LoadFacets(shownRange)
      <4>1. shownRange \in 1..MaxRequests /\ tool' \in Tools
        BY <2>3, <3>3, BoundsAssumption
        DEF ToggleFacets, Panels, HitsTyped, IInv, CallsTyped, Latest
      <4>2. [tool |-> tool', window |-> shownRange] \in Window
        BY <4>1 DEF Window
      <4> QED
        BY <3>1, <3>3, <4>2 DEF LoadFacets, Panels, FacetsTyped, Maybe
    <3> QED
      BY <2>3, <3>2, <3>3 DEF ToggleFacets
  <2> QED
    BY <2>1, <2>2, <2>3
<1>3. FlagsTyped'
  <2>1. /\ UNCHANGED <<running, connecting, received, leaving, probing>>
        /\ signedOut' \in {signedOut, TRUE}
    BY DEF HitsArrive, HitsFail, FacetsArrive, FacetsFail, ToggleFacets, AbortRaises, runVars,
           tailVars, sessionVars
  <2> QED
    BY <2>1 DEF Panels, FlagsTyped
<1> QED
  BY <1>1, <1>2, <1>3 DEF Panels

LEMMA TailTyped ==
  ASSUME Panels, StopFollowing \/ TailRow \/ FlushTail \/ ConnectGrace \/ TailFails
  PROVE  Panels'
<1>1. HitsTyped' /\ FacetsTyped'
  BY PanelsKept DEF StopFollowing, TailRow, FlushTail, ConnectGrace, TailFails
<1>2. FlagsTyped'
  <2>1. /\ UNCHANGED <<running, leaving, signedOut>> /\ connecting' \in {connecting, FALSE}
        /\ probing' \in {probing, probing + 1}
        /\ received' = received \/ (received < MaxRows /\ received' = received + 1)
    BY DEF StopFollowing, TailRow, FlushTail, ConnectGrace, TailFails, StopTail, runVars, sessionVars
  <2>2. connecting' \in BOOLEAN
    BY <2>1 DEF Panels, FlagsTyped
  <2>3. received' \in 0..MaxRows /\ probing' \in Nat
    BY <2>1, BoundsAssumption DEF Panels, FlagsTyped
  <2> QED
    BY <2>1, <2>2, <2>3 DEF Panels, FlagsTyped
<1> QED
  BY <1>1, <1>2 DEF Panels

LEMMA GateTyped ==
  ASSUME IInv, Panels, LoggedOut \/ ProbeAnswered
  PROVE  Panels'
<1>1. CASE LoggedOut
  <2>1. HitsTyped'
    BY <1>1 DEF LoggedOut, Panels, HitsTyped, IInv, CallsTyped, Latest
  <2>2. FacetsTyped'
    BY <1>1 DEF LoggedOut, Panels, FacetsTyped, Maybe
  <2>3. FlagsTyped'
    <3>1. leaving' \in 0..MaxLogouts
      BY <1>1, BoundsAssumption DEF LoggedOut, Panels, FlagsTyped
    <3> QED
      BY <1>1, <3>1 DEF LoggedOut, Panels, FlagsTyped, runVars, tailVars
  <2> QED
    BY <2>1, <2>2, <2>3 DEF Panels
<1>2. CASE ProbeAnswered
  <2>1. HitsTyped' /\ FacetsTyped'
    BY <1>2, PanelsKept DEF ProbeAnswered
  <2>2. probing' \in Nat
    BY <1>2 DEF ProbeAnswered, Panels, FlagsTyped
  <2>3. FlagsTyped'
    BY <1>2, <2>2 DEF ProbeAnswered, Panels, FlagsTyped, runVars, tailVars
  <2> QED
    BY <2>1, <2>3 DEF Panels
<1> QED
  BY <1>1, <1>2

LEMMA PanelsStay == IInv /\ Panels /\ [Next]_vars => Panels'
<1> SUFFICES ASSUME IInv, Panels, [Next]_vars PROVE Panels'
  OBVIOUS
<1>1. CASE Run
  BY <1>1, StartTyped DEF Run, IInv, CallsTyped
<1>2. ASSUME NEW t \in Tools, SelectTool(t) PROVE Panels'
  BY <1>2, StartTyped DEF SelectTool
<1>3. CASE UNCHANGED vars
  BY <1>3, PanelsKept DEF vars, runVars, tailVars, Panels
<1> QED
  BY <1>1, <1>2, <1>3, FollowTyped, CancelTyped, CallTyped, SidecarTyped, TailTyped, GateTyped
  DEF Next, Reader, Answers, Timers

\* Every variable of the workspace keeps its type: whatever is awaited or shown
\* was asked for, and of histogram and facets one request is in flight at most
\* (run, loadHits, loadFacets, flushTail).
THEOREM WorkspaceTyped == Spec => []TypeOK
<1>1. Init => Panels
  <2> SUFFICES ASSUME Init PROVE Panels
    OBVIOUS
  <2>1. HitsTyped
    <3>1. Latest = 0
      BY DEF Init, Latest
    <3>2. shownRange = 0 /\ hits = 0 /\ hitsAsked = {} /\ hitsLoading = FALSE
      BY DEF Init
    <3>3. hitsLoading \in BOOLEAN
      BY <3>2
    <3>4. shownRange \in 0..Latest /\ hits \in 0..Latest /\ hitsAsked \subseteq 1..Latest
      BY <3>1, <3>2
    <3> QED
      BY <3>3, <3>4 DEF HitsTyped
  <2>2. FacetsTyped
    BY DEF Init, FacetsTyped, Maybe
  <2>3. FlagsTyped
    <3>1. 0 \in 0..MaxRows /\ 0 \in 0..MaxLogouts
      BY BoundsAssumption
    <3> QED
      BY <3>1 DEF Init, FlagsTyped
  <2> QED
    BY <2>1, <2>2, <2>3 DEF Panels
<1>2. IInv /\ Screen /\ Panels => TypeOK
  <2> SUFFICES ASSUME IInv, Screen, Panels PROVE TypeOK
    OBVIOUS
  <2>1. Latest \in Nat
    BY DEF IInv, CallsTyped, Latest
  <2>2. /\ tool \in Tools /\ asked \in Seq(Request) /\ Latest <= MaxRequests
        /\ \A r \in runs : r.id \in 1..Latest /\ r.collected \in Seq(Row) /\ r.aborted \in BOOLEAN
    BY DEF IInv, CallsTyped, Call, Screen, LastAsked
  <2>3. rows \in Seq(Row) /\ buffer \in Seq(Row) /\ leftAt \in 0..Latest
    BY DEF Screen, RowsTyped, Left
  <2>4. error \in 0..Latest /\ source \in 0..Latest
    BY <2>1 DEF IInv, LatestWrites
  <2> QED
    BY <2>2, <2>3, <2>4 DEF Panels, HitsTyped, FacetsTyped, FlagsTyped, TypeOK
<1> QED
  BY <1>1, <1>2, ScreenHolds, PanelsStay, PTL DEF Spec
=============================================================================
