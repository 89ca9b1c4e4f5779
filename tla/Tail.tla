-------------------------------- MODULE Tail --------------------------------
(***************************************************************************)
(* One live tail: the handler of GET /api/tail (handleTail), the goroutine *)
(* that reads VictoriaLogs for it (readLines), the ring that holds the     *)
(* backfill, the request's context, and the two ends it talks to, the      *)
(* VictoriaLogs response body and the browser's connection.                *)
(*                                                                         *)
(* A row is its position in what VictoriaLogs sends for this tail.  Of its *)
(* contents only what isHistory tells apart is kept: a time before the     *)
(* tail began, a time after it, or no readable time.  Blank lines are left *)
(* out (readLines drops them).  Time is left out: a timer that is running  *)
(* may expire.  The keepalive comment changes no state unless writing it   *)
(* fails.                                                                  *)
(***************************************************************************)
EXTENDS Integers, Sequences

CONSTANTS
    Limit,    \* the row cap of the request, what s.limit(r) returned
    Feeds,    \* the streams VictoriaLogs may send
    Steady    \* those it sends history first, and without pausing for
              \* backfillSettle while the next row is history

Kinds == {"history", "live", "undated"}

ASSUME LimitAssumption  == Limit \in Int
ASSUME FeedsAssumption  == Feeds \subseteq Seq(Kinds)

\* All the history of a stream comes before the rest of it.
HistoryFirst(f) ==
    \A i, j \in DOMAIN f : i < j /\ f[j] = "history" => f[i] = "history"

ASSUME SteadyAssumption == Steady \subseteq Feeds /\ \A f \in Steady : HistoryFirst(f)

VARIABLES
    feed,       \* the kinds of the rows VictoriaLogs has for this tail
    arrived,    \* how many of them have reached the response body
    torn,       \* the row the body broke off in the middle of, or 0
    body,       \* the response body: "none", "open", "eof", "failed", "closed"
    taken,      \* how many rows have gone through the lines channel
    reader,     \* readLines: "idle", "reading", "offering" row taken+1, "ended"
    errc,       \* what readLines left in its error channel
    peer,       \* the browser's connection: "here" or "gone"
    ctx,        \* the handler's context: "live" or "done"
    pc,         \* handleTail: "connecting", "following", "returned"
    slots,      \* ring.lines, with 0 for an empty slot
    added,      \* ring.n
    open,       \* ring.open
    settle,     \* the settle timer: "off", "armed", "fired"
    out,        \* the rows written to the browser, in order
    complained, \* whether the error event was written
    gauge,      \* this tail's share of the open-tails gauge
    counted     \* this tail's share of the rows counter

upstreamVars == <<feed, arrived, torn, body>>
readerVars   == <<taken, reader, errc>>
ringVars     == <<slots, added, open>>
linkVars     == <<peer, ctx>>
reportVars   == <<out, complained, gauge, counted>>
vars == <<upstreamVars, readerVars, ringVars, linkVars, pc, settle, reportVars>>

-----------------------------------------------------------------------------
(* The ring.                                                               *)

Size == IF Limit < 1 THEN 1 ELSE Limit

EmptySlots == [j \in 0..Size - 1 |-> 0]

\* Bug: draining starts at the first row ever added, however long ago that is.
OldestForgotten == IF open THEN 0 ELSE added

\* Bug: an off-by-one that loses the oldest row held once the ring has wrapped.
OldestOffByOne ==
    LET len == IF open THEN Size ELSE 0
    IN  IF added > len THEN added - len + 1 ELSE 0

\* How many of the rows added are no longer held.  A closed ring has no slots.
Oldest ==
    LET len == IF open THEN Size ELSE 0
    IN  IF added > len THEN added - len ELSE 0

\* What drain returns: the rows held, oldest first; nothing the second time.
Drained == [k \in 1..added - Oldest |-> slots[(Oldest + k - 1) % Size]]

\* Bug: the row counter is advanced before the slot is chosen.
AddAhead(i) ==
    /\ slots' = [slots EXCEPT ![(added + 1) % Size] = i]
    /\ added' = added + 1
    /\ UNCHANGED open

\* The oldest row held is overwritten once the ring is full.
Add(i) ==
    /\ slots' = [slots EXCEPT ![added % Size] = i]
    /\ added' = added + 1
    /\ UNCHANGED open

Drain ==
    /\ slots' = EmptySlots
    /\ open' = FALSE
    /\ UNCHANGED added

\* A row cut short is not readable JSON, so it has no time.
IsHistory(i) == feed[i] = "history" /\ i # torn

-----------------------------------------------------------------------------
(* Writing to the browser.  A connection that is gone may still swallow    *)
(* some of the rows before a write fails.                                  *)

Accepted(s) == IF peer = "here" THEN {Len(s)} ELSE 0..Len(s)

Write(s, k) == out' = out \o SubSeq(s, 1, k)

\* handleTail returns: the rows are counted and the deferred calls run.
Return ==
    /\ pc' = "returned"
    /\ counted' = counted + Len(out')
    /\ settle' = "off"
    /\ gauge' = gauge - 1
    /\ body' = "closed"
    /\ ctx' = "done"

\* What follows a write of s that stopped after k rows.
GoOnOrReturn(s, k) ==
    \/ /\ k = Len(s)
       /\ settle' = "off"
       /\ UNCHANGED <<pc, counted, gauge, body, ctx>>
    \/ /\ k < Len(s)
       /\ Return

-----------------------------------------------------------------------------
Init ==
    /\ feed \in Feeds
    /\ arrived = 0
    /\ torn = 0
    /\ body = "none"
    /\ taken = 0
    /\ reader = "idle"
    /\ errc = "empty"
    /\ peer = "here"
    /\ ctx = "live"
    /\ pc = "connecting"
    /\ slots = EmptySlots
    /\ added = 0
    /\ open = TRUE
    /\ settle = "off"
    /\ out = <<>>
    /\ complained = FALSE
    /\ gauge = 0
    /\ counted = 0

-----------------------------------------------------------------------------
(* VictoriaLogs and the network between it and this process.               *)

RowArrives ==
    /\ body = "open"
    /\ arrived < Len(feed)
    /\ arrived' = arrived + 1
    /\ UNCHANGED <<feed, torn, body, readerVars, ringVars, linkVars, pc, settle, reportVars>>

\* The body ends, at the end of a row or in the middle of the next one, with
\* EOF or with an error.  A body read under a context that is done fails.
BodyEnds ==
    /\ body = "open"
    /\ body' \in {"eof", "failed"}
    /\ \/ UNCHANGED <<arrived, torn>>
       \/ /\ arrived < Len(feed)
          /\ arrived' = arrived + 1
          /\ torn' = arrived + 1
    /\ UNCHANGED <<feed, readerVars, ringVars, linkVars, pc, settle, reportVars>>

-----------------------------------------------------------------------------
(* The browser's connection and the request's context.                     *)

PeerLeaves ==
    /\ peer = "here"
    /\ peer' = "gone"
    /\ UNCHANGED <<upstreamVars, readerVars, ringVars, ctx, pc, settle, reportVars>>

\* The request's context ends: net/http has noticed that the browser is gone,
\* or TailMaxDuration has passed.
CtxEnds ==
    /\ ctx = "live"
    /\ ctx' = "done"
    /\ UNCHANGED <<upstreamVars, readerVars, ringVars, peer, pc, settle, reportVars>>

-----------------------------------------------------------------------------
(* readLines, a goroutine of its own.                                      *)

ReaderReads ==
    /\ reader = "reading"
    /\ taken < arrived
    /\ reader' = "offering"
    /\ UNCHANGED <<upstreamVars, taken, errc, ringVars, linkVars, pc, settle, reportVars>>

\* The error is left in errc first, the channel is closed after it.
ReaderEnds ==
    /\ reader = "reading"
    /\ \/ body = "eof" /\ taken = arrived /\ errc' = "nil"
       \/ body = "failed" /\ taken = arrived /\ errc' = "error"
       \/ body = "closed" /\ errc' = "error"
    /\ reader' = "ended"
    /\ UNCHANGED <<upstreamVars, taken, ringVars, linkVars, pc, settle, reportVars>>

\* Bug: a bare send, which the context does not release.
ReaderGivesUpNever == FALSE

\* Nobody is there to take the row: the context releases the goroutine.
ReaderGivesUp ==
    /\ reader = "offering"
    /\ ctx = "done"
    /\ errc' = "error"
    /\ reader' = "ended"
    /\ UNCHANGED <<upstreamVars, taken, ringVars, linkVars, pc, settle, reportVars>>

Reader == ReaderReads \/ ReaderEnds \/ ReaderGivesUp

-----------------------------------------------------------------------------
(* handleTail.                                                             *)

\* s.vl.Tail answered: the stream is open and readLines is started.
Connect ==
    /\ pc = "connecting"
    /\ pc' = "following"
    /\ body' = "open"
    /\ reader' = "reading"
    /\ settle' = "armed"
    /\ gauge' = gauge + 1
    /\ UNCHANGED <<feed, arrived, torn, taken, errc, ringVars, linkVars, out,
                   complained, counted>>

\* s.vl.Tail failed: an ordinary error response, and no tail.
Refuse ==
    /\ pc = "connecting"
    /\ pc' = "returned"
    /\ ctx' = "done"
    /\ UNCHANGED <<upstreamVars, readerVars, ringVars, peer, settle, reportVars>>

\* case <-ctx.Done(): whatever is held is dropped.
CtxDone ==
    /\ pc = "following"
    /\ ctx = "done"
    /\ UNCHANGED out
    /\ Return
    /\ UNCHANGED <<feed, arrived, torn, readerVars, ringVars, peer, complained>>

\* backfillSettle has passed since the timer was last reset.
SettleExpires ==
    /\ pc = "following"
    /\ settle = "armed"
    /\ feed \in Steady /\ taken < Len(feed) => feed[taken + 1] # "history"
    /\ settle' = "fired"
    /\ UNCHANGED <<upstreamVars, readerVars, ringVars, linkVars, pc, reportVars>>

\* case <-settle.C: send what is held and start following.
SettleTick ==
    /\ pc = "following"
    /\ settle = "fired"
    /\ \E k \in Accepted(Drained) :
          Write(Drained, k) /\ GoOnOrReturn(Drained, k)
    /\ Drain
    /\ UNCHANGED <<feed, arrived, torn, readerVars, peer, complained>>

\* Bug: the rows are not counted on this path.
KeepaliveFailsUncounted ==
    /\ pc = "following"
    /\ peer = "gone"
    /\ pc' = "returned"
    /\ settle' = "off"
    /\ gauge' = gauge - 1
    /\ body' = "closed"
    /\ ctx' = "done"
    /\ UNCHANGED <<feed, arrived, torn, readerVars, ringVars, peer, complained,
                   out, counted>>

\* case <-ticker.C, when the comment cannot be written.
KeepaliveFails ==
    /\ pc = "following"
    /\ peer = "gone"
    /\ UNCHANGED out
    /\ Return
    /\ UNCHANGED <<feed, arrived, torn, readerVars, ringVars, peer, complained>>

\* The unbuffered channel hands row taken+1 over.
HandOver ==
    /\ pc = "following"
    /\ reader = "offering"
    /\ reader' = "reading"
    /\ taken' = taken + 1
    /\ UNCHANGED errc

\* Bug: the settle timer is stopped where it should be reset.
ReceiveHistoryStops ==
    /\ HandOver
    /\ open /\ IsHistory(taken + 1)
    /\ Add(taken + 1)
    /\ settle' = "off"
    /\ UNCHANGED <<upstreamVars, linkVars, pc, reportVars>>

\* case line, ok := <-lines, a row of the history while it is being held.
ReceiveHistory ==
    /\ HandOver
    /\ open /\ IsHistory(taken + 1)
    /\ Add(taken + 1)
    /\ settle' = "armed"
    /\ UNCHANGED <<upstreamVars, linkVars, pc, reportVars>>

\* Bug: the row that ends the backfill goes out before what is held.
ReceiveLiveFirst ==
    /\ HandOver
    /\ ~(open /\ IsHistory(taken + 1))
    /\ LET s == <<taken + 1>> \o Drained
       IN  \E k \in Accepted(s) : Write(s, k) /\ GoOnOrReturn(s, k)
    /\ Drain
    /\ UNCHANGED <<feed, arrived, torn, peer, complained>>

\* The same, a row that goes out, after what is held.
ReceiveLive ==
    /\ HandOver
    /\ ~(open /\ IsHistory(taken + 1))
    /\ LET s == Append(Drained, taken + 1)
       IN  \E k \in Accepted(s) : Write(s, k) /\ GoOnOrReturn(s, k)
    /\ Drain
    /\ UNCHANGED <<feed, arrived, torn, peer, complained>>

\* Bug: what is still held when the stream ends is dropped.
LinesClosedUnflushed ==
    /\ pc = "following"
    /\ reader = "ended"
    /\ UNCHANGED out
    /\ Drain
    /\ Return
    /\ complained' \in IF errc = "error" /\ ctx # "done"
                       THEN IF peer = "here" THEN {TRUE} ELSE BOOLEAN
                       ELSE {FALSE}
    /\ errc' = "empty"
    /\ UNCHANGED <<feed, arrived, torn, taken, reader, peer>>

\* case line, ok := <-lines, the channel is closed: what is held goes out, and
\* a failure that is not the end of the request itself is reported in band.
LinesClosed ==
    /\ pc = "following"
    /\ reader = "ended"
    /\ \E k \in Accepted(Drained) : Write(Drained, k)
    /\ Drain
    /\ Return
    /\ complained' \in IF errc = "error" /\ ctx # "done"
                       THEN IF peer = "here" THEN {TRUE} ELSE BOOLEAN
                       ELSE {FALSE}
    /\ errc' = "empty"
    /\ UNCHANGED <<feed, arrived, torn, taken, reader, peer>>

Loop ==
    \/ CtxDone \/ SettleTick \/ KeepaliveFails
    \/ ReceiveHistory \/ ReceiveLive \/ LinesClosed

Handler == Connect \/ Refuse \/ Loop

-----------------------------------------------------------------------------
Environment == RowArrives \/ BodyEnds \/ PeerLeaves \/ CtxEnds

Next == Environment \/ SettleExpires \/ Reader \/ Handler

Spec == Init /\ [][Next]_vars

(* Fairness.  The Go scheduler runs both goroutines, and select takes some *)
(* ready case.  The settle timer fires unless it is reset first.  A request*)
(* to VictoriaLogs whose context has ended fails.  A steady stream goes on *)
(* while it is in its history, which is what steady means.  Nothing else is*)
(* assumed of VictoriaLogs, and nothing of the browser; nor that           *)
(* TailMaxDuration ever passes.                                            *)
GoesOn ==
    /\ feed \in Steady /\ arrived < Len(feed) /\ feed[arrived + 1] = "history"
    /\ RowArrives

FairSpec ==
    /\ Spec
    /\ WF_vars(Reader) /\ WF_vars(Loop) /\ WF_vars(SettleExpires)
    /\ WF_vars(ctx = "done" /\ Refuse) /\ WF_vars(GoesOn)

-----------------------------------------------------------------------------
(* Properties.                                                             *)

TypeOK ==
    /\ feed \in Seq(Kinds)
    /\ arrived \in 0..Len(feed)
    /\ torn \in 0..arrived
    /\ body \in {"none", "open", "eof", "failed", "closed"}
    /\ taken \in 0..arrived
    /\ reader \in {"idle", "reading", "offering", "ended"}
    /\ errc \in {"empty", "nil", "error"}
    /\ peer \in {"here", "gone"}
    /\ ctx \in {"live", "done"}
    /\ pc \in {"connecting", "following", "returned"}
    /\ slots \in [0..Size - 1 -> Nat]
    /\ added \in 0..taken
    /\ open \in BOOLEAN
    /\ settle \in {"off", "armed", "fired"}
    /\ out \in Seq(Nat)
    /\ complained \in BOOLEAN
    /\ gauge \in {0, 1}
    /\ counted \in Nat

\* While the ring is open it holds the newest rows taken, each in the slot that
\* drain will look for it in, however often the slots were reused.
RingHolds ==
    open => /\ added = taken
            /\ \A i \in 0..added - 1 :
                   added - Size <= i => slots[i % Size] = i + 1

\* How the parts are coupled: when readLines runs, what it leaves behind, and
\* which end of the body goes with which error.
Flow ==
    /\ pc = "connecting" => /\ reader = "idle" /\ body = "none"
                            /\ torn = 0 /\ open
    /\ pc = "following" => reader # "idle" /\ body \in {"open", "eof", "failed"}
    /\ reader = "offering" => taken < arrived
    /\ body = "closed" => ctx = "done"
    /\ body = "open" => torn = 0
    /\ torn # 0 => torn = arrived
    /\ reader = "ended" /\ ctx = "live" =>
           /\ body \in {"eof", "failed"}
           /\ taken = arrived
           /\ errc = "error" <=> body = "failed"
    /\ ~open => settle = "off"

\* The history left out in front of what the browser is shown.
Skipped == IF added > Size THEN added - Size ELSE 0

\* What the browser is shown is one contiguous run of the stream: no row is
\* lost, repeated or reordered between the backfill and the follow, however
\* the backfill ended (settle timer, first live row, end of the stream), and
\* while the tail runs the last row shown is the last one it took.  Only
\* history beyond the newest `limit` rows is missing, and only in front.
NoGap ==
    /\ open => out = <<>>
    /\ out = [k \in 1..Len(out) |-> Skipped + k]
    /\ ~open /\ pc = "following" => Skipped + Len(out) = taken

HistoryBounded == \A k \in 1..Len(out) : IsHistory(out[k]) => k <= Size

\* "The history is buffered here, limit rows deep, and only that much is
\* written out" (tail.go:69): as long as VictoriaLogs sends the history first
\* and does not pause in it, no row of it is shown after Size rows.
BackfillBounded == feed \in Steady => HistoryBounded

\* The metrics agree with what happened on every path out of the handler: an
\* open tail is counted once while it is open, and its rows once it is over.
Accounted ==
    /\ gauge = IF pc = "following" THEN 1 ELSE 0
    /\ counted = IF pc = "returned" THEN Len(out) ELSE 0

\* A tail that ends while the browser is listening and before its ceiling
\* ended because VictoriaLogs did.  Everything that arrived was shown, what
\* was still held included, and a failure (not an EOF) was reported in band.
EndIsComplete ==
    [][pc = "following" /\ pc' = "returned" /\ ctx = "live" /\ peer = "here"
       => /\ Skipped + Len(out') = arrived
          /\ complained' <=> body = "failed"]_vars

\* The handler implements the abstract tail.
Promise == INSTANCE TailPromise WITH
    Size    <- Size,
    shown   <- out,
    skipped <- IF open THEN 0 ELSE Skipped,
    phase   <- IF pc = "returned" THEN "over"
               ELSE IF open THEN "holding" ELSE "following"

KeepsPromise == Promise!PSpec

\* A row that arrived is shown, or was trimmed off the front of the history,
\* or the tail ends.  It holds without the ceiling: on a stream that falls
\* silent after its history the settle timer releases what is held.
EveryRowShown ==
    \A i \in UNION {DOMAIN f : f \in Feeds} :
        (arrived >= i) ~>
            \/ Skipped >= i
            \/ ~open /\ Skipped + Len(out) >= i
            \/ pc = "returned"

\* Once its context has ended, because the browser left or the ceiling was
\* reached, a tail ends and nothing of it survives: the goroutine is gone (it is
\* not left waiting to send a row nobody takes), the upstream body is closed and
\* the gauge is back.
Released ==
    ctx = "done" ~> [](/\ pc = "returned"
                       /\ reader \in {"idle", "ended"}
                       /\ body \in {"none", "closed"}
                       /\ gauge = 0)
=============================================================================
