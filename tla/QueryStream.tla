---------------------------- MODULE QueryStream ----------------------------
(***************************************************************************)
(* One query, end to end: the VictoriaLogs response body, the handler of   *)
(* POST /api/query that forwards it line by line (handleQuery, pump,       *)
(* streamFailed), the HTTP response between this process and the browser,  *)
(* and the generator that turns it back into rows (streamQuery, parseRow). *)
(*                                                                         *)
(* A line is three pieces: its first part, the rest of it, the newline.    *)
(* That is enough for a body that breaks off inside a line, for a newline  *)
(* that never comes, and for chunks that end anywhere.  The line number is *)
(* its position in what VictoriaLogs sends; 0 is the sentinel.             *)
(***************************************************************************)
EXTENDS Integers, Sequences

CONSTANTS
    Limit,      \* the row cap of the request
    MaxRows     \* how many rows VictoriaLogs may send (a bound of the model)

ASSUME LimitAssumption   == Limit \in Nat \ {0}
ASSUME MaxRowsAssumption == MaxRows \in Nat

VARIABLES
    arrived,    \* complete lines that have reached the upstream body
    torn,       \* pieces of one more line in front of the body's end
    body,       \* the upstream body: "none", "open", "eof", "failed"
    ctx,        \* the handler's context: "live", "deadline", "canceled"
    peer,       \* the browser's connection: "here" or "gone"
    pc,         \* handleQuery: "opening", "pumping", "failing", "refused", "done"
    rows,       \* pump's rows
    pipe,       \* the pieces written to the response
    flushed,    \* how many of them have been pushed to the browser
    age,        \* flush intervals since lastFlush, up to MaxAge
    client,     \* streamQuery: "reading", "ok", "failed", "aborted"
    got,        \* pieces the browser has read
    buffer,     \* streamQuery's buffer: an incomplete line
    shown,      \* the rows yielded, in order
    reason      \* why the client failed: "none", or see Fail below

upVars     == <<arrived, torn, body>>
serverVars == <<pc, rows, pipe, flushed, age>>
clientVars == <<client, got, buffer, shown, reason>>
vars == <<upVars, ctx, peer, serverVars, clientVars>>

MaxAge == 2

Piece   == [line: 0..MaxRows, part: {"head", "rest", "newline"}]
Line(i) == << [line |-> i, part |-> "head"], [line |-> i, part |-> "rest"],
              [line |-> i, part |-> "newline"] >>

Sentinel == 0

-----------------------------------------------------------------------------
Init ==
    /\ arrived = 0 /\ torn = 0 /\ body = "none"
    /\ ctx = "live" /\ peer = "here"
    /\ pc = "opening" /\ rows = 0 /\ pipe = <<>> /\ flushed = 0 /\ age = 0
    /\ client = "reading" /\ got = 0 /\ buffer = <<>> /\ shown = <<>>
    /\ reason = "none"

-----------------------------------------------------------------------------
(* VictoriaLogs, the connection and the clock.                             *)

LineArrives ==
    /\ pc = "pumping" /\ body = "open" /\ arrived < MaxRows
    /\ arrived' = arrived + 1
    /\ UNCHANGED <<torn, body, ctx, peer, serverVars, clientVars>>

\* The body ends between two lines or inside one, with EOF or with an error.
\* Reading it under a context that is done is an error.
BodyEnds ==
    /\ pc = "pumping" /\ body = "open"
    /\ torn' \in IF arrived < MaxRows THEN 0..2 ELSE {0}
    /\ body' \in {"eof", "failed"}
    /\ UNCHANGED <<arrived, ctx, peer, serverVars, clientVars>>

\* Bug: the stream is not bounded by victorialogs.timeout.
DeadlineNever == FALSE

\* victorialogs.timeout has passed.
Deadline ==
    /\ ctx = "live"
    /\ ctx' = "deadline"
    /\ UNCHANGED <<upVars, peer, serverVars, clientVars>>

\* net/http has noticed that the browser is gone.
Canceled ==
    /\ ctx = "live" /\ peer = "gone"
    /\ ctx' = "canceled"
    /\ UNCHANGED <<upVars, peer, serverVars, clientVars>>

IntervalPasses ==
    /\ pc = "pumping" /\ age < MaxAge
    /\ age' = age + 1
    /\ UNCHANGED <<upVars, ctx, peer, pc, rows, pipe, flushed, clientVars>>

-----------------------------------------------------------------------------
(* handleQuery.                                                            *)

Open ==
    /\ pc = "opening"
    /\ pc' = "pumping"
    /\ body' = "open"
    /\ age' = 0
    /\ UNCHANGED <<arrived, torn, ctx, peer, rows, pipe, flushed, clientVars>>

\* s.vl.Query failed: the status line carries the error.
Refuse ==
    /\ pc = "opening"
    /\ pc' = "refused"
    /\ UNCHANGED <<upVars, ctx, peer, rows, pipe, flushed, age, clientVars>>

\* The handler returns: the deferred calls close the upstream body and end its
\* context, and net/http flushes what is left and ends the response.
Finish == pc' = "done" /\ flushed' = Len(pipe')

\* The write fails because the browser is gone: pump returns without an error.
WriteFails ==
    /\ pc = "pumping" /\ peer = "gone"
    /\ UNCHANGED <<pipe, rows, age>> /\ Finish
    /\ UNCHANGED <<upVars, ctx, peer, clientVars>>

\* Bug: the limit is left to VictoriaLogs.
ForwardUnlimited ==
    /\ pc = "pumping" /\ rows < arrived
    /\ pipe' = pipe \o Line(rows + 1)
    /\ rows' = rows + 1
    /\ flushed' = Len(pipe') /\ age' = 0
    /\ UNCHANGED <<upVars, ctx, peer, pc, clientVars>>

\* pump forwards a complete line, and flushes if flushInterval is over.
Forward ==
    /\ pc = "pumping" /\ rows < Limit /\ rows < arrived
    /\ pipe' = pipe \o Line(rows + 1)
    /\ rows' = rows + 1
    /\ IF age >= 1 THEN flushed' = Len(pipe') /\ age' = 0
                   ELSE UNCHANGED <<flushed, age>>
    /\ UNCHANGED <<upVars, ctx, peer, pc, clientVars>>

\* The loop ends at the limit, without reading further.
LimitReached ==
    /\ pc = "pumping" /\ rows >= Limit
    /\ UNCHANGED <<pipe, rows, age>> /\ Finish
    /\ UNCHANGED <<upVars, ctx, peer, clientVars>>

\* The body is at its end.  What there is of one more line is forwarded as it
\* is; it is not a row, for it has no newline.
ForwardLast ==
    /\ pc = "pumping" /\ rows < Limit /\ rows = arrived
    /\ body \in {"eof", "failed"}
    /\ pipe' = pipe \o SubSeq(Line(rows + 1), 1, torn)
    /\ IF body = "eof"
       THEN Finish
       ELSE pc' = "failing" /\ flushed' = Len(pipe')
    /\ UNCHANGED <<upVars, ctx, peer, rows, age, clientVars>>

\* Bug: a timeout is taken for the caller giving up.
StreamFailedSilent ==
    /\ pc = "failing"
    /\ pipe' = IF ctx # "live" THEN pipe ELSE pipe \o Line(Sentinel)
    /\ Finish
    /\ UNCHANGED <<upVars, ctx, peer, rows, age, clientVars>>

\* streamFailed: the sentinel, unless the caller is the one who gave up.
StreamFailed ==
    /\ pc = "failing"
    /\ pipe' = IF ctx = "canceled" THEN pipe ELSE pipe \o Line(Sentinel)
    /\ Finish
    /\ UNCHANGED <<upVars, ctx, peer, rows, age, clientVars>>

Server == Open \/ Refuse \/ WriteFails \/ Forward \/ LimitReached
          \/ ForwardLast \/ StreamFailed

-----------------------------------------------------------------------------
(* streamQuery.                                                            *)

\* parseRow: a whole line is a row or the sentinel, an empty one is nothing,
\* and anything else is not JSON.
IsRow(line) == \E i \in 0..MaxRows : line = SubSeq(Line(i), 1, 2)

Verdict(line) ==
    IF line = <<>> THEN "blank"
    ELSE IF ~IsRow(line) THEN "unreadable"
    ELSE IF line[1].line = Sentinel THEN "sentinel" ELSE "row"

\* One piece of the decoded stream; after a line that fails nothing is parsed.
Take(acc, piece) ==
    IF acc.reason # "none" THEN acc
    ELSE IF piece.part # "newline" THEN [acc EXCEPT !.buffer = Append(@, piece)]
    ELSE CASE Verdict(acc.buffer) = "blank" -> acc
           [] Verdict(acc.buffer) = "row" ->
                [acc EXCEPT !.buffer = <<>>,
                            !.batch = Append(@, acc.buffer[1].line)]
           [] OTHER -> [acc EXCEPT !.reason = Verdict(acc.buffer)]

\* The loop over a chunk's pieces.
Chunk(pieces) ==
    LET after[j \in 0..Len(pieces)] ==
            IF j = 0 THEN [buffer |-> buffer, batch |-> <<>>, reason |-> "none"]
            ELSE Take(after[j - 1], pieces[j])
    IN after[Len(pieces)]

\* A chunk of any size: its complete lines are one batch.  When one of them
\* fails the exception leaves the loop and takes the batch with it.
ReadChunk ==
    /\ client = "reading" /\ peer = "here" /\ got < flushed
    /\ \E n \in 1..flushed - got :
          LET read == Chunk(SubSeq(pipe, got + 1, got + n))
          IN  /\ got' = got + n
              /\ IF read.reason = "none"
                 THEN /\ shown' = shown \o read.batch
                      /\ buffer' = read.buffer
                      /\ UNCHANGED <<client, reason, peer>>
                 ELSE /\ client' = "failed" /\ reason' = read.reason
                      /\ peer' = "gone"
                      /\ UNCHANGED <<shown, buffer>>
    /\ UNCHANGED <<upVars, ctx, serverVars>>

\* The response has ended: what is left in the buffer is parsed as a line.
ReadEnd ==
    /\ client = "reading" /\ peer = "here" /\ pc = "done" /\ got = Len(pipe)
    /\ CASE Verdict(buffer) = "blank" ->
               client' = "ok" /\ UNCHANGED <<shown, reason>>
         [] Verdict(buffer) = "row" ->
               /\ client' = "ok" /\ shown' = Append(shown, buffer[1].line)
               /\ UNCHANGED reason
         [] OTHER ->
               /\ client' = "failed" /\ reason' = Verdict(buffer)
               /\ UNCHANGED shown
    /\ buffer' = <<>>
    /\ UNCHANGED <<upVars, ctx, peer, serverVars, got>>

\* check: a status that is not ok.
ReadStatus ==
    /\ client = "reading" /\ peer = "here" /\ pc = "refused"
    /\ client' = "failed" /\ reason' = "http"
    /\ UNCHANGED <<upVars, ctx, peer, serverVars, got, buffer, shown>>

\* The caller aborts (Cancel, or a newer run), or the connection breaks.
Leave ==
    /\ client = "reading" /\ peer = "here"
    /\ peer' = "gone"
    /\ \/ client' = "aborted" /\ UNCHANGED reason
       \/ client' = "failed" /\ reason' = "network"
    /\ UNCHANGED <<upVars, ctx, serverVars, got, buffer, shown>>

Client == ReadChunk \/ ReadEnd \/ ReadStatus

-----------------------------------------------------------------------------
Environment == LineArrives \/ BodyEnds \/ Deadline \/ Canceled \/ IntervalPasses

Next == Environment \/ Server \/ Client \/ Leave

Spec == Init /\ [][Next]_vars

(* Fairness.  Both programs run; the timeout passes; net/http notices a    *)
(* closed connection; a body read under a context that is done fails, and  *)
(* so does a request.  Nothing is assumed of VictoriaLogs otherwise.       *)
FairSpec ==
    /\ Spec
    /\ WF_vars(Client)
    /\ WF_vars(WriteFails \/ Forward \/ LimitReached \/ ForwardLast \/ StreamFailed)
    /\ WF_vars(Canceled)
    /\ WF_vars(Deadline)
    /\ WF_vars(ctx # "live" /\ Refuse)
    /\ WF_vars(ctx # "live" /\ BodyEnds)

-----------------------------------------------------------------------------
(* Properties.                                                             *)

TypeOK ==
    /\ arrived \in 0..MaxRows /\ torn \in 0..2
    /\ body \in {"none", "open", "eof", "failed"}
    /\ ctx \in {"live", "deadline", "canceled"} /\ peer \in {"here", "gone"}
    /\ pc \in {"opening", "pumping", "failing", "refused", "done"}
    /\ rows \in 0..Limit /\ rows <= arrived
    /\ pipe \in Seq(Piece) /\ flushed \in 0..Len(pipe) /\ age \in 0..MaxAge
    /\ client \in {"reading", "ok", "failed", "aborted"}
    /\ got \in 0..flushed /\ buffer \in Seq(Piece) /\ shown \in Seq(1..MaxRows)
    /\ reason \in {"none", "http", "network", "sentinel", "unreadable"}

\* However the response was cut into chunks, the rows shown are the first rows
\* VictoriaLogs sent, each once and in order, and no more than the limit.
ShownIsPrefix ==
    /\ shown = [i \in 1..Len(shown) |-> i]
    /\ Len(shown) <= Limit
    /\ Len(shown) <= arrived + (IF torn = 2 /\ body # "open" THEN 1 ELSE 0)

\* A result is never short without saying so: if the browser takes the query
\* for a success, it has every row up to the limit of a body that ended with
\* EOF and not inside a line.  In particular a failure halfway, which can no
\* longer change the status, is never mistaken for the end of the result.
NoSilentTruncation ==
    client = "ok" =>
        \/ Len(shown) = Limit
        \/ /\ body = "eof" /\ torn # 1
           /\ Len(shown) = arrived + (IF torn = 2 THEN 1 ELSE 0)

\* The query always comes to an end on both sides.  "Closing the body is what
\* stops the query at the far end, so it must happen on every path, including
\* the browser hitting Cancel" (query.go:65): a quiet query is no exception.
Settles == <>(client # "reading" /\ pc \in {"refused", "done"})


=============================================================================
