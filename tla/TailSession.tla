---------------------------- MODULE TailSession ----------------------------
(***************************************************************************)
(* What one press of "follow" becomes: an EventSource (openTail), and the  *)
(* tails it opens one after the other (handleTail), each cut by the        *)
(* ceiling, by the network or by VictoriaLogs and opened again by the      *)
(* browser with the same query, cap and window.                            *)
(*                                                                         *)
(* The two timers of a tail are those of TailTimers, and time passes in    *)
(* the units of that module.  Rows are numbered as they are ingested.      *)
(***************************************************************************)
EXTENDS TailTimers, Sequences, FiniteSets

CONSTANTS
    Window,     \* start_offset
    Limit,      \* the row cap, which the ring is as deep as
    Ceiling,    \* tail_max_duration
    MaxLog      \* bound: the rows ingested

ASSUME SessionAssumption ==
    /\ Window \in Nat \ {0} /\ Limit \in Nat \ {0} /\ Ceiling \in Nat \ {0}
    /\ MaxLog \in Nat

VARIABLES
    conn,       \* "connecting", "open", "dead" (cut, unnoticed), or "stopped"
    age,        \* how old each row is, up to Window + 1
    known,      \* how many rows were there when this tail began
    taken,      \* how many rows this tail has taken from VictoriaLogs
    ring,       \* the rows it holds
    life,       \* how long it has run
    shown,      \* how often each row was put on the pane, up to 2
    excused     \* the rows nobody asked for (history)

session == <<conn, age, known, taken, ring, life, shown, excused>>
sessionVars == <<vars, session>>

Rows     == 1..MaxLog
Ingested == DOMAIN age
Running  == conn \in {"open", "dead"}
Newest(S) == {i \in S : Cardinality({j \in S : j > i}) < Limit}

\* The timers of a tail that is yet to begin.
Reset == open' = TRUE /\ held' = FALSE /\ settle' = 0 /\ tick' = 0 /\ idle' = 0

SessionInit ==
    /\ Init
    /\ conn = "connecting" /\ age = <<>>
    /\ known = 0 /\ taken = 0 /\ ring = {} /\ life = 0
    /\ shown = [i \in Rows |-> 0] /\ excused = {}

\* What is written to a connection that is cut is lost.
Show(S) ==
    shown' = IF conn = "open"
             THEN [i \in Rows |-> IF i \in S /\ shown[i] < 2 THEN shown[i] + 1 ELSE shown[i]]
             ELSE shown

-----------------------------------------------------------------------------
(* One tail.                                                               *)

Ingest ==
    /\ Len(age) < MaxLog
    /\ age' = Append(age, 0)
    /\ UNCHANGED <<vars, conn, known, taken, ring, life, shown, excused>>

\* Bug: a tail that is opened again only follows.
ConnectBlind ==
    /\ conn = "connecting" /\ conn' = "open"
    /\ known' = Len(age) /\ taken' = Len(age)
    /\ UNCHANGED <<vars, age, ring, life, shown, excused>>

\* The request is answered, and VictoriaLogs asked for the window: it starts at
\* the first row inside it, and whatever is older or beyond the cap is excused.
Connect ==
    /\ conn = "connecting" /\ conn' = "open"
    /\ known' = Len(age)
    /\ taken' = Cardinality({i \in Ingested : age[i] > Window})
    /\ excused' = excused \cup
         {i \in Ingested : shown[i] = 0 /\ (age[i] > Window \/ i \notin Newest(Ingested))}
    /\ UNCHANGED <<vars, age, ring, life, shown>>

\* A row from before this tail began is held.
Hold ==
    /\ Running /\ taken < known /\ HistoryRow
    /\ taken' = taken + 1
    /\ ring' = Newest(ring \cup {taken'})
    /\ UNCHANGED <<conn, age, known, life, shown, excused>>

\* Any other row goes out after what is held, and so does one from before that
\* arrives after the settle timer has ended the backfill.
Follow ==
    /\ Running /\ taken < Len(age) /\ (open => taken >= known)
    /\ LiveRow
    /\ taken' = taken + 1
    /\ Show(ring \cup {taken'}) /\ ring' = {}
    /\ UNCHANGED <<conn, age, known, life, excused>>

Settles ==
    /\ Running /\ SettleFires
    /\ Show(ring) /\ ring' = {}
    /\ UNCHANGED <<conn, age, known, taken, life, excused>>

StaysAlive == Running /\ KeepaliveFires /\ UNCHANGED session

-----------------------------------------------------------------------------
(* Its end, and the next one.                                              *)

Over(next) ==
    /\ Reset
    /\ conn' = next
    /\ known' = 0 /\ taken' = 0 /\ ring' = {} /\ life' = 0
    /\ UNCHANGED <<age, excused>>

\* ctx.Done(): what is held is dropped, and the browser connects again.
CeilingEnds == Running /\ life = Ceiling /\ Over("connecting") /\ UNCHANGED shown

\* The network or a proxy cuts the connection; the browser notices later.
Cut    == conn = "open" /\ conn' = "dead" /\ UNCHANGED <<vars, age, known, taken, ring, life, shown, excused>>
Notice == conn = "dead" /\ Over("connecting") /\ UNCHANGED shown

\* VictoriaLogs ends the stream: what is held goes out first.
StreamEnds == Running /\ Over("connecting") /\ Show(ring)

\* ... or breaks it off: the error event follows, and the page stops the tail.
\* So it does when a request is refused, which the browser does not try again.
StreamFails == conn = "open" /\ Over("stopped") /\ Show(ring)
Refused     == conn = "connecting" /\ Over("stopped") /\ UNCHANGED shown

\* The reader stops following (stopTail).
Stop == conn # "stopped" /\ Over("stopped") /\ UNCHANGED shown

\* Time passes for the log, and for a tail that has nothing due.
Pass ==
    /\ age' = [i \in Ingested |-> IF age[i] > Window THEN age[i] ELSE age[i] + 1]
    /\ IF Running
       THEN Elapse /\ life < Ceiling /\ life' = life + 1
       ELSE UNCHANGED <<vars, life>>
    /\ UNCHANGED <<conn, known, taken, ring, shown, excused>>

Undisturbed ==
    \/ Ingest \/ Connect \/ Hold \/ Follow \/ Settles \/ StaysAlive \/ Pass
    \/ CeilingEnds \/ Stop

SessionNext == Undisturbed \/ Cut \/ Notice \/ StreamEnds \/ StreamFails \/ Refused

SessionSpec == SessionInit /\ [][SessionNext]_sessionVars

\* Neither the network nor VictoriaLogs fails: only the ceiling ends a tail.
CalmSpec == SessionInit /\ [][Undisturbed]_sessionVars

-----------------------------------------------------------------------------
(* Properties.                                                             *)

\* However many tails it took, and wherever in a backfill one of them was cut:
\* once the pane follows, every row that has come this far was put on it,
\* except what was older than the window, or beyond the row cap, when a tail
\* began that could have brought it (handleTail, openTail).
NothingMissed ==
    (conn = "open" /\ ~open) => \A i \in 1..taken : shown[i] > 0 \/ i \in excused

\* "When it expires the browser reconnects by itself, so nobody sees the seam"
\* (tail.go:54-55): no row is put on the pane twice.
SeamIsInvisible == \A i \in Rows : shown[i] < 2
=============================================================================
