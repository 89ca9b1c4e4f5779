---------------------------- MODULE TailPromise ----------------------------
(***************************************************************************)
(* What a live tail promises the browser, without saying how it is done.   *)
(*                                                                         *)
(* The rows VictoriaLogs sends are numbered 1, 2, 3, ...  A tail first     *)
(* holds the rows it opens with, then releases them in one piece, then     *)
(* follows: one row at a time, in order.  The browser therefore sees a     *)
(* contiguous run of the stream.  Rows may be missing in front of the run  *)
(* only because more than Size rows of history were held, and then the     *)
(* run starts with Size of them (internal/api/tail.go, the comment at the  *)
(* backfill and the one at ring).                                          *)
(***************************************************************************)
EXTENDS Naturals, Sequences

CONSTANT Size        \* how many rows of history the tail may open with

VARIABLES
    shown,           \* the rows written to the browser, oldest first
    skipped,         \* how many rows of history were left out in front
    phase            \* "holding", "following" or "over"

pvars == <<shown, skipped, phase>>

\* n consecutive rows, the first of them right after the skipped ones.
Run(skip, n) == [k \in 1..n |-> skip + k]

PInit ==
    /\ shown = <<>>
    /\ skipped = 0
    /\ phase = "holding"

\* The backfill comes out, possibly with the live row that ended it, and
\* possibly cut short because the browser went away while it was written.
Release ==
    /\ phase = "holding"
    /\ phase' \in {"following", "over"}
    /\ skipped' \in Nat
    /\ shown' = Run(skipped', Len(shown'))
    /\ Len(shown') <= Size + 1
    /\ phase' = "following" /\ skipped' > 0 => Len(shown') >= Size

\* The next row of the stream is shown.
Follow ==
    /\ phase = "following"
    /\ shown' = Append(shown, skipped + Len(shown) + 1)
    /\ UNCHANGED <<skipped, phase>>

\* The tail is over: nothing more is shown.
End ==
    /\ phase' = "over"
    /\ UNCHANGED <<shown, skipped>>

PNext == Release \/ Follow \/ End

PSpec == PInit /\ [][PNext]_pvars
=============================================================================
