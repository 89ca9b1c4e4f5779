------------------------------- MODULE MCTail -------------------------------
(***************************************************************************)
(* Small instances of Tail.  Three rows of history overrun a ring of two,  *)
(* so that a slot is reused, and four reuse both; live rows follow.        *)
(***************************************************************************)
EXTENDS Tail

\* Rows of each kind, in the order named.
Stream(h, l, u) ==
    [i \in 1..h |-> "history"] \o [i \in 1..l |-> "live"]
    \o [i \in 1..u |-> "undated"]

\* Streams that are sent without a pause within their history.
MCSteady == {Stream(h, 2, 0) : h \in 2..3} \cup {Stream(4, 1, 0)}

\* Also streams with pauses, and with a row of history that comes late, after a
\* row that is not.
MCFeeds ==
    MCSteady \cup {Stream(h, l, 0) : h \in 0..3, l \in 0..1} \cup {Stream(4, 0, 0)}
    \cup {<<"history", "undated", "history", "live">>,
          <<"live", "history", "history">>,
          <<"undated", "live">>,
          <<"history", "history", "history", "undated">>}
=============================================================================
