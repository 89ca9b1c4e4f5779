----------------------------- MODULE TailTimers -----------------------------
(***************************************************************************)
(* The two timers of one live tail (handleTail), with the clock that Tail  *)
(* leaves out: the settle timer that ends the backfill and the ticker that *)
(* keeps an idle stream alive through the proxies in front of it.          *)
(*                                                                         *)
(* Time passes in units.  The handler serves a timer that is due before    *)
(* more time passes.                                                       *)
(***************************************************************************)
EXTENDS Integers

CONSTANTS
    Settle,     \* backfillSettle, in units of time
    Keepalive   \* keepalive, in units of time

ASSUME SettleAssumption    == Settle \in Nat \ {0}
ASSUME KeepaliveAssumption == Keepalive \in Nat /\ Keepalive > Settle

VARIABLES
    open,       \* ring.open: the backfill is being held
    held,       \* whether the ring holds a row
    settle,     \* time since the settle timer was set; Off once it is stopped
    tick,       \* time since the ticker was set
    idle        \* time since bytes were last sent, up to TooLong

vars == <<open, held, settle, tick, idle>>

Off     == -1
TooLong == Keepalive + 1

Init ==
    /\ open = TRUE /\ held = FALSE
    /\ settle = 0 /\ tick = 0
    /\ idle = 0                         \* the headers have just been flushed

Elapse ==
    /\ settle < Settle /\ tick < Keepalive
    /\ settle' = IF settle = Off THEN Off ELSE settle + 1
    /\ tick' = tick + 1
    /\ idle' = IF idle = TooLong THEN TooLong ELSE idle + 1
    /\ UNCHANGED <<open, held>>

\* A row of the history is held: both timers are set again, nothing is sent.
HistoryRow ==
    /\ open
    /\ held' = TRUE /\ settle' = 0 /\ tick' = 0
    /\ UNCHANGED <<open, idle>>

\* A live row is sent, after what is held.
LiveRow ==
    /\ idle' = 0 /\ tick' = 0
    /\ open' = FALSE /\ held' = FALSE /\ settle' = Off

\* Bug: the ticker is set again where nothing may have been sent.
SettleFiresResets ==
    /\ settle = Settle
    /\ idle' = IF held THEN 0 ELSE idle
    /\ open' = FALSE /\ held' = FALSE /\ settle' = Off
    /\ tick' = 0

\* The history has stopped arriving: what is held is sent.
SettleFires ==
    /\ settle = Settle
    /\ idle' = IF held THEN 0 ELSE idle
    /\ open' = FALSE /\ held' = FALSE /\ settle' = Off
    /\ UNCHANGED tick

KeepaliveFires ==
    /\ tick = Keepalive
    /\ idle' = 0 /\ tick' = 0
    /\ UNCHANGED <<open, held, settle>>

Next == Elapse \/ HistoryRow \/ LiveRow \/ SettleFires \/ KeepaliveFires

Spec == Init /\ [][Next]_vars

-----------------------------------------------------------------------------
(* Properties.                                                             *)

\* The types, and: the settle timer runs exactly while the backfill is held,
\* so it can never end a backfill a second time.
TypeOK ==
    /\ open \in BOOLEAN /\ held \in BOOLEAN /\ (held => open = TRUE)
    /\ settle \in IF open THEN 0..Settle ELSE {Off}
    /\ tick \in 0..Keepalive
    /\ idle \in 0..TooLong

\* Once the tail follows, something goes down the stream at least every
\* keepalive, whenever the backfill ended between two ticks.
FollowIsKeptAlive == ~open => idle <= Keepalive

=============================================================================
