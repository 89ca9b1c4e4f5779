----------------------------- MODULE Workspace -----------------------------
(***************************************************************************)
(* The workspace of the page (App.vue): one pane of rows shared by queries *)
(* and the live tail, the histogram and the field panel that are loaded    *)
(* beside a query, the selected tool, and signing out.                     *)
(*                                                                         *)
(* JavaScript runs one task at a time: a click, a timer or an answer is an *)
(* action.  What is asynchronous is a request: it is made in one action    *)
(* and answered in another, and anything may happen between.  Aborting a   *)
(* query rejects the promise its run() waits for, and that continuation    *)
(* runs before the next task: while one is due no task starts (Task).      *)
(*                                                                         *)
(* A request is known by its number, a row by the number of its request    *)
(* and its time there.  A window of time is that of the query it was       *)
(* resolved for.  What the query box says is left out.                     *)
(***************************************************************************)
EXTENDS Integers, FiniteSets, SequencesExt

CONSTANTS
    Tools,          \* the tools of the deployment
    Cap,            \* rows a tail keeps: the smaller of limit and max_rows
    MaxRequests,    \* bound: queries and tails in one visit
    MaxRows,        \* bound: rows one of them delivers
    MaxLogouts      \* bound: logouts on the way at one time

ASSUME ToolsAssumption == Tools # {} /\ IsFiniteSet(Tools)
ASSUME CapAssumption == Cap \in Nat \ {0}
ASSUME BoundsAssumption == MaxRequests \in Nat /\ MaxRows \in Nat /\ MaxLogouts \in Nat

VARIABLES
    tool,           \* activeTool
    asked,          \* the queries and tails asked for so far, in order
    runs,           \* the calls of run() that have not returned
    running,
    rows,           \* the rows on screen
    error,          \* the request whose error is on screen, or 0
    shownRange,     \* the query whose window is shown, or 0
    hits,           \* the query whose histogram is drawn, or 0
    hitsAsked,      \* the histogram requests in flight, by query
    hitsLoading,
    facets,         \* at most one facet response: what it was asked for
    facetsAsked,    \* the facet requests in flight
    facetsLoading,
    facetsOpen,
    source,         \* the tail whose EventSource is open, or 0: tailing
    connecting,     \* tailConnecting
    received,       \* rows the last tail has delivered
    buffer,         \* tailBuffer
    leaving,        \* the calls of signOut waiting for the answer to their logout
    leftAt,         \* what had been asked for when it was last clicked (history)
    probing,        \* probe() calls waiting for an answer
    signedOut       \* the login gate is up

runVars     == <<runs, running>>
hitsVars    == <<hits, hitsAsked, hitsLoading>>
facetsVars  == <<facets, facetsAsked, facetsLoading>>
tailVars    == <<source, connecting, received, buffer>>
sessionVars == <<leaving, leftAt, probing, signedOut>>
vars == <<tool, asked, runVars, rows, error, shownRange, hitsVars,
          facetsVars, facetsOpen, tailVars, sessionVars>>

Latest == Len(asked)

\* At most one thing: {} or a singleton.
Maybe(S) == {{}} \cup {{x} : x \in S}

-----------------------------------------------------------------------------
Init ==
    /\ tool \in Tools
    /\ asked = <<>> /\ runs = {} /\ running = FALSE
    /\ rows = <<>> /\ error = 0 /\ shownRange = 0
    /\ hits = 0 /\ hitsAsked = {} /\ hitsLoading = FALSE
    /\ facets = {} /\ facetsAsked = {} /\ facetsLoading = FALSE
    /\ facetsOpen \in BOOLEAN
    /\ source = 0 /\ connecting = FALSE /\ received = 0 /\ buffer = <<>>
    /\ leaving = 0 /\ leftAt = 0 /\ probing = 0 /\ signedOut = FALSE

\* No continuation of an aborted query is due.
Task == \A r \in runs : ~r.aborted

\* A click or a key in the workspace, which the gate replaces on the screen and
\* which listens to no key behind it.  The buttons of the browser still work.
Input == Task /\ ~signedOut

\* Nothing is heard of a request that was aborted, unless its answer was a 401
\* and the abort met the body of it: that raises the gate all the same (check).
AbortRaises(loading) == signedOut' \in IF loading THEN {signedOut, TRUE} ELSE {signedOut}

-----------------------------------------------------------------------------
(* A query.                                                                *)

Aborted == {[r EXCEPT !.aborted = TRUE] : r \in runs}

Ask(kind) == asked' = Append(asked, [kind |-> kind, tool |-> tool'])

\* Bug: the request before this one is not aborted.
LoadHitsBeside ==
    hitsAsked' = hitsAsked \cup {Len(asked')} /\ hitsLoading' = TRUE /\ UNCHANGED hits

LoadHits == hitsAsked' = {Len(asked')} /\ hitsLoading' = TRUE /\ UNCHANGED hits

LoadFacets(window) ==
    /\ facetsAsked' = {[tool |-> tool', window |-> window]}
    /\ facetsLoading' = TRUE
    /\ UNCHANGED facets

\* Bug: the query before this one is not aborted.
StartBeside ==
    /\ Latest < MaxRequests
    /\ Ask("run")
    /\ runs' = runs \cup {[id |-> Len(asked'), collected |-> <<>>, aborted |-> FALSE]}
    /\ running' = TRUE /\ error' = 0 /\ rows' = <<>> /\ shownRange' = Len(asked')
    /\ LoadHits
    /\ IF facetsOpen THEN LoadFacets(Len(asked')) ELSE UNCHANGED facetsVars
    /\ source' = 0 /\ connecting' = FALSE /\ buffer' = <<>>
    /\ AbortRaises(hitsAsked # {} \/ (facetsOpen /\ facetsAsked # {}))
    /\ UNCHANGED <<received, facetsOpen, leaving, leftAt, probing>>

\* run(), up to where it waits for the first rows: a tail is stopped (its
\* remainder is flushed into a pane that is then emptied), the query before
\* this one is aborted, and the sidecars are loaded.
Start ==
    /\ Latest < MaxRequests
    /\ Ask("run")
    /\ runs' = Aborted \cup {[id |-> Len(asked'), collected |-> <<>>, aborted |-> FALSE]}
    /\ running' = TRUE /\ error' = 0 /\ rows' = <<>> /\ shownRange' = Len(asked')
    /\ LoadHits
    /\ IF facetsOpen THEN LoadFacets(Len(asked')) ELSE UNCHANGED facetsVars
    /\ source' = 0 /\ connecting' = FALSE /\ buffer' = <<>>
    /\ AbortRaises(hitsAsked # {} \/ (facetsOpen /\ facetsAsked # {}))
    /\ UNCHANGED <<received, facetsOpen, leaving, leftAt, probing>>

\* The first is the workspace's own start, for which Back from the status page
\* is enough, behind the gate as well (startWorkspace).
Run == (Input \/ (Task /\ asked = <<>>)) /\ UNCHANGED tool /\ Start

\* selectTool: the new tool's query is run.  Back and Forward come to it too
\* (onPopState), behind the gate as well.
SelectTool(t) ==
    /\ Task /\ t # tool
    /\ tool' = t
    /\ Start

\* A batch: one more row, in whatever order VictoriaLogs finds them.
Batch(r) ==
    /\ Task
    /\ \E at \in 1..MaxRows :
          /\ \A i \in 1..Len(r.collected) : r.collected[i].at # at
          /\ LET more == Append(r.collected, [src |-> r.id, at |-> at])
             IN  /\ rows' = more
                 /\ runs' = (runs \ {r}) \cup {[r EXCEPT !.collected = more]}
    /\ UNCHANGED <<tool, asked, running, error, shownRange, hitsVars,
                   facetsVars, facetsOpen, tailVars, sessionVars>>

\* run() returns: its `finally`.
Return(r) == runs' = runs \ {r} /\ running' = FALSE

\* The arrangements of rows with the newest first; no two rows of a query have
\* the same time here, and it is one.
NewestFirst(rs) ==
    {[i \in DOMAIN rs |-> rs[p[i]]] :
        p \in {q \in [DOMAIN rs -> DOMAIN rs] :
                  /\ IsInjective(q)
                  /\ \A i, j \in DOMAIN rs : i < j => rs[q[i]].at >= rs[q[j]].at}}

RunEnds(r) ==
    /\ Task /\ Return(r)
    /\ rows' \in NewestFirst(r.collected)
    /\ UNCHANGED <<tool, asked, error, shownRange, hitsVars, facetsVars,
                   facetsOpen, tailVars, sessionVars>>

\* The stream failed, or the answer was not a stream.  A 401 raises the gate.
RunFails(r) ==
    /\ Task /\ Return(r)
    /\ error' = r.id /\ rows' = r.collected
    /\ signedOut' \in IF r.collected = <<>> THEN {signedOut, TRUE} ELSE {signedOut}
    /\ UNCHANGED <<tool, asked, shownRange, hitsVars, facetsVars, facetsOpen,
                   tailVars, leaving, leftAt, probing>>

\* Bug: the rejection of an aborted query is taken for a failure.
RunAbortedReported(r) ==
    /\ r.aborted /\ Return(r)
    /\ rows' = r.collected
    /\ error' = r.id
    /\ AbortRaises(r.collected = <<>>)
    /\ UNCHANGED <<tool, asked, shownRange, hitsVars, facetsVars,
                   facetsOpen, tailVars, leaving, leftAt, probing>>

\* The continuation of an aborted query: its `catch` and `finally`.
RunAborted(r) ==
    /\ r.aborted /\ Return(r)
    /\ rows' = r.collected
    /\ AbortRaises(r.collected = <<>>)
    /\ UNCHANGED <<tool, asked, error, shownRange, hitsVars, facetsVars,
                   facetsOpen, tailVars, leaving, leftAt, probing>>

\* cancel(): everything in flight is aborted.  An aborted histogram or facet
\* request does not even end its loading flag.
CancelAll ==
    /\ runs' = Aborted /\ running' = FALSE
    /\ hitsAsked' = {} /\ facetsAsked' = {}
    /\ AbortRaises(hitsAsked # {} \/ facetsAsked # {})

Cancel ==
    /\ Input /\ running /\ CancelAll
    /\ UNCHANGED <<tool, asked, rows, error, shownRange, hits, hitsLoading, facets,
                   facetsLoading, facetsOpen, tailVars, leaving, leftAt, probing>>

-----------------------------------------------------------------------------
(* The histogram and the field panel.                                      *)

HitsArrive ==
    /\ Task
    /\ \E h \in hitsAsked : hits' = h /\ hitsAsked' = hitsAsked \ {h}
    /\ hitsLoading' = FALSE
    /\ UNCHANGED <<tool, asked, runVars, rows, error, shownRange, facetsVars,
                   facetsOpen, tailVars, sessionVars>>

HitsFail ==
    /\ Task
    /\ \E h \in hitsAsked : hitsAsked' = hitsAsked \ {h}
    /\ hits' = 0 /\ hitsLoading' = FALSE
    /\ signedOut' \in {signedOut, TRUE}
    /\ UNCHANGED <<tool, asked, runVars, rows, error, shownRange, facetsVars,
                   facetsOpen, tailVars, leaving, leftAt, probing>>

FacetsArrive ==
    /\ Task
    /\ \E f \in facetsAsked : facets' = {f} /\ facetsAsked' = facetsAsked \ {f}
    /\ facetsLoading' = FALSE
    /\ UNCHANGED <<tool, asked, runVars, rows, error, shownRange, hitsVars,
                   facetsOpen, tailVars, sessionVars>>

\* The request failed, or no log matched.
FacetsFail ==
    /\ Task
    /\ \E f \in facetsAsked : facetsAsked' = facetsAsked \ {f}
    /\ facets' = {} /\ facetsLoading' = FALSE
    /\ signedOut' \in {signedOut, TRUE}
    /\ UNCHANGED <<tool, asked, runVars, rows, error, shownRange, hitsVars,
                   facetsOpen, tailVars, leaving, leftAt, probing>>

ToggleFacets ==
    /\ Input
    /\ facetsOpen' = ~facetsOpen
    /\ UNCHANGED tool
    /\ IF facetsOpen' /\ source = 0 /\ shownRange # 0 /\ facets = {}
       THEN LoadFacets(shownRange) /\ AbortRaises(facetsAsked # {})
       ELSE UNCHANGED <<facetsVars, signedOut>>
    /\ UNCHANGED <<asked, runVars, rows, error, shownRange, hitsVars, tailVars,
                   leaving, leftAt, probing>>

-----------------------------------------------------------------------------
(* The live tail.                                                          *)

FirstRows(n, rs) == SubSeq(rs, 1, IF n < Len(rs) THEN n ELSE Len(rs))

\* Bug: the newest row of the buffer is put last.
FlushedInOrder == FirstRows(Cap, buffer \o rows)

\* flushTail: the buffer goes on top, newest first, and the pane is cut.
Flushed == IF buffer = <<>> THEN rows ELSE FirstRows(Cap, Reverse(buffer) \o rows)

StopTail ==
    /\ source' = 0 /\ connecting' = FALSE
    /\ rows' = Flushed /\ buffer' = <<>>
    /\ UNCHANGED received

\* Bug: a query in flight is left to finish.
FollowBeside ==
    /\ Input /\ source = 0 /\ Latest < MaxRequests
    /\ UNCHANGED <<tool, runVars, hitsAsked, facetsAsked>>
    /\ Ask("tail")
    /\ error' = 0 /\ rows' = <<>> /\ hits' = 0 /\ facets' = {} /\ shownRange' = 0
    /\ source' = Len(asked') /\ connecting' = TRUE /\ received' = 0
    /\ UNCHANGED <<buffer, hitsLoading, facetsLoading, facetsOpen, sessionVars>>

\* toggleTail, when there is no tail.
Follow ==
    /\ Input /\ source = 0 /\ Latest < MaxRequests
    /\ UNCHANGED tool
    /\ CancelAll
    /\ Ask("tail")
    /\ error' = 0 /\ rows' = <<>> /\ hits' = 0 /\ facets' = {} /\ shownRange' = 0
    /\ source' = Len(asked') /\ connecting' = TRUE /\ received' = 0
    /\ UNCHANGED <<buffer, hitsLoading, facetsLoading, facetsOpen, leaving, leftAt, probing>>

\* toggleTail, when there is one.
StopFollowing ==
    /\ Input /\ source # 0 /\ StopTail
    /\ UNCHANGED <<tool, asked, runVars, error, shownRange, hitsVars,
                   facetsVars, facetsOpen, sessionVars>>

TailRow ==
    /\ Task /\ source # 0 /\ received < MaxRows
    /\ received' = received + 1
    /\ buffer' = Append(buffer, [src |-> source, at |-> received'])
    /\ connecting' = FALSE
    /\ UNCHANGED <<tool, asked, runVars, rows, error, shownRange, hitsVars,
                   facetsVars, facetsOpen, source, sessionVars>>

FlushTail ==
    /\ Task /\ source # 0 /\ buffer # <<>>
    /\ rows' = Flushed /\ buffer' = <<>>
    /\ UNCHANGED <<tool, asked, runVars, error, shownRange, hitsVars,
                   facetsVars, facetsOpen, source, connecting, received, sessionVars>>

ConnectGrace ==
    /\ Task /\ connecting
    /\ connecting' = FALSE
    /\ UNCHANGED <<tool, asked, runVars, rows, error, shownRange, hitsVars,
                   facetsVars, facetsOpen, source, received, buffer, sessionVars>>

\* onError: the server said why the tail ended, or the browser gave up on it,
\* and then who is signed in has to be asked.
TailFails ==
    /\ Task /\ source # 0
    /\ error' = source /\ StopTail
    /\ probing' \in {probing, probing + 1}
    /\ UNCHANGED <<tool, asked, runVars, shownRange, hitsVars, facetsVars,
                   facetsOpen, leaving, leftAt, signedOut>>

-----------------------------------------------------------------------------
(* The session.                                                            *)

\* Bug: only the tail is stopped.
SignOutRunning ==
    /\ Input /\ leaving < MaxLogouts
    /\ StopTail
    /\ leaving' = leaving + 1 /\ leftAt' = Latest
    /\ UNCHANGED <<tool, asked, runVars, error, shownRange, hitsVars, facetsVars,
                   facetsOpen, probing, signedOut>>

\* signOut, up to its request: everything that streams is stopped.  The button
\* stays there while the answer is awaited, and can be clicked again.
SignOut ==
    /\ Input /\ leaving < MaxLogouts
    /\ CancelAll /\ StopTail
    /\ leaving' = leaving + 1 /\ leftAt' = Latest
    /\ UNCHANGED <<tool, asked, error, shownRange, hits, hitsLoading, facets,
                   facetsLoading, facetsOpen, probing>>

\* signOut goes on, whatever the answer: clearSession and markSignedOut.
LoggedOut ==
    /\ Task /\ leaving > 0
    /\ rows' = <<>> /\ hits' = 0 /\ facets' = {} /\ shownRange' = 0 /\ error' = 0
    /\ leaving' = leaving - 1 /\ signedOut' = TRUE
    /\ UNCHANGED <<tool, asked, runVars, hitsAsked, hitsLoading, facetsAsked,
                   facetsLoading, facetsOpen, tailVars, leftAt, probing>>

ProbeAnswered ==
    /\ Task /\ probing > 0
    /\ probing' = probing - 1
    /\ signedOut' \in {signedOut, TRUE}
    /\ UNCHANGED <<tool, asked, runVars, rows, error, shownRange, hitsVars,
                   facetsVars, facetsOpen, tailVars, leaving, leftAt>>

-----------------------------------------------------------------------------
Reader ==
    \/ Run \/ (\E t \in Tools : SelectTool(t)) \/ Cancel \/ ToggleFacets
    \/ Follow \/ StopFollowing \/ SignOut

Answers ==
    \/ \E r \in runs : Batch(r) \/ RunEnds(r) \/ RunFails(r) \/ RunAborted(r)
    \/ HitsArrive \/ HitsFail \/ FacetsArrive \/ FacetsFail
    \/ TailRow \/ TailFails \/ LoggedOut \/ ProbeAnswered

Timers == FlushTail \/ ConnectGrace

Next == Reader \/ Answers \/ Timers

Spec == Init /\ [][Next]_vars

-----------------------------------------------------------------------------
(* Properties.                                                             *)

Row     == [src : 1..MaxRequests, at : 1..MaxRows]
Request == [kind : {"run", "tail"}, tool : Tools]
Window  == [tool : Tools, window : 1..MaxRequests]

TypeOK ==
    /\ tool \in Tools
    /\ asked \in Seq(Request) /\ Latest <= MaxRequests
    /\ \A r \in runs : /\ r.id \in 1..Latest /\ r.collected \in Seq(Row)
                       /\ r.aborted \in BOOLEAN
    /\ running \in BOOLEAN /\ rows \in Seq(Row)
    /\ error \in 0..Latest /\ shownRange \in 0..Latest
    /\ hits \in 0..Latest /\ hitsAsked \subseteq 1..Latest /\ hitsLoading \in BOOLEAN
    /\ facets \in Maybe(Window) /\ facetsAsked \in Maybe(Window)
    /\ facetsLoading \in BOOLEAN /\ facetsOpen \in BOOLEAN
    /\ source \in 0..Latest /\ connecting \in BOOLEAN /\ received \in 0..MaxRows
    /\ buffer \in Seq(Row)
    /\ leaving \in 0..MaxLogouts /\ leftAt \in 0..Latest
    /\ probing \in Nat /\ signedOut \in BOOLEAN

Live == {r \in runs : ~r.aborted}

\* The pane has one writer: at no time are two queries streaming into it, or a
\* query and a tail, whatever the reader clicked while one was in flight.
OneWriter == Cardinality(Live) + (IF source # 0 THEN 1 ELSE 0) <= 1

\* Once a query has run its course - to its end, to a failure, or to Cancel -
\* the rows on screen are its own, not those of one that it superseded, the
\* page no longer says it is running, and rows and histogram are of the tool
\* that is selected, however often it was switched meanwhile.
SettledRowsAreTheLatest ==
    (runs = {} /\ Latest > 0 /\ asked[Latest].kind = "run") =>
        /\ ~running
        /\ \A i \in 1..Len(rows) : rows[i].src = Latest
        /\ ~signedOut /\ rows # <<>> => asked[Latest].tool = tool
        /\ ~signedOut /\ ~hitsLoading /\ hits # 0 => asked[hits].tool = tool

\* The banner is about the last thing the reader asked for: being superseded
\* or cancelled is not a failure.
ErrorIsTheLatest == error \in {0, Latest}

\* A histogram that is not loading is the one of the window that is shown,
\* however late the answers of earlier queries arrive.
HitsMatchWindow == ~signedOut /\ ~hitsLoading /\ hits # 0 => hits = shownRange

\* What a tail has put on the screen and, while it is followed, what is in its
\* buffer.
TailPane == IF source = 0 THEN rows ELSE Reverse(buffer) \o rows

\* The pane of a tail, while it is followed and after it was stopped, begins
\* with the newest rows that were delivered, newest first and none missing
\* among them: all of them, or as many as the reader's cap allows.  What else
\* is there is not of this tail.
TailPaneIsNewest ==
    (Latest > 0 /\ asked[Latest].kind = "tail" /\ ~signedOut) =>
        \E n \in 0..Len(TailPane) :
            /\ n >= (IF received < Cap THEN received ELSE Cap)
            /\ \A i \in 1..n : TailPane[i] = [src |-> Latest, at |-> received - i + 1]
            /\ \A i \in (n+1)..Len(TailPane) : TailPane[i].src # Latest

\* Nothing that was asked for before a sign-out was clicked streams into the
\* pane or loads its histogram any more, while the logout is on the way and
\* behind the gate it raises; and once every logout was answered nothing of it
\* is on the screen either: no rows, no histogram, and no failure of a request
\* whose session is over (signOut, clearSession).  What is asked for after the
\* click, and a gate that a 401 raises without a sign-out (leftAt = 0), are not
\* promised anything, by the code either.
GateIsQuiet ==
    /\ \A r \in Live : r.id > leftAt
    /\ source = 0 \/ source > leftAt
    /\ \A h \in hitsAsked : h > leftAt
    /\ signedOut /\ leaving = 0 /\ leftAt > 0 =>
        /\ error \notin 1..leftAt /\ hits \notin 1..leftAt
        /\ \A i \in 1..Len(rows) : rows[i].src > leftAt
=============================================================================
