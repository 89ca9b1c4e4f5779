------------------------------ MODULE QueryBox ------------------------------
(***************************************************************************)
(* The query box and its autocomplete (QueryBar.vue).                      *)
(*                                                                         *)
(* A change of the query starts a timer (the debounce); when it is due the *)
(* word under the caret is asked about, under the rest of the query and    *)
(* the selected tool, and the answer opens a popup.  A task of the browser *)
(* is an action: a key, a click, the timer, an answer.  The rejection of a *)
(* request that was aborted is handled before the next task, so it is part *)
(* of the action that aborts it.                                           *)
(*                                                                         *)
(* The query is a sequence of words with the caret at the end of one.      *)
(***************************************************************************)
EXTENDS Integers, Sequences

CONSTANTS
    Words,      \* what can stand under the caret
    Blank,      \* the empty word, where the caret follows a space
    BoxTools,
    Offers,     \* for each word, the suggestions it is answered with
    Size        \* how many words a query has

ASSUME BlankAssumption  == Blank \in Words
ASSUME SizeAssumption   == Size \in Nat \ {0}
ASSUME OffersAssumption == Offers \in [Words \ {Blank} -> Seq(Words \ {Blank})]

VARIABLES
    box,        \* props.query, as its words
    caret,      \* the word the caret is in
    focused,    \* document.activeElement is the box
    tool,       \* props.toolId
    timer,      \* debounce is set
    asked,      \* the requests in flight
    answer,     \* what the suggestions answer; NoRequest while it is closed
    active,     \* the suggestion that the keys have reached, -1 for none
    last,       \* what was asked last (history)
    disturbed   \* since then the box changed in a way that asks nothing (history)

boxVars == <<box, caret, focused, tool, timer, asked, answer, active, last, disturbed>>

Boxes   == [1..Size -> Words]
Empty     == [i \in 1..Size |-> Blank]
Token     == box[caret]
Request   == [word : Words, query : Boxes, at : 1..Size, tool : BoxTools]
NoRequest == [word |-> Blank, query |-> Empty, at |-> 1, tool |-> CHOOSE t \in BoxTools : TRUE]

Open        == answer # NoRequest
Suggestions == IF Open THEN Offers[answer.word] ELSE <<>>

BoxInit ==
    /\ box = Empty /\ caret = 1 /\ focused = FALSE
    /\ tool \in BoxTools
    /\ timer = FALSE /\ asked = {}
    /\ answer = NoRequest /\ active = -1
    /\ last = NoRequest /\ disturbed = FALSE

Close == answer' = NoRequest /\ active' = -1
Keep  == UNCHANGED <<answer, active>>

\* Bug: while an answer is awaited a change of the query asks for none.
WatchUnlessAsking ==
    timer' = IF box' # box /\ focused /\ asked = {} THEN TRUE ELSE timer

\* watch(props.query), which requestSuggestions sets the timer in.
Watch == timer' = IF box' # box /\ focused THEN TRUE ELSE timer

-----------------------------------------------------------------------------
(* The reader's hands.                                                     *)

\* The word under the caret is edited.
Type(w) ==
    /\ focused
    /\ box' = [box EXCEPT ![caret] = w]
    /\ Watch /\ Keep
    /\ disturbed' = (disturbed \/ w = Blank)
    /\ UNCHANGED <<caret, focused, tool, asked, last>>

MoveCaret(c) ==
    /\ focused /\ caret' = c /\ c # caret
    /\ disturbed' = TRUE
    /\ Keep /\ UNCHANGED <<box, focused, tool, timer, asked, last>>

\* ArrowDown and ArrowUp.
Down ==
    /\ focused /\ Open
    /\ active' = (active + 1) % Len(Suggestions)
    /\ UNCHANGED <<box, caret, focused, tool, timer, asked, answer, last, disturbed>>

Up ==
    /\ focused /\ Open
    /\ active' = IF active <= 0 THEN Len(Suggestions) - 1 ELSE active - 1
    /\ UNCHANGED <<box, caret, focused, tool, timer, asked, answer, last, disturbed>>

\* accept: the word under the caret now, whatever the popup was opened for, is
\* replaced.  The box is focused only after the query's watcher has run.
Accept(s) ==
    /\ box' = [box EXCEPT ![caret] = s]
    /\ Watch /\ Close
    /\ focused' = TRUE
    /\ disturbed' = (disturbed \/ ~focused)
    /\ UNCHANGED <<caret, tool, asked, last>>

\* Enter or Tab on a suggestion.
AcceptKey == focused /\ Open /\ active >= 0 /\ Accept(Suggestions[active + 1])

\* A suggestion is clicked, which does not take the focus.
AcceptClick == Open /\ \E i \in DOMAIN Suggestions : Accept(Suggestions[i])

\* clear: by Escape in a box whose popup is closed, or by the button beside it,
\* which takes the focus first.
Clear ==
    /\ box # Empty
    /\ focused => ~Open
    /\ box' = Empty /\ caret' = 1
    /\ Watch /\ Close
    /\ focused' = TRUE
    /\ disturbed' = TRUE
    /\ UNCHANGED <<tool, asked, last>>

\* Escape closes the popup, and so does Enter, which then runs the query.
Dismiss ==
    /\ focused /\ Close
    /\ UNCHANGED <<box, caret, focused, tool, timer, asked, last, disturbed>>

Focus ==
    /\ ~focused /\ focused' = TRUE
    /\ Keep /\ UNCHANGED <<box, caret, tool, timer, asked, last, disturbed>>

Blur ==
    /\ focused /\ focused' = FALSE
    /\ Close /\ UNCHANGED <<box, caret, tool, timer, asked, last, disturbed>>

\* A preset, which leaves the focus where it is, or a filter from a panel.
SetQuery(b) ==
    /\ b # box /\ box' = b /\ caret' = Size
    /\ Watch /\ Keep
    /\ disturbed' = TRUE
    /\ UNCHANGED <<focused, tool, asked, last>>

\* Another tool, with the query it was left with: clicked in the rail, or gone
\* back to.
OtherTool(t, b) ==
    /\ t # tool /\ tool' = t
    /\ box' = b /\ caret' = IF b = box THEN caret ELSE Size
    /\ Watch /\ Keep
    /\ disturbed' = TRUE
    /\ UNCHANGED <<focused, asked, last>>

-----------------------------------------------------------------------------
(* The timer and the answers.                                              *)

Now == [word |-> Token, query |-> [box EXCEPT ![caret] = Blank], at |-> caret, tool |-> tool]

\* Bug: the request before this one is not aborted.
LoadSuggestionsBeside ==
    /\ timer /\ timer' = FALSE
    /\ IF Token = Blank
       THEN /\ Close /\ UNCHANGED <<asked, last, disturbed>>
       ELSE /\ asked' = asked \cup {Now} /\ last' = Now /\ disturbed' = FALSE
            /\ Keep
    /\ UNCHANGED <<box, caret, focused, tool>>

\* loadSuggestions up to its await.  Without a word it closes the popup and
\* leaves what is in flight; with one it aborts that, whose catch closes it.
LoadSuggestions ==
    /\ timer /\ timer' = FALSE
    /\ IF Token = Blank
       THEN /\ Close /\ UNCHANGED <<asked, last, disturbed>>
       ELSE /\ asked' = {Now} /\ last' = Now /\ disturbed' = FALSE
            /\ IF asked # {} THEN Close ELSE Keep
    /\ UNCHANGED <<box, caret, focused, tool>>

\* Its rest: the popup is open when there is something to offer.
Answered(r) ==
    /\ asked' = asked \ {r}
    /\ answer' = IF Offers[r.word] = <<>> THEN NoRequest ELSE r
    /\ active' = -1
    /\ UNCHANGED <<box, caret, focused, tool, timer, last, disturbed>>

\* A failure closes the popup and says nothing.
Failed(r) ==
    /\ asked' = asked \ {r}
    /\ Close
    /\ UNCHANGED <<box, caret, focused, tool, timer, last, disturbed>>

Reader ==
    \/ \E w \in Words : Type(w)
    \/ \E c \in 1..Size : MoveCaret(c)
    \/ Down \/ Up \/ AcceptKey \/ AcceptClick
    \/ Clear \/ Dismiss \/ Focus \/ Blur
    \/ \E b \in Boxes : SetQuery(b) \/ \E t \in BoxTools : OtherTool(t, b)

BoxNext == Reader \/ LoadSuggestions \/ \E r \in asked : Answered(r) \/ Failed(r)

BoxSpec == BoxInit /\ [][BoxNext]_boxVars

-----------------------------------------------------------------------------
\* Types; an open popup has something to offer.
BoxTypeOK ==
    /\ box \in Boxes /\ caret \in 1..Size /\ tool \in BoxTools
    /\ focused \in BOOLEAN /\ timer \in BOOLEAN /\ disturbed \in BOOLEAN
    /\ asked \subseteq Request /\ answer \in Request /\ last \in Request
    /\ active \in -1..Len(Suggestions) - 1
    /\ Open => Suggestions # <<>>

\* Of several answers the one to what was asked last wins, however late an
\* earlier one arrives, and the keys only reach suggestions that it has: what
\* Enter accepts is always there to be accepted (abort, close, onKeydown).
OneAnswer ==
    /\ Open /\ asked = {} => answer = last
    /\ active \in -1..Len(Suggestions) - 1

\* "The word under the caret decides what is offered" (QueryBar.vue:56), and the
\* rest of the query and the tool with it: once the timer and the answers have
\* come to rest, and if since the request the word was only edited - not
\* deleted, not left with the caret, not set from elsewhere - an open popup is
\* about that word.
OfferIsCurrent ==
    (~timer /\ asked = {} /\ Open /\ ~disturbed) => answer = Now
=============================================================================
