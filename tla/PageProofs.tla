----------------------------- MODULE PageProofs -----------------------------
(***************************************************************************)
(* What the page keeps between the reader and the browser, for every list  *)
(* of tools, every set of fields, queries, words and links, and histories  *)
(* of every length.                                                        *)
(*                                                                         *)
(* The query box (QueryBox): one answer at a time, and an open popup that  *)
(* is about what stands in the box.                                        *)
(*                                                                         *)
(* Navigation: while the logs are shown, path, rail and rows name one      *)
(* tool; every tool keeps its box and its columns; a look at the status    *)
(* page changes nothing.                                                   *)
(***************************************************************************)
EXTENDS QueryBox, Navigation, SequenceTheorems, WellFoundedInduction, TLAPS

-----------------------------------------------------------------------------
(* The query box: the invariant.                                           *)

\* What is in flight is what was asked last, and an answer that is shown while
\* nothing is in flight was the answer to it.
OneAsked ==
    /\ asked # {} => asked = {last}
    /\ Open /\ asked = {} => answer = last

\* Only words are asked about, so a popup has something to offer.
AsksForWords ==
    /\ \A r \in asked : r.word # Blank
    /\ Open => answer.word # Blank

\* What was asked last is about the box as it is, unless the timer is running
\* or the box has changed in a way that asks nothing.  A word that became empty
\* is such a change, so an empty word under the caret was never asked about.
LastIsCurrent ==
    ~disturbed => /\ Token = Blank => last = NoRequest
                  /\ ~timer /\ last # NoRequest => last = Now

BoxInv == BoxTypeOK /\ OneAsked /\ AsksForWords /\ LastIsCurrent

-----------------------------------------------------------------------------
(* The popup and the keys in it.                                           *)

\* What an open popup offers is a word, and never the empty one.
LEMMA OffersWords ==
  ASSUME BoxTypeOK, AsksForWords, Open
  PROVE  /\ Suggestions \in Seq(Words \ {Blank})
         /\ Len(Suggestions) \in Nat \ {0}
<1>1. answer.word \in Words \ {Blank}
  BY DEF BoxTypeOK, AsksForWords, Request
<1>2. Offers[answer.word] \in Seq(Words \ {Blank})
  BY <1>1, OffersAssumption
<1>3. Suggestions = Offers[answer.word]
  BY DEF Suggestions
<1> QED
  BY <1>2, <1>3 DEF BoxTypeOK

\* The box as it is can be asked about.
LEMMA NowIsRequest ==
  ASSUME BoxTypeOK
  PROVE  Now \in Request /\ Now.word = Token
BY BlankAssumption DEF BoxTypeOK, Now, Request, Boxes, Token

\* Nothing has been asked for, as a request.
LEMMA NoRequestIsRequest ==
  ASSUME BoxTools # {}
  PROVE  NoRequest \in Request
BY BlankAssumption, SizeAssumption DEF NoRequest, Request, Boxes, Empty

LEMMA StartsRight == BoxInit => BoxInv
<1> SUFFICES ASSUME BoxInit PROVE BoxInv
  OBVIOUS
<1>1. NoRequest \in Request
  BY NoRequestIsRequest DEF BoxInit
<1>2. ~Open /\ Suggestions = <<>>
  BY DEF BoxInit, Open, Suggestions
<1>3. Empty \in Boxes
  BY BlankAssumption DEF Empty, Boxes
<1>4. active \in -1..Len(Suggestions) - 1
  <2>1. Len(<<>>) = 0
    OBVIOUS
  <2> QED
    BY <1>2, <2>1 DEF BoxInit
<1>5. BoxTypeOK
  <2>1. 1 \in 1..Size
    BY SizeAssumption
  <2>2. box \in Boxes /\ caret \in 1..Size /\ tool \in BoxTools
    BY <1>3, <2>1 DEF BoxInit
  <2>3. answer \in Request /\ last \in Request /\ asked \subseteq Request
    BY <1>1 DEF BoxInit
  <2>4. focused \in BOOLEAN /\ timer \in BOOLEAN /\ disturbed \in BOOLEAN
    BY DEF BoxInit
  <2> QED
    BY <1>2, <1>4, <2>2, <2>3, <2>4 DEF BoxTypeOK
<1>6. OneAsked /\ AsksForWords /\ LastIsCurrent
  BY <1>2 DEF BoxInit, OneAsked, AsksForWords, LastIsCurrent
<1> QED
  BY <1>5, <1>6 DEF BoxInv

\* An action that leaves the requests and the popup alone, or closes it, and
\* that keeps the types of the box, keeps what is said of them.
LEMMA PopupKept ==
  ASSUME BoxInv, UNCHANGED <<asked, last>>,
         UNCHANGED <<answer, active>> \/ Close,
         box' \in Boxes, caret' \in 1..Size, tool' \in BoxTools,
         focused' \in BOOLEAN, timer' \in BOOLEAN, disturbed' \in BOOLEAN
  PROVE  BoxTypeOK' /\ OneAsked' /\ AsksForWords'
<1>1. CASE UNCHANGED <<answer, active>>
  BY <1>1 DEF BoxInv, BoxTypeOK, OneAsked, AsksForWords, Open, Suggestions
<1>2. CASE Close
  <2>1. NoRequest \in Request
    BY NoRequestIsRequest DEF BoxInv, BoxTypeOK
  <2>2. ~Open' /\ Suggestions' = <<>>
    BY <1>2 DEF Close, Open, Suggestions, NoRequest, Empty
  <2> QED
    BY <1>2, <2>1, <2>2 DEF Close, BoxInv, BoxTypeOK, OneAsked, AsksForWords
<1> QED
  BY <1>1, <1>2

-----------------------------------------------------------------------------
(* One lemma per group of actions.                                         *)

\* A word is written under the caret: by the reader, or by accepting one.
LEMMA WordWritten ==
  ASSUME BoxInv, NEW w \in Words, box' = [box EXCEPT ![caret] = w], Watch,
         UNCHANGED <<caret, tool, asked, last>>,
         UNCHANGED <<answer, active>> \/ Close,
         focused' \in BOOLEAN, disturbed' \in BOOLEAN,
         ~disturbed' => ~disturbed /\ focused /\ w # Blank
  PROVE  BoxInv'
<1>1. box' \in Boxes /\ box'[caret] = w
  BY DEF BoxInv, BoxTypeOK, Boxes
<1>2. timer' \in BOOLEAN
  BY DEF Watch, BoxInv, BoxTypeOK
<1>3. BoxTypeOK' /\ OneAsked' /\ AsksForWords'
  BY <1>1, <1>2, PopupKept DEF BoxInv, BoxTypeOK
<1>4. LastIsCurrent'
  <2> SUFFICES ASSUME ~disturbed' PROVE Token' # Blank /\ (~timer' /\ last # NoRequest => last = Now')
    BY DEF LastIsCurrent, NoRequest, Empty
  <2>1. Token' = w /\ w # Blank
    BY <1>1 DEF Token
  <2>2. ASSUME ~timer', last # NoRequest PROVE last = Now'
    <3>1. box' = box /\ ~timer
      BY <2>2 DEF Watch, BoxInv, BoxTypeOK
    <3>2. Now' = Now
      BY <3>1 DEF Now, Token
    <3> QED
      BY <2>2, <3>1, <3>2 DEF BoxInv, LastIsCurrent
  <2> QED
    BY <2>1, <2>2
<1> QED
  BY <1>3, <1>4 DEF BoxInv

\* Everything else the reader does either disturbs, or leaves the box alone.
LEMMA BoxLeftAlone ==
  ASSUME BoxInv, UNCHANGED <<box, caret, tool, timer, asked, last, disturbed>>,
         UNCHANGED <<answer, active>> \/ Close, focused' \in BOOLEAN
  PROVE  BoxInv'
<1>1. BoxTypeOK' /\ OneAsked' /\ AsksForWords'
  BY PopupKept DEF BoxInv, BoxTypeOK
<1>2. LastIsCurrent'
  BY DEF BoxInv, LastIsCurrent, Token, Now, NoRequest, Empty
<1> QED
  BY <1>1, <1>2 DEF BoxInv

LEMMA BoxDisturbed ==
  ASSUME BoxInv, disturbed' = TRUE, UNCHANGED <<asked, last>>,
         UNCHANGED <<answer, active>> \/ Close,
         box' \in Boxes, caret' \in 1..Size, tool' \in BoxTools,
         focused' \in BOOLEAN, timer' \in BOOLEAN
  PROVE  BoxInv'
BY PopupKept DEF BoxInv, BoxTypeOK, LastIsCurrent

\* The keys move within what is offered.
LEMMA KeysMoved ==
  ASSUME BoxInv, Down \/ Up
  PROVE  BoxInv'
<1>1. Open /\ UNCHANGED <<box, caret, focused, tool, timer, asked, answer, last, disturbed>>
  BY DEF Down, Up
<1>2. Len(Suggestions) \in Nat \ {0}
  BY <1>1, OffersWords DEF BoxInv
<1>3. active \in -1..Len(Suggestions) - 1
  BY DEF BoxInv, BoxTypeOK
<1>4. active' \in -1..Len(Suggestions) - 1
  <2>1. CASE Down
    <3>1. active + 1 \in 0..Len(Suggestions)
      BY <1>2, <1>3
    <3>2. (active + 1) % Len(Suggestions) \in 0..Len(Suggestions) - 1
      BY <1>2, <3>1
    <3> QED
      BY <2>1, <3>2, <1>2 DEF Down
  <2>2. CASE Up
    BY <2>2, <1>2, <1>3 DEF Up
  <2> QED
    BY <2>1, <2>2
<1>5. Open' /\ Suggestions' = Suggestions
  BY <1>1 DEF Open, Suggestions, NoRequest, Empty
<1>6. BoxTypeOK'
  BY <1>1, <1>4, <1>5 DEF BoxInv, BoxTypeOK
<1>7. OneAsked' /\ AsksForWords' /\ LastIsCurrent'
  BY <1>1, <1>5 DEF BoxInv, OneAsked, AsksForWords, LastIsCurrent, Token, Now, NoRequest, Empty
<1> QED
  BY <1>6, <1>7 DEF BoxInv

\* The timer: what was asked before is aborted, unless there is no word.
LEMMA SuggestionsLoaded ==
  ASSUME BoxInv, LoadSuggestions
  PROVE  BoxInv'
<1>1. timer' = FALSE /\ UNCHANGED <<box, caret, focused, tool>>
  BY DEF LoadSuggestions
<1>2. UNCHANGED Token /\ Now' = Now
  BY <1>1 DEF Token, Now
<1>3. CASE Token = Blank
  <2>1. Close /\ UNCHANGED <<asked, last, disturbed>>
    BY <1>3 DEF LoadSuggestions
  <2>2. BoxTypeOK' /\ OneAsked' /\ AsksForWords'
    BY <1>1, <2>1, PopupKept DEF BoxInv, BoxTypeOK
  <2>3. LastIsCurrent'
    BY <1>1, <1>2, <1>3, <2>1 DEF BoxInv, LastIsCurrent, NoRequest, Empty
  <2> QED
    BY <2>2, <2>3 DEF BoxInv
<1>4. CASE Token # Blank
  <2>1. asked' = {Now} /\ last' = Now /\ disturbed' = FALSE
    BY <1>4 DEF LoadSuggestions
  <2>2. Close \/ UNCHANGED <<answer, active>>
    BY <1>4 DEF LoadSuggestions, Keep
  <2>3. Now \in Request /\ Now.word # Blank
    BY <1>4, NowIsRequest DEF BoxInv
  <2>4. OneAsked' /\ AsksForWords'
    BY <2>1, <2>2, <2>3 DEF BoxInv, OneAsked, AsksForWords, Close, Open, NoRequest, Empty
  <2>5. active' \in -1..Len(Suggestions') - 1 /\ (Open' => Suggestions' # <<>>) /\ answer' \in Request
    <3>1. CASE Close
      <4>1. NoRequest \in Request
        BY NoRequestIsRequest DEF BoxInv, BoxTypeOK
      <4>2. ~Open' /\ Suggestions' = <<>>
        BY <3>1 DEF Close, Open, Suggestions, NoRequest, Empty
      <4> QED
        BY <3>1, <4>1, <4>2 DEF Close
    <3>2. CASE UNCHANGED <<answer, active>>
      BY <3>2 DEF BoxInv, BoxTypeOK, Open, Suggestions, NoRequest, Empty
    <3> QED
      BY <2>2, <3>1, <3>2
  <2>6. BoxTypeOK'
    BY <1>1, <2>1, <2>3, <2>5 DEF BoxInv, BoxTypeOK
  <2>7. LastIsCurrent'
    BY <1>2, <1>4, <2>1 DEF LastIsCurrent
  <2> QED
    BY <2>4, <2>6, <2>7 DEF BoxInv
<1> QED
  BY <1>3, <1>4

\* An answer, or the failure to get one.
LEMMA RequestOver ==
  ASSUME BoxInv, NEW r \in asked, Answered(r) \/ Failed(r)
  PROVE  BoxInv'
<1>1. UNCHANGED <<box, caret, focused, tool, timer, last, disturbed>> /\ asked' = asked \ {r}
  BY DEF Answered, Failed
<1>2. r = last /\ asked' = {} /\ r \in Request /\ r.word # Blank
  BY <1>1 DEF BoxInv, OneAsked, AsksForWords, BoxTypeOK
<1>3. active' = -1 /\ (answer' = NoRequest \/ (answer' = r /\ Offers[r.word] # <<>>))
  BY DEF Answered, Failed, Close
<1>4. LastIsCurrent'
  BY <1>1 DEF BoxInv, LastIsCurrent, Token, Now, NoRequest, Empty
<1>5. NoRequest \in Request
  BY NoRequestIsRequest DEF BoxInv, BoxTypeOK
<1>6. OneAsked' /\ AsksForWords'
  BY <1>1, <1>2, <1>3 DEF OneAsked, AsksForWords, Open, NoRequest, Empty
<1>7. (Open' => Suggestions' # <<>>) /\ Len(Suggestions') \in Nat
  <2>1. CASE answer' = NoRequest
    BY <2>1 DEF Open, Suggestions, NoRequest, Empty
  <2>2. CASE answer' = r /\ r # NoRequest /\ Offers[r.word] # <<>>
    <3>1. Suggestions' = Offers[r.word]
      BY <2>2 DEF Open, Suggestions, NoRequest, Empty
    <3>2. Offers[r.word] \in Seq(Words \ {Blank})
      BY <1>2, OffersAssumption DEF Request
    <3> QED
      BY <2>2, <3>1, <3>2
  <2> QED
    BY <1>3, <2>1, <2>2
<1>8. BoxTypeOK'
  BY <1>1, <1>2, <1>3, <1>5, <1>7 DEF BoxInv, BoxTypeOK
<1> QED
  BY <1>4, <1>6, <1>8 DEF BoxInv

LEMMA StaysRight == BoxInv /\ [BoxNext]_boxVars => BoxInv'
<1> SUFFICES ASSUME BoxInv, [BoxNext]_boxVars PROVE BoxInv'
  OBVIOUS
<1> USE DEF Keep
<1>1. ASSUME NEW w \in Words, Type(w) PROVE BoxInv'
  BY <1>1, WordWritten DEF Type, BoxInv, BoxTypeOK
<1>2. ASSUME NEW c \in 1..Size, MoveCaret(c) PROVE BoxInv'
  BY <1>2, BoxDisturbed DEF MoveCaret, BoxInv, BoxTypeOK
<1>3. CASE Down \/ Up
  BY <1>3, KeysMoved
<1>4. ASSUME NEW s \in Words \ {Blank}, Accept(s) PROVE BoxInv'
  BY <1>4, WordWritten DEF Accept, BoxInv, BoxTypeOK
<1>5. CASE AcceptKey
  <2>1. active + 1 \in 1..Len(Suggestions) /\ Open
    BY <1>5, OffersWords DEF AcceptKey, BoxInv, BoxTypeOK
  <2>2. Suggestions[active + 1] \in Words \ {Blank}
    BY <2>1, OffersWords DEF BoxInv
  <2> QED
    BY <1>4, <1>5, <2>2 DEF AcceptKey
<1>6. CASE AcceptClick
  BY <1>4, <1>6, OffersWords DEF AcceptClick, BoxInv
<1>7. CASE Clear
  <2>1. Empty \in Boxes /\ 1 \in 1..Size
    BY BlankAssumption, SizeAssumption DEF Empty, Boxes
  <2> QED
    BY <1>7, <2>1, BoxDisturbed DEF Clear, Watch, BoxInv, BoxTypeOK
<1>8. CASE Dismiss \/ Focus \/ Blur
  BY <1>8, BoxLeftAlone DEF Dismiss, Focus, Blur, BoxInv, BoxTypeOK
<1>9. ASSUME NEW b \in Boxes, SetQuery(b) PROVE BoxInv'
  <2>1. caret' \in 1..Size /\ tool' \in BoxTools /\ box' \in Boxes
    BY <1>9, SizeAssumption DEF SetQuery, BoxInv, BoxTypeOK
  <2>2. timer' \in BOOLEAN /\ focused' \in BOOLEAN
    BY <1>9 DEF SetQuery, Watch, BoxInv, BoxTypeOK
  <2> QED
    BY <1>9, <2>1, <2>2, BoxDisturbed DEF SetQuery
<1>10. ASSUME NEW t \in BoxTools, NEW b \in Boxes, OtherTool(t, b) PROVE BoxInv'
  <2>1. caret' \in 1..Size /\ tool' \in BoxTools /\ box' \in Boxes
    BY <1>10, SizeAssumption DEF OtherTool, BoxInv, BoxTypeOK
  <2>2. timer' \in BOOLEAN /\ focused' \in BOOLEAN
    BY <1>10 DEF OtherTool, Watch, BoxInv, BoxTypeOK
  <2> QED
    BY <1>10, <2>1, <2>2, BoxDisturbed DEF OtherTool
<1>11. CASE LoadSuggestions
  BY <1>11, SuggestionsLoaded
<1>12. ASSUME NEW r \in asked, Answered(r) \/ Failed(r) PROVE BoxInv'
  BY <1>12, RequestOver
<1>13. CASE UNCHANGED boxVars
  BY <1>13, BoxLeftAlone DEF boxVars, BoxInv, BoxTypeOK
<1> QED
  BY <1>1, <1>2, <1>3, <1>5, <1>6, <1>7, <1>8, <1>9, <1>10, <1>11, <1>12, <1>13
  DEF BoxNext, Reader

-----------------------------------------------------------------------------
\* Of several answers the one to what was asked last wins, and what the keys
\* have reached is offered (LoadSuggestions aborts what is in flight).
THEOREM AnswerIsTheLast == BoxSpec => []OneAnswer
<1>1. BoxInv => OneAnswer
  BY DEF BoxInv, BoxTypeOK, OneAsked, OneAnswer
<1> QED
  BY <1>1, StartsRight, StaysRight, PTL DEF BoxSpec

\* Every variable of the box keeps its type: what is asked, awaited and offered
\* is about words, and the caret stays in the query (tokenAtCaret, accept).
THEOREM BoxTyped == BoxSpec => []BoxTypeOK
<1>1. BoxInv => BoxTypeOK
  BY DEF BoxInv
<1> QED
  BY <1>1, StartsRight, StaysRight, PTL DEF BoxSpec

\* When timer and answers have come to rest, an open popup is about the word
\* under the caret, unless the box changed in a way that asks nothing.
THEOREM OfferIsAboutTheWord == BoxSpec => []OfferIsCurrent
<1>1. BoxInv => OfferIsCurrent
  BY DEF BoxInv, OneAsked, LastIsCurrent, OfferIsCurrent, Open
<1> QED
  BY <1>1, StartsRight, StaysRight, PTL DEF BoxSpec

-----------------------------------------------------------------------------
(* Loops.                                                                  *)

\* Of some positions one is the least.
LEMMA LeastPosition ==
    ASSUME NEW n \in Nat, NEW S \in SUBSET (1..n), S # {}
    PROVE  \E m \in S : \A i \in S : m <= i
<1> DEFINE R == OpToRel(<, Nat)
<1>1. S \in SUBSET Nat
  BY DEF Lists
<1>2. \A x, y \in Nat : x < y => <<x, y>> \in R
  BY Zenon DEF OpToRel
<1>3. PICK x \in S : \A y \in S : ~ (<<y, x>> \in R)
  BY <1>1, WFMin, NatLessThanWellFounded, Zenon
<1>4. \A y \in S : ~ (y < x)
  BY <1>1, <1>2, <1>3, Zenon
<1> HIDE DEF R
<1> QED BY <1>1, <1>4

\* What holds before the first turn and survives every turn holds after each.
LEMMA EveryTurn ==
    ASSUME NEW n \in Nat, NEW S, 0 \in S, \A i \in 1..n : i - 1 \in S => i \in S
    PROVE  \A i \in 0..n : i \in S
<1> DEFINE T == {i \in 1..n : i \notin S}
<1>1. T = {}
  <2>1. SUFFICES ASSUME T # {} PROVE FALSE
    OBVIOUS
  <2>2. T \in SUBSET (1..n)
    OBVIOUS
  <2>3. PICK m \in T : \A i \in T : m <= i
    <3> HIDE DEF T
    <3> QED BY <2>1, <2>2, LeastPosition, Zenon
  <2>4. m - 1 \in S
    <3>1. CASE m = 1
      BY <3>1
    <3>2. CASE m # 1
      <4>1. m - 1 \in 1..n /\ ~(m <= m - 1)
        BY <3>2
      <4> QED BY <2>3, <4>1
    <3> QED BY <3>1, <3>2
  <2> QED BY <2>3, <2>4
<1> QED BY <1>1

\* A value of A for each number of turns: the base, and what the turns make of it.
RunOf(f, A, base, n, turn) ==
    /\ f \in [0..n -> A]
    /\ f[0] = base
    /\ \A i \in 1..n : f[i] = turn[<<f[i - 1], i>>]

\* A loop that carries a value of A through n turns has a value after each.
LEMMA LoopRuns ==
    ASSUME NEW A, NEW base \in A, NEW n \in Nat, NEW turn \in [A \X (1..n) -> A]
    PROVE  \E f : RunOf(f, A, base, n, turn)
<1> DEFINE Runs(f, k) == f[0] = base /\ \A i \in 1..k : f[i] = turn[<<f[i - 1], i>>]
           S == {k \in 0..n : \E f \in [0..k -> A] : Runs(f, k)}
<1>1. 0 \in S
  <2> DEFINE f == [i \in 0..0 |-> base]
  <2>1. f \in [0..0 -> A] /\ Runs(f, 0)
    OBVIOUS
  <2> HIDE DEF f, Runs
  <2> QED BY <2>1
<1>2. ASSUME NEW k \in 1..n, k - 1 \in S PROVE k \in S
  <2>1. PICK f \in [0..(k - 1) -> A] : Runs(f, k - 1)
    BY <1>2
  <2> DEFINE g == [i \in 0..k |-> IF i = k THEN turn[<<f[k - 1], k>>] ELSE f[i]]
  <2>2. f[k - 1] \in A
    BY <2>1
  <2>3. turn[<<f[k - 1], k>>] \in A
    BY <2>2
  <2>4. g \in [0..k -> A]
    BY <2>3
  <2>5. g[0] = base
    BY <2>1
  <2>6. ASSUME NEW i \in 1..k PROVE g[i] = turn[<<g[i - 1], i>>]
    <3>1. g[i - 1] = f[i - 1]
      OBVIOUS
    <3>2. CASE i = k
      <4>1. g[i] = turn[<<f[k - 1], k>>]
        BY <3>2
      <4> HIDE DEF g
      <4> QED BY <3>1, <3>2, <4>1, Zenon
    <3>3. CASE i # k
      <4>1. i \in 1..(k - 1) /\ g[i] = f[i]
        BY <3>3
      <4>2. f[i] = turn[<<f[i - 1], i>>]
        BY <2>1, <4>1
      <4> QED BY <3>1, <4>1, <4>2
    <3> QED BY <3>2, <3>3
  <2>7. Runs(g, k)
    BY <2>5, <2>6
  <2> HIDE DEF g, Runs
  <2> QED BY <2>4, <2>7
<1>3. n \in S
  <2>1. \A i \in 0..n : i \in S
    <3> HIDE DEF S
    <3> QED BY <1>1, <1>2, EveryTurn, Zenon
  <2> QED BY <2>1
<1> QED BY <1>3 DEF RunOf

-----------------------------------------------------------------------------
(* Columns.                                                                *)

\* What filter has kept of the first n columns: columns that were there, none of
\* them c, and the last one unless it was c.
Filtered(cols, c, n, w) ==
    /\ w \in Seq(Names)
    /\ \A i \in 1..Len(w) : \E j \in 1..n : w[i] = cols[j] /\ cols[j] # c
    /\ n > 0 /\ cols[n] # c => Len(w) > 0 /\ w[Len(w)] = cols[n]

LEMMA OneMoreColumn ==
    ASSUME NEW cols \in Seq(Names), NEW c, NEW n \in 1..Len(cols), NEW w, Filtered(cols, c, n - 1, w)
    PROVE  Filtered(cols, c, n, IF cols[n] = c THEN w ELSE Append(w, cols[n]))
<1>0. Len(cols) \in Nat /\ n \in Nat /\ cols[n] \in Names
  BY DEF Lists
<1>1. w \in Seq(Names) /\ \A i \in 1..Len(w) : \E j \in 1..(n - 1) : w[i] = cols[j] /\ cols[j] # c
  BY DEF Filtered
<1>2. \A i \in 1..Len(w) : \E j \in 1..n : w[i] = cols[j] /\ cols[j] # c
  BY <1>0, <1>1
<1>3. CASE cols[n] = c
  BY <1>1, <1>2, <1>3 DEF Filtered
<1>4. CASE cols[n] # c
  <2> DEFINE v == Append(w, cols[n])
  <2>1. /\ v \in Seq(Names) /\ Len(v) = Len(w) + 1 /\ Len(w) \in Nat
        /\ v[Len(v)] = cols[n] /\ \A i \in 1..Len(w) : v[i] = w[i]
    BY <1>0, <1>1
  <2> HIDE DEF v
  <2>2. \A i \in 1..Len(v) : \E j \in 1..n : v[i] = cols[j] /\ cols[j] # c
    <3> SUFFICES ASSUME NEW i \in 1..Len(v) PROVE \E j \in 1..n : v[i] = cols[j] /\ cols[j] # c
      OBVIOUS
    <3>1. CASE i = Len(v)
      BY <1>4, <2>1, <3>1
    <3>2. CASE i # Len(v)
      <4>1. i \in 1..Len(w)
        BY <2>1, <3>2
      <4> QED BY <1>2, <2>1, <4>1
    <3> QED BY <3>1, <3>2
  <2>3. Filtered(cols, c, n, v)
    <3>1. Len(v) > 0
      BY <2>1
    <3> QED BY <2>1, <2>2, <3>1, Zenon DEF Filtered
  <2> QED BY <1>4, <2>3 DEF v
<1> QED BY <1>3, <1>4

\* A filter keeps what it says.
LEMMA FilterKeeps ==
    ASSUME NEW cols \in Seq(Names), NEW c
    PROVE  Filtered(cols, c, Len(cols), Without(cols, c))
<1> DEFINE n == Len(cols)
           A == Seq(Names)
           turn == [p \in A \X (1..n) |-> IF cols[p[2]] = c THEN p[1] ELSE Append(p[1], cols[p[2]])]
           Looped(f) == f = [i \in 0..n |->
                            IF i = 0 THEN <<>>
                            ELSE IF cols[i] = c THEN f[i - 1] ELSE Append(f[i - 1], cols[i])]
           F == CHOOSE f : Looped(f)
<1>1. n \in Nat /\ \A i \in 1..n : cols[i] \in Names
  BY DEF Lists
<1>2. Without(cols, c) = F[n]
  BY DEF Without
<1>3. Looped(F)
  <2>1. turn \in [A \X (1..n) -> A]
    <3>1. ASSUME NEW w \in A, NEW i \in 1..n
          PROVE  (IF cols[i] = c THEN w ELSE Append(w, cols[i])) \in A
      BY <1>1
    <3> HIDE DEF A, n
    <3> QED BY <3>1
  <2>2. <<>> \in A
    OBVIOUS
  <2>3. PICK f : RunOf(f, A, <<>>, n, turn)
    <3> HIDE DEF turn, A, n
    <3> QED BY <1>1, <2>1, <2>2, LoopRuns, Zenon
  <2>4. ASSUME NEW i \in 0..n
        PROVE  f[i] = IF i = 0 THEN <<>>
                      ELSE IF cols[i] = c THEN f[i - 1] ELSE Append(f[i - 1], cols[i])
    <3>1. CASE i = 0
      BY <2>3, <3>1 DEF RunOf
    <3>2. CASE i # 0
      <4>1. i \in 1..n /\ i - 1 \in 0..n
        BY <1>1, <3>2
      <4>2. f[i - 1] \in A /\ f[i] = turn[<<f[i - 1], i>>]
        <5> HIDE DEF A, turn
        <5> QED BY <2>3, <4>1 DEF RunOf
      <4>3. turn[<<f[i - 1], i>>] = IF cols[i] = c THEN f[i - 1] ELSE Append(f[i - 1], cols[i])
        <5> HIDE DEF A
        <5> QED BY <4>1, <4>2
      <4> QED BY <3>2, <4>2, <4>3
    <3> QED BY <3>1, <3>2
  <2>5. Looped(f)
    <3>1. f \in [0..n -> A]
      BY <2>3 DEF RunOf
    <3> HIDE DEF A, turn, n
    <3> QED BY <2>4, <3>1
  <2> HIDE DEF Looped
  <2> QED BY <2>5, Zenon
<1> HIDE DEF F, turn
<1>4. ASSUME NEW i \in 0..n
      PROVE  F[i] = IF i = 0 THEN <<>>
                    ELSE IF cols[i] = c THEN F[i - 1] ELSE Append(F[i - 1], cols[i])
  <2> HIDE DEF n
  <2> QED BY <1>3, Zenon
<1> HIDE DEF Looped
<1> DEFINE S == {i \in 0..n : Filtered(cols, c, i, F[i])}
<1>5. 0 \in S
  <2>1. 0 \in 0..n
    BY <1>1
  <2>2. F[0] = <<>>
    BY <1>4, <2>1
  <2>3. Filtered(cols, c, 0, F[0])
    BY <2>2 DEF Filtered
  <2> QED BY <2>1, <2>3
<1>6. ASSUME NEW i \in 1..n, i - 1 \in S PROVE i \in S
  <2>1. i \in 0..n /\ i # 0
    BY <1>1
  <2>2. F[i] = IF cols[i] = c THEN F[i - 1] ELSE Append(F[i - 1], cols[i])
    BY <1>4, <2>1
  <2>3. Filtered(cols, c, i - 1, F[i - 1])
    BY <1>6
  <2>4. Filtered(cols, c, i, F[i])
    BY <2>2, <2>3, OneMoreColumn
  <2> QED BY <2>1, <2>4
<1>7. n \in S
  <2>1. \A i \in 0..n : i \in S
    <3> HIDE DEF S, n
    <3> QED BY <1>1, <1>5, <1>6, EveryTurn, Zenon
  <2>2. n \in 0..n
    BY <1>1
  <2> HIDE DEF S, n
  <2> QED BY <2>1, <2>2
<1> QED BY <1>2, <1>7

\* Removing a column leaves _msg last, or removes it.
LEMMA RemovalKeepsMsgLast ==
    ASSUME NEW cols \in Seq(Names), NEW c
    PROVE  /\ Without(cols, c) \in Seq(Names)
           /\ MsgLast(cols) => MsgLast(Without(cols, c))
<1> DEFINE w == Without(cols, c)
<1>1. /\ w \in Seq(Names)
      /\ \A i \in 1..Len(w) : \E j \in 1..Len(cols) : w[i] = cols[j] /\ cols[j] # c
      /\ Len(cols) > 0 /\ cols[Len(cols)] # c => Len(w) > 0 /\ w[Len(w)] = cols[Len(cols)]
  BY FilterKeeps, Zenon DEF Filtered
<1> HIDE DEF w
<1>2. ASSUME MsgLast(cols) PROVE MsgLast(w)
  <2> SUFFICES ASSUME "_msg" \in ToSet(w) PROVE Last(w) = "_msg"
    BY DEF MsgLast
  <2>1. PICK i \in 1..Len(w) : w[i] = "_msg"
    BY <1>1 DEF ToSet
  <2>2. PICK j \in 1..Len(cols) : cols[j] = "_msg" /\ c # "_msg"
    BY <1>1, <2>1
  <2>3. "_msg" \in ToSet(cols) /\ Len(cols) > 0
    BY <2>2 DEF ToSet
  <2>4. cols[Len(cols)] = "_msg"
    BY <1>2, <2>3 DEF MsgLast, Last
  <2> QED BY <1>1, <2>2, <2>3, <2>4 DEF Last
<1> QED BY <1>1, <1>2 DEF w

\* Remembered columns end with _msg, and are left alone if they did; what is
\* remembered is not nothing.
LEMMA MsgIsLast ==
    ASSUME NEW cols \in Seq(Names)
    PROVE  /\ WithMsgLast(cols) \in Seq(Names) /\ MsgLast(WithMsgLast(cols))
           /\ MsgLast(cols) => WithMsgLast(cols) = cols
           /\ cols # None => WithMsgLast(cols) # None
<1>1. CASE MsgLast(cols)
  BY <1>1 DEF WithMsgLast
<1>2. CASE ~MsgLast(cols)
  <2> DEFINE w == Without(cols, "_msg")
  <2>1. w \in Seq(Names)
    BY RemovalKeepsMsgLast
  <2> HIDE DEF w
  <2>2. WithMsgLast(cols) = Append(w, "_msg")
    BY <1>2 DEF WithMsgLast, w
  <2>3. /\ Append(w, "_msg") \in Seq(Names) /\ Len(Append(w, "_msg")) = Len(w) + 1
        /\ Append(w, "_msg")[Len(w) + 1] = "_msg" /\ Len(w) \in Nat
    <3>1. "_msg" \in Names
      BY FieldsAssumption
    <3> QED BY <2>1, <3>1, AppendProperties, LenProperties
  <2>4. Last(Append(w, "_msg")) = "_msg"
    BY <2>3 DEF Last
  <2>5. Append(w, "_msg") # None
    <3> SUFFICES ASSUME Append(w, "_msg") = None PROVE FALSE
      OBVIOUS
    <3>1. Last(None) = ""
      BY DEF None, Last
    <3> QED BY <2>4, <3>1
  <2> QED BY <1>2, <2>2, <2>3, <2>4, <2>5 DEF MsgLast
<1> QED BY <1>1, <1>2

\* Where a column is, or 0.
Places(cols, c) == {i \in 1..Len(cols) : cols[i] = c}
FirstPlace(cols, c) == IF Places(cols, c) # {} THEN Min(Places(cols, c)) ELSE 0

LEMMA PlaceOf ==
    ASSUME NEW cols \in Seq(Names), NEW c
    PROVE  /\ FirstPlace(cols, c) \in 0..Len(cols)
           /\ FirstPlace(cols, c) > 0 => cols[FirstPlace(cols, c)] = c
           /\ FirstPlace(cols, c) = 0 => c \notin ToSet(cols)
<1> DEFINE I == Places(cols, c)
<1>0. Len(cols) \in Nat /\ I \in SUBSET (1..Len(cols))
  BY DEF Places
<1>1. CASE I = {}
  <2>1. FirstPlace(cols, c) = 0
    BY <1>1 DEF FirstPlace
  <2>2. c \notin ToSet(cols)
    BY <1>1 DEF ToSet, Places
  <2> QED BY <1>0, <2>1, <2>2
<1>2. CASE I # {}
  <2>1. \E m \in I : \A i \in I : m <= i
    <3> HIDE DEF I
    <3> QED BY <1>0, <1>2, LeastPosition, Zenon
  <2>2. Min(I) \in I
    <3> HIDE DEF I
    <3> QED BY <2>1, Zenon DEF Min
  <2>3. FirstPlace(cols, c) = Min(I)
    BY <1>2, Zenon DEF FirstPlace
  <2>4. FirstPlace(cols, c) \in 1..Len(cols) /\ cols[FirstPlace(cols, c)] = c
    BY <2>2, <2>3 DEF Places
  <2> QED BY <1>0, <2>4
<1> QED BY <1>1, <1>2

\* A column is put in front of the first _msg, so whichever was last stays last.
LEMMA ToggleKeepsMsgLast ==
    ASSUME NEW cols \in Seq(Names), NEW field \in Toggled
    PROVE  /\ ToggledColumns(cols, field) \in Seq(Names)
           /\ MsgLast(cols) => MsgLast(ToggledColumns(cols, field))
<1> DEFINE at == FirstPlace(cols, "_msg")
           a == SubSeq(cols, 1, at - 1) \o <<field>>
           b == SubSeq(cols, at, Len(cols))
<1>0. field \in Names /\ Len(cols) \in Nat /\ cols \in [1..Len(cols) -> Names]
  BY FieldsAssumption, LenProperties
<1>1. /\ at \in 0..Len(cols)
      /\ at > 0 => cols[at] = "_msg"
      /\ at = 0 => "_msg" \notin ToSet(cols)
  BY PlaceOf
<1>2. ToggledColumns(cols, field) =
        IF field \in ToSet(cols) THEN IF field = "_time" THEN cols ELSE Without(cols, field)
        ELSE IF at > 0 THEN a \o b ELSE Append(cols, field)
  BY DEF ToggledColumns, InsertAt, SelectInSeq, FirstPlace, Places
<1> HIDE DEF at
<1>3. CASE field \in ToSet(cols)
  <2>1. ToggledColumns(cols, field) = IF field = "_time" THEN cols ELSE Without(cols, field)
    BY <1>2, <1>3
  <2> QED BY <2>1, RemovalKeepsMsgLast
<1>4. CASE field \notin ToSet(cols) /\ at > 0
  <2>1. ToggledColumns(cols, field) = a \o b
    BY <1>2, <1>4
  <2>2. at \in 1..Len(cols)
    BY <1>1, <1>4
  <2>3. /\ b \in Seq(Names) /\ Len(b) = Len(cols) - at + 1
        /\ b[Len(cols) - at + 1] = cols[Len(cols)]
    <3>1. b = SubSeq(cols, at, Len(cols)) /\ \A i \in at..Len(cols) : cols[i] \in Names
      BY <1>0, <2>2
    <3>2. /\ b \in Seq(Names) /\ Len(b) = Len(cols) - at + 1
          /\ \A i \in 1..(Len(cols) - at + 1) : b[i] = cols[at + i - 1]
      BY <1>0, <2>2, SubSeqProperties
    <3> HIDE DEF b
    <3> QED BY <1>0, <2>2, <3>2
  <2>4. a \in Seq(Names)
    <3>1. SubSeq(cols, 1, at - 1) \in Seq(Names)
      BY <1>0, <2>2, SubSeqProperties
    <3>2. <<field>> \in Seq(Names)
      BY <1>0
    <3> QED BY <3>1, <3>2, ConcatProperties
  <2> HIDE DEF a, b
  <2>5. /\ a \o b \in Seq(Names) /\ Len(a \o b) = Len(a) + Len(b) /\ Len(a) \in Nat
        /\ (a \o b)[Len(a) + Len(b)] = b[Len(b)]
    <3>1. /\ a \o b \in Seq(Names) /\ Len(a \o b) = Len(a) + Len(b)
          /\ \A i \in 1..Len(a) + Len(b) : (a \o b)[i] = IF i <= Len(a) THEN a[i] ELSE b[i - Len(a)]
      BY <2>3, <2>4, ConcatProperties
    <3>2. Len(a) \in Nat /\ Len(b) \in Nat /\ Len(b) > 0
      BY <2>2, <2>3, <2>4
    <3>3. (a \o b)[Len(a) + Len(b)] = b[(Len(a) + Len(b)) - Len(a)]
      BY <3>1, <3>2
    <3> QED BY <3>1, <3>2, <3>3
  <2>6. Last(a \o b) = Last(cols)
    BY <2>3, <2>5 DEF Last
  <2>7. "_msg" \in ToSet(cols)
    BY <1>1, <1>4, <2>2 DEF ToSet
  <2> QED BY <2>1, <2>5, <2>6, <2>7 DEF MsgLast
<1>5. CASE field \notin ToSet(cols) /\ at = 0
  <2>1. ToggledColumns(cols, field) = Append(cols, field)
    BY <1>2, <1>5
  <2>2. /\ Append(cols, field) \in Seq(Names) /\ Len(Append(cols, field)) = Len(cols) + 1
        /\ Append(cols, field)[Len(cols) + 1] = field
        /\ \A i \in 1..Len(cols) : Append(cols, field)[i] = cols[i]
    BY <1>0, AppendProperties
  <2>3. MsgLast(Append(cols, field))
    <3> DEFINE v == Append(cols, field)
    <3> HIDE DEF v
    <3> SUFFICES ASSUME "_msg" \in ToSet(v) PROVE Last(v) = "_msg"
      BY DEF MsgLast, v
    <3>0. /\ v \in Seq(Names) /\ Len(v) = Len(cols) + 1 /\ v[Len(cols) + 1] = field
          /\ \A i \in 1..Len(cols) : v[i] = cols[i]
      BY <2>2 DEF v
    <3>1. PICK i \in 1..Len(v) : v[i] = "_msg"
      BY <3>0 DEF ToSet
    <3>2. i = Len(cols) + 1
      <4> SUFFICES ASSUME i \in 1..Len(cols) PROVE FALSE
        BY <1>0, <3>0, <3>1
      <4> QED BY <1>1, <1>5, <3>0, <3>1 DEF ToSet
    <3> QED BY <3>0, <3>1, <3>2 DEF Last
  <2> QED BY <2>1, <2>2, <2>3
<1> QED BY <1>1, <1>3, <1>4, <1>5

-----------------------------------------------------------------------------
(* Tools and what the operators do to a tab.                               *)

\* What a path may be that the tab has been at with a config.
Proper(p) == \/ p \in AppPages \cup Offered
             \/ Offered = {} /\ p = NoTool

LEMMA ToolsTyped ==
    /\ NoTool \notin Offered /\ Offered \subseteq ToolIds /\ NoTool \in ToolIds
    /\ ToolIds \subseteq Paths /\ ToolIds \cap AppPages = {}
    /\ Unset \notin Queries /\ "" \in Queries /\ "*" \in Queries
    /\ Tools # <<>> => Tools[1] \in Offered
    /\ Tools = <<>> => Offered = {}
<1>1. NoTool \notin Offered /\ Offered \subseteq ToolIds /\ NoTool \in ToolIds
      /\ ToolIds \subseteq Paths /\ ToolIds \cap AppPages = {}
  BY ToolsAssumption DEF ToolIds, Paths, NoTool, AppPages
<1>2. Unset \notin Queries /\ "" \in Queries /\ "*" \in Queries
  BY ReaderAssumption DEF Queries, Unset
<1>3. Tools # <<>> => Tools[1] \in Offered
  BY ToolsAssumption DEF Offered, ToSet
<1>4. Tools = <<>> => Offered = {}
  BY DEF Offered, ToSet
<1> QED BY <1>1, <1>2, <1>3, <1>4

LEMMA DefaultTyped == DefaultColumns \in Lists
<1>1. "_time" \in Names /\ "_msg" \in Names
  BY FieldsAssumption
<1> QED BY <1>1 DEF DefaultColumns, Lists

LEMMA ToolFacts ==
    ASSUME NEW s, NEW id
    PROVE  /\ ToolById(s, id) \in Offered \cup {NoTool}
           /\ ToolById(s, id) \in ToolIds
           /\ s.boot = "ready" /\ id \in Offered => ToolById(s, id) = id
           /\ s.boot = "ready" => Proper(ToolById(s, id))
           /\ ToolById(s, ToolById(s, id)) = ToolById(s, id)
           /\ DefaultQueryFor(s, id) \in Queries
           /\ DefaultColumnsFor(s, id) \in Lists
<1>1. DefaultQueryFor(s, id) \in Queries
  BY ToolsTyped DEF DefaultQueryFor
<1>2. CASE s.boot # "ready" \/ Tools = <<>>
  <2>1. \A i : ToolById(s, i) = NoTool
    BY <1>2 DEF ToolById
  <2>2. DefaultColumnsFor(s, id) = DefaultColumns
    BY <2>1 DEF DefaultColumnsFor
  <2>3. DefaultColumns \in Lists
    BY DefaultTyped
  <2> QED BY <1>1, <1>2, <2>1, <2>2, <2>3, ToolsTyped DEF Proper
<1>3. CASE s.boot = "ready" /\ Tools # <<>>
  <2>1. \A i : ToolById(s, i) = IF i \in Offered THEN i ELSE Tools[1]
    BY <1>3 DEF ToolById
  <2>2. DefaultColumnsFor(s, id) \in Lists
    <3>1. DefaultColumns \in Lists
      BY DefaultTyped
    <3>2. ToolById(s, id) \in Offered
      BY <1>3, <2>1, ToolsTyped
    <3>3. Fields[ToolById(s, id)] \in Lists
      BY <3>2, FieldsAssumption
    <3> QED BY <3>1, <3>3 DEF DefaultColumnsFor
  <2> QED BY <1>1, <1>3, <2>1, <2>2, ToolsTyped DEF Proper
<1> QED BY <1>2, <1>3

LEMMA ConfigDecides ==
    ASSUME NEW s, NEW t, s.boot = t.boot, NEW id
    PROVE  /\ ToolById(s, id) = ToolById(t, id)
           /\ DefaultQueryFor(s, id) = DefaultQueryFor(t, id)
           /\ DefaultColumnsFor(s, id) = DefaultColumnsFor(t, id)
<1>1. ToolById(s, id) = ToolById(t, id)
  BY DEF ToolById
<1> QED BY <1>1 DEF DefaultQueryFor, DefaultColumnsFor

IsTab(s) == s \in TabType /\ s.pos \in DOMAIN s.entries

LEMMA ColumnsTyped ==
    ASSUME NEW s, IsTab(s), NEW id \in ToolIds
    PROVE  ColumnsFor(s, id) \in Lists
<1>1. s.stored[id] \in Lists \cup {None}
  BY DEF IsTab, TabType
<1>2. s.stored[id] # None => WithMsgLast(s.stored[id]) \in Lists
  BY <1>1, MsgIsLast DEF Lists
<1> QED BY <1>2, ToolFacts DEF ColumnsFor

LEMMA HereTyped ==
    ASSUME NEW s, IsTab(s)
    PROVE  /\ Here(s) \in EntryType
           /\ s.pos \in 1..Len(s.entries) /\ s.pos \in Nat /\ Len(s.entries) \in Nat
           /\ s.entries \in Seq(EntryType)
           /\ PageFromPath(s) \in AppPages \cup {""}
<1>1. s.entries \in Seq(EntryType) /\ s.pos \in DOMAIN s.entries /\ s.pos \in Nat
  BY DEF IsTab, TabType
<1>2. s.entries \in [1..Len(s.entries) -> EntryType] /\ Len(s.entries) \in Nat
      /\ DOMAIN s.entries = 1..Len(s.entries)
  BY <1>1, LenProperties
<1>3. s.entries[s.pos] \in EntryType
  BY <1>1, <1>2
<1> QED BY <1>1, <1>2, <1>3 DEF Here, PageFromPath

\* The entry the tab is at is replaced by what the tab then shows.
Landed(s, r) ==
    /\ r.pos = s.pos
    /\ r.entries = [s.entries EXCEPT ![s.pos] = Entry(r.tool, r.query, Here(s).doc)]

\* What is remembered of the columns stays, with what the document knows.
SameDocument(s, r) == r.boot = s.boot /\ r.page = s.page
SameStore(s, r) == r.stored = s.stored /\ r.disk = s.disk /\ r.foreign = s.foreign

LEMMA Wrote ==
    ASSUME NEW s, IsTab(s)
    PROVE  LET r == WriteURL(s) IN
           /\ IsTab(r) /\ Landed(s, r) /\ SameDocument(s, r) /\ SameStore(s, r)
           /\ r.tool = s.tool /\ r.query = s.query /\ r.memory = s.memory
           /\ r.started = s.started /\ r.columns = s.columns /\ r.ran = s.ran
<1> DEFINE e == Entry(s.tool, s.query, Here(s).doc)
           es == [s.entries EXCEPT ![s.pos] = e]
           r == WriteURL(s)
<1>1. e \in EntryType
  BY HereTyped, ToolsTyped DEF IsTab, TabType, Entry, EntryType
<1>2. es \in Seq(EntryType) /\ Len(es) = Len(s.entries) /\ s.pos \in DOMAIN es
  <2>1. s.entries \in Seq(EntryType) /\ s.pos \in 1..Len(s.entries)
    BY HereTyped
  <2> HIDE DEF e
  <2> QED BY <1>1, <2>1
<1>3. r = [s EXCEPT !.entries = es]
  BY DEF WriteURL, Here
<1> HIDE DEF es, r
<1>4. /\ r.entries = es /\ r.pos = s.pos /\ r.boot = s.boot /\ r.page = s.page
      /\ r.stored = s.stored /\ r.disk = s.disk /\ r.foreign = s.foreign
      /\ r.tool = s.tool /\ r.query = s.query /\ r.memory = s.memory
      /\ r.started = s.started /\ r.columns = s.columns /\ r.ran = s.ran
  BY <1>3 DEF IsTab, TabType
<1>5. r \in TabType
  BY <1>2, <1>3 DEF IsTab, TabType
<1>6. Landed(s, r)
  BY <1>4 DEF Landed, es
<1>7. IsTab(r)
  BY <1>2, <1>4, <1>5 DEF IsTab
<1> QED BY <1>4, <1>6, <1>7 DEF SameDocument, SameStore, r

LEMMA Ran ==
    ASSUME NEW s, IsTab(s)
    PROVE  LET r == Run(s) IN
           /\ IsTab(r) /\ Landed(s, r) /\ SameDocument(s, r) /\ SameStore(s, r)
           /\ r.tool = s.tool /\ r.query = s.query /\ r.memory = s.memory
           /\ r.started = s.started /\ r.columns = s.columns
           /\ r.ran = [tool |-> s.tool, query |-> s.query] /\ r.ran.tool = s.tool
<1> DEFINE w == WriteURL(s)
           a == [tool |-> s.tool, query |-> s.query]
           r == Run(s)
<1>1. /\ IsTab(w) /\ Landed(s, w) /\ SameDocument(s, w) /\ SameStore(s, w)
      /\ w.tool = s.tool /\ w.query = s.query /\ w.memory = s.memory
      /\ w.started = s.started /\ w.columns = s.columns
  BY Wrote
<1>2. r = [w EXCEPT !.ran = a]
  BY DEF Run
<1>3. a \in [tool : ToolIds, query : Queries \cup {Unset}]
  BY DEF IsTab, TabType
<1> HIDE DEF w, r, a
<1>4. r \in TabType
  BY <1>1, <1>2, <1>3 DEF IsTab, TabType
<1>5. /\ r.entries = w.entries /\ r.pos = w.pos /\ r.boot = w.boot /\ r.page = w.page
      /\ r.stored = w.stored /\ r.disk = w.disk /\ r.foreign = w.foreign
      /\ r.tool = w.tool /\ r.query = w.query /\ r.memory = w.memory
      /\ r.started = w.started /\ r.columns = w.columns /\ r.ran = a
  BY <1>1, <1>2 DEF IsTab, TabType
<1>6. IsTab(r)
  BY <1>1, <1>4, <1>5 DEF IsTab
<1>7. a.tool = s.tool
  BY DEF a
<1> QED BY <1>1, <1>5, <1>6, <1>7 DEF SameDocument, SameStore, Landed, r, a

LEMMA Read ==
    ASSUME NEW s, IsTab(s)
    PROVE  LET r == ReadURL(s) IN
           /\ IsTab(r) /\ SameDocument(s, r) /\ SameStore(s, r)
           /\ r.entries = s.entries /\ r.pos = s.pos /\ r.started = s.started /\ r.ran = s.ran
           /\ r.tool = IF s.boot = "ready" /\ Here(s).path \in Offered THEN Here(s).path ELSE s.tool
           /\ \A t \in ToolIds : t # r.tool => r.memory[t] = s.memory[t]
           /\ r.tool = NoTool => r.memory = s.memory
           /\ r.columns = ColumnsFor(s, r.tool)
<1> DEFINE known == s.boot = "ready" /\ Here(s).path \in Offered
           t == IF known THEN Here(s).path ELSE s.tool
           q == Here(s).q
           held == IF q # "" THEN q ELSE IF known THEN DefaultQueryFor(s, t) ELSE s.query
           m == [s.memory EXCEPT ![t] = IF q # "" /\ t # NoTool THEN q ELSE @]
           c == ColumnsFor(s, t)
           r == ReadURL(s)
<1>1. r = [s EXCEPT !.tool = t, !.query = held, !.memory = m, !.columns = c]
  BY DEF ReadURL, ToolFromPath
<1>2. t \in ToolIds
  BY ToolsTyped DEF IsTab, TabType
<1>3. q \in Queries
  BY HereTyped DEF EntryType
<1>4. held \in Queries
  <2>1. DefaultQueryFor(s, t) \in Queries /\ s.query \in Queries
    BY ToolFacts DEF IsTab, TabType
  <2> HIDE DEF t, q, known
  <2> QED BY <1>3, <2>1
<1>5. /\ m \in [ToolIds -> Queries \cup {Unset}]
      /\ \A u \in ToolIds : u # t => m[u] = s.memory[u]
      /\ t = NoTool => m = s.memory
  <2>1. s.memory \in [ToolIds -> Queries \cup {Unset}]
    BY DEF IsTab, TabType
  <2> HIDE DEF t, q
  <2> QED BY <1>2, <1>3, <2>1
<1>6. c \in Lists
  BY <1>2, ColumnsTyped
<1> HIDE DEF t, q, known, held, m, c, r
<1>7. r \in TabType
  BY <1>1, <1>2, <1>4, <1>5, <1>6 DEF IsTab, TabType
<1>8. /\ r.entries = s.entries /\ r.pos = s.pos /\ r.boot = s.boot /\ r.page = s.page
      /\ r.stored = s.stored /\ r.disk = s.disk /\ r.foreign = s.foreign
      /\ r.tool = t /\ r.memory = m /\ r.started = s.started /\ r.columns = c /\ r.ran = s.ran
  BY <1>1 DEF IsTab, TabType
<1>9. IsTab(r)
  BY <1>7, <1>8 DEF IsTab
<1>10. r.tool = IF s.boot = "ready" /\ Here(s).path \in Offered THEN Here(s).path ELSE s.tool
  BY <1>8 DEF t, known
<1>11. /\ \A u \in ToolIds : u # r.tool => r.memory[u] = s.memory[u]
       /\ r.tool = NoTool => r.memory = s.memory
       /\ r.columns = ColumnsFor(s, r.tool)
  <2>1. r.columns = ColumnsFor(s, r.tool)
    BY <1>8, Zenon DEF c
  <2>2. r.tool = t /\ r.memory = m
    BY <1>8
  <2>3. \A u \in ToolIds : u # r.tool => r.memory[u] = s.memory[u]
    BY <1>5, <2>2
  <2>4. r.tool = NoTool => r.memory = s.memory
    BY <1>5, <2>2
  <2> QED BY <2>1, <2>3, <2>4
<1>12. SameDocument(s, r) /\ SameStore(s, r)
  BY <1>8 DEF SameDocument, SameStore
<1> QED BY <1>8, <1>9, <1>10, <1>11, <1>12, Zenon DEF r

LEMMA Started ==
    ASSUME NEW s, IsTab(s)
    PROVE  LET r == StartWorkspace(s) IN
           /\ IsTab(r) /\ Landed(s, r) /\ SameDocument(s, r) /\ SameStore(s, r)
           /\ r.started /\ r.ran.tool = r.tool
           /\ r.tool = IF s.boot = "ready" /\ Here(s).path \in Offered THEN Here(s).path ELSE s.tool
           /\ \A t \in ToolIds : t # r.tool => r.memory[t] = s.memory[t]
           /\ r.tool = NoTool => r.memory = s.memory
           /\ r.columns = ColumnsFor(s, r.tool)
<1> DEFINE b == [s EXCEPT !.started = TRUE]
           g == ReadURL(b)
           r == StartWorkspace(s)
<1>1. /\ IsTab(b) /\ Here(b) = Here(s) /\ SameDocument(s, b) /\ SameStore(s, b)
      /\ b.entries = s.entries /\ b.pos = s.pos /\ b.tool = s.tool /\ b.memory = s.memory
      /\ b.started
  BY DEF IsTab, TabType, Here, SameDocument, SameStore
<1>2. r = Run(g)
  BY DEF StartWorkspace
<1> HIDE DEF b, r
<1>3. \A t : ColumnsFor(b, t) = ColumnsFor(s, t)
  BY <1>1, ConfigDecides DEF ColumnsFor, SameStore, SameDocument
<1>4. /\ IsTab(g) /\ SameDocument(b, g) /\ SameStore(b, g)
      /\ g.entries = b.entries /\ g.pos = b.pos /\ g.started
      /\ g.tool = IF b.boot = "ready" /\ Here(b).path \in Offered THEN Here(b).path ELSE b.tool
      /\ \A t \in ToolIds : t # g.tool => g.memory[t] = b.memory[t]
      /\ g.tool = NoTool => g.memory = b.memory
      /\ g.columns = ColumnsFor(b, g.tool)
  BY <1>1, Read
<1> HIDE DEF g
<1>5. /\ IsTab(r) /\ Landed(g, r) /\ SameDocument(g, r) /\ SameStore(g, r)
      /\ r.tool = g.tool /\ r.query = g.query /\ r.memory = g.memory
      /\ r.started = g.started /\ r.columns = g.columns
      /\ r.ran = [tool |-> g.tool, query |-> g.query]
  BY <1>2, <1>4, Ran
<1>6. Landed(s, r)
  BY <1>1, <1>4, <1>5 DEF Landed, Here
<1>7. SameDocument(s, r) /\ SameStore(s, r)
  BY <1>1, <1>4, <1>5 DEF SameDocument, SameStore
<1>8. r.tool = IF s.boot = "ready" /\ Here(s).path \in Offered THEN Here(s).path ELSE s.tool
  BY <1>1, <1>4, <1>5 DEF SameDocument
<1>9. r.ran.tool = r.tool /\ r.started /\ r.columns = ColumnsFor(s, r.tool)
  BY <1>3, <1>4, <1>5
<1> QED BY <1>1, <1>4, <1>5, <1>6, <1>7, <1>8, <1>9 DEF r

\* What is remembered of a tool's columns once c is on its table.
Memo(s, c) == IF c = DefaultColumnsFor(s, s.tool) THEN None ELSE c

LEMMA Remembered ==
    ASSUME NEW s, IsTab(s)
    PROVE  LET r == RememberColumns(s) IN
           /\ IsTab(r) /\ SameDocument(s, r)
           /\ r.entries = s.entries /\ r.pos = s.pos /\ r.started = s.started /\ r.ran = s.ran
           /\ r.tool = s.tool /\ r.query = s.query /\ r.memory = s.memory /\ r.columns = s.columns
           /\ r.stored = [s.stored EXCEPT ![s.tool] = Memo(s, s.columns)]
           /\ r.disk = r.stored /\ ~r.foreign
<1> DEFINE st == [s.stored EXCEPT ![s.tool] = Memo(s, s.columns)]
           r == RememberColumns(s)
<1>1. r = [[s EXCEPT !.stored = st] EXCEPT !.disk = [s EXCEPT !.stored = st].stored, !.foreign = FALSE]
  BY DEF RememberColumns, PersistColumns, Memo
<1>2. st \in [ToolIds -> Lists \cup {None}]
  BY DEF IsTab, TabType, Memo
<1> HIDE DEF st, r
<1>3. r = [s EXCEPT !.stored = st, !.disk = st, !.foreign = FALSE]
  BY <1>1 DEF IsTab, TabType
<1>4. r \in TabType
  BY <1>2, <1>3 DEF IsTab, TabType
<1>5. /\ r.entries = s.entries /\ r.pos = s.pos /\ r.boot = s.boot /\ r.page = s.page
      /\ r.stored = st /\ r.disk = st /\ r.foreign = FALSE
      /\ r.tool = s.tool /\ r.query = s.query /\ r.memory = s.memory
      /\ r.started = s.started /\ r.columns = s.columns /\ r.ran = s.ran
  BY <1>3 DEF IsTab, TabType
<1>6. IsTab(r)
  BY <1>4, <1>5 DEF IsTab
<1> QED BY <1>5, <1>6 DEF SameDocument, r, st

\* The box of the tool that is left is remembered.
BoxNoted(s) == [s.memory EXCEPT ![s.tool] = IF s.tool # NoTool THEN s.query ELSE @]

\* What a change of tools makes of a tab.
SwitchedTo(s, id, r) ==
    /\ IsTab(r) /\ Landed(s, r) /\ SameDocument(s, r) /\ r.started = s.started
    /\ r.tool = id /\ r.ran.tool = id
    /\ r.memory = BoxNoted(s)
    /\ r.query = IF BoxNoted(s)[id] # Unset THEN BoxNoted(s)[id] ELSE DefaultQueryFor(s, id)
    /\ r.stored = [s.stored EXCEPT ![s.tool] = Memo(s, s.columns)]
    /\ r.disk = r.stored /\ ~r.foreign
    /\ r.columns = ColumnsFor(r, id)

LEMMA Switched ==
    ASSUME NEW s, IsTab(s), NEW id \in ToolIds
    PROVE  SwitchedTo(s, id, SwitchTool(s, id))
<1> DEFINE m == BoxNoted(s)
           n == [s EXCEPT !.memory = m]
           g == RememberColumns(n)
           h == IF m[id] # Unset THEN m[id] ELSE DefaultQueryFor(s, id)
           c == ColumnsFor(g, id)
           v == [g EXCEPT !.tool = id, !.query = h, !.columns = c]
           r == SwitchTool(s, id)
<1>1. m \in [ToolIds -> Queries \cup {Unset}]
  BY DEF IsTab, TabType, BoxNoted
<1>2. /\ IsTab(n) /\ Here(n) = Here(s) /\ SameDocument(s, n) /\ SameStore(s, n)
      /\ n.entries = s.entries /\ n.pos = s.pos /\ n.tool = s.tool /\ n.memory = m
      /\ n.started = s.started /\ n.columns = s.columns /\ n.query = s.query
  <2> HIDE DEF m
  <2> QED BY <1>1 DEF IsTab, TabType, Here, SameDocument, SameStore
<1>3. \A t : Memo(n, t) = Memo(s, t)
  <2> HIDE DEF n
  <2> QED BY <1>2, ConfigDecides DEF Memo, SameDocument
<1>4. /\ IsTab(g) /\ SameDocument(n, g)
      /\ g.entries = n.entries /\ g.pos = n.pos /\ g.started = n.started
      /\ g.tool = n.tool /\ g.memory = n.memory
      /\ g.stored = [n.stored EXCEPT ![n.tool] = Memo(n, n.columns)]
      /\ g.disk = g.stored /\ ~g.foreign
  <2> HIDE DEF n
  <2> QED BY <1>2, Remembered
<1>5. r = Run([g EXCEPT !.tool = id,
                     !.query = IF g.memory[id] # Unset THEN g.memory[id] ELSE DefaultQueryFor(s, id),
                     !.columns = ColumnsFor(g, id)])
  BY DEF SwitchTool, BoxNoted
<1> HIDE DEF n, g
<1>6. r = Run(v)
  BY <1>2, <1>4, <1>5
<1>7. h \in Queries /\ c \in Lists
  BY <1>1, <1>4, ToolFacts, ColumnsTyped
<1> HIDE DEF m, h, c, r
<1>8. /\ IsTab(v) /\ Here(v) = Here(g) /\ SameDocument(g, v) /\ SameStore(g, v)
      /\ v.entries = g.entries /\ v.pos = g.pos /\ v.tool = id /\ v.memory = g.memory
      /\ v.started = g.started /\ v.columns = c /\ v.query = h
  BY <1>4, <1>7 DEF IsTab, TabType, Here, SameDocument, SameStore
<1> HIDE DEF v
<1>9. /\ IsTab(r) /\ Landed(v, r) /\ SameDocument(v, r) /\ SameStore(v, r)
      /\ r.tool = v.tool /\ r.query = v.query /\ r.memory = v.memory
      /\ r.started = v.started /\ r.columns = v.columns
      /\ r.ran = [tool |-> v.tool, query |-> v.query]
  BY <1>6, <1>8, Ran
<1>10. Landed(s, r)
  BY <1>2, <1>4, <1>8, <1>9 DEF Landed, Here
<1>11. SameDocument(s, r) /\ r.started = s.started
  BY <1>2, <1>4, <1>8, <1>9 DEF SameDocument
<1>12. /\ r.stored = [s.stored EXCEPT ![s.tool] = Memo(s, s.columns)]
       /\ r.disk = r.stored /\ ~r.foreign
  BY <1>2, <1>3, <1>4, <1>8, <1>9 DEF SameStore
<1>13. r.columns = ColumnsFor(r, id)
  <2>1. r.stored = g.stored /\ r.boot = g.boot
    BY <1>4, <1>8, <1>9 DEF SameStore, SameDocument
  <2>2. ColumnsFor(r, id) = ColumnsFor(g, id)
    BY <2>1, ConfigDecides DEF ColumnsFor
  <2> QED BY <1>8, <1>9, <2>2 DEF c
<1>14. r.tool = id /\ r.ran.tool = id /\ r.memory = m /\ r.query = h
  BY <1>2, <1>4, <1>8, <1>9
<1>15. /\ r.memory = BoxNoted(s)
       /\ r.query = IF BoxNoted(s)[id] # Unset THEN BoxNoted(s)[id] ELSE DefaultQueryFor(s, id)
  BY <1>14 DEF m, h
<1>16. SwitchedTo(s, id, r)
  BY <1>9, <1>10, <1>11, <1>12, <1>13, <1>14, <1>15 DEF SwitchedTo
<1> QED BY <1>16 DEF r

\* An entry e is pushed behind the one the tab is at.
Added(s, r, e) ==
    /\ r.pos = s.pos + 1 /\ Len(r.entries) = s.pos + 1 /\ r.entries \in Seq(EntryType)
    /\ \A i \in 1..s.pos : r.entries[i] = s.entries[i]
    /\ r.entries[r.pos] = e

LEMMA Pushed ==
    ASSUME NEW s, IsTab(s), NEW path \in Paths, NEW q \in Queries, NEW doc \in 1..MaxLoads
    PROVE  LET r == Push(s, path, q, doc) IN
           /\ IsTab(r) /\ SameDocument(s, r) /\ SameStore(s, r)
           /\ r.tool = s.tool /\ r.query = s.query /\ r.memory = s.memory
           /\ r.started = s.started /\ r.columns = s.columns /\ r.ran = s.ran
           /\ Len(r.entries) = s.pos + 1 /\ Added(s, r, Entry(path, q, doc))
<1> DEFINE e == Entry(path, q, doc)
           front == SubSeq(s.entries, 1, s.pos)
           es == Append(front, e)
           r == Push(s, path, q, doc)
<1>1. e \in EntryType
  BY DEF Entry, EntryType
<1>2. s.entries \in Seq(EntryType) /\ s.pos \in 1..Len(s.entries) /\ Len(s.entries) \in Nat
  BY HereTyped
<1>3. /\ front \in Seq(EntryType) /\ Len(front) = s.pos
      /\ \A i \in 1..s.pos : front[i] = s.entries[i]
  BY <1>2, SubSeqProperties
<1> HIDE DEF front, e
<1>4. /\ es \in Seq(EntryType) /\ Len(es) = s.pos + 1
      /\ \A i \in 1..s.pos : es[i] = s.entries[i]
      /\ es[s.pos + 1] = e
  BY <1>1, <1>3, AppendProperties
<1>5. s.pos \in Nat /\ s.pos + 1 \in Nat /\ s.pos + 1 \in DOMAIN es
  BY <1>2, <1>4, LenProperties
<1>6. r = [s EXCEPT !.entries = es, !.pos = s.pos + 1]
  BY DEF Push, front, e
<1> HIDE DEF es, r
<1>7. r \in TabType
  BY <1>4, <1>5, <1>6 DEF IsTab, TabType
<1>8. /\ r.entries = es /\ r.pos = s.pos + 1 /\ r.boot = s.boot /\ r.page = s.page
      /\ r.stored = s.stored /\ r.disk = s.disk /\ r.foreign = s.foreign
      /\ r.tool = s.tool /\ r.query = s.query /\ r.memory = s.memory
      /\ r.started = s.started /\ r.columns = s.columns /\ r.ran = s.ran
  BY <1>6 DEF IsTab, TabType
<1>9. IsTab(r)
  BY <1>5, <1>7, <1>8 DEF IsTab
<1>10. Added(s, r, e) /\ Len(r.entries) = s.pos + 1
  BY <1>4, <1>8 DEF Added
<1> QED BY <1>8, <1>9, <1>10 DEF SameDocument, SameStore, r, e

\* Another entry is shown, or another page.
LEMMA Turned ==
    ASSUME NEW s, IsTab(s), NEW p \in AppPages \cup {""}
    PROVE  LET r == [s EXCEPT !.page = p] IN
           /\ IsTab(r) /\ SameStore(s, r) /\ r.boot = s.boot /\ r.page = p
           /\ r.tool = s.tool /\ r.query = s.query /\ r.memory = s.memory
           /\ r.started = s.started /\ r.columns = s.columns /\ r.ran = s.ran
           /\ r.pos = s.pos /\ r.entries = s.entries
<1> DEFINE r == [s EXCEPT !.page = p]
<1>1. r \in TabType
  BY DEF IsTab, TabType
<1>2. /\ r.entries = s.entries /\ r.pos = s.pos /\ r.boot = s.boot /\ r.page = p
      /\ r.stored = s.stored /\ r.disk = s.disk /\ r.foreign = s.foreign
      /\ r.tool = s.tool /\ r.query = s.query /\ r.memory = s.memory
      /\ r.started = s.started /\ r.columns = s.columns /\ r.ran = s.ran
  BY DEF IsTab, TabType
<1> HIDE DEF r
<1>3. IsTab(r)
  BY <1>1, <1>2 DEF IsTab
<1> QED BY <1>2, <1>3 DEF SameStore, r

\* A document begins.
LEMMA Begun ==
    ASSUME NEW s, IsTab(s)
    PROVE  LET r == Fresh(s) IN
           /\ IsTab(r) /\ r.boot = "loading" /\ r.page = PageFromPath(s)
           /\ r.tool = NoTool /\ r.memory = [t \in ToolIds |-> Unset] /\ ~r.started
           /\ r.stored = s.disk /\ r.disk = s.disk /\ ~r.foreign
           /\ r.entries = s.entries /\ r.pos = s.pos
<1> DEFINE m == [t \in ToolIds |-> Unset]
           r == Fresh(s)
<1>1. m \in [ToolIds -> Queries \cup {Unset}] /\ DefaultColumns \in Lists
      /\ PageFromPath(s) \in AppPages \cup {""} /\ "*" \in Queries /\ NoTool \in ToolIds
      /\ NoRun \in [tool : ToolIds, query : Queries \cup {Unset}]
  BY DefaultTyped, HereTyped, ToolsTyped DEF NoRun
<1>2. r = [s EXCEPT !.boot = "loading", !.page = PageFromPath(s), !.tool = NoTool, !.query = "*",
                    !.memory = m, !.started = FALSE, !.columns = DefaultColumns, !.ran = NoRun,
                    !.stored = s.disk, !.foreign = FALSE]
  BY DEF Fresh
<1> HIDE DEF m, r
<1>3. r \in TabType
  BY <1>1, <1>2 DEF IsTab, TabType
<1>4. /\ r.boot = "loading" /\ r.page = PageFromPath(s) /\ r.tool = NoTool /\ r.memory = m
      /\ r.started = FALSE /\ r.stored = s.disk /\ r.disk = s.disk /\ r.foreign = FALSE
      /\ r.entries = s.entries /\ r.pos = s.pos
  BY <1>2 DEF IsTab, TabType
<1>5. IsTab(r)
  BY <1>3, <1>4 DEF IsTab
<1> QED BY <1>4, <1>5 DEF r, m

-----------------------------------------------------------------------------
(* The invariant.                                                          *)

\* Where the tab has been: the entries of a document that had its config name
\* a tool or a page.  An entry that names neither is alone in its document,
\* as entries are added only once the config has come.
Placed(s, n) ==
    /\ \A i \in DOMAIN s.entries : s.entries[i].doc \in 1..n
    /\ \A i, j \in DOMAIN s.entries :
            i # j /\ s.entries[i].doc = s.entries[j].doc => Proper(s.entries[i].path)

\* Path, page, tool and rows: before the config, and after it.
Settled(s) ==
    /\ s.page = PageFromPath(s)
    /\ s.boot # "ready" => ~s.started /\ s.tool = NoTool
    /\ s.boot = "ready" =>
            /\ Proper(Here(s).path) /\ Proper(s.tool)
            /\ s.page = "" => s.started /\ Here(s).path = s.tool
            /\ s.started => s.ran.tool = s.tool

\* With the config a tool's defaults are these.
Config == [boot |-> "ready"]
BoxOf(m, t) == IF m[t] # Unset THEN m[t] ELSE DefaultQueryFor(Config, t)
Forgotten == [t \in ToolIds |-> Unset]

\* What is remembered of the box of every tool but the open one is what its
\* reader left in it.
BoxesKept(s, lf) ==
    /\ s.boot # "ready" => s.memory = Forgotten /\ lf = Forgotten
    /\ s.boot = "ready" =>
            \A t \in ToolIds \ {NoTool, s.tool} : BoxOf(s.memory, t) = BoxOf(lf, t)
    /\ s.boot = "ready" /\ ~s.started =>
            s.memory = Forgotten /\ s.query = DefaultQueryFor(Config, s.tool)

Configured(t) == DefaultColumnsFor(Config, t)
Shown(c, t) == IF c \notin {None, <<>>} THEN WithMsgLast(c) ELSE Configured(t)
Made(ch, t) == IF ch[t] = None THEN Configured(t) ELSE ch[t]

\* What this document remembers of the columns is what was made of them, and
\* what is on the table is what is remembered, or will be.
Remembers(s, ch) ==
    \A t \in ToolIds :
        MsgLast(Configured(t)) /\ ch[t] # <<>> => Shown(s.stored[t], t) = Made(ch, t)
OnTable(s, ch) ==
    s.boot = "ready" /\ MsgLast(Configured(s.tool)) =>
        /\ MsgLast(s.columns)
        /\ ch[s.tool] # <<>> => s.columns = Made(ch, s.tool)
Columns(s, ch) ==
    /\ ~s.foreign => s.disk = s.stored
    /\ Remembers(s, ch)
    /\ OnTable(s, ch)

NavInv ==
    /\ TypeOK
    /\ ~hasty => /\ Placed(tab, loads) /\ Settled(tab)
                 /\ BoxesKept(tab, left) /\ Columns(tab, chosen)

-----------------------------------------------------------------------------
(* The history.                                                            *)

LEMMA ProperTool ==
    ASSUME NEW s, s.boot = "ready", NEW p, Proper(p), p \notin AppPages
    PROVE  ToolById(s, p) = p
<1>1. CASE p \in Offered
  BY <1>1, ToolFacts
<1>2. CASE Offered = {} /\ p = NoTool
  BY <1>2, ToolFacts
<1> QED BY <1>1, <1>2 DEF Proper

\* A tab that has written its address is placed, and at its tool.
LEMMA LandedIsPlaced ==
    ASSUME NEW s, IsTab(s), NEW r, IsTab(r), Landed(s, r), NEW n, Placed(s, n), Proper(r.tool)
    PROVE  Placed(r, n) /\ Here(r).path = r.tool /\ PageFromPath(r) = "" /\ r.tool \notin AppPages
<1>1. /\ s.entries \in Seq(EntryType) /\ s.pos \in 1..Len(s.entries) /\ Len(s.entries) \in Nat
  BY HereTyped
<1> DEFINE e == Entry(r.tool, r.query, Here(s).doc)
<1>2. r.pos = s.pos /\ r.entries = [s.entries EXCEPT ![s.pos] = e]
  BY DEF Landed
<1>3. e.path = r.tool /\ e.doc = s.entries[s.pos].doc
  BY DEF Entry, Here
<1> HIDE DEF e
<1>4. /\ DOMAIN r.entries = DOMAIN s.entries
      /\ r.entries[s.pos] = e
      /\ \A i \in DOMAIN s.entries : i # s.pos => r.entries[i] = s.entries[i]
  BY <1>1, <1>2
<1>5. \A i \in DOMAIN s.entries :
        /\ r.entries[i].doc = s.entries[i].doc
        /\ i # s.pos => r.entries[i].path = s.entries[i].path
        /\ i = s.pos => r.entries[i].path = r.tool
  BY <1>3, <1>4
<1>6. Placed(r, n)
  BY <1>4, <1>5 DEF Placed
<1>7. Here(r).path = r.tool
  BY <1>2, <1>3, <1>4 DEF Here
<1>8. r.tool \notin AppPages
  BY ToolsTyped DEF IsTab, TabType
<1> QED BY <1>6, <1>7, <1>8 DEF PageFromPath

\* So is one that has pushed an entry of its own document.
LEMMA PushedIsPlaced ==
    ASSUME NEW s, IsTab(s), NEW n, Placed(s, n), Proper(Here(s).path),
           NEW r, NEW path, Proper(path), NEW q, Added(s, r, Entry(path, q, Here(s).doc))
    PROVE  Placed(r, n) /\ Here(r).path = path
<1>0. /\ r.pos = s.pos + 1 /\ Len(r.entries) = s.pos + 1 /\ r.entries \in Seq(EntryType)
      /\ \A i \in 1..s.pos : r.entries[i] = s.entries[i]
      /\ r.entries[r.pos] = Entry(path, q, Here(s).doc)
  BY DEF Added
<1>1. /\ s.entries \in Seq(EntryType) /\ s.pos \in 1..Len(s.entries) /\ Len(s.entries) \in Nat
  BY HereTyped
<1>2. Here(r).path = path
  BY <1>0 DEF Here, Entry
<1>3. DOMAIN r.entries = 1..(s.pos + 1) /\ DOMAIN s.entries = 1..Len(s.entries)
  BY <1>0, <1>1
<1>4. r.entries[s.pos + 1].doc = s.entries[s.pos].doc /\ r.entries[s.pos + 1].path = path
  BY <1>0 DEF Here, Entry
<1>5. \A i \in 1..(s.pos + 1) : i \in 1..s.pos \/ i = s.pos + 1
  BY <1>1
<1>6. \A i \in 1..s.pos : i \in DOMAIN s.entries
  BY <1>1
<1>7. ASSUME NEW i \in DOMAIN r.entries PROVE r.entries[i].doc \in 1..n
  BY <1>0, <1>1, <1>3, <1>4, <1>5, <1>6 DEF Placed
<1>8. ASSUME NEW i \in DOMAIN r.entries, NEW j \in DOMAIN r.entries, i # j,
             r.entries[i].doc = r.entries[j].doc
      PROVE  Proper(r.entries[i].path)
  <2>1. CASE i = s.pos + 1
    BY <1>4, <2>1
  <2>2. CASE i \in 1..s.pos /\ j = s.pos + 1
    <3>1. r.entries[i] = s.entries[i] /\ s.entries[i].doc = s.entries[s.pos].doc
      BY <1>0, <1>4, <1>8, <2>2
    <3>2. CASE i = s.pos
      BY <3>1, <3>2 DEF Here
    <3>3. CASE i # s.pos
      <4>1. i \in DOMAIN s.entries /\ s.pos \in DOMAIN s.entries
        BY <1>1, <1>6, <2>2
      <4>2. Proper(s.entries[i].path)
        BY <3>1, <3>3, <4>1 DEF Placed
      <4> QED BY <3>1, <4>2
    <3> QED BY <3>2, <3>3
  <2>3. CASE i \in 1..s.pos /\ j \in 1..s.pos
    BY <1>0, <1>6, <1>8, <2>3 DEF Placed
  <2> QED BY <1>3, <1>5, <2>1, <2>2, <2>3
<1>9. Placed(r, n)
  BY <1>7, <1>8 DEF Placed
<1> QED BY <1>2, <1>9

\* And one that has pushed an entry of a new document.
LEMMA ArrivedIsPlaced ==
    ASSUME NEW s, IsTab(s), NEW n \in Nat, Placed(s, n),
           NEW r, NEW path, NEW q, Added(s, r, Entry(path, q, n + 1))
    PROVE  Placed(r, n + 1)
<1>0. /\ r.pos = s.pos + 1 /\ Len(r.entries) = s.pos + 1 /\ r.entries \in Seq(EntryType)
      /\ \A i \in 1..s.pos : r.entries[i] = s.entries[i]
      /\ r.entries[r.pos] = Entry(path, q, n + 1)
  BY DEF Added
<1>1. /\ s.entries \in Seq(EntryType) /\ s.pos \in 1..Len(s.entries) /\ Len(s.entries) \in Nat
  BY HereTyped
<1>2. DOMAIN r.entries = 1..(s.pos + 1) /\ \A i \in 1..s.pos : i \in DOMAIN s.entries
  BY <1>0, <1>1
<1>3. r.entries[s.pos + 1].doc = n + 1
  BY <1>0 DEF Entry
<1>4. \A i \in 1..(s.pos + 1) : i \in 1..s.pos \/ i = s.pos + 1
  BY <1>1
<1>5. \A i \in 1..s.pos : r.entries[i].doc \in 1..n
  BY <1>0, <1>2 DEF Placed
<1>6. \A i \in DOMAIN r.entries : r.entries[i].doc \in 1..(n + 1)
  BY <1>2, <1>3, <1>4, <1>5
<1>7. ASSUME NEW i \in DOMAIN r.entries, NEW j \in DOMAIN r.entries, i # j,
             r.entries[i].doc = r.entries[j].doc
      PROVE  Proper(r.entries[i].path)
  <2>1. ~(n + 1 \in 1..n)
    OBVIOUS
  <2>2. i \in 1..s.pos /\ j \in 1..s.pos
    BY <1>2, <1>3, <1>4, <1>5, <1>7, <2>1
  <2> QED BY <1>0, <1>2, <1>7, <2>2 DEF Placed
<1> QED BY <1>6, <1>7 DEF Placed

-----------------------------------------------------------------------------
(* What every step keeps, hasty or not: types, and the screen across a     *)
(* look at a page.                                                         *)

SameScreen(s, r) ==
    /\ r.tool = s.tool /\ r.query = s.query /\ r.memory = s.memory
    /\ r.columns = s.columns /\ r.ran = s.ran
Detour(s, r) == s.started /\ r.page # s.page /\ r.tool = s.tool => SameScreen(s, r)

\* A step within a document from s to r, with an entry at the most added.
Stays(s, r) ==
    /\ IsTab(r) /\ r.boot = s.boot /\ Detour(s, r)
    /\ Len(r.entries) <= Len(s.entries)
Goes(s, r) ==
    /\ IsTab(r) /\ r.boot = s.boot /\ Detour(s, r)
    /\ Len(r.entries) <= s.pos + 1

LEMMA LandedLength ==
    ASSUME NEW s, IsTab(s), NEW r, Landed(s, r)
    PROVE  Len(r.entries) = Len(s.entries)
<1> DEFINE e == Entry(r.tool, r.query, Here(s).doc)
<1>1. r.entries = [s.entries EXCEPT ![s.pos] = e] /\ s.entries \in Seq(EntryType)
  BY HereTyped DEF Landed
<1> HIDE DEF e
<1> QED BY <1>1

\* Whoever changes tools is not on a detour.
LEMMA SwitchStays ==
    ASSUME NEW s, IsTab(s), NEW id \in ToolIds, id # s.tool
    PROVE  Stays(s, SwitchTool(s, id)) /\ SwitchTool(s, id).tool = id
<1> DEFINE r == SwitchTool(s, id)
<1>0. SwitchedTo(s, id, r)
  BY Switched
<1> HIDE DEF r
<1>1. IsTab(r) /\ Landed(s, r) /\ SameDocument(s, r) /\ r.tool = id
  BY <1>0 DEF SwitchedTo
<1>2. Len(r.entries) = Len(s.entries) /\ Len(s.entries) \in Nat
  BY <1>1, LandedLength, HereTyped
<1>3. Stays(s, r)
  BY <1>1, <1>2 DEF Stays, Detour, SameDocument
<1> QED BY <1>1, <1>3 DEF r

LEMMA StartStays ==
    ASSUME NEW s, IsTab(s), ~s.started
    PROVE  Stays(s, StartWorkspace(s))
<1> DEFINE r == StartWorkspace(s)
<1>1. IsTab(r) /\ Landed(s, r) /\ SameDocument(s, r)
  BY Started
<1> HIDE DEF r
<1>2. Len(r.entries) = Len(s.entries) /\ Len(s.entries) \in Nat
  BY <1>1, LandedLength, HereTyped
<1>3. Stays(s, r)
  BY <1>1, <1>2 DEF Stays, Detour, SameDocument
<1> QED BY <1>3 DEF r

\* A page is turned before a step that starts the workspace or changes tools.
LEMMA TurnedStays ==
    ASSUME NEW s, NEW t, NEW r, Stays(t, r), t.boot = s.boot, t.tool = s.tool,
           t.started = s.started, ~s.started \/ r.tool # s.tool
    PROVE  IsTab(r) /\ r.boot = s.boot /\ Detour(s, r) /\ Len(r.entries) <= Len(t.entries)
BY DEF Stays, Detour

\* onPopState, wherever the tab has moved.
LEMMA PopStays ==
    ASSUME NEW s, IsTab(s)
    PROVE  Stays(s, OnPopState(s))
<1> DEFINE t == [s EXCEPT !.page = PageFromPath(s)]
           wanted == ToolFromPath(s)
           r == OnPopState(s)
<1>1. PageFromPath(s) \in AppPages \cup {""} /\ Len(s.entries) \in Nat
      /\ Here(s).path \in Paths
  BY HereTyped DEF EntryType
<1>2. /\ IsTab(t) /\ t.boot = s.boot /\ t.page = PageFromPath(s)
      /\ t.tool = s.tool /\ t.query = s.query /\ t.memory = s.memory
      /\ t.started = s.started /\ t.columns = s.columns /\ t.ran = s.ran
      /\ t.pos = s.pos /\ t.entries = s.entries
  BY <1>1, Turned
<1>3. r = IF t.page # "" THEN t
          ELSE IF ~t.started THEN StartWorkspace(t)
          ELSE IF wanted \notin {NoTool, t.tool} THEN SelectTool(t, wanted) ELSE t
  BY Zenon DEF OnPopState
<1> HIDE DEF t, r
<1>4. Stays(s, t)
  <2>1. Len(t.entries) <= Len(s.entries)
    <3>1. t.entries = s.entries
      BY <1>2
    <3>2. \A n \in Nat : n <= n
      OBVIOUS
    <3> QED BY <1>1, <3>1, <3>2, Zenon
  <2>2. SameScreen(s, t)
    BY <1>2 DEF SameScreen
  <2> QED BY <1>2, <2>1, <2>2 DEF Stays, Detour
<1>5. CASE t.page = "" /\ ~t.started
  <2>1. r = StartWorkspace(t) /\ Stays(t, r)
    BY <1>2, <1>3, <1>5, StartStays
  <2> QED BY <1>2, <1>5, <2>1, TurnedStays DEF Stays, r
<1>6. CASE t.page = "" /\ t.started /\ wanted \notin {NoTool, t.tool}
  <2>1. r = SwitchTool(t, wanted)
    BY <1>3, <1>6 DEF SelectTool
  <2>2. wanted \in ToolIds
    BY <1>1, <1>2, <1>6 DEF PageFromPath, ToolFromPath, Paths, AppPages
  <2>3. Stays(t, r) /\ r.tool = wanted
    BY <1>2, <1>6, <2>1, <2>2, SwitchStays
  <2> QED BY <1>2, <1>6, <2>3, TurnedStays DEF Stays, r
<1>7. CASE r = t
  BY <1>4, <1>7 DEF r
<1> QED BY <1>3, <1>5, <1>6, <1>7

\* selectTool, from a page or from the logs.
LEMMA PickGoes ==
    ASSUME NEW s, IsTab(s), NEW id \in Offered
    PROVE  /\ s.page # "" => Goes(s, SelectTool(s, id))
           /\ s.page = "" => Stays(s, SelectTool(s, id))
<1> DEFINE t == [s EXCEPT !.page = ""]
           o == Push(t, id, "", Here(s).doc)
           r == SelectTool(s, id)
<1>0. id \in ToolIds /\ id \in Paths /\ "" \in Queries
  BY ToolsTyped
<1>1. CASE s.page = ""
  <2>1. r = IF id = s.tool THEN s ELSE SwitchTool(s, id)
    BY <1>1 DEF SelectTool
  <2> HIDE DEF r
  <2>2. CASE id = s.tool
    <3>1. r = s /\ Len(s.entries) \in Nat
      BY <2>1, <2>2, HereTyped
    <3>2. Stays(s, r)
      BY <3>1 DEF Stays, Detour
    <3> QED BY <1>1, <3>2 DEF r
  <2>3. CASE id # s.tool
    BY <1>0, <1>1, <2>1, <2>3, SwitchStays DEF r
  <2> QED BY <2>2, <2>3
<1>2. CASE s.page # ""
  <2>1. Here(s).doc \in 1..MaxLoads /\ s.pos \in Nat
    BY HereTyped DEF EntryType
  <2>2. /\ IsTab(t) /\ t.boot = s.boot /\ t.page = ""
        /\ t.tool = s.tool /\ t.query = s.query /\ t.memory = s.memory
        /\ t.started = s.started /\ t.columns = s.columns /\ t.ran = s.ran /\ t.pos = s.pos
    <3>1. "" \in AppPages \cup {""}
      OBVIOUS
    <3>2. \A p \in AppPages \cup {""} :
            LET u == [s EXCEPT !.page = p] IN
            /\ IsTab(u) /\ u.boot = s.boot /\ u.page = p
            /\ u.tool = s.tool /\ u.query = s.query /\ u.memory = s.memory
            /\ u.started = s.started /\ u.columns = s.columns /\ u.ran = s.ran /\ u.pos = s.pos
      BY Turned
    <3> QED BY <3>1, <3>2
  <2>3. r = IF ~s.started THEN StartWorkspace(o)
            ELSE IF id = s.tool THEN WriteURL(o) ELSE SwitchTool(o, id)
    BY <1>2, Zenon DEF SelectTool
  <2> HIDE DEF t, r
  <2>4. /\ IsTab(o) /\ SameDocument(t, o)
        /\ o.tool = t.tool /\ o.query = t.query /\ o.memory = t.memory
        /\ o.started = t.started /\ o.columns = t.columns /\ o.ran = t.ran
        /\ Len(o.entries) = t.pos + 1
    BY <1>0, <2>1, <2>2, Pushed
  <2> HIDE DEF o
  <2>5. CASE ~s.started
    <3>1. r = StartWorkspace(o) /\ Stays(o, r)
      BY <2>2, <2>3, <2>4, <2>5, StartStays
    <3> QED BY <1>2, <2>2, <2>4, <2>5, <3>1, TurnedStays DEF Goes, r, SameDocument
  <2>6. CASE s.started /\ id = s.tool
    <3>1. r = WriteURL(o)
      BY <2>3, <2>6
    <3>2. /\ IsTab(r) /\ Landed(o, r) /\ SameDocument(o, r)
          /\ r.tool = o.tool /\ r.query = o.query /\ r.memory = o.memory
          /\ r.started = o.started /\ r.columns = o.columns /\ r.ran = o.ran
      BY <2>4, <3>1, Wrote
    <3>3. Len(r.entries) = s.pos + 1
      BY <2>2, <2>4, <3>2, LandedLength
    <3>4. SameScreen(s, r) /\ r.boot = s.boot
      BY <2>2, <2>4, <3>2 DEF SameScreen, SameDocument
    <3>5. Goes(s, r)
      BY <2>1, <3>2, <3>3, <3>4 DEF Goes, Detour
    <3> QED BY <1>2, <3>5 DEF r
  <2>7. CASE s.started /\ id # s.tool
    <3>1. r = SwitchTool(o, id)
      BY <2>3, <2>7
    <3>2. Stays(o, r) /\ r.tool = id
      BY <1>0, <2>2, <2>4, <2>7, <3>1, SwitchStays
    <3> QED BY <1>2, <2>2, <2>4, <2>7, <3>2, TurnedStays DEF Goes, r, SameDocument
  <2> QED BY <2>5, <2>6, <2>7
<1> QED BY <1>1, <1>2

-----------------------------------------------------------------------------
(* Types.                                                                  *)

\* The tab of the initial state, and of nothing else, has no past.
LEMMA FirstTabTyped ==
    ASSUME NEW link \in Links
    PROVE  LET b == [boot |-> "loading", page |-> "", tool |-> NoTool, query |-> "*",
                     memory |-> [t \in ToolIds |-> Unset], started |-> FALSE,
                     columns |-> DefaultColumns, ran |-> NoRun,
                     stored |-> [t \in ToolIds |-> None],
                     disk |-> [t \in ToolIds |-> None], foreign |-> FALSE,
                     entries |-> << Entry(link[1], link[2], 1) >>, pos |-> 1]
           IN /\ IsTab(b) /\ b.pos = 1 /\ Len(b.entries) = 1
              /\ b.entries[1] = Entry(link[1], link[2], 1)
              /\ b.disk = [t \in ToolIds |-> None]
<1> DEFINE m == [t \in ToolIds |-> Unset]
           n == [t \in ToolIds |-> None]
           e == Entry(link[1], link[2], 1)
           es == << e >>
           b == [boot |-> "loading", page |-> "", tool |-> NoTool, query |-> "*",
                 memory |-> m, started |-> FALSE, columns |-> DefaultColumns, ran |-> NoRun,
                 stored |-> n, disk |-> n, foreign |-> FALSE, entries |-> es, pos |-> 1]
<1>1. m \in [ToolIds -> Queries \cup {Unset}] /\ n \in [ToolIds -> Lists \cup {None}]
  OBVIOUS
<1>2. DefaultColumns \in Lists /\ NoTool \in ToolIds /\ "*" \in Queries
      /\ NoRun \in [tool : ToolIds, query : Queries \cup {Unset}]
  BY DefaultTyped, ToolsTyped DEF NoRun
<1>3. link[1] \in Paths /\ link[2] \in Queries
  BY ReaderAssumption
<1>4. e \in EntryType
  BY <1>3, BoundsAssumption DEF Entry, EntryType
<1>5. es \in Seq(EntryType) /\ Len(es) = 1 /\ es[1] = e /\ 1 \in DOMAIN es
  <2> HIDE DEF e
  <2> QED BY <1>4
<1>6. IsTab(b) /\ b.pos = 1 /\ Len(b.entries) = 1 /\ b.entries[1] = e /\ b.disk = n
  <2> HIDE DEF m, n, e, es
  <2> QED BY <1>1, <1>2, <1>5 DEF IsTab, TabType
<1> QED BY <1>6, Zenon

LEMMA ShowTyped ==
    ASSUME TypeOK, NEW s, Show(s)
    PROVE  tab' = s /\ left' \in [ToolIds -> Queries \cup {Unset}]
<1>1. tab.tool \in ToolIds /\ tab.query \in Queries
  BY DEF TypeOK, TabType
<1> QED BY <1>1 DEF Show, TypeOK

LEMMA LoadTyped ==
    ASSUME TypeOK, NEW s, IsTab(s), LoadDocument(s), Len(s.entries) <= MaxEntries
    PROVE  /\ IsTab(tab') /\ Len(tab'.entries) <= MaxEntries /\ hasty' \in BOOLEAN
           /\ left' \in [ToolIds -> Queries \cup {Unset}]
           /\ chosen' \in [ToolIds -> Lists \cup {None}]
           /\ tab'.boot = "loading"
<1>1. /\ tab' = Fresh(s) /\ hasty' = hasty /\ left' = [t \in ToolIds |-> Unset]
      /\ chosen' = IF s.foreign
                   THEN [t \in ToolIds |-> IF s.disk[t] = None THEN None ELSE WithMsgLast(s.disk[t])]
                   ELSE chosen
  BY DEF LoadDocument
<1>2. IsTab(tab') /\ tab'.entries = s.entries /\ tab'.boot = "loading"
  BY <1>1, Begun
<1>3. \A t \in ToolIds : s.disk[t] # None => WithMsgLast(s.disk[t]) \in Lists
  BY MsgIsLast DEF IsTab, TabType, Lists
<1>4. chosen' \in [ToolIds -> Lists \cup {None}]
  BY <1>1, <1>3 DEF TypeOK
<1> QED BY <1>1, <1>2, <1>4 DEF TypeOK

\* A fragment or a Back: the tab has moved, and onPopState follows.
LEMMA PopTyped ==
    ASSUME TypeOK, NEW s, IsTab(s), Len(s.entries) <= MaxEntries, PopState(s),
           s.boot = tab.boot, s.started = tab.started, s.page = tab.page, SameScreen(tab, s)
    PROVE  /\ IsTab(tab') /\ Len(tab'.entries) <= MaxEntries /\ hasty' \in BOOLEAN
           /\ left' \in [ToolIds -> Queries \cup {Unset}]
           /\ UNCHANGED <<loads, chosen>>
           /\ Detour(tab, tab')
<1>1. tab' = OnPopState(s) /\ UNCHANGED <<loads, chosen>> /\ hasty' \in BOOLEAN
  BY DEF PopState, Show, TypeOK
<1>2. left' \in [ToolIds -> Queries \cup {Unset}]
  <2>1. CASE tab.boot = "ready"
    BY <2>1, ShowTyped DEF PopState
  <2>2. CASE tab.boot # "ready"
    BY <2>2 DEF PopState, TypeOK
  <2> QED BY <2>1, <2>2
<1>3. Stays(s, tab')
  BY <1>1, PopStays
<1>4. Len(tab'.entries) <= MaxEntries
  <2>1. Len(tab'.entries) \in Nat /\ Len(s.entries) \in Nat /\ MaxEntries \in Nat
    BY <1>3, HereTyped, BoundsAssumption DEF Stays
  <2> QED BY <1>3, <2>1 DEF Stays
<1>5. Detour(tab, tab')
  BY <1>3 DEF Stays, Detour, SameScreen
<1> QED BY <1>1, <1>2, <1>3, <1>4, <1>5 DEF Stays

\* Every step keeps the types, and a look at a page keeps the screen.
LEMMA StepTyped ==
    ASSUME TypeOK, Next
    PROVE  TypeOK' /\ (tab.boot = "ready" /\ tab'.boot = "ready" => Detour(tab, tab'))
<1> DEFINE Good == tab.boot = "ready" /\ tab'.boot = "ready" => Detour(tab, tab')
<1>1. IsTab(tab) /\ Len(tab.entries) \in Nat /\ Len(tab.entries) <= MaxEntries
      /\ tab.pos \in Nat /\ tab.pos \in 1..Len(tab.entries) /\ MaxEntries \in Nat
      /\ tab.tool \in ToolIds /\ tab.query \in Queries /\ Here(tab).doc \in 1..MaxLoads
      /\ Here(tab).path \in Paths
  <2>1. IsTab(tab) /\ tab.tool \in ToolIds /\ tab.query \in Queries
        /\ Len(tab.entries) <= MaxEntries
    BY DEF TypeOK, IsTab, TabType
  <2>2. /\ Len(tab.entries) \in Nat /\ tab.pos \in 1..Len(tab.entries)
        /\ Here(tab).doc \in 1..MaxLoads /\ Here(tab).path \in Paths
    BY <2>1, HereTyped DEF EntryType
  <2> QED BY <2>1, <2>2, BoundsAssumption
<1>2. loads \in 1..MaxLoads /\ hasty \in BOOLEAN
      /\ left \in [ToolIds -> Queries \cup {Unset}] /\ chosen \in [ToolIds -> Lists \cup {None}]
  BY DEF TypeOK
<1>3. SUFFICES /\ IsTab(tab') /\ Len(tab'.entries) <= MaxEntries
               /\ loads' \in 1..MaxLoads /\ hasty' \in BOOLEAN
               /\ left' \in [ToolIds -> Queries \cup {Unset}]
               /\ chosen' \in [ToolIds -> Lists \cup {None}]
               /\ Good
  BY DEF TypeOK, IsTab
\* A step that leaves the page alone, and the length of the history.
<1>4. ASSUME NEW s, IsTab(s), Len(s.entries) = Len(tab.entries), Show(s), s.page = tab.page,
             UNCHANGED <<loads, hasty>>, chosen' \in [ToolIds -> Lists \cup {None}]
      PROVE  /\ IsTab(tab') /\ Len(tab'.entries) <= MaxEntries
             /\ loads' \in 1..MaxLoads /\ hasty' \in BOOLEAN
             /\ left' \in [ToolIds -> Queries \cup {Unset}]
             /\ chosen' \in [ToolIds -> Lists \cup {None}]
             /\ Good
  <2>1. tab' = s /\ left' \in [ToolIds -> Queries \cup {Unset}]
    BY <1>4, ShowTyped
  <2> QED BY <1>1, <1>2, <1>4, <2>1 DEF Detour
\* What the reader does to the screen is a tab.
<1>5. ASSUME NEW q \in Queries
      PROVE  LET t == [tab EXCEPT !.query = q] IN
             IsTab(t) /\ t.page = tab.page /\ t.entries = tab.entries
  BY <1>1 DEF IsTab, TabType
<1>6. ASSUME NEW c \in Lists
      PROVE  LET t == [tab EXCEPT !.columns = c] IN
             /\ IsTab(t) /\ t.page = tab.page /\ t.entries = tab.entries /\ t.tool = tab.tool
             /\ t.boot = tab.boot
  BY <1>1 DEF IsTab, TabType
<1>7. ASSUME NEW s, IsTab(s), s.entries = tab.entries, s.page = tab.page
      PROVE  LET r == Run(s) IN
             IsTab(r) /\ Len(r.entries) = Len(tab.entries) /\ r.page = tab.page
  <2> DEFINE r == Run(s)
  <2>1. IsTab(r) /\ Landed(s, r) /\ SameDocument(s, r)
    BY <1>7, Ran
  <2> HIDE DEF r
  <2>2. Len(r.entries) = Len(tab.entries)
    BY <1>7, <2>1, LandedLength
  <2> QED BY <1>7, <2>1, <2>2 DEF SameDocument, r
<1>8. CASE ConfigComes
  <2> DEFINE came == [tab EXCEPT !.boot = "ready"]
             first == ToolById(came, NoTool)
             qy == DefaultQueryFor(came, first)
             cl == ColumnsFor(came, first)
             s == [came EXCEPT !.tool = first, !.query = qy, !.columns = cl]
  <2>1. tab' = (IF s.page # "" THEN s ELSE StartWorkspace(s)) /\ tab.boot = "loading"
        /\ UNCHANGED <<loads, hasty, left, chosen>>
    BY <1>8 DEF ConfigComes
  <2>2. IsTab(came) /\ came.entries = tab.entries
    BY <1>1 DEF IsTab, TabType
  <2>3. first \in ToolIds /\ qy \in Queries
    BY ToolFacts
  <2>4. cl \in Lists
    BY <2>2, <2>3, ColumnsTyped
  <2> HIDE DEF came, first, qy, cl
  <2>5. IsTab(s) /\ s.entries = tab.entries
    BY <2>2, <2>3, <2>4 DEF IsTab, TabType
  <2> HIDE DEF s
  <2>6. CASE s.page # ""
    BY <1>1, <1>2, <2>1, <2>5, <2>6
  <2>7. CASE s.page = ""
    <3>1. tab' = StartWorkspace(s)
      BY <2>1, <2>7
    <3>2. IsTab(tab') /\ Landed(s, tab')
      BY <2>5, <3>1, Started
    <3>3. Len(tab'.entries) = Len(tab.entries)
      BY <2>5, <3>2, LandedLength
    <3> QED BY <1>1, <1>2, <2>1, <3>2, <3>3
  <2> QED BY <2>6, <2>7
<1>9. CASE ConfigFails
  <2>1. tab' = [tab EXCEPT !.boot = "failed"] /\ tab.boot = "loading"
        /\ UNCHANGED <<loads, hasty, left, chosen>>
    BY <1>9 DEF ConfigFails
  <2>2. IsTab(tab') /\ tab'.entries = tab.entries
    BY <1>1, <2>1 DEF IsTab, TabType
  <2> QED BY <1>1, <1>2, <2>1, <2>2
<1>10. ASSUME NEW q \in Typed \cup {""}, TypeQuery(q) PROVE TypeOK' /\ Good
  <2>1. q \in Queries
    BY DEF Queries
  <2>2. Show([tab EXCEPT !.query = q]) /\ UNCHANGED <<loads, hasty, chosen>>
    BY <1>10 DEF TypeQuery
  <2> QED BY <1>2, <1>4, <1>5, <2>1, <2>2 DEF TypeOK, IsTab
<1>11. CASE RunIt
  BY <1>1, <1>2, <1>4, <1>7, <1>11 DEF RunIt
<1>12. ASSUME NEW q \in Typed, AddFilter(q) PROVE TypeOK' /\ Good
  <2>1. q \in Queries
    BY DEF Queries
  <2>2. Show(Run([tab EXCEPT !.query = q])) /\ UNCHANGED <<loads, hasty, chosen>>
    BY <1>12 DEF AddFilter
  <2>3. LET r == Run([tab EXCEPT !.query = q]) IN
        IsTab(r) /\ Len(r.entries) = Len(tab.entries) /\ r.page = tab.page
    BY <1>5, <1>7, <2>1
  <2> QED BY <1>2, <1>4, <2>2, <2>3 DEF TypeOK, IsTab
<1>13. ASSUME NEW f \in Toggled, ToggleColumn(f) PROVE TypeOK' /\ Good
  <2> DEFINE c == ToggledColumns(tab.columns, f)
             t == [tab EXCEPT !.columns = c]
             r == RememberColumns(t)
  <2>1. /\ Show(r) /\ UNCHANGED <<loads, hasty>>
        /\ chosen' = [chosen EXCEPT ![tab.tool] =
                        IF c = DefaultColumnsFor(tab, tab.tool) THEN None ELSE c]
    BY <1>13 DEF ToggleColumn
  <2>2. c \in Lists
    <3>1. tab.columns \in Seq(Names)
      BY <1>1 DEF IsTab, TabType, Lists
    <3> QED BY <3>1, ToggleKeepsMsgLast DEF Lists
  <2>3. chosen' \in [ToolIds -> Lists \cup {None}]
    <3> HIDE DEF c
    <3> QED BY <1>2, <2>1, <2>2
  <2>4. IsTab(t) /\ t.page = tab.page /\ t.entries = tab.entries
    BY <1>6, <2>2
  <2> HIDE DEF c, t
  <2>5. IsTab(r) /\ r.page = tab.page /\ r.entries = tab.entries
    BY <2>4, Remembered DEF SameDocument
  <2> HIDE DEF r
  <2> QED BY <1>4, <2>1, <2>3, <2>5 DEF TypeOK, IsTab
<1>14. CASE ResetColumns
  <2> DEFINE st == [tab.stored EXCEPT ![tab.tool] = None]
             c == DefaultColumnsFor(tab, tab.tool)
             r == [tab EXCEPT !.stored = st, !.disk = st, !.foreign = FALSE, !.columns = c]
             b == [tab EXCEPT !.stored[tab.tool] = None, !.columns = c]
  <2>1. Show(PersistColumns(b)) /\ UNCHANGED <<loads, hasty>>
        /\ chosen' = [chosen EXCEPT ![tab.tool] = None]
    BY <1>14 DEF ResetColumns
  <2>2. PersistColumns(b) = r
    BY <1>1 DEF PersistColumns, IsTab, TabType
  <2>3. c \in Lists /\ st \in [ToolIds -> Lists \cup {None}]
    BY <1>1, ToolFacts DEF IsTab, TabType
  <2>4. chosen' \in [ToolIds -> Lists \cup {None}]
    BY <1>2, <2>1
  <2> HIDE DEF st, c
  <2>5. IsTab(r) /\ r.page = tab.page /\ r.entries = tab.entries
    BY <1>1, <2>3 DEF IsTab, TabType
  <2> QED BY <1>4, <2>1, <2>2, <2>4, <2>5
<1>15. ASSUME NEW id \in Offered, PickTool(id) PROVE TypeOK' /\ Good
  <2>1. /\ tab.page # "" => tab.pos < MaxEntries
        /\ Show(SelectTool(tab, id)) /\ UNCHANGED <<loads, hasty, chosen>>
    BY <1>15 DEF PickTool
  <2>2. tab' = SelectTool(tab, id) /\ left' \in [ToolIds -> Queries \cup {Unset}]
    BY <2>1, ShowTyped
  <2>3. /\ tab.page # "" => Goes(tab, tab')
        /\ tab.page = "" => Stays(tab, tab')
    BY <1>1, <2>2, PickGoes
  <2>4. IsTab(tab') /\ Detour(tab, tab') /\ Len(tab'.entries) \in Nat
    BY <2>3, HereTyped DEF Goes, Stays
  <2>5. Len(tab'.entries) <= MaxEntries
    <3>0. /\ MaxEntries \in Nat /\ Len(tab'.entries) \in Nat /\ Len(tab.entries) \in Nat
          /\ Len(tab.entries) <= MaxEntries /\ tab.pos \in Nat
      BY <1>1, <2>4
    <3>1. CASE tab.page = ""
      <4>1. Len(tab'.entries) <= Len(tab.entries)
        BY <2>3, <3>1 DEF Stays
      <4> QED BY <3>0, <4>1
    <3>2. CASE tab.page # ""
      <4>1. Len(tab'.entries) <= tab.pos + 1 /\ tab.pos < MaxEntries
        BY <2>1, <2>3, <3>2 DEF Goes
      <4> QED BY <3>0, <4>1
    <3> QED BY <3>1, <3>2
  <2> QED BY <1>2, <2>1, <2>2, <2>4, <2>5 DEF TypeOK, IsTab
<1>16. CASE OpenStatus
  <2> DEFINE o == Push(tab, "status", "", Here(tab).doc)
             r == [o EXCEPT !.page = "status"]
  <2>1. Show(r) /\ tab.pos < MaxEntries /\ UNCHANGED <<loads, hasty, chosen>>
    BY <1>16 DEF OpenStatus
  <2>2. tab' = r /\ left' \in [ToolIds -> Queries \cup {Unset}]
    BY <2>1, ShowTyped
  <2>3. "status" \in Paths /\ "" \in Queries /\ "status" \in AppPages \cup {""}
    BY ToolsTyped DEF Paths, AppPages
  <2>4. /\ IsTab(o) /\ Len(o.entries) = tab.pos + 1
        /\ o.tool = tab.tool /\ o.query = tab.query /\ o.memory = tab.memory
        /\ o.started = tab.started /\ o.columns = tab.columns /\ o.ran = tab.ran
    <3>1. IsTab(tab) /\ "status" \in Paths /\ "" \in Queries /\ Here(tab).doc \in 1..MaxLoads
      BY <1>1, <2>3
    <3> HIDE DEF r
    <3> QED BY <3>1, Pushed
  <2> HIDE DEF o
  <2>5. /\ IsTab(r) /\ r.entries = o.entries
        /\ r.tool = o.tool /\ r.query = o.query /\ r.memory = o.memory
        /\ r.columns = o.columns /\ r.ran = o.ran
    BY <2>3, <2>4, Turned
  <2> HIDE DEF r
  <2>6. Detour(tab, r)
    BY <2>4, <2>5 DEF Detour, SameScreen
  <2>7. Len(r.entries) <= MaxEntries
    BY <1>1, <2>1, <2>4, <2>5
  <2> QED BY <1>2, <2>1, <2>2, <2>5, <2>6, <2>7
<1>17. CASE Traverse
  <2>1. PICK to \in {tab.pos - 1, tab.pos + 1} \cap DOMAIN tab.entries :
            LET s == [tab EXCEPT !.pos = to]
            IN IF Here(s).doc = Here(tab).doc THEN PopState(s) ELSE LoadDocument(s) /\ UNCHANGED loads
    BY <1>17 DEF Traverse
  <2> DEFINE s == [tab EXCEPT !.pos = to]
  <2>2. /\ IsTab(s) /\ s.entries = tab.entries /\ s.boot = tab.boot /\ s.started = tab.started
        /\ s.page = tab.page /\ SameScreen(tab, s)
    <3>1. to \in Nat
      <4>1. tab.entries \in Seq(EntryType)
        BY <1>1, HereTyped
      <4>2. to \in 1..Len(tab.entries)
        BY <4>1, LenProperties
      <4> QED BY <1>1, <4>2
    <3> QED BY <1>1, <3>1 DEF IsTab, TabType, SameScreen
  <2>3. PopState(s) \/ (LoadDocument(s) /\ UNCHANGED loads)
    BY <2>1
  <2> HIDE DEF s
  <2>4. CASE PopState(s)
    <3>1. /\ IsTab(tab') /\ Len(tab'.entries) <= MaxEntries /\ hasty' \in BOOLEAN
          /\ left' \in [ToolIds -> Queries \cup {Unset}]
          /\ UNCHANGED <<loads, chosen>>
          /\ Detour(tab, tab')
      BY <1>1, <2>2, <2>4, PopTyped
    <3> QED BY <1>2, <3>1
  <2>5. CASE LoadDocument(s) /\ UNCHANGED loads
    <3>1. /\ IsTab(tab') /\ Len(tab'.entries) <= MaxEntries /\ hasty' \in BOOLEAN
          /\ left' \in [ToolIds -> Queries \cup {Unset}]
          /\ chosen' \in [ToolIds -> Lists \cup {None}]
          /\ tab'.boot = "loading"
      BY <1>1, <2>2, <2>5, LoadTyped
    <3> QED BY <1>2, <2>5, <3>1
  <2> QED BY <2>3, <2>4, <2>5
<1>18. ASSUME NEW q \in Typed, EditFragment(q) PROVE TypeOK' /\ Good
  <2> DEFINE s == Push(tab, Here(tab).path, q, Here(tab).doc)
  <2>1. PopState(s) /\ tab.pos < MaxEntries
    BY <1>18 DEF EditFragment
  <2>2. q \in Queries
    BY DEF Queries
  <2>3. /\ IsTab(s) /\ Len(s.entries) = tab.pos + 1 /\ s.boot = tab.boot /\ s.started = tab.started
        /\ s.page = tab.page /\ SameScreen(tab, s)
    BY <1>1, <2>2, Pushed DEF SameDocument, SameScreen
  <2> HIDE DEF s
  <2>4. Len(s.entries) <= MaxEntries
    BY <1>1, <2>1, <2>3
  <2>5. /\ IsTab(tab') /\ Len(tab'.entries) <= MaxEntries /\ hasty' \in BOOLEAN
        /\ left' \in [ToolIds -> Queries \cup {Unset}]
        /\ UNCHANGED <<loads, chosen>>
        /\ Detour(tab, tab')
    BY <2>1, <2>3, <2>4, PopTyped
  <2> QED BY <1>2, <2>5 DEF TypeOK, IsTab
<1>19. CASE Reload
  <2>1. LoadDocument(tab) /\ UNCHANGED loads
    BY <1>19 DEF Reload
  <2>2. /\ IsTab(tab') /\ Len(tab'.entries) <= MaxEntries /\ hasty' \in BOOLEAN
        /\ left' \in [ToolIds -> Queries \cup {Unset}]
        /\ chosen' \in [ToolIds -> Lists \cup {None}]
        /\ tab'.boot = "loading"
    BY <1>1, <2>1, LoadTyped
  <2> QED BY <1>2, <2>1, <2>2
<1>20. ASSUME NEW m \in OtherMaps, OtherTab(m) PROVE TypeOK' /\ Good
  <2>1. tab' = [tab EXCEPT !.disk = m, !.foreign = TRUE] /\ UNCHANGED <<loads, hasty, left, chosen>>
    BY <1>20 DEF OtherTab
  <2>2. m \in [ToolIds -> Lists \cup {None}]
    BY ReaderAssumption
  <2>3. IsTab(tab') /\ tab'.entries = tab.entries /\ tab'.page = tab.page
    BY <1>1, <2>1, <2>2 DEF IsTab, TabType
  <2> QED BY <1>1, <1>2, <2>1, <2>3 DEF TypeOK, IsTab, Detour
<1>21. ASSUME NEW link \in Links, Arrive(link[1], link[2]) PROVE TypeOK' /\ Good
  <2> DEFINE s == Push(tab, link[1], link[2], loads + 1)
  <2>1. LoadDocument(s) /\ loads < MaxLoads /\ tab.pos < MaxEntries /\ loads' = loads + 1
    BY <1>21 DEF Arrive
  <2>2. link[1] \in Paths /\ link[2] \in Queries
    BY ReaderAssumption
  <2>3. loads + 1 \in 1..MaxLoads
    BY <1>2, <2>1, BoundsAssumption
  <2>4. IsTab(s) /\ Len(s.entries) = tab.pos + 1
    BY <1>1, <2>2, <2>3, Pushed
  <2> HIDE DEF s
  <2>5. Len(s.entries) <= MaxEntries
    BY <1>1, <2>1, <2>4
  <2>6. /\ IsTab(tab') /\ Len(tab'.entries) <= MaxEntries /\ hasty' \in BOOLEAN
        /\ left' \in [ToolIds -> Queries \cup {Unset}]
        /\ chosen' \in [ToolIds -> Lists \cup {None}]
        /\ tab'.boot = "loading"
    BY <2>1, <2>4, <2>5, LoadTyped
  <2> QED BY <2>1, <2>3, <2>6 DEF TypeOK, IsTab
<1> QED
  <2>1. TypeOK' => IsTab(tab') /\ Len(tab'.entries) <= MaxEntries
                   /\ loads' \in 1..MaxLoads /\ hasty' \in BOOLEAN
                   /\ left' \in [ToolIds -> Queries \cup {Unset}]
                   /\ chosen' \in [ToolIds -> Lists \cup {None}]
    BY DEF TypeOK, IsTab
  <2> QED BY <1>8, <1>9, <1>10, <1>11, <1>12, <1>13, <1>14, <1>15, <1>16, <1>17, <1>18, <1>19,
             <1>20, <1>21, <2>1 DEF Next

\* The document a tab is opened with.
LEMMA InitTyped ==
    ASSUME Init
    PROVE  /\ TypeOK /\ tab.boot = "loading" /\ tab.tool = NoTool /\ tab.page = PageFromPath(tab)
           /\ tab.memory = Forgotten /\ ~tab.started
           /\ tab.stored = [t \in ToolIds |-> None] /\ tab.disk = tab.stored /\ ~tab.foreign
           /\ DOMAIN tab.entries = {1} /\ tab.entries[1].doc = 1
           /\ loads = 1 /\ ~hasty /\ left = Forgotten /\ chosen = [t \in ToolIds |-> None]
<1>1. PICK link \in Links :
        tab = Fresh([boot |-> "loading", page |-> "", tool |-> NoTool, query |-> "*",
                     memory |-> [t \in ToolIds |-> Unset], started |-> FALSE,
                     columns |-> DefaultColumns, ran |-> NoRun,
                     stored |-> [t \in ToolIds |-> None],
                     disk |-> [t \in ToolIds |-> None], foreign |-> FALSE,
                     entries |-> << Entry(link[1], link[2], 1) >>, pos |-> 1])
  BY DEF Init
<1> DEFINE b == [boot |-> "loading", page |-> "", tool |-> NoTool, query |-> "*",
                 memory |-> [t \in ToolIds |-> Unset], started |-> FALSE,
                 columns |-> DefaultColumns, ran |-> NoRun,
                 stored |-> [t \in ToolIds |-> None],
                 disk |-> [t \in ToolIds |-> None], foreign |-> FALSE,
                 entries |-> << Entry(link[1], link[2], 1) >>, pos |-> 1]
           n == [t \in ToolIds |-> None]
<1>2. /\ IsTab(b) /\ b.pos = 1 /\ Len(b.entries) = 1
      /\ b.entries[1] = Entry(link[1], link[2], 1) /\ b.disk = n
  BY FirstTabTyped, Zenon
<1>3. tab = Fresh(b)
  BY <1>1
<1> HIDE DEF b
<1>4. /\ IsTab(tab) /\ tab.boot = "loading" /\ tab.page = PageFromPath(b)
      /\ tab.tool = NoTool /\ tab.memory = Forgotten /\ ~tab.started
      /\ tab.stored = n /\ tab.disk = n /\ ~tab.foreign
      /\ tab.entries = b.entries /\ tab.pos = b.pos
  BY <1>2, <1>3, Begun DEF Forgotten
<1>5. tab.page = PageFromPath(tab)
  BY <1>4 DEF PageFromPath, Here
<1>6. DOMAIN tab.entries = {1} /\ tab.entries[1].doc = 1 /\ Len(tab.entries) = 1
  <2>1. tab.entries \in Seq(EntryType) /\ Len(tab.entries) = 1
    BY <1>2, <1>4, HereTyped
  <2>2. DOMAIN tab.entries = 1..1
    BY <2>1, LenProperties
  <2>3. 1..1 = {1}
    OBVIOUS
  <2>4. tab.entries[1].doc = 1
    BY <1>2, <1>4 DEF Entry
  <2> QED BY <2>1, <2>2, <2>3, <2>4
<1>7. loads = 1 /\ hasty = FALSE /\ left = Forgotten /\ chosen = n
  BY DEF Init, Forgotten
<1>8. TypeOK
  <2>1. Forgotten \in [ToolIds -> Queries \cup {Unset}] /\ n \in [ToolIds -> Lists \cup {None}]
    BY DEF Forgotten
  <2>2. 1 \in 1..MaxLoads /\ 1 <= MaxEntries
    BY BoundsAssumption
  <2> HIDE DEF n
  <2> QED BY <1>4, <1>6, <1>7, <2>1, <2>2 DEF TypeOK, IsTab
<1> QED BY <1>4, <1>5, <1>6, <1>7, <1>8

\* The tab, the boxes and the columns keep their types, whatever the reader does
\* and however early.
THEOREM NavigationTyped == Spec => []TypeOK
<1>1. Init => TypeOK
  BY InitTyped
<1>2. TypeOK /\ [Next]_vars => TypeOK'
  <2>1. TypeOK /\ Next => TypeOK'
    BY StepTyped
  <2>2. TypeOK /\ UNCHANGED vars => TypeOK'
    BY DEF TypeOK, vars
  <2> QED BY <2>1, <2>2
<1> QED BY <1>1, <1>2, PTL DEF Spec

\* Whatever is in the history, looking at the status page and coming back leaves
\* the tool, the box, the columns and the rows as they were.
THEOREM StatusNeverDisturbs == Spec => StatusIsADetour
<1>1. TypeOK /\ [Next]_vars =>
        [(tab.boot = "ready" /\ tab'.boot = "ready" /\ tab.started
         /\ tab'.page # tab.page /\ tab'.tool = tab.tool) =>
            /\ tab'.query = tab.query /\ tab'.columns = tab.columns
            /\ tab'.ran = tab.ran /\ tab'.memory = tab.memory]_vars
  <2>1. ASSUME TypeOK, Next, tab.boot = "ready", tab'.boot = "ready", tab.started,
               tab'.page # tab.page, tab'.tool = tab.tool
        PROVE  /\ tab'.query = tab.query /\ tab'.columns = tab.columns
               /\ tab'.ran = tab.ran /\ tab'.memory = tab.memory
    <3>1. Detour(tab, tab')
      BY <2>1, StepTyped
    <3> QED BY <2>1, <3>1 DEF Detour, SameScreen
  <2> QED BY <2>1
<1> QED BY <1>1, NavigationTyped, PTL DEF Spec, StatusIsADetour

-----------------------------------------------------------------------------
(* What is remembered of the columns.                                      *)

LEMMA ConfiguredTyped ==
    ASSUME NEW s, s.boot = "ready", NEW t
    PROVE  /\ DefaultColumnsFor(s, t) = Configured(t) /\ Configured(t) \in Lists
           /\ DefaultQueryFor(s, t) = DefaultQueryFor(Config, t)
<1>1. Config.boot = "ready"
  BY DEF Config
<1> QED BY <1>1, ConfigDecides, ToolFacts DEF Configured

LEMMA NoneIsNoList == None \notin Lists
<1> SUFFICES ASSUME None \in Lists PROVE FALSE
  OBVIOUS
<1>1. None \in Seq(Names) /\ Len(None) = 1 /\ None[1] = ""
  BY DEF Lists, None
<1>2. None[1] \in Names
  <2>1. 1 \in 1..1
    OBVIOUS
  <2> QED BY <1>1, <2>1, ElementOfSeq, Zenon
<1> QED BY <1>1, <1>2, FieldsAssumption

\* What columnsFor reads is what was made of the columns, when that is what is
\* remembered.
LEMMA TableRead ==
    ASSUME NEW s, IsTab(s), s.boot = "ready", NEW ch, Remembers(s, ch), NEW id \in ToolIds,
           NEW r, r.boot = "ready", r.tool = id, r.columns = ColumnsFor(s, id)
    PROVE  OnTable(r, ch)
<1>1. ColumnsFor(s, id) = Shown(s.stored[id], id)
  BY ConfiguredTyped DEF ColumnsFor, Shown
<1>2. SUFFICES ASSUME MsgLast(Configured(id))
               PROVE  MsgLast(r.columns) /\ (ch[id] # <<>> => r.columns = Made(ch, id))
  BY DEF OnTable
<1>3. MsgLast(Shown(s.stored[id], id))
  <2>1. CASE s.stored[id] \notin {None, <<>>}
    <3>1. s.stored[id] \in Seq(Names)
      BY <2>1 DEF IsTab, TabType, Lists
    <3> QED BY <2>1, <3>1, MsgIsLast DEF Shown
  <2>2. CASE s.stored[id] \in {None, <<>>}
    BY <1>2, <2>2 DEF Shown
  <2> QED BY <2>1, <2>2
<1>4. ch[id] # <<>> => Shown(s.stored[id], id) = Made(ch, id)
  BY <1>2 DEF Remembers
<1> QED BY <1>1, <1>3, <1>4

\* rememberColumns: what is on the table will be read back.
LEMMA TableRemembered ==
    ASSUME NEW s, IsTab(s), s.boot = "ready", NEW ch, OnTable(s, ch),
           \A t \in ToolIds \ {s.tool} :
                MsgLast(Configured(t)) /\ ch[t] # <<>> => Shown(s.stored[t], t) = Made(ch, t),
           NEW r, r.stored = [s.stored EXCEPT ![s.tool] = Memo(s, s.columns)]
    PROVE  Remembers(r, ch)
<1>1. s.stored \in [ToolIds -> Lists \cup {None}] /\ s.tool \in ToolIds /\ s.columns \in Lists
  BY DEF IsTab, TabType
<1>2. \A t \in ToolIds \ {s.tool} : r.stored[t] = s.stored[t]
  BY <1>1
<1>3. r.stored[s.tool] = Memo(s, s.columns)
  BY <1>1
<1>4. Memo(s, s.columns) = IF s.columns = Configured(s.tool) THEN None ELSE s.columns
  BY ConfiguredTyped DEF Memo
<1>5. ASSUME MsgLast(Configured(s.tool)), ch[s.tool] # <<>>
      PROVE  Shown(Memo(s, s.columns), s.tool) = Made(ch, s.tool)
  <2>1. s.columns = Made(ch, s.tool) /\ MsgLast(s.columns)
    BY <1>5 DEF OnTable
  <2>2. CASE s.columns = Configured(s.tool)
    <3>1. Shown(None, s.tool) = Configured(s.tool)
      BY DEF Shown
    <3> QED BY <1>4, <2>1, <2>2, <3>1
  <2>3. CASE s.columns # Configured(s.tool)
    <3>1. Memo(s, s.columns) = s.columns /\ s.columns # None /\ s.columns # <<>>
      BY <1>1, <1>4, <1>5, <2>1, <2>3, NoneIsNoList DEF Made
    <3>2. WithMsgLast(s.columns) = s.columns
      BY <1>1, <2>1, MsgIsLast DEF Lists
    <3>3. Shown(s.columns, s.tool) = s.columns
      BY <3>1, <3>2 DEF Shown
    <3> QED BY <2>1, <3>1, <3>3
  <2> QED BY <2>2, <2>3
<1>6. ASSUME NEW t \in ToolIds, MsgLast(Configured(t)), ch[t] # <<>>
      PROVE  Shown(r.stored[t], t) = Made(ch, t)
  <2>1. CASE t = s.tool
    BY <1>3, <1>5, <1>6, <2>1
  <2>2. CASE t # s.tool
    BY <1>2, <1>6, <2>2
  <2> QED BY <2>1, <2>2
<1> QED BY <1>6 DEF Remembers

LEMMA ColumnsCarry ==
    ASSUME NEW s, NEW ch, Columns(s, ch), NEW r, SameStore(s, r), r.boot = s.boot,
           r.tool = s.tool, r.columns = s.columns
    PROVE  Columns(r, ch)
<1>1. Remembers(r, ch)
  BY DEF Columns, SameStore, Remembers
<1>2. OnTable(r, ch)
  BY DEF Columns, OnTable
<1> QED BY <1>1, <1>2 DEF Columns, SameStore

-----------------------------------------------------------------------------
(* Boxes.                                                                  *)

\* What is noted of the boxes when the tool changes.
Left(s, r, lf) == IF r.tool # s.tool THEN [lf EXCEPT ![s.tool] = s.query] ELSE lf

\* Whoever comes back to a tool finds the box that was left there.
Kept(s, r, lf) ==
    s.started /\ r.boot = "ready" /\ r.tool # s.tool => r.query = BoxOf(lf, r.tool)

IsNoted(m) == m \in [ToolIds -> Queries \cup {Unset}]

LEMMA BoxesCarry ==
    ASSUME NEW s, NEW lf, BoxesKept(s, lf), NEW r, r.boot = s.boot, r.tool = s.tool,
           r.memory = s.memory, r.started = s.started, s.started \/ r.query = s.query
    PROVE  BoxesKept(r, lf)
<1>1. CASE s.boot = "ready"
  BY <1>1 DEF BoxesKept
<1>2. CASE s.boot # "ready"
  BY <1>2 DEF BoxesKept
<1> QED BY <1>1, <1>2

\* A change of tools notes the box that is left and opens the other one's.
LEMMA BoxSwitched ==
    ASSUME NEW s, IsTab(s), s.boot = "ready", s.started, NEW lf, IsNoted(lf), BoxesKept(s, lf),
           NEW id \in ToolIds, id # s.tool, id # NoTool,
           NEW r, r.boot = "ready", r.started, r.tool = id, r.memory = BoxNoted(s),
           r.query = BoxOf(r.memory, id)
    PROVE  BoxesKept(r, Left(s, r, lf)) /\ Kept(s, r, lf)
<1> DEFINE m == BoxNoted(s)
           lf2 == [lf EXCEPT ![s.tool] = s.query]
<1>1. /\ s.memory \in [ToolIds -> Queries \cup {Unset}] /\ s.tool \in ToolIds /\ s.query \in Queries
      /\ lf \in [ToolIds -> Queries \cup {Unset}]
  BY DEF IsTab, TabType, IsNoted
<1>2. \A t \in ToolIds : t # s.tool => m[t] = s.memory[t] /\ lf2[t] = lf[t]
  BY <1>1 DEF BoxNoted
<1>3. s.tool # NoTool => m[s.tool] = s.query
  BY <1>1 DEF BoxNoted
<1>4. lf2[s.tool] = s.query
  BY <1>1
<1>5. \A t \in ToolIds \ {NoTool, s.tool} : BoxOf(s.memory, t) = BoxOf(lf, t)
  BY DEF BoxesKept
<1>6. Left(s, r, lf) = lf2
  BY DEF Left
<1> HIDE DEF m, lf2
<1>7. \A t \in ToolIds \ {NoTool} : BoxOf(m, t) = BoxOf(lf2, t)
  <2> SUFFICES ASSUME NEW t \in ToolIds \ {NoTool} PROVE BoxOf(m, t) = BoxOf(lf2, t)
    OBVIOUS
  <2>1. CASE t = s.tool
    BY <1>3, <1>4, <2>1 DEF BoxOf
  <2>2. CASE t # s.tool
    <3>1. m[t] = s.memory[t] /\ lf2[t] = lf[t]
      BY <1>2, <2>2
    <3>2. BoxOf(m, t) = BoxOf(s.memory, t) /\ BoxOf(lf2, t) = BoxOf(lf, t)
      BY <3>1 DEF BoxOf
    <3> QED BY <1>5, <2>2, <3>2
  <2> QED BY <2>1, <2>2
<1>8. r.memory = m
  BY DEF m
<1>9. BoxesKept(r, lf2)
  BY <1>7, <1>8 DEF BoxesKept
<1>10. BoxOf(lf2, id) = BoxOf(lf, id)
  BY <1>2 DEF BoxOf
<1>11. r.query = BoxOf(lf, id)
  <2>1. BoxOf(m, id) = BoxOf(lf2, id)
    BY <1>7
  <2> QED BY <1>8, <1>10, <2>1
<1> QED BY <1>6, <1>9, <1>11 DEF Kept

\* Before the workspace has started every box is the tool's default.
LEMMA BoxStarted ==
    ASSUME NEW s, IsTab(s), s.boot = "ready", ~s.started, NEW lf, IsNoted(lf), BoxesKept(s, lf),
           NEW r, r.boot = "ready", r.started, r.tool \in ToolIds,
           \A t \in ToolIds : t # r.tool => r.memory[t] = s.memory[t]
    PROVE  BoxesKept(r, Left(s, r, lf)) /\ Kept(s, r, lf)
<1> DEFINE lf2 == [lf EXCEPT ![s.tool] = s.query]
<1>1. s.tool \in ToolIds /\ s.query \in Queries /\ lf \in [ToolIds -> Queries \cup {Unset}]
  BY DEF IsTab, TabType, IsNoted
<1>2. /\ s.memory = Forgotten /\ s.query = DefaultQueryFor(Config, s.tool)
      /\ \A t \in ToolIds \ {NoTool, s.tool} : BoxOf(s.memory, t) = BoxOf(lf, t)
  BY DEF BoxesKept
<1>3. lf2[s.tool] = s.query /\ \A t \in ToolIds : t # s.tool => lf2[t] = lf[t]
  BY <1>1
<1>4. s.query # Unset
  BY <1>1, ToolsTyped
<1>5. \A t \in ToolIds : BoxOf(Forgotten, t) = DefaultQueryFor(Config, t)
  BY DEF BoxOf, Forgotten
<1> HIDE DEF lf2
<1>6. BoxOf(lf2, s.tool) = BoxOf(s.memory, s.tool)
  BY <1>1, <1>2, <1>3, <1>4, <1>5 DEF BoxOf
<1>7. \A t \in ToolIds \ {NoTool, r.tool} : BoxOf(r.memory, t) = BoxOf(s.memory, t)
  BY DEF BoxOf
<1>8. \A t \in ToolIds \ {NoTool, s.tool} : BoxOf(lf2, t) = BoxOf(lf, t)
  BY <1>3 DEF BoxOf
<1>9. \A t \in ToolIds \ {NoTool, r.tool} : BoxOf(r.memory, t) = BoxOf(Left(s, r, lf), t)
  <2>1. CASE r.tool = s.tool
    BY <1>2, <1>7, <2>1 DEF Left
  <2>2. CASE r.tool # s.tool
    <3>1. Left(s, r, lf) = lf2
      BY <2>2 DEF Left, lf2
    <3> QED BY <1>2, <1>6, <1>7, <1>8, <3>1
  <2> QED BY <2>1, <2>2
<1> QED BY <1>9 DEF BoxesKept, Kept

-----------------------------------------------------------------------------
(* A tab with its config, between two steps and within one.                *)

Whole(s, n, lf, ch) ==
    IsTab(s) /\ Placed(s, n) /\ Settled(s) /\ BoxesKept(s, lf) /\ Columns(s, ch)

\* The address and the page may be ahead of the tool.
Within(s, n, lf, ch) ==
    /\ IsTab(s) /\ s.boot = "ready" /\ Placed(s, n) /\ Proper(s.tool)
    /\ s.started => s.ran.tool = s.tool
    /\ BoxesKept(s, lf) /\ Columns(s, ch)

LEMMA WholeIsWithin ==
    ASSUME NEW s, NEW n, NEW lf, NEW ch, Whole(s, n, lf, ch), s.boot = "ready"
    PROVE  Within(s, n, lf, ch) /\ Proper(Here(s).path)
BY DEF Whole, Within, Settled

\* The tab has written its address.
LEMMA LandedIsWhole ==
    ASSUME NEW s, NEW n, NEW lf, NEW ch, Within(s, n, lf, ch), s.page = "",
           NEW r, IsTab(r), Landed(s, r), SameDocument(s, r), r.started, r.ran.tool = r.tool,
           Proper(r.tool), NEW lf2, BoxesKept(r, lf2), Columns(r, ch)
    PROVE  Whole(r, n, lf2, ch)
<1>1. Placed(r, n) /\ Here(r).path = r.tool /\ PageFromPath(r) = ""
  BY LandedIsPlaced DEF Within
<1>2. r.boot = "ready" /\ r.page = ""
  BY DEF SameDocument, Within
<1>3. Settled(r)
  BY <1>1, <1>2 DEF Settled
<1> QED BY <1>1, <1>3 DEF Whole

LEMMA StartIsWhole ==
    ASSUME NEW s, NEW n, NEW lf, NEW ch, Within(s, n, lf, ch), s.page = "", ~s.started, IsNoted(lf)
    PROVE  LET r == StartWorkspace(s) IN
           /\ Whole(r, n, Left(s, r, lf), ch) /\ Kept(s, r, lf)
           /\ \A lf2 : BoxesKept(r, lf2) => Whole(r, n, lf2, ch)
<1> DEFINE r == StartWorkspace(s)
<1>0. IsTab(s) /\ s.boot = "ready" /\ Columns(s, ch) /\ BoxesKept(s, lf) /\ Proper(s.tool)
  BY DEF Within
<1>1. /\ IsTab(r) /\ Landed(s, r) /\ SameDocument(s, r) /\ SameStore(s, r)
      /\ r.started /\ r.ran.tool = r.tool
      /\ r.tool = IF s.boot = "ready" /\ Here(s).path \in Offered THEN Here(s).path ELSE s.tool
      /\ \A t \in ToolIds : t # r.tool => r.memory[t] = s.memory[t]
      /\ r.columns = ColumnsFor(s, r.tool)
  BY <1>0, Started
<1> HIDE DEF r
<1>2. r.boot = "ready" /\ r.tool \in ToolIds
  BY <1>0, <1>1 DEF SameDocument, IsTab, TabType
<1>3. Proper(r.tool)
  BY <1>0, <1>1 DEF Proper
<1>4. BoxesKept(r, Left(s, r, lf)) /\ Kept(s, r, lf)
  BY <1>0, <1>1, <1>2, BoxStarted
<1>5. Columns(r, ch)
  <2>1. OnTable(r, ch)
    BY <1>0, <1>1, <1>2, TableRead DEF Columns
  <2>2. Remembers(r, ch) /\ (~r.foreign => r.disk = r.stored)
    BY <1>0, <1>1 DEF Columns, SameStore, Remembers
  <2> QED BY <2>1, <2>2 DEF Columns
<1>6. ASSUME NEW lf2, BoxesKept(r, lf2) PROVE Whole(r, n, lf2, ch)
  BY <1>1, <1>3, <1>5, <1>6, LandedIsWhole
<1> QED BY <1>4, <1>6 DEF r

LEMMA SwitchIsWhole ==
    ASSUME NEW s, NEW n, NEW lf, NEW ch, Within(s, n, lf, ch), s.page = "", s.started, IsNoted(lf),
           NEW id \in Offered, id # s.tool
    PROVE  LET r == SwitchTool(s, id) IN
           Whole(r, n, Left(s, r, lf), ch) /\ Kept(s, r, lf)
<1> DEFINE r == SwitchTool(s, id)
<1>0. IsTab(s) /\ s.boot = "ready" /\ Columns(s, ch) /\ BoxesKept(s, lf)
      /\ id \in ToolIds /\ id # NoTool /\ Proper(id)
  BY ToolsTyped DEF Within, Proper
<1>9. SwitchedTo(s, id, r)
  BY <1>0, Switched
<1> HIDE DEF r
<1>1. /\ IsTab(r) /\ Landed(s, r) /\ SameDocument(s, r) /\ r.started = s.started
      /\ r.tool = id /\ r.ran.tool = id
      /\ r.memory = BoxNoted(s)
      /\ r.query = IF BoxNoted(s)[id] # Unset THEN BoxNoted(s)[id] ELSE DefaultQueryFor(s, id)
      /\ r.stored = [s.stored EXCEPT ![s.tool] = Memo(s, s.columns)]
      /\ r.disk = r.stored
      /\ r.columns = ColumnsFor(r, id)
  BY <1>9 DEF SwitchedTo
<1>2. r.boot = "ready"
  BY <1>0, <1>1 DEF SameDocument
<1>3. r.query = BoxOf(r.memory, id)
  <2>1. DefaultQueryFor(s, id) = DefaultQueryFor(Config, id)
    BY <1>0, ConfiguredTyped
  <2> QED BY <1>1, <2>1 DEF BoxOf
<1>4. BoxesKept(r, Left(s, r, lf)) /\ Kept(s, r, lf)
  BY <1>0, <1>1, <1>2, <1>3, BoxSwitched
<1>5. Columns(r, ch)
  <2>1. Remembers(r, ch)
    <3>1. OnTable(s, ch) /\ \A t \in ToolIds \ {s.tool} :
                MsgLast(Configured(t)) /\ ch[t] # <<>> => Shown(s.stored[t], t) = Made(ch, t)
      BY <1>0 DEF Columns, Remembers
    <3> QED BY <1>0, <1>1, <3>1, TableRemembered
  <2>2. OnTable(r, ch)
    BY <1>0, <1>1, <1>2, <2>1, TableRead
  <2> QED BY <1>1, <2>1, <2>2 DEF Columns
<1>6. Whole(r, n, Left(s, r, lf), ch)
  BY <1>0, <1>1, <1>4, <1>5, LandedIsWhole
<1> QED BY <1>4, <1>6 DEF r

\* The address is written, and the box run or not.
LEMMA WriteIsWhole ==
    ASSUME NEW s, NEW n, NEW lf, NEW ch, Within(s, n, lf, ch), s.page = "", s.started
    PROVE  /\ Whole(WriteURL(s), n, Left(s, WriteURL(s), lf), ch) /\ WriteURL(s).tool = s.tool
           /\ Whole(Run(s), n, Left(s, Run(s), lf), ch) /\ Run(s).tool = s.tool
<1>0. IsTab(s) /\ Proper(s.tool) /\ s.ran.tool = s.tool /\ Columns(s, ch) /\ BoxesKept(s, lf)
  BY DEF Within
<1>1. ASSUME NEW r, IsTab(r), Landed(s, r), SameDocument(s, r), SameStore(s, r),
             r.tool = s.tool, r.query = s.query, r.memory = s.memory,
             r.started = s.started, r.columns = s.columns, r.ran.tool = s.tool
      PROVE  Whole(r, n, Left(s, r, lf), ch)
  <2>1. BoxesKept(r, lf)
    BY <1>0, <1>1, BoxesCarry DEF SameDocument
  <2>2. Columns(r, ch)
    BY <1>0, <1>1, ColumnsCarry DEF SameDocument
  <2>3. Left(s, r, lf) = lf
    BY <1>1 DEF Left
  <2> QED BY <1>0, <1>1, <2>1, <2>2, <2>3, LandedIsWhole
<1>2. LET r == WriteURL(s) IN
      /\ IsTab(r) /\ Landed(s, r) /\ SameDocument(s, r) /\ SameStore(s, r)
      /\ r.tool = s.tool /\ r.query = s.query /\ r.memory = s.memory
      /\ r.started = s.started /\ r.columns = s.columns /\ r.ran.tool = s.tool
  <2> DEFINE r == WriteURL(s)
  <2>1. /\ IsTab(r) /\ Landed(s, r) /\ SameDocument(s, r) /\ SameStore(s, r)
        /\ r.tool = s.tool /\ r.query = s.query /\ r.memory = s.memory
        /\ r.started = s.started /\ r.columns = s.columns /\ r.ran = s.ran
    BY <1>0, Wrote
  <2> HIDE DEF r
  <2>2. r.ran.tool = s.tool
    BY <1>0, <2>1
  <2> QED BY <2>1, <2>2 DEF r
<1>3. LET r == Run(s) IN
      /\ IsTab(r) /\ Landed(s, r) /\ SameDocument(s, r) /\ SameStore(s, r)
      /\ r.tool = s.tool /\ r.query = s.query /\ r.memory = s.memory
      /\ r.started = s.started /\ r.columns = s.columns /\ r.ran.tool = s.tool
  BY <1>0, Ran
<1> QED BY <1>1, <1>2, <1>3

\* The page is what the address says.
LEMMA TurnedIsWithin ==
    ASSUME NEW s, NEW n, NEW lf, NEW ch, Within(s, n, lf, ch), NEW p \in AppPages \cup {""}
    PROVE  LET t == [s EXCEPT !.page = p] IN
           /\ Within(t, n, lf, ch) /\ Here(t) = Here(s) /\ t.page = p
           /\ t.tool = s.tool /\ t.query = s.query /\ t.started = s.started
<1> DEFINE t == [s EXCEPT !.page = p]
<1>0. IsTab(s) /\ s.boot = "ready" /\ Placed(s, n) /\ Proper(s.tool) /\ BoxesKept(s, lf)
      /\ Columns(s, ch) /\ (s.started => s.ran.tool = s.tool)
  BY DEF Within
<1>1. /\ IsTab(t) /\ SameStore(s, t) /\ t.boot = s.boot /\ t.page = p
      /\ t.tool = s.tool /\ t.query = s.query /\ t.memory = s.memory
      /\ t.started = s.started /\ t.columns = s.columns /\ t.ran = s.ran
      /\ t.pos = s.pos /\ t.entries = s.entries
  BY <1>0, Turned
<1> HIDE DEF t
<1>2. Placed(t, n) /\ Here(t) = Here(s)
  BY <1>0, <1>1 DEF Placed, Here
<1>3. BoxesKept(t, lf)
  BY <1>0, <1>1, BoxesCarry
<1>4. Columns(t, ch)
  BY <1>0, <1>1, ColumnsCarry
<1>5. Within(t, n, lf, ch)
  BY <1>0, <1>1, <1>2, <1>3, <1>4 DEF Within
<1> QED BY <1>1, <1>2, <1>5 DEF t

\* onPopState, once the browser has moved.
LEMMA PopIsWhole ==
    ASSUME NEW s, NEW n, NEW lf, NEW ch, Within(s, n, lf, ch), Proper(Here(s).path), IsNoted(lf)
    PROVE  LET r == OnPopState(s) IN
           Whole(r, n, Left(s, r, lf), ch) /\ Kept(s, r, lf)
<1> DEFINE t == [s EXCEPT !.page = PageFromPath(s)]
           wanted == ToolFromPath(s)
           r == OnPopState(s)
<1>1. IsTab(s) /\ PageFromPath(s) \in AppPages \cup {""}
  BY HereTyped DEF Within
<1>2. /\ Within(t, n, lf, ch) /\ Here(t) = Here(s) /\ t.page = PageFromPath(s)
      /\ t.tool = s.tool /\ t.query = s.query /\ t.started = s.started
  BY <1>1, TurnedIsWithin
<1>3. r = IF t.page # "" THEN t
          ELSE IF ~t.started THEN StartWorkspace(t)
          ELSE IF wanted \notin {NoTool, t.tool} THEN SelectTool(t, wanted) ELSE t
  BY Zenon DEF OnPopState
<1>4. PageFromPath(t) = t.page
  BY <1>2 DEF PageFromPath
<1> HIDE DEF t, r
<1>5. \A u : Left(t, u, lf) = Left(s, u, lf) /\ (Kept(t, u, lf) => Kept(s, u, lf))
  BY <1>2 DEF Left, Kept
<1>6. ASSUME Settled(t), r = t PROVE Whole(r, n, Left(s, r, lf), ch) /\ Kept(s, r, lf)
  <2>1. Left(s, r, lf) = lf /\ Kept(s, r, lf)
    BY <1>2, <1>6 DEF Left, Kept
  <2> QED BY <1>2, <1>6, <2>1 DEF Whole, Within
<1>7. CASE t.page # ""
  <2>1. r = t
    BY <1>3, <1>7
  <2>2. Settled(t)
    BY <1>2, <1>4, <1>7 DEF Settled, Within
  <2> QED BY <1>6, <2>1, <2>2 DEF r
<1>8. CASE t.page = "" /\ ~t.started
  <2>1. r = StartWorkspace(t)
    BY <1>3, <1>8
  <2>2. Whole(r, n, Left(t, r, lf), ch) /\ Kept(t, r, lf)
    BY <1>2, <1>8, <2>1, StartIsWhole
  <2> QED BY <1>5, <2>2 DEF r
<1>9. CASE t.page = "" /\ t.started /\ wanted \notin {NoTool, t.tool}
  <2>1. r = SwitchTool(t, wanted)
    BY <1>3, <1>9 DEF SelectTool
  <2>2. wanted \in Offered
    BY <1>2, <1>4, <1>9 DEF Proper, ToolFromPath, PageFromPath, AppPages
  <2>3. Whole(r, n, Left(t, r, lf), ch) /\ Kept(t, r, lf)
    BY <1>2, <1>9, <2>1, <2>2, SwitchIsWhole
  <2> QED BY <1>5, <2>3 DEF r
<1>10. CASE t.page = "" /\ t.started /\ wanted \in {NoTool, t.tool}
  <2>1. r = t
    BY <1>3, <1>10
  <2>2. t.tool \notin AppPages
    BY <1>2, ToolsTyped DEF Within, IsTab, TabType
  <2>3. Here(t).path = t.tool
    <3>1. CASE wanted = t.tool
      BY <1>2, <3>1 DEF ToolFromPath
    <3>2. CASE wanted = NoTool
      <4>1. Offered = {}
        BY <3>2, ToolsTyped DEF Proper, ToolFromPath, AppPages, NoTool
      <4>2. t.tool = NoTool
        BY <1>2, <2>2, <4>1 DEF Proper, Within
      <4> QED BY <1>2, <3>2, <4>2 DEF ToolFromPath
    <3> QED BY <1>10, <3>1, <3>2
  <2>4. Settled(t)
    BY <1>2, <1>4, <1>10, <2>3 DEF Settled, Within
  <2> QED BY <1>6, <2>1, <2>4 DEF r
<1> QED BY <1>7, <1>8, <1>9, <1>10

\* selectTool, by the rail.
LEMMA PickIsWhole ==
    ASSUME NEW s, NEW n, NEW lf, NEW ch, Whole(s, n, lf, ch), s.boot = "ready", IsNoted(lf),
           NEW id \in Offered
    PROVE  LET r == SelectTool(s, id) IN
           Whole(r, n, Left(s, r, lf), ch) /\ Kept(s, r, lf)
<1> DEFINE t == [s EXCEPT !.page = ""]
           o == Push(t, id, "", Here(s).doc)
           r == SelectTool(s, id)
<1>0. Within(s, n, lf, ch) /\ Proper(Here(s).path) /\ IsTab(s)
  BY WholeIsWithin DEF Whole
<1>1. CASE s.page = ""
  <2>0. s.started
    BY <1>1 DEF Whole, Settled
  <2>1. r = IF id = s.tool THEN s ELSE SwitchTool(s, id)
    BY <1>1 DEF SelectTool
  <2> HIDE DEF r
  <2>2. CASE id = s.tool
    <3>1. r = s /\ Left(s, r, lf) = lf /\ Kept(s, r, lf)
      BY <2>1, <2>2 DEF Left, Kept
    <3> QED BY <3>1 DEF r
  <2>3. CASE id # s.tool
    BY <1>0, <1>1, <2>0, <2>1, <2>3, SwitchIsWhole DEF r
  <2> QED BY <2>2, <2>3
<1>2. CASE s.page # ""
  <2>1. Here(s).doc \in 1..MaxLoads /\ id \in Paths /\ "" \in Queries
        /\ "" \in AppPages \cup {""} /\ Proper(id)
    BY <1>0, HereTyped, ToolsTyped DEF EntryType, Proper
  <2>2. /\ Within(t, n, lf, ch) /\ Here(t) = Here(s) /\ t.page = ""
        /\ t.tool = s.tool /\ t.query = s.query /\ t.started = s.started
    BY <1>0, <2>1, TurnedIsWithin
  <2>3. r = IF ~s.started THEN StartWorkspace(o)
            ELSE IF id = s.tool THEN WriteURL(o) ELSE SwitchTool(o, id)
    BY <1>2, Zenon DEF SelectTool
  <2> HIDE DEF t, r
  <2>4. IsTab(t) /\ t.boot = "ready" /\ Placed(t, n) /\ Proper(t.tool) /\ BoxesKept(t, lf)
        /\ Columns(t, ch) /\ (t.started => t.ran.tool = t.tool)
    BY <2>2 DEF Within
  <2>5. /\ IsTab(o) /\ SameDocument(t, o) /\ SameStore(t, o)
        /\ o.tool = t.tool /\ o.query = t.query /\ o.memory = t.memory
        /\ o.started = t.started /\ o.columns = t.columns /\ o.ran = t.ran
        /\ Added(t, o, Entry(id, "", Here(s).doc))
    BY <2>1, <2>4, Pushed
  <2> HIDE DEF o
  <2>6. Placed(o, n)
    <3>1. Proper(Here(t).path) /\ Added(t, o, Entry(id, "", Here(t).doc))
      BY <1>0, <2>2, <2>5
    <3> QED BY <2>1, <2>4, <3>1, PushedIsPlaced
  <2>7. BoxesKept(o, lf) /\ Columns(o, ch)
    BY <2>4, <2>5, BoxesCarry, ColumnsCarry DEF SameDocument
  <2>8. Within(o, n, lf, ch) /\ o.page = ""
    BY <2>2, <2>4, <2>5, <2>6, <2>7 DEF Within, SameDocument
  <2>9. \A u : Left(o, u, lf) = Left(s, u, lf) /\ (Kept(o, u, lf) => Kept(s, u, lf))
    BY <2>2, <2>5 DEF Left, Kept
  <2>10. CASE ~s.started
    <3>1. r = StartWorkspace(o) /\ ~o.started
      BY <2>2, <2>3, <2>5, <2>10
    <3>2. Whole(r, n, Left(o, r, lf), ch) /\ Kept(o, r, lf)
      BY <2>8, <3>1, StartIsWhole
    <3> QED BY <2>9, <3>2 DEF r
  <2>11. CASE s.started /\ id = s.tool
    <3>1. r = WriteURL(o) /\ o.started
      BY <2>2, <2>3, <2>5, <2>11
    <3>2. Whole(r, n, Left(o, r, lf), ch) /\ r.tool = o.tool
      BY <2>8, <3>1, WriteIsWhole
    <3>3. Kept(o, r, lf)
      BY <3>2 DEF Kept
    <3> QED BY <2>9, <3>2, <3>3 DEF r
  <2>12. CASE s.started /\ id # s.tool
    <3>1. r = SwitchTool(o, id) /\ o.started /\ id # o.tool
      BY <2>2, <2>3, <2>5, <2>12
    <3>2. Whole(r, n, Left(o, r, lf), ch) /\ Kept(o, r, lf)
      BY <2>8, <3>1, SwitchIsWhole
    <3> QED BY <2>9, <3>2 DEF r
  <2> QED BY <2>10, <2>11, <2>12
<1> QED BY <1>1, <1>2

-----------------------------------------------------------------------------
(* The steps.                                                              *)

\* A document begins, with what was written last.
LEMMA LoadIsWhole ==
    ASSUME NEW s, IsTab(s), NEW n, Placed(s, n), Columns(s, chosen), LoadDocument(s)
    PROVE  Whole(tab', n, left', chosen') /\ tab'.boot = "loading" /\ hasty' = hasty
<1>1. /\ tab' = Fresh(s) /\ hasty' = hasty /\ left' = Forgotten
      /\ chosen' = IF s.foreign
                   THEN [t \in ToolIds |-> IF s.disk[t] = None THEN None ELSE WithMsgLast(s.disk[t])]
                   ELSE chosen
  BY DEF LoadDocument, Forgotten
<1>2. /\ IsTab(tab') /\ tab'.boot = "loading" /\ tab'.page = PageFromPath(s)
      /\ tab'.tool = NoTool /\ tab'.memory = Forgotten /\ ~tab'.started
      /\ tab'.stored = s.disk /\ tab'.disk = s.disk /\ ~tab'.foreign
      /\ tab'.entries = s.entries /\ tab'.pos = s.pos
  BY <1>1, Begun DEF Forgotten
<1>3. Placed(tab', n)
  BY <1>2 DEF Placed
<1>4. Settled(tab')
  <2>1. PageFromPath(tab') = PageFromPath(s)
    BY <1>2 DEF PageFromPath, Here
  <2> QED BY <1>2, <2>1 DEF Settled
<1>5. BoxesKept(tab', left')
  BY <1>1, <1>2 DEF BoxesKept
<1>6. Remembers(tab', chosen')
  <2>1. CASE ~s.foreign
    BY <1>1, <1>2, <2>1 DEF Columns, Remembers
  <2>2. CASE s.foreign
    <3> SUFFICES ASSUME NEW t \in ToolIds, chosen'[t] # <<>>
                 PROVE  Shown(tab'.stored[t], t) = Made(chosen', t)
      BY DEF Remembers
    <3>1. chosen'[t] = IF s.disk[t] = None THEN None ELSE WithMsgLast(s.disk[t])
      BY <1>1, <2>2
    <3>2. CASE s.disk[t] = None
      BY <1>2, <3>1, <3>2 DEF Shown, Made
    <3>3. CASE s.disk[t] # None
      <4>1. s.disk[t] \in Seq(Names)
        BY <3>3 DEF IsTab, TabType, Lists
      <4>2. WithMsgLast(s.disk[t]) # None
        BY <3>3, <4>1, MsgIsLast
      <4>3. s.disk[t] # <<>>
        <5> SUFFICES ASSUME s.disk[t] = <<>> PROVE FALSE
          OBVIOUS
        <5>1. MsgLast(<<>>)
          <6>1. ToSet(<<>>) = {}
            BY DEF ToSet
          <6> QED BY <6>1 DEF MsgLast
        <5>2. WithMsgLast(<<>>) = <<>>
          BY <5>1 DEF WithMsgLast
        <5> QED BY <3>1, <3>3, <5>2
      <4> QED BY <1>2, <3>1, <3>3, <4>2, <4>3 DEF Shown, Made
    <3> QED BY <3>2, <3>3
  <2> QED BY <2>1, <2>2
<1>7. Columns(tab', chosen')
  BY <1>2, <1>6 DEF Columns, OnTable
<1> QED BY <1>1, <1>2, <1>3, <1>4, <1>5, <1>7 DEF Whole

\* The config comes: to a page, or to the logs, which start.
LEMMA ConfigIsWhole ==
    ASSUME Whole(tab, loads, left, chosen), IsNoted(left), ConfigComes
    PROVE  Whole(tab', loads, left, chosen)
<1> DEFINE came == [tab EXCEPT !.boot = "ready"]
           first == ToolById(came, NoTool)
           qy == DefaultQueryFor(came, first)
           cl == ColumnsFor(came, first)
           s == [came EXCEPT !.tool = first, !.query = qy, !.columns = cl]
<1>1. tab' = (IF s.page # "" THEN s ELSE StartWorkspace(s)) /\ tab.boot = "loading"
  BY DEF ConfigComes
<1>2. /\ IsTab(tab) /\ Placed(tab, loads) /\ tab.page = PageFromPath(tab) /\ ~tab.started
      /\ tab.memory = Forgotten /\ left = Forgotten /\ Columns(tab, chosen)
  BY <1>1 DEF Whole, Settled, BoxesKept
<1>3. /\ IsTab(came) /\ came.entries = tab.entries /\ came.pos = tab.pos /\ came.boot = "ready"
      /\ came.page = tab.page /\ came.memory = tab.memory /\ came.started = tab.started
      /\ SameStore(tab, came)
  BY <1>2 DEF IsTab, TabType, SameStore
<1>4. first \in ToolIds /\ qy \in Queries /\ Proper(first)
      /\ qy = DefaultQueryFor(Config, first)
  BY <1>3, ToolFacts, ConfiguredTyped
<1>5. cl \in Lists
  BY <1>3, <1>4, ColumnsTyped
<1>6. cl = ColumnsFor(came, first)
  OBVIOUS
<1> HIDE DEF came, first, qy, cl
<1>7. /\ IsTab(s) /\ s.entries = tab.entries /\ s.pos = tab.pos /\ s.boot = "ready"
      /\ s.page = tab.page /\ s.memory = Forgotten /\ ~s.started /\ SameStore(tab, s)
      /\ s.tool = first /\ s.query = qy /\ s.columns = cl
  BY <1>2, <1>3, <1>4, <1>5 DEF IsTab, TabType, SameStore
<1> HIDE DEF s
<1>8. BoxesKept(s, left)
  BY <1>2, <1>4, <1>7 DEF BoxesKept
<1>9. Columns(s, chosen)
  <2>1. Remembers(came, chosen)
    BY <1>2, <1>3 DEF Columns, SameStore, Remembers
  <2>2. OnTable(s, chosen)
    BY <1>3, <1>4, <1>6, <1>7, <2>1, TableRead
  <2> QED BY <1>2, <1>7, <2>2 DEF Columns, SameStore, Remembers
<1>10. Placed(s, loads) /\ PageFromPath(s) = s.page
  BY <1>2, <1>7 DEF Placed, PageFromPath, Here
<1>11. Within(s, loads, left, chosen)
  BY <1>4, <1>7, <1>8, <1>9, <1>10 DEF Within
<1>12. CASE s.page # ""
  <2>1. Proper(Here(s).path)
    BY <1>10, <1>12 DEF PageFromPath, Proper
  <2>2. Settled(s)
    BY <1>4, <1>7, <1>10, <1>12, <2>1 DEF Settled
  <2> QED BY <1>1, <1>7, <1>8, <1>9, <1>10, <1>12, <2>2 DEF Whole
<1>13. CASE s.page = ""
  <2>1. tab' = StartWorkspace(s)
    BY <1>1, <1>13
  <2>2. \A lf2 : BoxesKept(tab', lf2) => Whole(tab', loads, lf2, chosen)
    BY <1>7, <1>11, <1>13, <2>1, StartIsWhole
  <2>3. /\ tab'.boot = "ready" /\ tab'.started /\ tab'.tool \in ToolIds
        /\ \A t \in ToolIds : t # tab'.tool => tab'.memory[t] = s.memory[t]
    <3>1. /\ IsTab(tab') /\ SameDocument(s, tab') /\ tab'.started
          /\ \A t \in ToolIds : t # tab'.tool => tab'.memory[t] = s.memory[t]
      BY <1>7, <2>1, Started
    <3> QED BY <1>7, <3>1 DEF SameDocument, IsTab, TabType
  <2>4. BoxesKept(tab', left)
    BY <1>2, <1>7, <2>3 DEF BoxesKept, BoxOf
  <2> QED BY <2>2, <2>4
<1> QED BY <1>12, <1>13

\* popstate, once the config has come.
LEMMA PoppedIsWhole ==
    ASSUME NEW s, Within(s, loads, left, chosen), Proper(Here(s).path), IsNoted(left),
           s.tool = tab.tool, s.query = tab.query, s.started = tab.started,
           tab.boot = "ready", PopState(s)
    PROVE  Whole(tab', loads', left', chosen') /\ Kept(tab, tab', left)
<1>1. /\ tab' = OnPopState(s) /\ UNCHANGED <<loads, chosen>>
      /\ left' = IF tab'.tool # tab.tool THEN [left EXCEPT ![tab.tool] = tab.query] ELSE left
  BY DEF PopState, Show
<1>2. Whole(tab', loads, Left(s, tab', left), chosen) /\ Kept(s, tab', left)
  BY <1>1, PopIsWhole
<1>3. Left(s, tab', left) = left'
  BY <1>1 DEF Left
<1>4. Kept(tab, tab', left)
  BY <1>2 DEF Kept
<1> QED BY <1>1, <1>2, <1>3, <1>4

\* Every step of a tab that was not hasty, with what the tab remembers.
LEMMA StepIsWhole ==
    ASSUME NavInv, Next, ~hasty'
    PROVE  /\ Whole(tab', loads', left', chosen') /\ ~hasty
           /\ tab.boot = "ready" => Kept(tab, tab', left)
<1> DEFINE Goal == /\ Whole(tab', loads', left', chosen') /\ ~hasty
                   /\ tab.boot = "ready" => Kept(tab, tab', left)
<1>1. ~hasty => Whole(tab, loads, left, chosen) /\ IsNoted(left) /\ IsTab(tab)
  BY DEF NavInv, Whole, TypeOK, IsTab, IsNoted
<1>2. Logs /\ ~hasty => /\ Within(tab, loads, left, chosen) /\ Proper(Here(tab).path)
                        /\ tab.started /\ tab.boot = "ready" /\ tab.page = ""
  BY <1>1, WholeIsWithin DEF Logs, Whole, Settled
<1>3. ASSUME NEW r, Show(r), UNCHANGED hasty, NEW n, NEW ch, n = loads', ch = chosen',
             Whole(r, n, Left(tab, r, left), ch), Kept(tab, r, left)
      PROVE  Goal
  <2>1. tab' = r /\ left' = Left(tab, r, left) /\ ~hasty
    BY <1>3 DEF Show, Left
  <2> QED BY <1>3, <2>1
<1>4. ASSUME ~hasty, Logs, NEW q \in Queries
      PROVE  LET t == [tab EXCEPT !.query = q] IN
             /\ Within(t, loads, left, chosen) /\ t.started /\ t.page = ""
             /\ Here(t) = Here(tab) /\ PageFromPath(t) = PageFromPath(tab)
             /\ t.tool = tab.tool
  <2> DEFINE t == [tab EXCEPT !.query = q]
  <2>1. /\ IsTab(t) /\ t.boot = tab.boot /\ t.page = tab.page /\ t.tool = tab.tool
        /\ t.memory = tab.memory /\ t.started = tab.started /\ t.columns = tab.columns
        /\ t.ran = tab.ran /\ SameStore(tab, t) /\ t.entries = tab.entries /\ t.pos = tab.pos
    BY <1>1, <1>4 DEF IsTab, TabType, SameStore
  <2> HIDE DEF t
  <2>2. /\ Placed(tab, loads) /\ Proper(tab.tool) /\ tab.started /\ tab.boot = "ready"
        /\ tab.page = "" /\ tab.ran.tool = tab.tool
        /\ BoxesKept(tab, left) /\ Columns(tab, chosen)
    BY <1>2, <1>4 DEF Within
  <2>3. Placed(t, loads) /\ Here(t) = Here(tab)
    BY <2>1, <2>2 DEF Placed, Here
  <2>4. BoxesKept(t, left)
    BY <2>1, <2>2, BoxesCarry
  <2>5. Columns(t, chosen)
    BY <2>1, <2>2, ColumnsCarry
  <2>6. PageFromPath(t) = PageFromPath(tab)
    BY <2>3 DEF PageFromPath
  <2> QED BY <2>1, <2>2, <2>3, <2>4, <2>5, <2>6 DEF Within, t
<1>5. CASE ConfigComes
  <2>1. ~hasty /\ tab.boot = "loading" /\ UNCHANGED <<loads, hasty, left, chosen>>
    BY <1>5 DEF ConfigComes
  <2>2. Whole(tab', loads, left, chosen)
    BY <1>1, <1>5, <2>1, ConfigIsWhole
  <2> QED BY <2>1, <2>2
<1>6. CASE ConfigFails
  <2>1. ~hasty /\ tab.boot = "loading" /\ UNCHANGED <<loads, hasty, left, chosen>>
        /\ tab' = [tab EXCEPT !.boot = "failed"]
    BY <1>6 DEF ConfigFails
  <2>2. /\ IsTab(tab') /\ tab'.boot = "failed" /\ tab'.page = tab.page /\ tab'.tool = tab.tool
        /\ tab'.memory = tab.memory /\ tab'.started = tab.started
        /\ SameStore(tab, tab') /\ tab'.entries = tab.entries /\ tab'.pos = tab.pos
    BY <1>1, <2>1 DEF IsTab, TabType, SameStore
  <2>3. Placed(tab, loads) /\ Settled(tab) /\ BoxesKept(tab, left) /\ Columns(tab, chosen)
    BY <1>1, <2>1 DEF Whole
  <2>4. Placed(tab', loads) /\ Here(tab') = Here(tab)
    BY <2>2, <2>3 DEF Placed, Here
  <2>5. Settled(tab')
    BY <2>1, <2>2, <2>3, <2>4 DEF Settled, PageFromPath
  <2>6. BoxesKept(tab', left)
    BY <2>1, <2>2, <2>3 DEF BoxesKept
  <2>7. Columns(tab', chosen)
    BY <2>2, <2>3 DEF Columns, SameStore, Remembers, OnTable
  <2> QED BY <2>1, <2>2, <2>4, <2>5, <2>6, <2>7 DEF Whole
<1>7. ASSUME NEW q \in Typed \cup {""}, TypeQuery(q) PROVE Goal
  <2> DEFINE t == [tab EXCEPT !.query = q]
  <2>1. Logs /\ Show(t) /\ UNCHANGED <<loads, hasty, chosen>> /\ ~hasty
    BY <1>7 DEF TypeQuery
  <2>2. q \in Queries
    BY DEF Queries
  <2>3. /\ Within(t, loads, left, chosen) /\ t.started /\ t.page = ""
        /\ Here(t) = Here(tab) /\ PageFromPath(t) = PageFromPath(tab) /\ t.tool = tab.tool
    BY <1>4, <2>1, <2>2
  <2> HIDE DEF t
  <2>4. Settled(tab) /\ tab.page = "" /\ tab.boot = "ready"
    BY <1>1, <1>2, <2>1 DEF Whole
  <2>5. Settled(t)
    BY <2>3, <2>4 DEF Settled, Within
  <2>6. Left(tab, t, left) = left /\ Kept(tab, t, left)
    BY <2>3 DEF Left, Kept
  <2>7. Whole(t, loads, left, chosen)
    BY <2>3, <2>5 DEF Whole, Within
  <2> QED BY <1>3, <2>1, <2>6, <2>7
<1>8. CASE RunIt
  <2>1. Logs /\ Show(Run(tab)) /\ UNCHANGED <<loads, hasty, chosen>> /\ ~hasty
    BY <1>8 DEF RunIt
  <2>2. Whole(Run(tab), loads, Left(tab, Run(tab), left), chosen) /\ Run(tab).tool = tab.tool
    BY <1>2, <2>1, WriteIsWhole
  <2>3. Kept(tab, Run(tab), left)
    BY <2>2 DEF Kept
  <2> QED BY <1>3, <2>1, <2>2, <2>3
<1>9. ASSUME NEW q \in Typed, AddFilter(q) PROVE Goal
  <2> DEFINE t == [tab EXCEPT !.query = q]
             r == Run(t)
  <2>1. Logs /\ Show(r) /\ UNCHANGED <<loads, hasty, chosen>> /\ ~hasty
    BY <1>9 DEF AddFilter
  <2>2. q \in Queries
    BY DEF Queries
  <2>3. Within(t, loads, left, chosen) /\ t.started /\ t.page = "" /\ t.tool = tab.tool
    BY <1>4, <2>1, <2>2
  <2> HIDE DEF t
  <2>4. Whole(r, loads, Left(t, r, left), chosen) /\ r.tool = t.tool
    BY <2>3, WriteIsWhole
  <2> HIDE DEF r
  <2>5. Left(t, r, left) = Left(tab, r, left) /\ Kept(tab, r, left)
    BY <2>3, <2>4 DEF Left, Kept
  <2> QED BY <1>3, <2>1, <2>4, <2>5
\* A step that changes nothing but the columns, here and where they are kept.
<1>10. ASSUME ~hasty, Logs, NEW r, IsTab(r), Show(r), UNCHANGED <<loads, hasty>>,
              r.boot = tab.boot, r.page = tab.page, r.tool = tab.tool, r.query = tab.query,
              r.memory = tab.memory, r.started = tab.started, r.ran = tab.ran,
              r.entries = tab.entries, r.pos = tab.pos,
              NEW ch, ch = chosen', Columns(r, ch)
       PROVE  Goal
  <2>1. /\ Placed(tab, loads) /\ Settled(tab) /\ BoxesKept(tab, left)
    BY <1>1, <1>10 DEF Whole
  <2>2. Placed(r, loads) /\ Here(r) = Here(tab)
    BY <1>10, <2>1 DEF Placed, Here
  <2>3. Settled(r)
    BY <1>10, <2>1, <2>2 DEF Settled, PageFromPath
  <2>4. BoxesKept(r, left)
    BY <1>10, <2>1, BoxesCarry
  <2>5. Left(tab, r, left) = left /\ Kept(tab, r, left)
    BY <1>10 DEF Left, Kept
  <2>6. Whole(r, loads, left, ch)
    BY <1>10, <2>2, <2>3, <2>4 DEF Whole
  <2> QED BY <1>3, <1>10, <2>5, <2>6
<1>11. ASSUME NEW f \in Toggled, ToggleColumn(f) PROVE Goal
  <2> DEFINE c == ToggledColumns(tab.columns, f)
             t == [tab EXCEPT !.columns = c]
             r == RememberColumns(t)
             k == IF c = DefaultColumnsFor(tab, tab.tool) THEN None ELSE c
             ch == [chosen EXCEPT ![tab.tool] = k]
  <2>1. Logs /\ ~hasty /\ Show(r) /\ UNCHANGED <<loads, hasty>> /\ chosen' = ch
    BY <1>11 DEF ToggleColumn
  <2>2. /\ IsTab(tab) /\ tab.boot = "ready" /\ tab.tool \in ToolIds /\ Columns(tab, chosen)
        /\ tab.columns \in Lists /\ chosen \in [ToolIds -> Lists \cup {None}]
    BY <1>1, <1>2, <2>1 DEF Within, IsTab, TabType, NavInv, TypeOK
  <2>3. c \in Lists /\ (MsgLast(tab.columns) => MsgLast(c))
    BY <2>2, ToggleKeepsMsgLast DEF Lists
  <2>4. k = (IF c = Configured(tab.tool) THEN None ELSE c) /\ c # None
    BY <2>2, <2>3, ConfiguredTyped, NoneIsNoList
  <2> HIDE DEF c, k
  <2>5. /\ IsTab(t) /\ t.boot = tab.boot /\ t.page = tab.page /\ t.tool = tab.tool
        /\ t.query = tab.query /\ t.memory = tab.memory /\ t.started = tab.started
        /\ t.ran = tab.ran /\ t.entries = tab.entries /\ t.pos = tab.pos
        /\ SameStore(tab, t) /\ t.columns = c
    BY <2>2, <2>3 DEF IsTab, TabType, SameStore
  <2> HIDE DEF t
  <2>6. ch[tab.tool] = k /\ \A u \in ToolIds : u # tab.tool => ch[u] = chosen[u]
    BY <2>2
  <2> HIDE DEF ch
  <2>7. OnTable(t, ch)
    <3>1. Made(ch, tab.tool) = c
      BY <2>4, <2>6 DEF Made
    <3>2. MsgLast(Configured(tab.tool)) => MsgLast(c)
      BY <2>2, <2>3 DEF Columns, OnTable
    <3> QED BY <2>5, <3>1, <3>2 DEF OnTable
  <2>8. \A u \in ToolIds \ {t.tool} :
            MsgLast(Configured(u)) /\ ch[u] # <<>> => Shown(t.stored[u], u) = Made(ch, u)
    BY <2>2, <2>5, <2>6 DEF Columns, Remembers, SameStore, Made
  <2>9. /\ IsTab(r) /\ SameDocument(t, r)
        /\ r.entries = t.entries /\ r.pos = t.pos /\ r.started = t.started /\ r.ran = t.ran
        /\ r.tool = t.tool /\ r.query = t.query /\ r.memory = t.memory /\ r.columns = t.columns
        /\ r.stored = [t.stored EXCEPT ![t.tool] = Memo(t, t.columns)]
        /\ r.disk = r.stored /\ ~r.foreign
    BY <2>5, Remembered
  <2> HIDE DEF r
  <2>10. Remembers(r, ch)
    BY <2>2, <2>5, <2>7, <2>8, <2>9, TableRemembered
  <2>11. OnTable(r, ch)
    BY <2>5, <2>7, <2>9 DEF OnTable, SameDocument
  <2>12. Columns(r, ch)
    BY <2>9, <2>10, <2>11 DEF Columns
  <2>13. r.boot = tab.boot /\ r.page = tab.page
    BY <2>5, <2>9 DEF SameDocument
  <2> QED BY <1>10, <2>1, <2>5, <2>9, <2>12, <2>13
<1>12. CASE ResetColumns
  <2> DEFINE st == [tab.stored EXCEPT ![tab.tool] = None]
             c == DefaultColumnsFor(tab, tab.tool)
             r == [tab EXCEPT !.stored = st, !.disk = st, !.foreign = FALSE, !.columns = c]
             b == [tab EXCEPT !.stored[tab.tool] = None, !.columns = c]
             ch == [chosen EXCEPT ![tab.tool] = None]
  <2>1. Logs /\ ~hasty /\ Show(PersistColumns(b)) /\ UNCHANGED <<loads, hasty>> /\ chosen' = ch
    BY <1>12 DEF ResetColumns
  <2>2. /\ IsTab(tab) /\ tab.boot = "ready" /\ tab.tool \in ToolIds /\ Columns(tab, chosen)
        /\ tab.stored \in [ToolIds -> Lists \cup {None}]
        /\ chosen \in [ToolIds -> Lists \cup {None}]
    BY <1>1, <1>2, <2>1 DEF Within, IsTab, TabType, NavInv, TypeOK
  <2>3. PersistColumns(b) = r
    BY <2>2 DEF PersistColumns, IsTab, TabType
  <2>4. c = Configured(tab.tool) /\ c \in Lists
    BY <2>2, ConfiguredTyped
  <2>5. /\ st \in [ToolIds -> Lists \cup {None}] /\ st[tab.tool] = None /\ ch[tab.tool] = None
        /\ \A u \in ToolIds : u # tab.tool => st[u] = tab.stored[u] /\ ch[u] = chosen[u]
    BY <2>2
  <2> HIDE DEF st, c, ch, b
  <2>6. /\ IsTab(r) /\ r.boot = tab.boot /\ r.page = tab.page /\ r.tool = tab.tool
        /\ r.query = tab.query /\ r.memory = tab.memory /\ r.started = tab.started
        /\ r.ran = tab.ran /\ r.entries = tab.entries /\ r.pos = tab.pos
        /\ r.columns = c /\ r.stored = st /\ r.disk = st /\ ~r.foreign
    BY <2>2, <2>4, <2>5 DEF IsTab, TabType
  <2>7. Show(r)
    BY <2>1, <2>3
  <2> HIDE DEF r
  <2>8. Made(ch, tab.tool) = Configured(tab.tool) /\ Shown(None, tab.tool) = Configured(tab.tool)
    BY <2>5 DEF Made, Shown
  <2>9. Remembers(r, ch)
    <3> SUFFICES ASSUME NEW u \in ToolIds, MsgLast(Configured(u)), ch[u] # <<>>
                 PROVE  Shown(r.stored[u], u) = Made(ch, u)
      BY DEF Remembers
    <3>1. CASE u = tab.tool
      BY <2>5, <2>6, <2>8, <3>1
    <3>2. CASE u # tab.tool
      BY <2>2, <2>5, <2>6, <3>2 DEF Columns, Remembers, Made
    <3> QED BY <3>1, <3>2
  <2>10. OnTable(r, ch)
    BY <2>4, <2>6, <2>8 DEF OnTable
  <2>11. Columns(r, ch)
    BY <2>6, <2>9, <2>10 DEF Columns
  <2> QED BY <1>10, <2>1, <2>6, <2>7, <2>11
<1>13. ASSUME NEW id \in Offered, PickTool(id) PROVE Goal
  <2>1. Rail /\ Show(SelectTool(tab, id)) /\ UNCHANGED <<loads, hasty, chosen>> /\ ~hasty
    BY <1>13 DEF PickTool
  <2>2. LET r == SelectTool(tab, id) IN
        Whole(r, loads, Left(tab, r, left), chosen) /\ Kept(tab, r, left)
    BY <1>1, <2>1, PickIsWhole DEF Rail
  <2> QED BY <1>3, <2>1, <2>2
<1>14. CASE OpenStatus
  <2> DEFINE e == Entry("status", "", Here(tab).doc)
             o == Push(tab, "status", "", Here(tab).doc)
             r == [o EXCEPT !.page = "status"]
  <2>1. Rail /\ Show(r) /\ UNCHANGED <<loads, hasty, chosen>> /\ ~hasty
    BY <1>14 DEF OpenStatus
  <2>2. /\ Within(tab, loads, left, chosen) /\ Proper(Here(tab).path) /\ tab.boot = "ready"
        /\ Whole(tab, loads, left, chosen)
    BY <1>1, <2>1, WholeIsWithin DEF Rail
  <2>3. /\ "status" \in Paths /\ "" \in Queries /\ "status" \in AppPages \cup {""}
        /\ Proper("status") /\ "status" \in AppPages /\ Here(tab).doc \in 1..MaxLoads /\ IsTab(tab)
    BY <1>1, <2>1, HereTyped, ToolsTyped DEF Paths, AppPages, Proper, EntryType
  <2>4. /\ IsTab(o) /\ SameDocument(tab, o) /\ SameStore(tab, o)
        /\ o.tool = tab.tool /\ o.query = tab.query /\ o.memory = tab.memory
        /\ o.started = tab.started /\ o.columns = tab.columns /\ o.ran = tab.ran
        /\ Added(tab, o, e)
    BY <2>3, Pushed
  <2> HIDE DEF o
  <2>5. Placed(o, loads) /\ Here(o).path = "status"
    BY <2>2, <2>3, <2>4, PushedIsPlaced DEF Within
  <2>6. BoxesKept(o, left) /\ Columns(o, chosen) /\ o.boot = "ready"
    BY <2>2, <2>4, BoxesCarry, ColumnsCarry DEF Within, SameDocument
  <2>7. Within(o, loads, left, chosen)
    BY <2>2, <2>4, <2>5, <2>6 DEF Within
  <2>8. /\ Within(r, loads, left, chosen) /\ Here(r) = Here(o) /\ r.page = "status"
        /\ r.tool = o.tool /\ r.query = o.query /\ r.started = o.started
    BY <2>3, <2>7, TurnedIsWithin
  <2> HIDE DEF r
  <2>9. PageFromPath(r) = "status"
    BY <2>3, <2>5, <2>8 DEF PageFromPath
  <2>10. Settled(r)
    BY <2>3, <2>5, <2>8, <2>9 DEF Settled, Within
  <2>11. Whole(r, loads, left, chosen)
    BY <2>8, <2>10 DEF Whole, Within
  <2>12. Left(tab, r, left) = left /\ Kept(tab, r, left)
    BY <2>4, <2>8 DEF Left, Kept
  <2> QED BY <1>3, <2>1, <2>11, <2>12
<1>15. CASE Traverse
  <2>1. PICK to \in {tab.pos - 1, tab.pos + 1} \cap DOMAIN tab.entries :
            LET s == [tab EXCEPT !.pos = to]
            IN IF Here(s).doc = Here(tab).doc THEN PopState(s) ELSE LoadDocument(s) /\ UNCHANGED loads
    BY <1>15 DEF Traverse
  <2> DEFINE s == [tab EXCEPT !.pos = to]
  <2>2. \/ Here(s).doc = Here(tab).doc /\ PopState(s)
        \/ LoadDocument(s) /\ UNCHANGED loads
    BY <2>1
  <2>3. ~hasty /\ (PopState(s) => tab.boot = "ready")
    <3> HIDE DEF s
    <3>1. PopState(s) => ~hasty /\ tab.boot = "ready"
      BY DEF PopState
    <3>2. LoadDocument(s) => ~hasty
      BY DEF LoadDocument
    <3> QED BY <2>2, <3>1, <3>2
  <2>4. IsTab(tab) /\ Whole(tab, loads, left, chosen) /\ Placed(tab, loads) /\ IsNoted(left)
        /\ tab.pos \in DOMAIN tab.entries /\ tab.pos \in Nat
    BY <1>1, <2>3 DEF Whole, IsTab, TabType
  <2>5. /\ IsTab(s) /\ s.entries = tab.entries /\ s.pos = to /\ s.boot = tab.boot
        /\ s.started = tab.started /\ s.ran = tab.ran /\ s.columns = tab.columns
        /\ s.tool = tab.tool /\ s.query = tab.query /\ s.memory = tab.memory /\ SameStore(tab, s)
    <3>1. to \in Nat /\ to \in DOMAIN tab.entries
      <4>1. tab.entries \in Seq(EntryType)
        BY <2>4, HereTyped
      <4>2. to \in 1..Len(tab.entries) /\ to \in DOMAIN tab.entries
        BY <4>1, LenProperties
      <4> QED BY <4>2
    <3> QED BY <2>4, <3>1 DEF IsTab, TabType, SameStore
  <2>6. to # tab.pos /\ to \in DOMAIN tab.entries
    BY <2>4
  <2> HIDE DEF s
  <2>7. Placed(s, loads)
    BY <2>4, <2>5 DEF Placed
  <2>8. Columns(s, chosen)
    BY <2>4, <2>5, ColumnsCarry DEF Whole
  <2>9. CASE Here(s).doc = Here(tab).doc /\ PopState(s)
    <3>1. Within(tab, loads, left, chosen) /\ tab.boot = "ready"
      BY <2>3, <2>4, <2>9, WholeIsWithin
    <3>2. Proper(Here(s).path)
      BY <2>4, <2>5, <2>6, <2>9 DEF Placed, Here
    <3>3. BoxesKept(s, left)
      BY <2>5, <3>1, BoxesCarry DEF Within
    <3>4. Within(s, loads, left, chosen)
      BY <2>5, <2>7, <2>8, <3>1, <3>3 DEF Within
    <3> QED BY <2>3, <2>4, <2>5, <2>9, <3>1, <3>2, <3>4, PoppedIsWhole
  <2>10. CASE LoadDocument(s) /\ UNCHANGED loads
    <3>1. Whole(tab', loads, left', chosen') /\ tab'.boot = "loading"
      BY <2>5, <2>7, <2>8, <2>10, LoadIsWhole
    <3>2. Kept(tab, tab', left)
      BY <3>1 DEF Kept
    <3> QED BY <2>3, <2>10, <3>1, <3>2
  <2> QED BY <2>2, <2>9, <2>10
<1>16. ASSUME NEW q \in Typed, EditFragment(q) PROVE Goal
  <2> DEFINE s == Push(tab, Here(tab).path, q, Here(tab).doc)
  <2>1. PopState(s)
    BY <1>16 DEF EditFragment
  <2>2. ~hasty /\ tab.boot = "ready"
    <3> HIDE DEF s
    <3> QED BY <2>1 DEF PopState
  <2>3. /\ Within(tab, loads, left, chosen) /\ Proper(Here(tab).path) /\ IsTab(tab) /\ IsNoted(left)
    BY <1>1, <2>2, WholeIsWithin
  <2>4. q \in Queries /\ Here(tab).path \in Paths /\ Here(tab).doc \in 1..MaxLoads
    BY <2>3, HereTyped DEF Queries, EntryType
  <2>5. /\ IsTab(s) /\ SameDocument(tab, s) /\ SameStore(tab, s)
        /\ s.tool = tab.tool /\ s.query = tab.query /\ s.memory = tab.memory
        /\ s.started = tab.started /\ s.columns = tab.columns /\ s.ran = tab.ran
        /\ Added(tab, s, Entry(Here(tab).path, q, Here(tab).doc))
    BY <2>3, <2>4, Pushed
  <2> HIDE DEF s
  <2>6. Placed(s, loads) /\ Here(s).path = Here(tab).path
    BY <2>3, <2>5, PushedIsPlaced DEF Within
  <2>7. BoxesKept(s, left) /\ Columns(s, chosen)
    BY <2>3, <2>5, BoxesCarry, ColumnsCarry DEF Within, SameDocument
  <2>8. Within(s, loads, left, chosen)
    BY <2>2, <2>3, <2>5, <2>6, <2>7 DEF Within, SameDocument
  <2> QED BY <2>1, <2>2, <2>3, <2>5, <2>6, <2>8, PoppedIsWhole
<1>17. CASE Reload
  <2>1. LoadDocument(tab) /\ UNCHANGED loads
    BY <1>17 DEF Reload
  <2>2. ~hasty
    BY <2>1 DEF LoadDocument
  <2>3. Whole(tab', loads, left', chosen') /\ tab'.boot = "loading"
    BY <1>1, <2>1, <2>2, LoadIsWhole DEF Whole
  <2>4. Kept(tab, tab', left)
    BY <2>3 DEF Kept
  <2> QED BY <2>1, <2>2, <2>3, <2>4
<1>18. ASSUME NEW m \in OtherMaps, OtherTab(m) PROVE Goal
  <2>1. Logs /\ tab' = [tab EXCEPT !.disk = m, !.foreign = TRUE]
        /\ UNCHANGED <<loads, hasty, left, chosen>> /\ ~hasty
    BY <1>18 DEF OtherTab
  <2>2. m \in [ToolIds -> Lists \cup {None}]
    BY ReaderAssumption
  <2>3. /\ IsTab(tab') /\ tab'.boot = tab.boot /\ tab'.page = tab.page /\ tab'.tool = tab.tool
        /\ tab'.query = tab.query /\ tab'.memory = tab.memory /\ tab'.started = tab.started
        /\ tab'.ran = tab.ran /\ tab'.entries = tab.entries /\ tab'.pos = tab.pos
        /\ tab'.columns = tab.columns /\ tab'.stored = tab.stored /\ tab'.foreign
    BY <1>1, <2>1, <2>2 DEF IsTab, TabType
  <2>4. Columns(tab, chosen)
    BY <1>1, <2>1 DEF Whole
  <2>5. Columns(tab', chosen')
    BY <2>1, <2>3, <2>4 DEF Columns, Remembers, OnTable
  <2>6. Show(tab')
    BY <2>1, <2>3 DEF Show
  <2> QED BY <1>10, <2>1, <2>3, <2>5, <2>6
<1>19. ASSUME NEW link \in Links, Arrive(link[1], link[2]) PROVE Goal
  <2> DEFINE s == Push(tab, link[1], link[2], loads + 1)
  <2>1. LoadDocument(s) /\ loads < MaxLoads /\ loads' = loads + 1
    BY <1>19 DEF Arrive
  <2>2. ~hasty
    <3> HIDE DEF s
    <3> QED BY <2>1 DEF LoadDocument
  <2>3. IsTab(tab) /\ Placed(tab, loads) /\ Columns(tab, chosen)
    BY <1>1, <2>2 DEF Whole
  <2>4. link[1] \in Paths /\ link[2] \in Queries
    BY ReaderAssumption
  <2>5. loads \in Nat /\ loads + 1 \in 1..MaxLoads
    <3>1. loads \in 1..MaxLoads
      BY DEF NavInv, TypeOK
    <3> QED BY <2>1, <3>1, BoundsAssumption
  <2>6. /\ IsTab(s) /\ SameDocument(tab, s) /\ SameStore(tab, s)
        /\ s.tool = tab.tool /\ s.columns = tab.columns
        /\ Added(tab, s, Entry(link[1], link[2], loads + 1))
    BY <2>3, <2>4, <2>5, Pushed
  <2> HIDE DEF s
  <2>7. Placed(s, loads + 1)
    BY <2>3, <2>5, <2>6, ArrivedIsPlaced
  <2>8. Columns(s, chosen)
    BY <2>3, <2>6, ColumnsCarry DEF SameDocument
  <2>9. Whole(tab', loads + 1, left', chosen') /\ tab'.boot = "loading"
    BY <2>1, <2>6, <2>7, <2>8, LoadIsWhole
  <2>10. Kept(tab, tab', left)
    BY <2>9 DEF Kept
  <2> QED BY <2>1, <2>2, <2>9, <2>10
<1> QED BY <1>5, <1>6, <1>7, <1>8, <1>9, <1>11, <1>12, <1>13, <1>14, <1>15, <1>16, <1>17,
           <1>18, <1>19 DEF Next

-----------------------------------------------------------------------------
(* The theorems.                                                           *)

LEMMA NavigationHolds == Spec => []NavInv
<1>1. Init => NavInv
  <2> SUFFICES ASSUME Init PROVE NavInv
    OBVIOUS
  <2>1. /\ TypeOK /\ tab.boot = "loading" /\ tab.tool = NoTool /\ tab.page = PageFromPath(tab)
        /\ tab.memory = Forgotten /\ ~tab.started
        /\ tab.stored = [t \in ToolIds |-> None] /\ tab.disk = tab.stored
        /\ DOMAIN tab.entries = {1} /\ tab.entries[1].doc = 1
        /\ loads = 1 /\ left = Forgotten /\ chosen = [t \in ToolIds |-> None]
    BY InitTyped
  <2>2. Placed(tab, loads)
    <3>1. 1 \in 1..1
      OBVIOUS
    <3> QED BY <2>1, <3>1 DEF Placed
  <2>3. Settled(tab) /\ BoxesKept(tab, left)
    BY <2>1 DEF Settled, BoxesKept
  <2>4. Columns(tab, chosen)
    BY <2>1 DEF Columns, Remembers, OnTable, Shown, Made
  <2> QED BY <2>1, <2>2, <2>3, <2>4 DEF NavInv
<1>2. NavInv /\ [Next]_vars => NavInv'
  <2>1. ASSUME NavInv, Next PROVE NavInv'
    <3>1. TypeOK'
      BY <2>1, StepTyped DEF NavInv
    <3>2. ~hasty' => Whole(tab', loads', left', chosen')
      BY <2>1, StepIsWhole
    <3> QED BY <3>1, <3>2 DEF NavInv, Whole
  <2>2. ASSUME NavInv, UNCHANGED vars PROVE NavInv'
    BY <2>2 DEF NavInv, vars, TypeOK, Placed, Settled, BoxesKept, Columns, Remembers, OnTable,
                PageFromPath, Here
  <2> QED BY <2>1, <2>2
<1> QED BY <1>1, <1>2, PTL DEF Spec

\* Wherever the reader comes from, the path in the address bar, the tool of the
\* rail and the tool whose rows were asked for are one.
THEOREM AlwaysOneTool == Spec => []OneTool
<1>1. NavInv => OneTool
  <2> SUFFICES ASSUME NavInv, Logs, ~hasty
               PROVE  /\ tab.started
                      /\ Here(tab).path = ToolById(tab, tab.tool)
                      /\ tab.ran.tool = ToolById(tab, tab.tool)
    BY DEF OneTool
  <2>1. /\ tab.boot = "ready" /\ tab.started /\ Here(tab).path = tab.tool
        /\ tab.ran.tool = tab.tool /\ Proper(tab.tool)
    BY DEF NavInv, Settled, Logs
  <2>2. tab.tool \notin AppPages
    BY ToolsTyped DEF NavInv, TypeOK, TabType
  <2>3. ToolById(tab, tab.tool) = tab.tool
    BY <2>1, <2>2, ProperTool
  <2> QED BY <2>1, <2>3
<1> QED BY <1>1, NavigationHolds, PTL

\* The table has the columns its reader made, or the configured ones, whatever
\* tools and pages were opened in between and whatever other tabs wrote.
THEOREM ColumnsAreKept == Spec => []ColumnsKept
<1>1. NavInv => ColumnsKept
  <2> SUFFICES ASSUME NavInv, Logs, ~hasty, chosen[tab.tool] # <<>>,
                      MsgLast(DefaultColumnsFor(tab, tab.tool))
               PROVE  tab.columns = IF chosen[tab.tool] = None THEN DefaultColumnsFor(tab, tab.tool)
                                    ELSE chosen[tab.tool]
    BY DEF ColumnsKept
  <2>1. tab.boot = "ready" /\ OnTable(tab, chosen)
    BY DEF NavInv, Columns, Logs
  <2>2. DefaultColumnsFor(tab, tab.tool) = Configured(tab.tool)
    BY <2>1, ConfiguredTyped
  <2>3. tab.columns = Made(chosen, tab.tool)
    BY <2>1, <2>2 DEF OnTable
  <2> QED BY <2>2, <2>3 DEF Made
<1> QED BY <1>1, NavigationHolds, PTL

\* Whoever comes back to a tool, by the rail, Back or Forward, finds the box as
\* it was left, run or not.
THEOREM BoxesAreKept == Spec => BoxKept
<1>1. NavInv /\ [Next]_vars =>
        [(~hasty /\ tab.boot = "ready" /\ tab'.boot = "ready" /\ tab.started
         /\ tab'.tool # tab.tool) =>
            tab'.query = IF left[tab'.tool] # Unset THEN left[tab'.tool]
                         ELSE DefaultQueryFor(tab, tab'.tool)]_vars
  <2>1. ASSUME NavInv, Next, ~hasty, tab.boot = "ready", tab'.boot = "ready", tab.started,
               tab'.tool # tab.tool
        PROVE  tab'.query = IF left[tab'.tool] # Unset THEN left[tab'.tool]
                            ELSE DefaultQueryFor(tab, tab'.tool)
    <3>1. ~hasty'
      <4>1. hasty' \in {hasty, (hasty \/ tab.boot # "ready")}
        BY <2>1 DEF Next, ConfigComes, ConfigFails, TypeQuery, RunIt, AddFilter, ToggleColumn,
                    ResetColumns, PickTool, OpenStatus, Traverse, EditFragment, PopState, Reload,
                    LoadDocument, OtherTab, Arrive
      <4> QED BY <2>1, <4>1
    <3>2. tab'.query = BoxOf(left, tab'.tool)
      BY <2>1, <3>1, StepIsWhole DEF Kept
    <3> QED BY <2>1, <3>2, ConfiguredTyped DEF BoxOf
  <2> QED BY <2>1
<1> QED BY <1>1, NavigationHolds, PTL DEF Spec, BoxKept
=============================================================================
