------------------------------- MODULE Styles -------------------------------
(***************************************************************************)
(* Value styles: the rules an operator writes for the values of a column   *)
(* (config.go), what /api/config makes of them (api.go), and the rule the  *)
(* page draws a value by (valuestyle.ts).                                  *)
(*                                                                         *)
(* A rule is [value, range, prefix, default, color, text]: the values it   *)
(* lists, the two sides of its range, the values that begin with its       *)
(* prefix, and what it does.  A side of a range is [kind, n], where kind   *)
(* is "blank", "word", "number", or "nan" for what ParseFloat reads and    *)
(* JSON cannot carry.  A value is [id, kind, n, blank, long].              *)
(***************************************************************************)
EXTENDS Integers, Sequences, FiniteSets, SequencesExt, FiniteSetsExt

Colors == {"ok", "error"}               \* StyleColors
Types  == {"tag", "text"}               \* StyleTypes
NoStyle == "no style"

\* What YAML leaves the rules of a style in.
RulesTyped(rules) ==
    /\ rules \in Seq({rules[i] : i \in DOMAIN rules})
    /\ \A i \in DOMAIN rules :
        /\ rules[i].default \in BOOLEAN
        /\ rules[i].range \in Seq([kind : {"blank", "word", "number", "nan"}, n : Int])

\* parseRange: a dash, a number on one side at least, the low one first.
RangeParses(range) ==
    /\ Len(range) = 2
    /\ \E i \in 1..2 : range[i].kind # "blank"
    /\ \A i \in 1..2 : range[i].kind # "word"
    /\ (\A i \in 1..2 : range[i].kind = "number") => range[1].n <= range[2].n

Matchers(r) == { m \in {"value", "range", "prefix", "default"} :
                    CASE m = "value"  -> r.value # {}
                      [] m = "range"  -> r.range # <<>>
                      [] m = "prefix" -> r.prefix # {}
                      [] OTHER        -> r.default }

\* validateValueStyles, one style.
ValidStyle(s) ==
    /\ s.type \in Types \cup {""}
    /\ s.rules # <<>>
    /\ \A i \in DOMAIN s.rules : LET r == s.rules[i] IN
        /\ Cardinality(Matchers(r)) = 1
        /\ r.default => i = Len(s.rules)
        /\ r.range # <<>> => RangeParses(r.range)
        /\ r.color = "" => r.text
        /\ r.color \in Colors \cup {""}

-----------------------------------------------------------------------------
(* handleConfig's rules.                                                   *)

\* Bug: a bound that is absent is sent as zero.
BoundAsNumber(side) == <<side.n>>

\* A pointer to a bound, which is absent when it was left open.
Bound(side) == IF side.kind = "blank" THEN <<>> ELSE <<side.n>>

Publish(s) ==
    [type  |-> IF s.type = "" THEN "tag" ELSE s.type,
     rules |-> [i \in DOMAIN s.rules |-> LET r == s.rules[i] IN
        [value |-> r.value, prefix |-> r.prefix, default |-> r.default,
         color |-> r.color, text |-> r.text,
         range |-> IF r.range = <<>> THEN <<>>
                   ELSE << [lo |-> Bound(r.range[1]), hi |-> Bound(r.range[2])] >>]]]

\* json.Marshal fails on a bound that is no finite number.
Encodes(s) ==
    \A i \in DOMAIN s.rules : \A k \in DOMAIN s.rules[i].range : s.rules[i].range[k].kind # "nan"

-----------------------------------------------------------------------------
(* valueRule: the rule a value is drawn by, or 0.                          *)

InRange(v, range) ==
    /\ v.kind = "number"
    /\ range.lo # <<>> => v.n >= range.lo[1]
    /\ range.hi # <<>> => v.n <= range.hi[1]

ValueRule(v, rules) ==
    IF v.blank \/ v.long THEN 0
    ELSE SelectInSeq(rules, LAMBDA r :
            \/ r.default
            \/ v.id \in r.value \cup r.prefix
            \/ r.range # <<>> /\ InRange(v, r.range[1]))

-----------------------------------------------------------------------------
(* What the operator wrote, read directly.                                 *)

Between(v, range) ==
    /\ v.kind = "number"
    /\ range[1].kind = "number" => range[1].n <= v.n
    /\ range[2].kind = "number" => v.n <= range[2].n

Covers(r, v) ==
    \/ "default" \in Matchers(r)
    \/ "value"  \in Matchers(r) /\ v.id \in r.value
    \/ "prefix" \in Matchers(r) /\ v.id \in r.prefix
    \/ "range"  \in Matchers(r) /\ Between(v, r.range)

\* The first rule that covers a value that is neither empty nor too long.
Meant(v, rules) ==
    LET covering == {i \in DOMAIN rules : Covers(rules[i], v)}
    IN IF v.blank \/ v.long \/ covering = {} THEN 0 ELSE Min(covering)
=============================================================================
