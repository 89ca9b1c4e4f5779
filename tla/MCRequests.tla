---------------------------- MODULE MCRequests ----------------------------
(***************************************************************************)
(* Small instances of Requests.  The configs and the requests vary their   *)
(* parts a few at a time: tools with accounts, limits with the ceiling,    *)
(* windows with the clock and the steps of the ladder.                     *)
(***************************************************************************)
EXTENDS Requests, TLC

CONSTANTS ann, bob, ops, idA, idB, idApi, fA, fB, fPipe

MCUserGroups == (ann :> {ops}) @@ (bob :> {})

Tool(id, query, groups) == [id |-> id, query |-> query, groups |-> groups, style |-> NoStyle,
                             sound |-> TRUE]

MCTools == { Tool(idA, fA, {}), Tool(idA, fB, {}), Tool(idB, fB, {}),
             Tool(idB, NoQuery, {}), Tool(idA, fA, {ops}), Tool(idB, fB, {ops}),
             Tool(idB, NoQuery, {ops}), Tool(idA, fPipe, {}), Tool(idApi, fA, {}),
             Tool(NoId, fA, {}), [Tool(idA, fA, {}) EXCEPT !.sound = FALSE] }

MCConfig(auth, tools, status) ==
    [auth |-> auth, tools |-> tools, statusGroups |-> status, styles |-> << >>,
     maxRows |-> 4, defaultLimit |-> 2, defaultRange |-> 3600]

Blank     == [kind |-> "blank", n |-> 0]
NaN       == [kind |-> "nan", n |-> 0]
Number(n) == [kind |-> "number", n |-> n]

NoMatcher == [value |-> {}, range |-> <<>>, prefix |-> {}, default |-> FALSE,
              color |-> "ok", text |-> FALSE]
Ranges    == { <<Number(0), Number(3)>>, <<Number(3), Number(1)>>, <<Blank, Number(3)>>,
               <<Number(2), Blank>>, <<Blank, Blank>>, <<NaN, Number(3)>>,
               <<[kind |-> "word", n |-> 0], Number(3)>>, <<Number(1)>> }
Rules     == { [NoMatcher EXCEPT !.range = g] : g \in Ranges } \cup
             { [NoMatcher EXCEPT !.value = {"2"}], [NoMatcher EXCEPT !.prefix = {"a", "ab"}],
               [NoMatcher EXCEPT !.default = TRUE], [NoMatcher EXCEPT !.value = {"a"}, !.text = TRUE],
               [NoMatcher EXCEPT !.value = {"2"}, !.default = TRUE],
               [NoMatcher EXCEPT !.value = {"2"}, !.color = ""], NoMatcher,
               [NoMatcher EXCEPT !.value = {"2"}, !.color = "plaid"] }

MCValues ==
    { [id |-> ToString(n), kind |-> "number", n |-> n, blank |-> FALSE, long |-> FALSE] : n \in -1..4 }
    \cup
    { [id |-> w, kind |-> "word", n |-> 0, blank |-> w = "", long |-> w = "ab"] : w \in {"", "a", "ab", "b"} }

\* v is in halves.
Line(g, l, v) == [gauge |-> g, label |-> l, v |-> v, fits |-> TRUE]
OfIndex(name) == [under |-> "indexdb/", name |-> name]
MetricsPage   == << Line("data", Plain("storage"), 2), Line("rows", OfTier("small"), 5),
                    Line("rows", OfTier("big"), 6), Line("rows", OfIndex("small"), 8),
                    Line("rows", OfTier("cold"), 14), Line("parts", OfTier(""), 1),
                    Line("compressed", OfTier("small"), 10), Line("free", Plain("/data"), 13),
                    Line("total", NoLabel, 14), Line("other", OfTier("small"), 16),
                    Line("read_only", Plain("/data"), 1), Line("max_usage", OfTier("big"), -3),
                    Line("partitions", NoLabel, 0), Line("flag", Plain("retentionPeriod"), 20),
                    Line("rows", OfTier("small"), 22),
                    [Line("rows", OfTier("small"), 18) EXCEPT !.fits = FALSE] >>
\* All of it in two orders, all but one line, one line, and none.
MCMetricsPages ==
    {<<>>, MetricsPage, Reverse(MetricsPage)} \cup
    UNION { {<<MetricsPage[i]>>, RemoveAt(MetricsPage, i)} : i \in DOMAIN MetricsPage }

Styled(name, type, rules) ==
    [MCConfig(FALSE, <<[Tool(idA, fA, {}) EXCEPT !.style = name]>>, {}) EXCEPT
        !.styles = "level" :> [type |-> type, rules |-> rules]]

MCRawConfigs ==
    { MCConfig(auth, tools, status) :
        auth \in BOOLEAN, tools \in BoundedSeq(MCTools, 2), status \in {{}, {ops}} }
    \cup
    { [MCConfig(FALSE, <<Tool(idA, fA, {})>>, {}) EXCEPT
            !.maxRows = m, !.defaultLimit = d, !.defaultRange = w] :
        m \in 0..2, d \in 0..2, w \in {0, 60} }
    \cup
    { Styled("level", "", rules) : rules \in BoundedSeq(Rules, 2) }
    \cup
    { Styled(n, k, <<r>>) : n \in {"level", "lost"}, k \in {"text", "blink"}, r \in Rules }

MCNow == 100000000

MCRequest(endpoint, user) ==
    [NoRequest EXCEPT !.endpoint = endpoint, !.user = user, !.query = "typed", !.field = TRUE]

MCRequests ==
    { MCRequest(e, u) : e \in {"status", "config"}, u \in Callers }
    \cup
    { [MCRequest(e, u) EXCEPT !.tool = t, !.query = q] :
        e \in LogEndpoints, u \in Callers, t \in {NoId, idA, idB}, q \in {"none", "blank", "typed"} }
    \cup
    { [MCRequest(e, u) EXCEPT !.field = FALSE] : e \in {"names", "values"}, u \in Callers }
    \cup
    { [MCRequest(e, Nobody) EXCEPT !.limit = n] :
        e \in {"query", "tail", "facets", "values"}, n \in {Unreadable, 0, 1, 2, 3, 9} }
    \cup
    { [MCRequest("hits", Nobody) EXCEPT !.start = MCNow - w, !.step = s] :
        w \in {-60, 0, 1, 119, 120, 121, 240, 600, 3599, 3600, 86400, 1000000,
               10000000, 72576000, 72576001, 90000000},
        s \in {Absent, 0, 7} }
    \cup
    { [MCRequest(e, Nobody) EXCEPT !.start = s, !.end = f] :
        e \in {"query", "facets", "names", "tail"}, s \in {Unreadable, Absent, 500, 900},
        f \in {Unreadable, Absent, 500, 800} }
=============================================================================
