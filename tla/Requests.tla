----------------------------- MODULE Requests -----------------------------
(***************************************************************************)
(* What stands between a request to /api and VictoriaLogs: the config that *)
(* is validated at startup (config.go), the tool a request names and the   *)
(* filter that follows from it (tools.go), the other parameters            *)
(* (params.go, stats.go, query.go, tail.go, status.go), the call that is   *)
(* made of them (vl/endpoints.go), and the reply (errors.go).  What        *)
(* /api/config lists is what the page works with.                          *)
(*                                                                         *)
(* The handlers share no state, so one request is followed at a time.  An  *)
(* instant is a number of seconds and a duration is one too.  A query, a   *)
(* filter, a tool's id and a group are model values.                       *)
(***************************************************************************)
EXTENDS Styles, StorageStats

CONSTANTS
    RawConfigs,     \* the config files an operator may start this process with
    Requests,       \* the requests a caller may send
    UserGroups,     \* for each account that may sign in, its groups
    Reserved,       \* config.go's reservedIDs
    Piped,          \* the tool queries that hold a pipe
    NoQuery,        \* a tool's empty query, and a call without extra_filters
    NoId,           \* an empty id
    Nobody,         \* a caller without a session
    Values,         \* values of a column that has a style
    MetricsPages,   \* what /metrics of VictoriaLogs may hold
    Now             \* the time at which every request arrives

ASSUME NowAssumption    == Now \in Nat
ASSUME NobodyAssumption == Nobody \notin DOMAIN UserGroups

Endpoints    == {"query", "hits", "facets", "names", "values", "tail", "status", "config"}
LogEndpoints == Endpoints \ {"status", "config"}

\* What YAML and ParseForm leave a value in.
ASSUME ConfigAssumption ==
    \A c \in RawConfigs :
        /\ c.tools \in Seq({c.tools[i] : i \in DOMAIN c.tools})
        /\ c.maxRows \in Int /\ c.defaultLimit \in Int /\ c.defaultRange \in Int
        /\ \A n \in DOMAIN c.styles : RulesTyped(c.styles[n].rules)
ASSUME ValuesAssumption == \A v \in Values : v.n \in Int
ASSUME MetricsAssumption == \A lines \in MetricsPages : LinesTyped(lines)
ASSUME RequestAssumption ==
    \A r \in Requests :
        /\ r.endpoint \in Endpoints /\ r.user \in DOMAIN UserGroups \cup {Nobody}
        /\ r.query \in {"none", "blank", "typed"}
        /\ r.start \in Int /\ r.end \in Int /\ r.limit \in Int /\ r.step \in Int

VARIABLES
    process,    \* "starting", "serving", "refused"
    cfg,        \* config.Config, as far as requests depend on it
    req,        \* the request being served, or NoRequest
    call,       \* the call made to VictoriaLogs for it, or NoCall
    cause,      \* what VictoriaLogs did with the call
    reply,      \* the status written; Pending until then, Unwritten if none is
    rail,       \* what /api/config listed to the page last, and to whom
    figures     \* the lines the status page was last answered from, and how

vars == <<process, cfg, req, call, cause, reply, rail, figures>>

\* Values of a numeric form value that are not a number.
Absent     == -1
Unreadable == -2

Pending   == 0
Unwritten == -1

NoRequest == [endpoint |-> "none", user |-> Nobody, tool |-> NoId, query |-> "none",
              field |-> FALSE, start |-> Absent, end |-> Absent, limit |-> Absent,
              step |-> Absent]
NoCall    == [endpoint |-> "none", filter |-> NoQuery, query |-> "none",
              start |-> Absent, end |-> Absent, limit |-> Absent, step |-> Absent]
NotLoaded == [user |-> Nobody, tools |-> <<>>, styles |-> << >>, loaded |-> FALSE]
NoFigures == [lines |-> <<>>, stats |-> Summarise(<<>>)]

Callers == DOMAIN UserGroups \cup {Nobody}

-----------------------------------------------------------------------------
(* config.go: validate, validateTools.  A tool is its id, its query, its    *)
(* groups, the style of its field and "sound", which stands for the checks *)
(* on its legend (icon or letters) and on the names of its fields.         *)

\* Bug: an id may be used twice.
ValidToolsTwice(c) ==
    \A i \in DOMAIN c.tools : LET t == c.tools[i] IN
        /\ t.id # NoId /\ t.id \notin Reserved /\ t.sound
        /\ t.query \notin Piped
        /\ t.groups # {} => c.auth /\ t.query # NoQuery
        /\ t.style \in DOMAIN c.styles \cup {NoStyle}

ValidTools(c) ==
    /\ IsInjective([i \in DOMAIN c.tools |-> c.tools[i].id])
    /\ \A i \in DOMAIN c.tools : LET t == c.tools[i] IN
        /\ t.id # NoId /\ t.id \notin Reserved /\ t.sound
        /\ t.query \notin Piped
        /\ t.groups # {} => c.auth /\ t.query # NoQuery
        /\ t.style \in DOMAIN c.styles \cup {NoStyle}

Valid(c) ==
    /\ c.maxRows > 0 /\ c.defaultLimit > 0 /\ c.defaultLimit <= c.maxRows
    /\ \A n \in DOMAIN c.styles : ValidStyle(c.styles[n])
    /\ ValidTools(c)
    /\ c.statusGroups # {} => c.auth

-----------------------------------------------------------------------------
(* tools.go.                                                               *)

\* Nobody reaches a handler only where authentication is off.
InGroups(user, allowed) ==
    allowed = {} \/ (user # Nobody /\ UserGroups[user] \cap allowed # {})

Permitted(user, t) == InGroups(user, t.groups)

\* resolveTool's outcome: the position of the tool among cfg.Tools, 0 where no
\* tools are configured, or a refusal.
Unknown   == -400
Forbidden == -403

ResolveTool(r) ==
    LET named == SelectInSeq(cfg.tools, LAMBDA t : t.id = r.tool)
        n     == IF r.tool = NoId THEN 1 ELSE named
    IN IF cfg.tools = <<>> THEN 0
       ELSE IF n = 0 THEN Unknown
       ELSE IF Permitted(r.user, cfg.tools[n]) THEN n ELSE Forbidden

ToolQuery(r) == LET n == ResolveTool(r) IN IF n <= 0 THEN NoQuery ELSE cfg.tools[n].query

-----------------------------------------------------------------------------
(* params.go and stats.go.                                                 *)

\* queryFor: "none" is an error.  "blank" is a query of spaces, which queryFor
\* trims and serveValues does not.
QueryFor(r) ==
    IF r.query = "typed" THEN "typed"
    ELSE IF ToolQuery(r) # NoQuery THEN "star" ELSE "none"

ValuesQuery(r) == IF r.query = "none" THEN "star" ELSE r.query

End(r)   == IF r.end = Absent THEN Now ELSE r.end
Start(r) == IF r.start = Absent THEN End(r) - cfg.defaultRange ELSE r.start

RangeOk(r) == Unreadable \notin {r.start, r.end} /\ Start(r) < End(r)

Limit(r) ==
    IF r.limit <= 0 THEN cfg.defaultLimit
    ELSE IF r.limit > cfg.maxRows THEN cfg.maxRows ELSE r.limit

DefaultFacetValues == 10
DefaultValueLimit  == 200
OptInt(v, default) == IF v <= 0 THEN default ELSE v

TargetBuckets == 120
Ladder == << 1, 2, 5, 10, 15, 30, 60, 120, 300, 600, 900, 1800,
             3600, 7200, 10800, 21600, 43200, 86400, 604800 >>

\* Bug: the step is rounded down.
NiceStepDown(window) ==
    LET n == SelectLastInSeq(Ladder, LAMBDA d : TargetBuckets * d <= window)
    IN Ladder[IF n = 0 THEN 1 ELSE n]

\* ideal <= d, where ideal is window / TargetBuckets in nanoseconds: below a
\* second of window the quotient's remainder cannot tip the comparison.
NiceStep(window) ==
    LET n == SelectInSeq(Ladder, LAMBDA d : window <= TargetBuckets * d)
    IN Ladder[IF n = 0 THEN Len(Ladder) ELSE n]

Step(r) == OptInt(r.step, NiceStep(End(r) - Start(r)))
-----------------------------------------------------------------------------
(* The handlers: what each checks, in its order, and the call it makes.    *)

ToolCheck(r)  == LET n == ResolveTool(r)
                 IN IF n = Unknown THEN 400 ELSE IF n = Forbidden THEN 403 ELSE Pending
QueryCheck(r) == IF QueryFor(r) = "none" THEN 400 ELSE Pending
RangeCheck(r) == IF RangeOk(r) THEN Pending ELSE 400

\* The first check that fails answers for all.
First(a, b) == IF a # Pending THEN a ELSE b

Refusal(r) ==
    CASE r.endpoint \in {"query", "hits", "facets"} ->
            First(ToolCheck(r), First(QueryCheck(r), RangeCheck(r)))
      [] r.endpoint = "tail" -> First(ToolCheck(r), QueryCheck(r))
      [] r.endpoint \in {"names", "values"} ->
            IF r.endpoint = "values" /\ ~r.field THEN 400
            ELSE First(RangeCheck(r), ToolCheck(r))
      [] r.endpoint = "status" ->
            IF InGroups(r.user, cfg.statusGroups) THEN Pending ELSE 403
      [] OTHER -> Pending

\* Bug: autocomplete is not constrained by the tool.
FilterOfUnscopedValues(r) ==
    IF r.endpoint \in {"status", "names", "values"} THEN NoQuery ELSE ToolQuery(r)

FilterOf(r) == IF r.endpoint = "status" THEN NoQuery ELSE ToolQuery(r)

\* The form of a request that passed its checks (vl/endpoints.go).
CallOf(r) ==
    LET ranged == r.endpoint \notin {"tail", "status"}
    IN [endpoint |-> r.endpoint,
        filter   |-> FilterOf(r),
        query    |-> CASE r.endpoint = "status" -> "none"
                       [] r.endpoint \in {"names", "values"} -> ValuesQuery(r)
                       [] OTHER -> QueryFor(r),
        start    |-> IF ranged THEN Start(r) ELSE Absent,
        end      |-> IF ranged THEN End(r) ELSE Absent,
        limit    |-> CASE r.endpoint \in {"query", "tail"} -> Limit(r)
                       [] r.endpoint = "facets" -> OptInt(r.limit, DefaultFacetValues)
                       [] r.endpoint \in {"names", "values"} -> OptInt(r.limit, DefaultValueLimit)
                       [] OTHER -> Absent,
        step     |-> IF r.endpoint = "hits" THEN Step(r) ELSE Absent]

\* handleConfig's tools: its loop appends those that the caller may use.
Entry(t) == [id |-> t.id, query |-> t.query, style |-> t.style]

RailFor(user) ==
    LET listed[i \in 0..Len(cfg.tools)] ==
            IF i = 0 THEN <<>>
            ELSE IF Permitted(user, cfg.tools[i]) THEN Append(listed[i - 1], Entry(cfg.tools[i]))
            ELSE listed[i - 1]
    IN listed[Len(cfg.tools)]

\* Its styles: those that the tools listed refer to.
StylesFor(user) ==
    LET listed == RailFor(user)
    IN {listed[i].style : i \in DOMAIN listed} \ {NoStyle}

\* Bug: the status page takes a 4xx for the caller's fault.
FailureCodeNoQuery(endpoint, why) ==
    CASE why = "4xx"      -> 400
      [] why = "deadline" -> 504
      [] OTHER            -> 502

\* upstream, and what handleStatus does before it.
FailureCode(endpoint, why) ==
    CASE why = "4xx"      -> IF endpoint = "status" THEN 502 ELSE 400
      [] why = "deadline" -> 504
      [] OTHER            -> 502
-----------------------------------------------------------------------------
Init ==
    /\ process = "starting"
    /\ cfg \in RawConfigs
    /\ req = NoRequest /\ call = NoCall /\ cause = "none" /\ reply = Pending
    /\ rail = NotLoaded /\ figures = NoFigures

Load ==
    /\ process = "starting"
    /\ process' = IF Valid(cfg) THEN "serving" ELSE "refused"
    /\ UNCHANGED <<cfg, req, call, cause, reply, rail, figures>>

Idle == process = "serving" /\ req = NoRequest

\* The middleware turns a caller without a session away; with authentication
\* off there are no accounts.
Unauthenticated(r) == cfg.auth /\ r.user = Nobody

Turned(r) ==
    /\ Unauthenticated(r)
    /\ reply' = 401
    /\ UNCHANGED <<call, rail>>

\* GET /api/config, which writeJSON refuses to write with a bound it cannot.
ServeConfig(r) ==
    /\ ~Unauthenticated(r) /\ r.endpoint = "config"
    /\ IF \A n \in StylesFor(r.user) : Encodes(cfg.styles[n])
       THEN /\ rail' = [user |-> r.user, tools |-> RailFor(r.user), loaded |-> TRUE,
                        styles |-> [n \in StylesFor(r.user) |-> Publish(cfg.styles[n])]]
            /\ reply' = 200
       ELSE reply' = 500 /\ UNCHANGED rail
    /\ UNCHANGED call

\* A handler that found a parameter or the tool wanting.
Refuse(r) ==
    /\ ~Unauthenticated(r) /\ Refusal(r) # Pending
    /\ reply' = Refusal(r)
    /\ UNCHANGED <<call, rail>>

\* A handler that calls VictoriaLogs.
Forward(r) ==
    /\ ~Unauthenticated(r) /\ r.endpoint # "config" /\ Refusal(r) = Pending
    /\ call' = CallOf(r)
    /\ UNCHANGED <<reply, rail>>

Ask(r) ==
    /\ Idle
    /\ r.user # Nobody => cfg.auth
    /\ req' = r
    /\ Turned(r) \/ ServeConfig(r) \/ Refuse(r) \/ Forward(r)
    /\ UNCHANGED <<process, cfg, cause, figures>>

\* VictoriaLogs answers: with what was asked for, with a status of its own,
\* with something the client cannot decode, or not at all.  A stream's body is
\* forwarded undecoded.
VLAnswers ==
    /\ call # NoCall /\ reply = Pending
    /\ \E why \in {"ok", "4xx", "5xx", "unreachable", "garbled"} :
        /\ why = "garbled" => call.endpoint \notin {"query", "tail"}
        /\ why = "ok" => call.endpoint # "status"
        /\ cause' = why
        /\ reply' = IF why = "ok" THEN 200 ELSE FailureCode(call.endpoint, why)
    /\ UNCHANGED <<process, cfg, req, call, rail, figures>>

\* ... and with a page of metrics, which may hold none of a storage.
MetricsAnswered(lines) ==
    /\ call.endpoint = "status" /\ reply = Pending
    /\ figures' = [lines |-> lines, stats |-> Summarise(lines)]
    /\ cause' = IF figures'.stats.found THEN "ok" ELSE "no storage"
    /\ reply' = IF figures'.stats.found THEN 200 ELSE FailureCode("status", "no storage")
    /\ UNCHANGED <<process, cfg, req, call, rail>>

\* A context's deadline passes before VictoriaLogs has answered.
TimesOut(endpoints) ==
    /\ call.endpoint \in endpoints /\ reply = Pending
    /\ cause' = "deadline"
    /\ reply' = FailureCode(call.endpoint, "deadline")
    /\ UNCHANGED <<process, cfg, req, call, rail, figures>>

\* Each handler that streams sets one of its own, and the client sets one for
\* the rest: victorialogs.timeout, and tail_max_duration for a tail.
QueryDeadline   == TimesOut({"query"})
TailDeadline    == TimesOut({"tail"})
GetJSONDeadline == TimesOut({"hits", "facets", "names", "values"})
StatusDeadline  == TimesOut({"status"})

Deadline == QueryDeadline \/ TailDeadline \/ GetJSONDeadline \/ StatusDeadline

\* The browser goes away: nothing is written.
Leave ==
    /\ call # NoCall /\ reply = Pending
    /\ cause' = "canceled"
    /\ reply' = Unwritten
    /\ UNCHANGED <<process, cfg, req, call, rail, figures>>

Done ==
    /\ reply # Pending
    /\ req' = NoRequest /\ call' = NoCall /\ cause' = "none" /\ reply' = Pending
    /\ figures' = NoFigures
    /\ UNCHANGED <<process, cfg, rail>>

Next ==
    \/ Load
    \/ \E r \in Requests : Ask(r)
    \/ VLAnswers \/ (\E lines \in MetricsPages : MetricsAnswered(lines)) \/ Deadline \/ Leave
    \/ Done

Spec == Init /\ [][Next]_vars
-----------------------------------------------------------------------------
\* Every variable keeps its type; a call's limit and step are positive where
\* its endpoint has one, whatever the caller sent (limit, optInt, optDuration).
TypeOK ==
    /\ process \in {"starting", "serving", "refused"}
    /\ cfg.maxRows \in Int /\ cfg.defaultLimit \in Int /\ cfg.defaultRange \in Int
    /\ req.endpoint \in Endpoints \cup {"none"} /\ req.user \in Callers
    /\ call.endpoint \in Endpoints \cup {"none"}
    /\ call.query \in {"none", "star", "blank", "typed"}
    /\ call.start \in Int /\ call.end \in Int
    /\ {call.limit, call.step} \subseteq {Absent} \cup (Nat \ {0})
    /\ cause \in {"none", "ok", "no storage", "4xx", "5xx", "unreachable", "garbled", "deadline", "canceled"}
    /\ reply \in {Pending, Unwritten, 200, 400, 401, 403, 500, 502, 504}
    /\ rail.user \in Callers /\ rail.loaded \in BOOLEAN
    /\ Len(rail.tools) <= Len(cfg.tools)

Reading == call.endpoint \in LogEndpoints

\* Where tools are configured, nothing is read from the logs except under the
\* query of a tool its reader may use, whatever the request names or leaves out
\* (resolveTool, filters, and the handlers that have to pass the filter on); and
\* no query and no history of a tail is longer than max_rows, also when its
\* length is left to default_limit (limit, validate).
Confined ==
    /\ Reading /\ cfg.tools # <<>> =>
        \E i \in DOMAIN cfg.tools :
            Permitted(req.user, cfg.tools[i]) /\ call.filter = cfg.tools[i].query
    /\ call.endpoint \in {"query", "tail"} => call.limit \in 1..cfg.maxRows

\* The request comes from the page the rail was listed to.
FromPage == rail.loaded /\ req.user = rail.user
Offered(id) == \E i \in DOMAIN rail.tools : rail.tools[i].id = id

\* The rail is what its reader can use: a tool listed by /api/config is never
\* refused, the query listed with it, which the page shows beside the box, is
\* the filter its requests are made under, and a tool that is not listed, the
\* first one to a request that names none included, reads nothing
\* (handleConfig, resolveTool, validateTools).
RailIsTruth ==
    FromPage /\ req.endpoint \in LogEndpoints =>
        /\ \A i \in DOMAIN rail.tools : req.tool = rail.tools[i].id =>
            reply # 403 /\ (Reading => call.filter = rail.tools[i].query)
        /\ Reading /\ cfg.tools # <<>> =>
            Offered(IF req.tool = NoId THEN cfg.tools[1].id ELSE req.tool)

\* The histogram has as many bars as fit in TargetBuckets, and not fewer than
\* the ladder allows, for every window the ladder covers (niceStep).
BarsFit ==
    (call.endpoint = "hits" /\ req.step <= 0) =>
        LET window == call.end - call.start IN
        /\ window <= TargetBuckets * Ladder[Len(Ladder)] => window <= TargetBuckets * call.step
        /\ \A i \in DOMAIN Ladder : Ladder[i] < call.step => window > TargetBuckets * Ladder[i]

Malformed(r) ==
    \/ r.endpoint = "values" /\ ~r.field
    \/ r.tool # NoId /\ \A i \in DOMAIN cfg.tools : cfg.tools[i].id # r.tool
    \/ r.endpoint \in {"query", "hits", "facets", "tail"} /\ r.query # "typed"
    \/ r.endpoint # "tail" /\
        (Unreadable \in {r.start, r.end} \/ (r.start # Absent /\ r.start >= End(r)))

\* Nothing validates default_range: where it is not positive, a request that
\* names no start has an empty window, and no one but the operator is at fault.
Windowless(r) == r.endpoint # "tail" /\ r.start = Absent /\ cfg.defaultRange <= 0

\* A reply names the one who is at fault: 400 the caller, who sent something
\* malformed or a query VictoriaLogs refused, and never the reader of the
\* status page, who sent nothing; 502 and 504 VictoriaLogs; and 200 only what
\* VictoriaLogs answered (errors.go, status.go).  This does not speak of a
\* request that Windowless names: the code blames the caller for the operator's
\* default_range.
BlamesTheRightOne ==
    /\ reply = 400 => /\ req.endpoint \in LogEndpoints
                      /\ Malformed(req) \/ cause = "4xx" \/ Windowless(req)
    /\ reply \in {502, 504} => cause \in {"no storage", "4xx", "5xx", "unreachable", "garbled", "deadline"}
    /\ reply = 200 => req.endpoint = "config" \/ cause = "ok"
    /\ reply = 403 => cfg.auth
    /\ reply = 500 => \E n \in DOMAIN cfg.styles : ~Encodes(cfg.styles[n])

\* A value is drawn by the first rule that the operator wrote for it, and by
\* none if there is no such rule: parsing the range, publishing its bounds and
\* matching on the page do not add up to something else (validateValueStyles,
\* handleConfig, valueRule).
StylesAsWritten ==
    \A i \in DOMAIN rail.tools : rail.tools[i].style # NoStyle =>
        \A v \in Values :
            ValueRule(v, rail.styles[rail.tools[i].style].rules)
                = Meant(v, cfg.styles[rail.tools[i].style].rules)

\* What the status page shows is what VictoriaLogs said of the storage, nothing
\* twice, and a page of metrics without a storage is an error, never a row of
\* zeros (StorageStats, summarise).
StatusIsFaithful ==
    (reply = 200 /\ req.endpoint = "status") =>
        /\ Faithful(figures.lines, figures.stats)
        /\ \E i \in DOMAIN figures.lines : OfStorage(figures.lines[i])
=============================================================================
