# A TLA+ model of vlui

vlui is a log viewer for VictoriaLogs: a Go server that stands between the
browser and VictoriaLogs (`src/cmd`, `src/internal`) and a Vue single-page
application (`src/web/src`). This directory holds a model of it in TLA+, the TLC
configurations that check it on small instances, and theorems about it that the
TLA+ proof system checks for every value of the constants.

Everything is written from the code. A comment of the code is quoted only where
a property states what the comment says.

## The system

| Component | State it keeps | Operations | Talks to |
|---|---|---|---|
| live tail, `internal/api/tail.go` | ring of held history, settle timer, keepalive ticker, rows written | `handleTail`, `readLines`, `ring.add`, `ring.drain` | VictoriaLogs body, SSE to the browser, metrics |
| query streaming, `internal/api/query.go`, `web/src/api.ts` | rows forwarded, response buffer; in the browser the incomplete line | `handleQuery`, `pump`, `streamFailed`; `streamQuery`, `parseRow`, `check` | VictoriaLogs body, the HTTP response between them |
| workspace, `web/src/App.vue` | rows, running, error, histogram, facets, tail buffer, selected tool | `run`, `cancel`, `toggleTail`, `flushTail`, `stopTail`, `toggleFacets`, `selectTool`, `signOut` | query, hits, facets and tail requests; the session |
| tail reconnection, `api.ts`, `App.vue` | the EventSource; on the server nothing that outlives a tail | `openTail`, its `onerror`, the next `handleTail` | the live tail |
| navigation and URL, `App.vue` | page, workspaceStarted, the history, queriesByTool | `openStatus`, `onPopState`, `readURL`, `writeURL` | the browser's history, the workspace |
| columns, `App.vue` | columnsByTool, localStorage | `toggleColumn`, `resetColumns`, `rememberColumns` | other tabs, through localStorage |
| query box, `QueryBar.vue` | suggestions, popup, timer, the request in flight | `requestSuggestions`, `accept`, `close`, `onKeydown` | field name and value requests |
| sign-in, `internal/auth` | provider once discovered, secret; cookies in the browser | `discover`, `login`, `callback`, `logout`, `me`, `Middleware` | the identity provider, every other handler |
| session in the browser, `session.ts` | signedOut, loginPath | `markSignedOut`, `probe`, `begin` | every request of the page |
| tools and access, `tools.go` | configuration only | `resolveTool`, `authorizeTool`, `filters` | every handler |
| parameters, `params.go`, `stats.go`, `errors.go` | none | `timeRange`, `limit`, `optDuration`, `niceStep`, `upstream` | every handler |
| value styles, `config.go`, `api.go`, `valuestyle.ts` | none | `validateValueStyles`, `parseRange`, `handleConfig`, `valueRule` | the results table |
| configuration, `internal/config` | none after start | `normalize`, `validate` | everything |
| metrics, `internal/metrics` | counters, gauges, a cached probe | `TailStarted`, `QueryStarted`, `Probe` | handlers, VictoriaLogs |
| status page, `status.go`, `vl/storage.go`, `vl/promtext.go`, `StatusPage.vue` | the last answer | `handleStatus`, `StorageStats`, `parseSamples`, `summarise` | VictoriaLogs' metrics |
| process, `cmd/vlui/main.go` | two listeners | `run` | all of the above |

What is hard in it:

* **Two streams meet.** A tail opens with history and goes on with live rows. The
  history is held in a ring and released by one of three events that race: the
  first live row, a timer, the end of the stream.
* **Failure after the first byte.** A query's status is spent when its stream
  fails; what is left is a line in the stream, which may be cut into chunks
  anywhere.
* **Asynchronous answers in one pane.** Queries and tails write the same rows.
  Each can be superseded while it is in flight and resumes after that.
* **Goroutines and connections that must not outlive their request.**
* **A tail that is cut** is opened again by the browser on its own, by a server
  that remembers nothing of the one before.
* **Suggestions** are answered to a box that has changed since.
* **Tabs, restarts and replicas** share cookies, secrets and localStorage.
* **Starting and stopping.** Five goroutines, two listeners, a signal at any time,
  and two outside services that come and go.
* **Addresses.** The reader, the page and the browser all move the same history.
* **Edges of parameters**, where absent, unreadable, zero, negative and excessive
  values take different paths, and an access rule hangs on each handler.

`PROJECT.json` lists each such place with its line under `hazards`.

## Modules

### Tail: one live tail

`Tail` has the handler, the goroutine of `readLines`, the ring, the request's
context, the body of VictoriaLogs' answer and the browser's connection. A row is
its position in what VictoriaLogs sends; of its contents only its kind is kept
(a time before the tail began, a time after, none readable), which is what
`isHistory` tells apart.

* `pc` is where `handleTail` is; each `case` of its `select` is an action
  (`CtxDone`, `SettleTick`, `KeepaliveFails`, `ReceiveHistory`, `ReceiveLive`,
  `LinesClosed`), and a case is one step: its writes, its bookkeeping and its
  return with the deferred calls.
* `slots`, `added`, `open` are the three fields of `ring`. `Drained` is what
  `drain` returns, computed from them as the code does.
* `reader`, `taken`, `errc` are `readLines`. The channel is unbuffered: receiving
  is one step of both sides (`HandOver`). The error is in `errc` before the
  channel is closed.
* `settle` is the settle timer: running, or expired and waiting in its channel, or
  stopped. A reset takes an expiry back, which is what timers do from Go 1.23 on
  (`go.mod` asks for 1.26).
* `peer` and `ctx` are apart: a write may fail before the context ends and the
  other way round. A connection that is gone may accept some rows first
  (`Accepted`).

Left out: request parsing and the response headers; a keepalive comment that
succeeds (it changes nothing); blank lines (dropped by `readLines`).

`TailPromise` is the abstract tail: rows are held, released in one piece, then
followed one by one; what is shown is contiguous. `Tail!KeepsPromise` maps `Tail`
to it.

### TailSession: one press of "follow"

`TailTimers` has the clock that `Tail` leaves out, for the settle timer and the
keepalive ticker. `TailSession` extends it by what surrounds a tail: rows that are
ingested and grow old, the window and the row cap a tail asks for, the ceiling,
and the EventSource that opens the next tail when one has ended.

* `conn` is the connection: `"dead"` is one the network has cut (`Cut`) and the
  browser has not noticed (`Notice`); what is written to it is lost.
* Every tail asks for the same window: `Connect` sets `taken` to the first row in
  it, and `Hold` and `Follow` are the backfill and the live rows of `Tail` with
  the ring as a set. `Tail`'s own properties say that the ring is one.
* `StreamEnds` lets the browser connect again; `StreamFails` sends the error event,
  on which the page stops; a request that is refused (`Refused`) is not retried.
* `excused` is a history of the rows that nobody asked for: those already older
  than the window, or beyond the row cap, when a tail began.


### QueryStream: one query, end to end

`QueryStream` follows the bytes of a query from VictoriaLogs' body through `pump`
to `streamQuery` and `parseRow`. A line is three pieces: its first part, the
rest, the newline; so a body can break off inside a line, a last newline can be
missing, and a chunk can end anywhere. `pipe` is what was written to the
response, `flushed` how much of it has been pushed, `got` how much the browser has
read, `buffer` what `streamQuery` keeps for the next chunk. `ReadChunk` reads any
number of pieces. `age` counts flush intervals since `lastFlush`.

### Workspace: the page

`Workspace` has the refs of `App.vue` that hold what is on the screen, and the
requests in flight. JavaScript runs one task at a time, so a click, a timer or an
answer is one action. `run()` is cut where it waits: `Start` up to the first
`await`, then `Batch`, and one of `RunEnds`, `RunFails`, `RunAborted`.

* `runs` has the calls of `run()` that have not returned. Aborting marks one; its
  continuation (`RunAborted`: the `catch` and the `finally`) is a microtask and
  runs before any other task, which is the guard `Task` of all other actions.
* Histogram and facet requests that were aborted disappear: each of their
  continuations does nothing when its signal is aborted.
* `tailing`, `tailSource` and `tailTimer` are set and cleared together and are one
  variable, `source`.
* `asked` lists what was asked for and under which tool; a row carries the number
  of the request it answers. It is there for the properties.
* A 401 can come with any answer that is not a stream yet, and raises the gate.
  An aborted request raises it too, if its 401 had come and only the body was
  missing (`AbortRaises`: `markSignedOut` is called before the body is read).
* Behind the gate there is no input (`Input`), but answers still arrive, and Back and
  Forward still work: `onPopState` has no guard, so `SelectTool` and the first `Run`
  have none either. Signing in leaves the page, so nothing follows.
* `signOut` is two tasks: `SignOut` stops everything and waits for the server,
  `LoggedOut` clears the screen. Nothing keeps the reader from clicking again while
  the answer is awaited, so `leaving` counts the calls that wait. `leftAt` remembers
  what had been asked by the last click.

Left out: what the query box, the address and the columns say (`Navigation`), the
row selection, elapsed time.

### QueryBox: the query box and its suggestions

`QueryBox` has `QueryBar.vue`: the query as a sequence of words with the caret in
one of them, the debounce, the requests in flight, the popup and the keys in it.

* `Watch` is the watcher on the query: it starts the timer, if the box has the
  focus. `LoadSuggestions` is what the timer runs, up to its `await`; the abort of
  the request before and its `catch` belong to it, as the `catch` is a microtask.
* `Answered` and `Failed` are the rest, at any later time.
* `answer` is the request the popup answers; `Offers` says what it then lists.
* `last` and `disturbed` are histories: what was asked last, and whether the box
  has changed since in a way that asks nothing.

A switch of the tool from outside is `OtherTool`. The names begin with `Box`
(`BoxInit`, `BoxNext`, `BoxSpec`) so that one module of proofs can extend this one
and `Navigation`.

Left out: quoting of values, the height of the box, the window of the request.

### Process: from the flags to the exit

`Process` has `main` and `run`, the goroutine that waits for the signal, the one
that serves the exporter, `Probe`, and the discovery goroutine of `auth.New`. The
configuration is reduced to which of its checked parts is wrong: the file with
what `config.Load` validates, the auth block, the favicon; and to whether one of the two
paths that nothing checks, `base_path` and `metrics.path`, is a pattern that a router
panics at (`Patterns`). What makes a part wrong is not looked into: a check is a
test of that part, at the place in the order where the code makes it.

* `pc` is where `run` is. `Wire` is one step, from `signal.NotifyContext` to the
  last `go` statement: nothing in it can be seen from outside.
* `server` and `drain` are apart, because `Shutdown` makes `ListenAndServe` return
  before it returns itself. `Exit` takes every goroutine and connection with it.
* `exit` is how it ended, `"panicked"` among it: over `base_path` in `Wire`, after
  what else could stop it there, and over `metrics.path` in the exporter's goroutine,
  where a panic ends the whole process.
* A signal before `NotifyContext` kills the process; one before `ListenAndServe`
  makes it return at once.
* `gauge` is `vl_up` as the registry shows it, absent until `Probe` registers it.
  VictoriaLogs and the identity provider go down and come back at any time.

### SignIn: one browser, one process, one provider

The process keeps no session: all it knows is its secret and whether discovery has
succeeded. `SignIn` has `login`, `callback`, `me`, `logout` and the middleware,
each of which reads the cookies its request was sent with and answers with the
cookies it sets; the browser's jar, which all tabs share; and what each tab shows.

* A request and its answer are apart (`Send`, `Serve`, `Receive`), so an answer
  sets its cookies after whatever another tab did meanwhile; either may be lost.
* A cookie is what is signed and the secret it is signed with. `Restart` draws
  another secret unless `cookie_secret` is configured. Replicas with one
  configured secret are what a restart at any moment is.
* A code is exchanged once. The exchange may fail before or after the provider
  has done it, and the reader may reload the callback.
* `spoiled` is a history of the logins whose cookie the browser no longer has or
  whose secret is gone; `LoginSurvives` is about all others.

### Requests: from a form to a call

`Requests` has the validation of the configuration, the tool and its filter, the
parameters, the call that is made of them and the status that comes back. Four
places give a call its deadline, each for endpoints of its own: `QueryDeadline`,
`TailDeadline`, `GetJSONDeadline` and `StatusDeadline`. The handlers share no state,
so one request is followed at a time; what makes cases is data. `Refusal` is each
handler's checks in their order, `CallOf` the form it sends. Time is in seconds; an
absent and an unreadable value are two numbers no parameter has. A refused
configuration serves nothing. `rail` is what `/api/config` listed last, and to whom.

It extends two modules of pure definitions. `Styles` has the value styles: the
rules `validateValueStyles` lets through, what `handleConfig` makes of them, and
the rule `valueRule` picks in the page; `Meant` is the reference they are compared
with. `StorageStats` has the status page's figures: `Kept` is what `parseSamples`
lets through of a line, `Take` one turn of `summarise`'s loop, `Gathered` the loop as a
recursive function of how far it has come, `Summarise` the sums; `Faithful` compares
the answer with the lines themselves. A line is its gauge, the value of the one label
that matters for it, its number and whether it can be read, which is one bit: the
syntax of the format is not modelled.

* A label's value is in two parts, what `CutPrefix` looks for and the rest. Every
  `storage/<name>` is a tier, the empty name's too, and counts in the sums, as in
  `summarise` (`storage.go:108`); the index's parts are none. Tiers are a function from
  their names: the order of the rows on the page (`storage.go:203`), in which unknown names
  come last, is left out.
* A number is in halves, so that what `int64` cuts off can be seen, and `read_only` is a
  test of the number itself. Numbers are finite and fit an `int64`.
* A line longer than `maxMetricsLine` cannot be read. A page ends before
  `maxMetricsBody`: at 16 MiB the code stops reading without an error
  (`storage.go:83`), and a line cut there could pass for a shorter number.

What the configuration, a request and a page of metrics are is an assumption each
(`ConfigAssumption` with `RulesTyped`, `RequestAssumption`, `MetricsAssumption`): what
YAML decodes into the fields of `config.Config`, what `ParseForm` and `strconv` leave of
a form, whose account is one of those that sign in or none, and that the gauge of
partitions has no label. A range of a value style has already been cut at its dash.

### Navigation: where the reader is

`Navigation` has one tab: its session history, the address it is at, page, tool,
query box and columns, what `queriesByTool` remembers for the document and
`vlui.columns` in the browser: `stored` is the tab's copy, `disk` what localStorage
holds; `None` is nothing remembered, which an empty list is not. `OtherTab` is another
tab writing the whole of that key, and `foreign` says that it wrote last; a reload
reads it, and the next change of a column here overwrites it. `boot` says whether the
configuration has come: before it `toolById` finds nothing, and the defaults are the
built-in ones. `App.vue`'s functions call one another, so they are operators from a tab
to a tab (`SelectTool`, `OnPopState`, `StartWorkspace`, `ReadURL`, `WriteURL`) and the
actions apply them: the rail, the box, the columns, Back and Forward, the address bar,
links and reloads. The window and the row cap are read and written with `q` in the same
statements and left out.

The tools' ids are unique, not empty and none of the application's own paths, which
`validateTools` and `reservedIDs` see to (`ToolsAssumption`). A column's name is not
empty (`FieldsAssumption`); names with a comma, which `rememberColumns` could not tell
apart because it compares lists by joining them, are left out.

Three exceptions its properties make, each a corner the code really has:

* `hasty` (`OneTool`, `BoxKept`, `ColumnsKept`): a tab in which a popstate arrived before
  the configuration had. `onPopState` then starts the workspace without a tool,
  `writeURL` replaces the path with the bare base, and the first tool is opened when the
  configuration comes; an unknown path can later be selected by Back, and what is
  remembered of box and columns was compared with the built-in defaults.
* A tool whose configured fields have a column after `_msg` (`ColumnsKept`):
  `withMsgLast` moves `_msg` to the end when remembered columns are read back.
* A table left without any column (`ColumnsKept`): `columnsFor` (`App.vue:107`) takes an
  empty list for none, so such a table comes back with the configured ones.

## What is checked

| Run | Instance | Shows |
|---|---|---|
| `tail` | `Limit` 2, 16 streams of up to 5 rows, with every ending and every point at which the browser leaves | `NoGap`: the seam between history and live rows loses, repeats and reorders nothing. `RingHolds`: the ring after it has wrapped. `BackfillBounded`: at most `limit` rows of history are shown of a stream in `Steady`. `Accounted`: gauge and counter on every return. `EndIsComplete`: a tail that VictoriaLogs ended has shown all that arrived and reported a failure. `KeepsPromise`: refinement of `TailPromise`. `EveryRowShown`: nothing is held for ever. `Released`: no goroutine, body or gauge survives the request. |
| `tail_session` | settle 1, keepalive 2, window 3, ceiling 4 units; 4 rows, a cap of 2; cuts, ends, failures and refusals at any moment | `NothingMissed`: through every reconnection a row is missed only if nobody asked for it. `FollowIsKeptAlive`: never silent for longer than a keepalive once following |
| `tail_seam` | the same with 3 rows, and only the ceiling ends a tail (`CalmSpec`) | `SeamIsInvisible` fails, see below |
| `query_stream` | limit 2, up to 3 rows of 3 pieces, every chunking | `ShownIsPrefix`, `NoSilentTruncation`: a short result never passes for a whole one. `Settles`: the query ends on both sides |
| `workspace` | 2 tools, 3 requests of up to 2 rows, a tail pane of 1 row, 2 clicks on sign-out in a row | `OneWriter`; `SettledRowsAreTheLatest`, `HitsMatchWindow`, `ErrorIsTheLatest`: what has settled is the answer to what was asked last; `TailPaneIsNewest`: the newest rows, in order, through flushes and every way of stopping. `GateIsQuiet`: nothing that was asked for before the sign-out was clicked streams on or loads its histogram, nor is it left on the screen once the logout was answered |
| `query_box` | queries of two words, 2 tools, 4 words: one with two completions, one with itself, one with none, and the empty one | `OneAnswer`: an open popup is the answer to the last question, however late others come, and the keys stay within it. `OfferIsCurrent`: at rest it is about the word under the caret, the rest of the query and the tool |
| `process` | one query and one stream, exporter and probe on, every configuration and outage | `CheckPredictsStart`: what `-check-config` calls OK starts, unless the address is taken or a path is one that a router panics at. `ExitHasCause`: neither VictoriaLogs nor an exporter that cannot listen ends the process. `Stops`: a signal ends it whatever is open. `GaugeCatchesUp`: `vl_up` comes to say what is so. `LoginsComeBack`: discovery succeeds once the provider is back |
| `process_drain` | the same without exporter | `InFlightFinishes` fails, see below |
| `sign_in` | 2 tabs, 2 accounts of which one is allowed, 2 logins, 1 restart | `SessionsAreEarned`: a session belongs to an allowed account that signed in for that login. `LoginSurvives`: a restart loses no login. `SessionIsKept`: an outage of the provider loses no session |
| `sign_out` | the same | `SignOutEnds` fails, see below |
| `requests` | 11 tools in lists of up to two, with and without accounts; caps of 0 to 2 and default windows of 0 and 60; each parameter absent, unreadable, at and around its edges; value styles of up to two rules; pages of metrics in two orders, with lines missing, repeated and unreadable, known and unknown tiers, one without a name, and fractions | `Confined`: nothing is read outside a tool its reader may use, or beyond the row cap. `RailIsTruth`: what the rail lists is what works, under the query it lists. `BarsFit`: at every edge. `BlamesTheRightOne`: the status, but for an empty default window. `StylesAsWritten`: a value is drawn by the first rule the operator wrote for it. `StatusIsFaithful`: the figures are the last ones VictoriaLogs said, of every tier and path it names, and the sums are over all tiers |
| `navigation` | 2 tools, one with a filter and fields; histories of 2 entries, 2 documents; another tab that drops a column | `OneTool`: path, rail and rows name one tool. `ColumnsKept`, `BoxKept`: each tool keeps its own, beside another tab that writes the same key. `StatusIsADetour`: a look at the status page changes nothing |

The type invariants of all modules hold on these instances too; their runs leave
them out, because the theorems say it of every instance.

**Bounds.** A ring of two slots wraps with three rows and reuses every slot with
four. A limit of two against up to three rows is missed, met and exceeded. Three
requests let a query be superseded, and what superseded it be superseded again, in
every combination of query and tail; more requests repeat that. With a cap of one
the second row of a tail overflows the pane. In `TailSession` the times are small
and in the order of the code's own (750 ms, 15 s, 5 min, 1 h): a backfill can be cut
before and after it settles, a row can be shown by one tail, be missed by the next
and still be in the window of a third, and four rows overrun a cap of two twice. Two
words let the caret be in the word that is asked about and in another; more would be
more of the other. Two logins in two tabs are what it takes to overwrite a flow
cookie, and one restart what it takes to lose a secret or a provider in the middle
of either. A history of two entries has a Back and a Forward, and two documents a
Back into a page that has to load. `Links` are the addresses that can be opened from
outside, and `OtherTab` moves while the logs are shown. A page of metrics has one
tier twice, an unknown one and one without a name, so that a sum has something to
leave out and something to count twice; `MaxLogouts` of two lets the answer to one
logout come while another is awaited. `TooLong`, `MaxAge` and the `Max...` constants
are the bounds of the model; each saturates or stops the environment, never the
program.

**Fairness.** In `Tail` the two goroutines are scheduled, `select` takes some ready
case, the settle timer fires unless it is reset, and a request to VictoriaLogs whose
context has ended fails. A stream in `Steady` goes on within its history (`GoesOn`),
which is what "without a pause" says; otherwise neither VictoriaLogs nor the browser
is assumed to do anything, nor the ceiling to pass. In `QueryStream` both programs
run, the timeout passes (`context.WithTimeout`), net/http notices a closed
connection, and reading a body whose context has ended fails. In `Process` `run`,
the goroutine behind the signal, the probe with its ticker and discovery with its
waits are scheduled; nobody has to send a signal, a request that is no stream is
answered, a stream need not end. `TailSession`, `Workspace`, `QueryBox`, `SignIn`,
`Requests` and `Navigation` have safety properties only.

**Deadlock** is checked for `Navigation`, `TailSession` and `QueryBox`. Elsewhere the system may
stop: a tail, a query and a process end, a page whose reader has signed out waits
for nothing, a refused configuration serves nothing, and the bounds of `SignIn` run
out.

### Where the code does not do what it says

With a run whose counterexample shows it:

1. `process_drain`. `ListenAndServe` returns as soon as `Shutdown` is called, `run`
   returns after it and the process exits (`main.go:201`); the 15 seconds that are
   to let an in-flight query finish (`main.go:186`) are not waited for.
2. `tail_seam`. A tail that the ceiling has ended is opened again with the same
   backfill, and `flushTail` (`App.vue:417`) puts the rows in front of those that are
   there, so the rows of the last `start_offset` are on the pane twice. The comment
   (`tail.go:54`) says that nobody sees the seam, and the configuration's
   (`config.go:386`) that the user never sees the cut. `NothingMissed` is the other
   half: no row is lost.
3. `sign_out`. A logout request that does not get through leaves a good session in
   the browser behind the gate (`App.vue:788`), which the comment there denies.

Seen in the models and left without a run of their own:

* A pause of 750 ms within the history ends the backfill (`tail.go:149`) and the
  rest is sent unbounded; `tail.go:69` says only `limit` rows are written. This is
  why `BackfillBounded` speaks of the streams in `Steady`.
* Each held row resets the keepalive ticker and sends nothing (`tail.go:184`), so a
  backfill that keeps arriving is silent for as long as it lasts.
* Rows in the same chunk as the sentinel are lost with their batch (`api.ts:149`),
  although "whatever arrived before the failure is still worth showing"
  (`App.vue:309`).
* A body that fails inside a line leaves a torn line, to which the sentinel is
  appended (`query.go:127`); the browser reports an unreadable line.
* A superseded `run()` assigns its rows in its `catch` (`App.vue:310`), after the new
  one has emptied the pane (`App.vue:485`): the old tool's rows are back under the
  new tool's icon until the new rows come. `SettledRowsAreTheLatest` says that this
  heals.
* An address that differs from the open one in its query only is not read
  (`App.vue:697`), so address bar and screen disagree, although `src/README.md:37`
  calls the address shareable.
* A superseded `run()` sets `running` to false for its successor (`App.vue:313`).
* Facets kept through a tool switch with the panel closed are not loaded again when
  it is opened (`App.vue:236`).
* The limits of facets and field values and the step of the histogram are not
  clamped, though `api.go:4` says parameters are "validated and clamped here"; a
  blank query is trimmed by `queryFor` and forwarded as it is by `serveValues`.
* `default_range: 0` passes validation, and every request without a window is then
  answered 400, which blames the caller for the operator's file. `BlamesTheRightOne`
  excepts just these requests (`Windowless`), because no line of the repository promises
  otherwise. A histogram over more than 120 weeks has more than 120 bars.
* A bound of a value style that `ParseFloat` reads as NaN or infinite passes
  validation, and `/api/config` then answers 500, because JSON cannot carry it.
* Moving the caret asks nothing (`QueryBar.vue:56`), an empty word closes the popup
  without aborting the request in flight, and an answer that comes after the box was
  cleared, left or run opens the popup again. `OfferIsCurrent` excepts these
  (`disturbed`).
* What is started while a logout waits for its answer streams on behind the gate, and
  so does what Back or Forward starts behind it. Field values asked for when the panel is
  opened meanwhile are loaded over the old window. A gate that a 401 has raised without a
  sign-out stops nothing. `GateIsQuiet` speaks of none of these: it is about what was
  asked for before the click.
* `base_path` and `metrics.path` are normalised and not validated (`config.go:497`): where
  one of them holds a `{` that is not closed, chi or `ServeMux` panics. `-check-config`
  says OK to it, and a panic over `metrics.path` takes the application down from the
  exporter's goroutine, although "losing metrics is an observability outage, not a
  service one" (`main.go:171`). `CheckPredictsStart` and `ExitHasCause` name this case in
  their text instead of hiding it in a configuration that never has it.
* An answer that clears a refused session may reach the browser after a login has put a
  good one in its place (`auth.go:508`), and the good one is gone. `SessionIsKept` excepts
  exactly this.
* A backfill that takes longer than the ceiling is dropped and begun again by every
  next tail.
* Back or Forward before the configuration has come switches tools by the built-in
  defaults: remembered columns that equal them are forgotten (`App.vue:76`), and a
  query nobody typed is remembered for the tool that is left.
* A table whose last column was removed comes back with the configured columns
  (`App.vue:107`), although its empty list was stored.
* The status page shows `total - free` as used (`StatusPage.vue:124`), a negative
  number when VictoriaLogs has sent the one without the other.

## What is proved

For every value of the constants, from the assumptions the modules state: `Limit`,
`Window`, `Ceiling` are numbers, the streams are sequences of kinds, those in
`Steady` begin with their history, the keepalive is longer than the settle time, a
pane and a list of suggestions have room for one entry, a configuration, a request and
a page of metrics are what YAML, a form and VictoriaLogs make them, tools have ids of
their own, and whoever may sign in has an account. Every invariant and every action
property that a run checks is a theorem, and so is the type invariant of every module.

Each module of proofs has one inductive invariant for a component, or one that others
extend, a lemma for each kind of step, and the theorems that follow.

**Loops.** The code's loops are recursive functions of the number of turns done. What
such a function computes cannot be had from the library's induction theorems, which
need an operator for an argument; it is had from a least counterexample instead.
`MinIsLeast` (`LeastPosition`) is that some positions have a least; `EveryTurn`, that
what holds before the first turn and survives each holds after all, with a set for the
induction hypothesis; `LoopRuns`, that the function a `LET` chooses exists, so that it is
what its equations say. The three are stated in each module that has loops.

`TailProofs`:

* `TypeCorrect`, `ShownIsContiguous`, `RingIsRight`, `MetricsAreRight`,
  `EndingIsComplete` - from `IInv`: the types, `Flow`,
  `RingHolds`, `NoGap`, `Accounted`. `NoGap` alone is not inductive: that what is
  released continues what was shown needs the ring to hold the newest rows
  (`RingHolds`), which needs `added = taken` while it is open; and that a tail
  which ends has shown everything needs to know how the body, `errc` and the
  reader are coupled (`Flow`). The arithmetic is in `ModDistinct`: rows fewer than
  a ring apart have different slots. `DrainedRows` says what `drain` returns,
  `FlushStep` is what `SettleTick` and `ReceiveLive` share.
* `BackfillIsBounded` - from `SteadyAssumption` and `BoundInv`: in a stream of
  `Steady`, once the settle timer has fired or the ring is closed, no history is
  left to come. `FeedIsFixed` keeps the stream the same one.
* `TailKeepsPromise` - every step of `Tail` is a step of `TailPromise` or leaves
  its variables alone.

`TailSessionProofs`:

* `NoRowIsMissed` - from `SInv`. `NothingMissed` speaks of a tail that follows; while
  one still holds rows, each row it has taken is shown, excused or held, and each
  that it found is shown, excused or among the newest it will hold (`Accounted`).
  That needs the held rows to be history (`HeldIsHistory`), and `Connect` needs the
  rows outside the window to be a prefix (`OlderFirst`, `PrefixCounted`).
  `BeyondTheCap` is the ring: what a new row pushes out was not among the newest.
* `TimersTyped`, `FollowingIsKeptAlive` - of the timers alone (`TailTimers`), from
  `Covered`: while nothing is held, the silence is no longer than the ticker has run.
* `SessionIsKeptAlive` - that invariant holds in a session too: each of its steps is one
  of the timers', leaves them alone or begins anew (`SessionTimers`).

`QueryStreamProofs`: `StreamTyped`, `RowsAreAPrefix`, `NothingIsCutSilently`, from `IInv`.
Neither property says anything of the bytes on their way, so the invariant does.

* The response is whole lines, then perhaps pieces of one more, then perhaps the
  sentinel (`Piped`), and each of the two is there for a reason: the body broke off
  inside a line, something has failed (`Excused`).
* The browser has read whole lines and is inside one that it has in its buffer
  (`Reading`); the rows it has are the first of the result (`WithinResult`).
* `PieceRead`, `NewlineRead` and `EndRead` say what `parseRow` makes of each place in such
  a response, `ChunkReads` what a chunk of any size does, from the loop over its pieces.

`WorkspaceProofs`, in three layers, each inductive given the ones before:

* `PaneHasOneWriter`, `BannerIsTheLatest`, `HistogramMatches` - from `IInv`. It says more
  than "one": a call of `run()` that was not aborted, a tail and a banner can only be
  those of the latest request (`LatestWrites`), and what histogram is awaited is that of
  the window shown (`HitsFollow`).
* `RowsSettle`, `TailPaneKept`, `SignOutLeavesNothing` - from `Screen`. That the pane
  settles on the latest query needs to know that an aborted call of it is alone
  (`RowsOfQuery`), because that one still assigns its rows; that a tail's rows are the
  newest, that none has come while an aborted query is still to return, and that what
  older requests left is under them (`RowsOfTail`, `NewestOnTop`). `Left` and `Gate`
  date what is at work and what is shown after a sign-out by `leftAt`;
  `SignOutLeavesNothing` says no more than `GateIsQuiet` does, and nothing of what is asked
  for after the click. `FlushedRows`,
  `OneMoreOnTop` and `StillNewest` are what `flushTail` does to a pane.
* `WorkspaceTyped` - from `Panels`.

`PageProofs`, the query box: `BoxTyped`, `AnswerIsTheLast` and `OfferIsAboutTheWord`, from
`BoxInv`. At most one request is in flight and it is the last one asked (`OneAsked`);
only words are asked about, so a popup is never open over nothing (`AsksForWords`); and
what was asked last is about the box as it is, unless the timer runs or the box was
disturbed (`LastIsCurrent`).

`PageProofs`, navigation:

* `NavigationTyped`, `StatusNeverDisturbs` - from `StepTyped`. Below it is one lemma for
  each of `App.vue`'s functions on what it does to a tab: which fields it changes, and
  which it leaves (`Wrote`, `Ran`, `Read`, `Started`, `Switched`, `Pushed`, `Turned`).
* `AlwaysOneTool`, `ColumnsAreKept`, `BoxesAreKept` - from `NavInv`, for a tab that is not
  `hasty`. `OneTool` looks at one entry of the history, and Back can go to any, so every
  entry of a document must name a tool or a page, unless it is the document's only one,
  from before its configuration came (`Placed`).
  `Settled` couples path, page, tool and rows; `BoxesKept` says what is remembered of the
  tools that are not open; `Columns` couples the table, the tab's copy and localStorage,
  and holds through other tabs' writes because `stored` is only read when a document
  begins.
* The columns are lists of any length: `FilterKeeps`, `RemovalKeepsMsgLast` and
  `ToggleKeepsMsgLast` are that `toggleColumn` leaves `_msg` last.

`ProcessProofs`: `EndHasCause` and `CheckAgrees`, from where `run` can be after
which parts of the configuration it has looked at (`GotThere`), what a panic is
over, and that the server is shut down only after a signal (`Told`). `ProcessTyped`,
from `TypeInv`: the probe has to be known to start only where `run` starts it, or
its gauge could be registered before.

`SignInProofs`:

* `SessionsOfTheirOwn` - from `IInv`. That a session was earned has to be known of every
  answer on its way (`AllEarned`). A callback earns one only if the account it brings is
  the one that signed in for the login whose cookie comes with it, which needs each
  login to be of one tab until its code is exchanged (`OneTabEach`), and a callback to
  be about the login of its tab (`Travels`).
* `LoginsSurvive`, `SessionsAreKept` - from `Jars`. A login that was not spoiled is the one
  of the jar, signed with this process's secret, and its callback, wherever it is,
  brings that cookie (`Carried`). No cookie is of a secret still to come, and an answer
  that clears a session was asked with one that is refused for good (`Dated`): which is
  what makes dropping it harmless however late it arrives.
* `SignInTyped` - from `TypeInv`.

`RequestsProofs`:

* `ReadsAreConfined` - from `RInv`: a process that serves has passed validation, so a
  cap exists, and only such a process has a call or an answer (`Served`).
  `FilterIsTheTools` says that a request its tool does not stop has the filter of a
  tool its caller may use; `LimitIsCapped` is the row cap.
* `HistogramFits` - `StepFits` says what `niceStep` returns for every window.
* `RepliesBlameFairly`, `RailIsTold` - from `AInv`. A reply is judged long after the checks
  that led to it, so the invariant keeps the account: the call is the one that follows
  from the request, and a reply is what was found wanting or what became of the call
  (`Accounted`); the rail is the one of this configuration (`RailKept`). `RefusedForCause`
  and `RailLists` are the handlers' checks and `handleConfig`'s loop for every
  configuration.
* `StylesAreDrawn` - `RuleIsMeant`: for every valid list of rules and every value, parsing,
  publishing and matching pick the rule that was written first for it.
* `StatusIsTold` - `FiguresKept` and `SummaryIsFaithful`. `Says` writes down without a loop
  what the first so many lines have said: each figure the last one under its label
  (`LastWord`, `Unsaid`), a row for each tier and each path that was named (`TierRows`,
  `PathRows`). `TurnSays` is that a turn of the loop takes it from one line to the next,
  whatever the line is (`TierHeard`, `PathHeard`, `FoundHeard`), so that the loop ends with
  what the page says (`PageSaid`). It is a statement about pages as `StorageStats` has
  them, with figures that fit an `int64`.
* `RequestsTyped` - from those accounts and `CallersTyped`.

Only model-checked are the liveness properties, which are beyond the prover:
`EveryRowShown` and `Released` of a tail, `Settles` of a query, `Stops`, `GaugeCatchesUp`
and `LoginsComeBack` of the process.

## Plan

Modelled, checked and proved: `Tail`, `TailPromise`, `TailTimers`, `TailSession`,
`QueryStream`, `Workspace`, `QueryBox`, `Process`, `SignIn`, `Requests` with `Styles` and
`StorageStats`, `Navigation`. Next:

1. An abstract sign-in in which a session is granted only to an account the provider
   named, implemented by `SignIn`, and the proof that each step of `SignIn` is a step of
   it or a stutter.
2. An abstract pane: what is shown is replaced by a query or extended by a tail, as
   `Workspace` does it through its flushes and aborts.
3. The rest of `config.go`: what the environment and the defaults make of a file.

## Not modelled

* The virtual table and the other panels: arithmetic on pixels, and presentation of
  state that `Workspace` holds. Time formats and settings: pure formatting.
* Static files and the page's template, which are computed once; the reading of YAML;
  headers and encodings of calls.
* Request counters and histograms of the metrics: one call each, no state to relate.
* Packaging, charts and alerts: deployment material.

`PROJECT.json` gives the reason for each.
