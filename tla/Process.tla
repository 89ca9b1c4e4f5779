------------------------------ MODULE Process ------------------------------
(***************************************************************************)
(* The life of one vlui process: cmd/vlui/main.go with the exporter and    *)
(* the health probe of internal/metrics.  -check-config may judge the      *)
(* configuration first; then the process is started with it, serves, is    *)
(* told to stop and exits.  The configuration is reduced to which of its   *)
(* checked parts is wrong, and which of the two paths in it that nothing   *)
(* checks is one that a router panics at.  net/http is external: Shutdown  *)
(* closes the listener and makes ListenAndServe return at once, and then   *)
(* waits for the requests that are being answered, or for its context.     *)
(***************************************************************************)
EXTENDS Naturals, FiniteSets

CONSTANTS
    Requests,    \* what browsers ask for
    Streams,     \* those of them that never finish by themselves: live tails
    ExporterOn,  \* metrics.listen is set
    ProbeOn      \* metrics.probe_interval is positive

ASSUME StreamsAssumption == Streams \subseteq Requests
ASSUME SwitchesAssumption == ExporterOn \in BOOLEAN /\ ProbeOn \in BOOLEAN

\* The parts of a configuration that are looked at: the file itself with what
\* config.Load validates, the auth block, and the favicon.
Parts == {"file", "auth", "favicon"}

\* The paths that are normalised and handed to a router as they are.  chi and
\* ServeMux panic at a pattern they cannot read: "{" that is not closed, say.
Patterns == {"base_path", "metrics.path"}

VARIABLES
    wrong,      \* the parts that are not acceptable, the patterns that panic
    authOn,     \* auth.enabled
    checked,    \* what -check-config said: "not asked", "OK" or "refused"
    pc,         \* where run() is
    exit,       \* how the process ended: "running", "nil", "error", "killed", "panicked"
    portTaken,  \* somebody else has the application's address
    ctx,        \* the context of signal.NotifyContext: "live" or "done"
    server,     \* the application's http.Server: "new", "listening", "closed"
    drain,      \* the goroutine that shuts it down
    request,    \* per request: "idle", "active", "answered" or "cut"
    exporter,   \* the goroutine that runs m.Serve
    probe,      \* the goroutine that runs m.Probe
    gauge,      \* vl_up as the registry exports it: "absent", "0" or "1"
    vl,         \* VictoriaLogs is "up" or "down"
    discovery,  \* the goroutine of auth.New
    idp         \* the identity provider is "up" or "down"

configVars == <<wrong, authOn, checked>>
metricsVars == <<exporter, probe, gauge>>
authVars == <<discovery, idp>>
vars == <<configVars, pc, exit, portTaken, ctx, server, drain, request, metricsVars, vl, authVars>>

Running == pc # "off" /\ exit = "running"

TypeOK ==
    /\ wrong \subseteq Parts \cup Patterns
    /\ authOn \in BOOLEAN
    /\ checked \in {"not asked", "OK", "refused"}
    /\ pc \in {"off", "loading", "wiring", "spawned", "serving", "exited"}
    /\ exit \in {"running", "nil", "error", "killed", "panicked"}
    /\ portTaken \in BOOLEAN
    /\ ctx \in {"live", "done"}
    /\ server \in {"new", "listening", "closed"}
    /\ drain \in {"none", "waiting", "draining", "done"}
    /\ request \in [Requests -> {"idle", "active", "answered", "cut"}]
    /\ exporter \in {"none", "starting", "serving", "stopped", "failed"}
    /\ probe \in {"none", "starting", "pinging", "waiting", "ended"}
    /\ gauge \in {"absent", "0", "1"}
    /\ vl \in {"up", "down"}
    /\ discovery \in {"none", "trying", "sleeping", "ended", "done"}
    /\ idp \in {"up", "down"}
    /\ pc = "exited" <=> exit # "running"
    /\ probe \in {"none", "starting"} => gauge = "absent"
    /\ probe \in {"pinging", "waiting"} => gauge # "absent"

Init ==
    /\ wrong \in SUBSET (Parts \cup Patterns)
    /\ authOn \in BOOLEAN
    /\ checked = "not asked"
    /\ pc = "off"
    /\ exit = "running"
    /\ portTaken \in BOOLEAN
    /\ ctx = "live"
    /\ server = "new"
    /\ drain = "none"
    /\ request = [r \in Requests |-> "idle"]
    /\ exporter = "none"
    /\ probe = "none"
    /\ gauge = "absent"
    /\ vl \in {"up", "down"}
    /\ discovery = "none"
    /\ idp \in {"up", "down"}

-----------------------------------------------------------------------------
(* What looks at the configuration.                                        *)

LoadFails == "file" \in wrong

\* Config.Validate, and auth.New with the same rules behind the same defaults.
AuthFails == authOn /\ "auth" \in wrong

\* LoadFavicon: not an image, not readable, empty or too large.
FaviconFails == "favicon" \in wrong

\* Bug: -check-config takes config.Load's word for the auth block.
CheckConfigLoadOnly ==
    /\ pc = "off"
    /\ checked = "not asked"
    /\ checked' = IF LoadFails \/ FaviconFails THEN "refused" ELSE "OK"
    /\ UNCHANGED <<wrong, authOn, pc, exit, portTaken, ctx, server, drain, request,
                   metricsVars, vl, authVars>>

\* vlui -check-config, a process of its own that answers and exits.
CheckConfig ==
    /\ pc = "off"
    /\ checked = "not asked"
    /\ checked' = IF LoadFails \/ AuthFails \/ FaviconFails THEN "refused" ELSE "OK"
    /\ UNCHANGED <<wrong, authOn, pc, exit, portTaken, ctx, server, drain, request,
                   metricsVars, vl, authVars>>

-----------------------------------------------------------------------------
(* run().                                                                  *)

\* The process is gone, and with it every goroutine and every connection.
Exit(how) ==
    /\ pc' = "exited"
    /\ exit' = how
    /\ server' = "closed"
    /\ request' = [r \in Requests |->
                      IF request[r] = "active" THEN "cut" ELSE request[r]]
    /\ exporter' = IF exporter \in {"starting", "serving"} THEN "stopped" ELSE exporter
    /\ probe' = IF probe = "none" THEN "none" ELSE "ended"

Start ==
    /\ pc = "off"
    /\ pc' = "loading"
    /\ UNCHANGED <<configVars, exit, portTaken, ctx, server, drain, request, metricsVars, vl, authVars>>

Load ==
    /\ pc = "loading"
    /\ IF LoadFails
       THEN Exit("error")
       ELSE pc' = "wiring" /\ UNCHANGED <<exit, server, request, exporter, probe>>
    /\ UNCHANGED <<configVars, portTaken, ctx, drain, gauge, vl, authVars>>

\* auth.New starts discovery unless the endpoints are given by hand, the
\* favicon is read, and everything is mounted under base_path; then the
\* exporter, the probe and the goroutine that waits for the signal are started.
Wire ==
    /\ pc = "wiring"
    /\ CASE AuthFails \/ FaviconFails -> Exit("error") /\ UNCHANGED <<drain, discovery>>
         [] ~(AuthFails \/ FaviconFails) /\ "base_path" \in wrong ->
                Exit("panicked") /\ UNCHANGED <<drain, discovery>>
         [] OTHER ->
                /\ pc' = "spawned"
                /\ exporter' = IF ExporterOn THEN "starting" ELSE "none"
                /\ probe' = IF ExporterOn /\ ProbeOn THEN "starting" ELSE "none"
                /\ drain' = "waiting"
                /\ discovery' \in IF authOn THEN {"trying", "done"} ELSE {"none"}
                /\ UNCHANGED <<exit, server, request>>
    /\ UNCHANGED <<configVars, portTaken, ctx, gauge, vl, idp>>

\* ListenAndServe: a server that was shut down already does not listen.
Listen ==
    /\ pc = "spawned"
    /\ CASE server = "closed" -> Exit("nil")
         [] server = "new" /\ portTaken -> Exit("error")
         [] OTHER -> /\ pc' = "serving"
                     /\ server' = "listening"
                     /\ UNCHANGED <<exit, request, exporter, probe>>
    /\ UNCHANGED <<configVars, portTaken, ctx, drain, gauge, vl, authVars>>

\* Bug: run() waits for the requests without a limit.
ServeReturnsDrained ==
    /\ pc = "serving"
    /\ server = "closed"
    /\ \A r \in Requests : request[r] # "active"
    /\ Exit("nil")
    /\ UNCHANGED <<configVars, portTaken, ctx, drain, gauge, vl, authVars>>

\* ListenAndServe returns ErrServerClosed as soon as Shutdown was called, and
\* run() and main() return after it.
ServeReturns ==
    /\ pc = "serving"
    /\ server = "closed"
    /\ Exit("nil")
    /\ UNCHANGED <<configVars, portTaken, ctx, drain, gauge, vl, authVars>>

Run == Load \/ Wire \/ Listen \/ ServeReturns

-----------------------------------------------------------------------------
(* Signals, and the goroutine that waits for one.                          *)

\* SIGTERM or SIGINT.  Before NotifyContext it ends the process by itself.
Signal ==
    /\ Running
    /\ ctx = "live"
    /\ IF pc = "loading"
       THEN Exit("killed") /\ UNCHANGED ctx
       ELSE ctx' = "done" /\ UNCHANGED <<pc, exit, server, request, exporter, probe>>
    /\ UNCHANGED <<configVars, portTaken, drain, gauge, vl, authVars>>

\* srv.Shutdown is called.
DrainStarts ==
    /\ exit = "running"
    /\ drain = "waiting"
    /\ ctx = "done"
    /\ drain' = "draining"
    /\ server' = "closed"
    /\ UNCHANGED <<configVars, pc, exit, portTaken, ctx, request, metricsVars, vl, authVars>>

\* It returns: nothing is being answered any more, or 15 seconds are over.
DrainEnds ==
    /\ exit = "running"
    /\ drain = "draining"
    /\ drain' = "done"
    /\ UNCHANGED <<configVars, pc, exit, portTaken, ctx, server, request, metricsVars, vl, authVars>>

-----------------------------------------------------------------------------
(* Browsers.                                                               *)

Accept(r) ==
    /\ server = "listening"
    /\ request[r] = "idle"
    /\ request' = [request EXCEPT ![r] = "active"]
    /\ UNCHANGED <<configVars, pc, exit, portTaken, ctx, server, drain, metricsVars, vl, authVars>>

\* A stream ends only because its browser leaves.
Answer(r) ==
    /\ request[r] = "active"
    /\ request' = [request EXCEPT ![r] = "answered"]
    /\ UNCHANGED <<configVars, pc, exit, portTaken, ctx, server, drain, metricsVars, vl, authVars>>

-----------------------------------------------------------------------------
(* The exporter and the probe.                                             *)

\* Bug: an exporter that cannot listen ends the process.
ExporterFailureEnds ==
    /\ exit = "running"
    /\ exporter = "starting"
    /\ "metrics.path" \notin wrong
    /\ Exit("error")
    /\ UNCHANGED <<configVars, portTaken, ctx, drain, gauge, vl, authVars>>

\* m.Serve listens, or cannot, which is logged and nothing else.  Before that
\* it registers its path, and a panic there is one of the whole process.
ExporterListens ==
    /\ exit = "running"
    /\ exporter = "starting"
    /\ IF "metrics.path" \in wrong
       THEN Exit("panicked")
       ELSE /\ exporter' \in {"serving", "failed"}
            /\ UNCHANGED <<pc, exit, server, request, probe>>
    /\ UNCHANGED <<configVars, portTaken, ctx, drain, gauge, vl, authVars>>

\* Its own goroutine shuts it down, be it before it listens.
ExporterCloses ==
    /\ exit = "running"
    /\ exporter \in {"starting", "serving"}
    /\ "metrics.path" \notin wrong
    /\ ctx = "done"
    /\ exporter' = "stopped"
    /\ UNCHANGED <<configVars, pc, exit, portTaken, ctx, server, drain, request, probe,
                   gauge, vl, authVars>>

\* The gauge is registered, at zero, and the first ping is sent.
ProbeRegisters ==
    /\ exit = "running"
    /\ probe = "starting"
    /\ gauge' = "0"
    /\ probe' = "pinging"
    /\ UNCHANGED <<configVars, pc, exit, portTaken, ctx, server, drain, request, exporter, vl, authVars>>

\* Bug: a failed ping is logged and the gauge left alone.
PingReturnsUnset ==
    /\ exit = "running"
    /\ probe = "pinging"
    /\ gauge' = IF vl = "up" THEN "1" ELSE gauge
    /\ probe' = "waiting"
    /\ UNCHANGED <<configVars, pc, exit, portTaken, ctx, server, drain, request, exporter, vl, authVars>>

\* The ping answers, fails, or ends with the context.
PingReturns ==
    /\ exit = "running"
    /\ probe = "pinging"
    /\ \/ gauge' = IF vl = "up" THEN "1" ELSE "0"
       \/ ctx = "done" /\ gauge' = "0"
    /\ probe' = "waiting"
    /\ UNCHANGED <<configVars, pc, exit, portTaken, ctx, server, drain, request, exporter, vl, authVars>>

\* case <-t.C, also beside a context that is done.
ProbeTicks ==
    /\ exit = "running"
    /\ probe = "waiting"
    /\ probe' = "pinging"
    /\ UNCHANGED <<configVars, pc, exit, portTaken, ctx, server, drain, request, exporter,
                   gauge, vl, authVars>>

ProbeEnds ==
    /\ exit = "running"
    /\ probe = "waiting"
    /\ ctx = "done"
    /\ probe' = "ended"
    /\ UNCHANGED <<configVars, pc, exit, portTaken, ctx, server, drain, request, exporter,
                   gauge, vl, authVars>>

Probe == ProbeRegisters \/ PingReturns \/ ProbeTicks

\* VictoriaLogs goes down or comes back.
VLChanges ==
    /\ Running
    /\ vl' = IF vl = "up" THEN "down" ELSE "up"
    /\ UNCHANGED <<configVars, pc, exit, portTaken, ctx, server, drain, request, metricsVars, authVars>>

-----------------------------------------------------------------------------
(* Discovery of the identity provider.                                     *)

\* Bug: the goroutine returns after an attempt that failed.
DiscoverOnce ==
    /\ exit = "running"
    /\ discovery = "trying"
    /\ discovery' = IF idp = "up" THEN "done" ELSE "ended"
    /\ UNCHANGED <<configVars, pc, exit, portTaken, ctx, server, drain, request, metricsVars,
                   vl, idp>>

\* tryDiscover, and what discover does with a failure.
Discover ==
    /\ exit = "running"
    /\ discovery = "trying"
    /\ \/ idp = "up" /\ discovery' = "done"
       \/ idp = "down" /\ ctx = "live" /\ discovery' = "sleeping"
       \/ ctx = "done" /\ discovery' = "ended"
    /\ UNCHANGED <<configVars, pc, exit, portTaken, ctx, server, drain, request, metricsVars,
                   vl, idp>>

\* The wait is over (2 seconds at first, doubled up to 30), or the context is.
DiscoverAgain ==
    /\ exit = "running"
    /\ discovery = "sleeping"
    /\ \/ discovery' = "trying"
       \/ ctx = "done" /\ discovery' = "ended"
    /\ UNCHANGED <<configVars, pc, exit, portTaken, ctx, server, drain, request, metricsVars,
                   vl, idp>>

\* The provider goes down or comes back.
IdPChanges ==
    /\ Running
    /\ idp' = IF idp = "up" THEN "down" ELSE "up"
    /\ UNCHANGED <<configVars, pc, exit, portTaken, ctx, server, drain, request, metricsVars,
                   vl, discovery>>

-----------------------------------------------------------------------------
Next ==
    \/ CheckConfig
    \/ Start
    \/ Run
    \/ Signal
    \/ DrainStarts
    \/ DrainEnds
    \/ \E r \in Requests : Accept(r) \/ Answer(r)
    \/ ExporterListens
    \/ ExporterCloses
    \/ Probe
    \/ ProbeEnds
    \/ VLChanges
    \/ Discover
    \/ DiscoverAgain
    \/ IdPChanges

Spec == Init /\ [][Next]_vars

\* Goroutines run.  Nobody has to send a signal or a request; a request that
\* is no stream is answered sooner or later, a stream need not be.
FairSpec ==
    /\ Spec
    /\ WF_vars(Run)
    /\ WF_vars(DrainStarts)
    /\ WF_vars(Probe)
    /\ WF_vars(Discover)
    /\ WF_vars(DiscoverAgain)
    /\ \A r \in Requests \ Streams : WF_vars(Answer(r))

-----------------------------------------------------------------------------
(* Properties.                                                             *)

\* What -check-config calls OK starts, as far as the file goes: only the
\* address can still be in the way, or one of the two patterns, which neither
\* it nor config.Load looks at.  What it refuses never gets to serve.
CheckPredictsStart ==
    /\ checked = "OK" /\ exit \in {"error", "panicked"} => portTaken \/ Patterns \cap wrong # {}
    /\ checked = "refused" => pc # "serving"

\* The process ends for a reason of its own: a signal, a configuration it
\* cannot use or an address it cannot have.  Neither VictoriaLogs nor an
\* exporter that cannot listen takes it down ("losing metrics is an
\* observability outage, not a service one", main.go:171); an exporter whose
\* path ServeMux panics at does, which is said here and not excused.
ExitHasCause ==
    /\ exit = "nil" => ctx = "done"
    /\ exit = "error" => portTaken \/ LoadFails \/ AuthFails \/ FaviconFails
    /\ exit = "panicked" => \/ "base_path" \in wrong
                            \/ ExporterOn /\ "metrics.path" \in wrong

\* "A restart is not held up by a forgotten live-tail tab": once the signal has
\* been caught the process ends, whatever is still open.
Stops == ctx = "done" ~> exit # "running"

\* vl_up follows VictoriaLogs on an idle instance: if it goes down for good the
\* gauge drops and stays down, and if it comes back for good the gauge rises.
GaugeCatchesUp ==
    /\ <>[](probe \in {"pinging", "waiting"} /\ vl = "down") => <>[](gauge = "0")
    /\ <>[](probe \in {"pinging", "waiting"} /\ vl = "up" /\ ctx = "live") => <>[](gauge = "1")

\* "The moment the IdP answers, logins work again with no restart": if the
\* provider comes back for good while the process runs, discovery succeeds.
LoginsComeBack ==
    <>[](idp = "up" /\ ctx = "live" /\ exit = "running" /\ discovery # "none")
        => <>(discovery = "done")

\* "Long enough for an in-flight query to finish" (main.go:187): a process that
\* was told to stop does not end over a query unless the 15 seconds are over.
InFlightFinishes ==
    [][pc = "serving" /\ pc' = "exited" =>
          \/ drain = "done"
          \/ \A r \in Requests \ Streams : request[r] # "active"]_vars
=============================================================================
