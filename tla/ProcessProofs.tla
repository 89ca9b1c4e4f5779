--------------------------- MODULE ProcessProofs ---------------------------
(***************************************************************************)
(* How a process starts and ends, whatever is wrong with its               *)
(* configuration, whatever it is asked, and whether or not there is an     *)
(* exporter or a probe (IInv), and the types of what it starts (TypeInv).  *)
(* That it ends at all is left to TLC.                                     *)
(***************************************************************************)
EXTENDS Process, TLAPS

\* The configuration has a part that run() does not accept.
Refused == LoadFails \/ AuthFails \/ FaviconFails

\* One of its patterns is registered, and panics.
Panics == "base_path" \in wrong \/ (ExporterOn /\ "metrics.path" \in wrong)

Where == {"off", "loading", "wiring", "spawned", "serving", "exited"}
How == {"nil", "error", "killed", "panicked"}

\* run() is where it has come to only past what it looked at on the way, and
\* the process has ended exactly when run() has.
GotThere ==
    /\ pc \in Where /\ exit \in {"running"} \cup How
    /\ pc = "exited" <=> exit # "running"
    /\ pc = "wiring" => ~LoadFails
    /\ pc \in {"spawned", "serving"} => ~Refused

\* The server is shut down only after a signal, and -check-config looked at
\* the same parts.
Told ==
    /\ exit = "running" /\ server = "closed" => ctx = "done"
    /\ checked = "OK" => ~Refused
    /\ checked = "refused" => Refused

\* There is an exporter only where one is configured.
Exports == exporter = "starting" => ExporterOn

IInv == GotThere /\ Told /\ Exports /\ ExitHasCause

LEMMA Begins == Init => IInv
BY DEF Init, IInv, GotThere, Where, How, Told, Exports, ExitHasCause

\* The process ends, for one of its reasons.
LEMMA Ends ==
  ASSUME IInv, NEW how \in How, Exit(how), UNCHANGED configVars,
         UNCHANGED portTaken,
         how = "nil" => ctx' = "done",
         how = "error" => portTaken \/ Refused,
         how = "panicked" => Panics
  PROVE  IInv'
<1>1. UNCHANGED Refused /\ UNCHANGED <<LoadFails, AuthFails, FaviconFails>>
  BY DEF configVars, Refused, LoadFails, AuthFails, FaviconFails
<1>2. pc' = "exited" /\ exit' = how /\ exporter' # "starting"
  BY DEF Exit
<1> QED
  BY <1>1, <1>2
  DEF IInv, GotThere, Where, How, Told, Exports, ExitHasCause, configVars, Refused, Panics

\* The process goes on, and what is not its own end leaves run() alone.
LEMMA LeavesRunAlone ==
  ASSUME IInv, UNCHANGED <<configVars, pc, exit, portTaken>>, ctx' \in {ctx, "done"},
         exporter' = exporter \/ exporter' # "starting",
         server' = server \/ server' = "listening" \/ ctx' = "done"
  PROVE  IInv'
<1>1. UNCHANGED Refused /\ UNCHANGED <<LoadFails, AuthFails, FaviconFails>>
  BY DEF configVars, Refused, LoadFails, AuthFails, FaviconFails
<1> QED
  BY <1>1 DEF IInv, GotThere, Told, Exports, ExitHasCause, configVars

\* run() takes a step that the parts it has looked at allow.
LEMMA RunGoesOn ==
  ASSUME IInv, exit = "running", UNCHANGED <<configVars, exit, portTaken, ctx>>,
         exporter' = exporter \/ exporter' # "starting" \/ ExporterOn,
         server' \in {server, "listening"}, pc' \in Where \ {"exited"},
         pc' = "wiring" => ~LoadFails,
         pc' \in {"spawned", "serving"} => ~Refused
  PROVE  IInv'
<1>1. UNCHANGED Refused /\ UNCHANGED <<LoadFails, AuthFails, FaviconFails>>
  BY DEF configVars, Refused, LoadFails, AuthFails, FaviconFails
<1> QED
  BY <1>1 DEF IInv, GotThere, Told, Exports, ExitHasCause, configVars

LEMMA Continues == IInv /\ [Next]_vars => IInv'
<1> SUFFICES ASSUME IInv, [Next]_vars PROVE IInv'
  OBVIOUS
<1>1. CASE CheckConfig
  <2>1. checked' = IF Refused THEN "refused" ELSE "OK"
    BY <1>1 DEF CheckConfig, Refused
  <2>2. UNCHANGED Refused /\ UNCHANGED <<LoadFails, AuthFails, FaviconFails>>
    BY <1>1 DEF CheckConfig, Refused, LoadFails, AuthFails, FaviconFails
  <2> QED
    BY <1>1, <2>1, <2>2 DEF CheckConfig, metricsVars, IInv, GotThere, Told, Exports, ExitHasCause
<1>2. CASE Start
  BY <1>2, RunGoesOn DEF Start, metricsVars, IInv, GotThere, Where
<1>3. CASE Load
  <2>1. CASE LoadFails
    BY <1>3, <2>1, Ends DEF Load, Refused, How
  <2>2. CASE ~LoadFails
    BY <1>3, <2>2, RunGoesOn DEF Load, IInv, GotThere, Where
  <2> QED
    BY <2>1, <2>2
<1>4. CASE Wire
  <2>1. CASE AuthFails \/ FaviconFails
    BY <1>4, <2>1, Ends DEF Wire, Refused, How
  <2>2. CASE ~(AuthFails \/ FaviconFails) /\ "base_path" \in wrong
    <3>1. Exit("panicked") /\ UNCHANGED <<configVars, portTaken>>
      BY <1>4, <2>2 DEF Wire
    <3> QED
      BY <2>2, <3>1, Ends DEF How, Panics
  <2>3. CASE ~(AuthFails \/ FaviconFails) /\ "base_path" \notin wrong
    BY <1>4, <2>3, RunGoesOn DEF Wire, IInv, GotThere, Where, Refused
  <2> QED
    BY <2>1, <2>2, <2>3
<1>5. CASE Listen
  <2>1. exit = "running" /\ ~Refused
    BY <1>5 DEF Listen, IInv, GotThere
  <2>2. CASE server = "closed"
    <3>1. Exit("nil") /\ ctx = "done"
      BY <1>5, <2>1, <2>2 DEF Listen, IInv, Told
    <3> QED
      BY <1>5, <3>1, Ends DEF Listen, How
  <2>3. CASE server = "new" /\ portTaken
    BY <1>5, <2>3, Ends DEF Listen, How
  <2>4. CASE server # "closed" /\ ~(server = "new" /\ portTaken)
    BY <1>5, <2>1, <2>4, RunGoesOn DEF Listen, Where
  <2> QED
    BY <2>2, <2>3, <2>4
<1>6. CASE ServeReturns
  <2>1. ctx = "done"
    BY <1>6 DEF ServeReturns, IInv, GotThere, Told
  <2> QED
    BY <1>6, <2>1, Ends DEF ServeReturns, How
<1>7. CASE Signal
  <2>1. CASE pc = "loading"
    BY <1>7, <2>1, Ends DEF Signal, How
  <2>2. CASE pc # "loading"
    BY <1>7, <2>2, LeavesRunAlone DEF Signal
  <2> QED
    BY <2>1, <2>2
<1>8. CASE DrainStarts \/ DrainEnds \/ ExporterCloses \/ Probe \/ ProbeEnds
           \/ VLChanges \/ Discover \/ DiscoverAgain \/ IdPChanges
  BY <1>8, LeavesRunAlone
  DEF DrainStarts, DrainEnds, ExporterCloses, Probe, ProbeRegisters, metricsVars,
      PingReturns, ProbeTicks, ProbeEnds, VLChanges, Discover, DiscoverAgain, IdPChanges
<1>9. ASSUME NEW r \in Requests, Accept(r) \/ Answer(r) PROVE IInv'
  BY <1>9, LeavesRunAlone DEF Accept, Answer, metricsVars
<1>10. CASE UNCHANGED vars
  BY <1>10, LeavesRunAlone DEF vars, metricsVars
<1>11. CASE ExporterListens
  <2>1. CASE "metrics.path" \in wrong
    <3>1. Exit("panicked") /\ UNCHANGED <<configVars, portTaken>> /\ Panics
      BY <1>11, <2>1 DEF ExporterListens, IInv, Exports, Panics
    <3> QED
      BY <3>1, Ends DEF How
  <2>2. CASE "metrics.path" \notin wrong
    BY <1>11, <2>2, LeavesRunAlone DEF ExporterListens
  <2> QED
    BY <2>1, <2>2
<1> QED
  BY <1>1, <1>2, <1>3, <1>4, <1>5, <1>6, <1>7, <1>8, <1>9, <1>10, <1>11 DEF Next, Run

\* The process ends for a reason of its own: a signal, a configuration it
\* cannot use, an address it cannot have, or a panic at one of the two patterns
\* that nothing checks, the exporter's only where there is an exporter (run,
\* Serve).
THEOREM EndHasCause == Spec => []ExitHasCause
<1>1. IInv => ExitHasCause
  BY DEF IInv
<1> QED
  BY <1>1, Begins, Continues, PTL DEF Spec

\* -check-config and run() agree about every configuration: what it calls OK
\* fails to start only over the address or panics at one of the two patterns,
\* and what it refuses never serves.
THEOREM CheckAgrees == Spec => []CheckPredictsStart
<1>1. IInv => CheckPredictsStart
  BY DEF IInv, GotThere, Told, ExitHasCause, CheckPredictsStart, Refused, Patterns
<1> QED
  BY <1>1, Begins, Continues, PTL DEF Spec
-----------------------------------------------------------------------------
(* Types.                                                                  *)

\* The type invariant by its parts: the configuration and what surrounds the
\* process, run(), the listeners, and the probe, which is not started before
\* run() starts it, so that there is no gauge either.
AroundTyped ==
    /\ wrong \subseteq Parts \cup Patterns /\ authOn \in BOOLEAN /\ portTaken \in BOOLEAN
    /\ checked \in {"not asked", "OK", "refused"}
    /\ vl \in {"up", "down"} /\ idp \in {"up", "down"}
RunTyped ==
    /\ pc \in Where /\ exit \in {"running"} \cup How
    /\ pc = "exited" <=> exit # "running"
    /\ ctx \in {"live", "done"}
    /\ drain \in {"none", "waiting", "draining", "done"}
    /\ discovery \in {"none", "trying", "sleeping", "ended", "done"}
ServersTyped ==
    /\ server \in {"new", "listening", "closed"}
    /\ request \in [Requests -> {"idle", "active", "answered", "cut"}]
    /\ exporter \in {"none", "starting", "serving", "stopped", "failed"}
ProbeTyped ==
    /\ probe \in {"none", "starting", "pinging", "waiting", "ended"}
    /\ gauge \in {"absent", "0", "1"}
    /\ probe \in {"none", "starting"} => gauge = "absent"
    /\ probe \in {"pinging", "waiting"} => gauge # "absent"
    /\ pc \in {"off", "loading", "wiring"} => probe = "none"

TypeInv == AroundTyped /\ RunTyped /\ ServersTyped /\ ProbeTyped

\* What leaves the variables of a part alone leaves the part alone.
LEMMA PartsKept ==
  ASSUME TypeInv
  PROVE  /\ UNCHANGED <<wrong, authOn, checked, portTaken, vl, idp>> => AroundTyped'
         /\ UNCHANGED <<pc, exit, ctx, drain, discovery>> => RunTyped'
         /\ UNCHANGED <<server, request, exporter>> => ServersTyped'
         /\ UNCHANGED <<pc, probe, gauge>> => ProbeTyped'
<1>1. UNCHANGED <<wrong, authOn, checked, portTaken, vl, idp>> => AroundTyped'
  BY DEF TypeInv, AroundTyped
<1>2. UNCHANGED <<pc, exit, ctx, drain, discovery>> => RunTyped'
  BY DEF TypeInv, RunTyped
<1>3. UNCHANGED <<server, request, exporter>> => ServersTyped'
  BY DEF TypeInv, ServersTyped
<1>4. UNCHANGED <<pc, probe, gauge>> => ProbeTyped'
  BY DEF TypeInv, ProbeTyped
<1> QED
  BY <1>1, <1>2, <1>3, <1>4

\* An end takes what it finds.
LEMMA EndTyped ==
  ASSUME TypeInv, NEW how \in How, Exit(how),
         UNCHANGED <<configVars, portTaken, ctx, drain, gauge, vl, authVars>>
  PROVE  TypeInv'
<1>1. AroundTyped'
  BY PartsKept DEF configVars, authVars
<1>2. RunTyped'
  BY DEF TypeInv, RunTyped, Where, How, Exit, authVars
<1>3. ServersTyped'
  BY DEF TypeInv, ServersTyped, Exit
<1>4. ProbeTyped'
  BY DEF TypeInv, ProbeTyped, Exit
<1> QED
  BY <1>1, <1>2, <1>3, <1>4 DEF TypeInv

LEMMA StepTyped == TypeInv /\ [Next]_vars => TypeInv'
<1> SUFFICES ASSUME TypeInv, [Next]_vars PROVE TypeInv'
  OBVIOUS
<1> USE DEF configVars, metricsVars, authVars
<1>1. CASE CheckConfig
  <2>1. AroundTyped'
    BY <1>1 DEF CheckConfig, TypeInv, AroundTyped
  <2> QED
    BY <1>1, <2>1, PartsKept DEF CheckConfig, TypeInv
<1>2. CASE Start
  <2>1. RunTyped' /\ ProbeTyped'
    BY <1>2 DEF Start, TypeInv, RunTyped, ProbeTyped, Where
  <2> QED
    BY <1>2, <2>1, PartsKept DEF Start, TypeInv
<1>3. CASE Load
  <2>1. CASE LoadFails
    BY <1>3, <2>1, EndTyped DEF Load, How
  <2>2. CASE ~LoadFails
    <3>1. RunTyped' /\ ProbeTyped'
      BY <1>3, <2>2 DEF Load, TypeInv, RunTyped, ProbeTyped, Where
    <3> QED
      BY <1>3, <2>2, <3>1, PartsKept DEF Load, TypeInv
  <2> QED
    BY <2>1, <2>2
<1>4. CASE Wire
  <2>1. CASE AuthFails \/ FaviconFails
    BY <1>4, <2>1, EndTyped DEF Wire, How
  <2>2. CASE ~(AuthFails \/ FaviconFails) /\ "base_path" \in wrong
    BY <1>4, <2>2, EndTyped DEF Wire, How
  <2>3. CASE ~(AuthFails \/ FaviconFails) /\ "base_path" \notin wrong
    <3>1. RunTyped'
      BY <1>4, <2>3 DEF Wire, TypeInv, RunTyped, Where
    <3>2. ServersTyped' /\ ProbeTyped'
      BY <1>4, <2>3 DEF Wire, TypeInv, ServersTyped, ProbeTyped
    <3> QED
      BY <1>4, <2>3, <3>1, <3>2, PartsKept DEF Wire, TypeInv
  <2> QED
    BY <2>1, <2>2, <2>3
<1>5. CASE Listen
  <2>1. CASE server = "closed"
    BY <1>5, <2>1, EndTyped DEF Listen, How
  <2>2. CASE server = "new" /\ portTaken
    BY <1>5, <2>2, EndTyped DEF Listen, How
  <2>3. CASE server # "closed" /\ ~(server = "new" /\ portTaken)
    <3>1. /\ pc = "spawned" /\ pc' = "serving" /\ server' = "listening"
          /\ UNCHANGED <<exit, request, exporter, probe>>
          /\ UNCHANGED <<configVars, portTaken, ctx, drain, gauge, vl, authVars>>
      BY <1>5, <2>3 DEF Listen
    <3>2. RunTyped' /\ ServersTyped' /\ ProbeTyped'
      BY <3>1 DEF TypeInv, RunTyped, ServersTyped, ProbeTyped, Where
    <3> QED
      BY <3>1, <3>2, PartsKept DEF TypeInv
  <2> QED
    BY <2>1, <2>2, <2>3
<1>6. CASE ServeReturns
  BY <1>6, EndTyped DEF ServeReturns, How
<1>7. CASE Signal
  <2>1. CASE pc = "loading"
    BY <1>7, <2>1, EndTyped DEF Signal, How
  <2>2. CASE pc # "loading"
    <3>1. RunTyped'
      BY <1>7, <2>2 DEF Signal, TypeInv, RunTyped
    <3> QED
      BY <1>7, <2>2, <3>1, PartsKept DEF Signal, TypeInv
  <2> QED
    BY <2>1, <2>2
<1>8. CASE DrainStarts \/ DrainEnds
  <2>1. RunTyped' /\ ServersTyped'
    BY <1>8 DEF DrainStarts, DrainEnds, TypeInv, RunTyped, ServersTyped
  <2> QED
    BY <1>8, <2>1, PartsKept DEF DrainStarts, DrainEnds, TypeInv
<1>9. ASSUME NEW r \in Requests, Accept(r) \/ Answer(r) PROVE TypeInv'
  <2>1. ServersTyped'
    BY <1>9 DEF Accept, Answer, TypeInv, ServersTyped
  <2> QED
    BY <1>9, <2>1, PartsKept DEF Accept, Answer, TypeInv
<1>10. CASE ExporterListens \/ ExporterCloses
  <2>1. CASE ExporterListens /\ "metrics.path" \in wrong
    BY <2>1, EndTyped DEF ExporterListens, How
  <2>2. CASE ExporterCloses \/ (ExporterListens /\ "metrics.path" \notin wrong)
    <3>1. ServersTyped'
      BY <2>2 DEF ExporterListens, ExporterCloses, TypeInv, ServersTyped
    <3> QED
      BY <2>2, <3>1, PartsKept DEF ExporterListens, ExporterCloses, TypeInv
  <2> QED
    BY <1>10, <2>1, <2>2
<1>11. CASE Probe \/ ProbeEnds
  <2>1. ProbeTyped'
    BY <1>11
    DEF Probe, ProbeRegisters, PingReturns, ProbeTicks, ProbeEnds, TypeInv, ProbeTyped
  <2> QED
    BY <1>11, <2>1, PartsKept
    DEF Probe, ProbeRegisters, PingReturns, ProbeTicks, ProbeEnds, TypeInv
<1>12. CASE VLChanges \/ IdPChanges
  <2>1. AroundTyped'
    BY <1>12 DEF VLChanges, IdPChanges, TypeInv, AroundTyped
  <2> QED
    BY <1>12, <2>1, PartsKept DEF VLChanges, IdPChanges, TypeInv
<1>13. CASE Discover \/ DiscoverAgain
  <2>1. RunTyped'
    BY <1>13 DEF Discover, DiscoverAgain, TypeInv, RunTyped
  <2> QED
    BY <1>13, <2>1, PartsKept DEF Discover, DiscoverAgain, TypeInv
<1>14. CASE UNCHANGED vars
  BY <1>14, PartsKept DEF vars, TypeInv
<1> QED
  BY <1>1, <1>2, <1>3, <1>4, <1>5, <1>6, <1>7, <1>8, <1>9, <1>10, <1>11, <1>12, <1>13, <1>14
  DEF Next, Run

\* Every variable of the process keeps its type: run() has returned exactly when
\* the process has ended, and vl_up is absent until the probe has registered it
\* (run, Probe).
THEOREM ProcessTyped == Spec => []TypeOK
<1>1. Init => TypeInv
  BY DEF Init, TypeInv, AroundTyped, RunTyped, ServersTyped, ProbeTyped, Where, How
<1>2. TypeInv => TypeOK
  BY DEF TypeInv, AroundTyped, RunTyped, ServersTyped, ProbeTyped, Where, How, TypeOK
<1> QED
  BY <1>1, <1>2, StepTyped, PTL DEF Spec
=============================================================================
