------------------------------- MODULE SignIn -------------------------------
(***************************************************************************)
(* Signing in and out: internal/auth with the part of the page that drives *)
(* it (session.ts, check of api.ts, signOut of App.vue).  One process,     *)
(* which may be restarted, one browser with several tabs and one cookie    *)
(* jar, and one identity provider, which is external.  The process keeps   *)
(* no session: everything about a reader is in the two signed cookies.     *)
(*                                                                         *)
(* A cookie is what is signed and the secret it is signed with; flow 0     *)
(* means that there is none.  A login and the session it ends in have the  *)
(* same number.  Each tab has at most one request in flight.               *)
(***************************************************************************)
EXTENDS Naturals, FiniteSets

CONSTANTS
    Tabs,
    Users,          \* accounts of the provider
    Allowed,        \* those in one of allowed_groups
    ProviderLogout, \* logout: provider
    Nobody,         \* no account
    MaxLogins,      \* bound: logins begun
    MaxRestarts     \* bound: restarts of the process

ASSUME AllowedAssumption == Allowed \subseteq Users /\ Nobody \notin Users
ASSUME BoundsAssumption == MaxLogins \in Nat /\ MaxRestarts \in Nat

VARIABLES
    configured, \* cookie_secret is set
    secret,     \* what this process signs with
    restarts,   \* how often it was restarted
    ready,      \* discovery has succeeded in this process
    logins,     \* logins begun so far
    redeemed,   \* logins whose code the provider has exchanged
    expired,    \* sessions whose time is over
    who,        \* per login, the account that signed in at the provider
    flowJar,    \* the login cookie of the browser
    sessionJar, \* the session cookie of the browser
    spoiled,    \* history: logins whose cookie has left the jar or gone bad
    screen,     \* per tab, what it shows
    login,      \* per tab, the login it was last sent to the provider with
    call,       \* per tab, the request in flight
    reply       \* per tab, the answer that is on its way back

serverVars == <<configured, secret, restarts, ready>>
idpVars == <<redeemed, who>>
jarVars == <<flowJar, sessionJar, spoiled>>
tabVars == <<screen, login, call, reply>>
vars == <<serverVars, idpVars, logins, expired, jarVars, tabVars>>

Logins == 1..MaxLogins
NoFlow == [flow |-> 0, secret |-> 0]
NoSession == [flow |-> 0, secret |-> 0, user |-> Nobody]
Flows == [flow : Logins, secret : 0..MaxRestarts] \cup {NoFlow}
Sessions == [flow : Logins, secret : 0..MaxRestarts, user : Users] \cup {NoSession}

\* A request carries the cookies the jar held when it was sent.
Calls == [kind : {"none", "api", "me", "login", "callback", "logout"},
          user : Users \cup {Nobody}, flow : Flows, session : Sessions]
NoCall == [kind |-> "none", user |-> Nobody, flow |-> NoFlow, session |-> NoSession]

\* An answer: a status, the cookies it sets (none, or one), and where it leads.
Replies == [code : {0, 200, 302, 400, 401, 403, 500, 503},
            flow : SUBSET Flows, session : SUBSET Sessions, away : BOOLEAN]
Pending == [code |-> 0, flow |-> {}, session |-> {}, away |-> FALSE]
Answer(code) == [Pending EXCEPT !.code = code]

TypeOK ==
    /\ secret \in 0..MaxRestarts /\ restarts \in 0..MaxRestarts
    /\ configured \in BOOLEAN /\ (configured => secret = 0)
    /\ ready \in BOOLEAN
    /\ logins \in 0..MaxLogins
    /\ redeemed \subseteq Logins /\ expired \subseteq Logins /\ spoiled \subseteq Logins
    /\ who \in [Logins -> Users \cup {Nobody}]
    /\ flowJar \in Flows /\ sessionJar \in Sessions
    /\ screen \in [Tabs -> {"loading", "app", "gate", "idp", "page"}]
    /\ login \in [Tabs -> 0..MaxLogins]
    /\ \A t \in Tabs :
          /\ call[t].kind \in {"none", "api", "me", "login", "callback", "logout"}
          /\ call[t].user \in Users \cup {Nobody}
          /\ call[t].flow \in Flows /\ call[t].session \in Sessions
          /\ reply[t].code \in {0, 200, 302, 400, 401, 403, 500, 503}
          /\ reply[t].flow \subseteq Flows /\ reply[t].session \subseteq Sessions
          /\ reply[t].away \in BOOLEAN
          /\ call[t].kind = "none" => reply[t] = Pending

Init ==
    /\ configured \in BOOLEAN /\ secret = 0 /\ restarts = 0
    /\ ready = FALSE
    /\ redeemed = {}
    /\ logins = 0 /\ expired = {} /\ who = [f \in Logins |-> Nobody]
    /\ flowJar = NoFlow /\ sessionJar = NoSession /\ spoiled = {}
    /\ screen = [t \in Tabs |-> "loading"]
    /\ login = [t \in Tabs |-> 0]
    /\ call = [t \in Tabs |-> NoCall]
    /\ reply = [t \in Tabs |-> Pending]

-----------------------------------------------------------------------------
(* The process: discovery and restarts.                                    *)

\* discover has reached the provider (Process models the goroutine).
Discover ==
    /\ ~ready
    /\ ready' = TRUE
    /\ UNCHANGED <<configured, secret, restarts, idpVars, logins, expired, jarVars, tabVars>>

\* A new process.  A secret that is not configured is another one, and every
\* cookie that is about goes bad with it.
Restart ==
    /\ restarts < MaxRestarts
    /\ restarts' = restarts + 1
    /\ secret' = IF configured THEN secret ELSE secret + 1
    /\ ready' = FALSE
    /\ spoiled' = IF configured THEN spoiled ELSE 1..logins
    /\ UNCHANGED <<configured, idpVars, logins, expired, flowJar, sessionJar, tabVars>>

-----------------------------------------------------------------------------
(* Handlers.  A request that was sent and not yet answered is served.      *)

Arrived(t, kind) == call[t].kind = kind /\ reply[t] = Pending

Signed(cookie) == cookie.flow # 0 /\ cookie.secret = secret

\* sessionFull: decode checks the signature and then the time.
Valid(session) == Signed(session) /\ session.flow \notin expired

Replied(t, r) ==
    /\ reply' = [reply EXCEPT ![t] = r]
    /\ UNCHANGED <<serverVars, expired, jarVars, screen, login, call>>

\* login: a new flow, carried in a cookie; 503 until discovery has succeeded.
ServeLogin(t) ==
    /\ Arrived(t, "login")
    /\ IF ~ready
       THEN Replied(t, Answer(503)) /\ UNCHANGED logins
       ELSE /\ logins < MaxLogins
            /\ logins' = logins + 1
            /\ Replied(t, [Answer(302) EXCEPT
                              !.flow = {[flow |-> logins + 1, secret |-> secret]}])
    /\ UNCHANGED <<redeemed, who>>

\* Bug: any account the provider knows may read the logs.
AnyoneAuthorized(u) == TRUE

\* authorize.
Authorized(u) == u \in Allowed

\* Bug: the flow is kept in memory, where the next login takes its place.
OwnFlowInMemory(c, f) == Signed(c) /\ f = logins

\* The login cookie is signed and belongs to the login that comes back.
OwnFlow(c, f) == Signed(c) /\ c.flow = f

\* What callback answers once it has read and cleared the login cookie, when
\* the exchange of the code of login f for account u went well or did not.
\* 500 also stands for the 403 of a token that does not verify.
Concluded(own, exchanged, f, u) ==
    LET gone == [Answer(400) EXCEPT !.flow = {NoFlow}]
    IN  CASE ~own -> gone
          [] own /\ ~exchanged -> [gone EXCEPT !.code = 500]
          [] own /\ exchanged /\ ~Authorized(u) -> [gone EXCEPT !.code = 403]
          [] OTHER -> [gone EXCEPT
                          !.code = 302,
                          !.session = {[flow |-> f, secret |-> secret, user |-> u]}]

\* The checks in their order.  The provider exchanges a code once; it, or the
\* network, may fail before or after it has done so.
ServeCallback(t) ==
    LET c == call[t].flow
        u == call[t].user
        f == login[t]
    IN  /\ Arrived(t, "callback")
        /\ CASE ~ready -> Replied(t, Answer(503)) /\ UNCHANGED redeemed
             [] ready /\ u = Nobody -> Replied(t, Answer(403)) /\ UNCHANGED redeemed
             [] ready /\ u # Nobody /\ c = NoFlow ->
                   Replied(t, Answer(400)) /\ UNCHANGED redeemed
             [] OTHER -> \E exchanged \in {f \notin redeemed, FALSE} :
                   /\ Replied(t, Concluded(OwnFlow(c, f), exchanged, f, u))
                   /\ redeemed' \in IF ~OwnFlow(c, f) THEN {redeemed}
                                    ELSE IF exchanged THEN {redeemed \cup {f}}
                                    ELSE {redeemed, redeemed \cup {f}}
        /\ UNCHANGED <<logins, who>>

\* Bug: a process that has not reached its provider refuses everybody.
ServeApiWhenReady(t) ==
    /\ Arrived(t, "api")
    /\ Replied(t, IF ready /\ Valid(call[t].session) THEN Answer(200)
                  ELSE IF call[t].session = NoSession THEN Answer(401)
                  ELSE [Answer(401) EXCEPT !.session = {NoSession}])
    /\ UNCHANGED <<redeemed, who, logins>>

\* Middleware: a cookie that is no good is cleared with the refusal.
ServeApi(t) ==
    /\ Arrived(t, "api")
    /\ Replied(t, IF Valid(call[t].session) THEN Answer(200)
                  ELSE IF call[t].session = NoSession THEN Answer(401)
                  ELSE [Answer(401) EXCEPT !.session = {NoSession}])
    /\ UNCHANGED <<redeemed, who, logins>>

\* me, outside the middleware.
ServeMe(t) ==
    /\ Arrived(t, "me")
    /\ Replied(t, Answer(IF Valid(call[t].session) THEN 200 ELSE 401))
    /\ UNCHANGED <<redeemed, who, logins>>

\* logout: the cookie is cleared whatever it was; with logout: provider the
\* tab is sent to the provider to sign out there too.
ServeLogout(t) ==
    /\ Arrived(t, "logout")
    /\ Replied(t, [Answer(200) EXCEPT
                      !.session = {NoSession},
                      !.away = ProviderLogout /\ ready /\ Valid(call[t].session)])
    /\ UNCHANGED <<redeemed, who, logins>>

Serve(t) ==
    \/ ServeLogin(t)
    \/ ServeCallback(t)
    \/ ServeApi(t)
    \/ ServeMe(t)
    \/ ServeLogout(t)

-----------------------------------------------------------------------------
(* The browser.                                                            *)

\* A request of tab t, with what the jar holds.
Send(t, kind, u) ==
    /\ call[t] = NoCall
    /\ call' = [call EXCEPT ![t] = [kind |-> kind, user |-> u, flow |-> flowJar,
                                    session |-> sessionJar]]
    /\ UNCHANGED <<serverVars, redeemed, logins, expired, jarVars, reply, login>>

\* onMounted: fetchConfig.
Boot(t) == screen[t] = "loading" /\ Send(t, "api", Nobody) /\ UNCHANGED <<who, screen>>

\* Any request of the workspace.
Use(t) == screen[t] = "app" /\ Send(t, "api", Nobody) /\ UNCHANGED <<who, screen>>

\* probe, after a tail that reports an error.
Probe(t) == screen[t] = "app" /\ Send(t, "me", Nobody) /\ UNCHANGED <<who, screen>>

SignOut(t) == screen[t] = "app" /\ Send(t, "logout", Nobody) /\ UNCHANGED <<who, screen>>

\* begin: the button of the login gate.
Begin(t) ==
    /\ screen[t] = "gate"
    /\ Send(t, "login", Nobody)
    /\ UNCHANGED <<who, screen>>

\* The reader signs in at the provider as u, or is refused there.
Return(t) ==
    /\ screen[t] = "idp"
    /\ \E u \in Users \cup {Nobody} :
          /\ Send(t, "callback", u)
          /\ who' = [who EXCEPT ![login[t]] = u]
    /\ UNCHANGED screen

\* The page of a failed callback is reloaded: the same state and code again.
Resend(t) ==
    /\ screen[t] = "page"
    /\ login[t] # 0
    /\ Send(t, "callback", who[login[t]])
    /\ UNCHANGED <<who, screen>>

\* The reader opens the application in this tab anew.
Open(t) ==
    /\ screen[t] # "loading"
    /\ call[t] = NoCall
    /\ screen' = [screen EXCEPT ![t] = "loading"]
    /\ login' = [login EXCEPT ![t] = 0]
    /\ UNCHANGED <<serverVars, idpVars, logins, expired, jarVars, call, reply>>

\* What a tab shows after the answer r to its request.
Shown(t, r) ==
    CASE r.away -> "loading"
      [] call[t].kind = "logout" /\ ~r.away -> "gate"
      [] call[t].kind \in {"api", "me"} /\ r.code = 401 -> "gate"
      [] call[t].kind = "api" /\ r.code = 200 -> "app"
      [] call[t].kind = "login" /\ r.code = 302 -> "idp"
      [] call[t].kind = "callback" /\ r.code = 302 -> "loading"
      [] call[t].kind \in {"login", "callback"} /\ r.code # 302 -> "page"
      [] OTHER -> screen[t]

Put(jar, set) == IF set = {} THEN jar ELSE CHOOSE c \in set : TRUE

Receive(t) ==
    LET r == reply[t]
    IN  /\ r # Pending
        /\ flowJar' = Put(flowJar, r.flow)
        /\ sessionJar' = Put(sessionJar, r.session)
        /\ spoiled' = IF flowJar' # flowJar THEN spoiled \cup ({flowJar.flow} \ {0})
                      ELSE spoiled
        /\ screen' = [screen EXCEPT ![t] = Shown(t, r)]
        /\ login' = [login EXCEPT ![t] =
                        IF call[t].kind = "login" /\ r.code = 302 THEN flowJar'.flow
                        ELSE IF call[t].kind = "callback" /\ r.code # 302 THEN @ ELSE 0]
        /\ call' = [call EXCEPT ![t] = NoCall]
        /\ reply' = [reply EXCEPT ![t] = Pending]
        /\ UNCHANGED <<serverVars, idpVars, logins, expired>>

\* The request or its answer is lost.  signOut goes on to the gate regardless;
\* a boot that fails shows the error and a request of the workspace changes
\* nothing here; a navigation ends on the browser's own error page.
Lose(t) ==
    /\ call[t] # NoCall
    /\ screen' = [screen EXCEPT ![t] =
                     CASE call[t].kind = "logout" -> "gate"
                       [] call[t].kind \in {"login", "callback"} -> "page"
                       [] call[t].kind = "api" /\ @ = "loading" -> "page"
                       [] OTHER -> @]
    /\ call' = [call EXCEPT ![t] = NoCall]
    /\ reply' = [reply EXCEPT ![t] = Pending]
    /\ UNCHANGED <<serverVars, idpVars, logins, expired, jarVars, login>>

\* Ten minutes are over for the login cookie.
FlowExpires ==
    /\ flowJar # NoFlow
    /\ flowJar' = NoFlow
    /\ spoiled' = spoiled \cup {flowJar.flow}
    /\ UNCHANGED <<serverVars, idpVars, logins, expired, sessionJar, tabVars>>

\* session_ttl is over; the browser drops the cookie then or a little later.
SessionExpires ==
    /\ sessionJar.flow \in Logins \ expired
    /\ expired' = expired \cup {sessionJar.flow}
    /\ \/ sessionJar' = NoSession
       \/ UNCHANGED sessionJar
    /\ UNCHANGED <<serverVars, idpVars, logins, flowJar, spoiled, tabVars>>

-----------------------------------------------------------------------------
Tab(t) ==
    \/ Boot(t)
    \/ Use(t)
    \/ Probe(t)
    \/ SignOut(t)
    \/ Begin(t)
    \/ Return(t)
    \/ Resend(t)
    \/ Open(t)
    \/ Receive(t)
    \/ Lose(t)

Next ==
    \/ Discover
    \/ Restart
    \/ FlowExpires
    \/ SessionExpires
    \/ \E t \in Tabs : Serve(t) \/ Tab(t)

Spec == Init /\ [][Next]_vars

-----------------------------------------------------------------------------
(* Properties.                                                             *)

\* A session, in the jar or on its way to it, belongs to an account that is
\* allowed in and that signed in at the provider for that very login; its code
\* was exchanged, once.  Whatever the tabs do in between, no tab ends up with
\* the account of another login.
SessionsAreEarned ==
    \A s \in {sessionJar} \cup UNION {reply[t].session : t \in Tabs} :
        s # NoSession => /\ s.user \in Allowed
                         /\ s.user = who[s.flow]
                         /\ s.flow \in redeemed

\* "The login survives a restart and works across replicas with no shared
\* store" (auth.go:249): with a configured secret a login whose cookie the
\* browser still held when it came back is never told that there is no login
\* in progress, whatever happened to the process and in the other tab.
LoginSurvives ==
    \A t \in Tabs :
        call[t].kind = "callback" /\ reply[t].code = 400 => login[t] \in spoiled

\* An outage of the provider costs nobody a session: a session in the jar that
\* this process would accept is dropped only by signing out, by another login,
\* by its own end, or by a refusal of an earlier cookie that was overtaken.
SessionIsKept ==
    [][sessionJar # NoSession /\ Valid(sessionJar) /\ sessionJar' # sessionJar =>
          \/ sessionJar.flow \in expired'
          \/ \E t \in Tabs :
                /\ call[t] # NoCall /\ call'[t] = NoCall
                /\ \/ call[t].kind \in {"logout", "callback"}
                   \/ call[t].session # sessionJar]_vars

\* signOut: "Either way there is no session left to use" (App.vue:790).  A tab
\* that shows the gate after signing out has left no session in the jar that
\* the process would accept.
SignOutEnds ==
    [][\A t \in Tabs :
          call[t].kind = "logout" /\ call'[t] = NoCall /\ screen'[t] = "gate" =>
             ~(Valid(sessionJar'))]_vars
=============================================================================
