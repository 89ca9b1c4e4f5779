---------------------------- MODULE SignInProofs ----------------------------
(***************************************************************************)
(* Whose session it is: for any number of tabs, accounts, logins and       *)
(* restarts, a session is of the account that signed in for that very      *)
(* login (IInv).  What the browser's two cookies are good for: no login is *)
(* lost to a restart and no session to an outage (Jars).  The types        *)
(* (TypeInv).                                                              *)
(***************************************************************************)
EXTENDS SignIn, TLAPS

\* As much of the types as the rest needs.
Shaped ==
    /\ DOMAIN call = Tabs /\ DOMAIN reply = Tabs /\ DOMAIN login = Tabs
    /\ DOMAIN screen = Tabs /\ DOMAIN who = Logins
    /\ logins \in 0..MaxLogins /\ redeemed \subseteq 1..logins

\* The logins an answer on its way to tab t begins, and those that are t's.
Given(t) ==
    IF call[t].kind = "login" /\ reply[t].code = 302
    THEN {c.flow : c \in reply[t].flow} ELSE {}
Held(t) == ({login[t]} \ {0}) \cup Given(t)

\* A login is of one tab, and until its code is exchanged nobody else's.
OneTabEach ==
    /\ \A t \in Tabs : Held(t) \subseteq 1..logins /\ Given(t) \cap redeemed = {}
    /\ \A t, u \in Tabs : t # u => Held(t) \cap Held(u) = {}

\* A callback brings the account that signed in for the tab's login; a tab that
\* is at the provider has a login whose code was not exchanged.
Travels(t) ==
    /\ call[t] = NoCall => reply[t] = Pending
    /\ call[t].kind = "login" /\ reply[t].code = 302 => reply[t].flow # {}
    /\ call[t].kind = "callback" => login[t] # 0 /\ call[t].user = who[login[t]]
    /\ screen[t] = "idp" =>
          \/ call[t].kind = "callback"
          \/ call[t] = NoCall /\ login[t] # 0 /\ login[t] \notin redeemed

Earned(s) ==
    s # NoSession => s.user \in Allowed /\ s.user = who[s.flow] /\ s.flow \in redeemed

AllEarned ==
    Earned(sessionJar) /\ \A t \in Tabs : \A s \in reply[t].session : Earned(s)

IInv == Shaped /\ OneTabEach /\ (\A t \in Tabs : Travels(t)) /\ AllEarned

LEMMA NobodyYet == Init => IInv
<1> SUFFICES ASSUME Init PROVE IInv
  OBVIOUS
<1>1. \A t \in Tabs : call[t] = NoCall /\ reply[t] = Pending /\ login[t] = 0 /\ screen[t] = "loading"
  BY DEF Init
<1>2. Shaped
  BY BoundsAssumption DEF Init, Shaped
<1>3. \A t \in Tabs : Given(t) = {} /\ Held(t) = {}
  BY <1>1 DEF Given, Held, NoCall
<1>4. OneTabEach
  BY <1>3 DEF OneTabEach
<1>5. \A t \in Tabs : Travels(t)
  BY <1>1 DEF Travels, NoCall
<1>6. AllEarned
  BY <1>1 DEF Init, AllEarned, Earned, Pending
<1> QED
  BY <1>2, <1>4, <1>5, <1>6 DEF IInv

\* The login that a tab has is no other tab's.
LEMMA OwnLogin ==
  ASSUME IInv, NEW t \in Tabs, login[t] # 0
  PROVE  /\ login[t] \in Logins /\ login[t] \in 1..logins
         /\ \A s \in Tabs \ {t} : login[s] # login[t] /\ login[t] \notin Given(s)
<1>1. login[t] \in Held(t)
  BY DEF Held
<1>2. login[t] \in 1..logins /\ logins \in 0..MaxLogins
  BY <1>1 DEF IInv, OneTabEach, Shaped
<1>3. ASSUME NEW s \in Tabs \ {t} PROVE login[t] \notin Held(s)
  BY <1>1 DEF IInv, OneTabEach
<1> QED
  BY <1>2, <1>3, BoundsAssumption DEF Held, Logins

\* A tab whose request, answer and login stay has the logins it had.
LEMMA KeepsItsLogins ==
  ASSUME NEW s \in Tabs, call'[s] = call[s], reply'[s] = reply[s], login'[s] = login[s]
  PROVE  Given(s)' = Given(s) /\ Held(s)' = Held(s)
<1> DEFINE G(c, r) == IF c.kind = "login" /\ r.code = 302 THEN {x.flow : x \in r.flow} ELSE {}
<1>1. Given(s) = G(call[s], reply[s]) /\ Given(s)' = G(call'[s], reply'[s])
  BY DEF Given
<1>2. Given(s)' = Given(s)
  BY <1>1
<1> QED
  BY <1>2 DEF Held

\* Nothing happens to a tab.
LEMMA TabsAtRest ==
  ASSUME IInv, UNCHANGED <<tabVars, redeemed, who, logins>>,
         sessionJar' = sessionJar \/ sessionJar' = NoSession
  PROVE  IInv'
<1>1. Shaped' /\ AllEarned'
  BY DEF IInv, Shaped, AllEarned, Earned, tabVars
<1>2. \A t \in Tabs : Given(t)' = Given(t) /\ Held(t)' = Held(t) /\ (Travels(t) => Travels(t)')
  BY DEF Given, Held, Travels, tabVars
<1>3. OneTabEach'
  BY <1>2 DEF IInv, OneTabEach
<1> QED
  BY <1>1, <1>2, <1>3 DEF IInv

-----------------------------------------------------------------------------
(* A tab sends a request.                                                  *)

\* Who redeemed a login is on record.
LEMMA RedeemedKnown == IInv => \A f \in redeemed : f \in DOMAIN who
<1> SUFFICES ASSUME IInv, NEW f \in redeemed PROVE f \in DOMAIN who
  OBVIOUS
<1>1. DOMAIN who = 1..MaxLogins /\ logins \in 0..MaxLogins /\ f \in 1..logins
  BY DEF IInv, Shaped, Logins
<1> QED
  BY <1>1, BoundsAssumption

\* Only the provider's page notes who it was, and for a login that no session
\* has come of.
LEMMA RequestSent ==
  ASSUME IInv, NEW t \in Tabs, NEW kind \in {"api", "me", "logout", "login", "callback"},
         NEW u, Send(t, kind, u), UNCHANGED screen,
         screen[t] = "idp" => kind = "callback",
         \/ kind # "callback" /\ UNCHANGED who
         \/ kind = "callback" /\ login[t] # 0 /\ u = who[login[t]] /\ UNCHANGED who
         \/ kind = "callback" /\ screen[t] = "idp" /\ who' = [who EXCEPT ![login[t]] = u]
  PROVE  IInv'
<1>1. /\ call[t] = NoCall /\ reply[t] = Pending
      /\ UNCHANGED <<redeemed, logins, sessionJar, reply, login, screen>>
  BY DEF Send, IInv, Travels, serverVars, jarVars
<1>2. /\ DOMAIN call' = Tabs /\ call'[t].kind = kind /\ call'[t].user = u /\ call'[t] # NoCall
      /\ \A s \in Tabs \ {t} : call'[s] = call[s]
  BY DEF Send, IInv, Shaped, NoCall
<1>3. Shaped'
  BY <1>1, <1>2 DEF IInv, Shaped, Send
<1>4. \A s \in Tabs : Given(s)' = Given(s) /\ Held(s)' = Held(s)
  <2>1. Given(t) = {} /\ Given(t)' = {}
    BY <1>1 DEF Given, Pending
  <2>2. \A s \in Tabs \ {t} : Given(s)' = Given(s)
    BY <1>1, <1>2 DEF Given
  <2> QED
    BY <1>1, <2>1, <2>2 DEF Held
<1>5. OneTabEach'
  BY <1>1, <1>4 DEF IInv, OneTabEach
<1>6. screen[t] = "idp" => login[t] # 0 /\ login[t] \notin redeemed
  BY <1>1 DEF IInv, Travels, NoCall
<1>7. \A f \in redeemed : who'[f] = who[f]
  BY <1>6, RedeemedKnown, Zenon
<1>8. AllEarned'
  BY <1>1, <1>7 DEF IInv, AllEarned, Earned
<1>9. Travels(t)'
  <2>1. screen[t] = "idp" => login[t] \in DOMAIN who
    BY <1>6, OwnLogin DEF IInv, Shaped
  <2>2. kind = "callback" => login[t] # 0 /\ u = who'[login[t]]
    BY <1>6, <2>1
  <2> QED
    BY <1>1, <1>2, <2>2 DEF IInv, Travels, Pending
<1>10. ASSUME NEW s \in Tabs \ {t} PROVE Travels(s)'
  <2>1. screen[t] = "idp" => login[s] # login[t]
    BY <1>6, OwnLogin
  <2>2. login[s] # 0 => who'[login[s]] = who[login[s]]
    BY <2>1, OwnLogin DEF IInv, Shaped
  <2> QED
    BY <1>1, <1>2, <2>2 DEF IInv, Travels
<1> QED
  BY <1>3, <1>5, <1>8, <1>9, <1>10 DEF IInv

-----------------------------------------------------------------------------
(* The process answers.                                                    *)

\* An answer that begins no login and makes no session.
LEMMA PlainReply ==
  ASSUME IInv, NEW t \in Tabs, NEW r, Replied(t, r), UNCHANGED <<redeemed, who, logins>>,
         r.session \subseteq {NoSession}, call[t].kind # "login" \/ r.code # 302,
         call[t] # NoCall
  PROVE  IInv'
<1>1. /\ DOMAIN reply' = Tabs /\ reply'[t] = r /\ \A s \in Tabs \ {t} : reply'[s] = reply[s]
      /\ UNCHANGED <<sessionJar, screen, login, call>>
  BY DEF Replied, IInv, Shaped, jarVars
<1>2. Shaped'
  BY <1>1 DEF IInv, Shaped
<1>3. \A s \in Tabs \ {t} : Given(s)' = Given(s) /\ Held(s)' = Held(s)
  BY <1>1, KeepsItsLogins
<1>4. Given(t)' = {} /\ Held(t)' \subseteq Held(t)
  BY <1>1 DEF Given, Held
<1>5. OneTabEach'
  BY <1>3, <1>4 DEF IInv, OneTabEach
<1>6. \A s \in Tabs : Travels(s)'
  BY <1>1 DEF IInv, Travels
<1>7. AllEarned'
  BY <1>1 DEF IInv, AllEarned, Earned
<1> QED
  BY <1>2, <1>5, <1>6, <1>7 DEF IInv

\* A login begins: its number is new.
LEMMA LoginReply ==
  ASSUME IInv, NEW t \in Tabs, ServeLogin(t), ready
  PROVE  IInv'
<1> DEFINE c == [flow |-> logins + 1, secret |-> secret]
           r == [Answer(302) EXCEPT !.flow = {c}]
<1>1. /\ logins' = logins + 1 /\ logins < MaxLogins /\ call[t].kind = "login"
      /\ UNCHANGED <<sessionJar, screen, login, call, redeemed, who>>
      /\ reply' = [reply EXCEPT ![t] = r]
  BY DEF ServeLogin, Replied, Arrived, jarVars
<1>2. /\ DOMAIN reply' = Tabs /\ \A s \in Tabs \ {t} : reply'[s] = reply[s]
      /\ reply'[t].flow = {c} /\ reply'[t].session = {} /\ reply'[t].code = 302
  BY <1>1 DEF IInv, Shaped, Answer, Pending
<1>3. logins \in Nat /\ MaxLogins \in Nat
  BY BoundsAssumption DEF IInv, Shaped
<1>4. Shaped'
  BY <1>1, <1>2, <1>3 DEF IInv, Shaped
<1>5. \A s \in Tabs \ {t} : Given(s)' = Given(s) /\ Held(s)' = Held(s)
  BY <1>1, <1>2, KeepsItsLogins
<1>6. Given(t)' = {logins + 1}
  <2>1. Given(t)' = {x.flow : x \in {c}}
    BY <1>1, <1>2 DEF Given
  <2>2. c.flow = logins + 1
    OBVIOUS
  <2> QED
    BY <2>1, <2>2
<1>7. \A s \in Tabs : Held(s)' \subseteq Held(s) \cup {logins + 1}
  BY <1>1, <1>5, <1>6 DEF Held
<1>8. OneTabEach'
  <2>1. logins + 1 \notin 1..logins /\ 1..logins' = 1..logins \cup {logins + 1}
    BY <1>1, <1>3
  <2>2. \A s \in Tabs \ {t} : logins + 1 \notin Held(s)'
    BY <1>5, <2>1 DEF IInv, OneTabEach
  <2>3. \A s \in Tabs : Held(s)' \subseteq 1..logins' /\ Given(s)' \cap redeemed' = {}
    BY <1>1, <1>5, <1>6, <1>7, <2>1 DEF IInv, OneTabEach, Shaped
  <2>4. \A s, u \in Tabs : s # u => Held(s)' \cap Held(u)' = {}
    BY <1>5, <1>7, <2>2 DEF IInv, OneTabEach
  <2> QED
    BY <2>3, <2>4 DEF OneTabEach
<1>9. \A s \in Tabs : Travels(s)'
  <2>1. Travels(t) /\ call'[t].kind = "login" /\ call'[t] # NoCall /\ {c} # {}
    BY <1>1 DEF IInv, NoCall
  <2>3. Travels(t)'
    BY <1>1, <1>2, <2>1 DEF Travels
  <2>2. ASSUME NEW s \in Tabs \ {t} PROVE Travels(s)'
    BY <1>1, <1>2 DEF IInv, Travels
  <2> QED
    BY <2>2, <2>3
<1>10. AllEarned'
  BY <1>1, <1>2 DEF IInv, AllEarned, Earned
<1> QED
  BY <1>4, <1>8, <1>9, <1>10 DEF IInv

\* A callback is answered, and the code of its login may have been exchanged;
\* a session that comes of it is of the account that came back with it.
LEMMA CallbackReply ==
  ASSUME IInv, NEW t \in Tabs, NEW r, Replied(t, r), call[t].kind = "callback",
         UNCHANGED <<who, logins>>,
         redeemed' = redeemed \/ redeemed' = redeemed \cup {login[t]},
         \A s \in r.session : s.user \in Allowed /\ s.user = call[t].user /\ s.flow = login[t],
         r.session # {} => login[t] \in redeemed'
  PROVE  IInv'
<1>1. /\ DOMAIN reply' = Tabs /\ reply'[t] = r /\ \A s \in Tabs \ {t} : reply'[s] = reply[s]
      /\ UNCHANGED <<sessionJar, screen, login, call>>
  BY DEF Replied, IInv, Shaped, jarVars
<1>2. login[t] # 0 /\ call[t].user = who[login[t]]
  BY DEF IInv, Travels
<1>3. /\ login[t] \in 1..logins
      /\ \A s \in Tabs \ {t} : login[s] # login[t] /\ login[t] \notin Given(s)
  BY <1>2, OwnLogin
<1>4. Shaped'
  BY <1>1, <1>3 DEF IInv, Shaped
<1>5. \A s \in Tabs \ {t} : Given(s)' = Given(s) /\ Held(s)' = Held(s)
  BY <1>1, KeepsItsLogins
<1>6. Given(t)' = {} /\ Held(t)' \subseteq Held(t)
  BY <1>1 DEF Given, Held
<1>7. OneTabEach'
  BY <1>3, <1>5, <1>6 DEF IInv, OneTabEach
<1>8. \A s \in Tabs : Travels(s)'
  BY <1>1, <1>3 DEF IInv, Travels, NoCall
<1>9. AllEarned'
  BY <1>1, <1>2 DEF IInv, AllEarned, Earned
<1> QED
  BY <1>4, <1>7, <1>8, <1>9 DEF IInv

LEMMA CallbackServed ==
  ASSUME IInv, NEW t \in Tabs, ServeCallback(t)
  PROVE  IInv'
<1> DEFINE c == call[t].flow
           u == call[t].user
           f == login[t]
<1>1. call[t].kind = "callback" /\ call[t] # NoCall /\ UNCHANGED <<logins, who>>
  BY DEF ServeCallback, Arrived, NoCall
<1>2. CASE ~ready \/ u = Nobody \/ c = NoFlow
  <2>1. CASE ~ready
    BY <1>1, <2>1, PlainReply DEF ServeCallback, Answer, Pending
  <2>2. CASE ready /\ u = Nobody
    BY <1>1, <2>2, PlainReply DEF ServeCallback, Answer, Pending
  <2>3. CASE ready /\ u # Nobody /\ c = NoFlow
    BY <1>1, <2>3, PlainReply DEF ServeCallback, Answer, Pending
  <2> QED
    BY <1>2, <2>1, <2>2, <2>3
<1>3. CASE ~(~ready \/ u = Nobody \/ c = NoFlow)
  <2>1. PICK exchanged \in {f \notin redeemed, FALSE} :
          /\ Replied(t, Concluded(OwnFlow(c, f), exchanged, f, u))
          /\ redeemed' \in IF ~OwnFlow(c, f) THEN {redeemed}
                           ELSE IF exchanged THEN {redeemed \cup {f}}
                           ELSE {redeemed, redeemed \cup {f}}
    BY <1>3 DEF ServeCallback
  <2> DEFINE own == OwnFlow(c, f)
             r == Concluded(own, exchanged, f, u)
  <2>2. redeemed' = redeemed \/ redeemed' = redeemed \cup {f}
    BY <2>1
  <2>3. CASE own /\ exchanged /\ Authorized(u)
    <3>1. r.session = {[flow |-> f, secret |-> secret, user |-> u]}
      BY <2>3 DEF Concluded, Answer, Pending
    <3>2. f \in redeemed'
      BY <2>1, <2>3
    <3>3. \A s \in r.session : s.user \in Allowed /\ s.user = u /\ s.flow = f
      <4>1. u \in Allowed
        BY <2>3 DEF Authorized
      <4> DEFINE made == [flow |-> f, secret |-> secret, user |-> u]
      <4>2. made.user = u /\ made.flow = f
        OBVIOUS
      <4> QED
        BY <3>1, <4>1, <4>2
    <3> QED
      BY <1>1, <2>1, <2>2, <3>2, <3>3, CallbackReply
  <2>4. CASE ~(own /\ exchanged /\ Authorized(u))
    <3>1. r.session = {}
      BY <2>4 DEF Concluded, Answer, Pending
    <3> QED
      BY <1>1, <2>1, <2>2, <3>1, CallbackReply
  <2> QED
    BY <2>3, <2>4
<1> QED
  BY <1>2, <1>3

LEMMA Served ==
  ASSUME IInv, NEW t \in Tabs, Serve(t)
  PROVE  IInv'
<1>1. CASE ServeLogin(t)
  <2>1. CASE ready
    BY <1>1, <2>1, LoginReply
  <2>2. CASE ~ready
    BY <1>1, <2>2, PlainReply DEF ServeLogin, Arrived, Answer, Pending, NoCall
  <2> QED
    BY <2>1, <2>2
<1>2. CASE ServeApi(t) \/ ServeMe(t) \/ ServeLogout(t)
  <2>1. call[t].kind \in {"api", "me", "logout"} /\ call[t] # NoCall /\ UNCHANGED <<redeemed, who, logins>>
    BY <1>2 DEF ServeApi, ServeMe, ServeLogout, Arrived, NoCall
  <2>2. CASE ServeApi(t)
    <3> DEFINE r == IF Valid(call[t].session) THEN Answer(200)
                    ELSE IF call[t].session = NoSession THEN Answer(401)
                    ELSE [Answer(401) EXCEPT !.session = {NoSession}]
    <3>1. r.session \subseteq {NoSession}
      BY DEF Answer, Pending
    <3>2. Replied(t, r)
      BY <2>2 DEF ServeApi
    <3> HIDE DEF r
    <3> QED
      BY <2>1, <3>1, <3>2, PlainReply
  <2>3. CASE ServeMe(t)
    BY <2>1, <2>3, PlainReply DEF ServeMe, Answer, Pending
  <2>4. CASE ServeLogout(t)
    <3> DEFINE r == [Answer(200) EXCEPT
                        !.session = {NoSession},
                        !.away = ProviderLogout /\ ready /\ Valid(call[t].session)]
    <3>1. r.session \subseteq {NoSession}
      BY DEF Answer, Pending
    <3>2. Replied(t, r)
      BY <2>4 DEF ServeLogout
    <3> HIDE DEF r
    <3> QED
      BY <2>1, <3>1, <3>2, PlainReply
  <2> QED
    BY <1>2, <2>2, <2>3, <2>4
<1> QED
  BY <1>1, <1>2, CallbackServed DEF Serve

-----------------------------------------------------------------------------
(* A tab takes its answer, loses it, or is opened anew.                    *)

\* The tab's request is over, and of its logins it keeps some.
LEMMA RequestOver ==
  ASSUME IInv, NEW t \in Tabs, NEW l, NEW s,
         login' = [login EXCEPT ![t] = l] \/ (login' = login /\ l = login[t]),
         l = 0 \/ l \in Held(t),
         screen' = [screen EXCEPT ![t] = s], s = "idp" => l \in Given(t),
         \/ call' = [call EXCEPT ![t] = NoCall] /\ reply' = [reply EXCEPT ![t] = Pending]
         \/ call[t] = NoCall /\ UNCHANGED <<call, reply>>,
         UNCHANGED <<redeemed, who, logins>>,
         sessionJar' = sessionJar \/ sessionJar' \in reply[t].session
  PROVE  IInv'
<1>1. /\ call'[t] = NoCall /\ reply'[t] = Pending /\ login'[t] = l /\ screen'[t] = s
      /\ \A v \in Tabs \ {t} : /\ call'[v] = call[v] /\ reply'[v] = reply[v]
                               /\ login'[v] = login[v] /\ screen'[v] = screen[v]
      /\ DOMAIN call' = Tabs /\ DOMAIN reply' = Tabs /\ DOMAIN login' = Tabs
      /\ DOMAIN screen' = Tabs
  BY DEF IInv, Shaped, Travels
<1>2. Shaped'
  BY <1>1 DEF IInv, Shaped
<1>3. \A v \in Tabs \ {t} : Given(v)' = Given(v) /\ Held(v)' = Held(v)
  BY <1>1, KeepsItsLogins
<1>4. Given(t)' = {} /\ Held(t)' \subseteq Held(t)
  BY <1>1 DEF Given, Held, NoCall
<1>5. OneTabEach'
  BY <1>3, <1>4 DEF IInv, OneTabEach
<1>6. Travels(t)'
  <2>1. s = "idp" => l # 0 /\ l \notin redeemed
    BY DEF IInv, OneTabEach, Held
  <2> QED
    BY <1>1, <2>1 DEF Travels, NoCall, Pending
<1>7. \A v \in Tabs \ {t} : Travels(v)'
  BY <1>1 DEF IInv, Travels
<1>8. AllEarned'
  BY <1>1 DEF IInv, AllEarned, Earned, Pending
<1> QED
  BY <1>2, <1>5, <1>6, <1>7, <1>8 DEF IInv

LEMMA AnswerTaken ==
  ASSUME IInv, NEW t \in Tabs, Receive(t)
  PROVE  IInv'
<1> DEFINE r == reply[t]
           begins == call[t].kind = "login" /\ r.code = 302
           l == IF begins THEN flowJar'.flow
                ELSE IF call[t].kind = "callback" /\ r.code # 302 THEN login[t] ELSE 0
<1>1. /\ flowJar' = Put(flowJar, r.flow) /\ sessionJar' = Put(sessionJar, r.session)
      /\ screen' = [screen EXCEPT ![t] = Shown(t, r)] /\ login' = [login EXCEPT ![t] = l]
      /\ call' = [call EXCEPT ![t] = NoCall] /\ reply' = [reply EXCEPT ![t] = Pending]
      /\ UNCHANGED <<redeemed, who, logins>> /\ r # Pending
  BY DEF Receive, serverVars, idpVars
<1>2. sessionJar' = sessionJar \/ sessionJar' \in r.session
  BY <1>1 DEF Put
<1>3. begins => l \in Given(t)
  <2> SUFFICES ASSUME begins PROVE flowJar'.flow \in Given(t)
    OBVIOUS
  <2>1. r.flow # {}
    BY DEF IInv, Travels
  <2>2. flowJar' \in r.flow
    BY <1>1, <2>1 DEF Put
  <2> QED
    BY <2>2 DEF Given
<1>4. l = 0 \/ l \in Held(t)
  BY <1>3 DEF Held
<1>5. Shown(t, r) = "idp" => begins
  <2>1. call[t] # NoCall
    BY <1>1 DEF IInv, Travels
  <2>2. screen[t] = "idp" => call[t].kind = "callback"
    BY <2>1 DEF IInv, Travels
  <2> QED
    BY <2>2 DEF Shown
<1>6. Shown(t, r) = "idp" => l \in Given(t)
  BY <1>3, <1>5
<1> DEFINE next == Shown(t, r)
<1>7. screen' = [screen EXCEPT ![t] = next] /\ (next = "idp" => l \in Given(t))
  BY <1>1, <1>6
<1> HIDE DEF l, begins, next
<1> QED
  BY <1>1, <1>2, <1>4, <1>7, RequestOver

LEMMA AnswerLost ==
  ASSUME IInv, NEW t \in Tabs, Lose(t)
  PROVE  IInv'
<1> DEFINE s == CASE call[t].kind = "logout" -> "gate"
                  [] call[t].kind \in {"login", "callback"} -> "page"
                  [] call[t].kind = "api" /\ screen[t] = "loading" -> "page"
                  [] OTHER -> screen[t]
<1>1. /\ screen' = [screen EXCEPT ![t] = s] /\ login' = login
      /\ call' = [call EXCEPT ![t] = NoCall] /\ reply' = [reply EXCEPT ![t] = Pending]
      /\ UNCHANGED <<redeemed, who, logins, sessionJar>> /\ call[t] # NoCall
  BY DEF Lose, serverVars, idpVars, jarVars
<1>2. s # "idp"
  BY <1>1 DEF IInv, Travels
<1>3. login[t] = 0 \/ login[t] \in Held(t)
  BY DEF Held
<1> HIDE DEF s
<1> QED
  BY <1>1, <1>2, <1>3, RequestOver

LEMMA SomeoneMoves == IInv /\ [Next]_vars => IInv'
<1> SUFFICES ASSUME IInv, [Next]_vars PROVE IInv'
  OBVIOUS
<1>1. ASSUME NEW t \in Tabs, Tab(t) PROVE IInv'
  <2>1. CASE Boot(t) \/ Use(t) \/ Probe(t) \/ SignOut(t) \/ Begin(t)
    BY <2>1, RequestSent DEF Boot, Use, Probe, SignOut, Begin
  <2>2. CASE Return(t)
    BY <2>2, RequestSent DEF Return
  <2>3. CASE Resend(t)
    BY <2>3, RequestSent DEF Resend
  <2>4. CASE Open(t)
    BY <2>4, RequestOver DEF Open, serverVars, idpVars, jarVars
  <2> QED
    BY <1>1, <2>1, <2>2, <2>3, <2>4, AnswerTaken, AnswerLost DEF Tab
<1>2. CASE Discover \/ Restart \/ FlowExpires \/ SessionExpires
  BY <1>2, TabsAtRest DEF Discover, Restart, FlowExpires, SessionExpires, serverVars, idpVars, jarVars
<1>3. CASE UNCHANGED vars
  BY <1>3, TabsAtRest DEF vars, idpVars, jarVars, serverVars
<1> QED
  BY <1>1, <1>2, <1>3, Served DEF Next

-----------------------------------------------------------------------------
\* A session, in the jar or on its way to it, is of an account that is allowed
\* in and that signed in for that very login, whatever the tabs do in between
\* (callback, authorize).
THEOREM SessionsOfTheirOwn == Spec => []SessionsAreEarned
<1>1. IInv => SessionsAreEarned
  BY DEF IInv, AllEarned, Earned, SessionsAreEarned
<1> QED
  BY <1>1, NobodyYet, SomeoneMoves, PTL DEF Spec

-----------------------------------------------------------------------------
(* The two cookies of the browser.                                         *)

\* A login whose cookie was not spoiled is the one of the jar, good with this
\* process; its callback brings it, and is not told that there is none.
Carried(t) ==
    /\ login[t] # 0 /\ login[t] \notin spoiled =>
          flowJar.flow = login[t] /\ flowJar.secret = secret
    /\ call[t].kind = "callback" /\ login[t] \notin spoiled =>
          call[t].flow.flow = login[t] /\ call[t].flow.secret = secret
    /\ call[t].kind = "callback" /\ reply[t].code = 400 => login[t] \in spoiled
    /\ call[t].kind = "login" /\ reply[t].code = 302 =>
          \A c \in reply[t].flow : c.flow \notin spoiled => c.secret = secret

\* No session was signed with a secret that is still to come; one that was
\* refused is refused for good, and nobody else's answer clears a session.
Dated(t) ==
    /\ call[t].session.secret \in 0..secret
    /\ \A s \in reply[t].session : s.secret \in 0..secret
    /\ call[t].kind \in {"none", "me", "login"} => reply[t].session = {}
    /\ call[t].kind = "api" /\ reply[t].session # {} =>
          \/ call[t].session.flow \in expired \cup {0}
          \/ call[t].session.secret < secret

Jars ==
    /\ secret \in Nat /\ sessionJar.secret \in 0..secret
    /\ \A t \in Tabs : /\ call[t].kind \in {"none", "api", "me", "login", "callback", "logout"}
                       /\ Carried(t) /\ Dated(t)

LEMMA EmptyJars == Init => Jars
<1> SUFFICES ASSUME Init PROVE Jars
  OBVIOUS
<1>1. \A t \in Tabs : call[t] = NoCall /\ reply[t] = Pending /\ login[t] = 0
  BY DEF Init
<1>2. secret = 0 /\ sessionJar.secret = 0
  BY DEF Init, NoSession
<1>3. \A t \in Tabs : Carried(t)
  BY <1>1 DEF Carried, NoCall
<1>4. \A t \in Tabs : Dated(t)
  BY <1>1, <1>2 DEF Dated, NoCall, NoSession, Pending
<1> QED
  BY <1>1, <1>2, <1>3, <1>4 DEF Jars, NoCall

\* What the handlers answer, as far as the jars are concerned.
LEMMA Answers ==
  ASSUME NEW t \in Tabs, Serve(t)
  PROVE  \E r :
           /\ Replied(t, r)
           /\ call[t].kind = "callback" /\ r.code = 400 => ~OwnFlow(call[t].flow, login[t])
           /\ call[t].kind = "login" /\ r.code = 302 => \A c \in r.flow : c.secret = secret
           /\ \A s \in r.session : s.secret \in {0, secret}
           /\ call[t].kind \in {"me", "login"} => r.session = {}
           /\ call[t].kind = "api" /\ r.session # {} => ~Valid(call[t].session)
           /\ call[t].kind # "none"
<1>1. CASE ServeLogin(t)
  <2>1. call[t].kind = "login"
    BY <1>1 DEF ServeLogin, Arrived
  <2>2. CASE ~ready
    <3>1. Replied(t, Answer(503)) /\ Answer(503).session = {} /\ Answer(503).code = 503
      BY <1>1, <2>2 DEF ServeLogin, Answer, Pending
    <3> QED
      BY <2>1, <3>1
  <2>3. CASE ready
    <3> DEFINE c == [flow |-> logins + 1, secret |-> secret]
               r == [Answer(302) EXCEPT !.flow = {c}]
    <3>1. Replied(t, r)
      BY <1>1, <2>3 DEF ServeLogin
    <3>2. r.session = {} /\ r.flow = {c} /\ c.secret = secret
      BY DEF Answer, Pending
    <3> HIDE DEF r, c
    <3> QED
      BY <2>1, <3>1, <3>2
  <2> QED
    BY <2>2, <2>3
<1>2. CASE ServeCallback(t)
  <2> DEFINE c == call[t].flow
             u == call[t].user
             f == login[t]
  <2>1. call[t].kind = "callback"
    BY <1>2 DEF ServeCallback, Arrived
  <2>2. ASSUME NEW code \in {503, 403, 400}, Replied(t, Answer(code)),
               code = 400 => ~OwnFlow(c, f)
        PROVE  \E r : /\ Replied(t, r)
                      /\ r.code = 400 => ~OwnFlow(c, f)
                      /\ \A s \in r.session : s.secret \in {0, secret}
    <3>1. Answer(code).session = {} /\ Answer(code).code = code
      BY DEF Answer, Pending
    <3> QED
      BY <2>2, <3>1
  <2>3. c = NoFlow => ~OwnFlow(c, f)
    BY DEF NoFlow, OwnFlow, Signed
  <2>4. ASSUME NEW exchanged \in BOOLEAN, Replied(t, Concluded(OwnFlow(c, f), exchanged, f, u))
        PROVE  \E r : /\ Replied(t, r)
                      /\ r.code = 400 => ~OwnFlow(c, f)
                      /\ \A s \in r.session : s.secret \in {0, secret}
    <3> DEFINE r == Concluded(OwnFlow(c, f), exchanged, f, u)
               made == [flow |-> f, secret |-> secret, user |-> u]
    <3>1. made.secret = secret
      OBVIOUS
    <3>2. r.code = 400 => ~OwnFlow(c, f)
      BY DEF Concluded, Answer, Pending
    <3>3. r.session \subseteq {made}
      BY DEF Concluded, Answer, Pending
    <3> HIDE DEF r, made
    <3> QED
      BY <2>4, <3>1, <3>2, <3>3 DEF r
  <2>5. \E r : /\ Replied(t, r)
               /\ r.code = 400 => ~OwnFlow(c, f)
               /\ \A s \in r.session : s.secret \in {0, secret}
    <3>1. CASE ~ready
      <4>1. Replied(t, Answer(503))
        BY <1>2, <3>1 DEF ServeCallback
      <4> QED
        BY <2>2, <4>1
    <3>2. CASE ready /\ u = Nobody
      <4>1. Replied(t, Answer(403))
        BY <1>2, <3>2 DEF ServeCallback
      <4> QED
        BY <2>2, <4>1
    <3>3. CASE ready /\ u # Nobody /\ c = NoFlow
      <4>1. Replied(t, Answer(400))
        BY <1>2, <3>3 DEF ServeCallback
      <4> QED
        <5>1. ~OwnFlow(c, f)
          BY <2>3, <3>3
        <5> HIDE DEF c, f
        <5> QED
          BY <2>2, <4>1, <5>1
    <3>4. CASE ready /\ u # Nobody /\ c # NoFlow
      <4>1. \E exchanged \in {f \notin redeemed, FALSE} :
               Replied(t, Concluded(OwnFlow(c, f), exchanged, f, u))
        BY <1>2, <3>4 DEF ServeCallback
      <4> QED
        BY <2>4, <4>1
    <3> QED
      BY <3>1, <3>2, <3>3, <3>4
  <2> QED
    BY <2>1, <2>5
<1>3. CASE ServeApi(t)
  <2> DEFINE r == IF Valid(call[t].session) THEN Answer(200)
                  ELSE IF call[t].session = NoSession THEN Answer(401)
                  ELSE [Answer(401) EXCEPT !.session = {NoSession}]
  <2>1. Replied(t, r) /\ call[t].kind = "api"
    BY <1>3 DEF ServeApi, Arrived
  <2>2. r.session \subseteq {NoSession} /\ (r.session # {} => ~Valid(call[t].session))
    BY DEF Answer, Pending
  <2> HIDE DEF r
  <2> QED
    BY <2>1, <2>2 DEF NoSession
<1>4. CASE ServeMe(t)
  <2> DEFINE r == Answer(IF Valid(call[t].session) THEN 200 ELSE 401)
  <2>1. Replied(t, r) /\ call[t].kind = "me"
    BY <1>4 DEF ServeMe, Arrived
  <2>2. r.session = {}
    BY DEF Answer, Pending
  <2> HIDE DEF r
  <2> QED
    BY <2>1, <2>2
<1>5. CASE ServeLogout(t)
  <2> DEFINE r == [Answer(200) EXCEPT
                      !.session = {NoSession},
                      !.away = ProviderLogout /\ ready /\ Valid(call[t].session)]
  <2>1. Replied(t, r) /\ call[t].kind = "logout"
    BY <1>5 DEF ServeLogout, Arrived
  <2>2. r.session = {NoSession} /\ NoSession.secret = 0
    BY DEF Answer, Pending, NoSession
  <2> HIDE DEF r
  <2> QED
    BY <2>1, <2>2
<1> QED
  BY <1>1, <1>2, <1>3, <1>4, <1>5 DEF Serve

LEMMA JarsServed ==
  ASSUME IInv, Jars, NEW t \in Tabs, Serve(t)
  PROVE  Jars'
<1> PICK r :
      /\ Replied(t, r)
      /\ call[t].kind = "callback" /\ r.code = 400 => ~OwnFlow(call[t].flow, login[t])
      /\ call[t].kind = "login" /\ r.code = 302 => \A c \in r.flow : c.secret = secret
      /\ \A s \in r.session : s.secret \in {0, secret}
      /\ call[t].kind \in {"me", "login"} => r.session = {}
      /\ call[t].kind = "api" /\ r.session # {} => ~Valid(call[t].session)
      /\ call[t].kind # "none"
  BY Answers
<1>1. /\ UNCHANGED <<secret, expired, flowJar, sessionJar, spoiled, login, call>>
      /\ reply' = [reply EXCEPT ![t] = r]
  BY DEF Replied, serverVars, jarVars
<1>2. reply'[t] = r /\ \A u \in Tabs \ {t} : reply'[u] = reply[u]
  BY <1>1 DEF IInv, Shaped
<1>3. ASSUME NEW u \in Tabs \ {t} PROVE Carried(u)' /\ Dated(u)'
  BY <1>1, <1>2 DEF Jars, Carried, Dated
<1>4. Carried(t)'
  <2>1. login[t] # 0
        \/ call[t].kind # "callback"
    BY DEF IInv, Travels
  <2> QED
    BY <1>1, <1>2, <2>1 DEF Jars, Carried, OwnFlow, Signed
<1>5. Dated(t)'
  <2>1. secret \in Nat /\ call[t].session.secret \in 0..secret
    BY DEF Jars, Dated
  <2>2. \A s \in r.session : s.secret \in 0..secret
    BY <2>1
  <2>3. ~Valid(call[t].session) => \/ call[t].session.flow \in expired \cup {0}
                                   \/ call[t].session.secret < secret
    BY <2>1 DEF Valid, Signed
  <2> QED
    BY <1>1, <1>2, <2>1, <2>2, <2>3 DEF Jars, Dated
<1> QED
  BY <1>1, <1>3, <1>4, <1>5 DEF Jars

\* A request takes the jars as they are.
LEMMA JarsSent ==
  ASSUME IInv, Jars, NEW t \in Tabs, NEW kind \in {"api", "me", "logout", "login", "callback"},
         NEW u, Send(t, kind, u), kind = "callback" => login[t] # 0
  PROVE  Jars'
<1>1. /\ UNCHANGED <<secret, expired, flowJar, sessionJar, spoiled, login, reply>>
      /\ call[t] = NoCall /\ reply[t] = Pending
  BY DEF Send, serverVars, jarVars, IInv, Travels
<1>2. /\ call'[t].kind = kind /\ call'[t].flow = flowJar /\ call'[t].session = sessionJar
      /\ \A v \in Tabs \ {t} : call'[v] = call[v]
  BY DEF Send, IInv, Shaped
<1>3. ASSUME NEW v \in Tabs \ {t} PROVE Carried(v)' /\ Dated(v)'
  BY <1>1, <1>2 DEF Jars, Carried, Dated
<1>4. Carried(t)'
  BY <1>1, <1>2 DEF Jars, Carried, Pending
<1>5. Dated(t)'
  BY <1>1, <1>2 DEF Jars, Dated, Pending
<1> QED
  BY <1>1, <1>2, <1>3, <1>4, <1>5 DEF Jars

\* A request is over.  A login cookie that leaves the jar is spoiled, and the
\* login a tab is left with is the one it had or the one of the cookie it got.
LEMMA JarsOver ==
  ASSUME IInv, Jars, NEW t \in Tabs, Receive(t) \/ Lose(t) \/ Open(t)
  PROVE  Jars'
<1>1. /\ UNCHANGED <<secret, expired>> /\ call'[t] = NoCall /\ reply'[t] = Pending
      /\ \A v \in Tabs \ {t} : call'[v] = call[v] /\ reply'[v] = reply[v] /\ login'[v] = login[v]
  BY DEF Receive, Lose, Open, serverVars, IInv, Shaped, Travels
<1>2. /\ spoiled \subseteq spoiled'
      /\ flowJar' # flowJar => flowJar.flow \in spoiled' \cup {0}
  <2>1. CASE Receive(t)
    BY <2>1 DEF Receive
  <2>2. CASE Lose(t) \/ Open(t)
    BY <2>2 DEF Lose, Open, jarVars
  <2> QED
    BY <2>1, <2>2
<1>3. sessionJar'.secret \in 0..secret
  <2>1. CASE Receive(t)
    BY <2>1 DEF Receive, Put, Jars, Dated
  <2>2. CASE Lose(t) \/ Open(t)
    BY <2>2 DEF Lose, Open, jarVars, Jars
  <2> QED
    BY <2>1, <2>2
<1>4. \A v \in Tabs : (login[v] # 0 /\ login[v] \notin spoiled') =>
                         flowJar'.flow = login[v] /\ flowJar'.secret = secret
  BY <1>2 DEF Jars, Carried
<1>5. ASSUME NEW v \in Tabs \ {t} PROVE Carried(v)' /\ Dated(v)'
  BY <1>1, <1>2, <1>4 DEF Jars, Carried, Dated
<1>6. (login'[t] # 0 /\ login'[t] \notin spoiled') =>
         flowJar'.flow = login'[t] /\ flowJar'.secret = secret
  <2>1. CASE call[t].kind = "login" /\ reply[t].code = 302 /\ Receive(t)
    <3>1. flowJar' \in reply[t].flow /\ login'[t] = flowJar'.flow
      BY <2>1 DEF Receive, Put, IInv, Shaped, Travels
    <3> QED
      BY <1>2, <2>1, <3>1 DEF Jars, Carried
  <2>2. CASE ~(call[t].kind = "login" /\ reply[t].code = 302 /\ Receive(t))
    <3>1. login'[t] \in {0, login[t]}
      BY <2>2 DEF Receive, Lose, Open, IInv, Shaped
    <3> QED
      BY <1>4, <3>1
  <2> QED
    BY <2>1, <2>2
<1>7. Carried(t)'
  BY <1>1, <1>6 DEF Carried, NoCall, Pending
<1>8. Dated(t)'
  BY <1>1 DEF Jars, Dated, NoCall, NoSession, Pending
<1>9. \A v \in Tabs : call'[v].kind \in {"none", "api", "me", "login", "callback", "logout"}
  BY <1>1 DEF Jars, NoCall
<1> QED
  BY <1>1, <1>3, <1>5, <1>7, <1>8, <1>9 DEF Jars

\* The process or the cookies grow old.  A new secret spoils every login there
\* is; with a configured one nothing is lost.
LEMMA JarsAged ==
  ASSUME IInv, Jars, Discover \/ Restart \/ FlowExpires \/ SessionExpires
  PROVE  Jars'
<1>1. UNCHANGED <<login, call, reply>>
  BY DEF Discover, Restart, FlowExpires, SessionExpires, tabVars
<1>2. \A t \in Tabs : /\ login[t] # 0 => login[t] \in 1..logins
                      /\ call[t].kind = "callback" => login[t] # 0
                      /\ call[t].kind = "login" /\ reply[t].code = 302 =>
                            \A c \in reply[t].flow : c.flow \in 1..logins
  BY DEF IInv, Travels, OneTabEach, Held, Given
<1>3. secret \in Nat /\ \A t \in Tabs : Carried(t) /\ Dated(t)
  BY DEF Jars
<1>4. CASE Discover \/ (Restart /\ configured) \/ SessionExpires
  <2>1. /\ UNCHANGED <<secret, flowJar, spoiled>> /\ expired \subseteq expired'
        /\ sessionJar' = sessionJar \/ sessionJar' = NoSession
    BY <1>4 DEF Discover, Restart, SessionExpires, serverVars, jarVars
  <2> QED
    BY <1>1, <2>1 DEF Jars, Carried, Dated, NoSession
<1>5. CASE Restart /\ ~configured
  <2>1. secret' = secret + 1 /\ spoiled' = 1..logins /\ UNCHANGED <<expired, sessionJar>>
    BY <1>5 DEF Restart
  <2>2. \A t \in Tabs : Carried(t)'
    BY <1>1, <1>2, <2>1 DEF Carried
  <2>3. \A t \in Tabs : Dated(t)'
    BY <1>1, <1>3, <2>1 DEF Dated
  <2> QED
    BY <1>1, <1>3, <2>1, <2>2, <2>3 DEF Jars
<1>6. CASE FlowExpires
  <2>1. spoiled' = spoiled \cup {flowJar.flow} /\ UNCHANGED <<secret, expired, sessionJar>>
    BY <1>6 DEF FlowExpires, serverVars
  <2>2. \A t \in Tabs : Carried(t)'
    BY <1>1, <1>2, <1>3, <2>1 DEF Carried
  <2> QED
    BY <1>1, <2>1, <2>2 DEF Jars, Dated
<1> QED
  BY <1>4, <1>5, <1>6

LEMMA JarsStay == IInv /\ Jars /\ [Next]_vars => Jars'
<1> SUFFICES ASSUME IInv, Jars, [Next]_vars PROVE Jars'
  OBVIOUS
<1>1. ASSUME NEW t \in Tabs, Tab(t) PROVE Jars'
  <2>1. CASE Boot(t) \/ Use(t) \/ Probe(t) \/ SignOut(t) \/ Begin(t)
    BY <2>1, JarsSent DEF Boot, Use, Probe, SignOut, Begin
  <2>2. CASE Return(t)
    <3>1. call[t] = NoCall /\ screen[t] = "idp"
      BY <2>2 DEF Return, Send
    <3>2. login[t] # 0
      BY <3>1 DEF IInv, Travels, NoCall
    <3> QED
      BY <2>2, <3>2, JarsSent DEF Return
  <2>3. CASE Resend(t)
    BY <2>3, JarsSent DEF Resend
  <2> QED
    BY <1>1, <2>1, <2>2, <2>3, JarsOver DEF Tab
<1>2. CASE UNCHANGED vars
  BY <1>2 DEF vars, serverVars, jarVars, tabVars, Jars, Carried, Dated
<1> QED
  BY <1>1, <1>2, JarsServed, JarsAged DEF Next

LEMMA JarsHold == Spec => [](IInv /\ Jars)
<1> QED
  BY NobodyYet, EmptyJars, SomeoneMoves, JarsStay, PTL DEF Spec

\* A login whose cookie the browser still held when it came back is never told
\* that there is none, whatever happened to the process meanwhile and in the
\* other tabs (login, callback).
THEOREM LoginsSurvive == Spec => []LoginSurvives
<1>1. Jars => LoginSurvives
  BY DEF Jars, Carried, LoginSurvives
<1> QED
  BY <1>1, JarsHold, PTL

\* A session that this process accepts leaves the jar only by its own end, by
\* signing out, by another login, or by the refusal of an earlier cookie
\* (Middleware, logout, callback).
THEOREM SessionsAreKept == Spec => SessionIsKept
<1> DEFINE Kept ==
      sessionJar # NoSession /\ Valid(sessionJar) /\ sessionJar' # sessionJar =>
          \/ sessionJar.flow \in expired'
          \/ \E t \in Tabs :
                /\ call[t] # NoCall /\ call'[t] = NoCall
                /\ \/ call[t].kind \in {"logout", "callback"}
                   \/ call[t].session # sessionJar
<1>1. IInv /\ Jars /\ [Next]_vars => [Kept]_vars
  <2> SUFFICES ASSUME IInv, Jars, Next, Valid(sessionJar), sessionJar' # sessionJar
               PROVE  \/ sessionJar.flow \in expired'
                      \/ \E t \in Tabs :
                            /\ call[t] # NoCall /\ call'[t] = NoCall
                            /\ \/ call[t].kind \in {"logout", "callback"}
                               \/ call[t].session # sessionJar
    OBVIOUS
  <2>1. CASE SessionExpires
    BY <2>1 DEF SessionExpires
  <2>2. ASSUME NEW t \in Tabs, Receive(t)
        PROVE  /\ call[t] # NoCall /\ call'[t] = NoCall
               /\ \/ call[t].kind \in {"logout", "callback"}
                  \/ call[t].session # sessionJar
    <3>1. call[t] # NoCall /\ call'[t] = NoCall /\ reply[t].session # {}
      BY <2>2 DEF Receive, Put, IInv, Shaped, Travels
    <3>2. CASE call[t].kind = "api"
      <4>1. secret \in Nat
        BY DEF Jars
      <4>2. \/ call[t].session.flow \in expired \cup {0}
            \/ call[t].session.secret \in 0..secret /\ call[t].session.secret < secret
        BY <3>1, <3>2 DEF Jars, Dated
      <4>3. ~Valid(call[t].session)
        BY <4>1, <4>2 DEF Valid, Signed
      <4> QED
        BY <3>1, <4>3
    <3>3. CASE call[t].kind # "api"
      BY <3>1, <3>3 DEF Jars, Dated
    <3> QED
      BY <3>2, <3>3
  <2>3. ASSUME NEW t \in Tabs, Tab(t), ~Receive(t) PROVE sessionJar' = sessionJar
    BY <2>3 DEF Tab, Boot, Use, Probe, SignOut, Begin, Return, Resend, Open, Lose, Send, jarVars
  <2>4. ASSUME NEW t \in Tabs, Serve(t) PROVE sessionJar' = sessionJar
    BY <2>4, Answers DEF Replied, jarVars
  <2>5. CASE Discover \/ Restart \/ FlowExpires
    BY <2>5 DEF Discover, Restart, FlowExpires, jarVars
  <2> QED
    BY <2>1, <2>2, <2>3, <2>4, <2>5 DEF Next
<1>2. [][Next]_vars /\ [](IInv /\ Jars) => [][Kept]_vars
  BY <1>1, PTL
<1>3. SessionIsKept <=> [][Kept]_vars
  BY DEF SessionIsKept
<1> QED
  BY <1>2, <1>3, JarsHold, PTL DEF Spec

-----------------------------------------------------------------------------
(* Types.                                                                  *)

\* The type invariant by its parts: the process, of which a secret is drawn at
\* each restart at most; the logins and the jar; what the tabs show.
ProcessTyped ==
    /\ secret \in 0..restarts /\ restarts \in 0..MaxRestarts
    /\ configured \in BOOLEAN /\ (configured => secret = 0)
    /\ ready \in BOOLEAN
JarTyped ==
    /\ logins \in 0..MaxLogins
    /\ redeemed \subseteq Logins /\ expired \subseteq Logins /\ spoiled \subseteq Logins
    /\ who \in [Logins -> Users \cup {Nobody}]
    /\ flowJar \in Flows /\ sessionJar \in Sessions
ScreenTyped ==
    /\ screen \in [Tabs -> {"loading", "app", "gate", "idp", "page"}]
    /\ login \in [Tabs -> 0..MaxLogins]

\* A request and its answer.
CallTyped(c) ==
    /\ c.kind \in {"none", "api", "me", "login", "callback", "logout"}
    /\ c.user \in Users \cup {Nobody}
    /\ c.flow \in Flows /\ c.session \in Sessions
ReplyTyped(r) ==
    /\ r.code \in {0, 200, 302, 400, 401, 403, 500, 503}
    /\ r.flow \subseteq Flows /\ r.session \subseteq Sessions
    /\ r.away \in BOOLEAN
TabTyped(t) ==
    CallTyped(call[t]) /\ ReplyTyped(reply[t]) /\ (call[t].kind = "none" => reply[t] = Pending)

TypeInv == ProcessTyped /\ JarTyped /\ ScreenTyped /\ \A t \in Tabs : TabTyped(t)

LEMMA Blanks == CallTyped(NoCall) /\ ReplyTyped(Pending) /\ NoCall.kind = "none"
<1>1. NoFlow \in Flows /\ NoSession \in Sessions
  BY DEF Flows, Sessions
<1> QED
  BY <1>1 DEF CallTyped, ReplyTyped, NoCall, Pending

\* What leaves the variables of a part alone leaves the part alone.
LEMMA PartsKept ==
  ASSUME TypeInv
  PROVE  /\ UNCHANGED serverVars => ProcessTyped'
         /\ UNCHANGED <<idpVars, logins, expired, jarVars>> => JarTyped'
         /\ UNCHANGED <<screen, login>> => ScreenTyped'
         /\ UNCHANGED <<call, reply>> => \A t \in Tabs : TabTyped(t)'
<1>1. UNCHANGED serverVars => ProcessTyped'
  BY DEF TypeInv, ProcessTyped, serverVars
<1>2. UNCHANGED <<idpVars, logins, expired, jarVars>> => JarTyped'
  BY DEF TypeInv, JarTyped, idpVars, jarVars
<1>3. UNCHANGED <<screen, login>> => ScreenTyped'
  BY DEF TypeInv, ScreenTyped
<1>4. UNCHANGED <<call, reply>> => \A t \in Tabs : TabTyped(t)'
  BY DEF TypeInv, TabTyped
<1> QED
  BY <1>1, <1>2, <1>3, <1>4

\* A handler answers with cookies of this process, for logins there are.
LEMMA AnswersTyped ==
  ASSUME IInv, TypeInv, NEW t \in Tabs, Serve(t)
  PROVE  /\ \E r : ReplyTyped(r) /\ Replied(t, r)
         /\ call[t].kind # "none"
         /\ logins' \in 0..MaxLogins /\ redeemed' \subseteq Logins /\ who' = who
<1>1. /\ logins \in 0..MaxLogins /\ redeemed \subseteq Logins /\ secret \in 0..MaxRestarts
      /\ CallTyped(call[t]) /\ login[t] \in 0..MaxLogins
      /\ NoFlow \in Flows /\ NoSession \in Sessions
  BY BoundsAssumption
  DEF TypeInv, ProcessTyped, JarTyped, ScreenTyped, TabTyped, Flows, Sessions
<1>2. \A code \in {200, 302, 400, 401, 403, 500, 503} :
        /\ ReplyTyped(Answer(code)) /\ Answer(code) = [Pending EXCEPT !.code = code]
        /\ ReplyTyped([Answer(code) EXCEPT !.flow = {NoFlow}])
        /\ ReplyTyped([Answer(code) EXCEPT !.session = {NoSession}])
  BY <1>1 DEF ReplyTyped, Answer, Pending
<1>3. CASE ServeLogin(t)
  <2>1. CASE ~ready
    BY <1>1, <1>2, <1>3, <2>1 DEF ServeLogin, Arrived
  <2>2. CASE ready
    <3> DEFINE c == [flow |-> logins + 1, secret |-> secret]
               r == [Answer(302) EXCEPT !.flow = {c}]
    <3>1. logins < MaxLogins /\ logins' = logins + 1 /\ Replied(t, r) /\ UNCHANGED <<redeemed, who>>
      BY <1>3, <2>2 DEF ServeLogin
    <3>2. c \in Flows
      BY <1>1, <3>1, BoundsAssumption DEF Flows, Logins
    <3>3. ReplyTyped(r)
      BY <3>2 DEF ReplyTyped, Answer, Pending
    <3>4. logins' \in 0..MaxLogins
      BY <1>1, <3>1, BoundsAssumption
    <3> QED
      BY <1>1, <1>3, <3>1, <3>3, <3>4 DEF ServeLogin, Arrived
  <2> QED
    BY <2>1, <2>2
<1>4. CASE ServeCallback(t)
  <2> DEFINE c == call[t].flow
             u == call[t].user
             f == login[t]
  <2>1. call[t].kind = "callback" /\ UNCHANGED <<logins, who>>
    BY <1>4 DEF ServeCallback, Arrived
  <2>2. CASE ~ready \/ u = Nobody \/ c = NoFlow
    <3>1. redeemed' = redeemed /\ \E code \in {503, 403, 400} : Replied(t, Answer(code))
      <4>1. CASE ~ready
        BY <1>4, <4>1 DEF ServeCallback
      <4>2. CASE ready /\ u = Nobody
        BY <1>4, <4>2 DEF ServeCallback
      <4>3. CASE ready /\ u # Nobody /\ c = NoFlow
        BY <1>4, <4>3 DEF ServeCallback
      <4> QED
        BY <2>2, <4>1, <4>2, <4>3
    <3> QED
      BY <1>1, <1>2, <2>1, <3>1
  <2>3. CASE ready /\ u # Nobody /\ c # NoFlow
    <3>1. PICK exchanged \in {f \notin redeemed, FALSE} :
              /\ Replied(t, Concluded(OwnFlow(c, f), exchanged, f, u))
              /\ redeemed' \in IF ~OwnFlow(c, f) THEN {redeemed}
                               ELSE IF exchanged THEN {redeemed \cup {f}}
                               ELSE {redeemed, redeemed \cup {f}}
      BY <1>4, <2>3 DEF ServeCallback
    <3>2. OwnFlow(c, f) => f \in Logins
      BY <1>1 DEF OwnFlow, Signed, Logins
    <3>3. redeemed' \subseteq Logins
      BY <1>1, <3>1, <3>2
    <3>4. ReplyTyped(Concluded(OwnFlow(c, f), exchanged, f, u))
      <4> DEFINE made == [flow |-> f, secret |-> secret, user |-> u]
                 gone == [Answer(400) EXCEPT !.flow = {NoFlow}]
      <4>1. ReplyTyped(gone) /\ ReplyTyped([gone EXCEPT !.code = 500]) /\ ReplyTyped([gone EXCEPT !.code = 403])
        BY <1>1 DEF ReplyTyped, Answer, Pending
      <4>2. CASE OwnFlow(c, f) /\ exchanged /\ Authorized(u)
        <5>1. made \in Sessions
          BY <1>1, <2>3, <3>2, <4>2 DEF CallTyped, Sessions
        <5>2. ReplyTyped([gone EXCEPT !.code = 302, !.session = {made}])
          BY <1>1, <5>1 DEF ReplyTyped, Answer, Pending
        <5> QED
          BY <4>2, <5>2 DEF Concluded
      <4>3. CASE ~(OwnFlow(c, f) /\ exchanged /\ Authorized(u))
        BY <4>1, <4>3 DEF Concluded
      <4> QED
        BY <4>2, <4>3
    <3> QED
      BY <1>1, <2>1, <3>1, <3>3, <3>4
  <2> QED
    BY <2>2, <2>3
<1>5. CASE ServeApi(t) \/ ServeMe(t)
  BY <1>1, <1>2, <1>5 DEF ServeApi, ServeMe, Arrived
<1>6. CASE ServeLogout(t)
  <2> DEFINE r == [Answer(200) EXCEPT !.session = {NoSession},
                                      !.away = ProviderLogout /\ ready /\ Valid(call[t].session)]
  <2>1. ReplyTyped(r)
    BY <1>1 DEF ReplyTyped, Answer, Pending
  <2> QED
    BY <1>1, <1>6, <2>1 DEF ServeLogout, Arrived
<1> QED
  BY <1>3, <1>4, <1>5, <1>6 DEF Serve

LEMMA ServedTyped ==
  ASSUME IInv, TypeInv, NEW t \in Tabs, Serve(t)
  PROVE  TypeInv'
<1> PICK r : ReplyTyped(r) /\ Replied(t, r)
  BY AnswersTyped
<1>1. /\ UNCHANGED <<serverVars, expired, jarVars, screen, login, call>>
      /\ reply' = [reply EXCEPT ![t] = r] /\ reply'[t] = r
  BY DEF Replied, IInv, Shaped
<1>2. JarTyped'
  BY <1>1, AnswersTyped DEF TypeInv, JarTyped, jarVars
<1>3. ASSUME NEW v \in Tabs PROVE TabTyped(v)'
  <2>1. call'[v] = call[v] /\ (v # t => reply'[v] = reply[v])
    BY <1>1
  <2> QED
    BY <1>1, <2>1, AnswersTyped DEF TypeInv, TabTyped
<1> QED
  BY <1>1, <1>2, <1>3, PartsKept DEF TypeInv

LEMMA SentTyped ==
  ASSUME IInv, TypeInv, NEW t \in Tabs, NEW kind \in {"api", "me", "logout", "login", "callback"},
         NEW u \in Users \cup {Nobody}, Send(t, kind, u), UNCHANGED screen,
         who' \in [Logins -> Users \cup {Nobody}]
  PROVE  TypeInv'
<1> DEFINE c == [kind |-> kind, user |-> u, flow |-> flowJar, session |-> sessionJar]
<1>1. /\ UNCHANGED <<serverVars, redeemed, logins, expired, jarVars, reply, login>>
      /\ call' = [call EXCEPT ![t] = c] /\ call'[t] = c
  BY DEF Send, IInv, Shaped
<1>2. JarTyped'
  BY <1>1 DEF TypeInv, JarTyped, jarVars
<1>3. CallTyped(c) /\ c.kind # "none"
  BY DEF CallTyped, TypeInv, JarTyped
<1>4. ASSUME NEW v \in Tabs PROVE TabTyped(v)'
  <2>1. reply'[v] = reply[v] /\ (v # t => call'[v] = call[v])
    BY <1>1
  <2> QED
    BY <1>1, <1>3, <2>1 DEF TypeInv, TabTyped
<1> QED
  BY <1>1, <1>2, <1>4, PartsKept DEF TypeInv

\* A request is over, and the tab shows something.
LEMMA OverTyped ==
  ASSUME IInv, TypeInv, NEW t \in Tabs, Receive(t) \/ Lose(t) \/ Open(t)
  PROVE  TypeInv'
<1>1. /\ UNCHANGED <<serverVars, idpVars, logins, expired>>
      /\ call'[t] = NoCall /\ reply'[t] = Pending
      /\ \A v \in Tabs \ {t} : call'[v] = call[v] /\ reply'[v] = reply[v]
  BY DEF Receive, Lose, Open, IInv, Shaped, Travels
<1>2. \A v \in Tabs : TabTyped(v)'
  BY <1>1, Blanks DEF TypeInv, TabTyped
<1>3. JarTyped' /\ flowJar' \in Flows
  <2>1. CASE Receive(t)
    <3>1. flowJar' \in Flows /\ sessionJar' \in Sessions
      BY <2>1 DEF Receive, Put, TypeInv, JarTyped, TabTyped, ReplyTyped
    <3>2. flowJar.flow \in Logins \cup {0}
      BY DEF TypeInv, JarTyped, Flows, NoFlow
    <3>3. spoiled' \subseteq Logins
      BY <2>1, <3>2 DEF Receive, TypeInv, JarTyped
    <3> QED
      BY <1>1, <3>1, <3>3 DEF TypeInv, JarTyped, idpVars
  <2>2. CASE Lose(t) \/ Open(t)
    BY <1>1, <2>2, PartsKept DEF Lose, Open, jarVars, TypeInv, JarTyped
  <2> QED
    BY <2>1, <2>2
<1>4. ScreenTyped'
  <2>1. CASE Receive(t)
    <3>1. flowJar'.flow \in 0..MaxLogins
      BY <1>3, BoundsAssumption DEF Flows, NoFlow, Logins
    <3>2. Shown(t, reply[t]) \in {"loading", "app", "gate", "idp", "page"}
      BY DEF Shown, TypeInv, ScreenTyped
    <3>3. 0 \in 0..MaxLogins
      BY BoundsAssumption
    <3>4. login' \in [Tabs -> 0..MaxLogins]
      BY <2>1, <3>1, <3>3 DEF Receive, TypeInv, ScreenTyped
    <3> QED
      BY <2>1, <3>2, <3>4 DEF Receive, TypeInv, ScreenTyped
  <2>2. CASE Lose(t)
    BY <2>2 DEF Lose, TypeInv, ScreenTyped
  <2>3. CASE Open(t)
    <3>1. 0 \in 0..MaxLogins
      BY BoundsAssumption
    <3> QED
      BY <2>3, <3>1 DEF Open, TypeInv, ScreenTyped
  <2> QED
    BY <2>1, <2>2, <2>3
<1> QED
  BY <1>1, <1>2, <1>3, <1>4, PartsKept DEF TypeInv

LEMMA AgedTyped ==
  ASSUME IInv, TypeInv, Discover \/ Restart \/ FlowExpires \/ SessionExpires
  PROVE  TypeInv'
<1>1. NoFlow \in Flows /\ NoSession \in Sessions
  BY DEF Flows, Sessions
<1>2. CASE Discover
  BY <1>2, PartsKept DEF Discover, TypeInv, ProcessTyped, tabVars
<1>3. CASE Restart
  <2>1. ProcessTyped'
    <3>1. /\ restarts \in Nat /\ restarts < MaxRestarts /\ restarts' = restarts + 1
          /\ secret \in 0..restarts /\ secret' \in {secret, secret + 1}
      BY <1>3, BoundsAssumption DEF Restart, TypeInv, ProcessTyped
    <3>2. secret' \in 0..restarts' /\ restarts' \in 0..MaxRestarts
      BY <3>1, BoundsAssumption
    <3>3. configured' \in BOOLEAN /\ (configured' => secret' = 0) /\ ready' \in BOOLEAN
      BY <1>3 DEF Restart, TypeInv, ProcessTyped
    <3> QED
      BY <3>2, <3>3 DEF ProcessTyped
  <2>2. 1..logins \subseteq Logins
    BY BoundsAssumption DEF TypeInv, JarTyped, Logins
  <2>3. JarTyped'
    BY <1>3, <2>2 DEF Restart, TypeInv, JarTyped, idpVars
  <2> QED
    BY <1>3, <2>1, <2>3, PartsKept DEF Restart, TypeInv, tabVars
<1>4. CASE FlowExpires
  <2>1. flowJar.flow \in Logins
    BY <1>4 DEF FlowExpires, TypeInv, JarTyped, Flows
  <2>2. JarTyped'
    BY <1>1, <1>4, <2>1 DEF FlowExpires, TypeInv, JarTyped, idpVars
  <2> QED
    BY <1>4, <2>2, PartsKept DEF FlowExpires, TypeInv, tabVars
<1>5. CASE SessionExpires
  <2>1. JarTyped'
    BY <1>1, <1>5 DEF SessionExpires, TypeInv, JarTyped, idpVars
  <2> QED
    BY <1>5, <2>1, PartsKept DEF SessionExpires, TypeInv, tabVars
<1> QED
  BY <1>2, <1>3, <1>4, <1>5

LEMMA StepTyped == IInv /\ TypeInv /\ [Next]_vars => TypeInv'
<1> SUFFICES ASSUME IInv, TypeInv, [Next]_vars PROVE TypeInv'
  OBVIOUS
<1>1. ASSUME NEW t \in Tabs, Tab(t) PROVE TypeInv'
  <2>1. CASE Boot(t) \/ Use(t) \/ Probe(t) \/ SignOut(t) \/ Begin(t)
    <3>1. who' \in [Logins -> Users \cup {Nobody}] /\ UNCHANGED screen
      BY <2>1 DEF Boot, Use, Probe, SignOut, Begin, TypeInv, JarTyped
    <3>2. PICK kind \in {"api", "me", "logout", "login"} : Send(t, kind, Nobody)
      BY <2>1 DEF Boot, Use, Probe, SignOut, Begin
    <3> QED
      BY <3>1, <3>2, SentTyped
  <2>2. CASE Return(t)
    <3>1. PICK u \in Users \cup {Nobody} :
              Send(t, "callback", u) /\ who' = [who EXCEPT ![login[t]] = u] /\ UNCHANGED screen
      BY <2>2 DEF Return
    <3>2. who' \in [Logins -> Users \cup {Nobody}]
      BY <3>1 DEF TypeInv, JarTyped
    <3> QED
      BY <3>1, <3>2, SentTyped
  <2>3. CASE Resend(t)
    <3>1. login[t] \in Logins
      BY <2>3, BoundsAssumption DEF Resend, TypeInv, ScreenTyped, Logins
    <3>2. who[login[t]] \in Users \cup {Nobody} /\ who' = who /\ UNCHANGED screen
      BY <2>3, <3>1 DEF Resend, TypeInv, JarTyped
    <3> QED
      BY <2>3, <3>2, SentTyped DEF Resend, TypeInv, JarTyped
  <2> QED
    BY <1>1, <2>1, <2>2, <2>3, OverTyped DEF Tab
<1>2. CASE UNCHANGED vars
  BY <1>2, PartsKept DEF vars, tabVars, TypeInv
<1> QED
  BY <1>1, <1>2, ServedTyped, AgedTyped DEF Next

\* Every variable of the process, of the browser and of its tabs keeps its type:
\* each cookie is one that was signed for a login that was begun, with a secret
\* of this process or an earlier one (login, callback, logout, Middleware).
THEOREM SignInTyped == Spec => []TypeOK
<1>1. Init => TypeInv
  <2> SUFFICES ASSUME Init PROVE TypeInv
    OBVIOUS
  <2>1. NoFlow \in Flows /\ NoSession \in Sessions
    BY DEF Flows, Sessions
  <2>2. ProcessTyped
    <3>1. configured \in BOOLEAN /\ ready \in BOOLEAN
      BY Zenon DEF Init
    <3>2. secret = 0 /\ restarts = 0 /\ MaxRestarts \in Nat
      BY BoundsAssumption DEF Init
    <3> QED
      BY <3>1, <3>2 DEF ProcessTyped
  <2>3. JarTyped /\ ScreenTyped
    BY <2>1, BoundsAssumption DEF Init, JarTyped, ScreenTyped
  <2>4. \A t \in Tabs : TabTyped(t)
    BY Blanks DEF Init, TabTyped
  <2> QED
    BY <2>2, <2>3, <2>4 DEF TypeInv
<1>2. TypeInv => TypeOK
  <2> SUFFICES ASSUME TypeInv PROVE TypeOK
    OBVIOUS
  <2>1. secret \in 0..MaxRestarts
    BY BoundsAssumption DEF TypeInv, ProcessTyped
  <2> QED
    BY <2>1
    DEF TypeInv, ProcessTyped, JarTyped, ScreenTyped, TabTyped, CallTyped, ReplyTyped, TypeOK
<1> QED
  BY <1>1, <1>2, NobodyYet, SomeoneMoves, StepTyped, PTL DEF Spec
=============================================================================
