-------------------------- MODULE WebConsoleProofs --------------------------
(***************************************************************************)
(* Theorems about WebConsole, for every number of requests of a load, every *)
(* lifetime of a session and every set of tokens.  The invariant adds to   *)
(* the types what is known of a cookie (when it expires), of a load (an    *)
(* answer to it leaves either data or a refusal) and of an action (its     *)
(* load reads the history after its record).                               *)
(***************************************************************************)
EXTENDS WebConsole, TLAPS

CookieOK(c) == c # NoCookie => c.expires = (c.since + TTL) \div Second

LoadOK(l) ==
    /\ l \in Load
    /\ CookieOK(l.cookie)
    /\ l.refused => l.waiting > 0 /\ l.age = None
    /\ l # NoLoad /\ l.age = None /\ ~l.refused => l.waiting = Requests

LoadsOK == loads \in [Owners -> Load] /\ \A o \in Owners : LoadOK(loads[o])

Data == view = "dashboard" /\ login # "loading" => shown # None

Acting ==
    /\ Open("action") => action.stage = "loading"
    /\ action.record <= records
    /\ ~action.failed /\ loads["action"].age # None =>
            loads["action"].age >= action.record

Inv == TypeOK /\ CookieOK(cookie) /\ LoadsOK /\ Data /\ Acting

USE TimeAssumption, NoTokenAssumption, RequestsAssumption, NoneAssumption

(***************************************************************************)
(* Cookies and loads.                                                      *)
(***************************************************************************)

\* What rounding down to a second does (auth.go:45-61, 124).
LEMMA Rounding ==
    ASSUME NEW x \in Nat
    PROVE  /\ x \div Second \in Nat
           /\ (x \div Second) * Second <= x
           /\ x < (x \div Second) * Second + Second
<1>1. x \div Second \in Nat OBVIOUS
<1>2. (x \div Second) * Second <= x OBVIOUS
<1>3. x < (x \div Second) * Second + Second OBVIOUS
<1> QED BY <1>1, <1>2, <1>3

\* A cookie that is set has the type and the expiry of one.
LEMMA SessionIsCookie ==
    ASSUME NEW key \in Tokens \cup {NoToken}, NEW time \in Nat
    PROVE  /\ SetSession(key, time) \in Cookie
           /\ CookieOK(SetSession(key, time))
<1>1. time + TTL \in Nat OBVIOUS
<1>2. (time + TTL) \div Second \in Nat BY <1>1, Rounding
<1> QED BY <1>2 DEF SetSession, Cookie, CookieOK

\* A cookie lets a request in for less than TTL, and is refused at most a
\* second before TTL is over.
LEMMA CookieLifetime ==
    ASSUME NEW c \in Cookie, CookieOK(c), c # NoCookie, NEW time \in Nat
    PROVE  /\ time < c.expires * Second => time < c.since + TTL
           /\ ~(time < c.expires * Second) => time > c.since + TTL - Second
<1>1. c.since \in Nat /\ c.since + TTL \in Nat BY DEF Cookie
<1>2. c.expires \in Nat BY DEF Cookie
<1>3. c.expires = (c.since + TTL) \div Second BY DEF CookieOK
<1>4. c.expires * Second <= c.since + TTL BY <1>1, <1>3, Rounding
<1>5. c.since + TTL < c.expires * Second + Second BY <1>1, <1>3, Rounding
<1>6. c.expires * Second \in Nat BY <1>2
<1> QED BY <1>1, <1>4, <1>5, <1>6

\* A new load and the lack of one are well formed.
LEMMA NoLoadOK == LoadOK(NoLoad) /\ NoLoad.age = None
BY DEF LoadOK, NoLoad, Load, CookieOK

LEMMA NewLoadOK ==
    ASSUME NEW jar \in Cookie \cup {NoCookie}, CookieOK(jar)
    PROVE  LoadOK(NewLoad(jar)) /\ NewLoad(jar).age = None
BY DEF LoadOK, NewLoad, Load

LEMMA NoActionOK ==
    NoAction \in Action /\ NoAction.stage = "none" /\ ~NoAction.failed /\ NoAction.record = 0
BY DEF NoAction, Action

\* Replacing one load leaves the others.
LEMMA Replaced ==
    ASSUME LoadsOK, NEW o \in Owners, NEW l, LoadOK(l),
           loads' = [loads EXCEPT ![o] = l]
    PROVE  /\ LoadsOK'
           /\ loads'[o] = l
           /\ \A p \in Owners : p # o => loads'[p] = loads[p]
<1>1. l \in Load BY DEF LoadOK
<1>2. loads'[o] = l BY DEF LoadsOK
<1>3. \A p \in Owners : p # o => loads'[p] = loads[p] BY DEF LoadsOK
<1>4. loads' \in [Owners -> Load] BY <1>1 DEF LoadsOK
<1>5. \A p \in Owners : LoadOK(loads'[p]) BY <1>2, <1>3 DEF LoadsOK
<1>6. LoadsOK' BY <1>4, <1>5 DEF LoadsOK, LoadOK, CookieOK, Load
<1> QED BY <1>2, <1>3, <1>6

(***************************************************************************)
(* The invariant, action by action.                                        *)
(***************************************************************************)
LEMMA InvInit == Init => Inv
<1> SUFFICES ASSUME Init PROVE Inv
  OBVIOUS
<1>1. cookie \in Cookie \cup {NoCookie} /\ CookieOK(cookie)
  <2>1. CASE cookie = NoCookie
    BY <2>1 DEF CookieOK
  <2>2. CASE cookie = SetSession(token, 0)
    <3>1. token \in Tokens \cup {NoToken} /\ 0 \in Nat
      BY DEF Init
    <3> QED
      BY <2>2, <3>1, SessionIsCookie
  <2> QED
    BY <2>1, <2>2 DEF Init
<1>2. LoadOK(NewLoad(cookie)) /\ LoadOK(NoLoad) /\ NewLoad(cookie) \in Load /\ NoLoad \in Load
  BY <1>1, NewLoadOK, NoLoadOK DEF LoadOK
<1>3. LoadsOK
  BY <1>2 DEF Init, LoadsOK
<1>4. loads["action"] = NoLoad
  BY DEF Init, Owners
<1>5. TypeOK
  BY <1>1, <1>3, NoActionOK DEF Init, TypeOK, LoadsOK
<1>6. Acting
  <2>1. loads["action"].age = None /\ ~Open("action")
    BY <1>4, NoLoadOK DEF Open
  <2>2. action.record <= records
    <3>1. action = NoAction /\ records = 0
      BY DEF Init
    <3> QED
      BY <3>1, NoActionOK
  <2> QED
    BY <2>1, <2>2 DEF Acting
<1> QED
  BY <1>1, <1>3, <1>5, <1>6 DEF Init, Inv, Data

\* An answer leaves a load with data or with a refusal.
LEMMA AnsweredOK ==
    ASSUME NEW l \in Load, LoadOK(l), l.waiting > 0, ~l.refused, records \in Nat
    PROVE  /\ LoadOK(Answered(l)) /\ Answered(l) # NoLoad
           /\ Answered(l).age # None =>
                Answered(l).age = records \/ Answered(l).age = l.age
<1>1. CASE Authenticate(token, l.cookie, now)
  <2> DEFINE age == IF l.age = None THEN records ELSE l.age
  <2>1. Answered(l) = [l EXCEPT !.waiting = l.waiting - 1, !.age = age]
    BY <1>1 DEF Answered
  <2>2. age \in Nat /\ age # None /\ l.waiting - 1 \in 0 .. Requests
    BY DEF Load
  <2> HIDE DEF age
  <2>3. /\ Answered(l).age = age /\ Answered(l).cookie = l.cookie
        /\ Answered(l).refused = l.refused /\ Answered(l).waiting = l.waiting - 1
    BY <2>1 DEF Load
  <2>4. Answered(l) \in Load
    BY <2>1, <2>2 DEF Load
  <2>5. Answered(l) # NoLoad
    BY <2>2, <2>3 DEF NoLoad
  <2> QED
    BY <2>2, <2>3, <2>4, <2>5 DEF LoadOK, age
<1>2. CASE ~Authenticate(token, l.cookie, now)
  <2>1. Answered(l) = [l EXCEPT !.refused = TRUE, !.age = None]
    BY <1>2 DEF Answered
  <2>2. /\ Answered(l).age = None /\ Answered(l).cookie = l.cookie
        /\ Answered(l).refused /\ Answered(l).waiting = l.waiting
    BY <2>1 DEF Load
  <2>3. Answered(l) \in Load
    BY <2>1 DEF Load
  <2> QED
    BY <2>2, <2>3 DEF LoadOK, NoLoad
<1> QED
  BY <1>1, <1>2

LEMMA InvServe == ASSUME Inv, NEW o \in Owners, Serve(o) PROVE Inv'
<1> DEFINE l == Answered(loads[o])
<1>1. /\ loads' = [loads EXCEPT ![o] = l]
      /\ LoadOK(l) /\ l # NoLoad
      /\ l.age # None => l.age = records \/ l.age = loads[o].age
  BY AnsweredOK DEF Inv, LoadsOK, LoadOK, TypeOK, Serve
<1> HIDE DEF l
<1>2. /\ LoadsOK' /\ loads'[o] = l
      /\ \A p \in Owners : p # o => loads'[p] = loads[p]
  BY <1>1, Replaced DEF Inv
<1>3. Open(o)
  BY DEF Serve, Open, NoLoad
<1>4. UNCHANGED <<view, shown, login, action, cookie, records>>
  BY DEF Serve, server
<1>5. TypeOK'
  BY <1>2 DEF Inv, TypeOK, Serve, server, LoadsOK
<1>6. Acting'
  <2>1. CASE o = "action"
    <3>1. action.stage = "loading" /\ action.record <= records
      BY <1>3, <2>1 DEF Inv, Acting
    <3>2. ~action.failed /\ l.age # None => l.age >= action.record
      <4>1. action.record \in Nat /\ records \in Nat
        BY DEF Inv, TypeOK, Action
      <4> QED
        BY <1>1, <2>1, <3>1, <4>1 DEF Inv, Acting
    <3> QED
      BY <1>2, <1>4, <2>1, <3>1, <3>2 DEF Acting, Open
  <2>2. CASE o # "action"
    <3>1. loads'["action"] = loads["action"]
      BY <1>2, <2>2 DEF Owners
    <3> QED
      BY <1>4, <3>1 DEF Inv, Acting, Open
  <2> QED
    BY <2>1, <2>2
<1> QED
  BY <1>2, <1>4, <1>5, <1>6 DEF Inv, Data, CookieOK

\* The end of a load closes it, and with it the action that awaited it.
LEMMA InvEndLoad ==
    ASSUME Inv, NEW o \in Owners, NEW e \in {error, "load"}, EndLoad(o, e),
           view' \in {"login", "dashboard"}, shown' \in Nat \cup {None},
           view' = "dashboard" => shown' # None
    PROVE  Inv'
<1>1. /\ LoadsOK' /\ loads'[o] = NoLoad
      /\ \A p \in Owners : p # o => loads'[p] = loads[p]
  BY NoLoadOK, Replaced DEF Inv, EndLoad
<1>2. action' = (IF o = "action" THEN NoAction ELSE action) /\ records' = records
  BY DEF EndLoad, ActionAfterLoad, server
<1>3. TypeOK'
  <2>1. error' \in {"", "load", "login", "action"}
    BY DEF Inv, TypeOK, EndLoad, ErrorAfterLoad
  <2>2. action' \in Action
    BY <1>2, NoActionOK DEF Inv, TypeOK
  <2>3. login' \in {"none", "posted", "loading"}
    BY DEF Inv, TypeOK, EndLoad
  <2> QED
    BY <1>1, <2>1, <2>2, <2>3 DEF Inv, TypeOK, EndLoad, server, LoadsOK
<1>4. Acting'
  <2>1. CASE o = "action"
    <3>1. loads'["action"].age = None /\ ~Open("action")'
      BY <1>1, <2>1, NoLoadOK DEF Open
    <3>2. action'.record = 0 /\ records' \in Nat
      BY <1>2, <2>1, NoActionOK DEF Inv, TypeOK
    <3> QED
      BY <3>1, <3>2 DEF Acting
  <2>2. CASE o # "action"
    <3>1. loads'["action"] = loads["action"] /\ action' = action
      BY <1>1, <1>2, <2>2 DEF Owners
    <3> QED
      BY <1>2, <3>1 DEF Inv, Acting, Open
  <2> QED
    BY <2>1, <2>2
<1> QED
  BY <1>1, <1>3, <1>4 DEF Inv, Data, EndLoad, CookieOK

LEMMA InvDeliver == ASSUME Inv, NEW o \in Owners, Deliver(o) PROVE Inv'
<1>1. LoadOK(loads[o]) /\ loads[o] # NoLoad /\ loads[o].waiting = 0
  BY DEF Inv, LoadsOK, Deliver, Open
<1>2. loads[o].age \in Nat \cup {None} /\ loads[o].age # None
  BY <1>1 DEF LoadOK, Load
<1> QED
  BY <1>2, InvEndLoad DEF Deliver

LEMMA InvLoadRefused == ASSUME Inv, NEW o \in Owners, Reject(o) \/ FailLoad(o) PROVE Inv'
<1>1. view' = "login" /\ shown' = shown /\ shown \in Nat \cup {None}
  BY DEF Inv, TypeOK, Reject, FailLoad
<1>2. EndLoad(o, error) \/ EndLoad(o, "load")
  BY DEF Reject, FailLoad
<1> QED
  BY <1>1, <1>2, InvEndLoad

\* What the user starts is counted.
LEMMA ClickCounts == ASSUME Inv, Click PROVE clicks' \in Nat
<1>1. clicks \in Nat BY DEF Inv, TypeOK
<1>2. clicks' = clicks + 1 BY DEF Click
<1> QED BY <1>1, <1>2

LEMMA InvRefresh == Inv /\ Refresh => Inv'
<1> SUFFICES ASSUME Inv, Refresh PROVE Inv'
  OBVIOUS
<1>1. LoadOK(NewLoad(cookie))
  BY NewLoadOK DEF Inv, TypeOK
<1>2. LoadsOK' /\ loads'["action"] = loads["action"]
  BY <1>1, Replaced DEF Inv, Refresh, StartLoad, Owners
<1>3. TypeOK'
  BY <1>2, ClickCounts DEF Inv, TypeOK, Refresh, StartLoad, server, LoadsOK
<1> QED
  BY <1>2, <1>3 DEF Inv, Data, Acting, Open, Refresh, server, CookieOK

LEMMA InvLogin == Inv /\ Login => Inv'
<1> SUFFICES ASSUME Inv, Login PROVE Inv'
  OBVIOUS
<1>1. TypeOK'
  BY ClickCounts DEF Inv, TypeOK, Login, server
<1> QED
  BY <1>1 DEF Inv, Data, Acting, Open, Login, server, CookieOK, LoadsOK, LoadOK, Load, Cookie

LEMMA InvLoginAnswered == Inv /\ LoginAnswered => Inv'
<1> SUFFICES ASSUME Inv, LoginAnswered PROVE Inv'
  OBVIOUS
<1>1. UNCHANGED <<shown, logout, action, server, clicks>> /\ login = "posted"
  BY DEF LoginAnswered
<1>2. CASE cookie' = SetSession(token, now) /\ StartLoad("login", SetSession(token, now))
           /\ view' = "dashboard" /\ login' = "loading" /\ error' = ""
  <2>1. SetSession(token, now) \in Cookie /\ CookieOK(SetSession(token, now))
    BY SessionIsCookie DEF Inv, TypeOK
  <2>2. LoadsOK' /\ loads'["action"] = loads["action"]
    BY <1>2, <2>1, NewLoadOK, Replaced DEF Inv, StartLoad, Owners
  <2>3. TypeOK'
    BY <1>1, <1>2, <2>1, <2>2 DEF Inv, TypeOK, StartLoad, server, LoadsOK
  <2>4. CookieOK(cookie)'
    BY <1>2, <2>1 DEF CookieOK
  <2> QED
    BY <1>1, <1>2, <2>2, <2>3, <2>4 DEF Inv, Data, Acting, Open, server
<1>3. CASE login' = "none" /\ error' = "login" /\ UNCHANGED <<view, loading, loads, cookie>>
  <2>1. TypeOK'
    BY <1>1, <1>3 DEF Inv, TypeOK, server
  <2> QED
    BY <1>1, <1>3, <2>1 DEF Inv, Data, Acting, Open, server, CookieOK, LoadsOK, LoadOK, Load, Cookie
<1> QED
  BY <1>2, <1>3 DEF LoginAnswered

LEMMA InvLoginFails == Inv /\ LoginFails => Inv'
<1> SUFFICES ASSUME Inv, LoginFails PROVE Inv'
  OBVIOUS
<1>1. TypeOK'
  BY DEF Inv, TypeOK, LoginFails, server
<1> QED
  BY <1>1 DEF Inv, Data, Acting, Open, LoginFails, server, CookieOK, LoadsOK, LoadOK, Load, Cookie

LEMMA InvLogout == Inv /\ (Logout \/ LogoutEnds) => Inv'
<1> SUFFICES ASSUME Inv, Logout \/ LogoutEnds PROVE Inv'
  OBVIOUS
<1>1. UNCHANGED <<login, action, loads, records>> /\ cookie' \in {cookie, NoCookie}
  BY DEF Logout, LogoutEnds, server
<1>2. TypeOK'
  BY <1>1, ClickCounts DEF Inv, TypeOK, Logout, LogoutEnds, ViewAfterLogout, server
<1>3. Data'
  BY DEF Inv, Data, Logout, LogoutEnds, ViewAfterLogout
<1> QED
  BY <1>1, <1>2, <1>3 DEF Inv, Acting, Open, CookieOK, LoadsOK, LoadOK, Load, Cookie

LEMMA InvAct == Inv /\ Act => Inv'
<1> SUFFICES ASSUME Inv, Act PROVE Inv'
  OBVIOUS
<1>1. UNCHANGED <<view, shown, login, loads, cookie, records>>
  BY DEF Act, server
<1>2. ~Open("action")
  BY NoActionOK DEF Inv, Acting, Act
<1>3. action' \in Action /\ action'.record = 0
  <2>1. action' = [NoAction EXCEPT !.stage = "posted", !.cookie = cookie]
    BY DEF Act
  <2>2. cookie \in Cookie \cup {NoCookie}
    BY DEF Inv, TypeOK
  <2> QED
    BY <2>1, <2>2 DEF NoAction, Action
<1>4. TypeOK'
  BY <1>1, <1>3, ClickCounts DEF Inv, TypeOK, Act, server
<1>5. Acting'
  <2>1. loads'["action"].age = None /\ ~Open("action")'
    BY <1>1, <1>2, NoLoadOK DEF Open
  <2>2. action'.record <= records'
    <3>1. records \in Nat /\ records' = records
      BY <1>1 DEF Inv, TypeOK
    <3> QED
      BY <1>3, <3>1
  <2> QED
    BY <2>1, <2>2 DEF Acting
<1> QED
  BY <1>1, <1>4, <1>5 DEF Inv, Data, CookieOK, LoadsOK, LoadOK, Load, Cookie

\* The call returned: its record, if it is promised, is in the history, and
\* the load that follows has no answer yet.
LEMMA InvLoadAfterAction ==
    ASSUME Inv, NEW failed \in BOOLEAN, NEW record \in Nat,
           LoadAfterAction(failed, record), records' \in Nat, record <= records'
    PROVE  Inv'
<1>1. LoadOK(NewLoad(cookie)) /\ NewLoad(cookie).age = None
  BY NewLoadOK DEF Inv, TypeOK
<1>2. LoadsOK' /\ loads'["action"] = NewLoad(cookie)
  BY <1>1, Replaced DEF Inv, LoadAfterAction, StartLoad, Owners
<1>3. action' = [stage |-> "loading", failed |-> failed, record |-> record, cookie |-> NoCookie]
  BY DEF LoadAfterAction, NoAction
<1>4. TypeOK'
  <2>1. action' \in Action
    BY <1>3 DEF Action
  <2> QED
    BY <1>2, <2>1 DEF Inv, TypeOK, LoadAfterAction, StartLoad, LoadsOK
<1>5. Acting'
  <2>1. action'.stage = "loading" /\ action'.record <= records'
    BY <1>3
  <2> QED
    BY <1>1, <1>2, <2>1 DEF Acting
<1> QED
  BY <1>2, <1>4, <1>5 DEF Inv, Data, LoadAfterAction, CookieOK

LEMMA InvAdmitAction == Inv /\ AdmitAction => Inv'
<1> SUFFICES ASSUME Inv, AdmitAction PROVE Inv'
  OBVIOUS
<1>1. UNCHANGED <<view, shown, login, loads, cookie, records>>
  BY DEF AdmitAction, server
<1>2. ~Open("action")
  BY DEF Inv, Acting, AdmitAction
<1>3. action' \in Action /\ action'.record = 0
  BY DEF AdmitAction, NoAction, Action
<1>4. TypeOK'
  BY <1>1, <1>3 DEF Inv, TypeOK, AdmitAction, server
<1>5. Acting'
  <2>1. loads'["action"].age = None /\ ~Open("action")'
    BY <1>1, <1>2, NoLoadOK DEF Open
  <2>2. action'.record <= records'
    <3>1. records \in Nat /\ records' = records
      BY <1>1 DEF Inv, TypeOK
    <3> QED
      BY <1>3, <3>1
  <2> QED
    BY <2>1, <2>2 DEF Acting
<1> QED
  BY <1>1, <1>4, <1>5 DEF Inv, Data, CookieOK, LoadsOK, LoadOK, Load, Cookie

LEMMA InvActionStep == Inv /\ ActionStep => Inv'
<1> SUFFICES ASSUME Inv, ActionStep PROVE Inv'
  OBVIOUS
<1>1. records \in Nat
  BY DEF Inv, TypeOK
<1>2. CASE ActionSucceeds
  <2>1. LoadAfterAction(FALSE, records') /\ records' = records + 1
    BY <1>2 DEF ActionSucceeds
  <2>2. records' \in Nat /\ records' <= records'
    BY <1>1, <2>1
  <2> QED
    BY <2>1, <2>2, InvLoadAfterAction
<1>3. CASE ActionFails
  <2>1. LoadAfterAction(TRUE, 0) /\ (records' = records \/ records' = records + 1)
    BY <1>3 DEF ActionFails
  <2>2. records' \in Nat /\ 0 <= records'
    BY <1>1, <2>1
  <2> QED
    BY <2>1, <2>2, InvLoadAfterAction
<1> QED
  BY <1>2, <1>3, InvAdmitAction DEF ActionStep

\* The server's own steps, and a step of nobody.
LEMMA InvServer ==
    ASSUME Inv, UNCHANGED page, UNCHANGED clicks, token' \in Tokens \cup {NoToken},
           records' \in {records, records + 1}, now' \in Nat, restarts' \in Nat
    PROVE  Inv'
<1>1. records \in Nat /\ records' \in Nat /\ records' >= records
  <2>1. records \in Nat BY DEF Inv, TypeOK
  <2> QED BY <2>1
<1>2. TypeOK'
  BY <1>1 DEF Inv, TypeOK, page
<1>3. Acting'
  <2>1. action.record \in Nat
    BY DEF Inv, TypeOK, Action
  <2>2. action.record <= records'
    BY <1>1, <2>1 DEF Inv, Acting
  <2> QED
    BY <2>2 DEF Inv, Acting, Open, page
<1> QED
  BY <1>2, <1>3 DEF Inv, Data, page, CookieOK, LoadsOK, LoadOK, Load, Cookie

LEMMA InvNext == Inv /\ [Next]_vars => Inv'
<1> SUFFICES ASSUME Inv, [Next]_vars PROVE Inv'
  OBVIOUS
<1>1. token \in Tokens \cup {NoToken} /\ records \in Nat /\ now \in Nat /\ restarts \in Nat
  BY DEF Inv, TypeOK
<1>2. ASSUME NEW o \in Owners, LoadStep(o) PROVE Inv'
  BY <1>2, InvServe, InvDeliver, InvLoadRefused DEF LoadStep
<1>3. CASE LoginStep
  BY <1>3, InvLoginAnswered, InvLoginFails DEF LoginStep
<1>4. CASE OtherTransaction \/ Tick \/ Restart
  BY <1>1, <1>4, InvServer DEF OtherTransaction, Tick, Restart
<1>5. CASE UNCHANGED vars
  BY <1>1, <1>5, InvServer DEF vars, server
<1> QED
  BY <1>2, <1>3, <1>4, <1>5, InvLogout, InvActionStep, InvRefresh, InvLogin, InvAct
  DEF Next

THEOREM Invariant == Spec => []Inv
BY InvInit, InvNext, PTL DEF Spec

(***************************************************************************)
(* The theorems.                                                           *)
(***************************************************************************)

\* Every variable keeps its type, for any number of clicks, records and
\* restarts.
THEOREM Typing == Spec => []TypeOK
<1>1. Inv => TypeOK
  BY DEF Inv
<1> QED
  BY <1>1, Invariant, PTL

\* The dashboard never lacks a status unless a login is loading it, in
\* whatever order the loads, logins and logouts of a page end (App.vue:18-67).
THEOREM StatusToShow == Spec => []DashboardHasData
<1>1. Inv => DashboardHasData
  BY DEF Inv, Data, DashboardHasData
<1> QED
  BY <1>1, Invariant, PTL

\* When an update or restore ends, the page has its message or, unless the
\* load of them failed, data that include its record (App.vue:68-96).
THEOREM OutcomeShown == Spec => ActionShowsOutcome
<1> DEFINE Ended == action.stage # "none" /\ action'.stage = "none"
           Shown == IF action.failed THEN error' = "action"
                    ELSE view' = "login" \/ shown' >= action.record
<1>1. Inv /\ [Next]_vars => (Ended => Shown)
  <2> SUFFICES ASSUME Inv, [Next]_vars, Ended PROVE Shown
    OBVIOUS
  <2>1. action' # action
    OBVIOUS
  <2>2. ~(LoginStep \/ LogoutEnds \/ Refresh \/ Login \/ Logout)
    BY <2>1 DEF LoginStep, LoginAnswered, LoginFails, LogoutEnds, Refresh, Login, Logout
  <2>3. ~(OtherTransaction \/ Tick \/ Restart \/ UNCHANGED vars)
    BY <2>1 DEF OtherTransaction, Tick, Restart, page, vars
  <2>4. ~(Act \/ ActionStep)
    <3>1. ~Act
      BY NoActionOK DEF Act
    <3>2. ASSUME NEW failed, NEW record, LoadAfterAction(failed, record) PROVE FALSE
      <4>1. action'.stage = "loading"
        BY <3>2 DEF LoadAfterAction, NoAction
      <4> QED
        BY <4>1
    <3>3. ~AdmitAction
      <4>1. AdmitAction => action'.stage = "running"
        BY DEF AdmitAction, NoAction
      <4> QED
        BY <4>1
    <3> QED
      BY <3>1, <3>2, <3>3 DEF ActionStep, ActionSucceeds, ActionFails
  <2>5. PICK o \in Owners : Deliver(o) \/ Reject(o) \/ FailLoad(o)
    <3>1. \A o \in Owners : ~Serve(o)
      BY <2>1 DEF Serve
    <3> QED
      BY <2>2, <2>3, <2>4, <3>1 DEF Next, LoadStep
  <2>6. o = "action" /\ (action.failed => error' = "action")
    BY <2>1, <2>5 DEF Deliver, Reject, FailLoad, EndLoad, ActionAfterLoad, ErrorAfterLoad
  <2>7. CASE ~action.failed /\ Deliver(o)
    <3>1. LoadOK(loads[o]) /\ loads[o] # NoLoad /\ loads[o].waiting = 0
      BY <2>7 DEF Inv, LoadsOK, Deliver, Open
    <3>2. loads[o].age # None
      BY <3>1 DEF LoadOK, Load
    <3> QED
      BY <2>6, <2>7, <3>2 DEF Inv, Acting, Deliver
  <2> QED
    BY <2>5, <2>6, <2>7 DEF Reject, FailLoad
<1> QED
  BY <1>1, Invariant, PTL DEF Spec, ActionShowsOutcome

\* A request is let in for less than TTL after its login and under its token,
\* and is refused only without a cookie, under another token, or from the
\* last second of TTL on (auth.go:45-61, 108-125).
THEOREM Lifetime == Spec => SessionLifetime
<1> DEFINE Let(o) == Open(o) /\ loads'[o].waiting < loads[o].waiting /\ loads'[o] # NoLoad
           Refused(o) == loads'[o].refused /\ ~loads[o].refused
           c(o) == loads[o].cookie
           Within(o) == c(o) # NoCookie /\ c(o).key = token /\ now < c(o).since + TTL
           Excused(o) == \/ c(o) = NoCookie \/ c(o).key # token
                         \/ now > c(o).since + TTL - Second
<1>1. ASSUME Inv, [Next]_vars, NEW o \in Owners, Enabled(token)
      PROVE  (Let(o) => Within(o)) /\ (Refused(o) => Excused(o))
  <2>1. CASE Serve(o)
    <3> DEFINE l == loads[o]
    <3>1. /\ LoadOK(l) /\ l \in Load /\ ~l.refused /\ l.waiting > 0
          /\ now \in Nat /\ loads'[o] = Answered(l)
      <4>1. LoadOK(l) /\ l \in Load /\ now \in Nat /\ loads \in [Owners -> Load]
        BY <1>1 DEF Inv, LoadsOK, LoadOK, TypeOK
      <4> QED
        BY <2>1, <4>1 DEF Serve
    <3>2. l.cookie \in Cookie \cup {NoCookie} /\ CookieOK(l.cookie)
      BY <3>1 DEF LoadOK, Load
    <3>3. CASE Authenticate(token, l.cookie, now)
      <4>1. l.cookie # NoCookie /\ l.cookie.key = token /\ now < l.cookie.expires * Second
        BY <1>1, <3>3 DEF Authenticate, ValidSession
      <4>2. now < l.cookie.since + TTL
        BY <3>1, <3>2, <4>1, CookieLifetime
      <4>3. ~Answered(l).refused
        BY <3>1, <3>3 DEF Answered, Load
      <4> QED
        BY <3>1, <4>1, <4>2, <4>3
    <3>4. CASE ~Authenticate(token, l.cookie, now)
      <4>1. \/ l.cookie = NoCookie \/ l.cookie.key # token
            \/ l.cookie # NoCookie /\ ~(now < l.cookie.expires * Second)
        BY <3>4 DEF Authenticate, ValidSession
      <4>2. Excused(o)
        BY <3>1, <3>2, <4>1, CookieLifetime
      <4>3. Answered(l).waiting = l.waiting /\ l.waiting \in 0 .. Requests
        BY <3>1, <3>4 DEF Answered, Load
      <4> QED
        BY <3>1, <4>2, <4>3
    <3> QED
      BY <3>3, <3>4
  <2>2. CASE \/ loads'[o] = loads[o] \/ loads'[o] = NoLoad
             \/ \E jar : loads'[o] = NewLoad(jar)
    <3>1. loads[o].waiting \in 0 .. Requests /\ loads[o].refused \in BOOLEAN
      BY <1>1 DEF Inv, TypeOK, Load
    <3>2. ~(loads'[o].waiting < loads[o].waiting) \/ loads'[o] = NoLoad
      <4>1. ASSUME NEW jar, loads'[o] = NewLoad(jar) PROVE loads'[o].waiting = Requests
        BY <4>1 DEF NewLoad
      <4> QED
        BY <2>2, <3>1, <4>1
    <3>3. loads'[o].refused => loads[o].refused
      <4>1. ASSUME NEW jar, loads'[o] = NewLoad(jar) PROVE ~loads'[o].refused
        BY <4>1 DEF NewLoad
      <4>2. ~NoLoad.refused
        BY DEF NoLoad
      <4> QED
        BY <2>2, <4>1, <4>2
    <3> QED
      BY <3>2, <3>3
  <2>3. Serve(o) \/ loads'[o] = loads[o] \/ loads'[o] = NoLoad
             \/ \E jar : loads'[o] = NewLoad(jar)
    <3>1. loads \in [Owners -> Load]
      BY <1>1 DEF Inv, TypeOK
    <3>2. ASSUME NEW p \in Owners, LoadStep(p)
          PROVE  Serve(o) \/ loads'[o] = loads[o] \/ loads'[o] = NoLoad
      BY <3>1, <3>2 DEF LoadStep, Serve, Deliver, Reject, FailLoad, EndLoad
    <3>3. ASSUME NEW p \in Owners, NEW jar, StartLoad(p, jar)
          PROVE  loads'[o] = loads[o] \/ loads'[o] = NewLoad(jar)
      BY <3>1, <3>3 DEF StartLoad
    <3>4. CASE LoginStep \/ ActionStep \/ Refresh
      <4>1. \/ loads' = loads
            \/ \E p \in Owners : \E jar : StartLoad(p, jar)
        BY <3>4 DEF LoginStep, LoginAnswered, LoginFails, ActionStep, AdmitAction,
           ActionSucceeds, ActionFails, LoadAfterAction, Refresh, Owners
      <4> QED
        BY <3>3, <4>1
    <3>5. CASE LogoutEnds \/ Login \/ Logout \/ Act \/ OtherTransaction \/ Tick \/ Restart
               \/ UNCHANGED vars
      BY <3>5 DEF LogoutEnds, Login, Logout, Act, OtherTransaction, Tick, Restart, page, vars
    <3> QED
      BY <1>1, <3>2, <3>4, <3>5 DEF Next
  <2> HIDE DEF Let, Refused, Within, Excused
  <2> QED
    BY <2>1, <2>2, <2>3
<1>2. Inv /\ [Next]_vars => \A o \in Owners : Enabled(token) =>
        LET d == loads[o].cookie
        IN /\ Open(o) /\ loads'[o].waiting < loads[o].waiting /\ loads'[o] # NoLoad =>
                d # NoCookie /\ d.key = token /\ now < d.since + TTL
           /\ loads'[o].refused /\ ~loads[o].refused =>
                d = NoCookie \/ d.key # token \/ now > d.since + TTL - Second
  BY <1>1
<1> QED
  BY <1>2, Invariant, PTL DEF Spec, SessionLifetime
=============================================================================
