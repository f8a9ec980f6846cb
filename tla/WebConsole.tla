----------------------------- MODULE WebConsole -----------------------------
(***************************************************************************)
(* One page of the web console (App.vue), its requests in flight, and the  *)
(* API that answers them (api.go): the loads of the dashboard, a login, a  *)
(* logout and an update or restore, which overlap as the buttons allow.    *)
(* The page is single-threaded: what runs between two awaits is one step.  *)
(***************************************************************************)
EXTENDS Sessions

CONSTANTS
    Requests,       \* how many requests a load sends; four in the code
    None,           \* no data
    MaxClicks,      \* bound on what the user starts
    MaxRecords,     \* bound on the records in the history
    MaxTime,        \* bound on the clock
    MaxRestarts     \* bound on the restarts with another token

ASSUME RequestsAssumption == Requests \in Nat \ {0}
ASSUME NoneAssumption == None \notin Nat

VARIABLES
    \* The page
    view,       \* "connecting", "login" or "dashboard" (authenticated)
    shown,      \* the data of the dashboard by their age: how many records
                \* the history had when the oldest of them was read
    loading,    \* the flag of the same name
    error,      \* where the message shown comes from, "" for none
    login,      \* "none", "posted" or "loading"; none is loginLoading = false
    logout,     \* a logout is on its way
    action,     \* the update or restore: its stage and cookie, and then how it
                \* ended and its record
    loads,      \* the runs of loadDashboard, by who started them
    cookie,     \* what the browser holds
    \* The server
    token,      \* the administrator token of the running guardian
    records,    \* number of records in its history
    now,        \* its clock
    restarts,
    clicks      \* what the user has started

page == <<view, shown, loading, error, login, logout, action, loads, cookie>>
server == <<token, records, now, restarts>>
vars == <<page, server, clicks>>

\* At most one load per owner: a login or an action awaits its load before it
\* ends, and the page starts one of its own when it is mounted.  The button
\* is the exception; it could start a second when another load ended first.
Owners == {"mount", "refresh", "login", "action"}

\* waiting: the requests without an answer; age: of the first answer, which is
\* the oldest; refused: one of the answers is a 401.
NewLoad(jar) == [waiting |-> Requests, age |-> None, refused |-> FALSE, cookie |-> jar]
NoLoad == [waiting |-> 0, age |-> None, refused |-> FALSE, cookie |-> NoCookie]
Open(o) == loads[o] # NoLoad
NoAction == [stage |-> "none", failed |-> FALSE, record |-> 0, cookie |-> NoCookie]

\* A page that is opened, perhaps with the cookie of an earlier one.
Init ==
    /\ view = "connecting"
    /\ shown = None
    /\ loading = TRUE /\ error = ""
    /\ login = "none" /\ logout = FALSE /\ action = NoAction
    /\ token \in Tokens \cup {NoToken}
    /\ cookie \in {NoCookie, SetSession(token, 0)}
    /\ loads = [o \in Owners |-> IF o = "mount" THEN NewLoad(cookie) ELSE NoLoad]
    /\ records = 0 /\ now = 0 /\ restarts = 0 /\ clicks = 0

Click == clicks < MaxClicks /\ clicks' = clicks + 1

(***************************************************************************)
(* loadDashboard: requests for all parts go out together with the cookie   *)
(* of that moment; the server answers each when it comes to it; the page   *)
(* waits for all answers or for the first refusal or failure.              *)
(***************************************************************************)
StartLoad(o, jar) == loads' = [loads EXCEPT ![o] = NewLoad(jar)] /\ loading' = TRUE

Answered(l) ==
    IF Authenticate(token, l.cookie, now)
    THEN [l EXCEPT !.waiting = l.waiting - 1, !.age = IF l.age = None THEN records ELSE l.age]
    ELSE [l EXCEPT !.refused = TRUE, !.age = None]

\* After a refusal the other answers make no difference.
Serve(o) ==
    /\ loads[o].waiting > 0 /\ ~loads[o].refused
    /\ loads' = [loads EXCEPT ![o] = Answered(loads[o])]
    /\ UNCHANGED <<view, shown, loading, error, login, logout, action, cookie, server, clicks>>

\* What awaited the load goes on in the same step: a login ends, and so does
\* an action, which shows its own failure now that the load has cleared it.
\* Deviation: the message is set before the load, which clears it.
ErrorAfterLoadCleared(o, e) == e
ErrorAfterLoad(o, e) == IF o = "action" /\ action.failed THEN "action" ELSE e

\* Deviation: nothing resets the action after a failure (no finally).
ActionAfterLoadStuck(o) == IF o = "action" /\ ~action.failed THEN NoAction ELSE action
ActionAfterLoad(o) == IF o = "action" THEN NoAction ELSE action

EndLoad(o, e) ==
    /\ loads' = [loads EXCEPT ![o] = NoLoad]
    /\ loading' = FALSE
    /\ error' = ErrorAfterLoad(o, e)
    /\ login' = IF o = "login" THEN "none" ELSE login
    /\ action' = ActionAfterLoad(o)
    /\ UNCHANGED <<logout, cookie, server, clicks>>

Deliver(o) ==
    /\ Open(o) /\ loads[o].waiting = 0
    /\ view' = "dashboard" /\ shown' = loads[o].age
    /\ EndLoad(o, error)

Reject(o) ==
    /\ loads[o].refused
    /\ view' = "login"
    /\ UNCHANGED shown
    /\ EndLoad(o, error)

\* The network, a 500, or a server that stopped: any error that is not a 401.
FailLoad(o) ==
    /\ Open(o)
    /\ view' = "login"
    /\ UNCHANGED shown
    /\ EndLoad(o, "load")

\* The refresh button is disabled while the flag is set.
Refresh ==
    /\ Click
    /\ view = "dashboard" /\ ~loading /\ ~Open("refresh")
    /\ StartLoad("refresh", cookie)
    /\ error' = ""
    /\ UNCHANGED <<view, shown, login, logout, action, cookie, server>>

(***************************************************************************)
(* Login and logout.                                                       *)
(***************************************************************************)
Login ==
    /\ Click
    /\ view = "login" /\ login = "none"
    /\ login' = "posted" /\ error' = ""
    /\ UNCHANGED <<view, shown, loading, logout, action, loads, cookie, server>>

\* The answer to a good token sets the cookie, with which the load goes out.
LoginAnswered ==
    /\ login = "posted"
    /\ \E candidate \in Tokens :
        IF ValidateToken(token, candidate)
        THEN /\ cookie' = SetSession(token, now)
             /\ StartLoad("login", SetSession(token, now))
             /\ view' = "dashboard" /\ login' = "loading" /\ error' = ""
        ELSE /\ login' = "none" /\ error' = "login"
             /\ UNCHANGED <<view, loading, loads, cookie>>
    /\ UNCHANGED <<shown, logout, action, server, clicks>>

LoginFails ==
    /\ login = "posted"
    /\ login' = "none" /\ error' = "login"
    /\ UNCHANGED <<view, shown, loading, logout, action, loads, cookie, server, clicks>>

\* The button is always enabled; one logout at a time is modelled.
Logout ==
    /\ Click
    /\ view = "dashboard" /\ ~logout
    /\ logout' = TRUE
    /\ UNCHANGED <<view, shown, loading, error, login, action, loads, cookie, server>>

\* Answered or not, the page turns to the login; only an answer clears the
\* cookie.
\* Deviation: the view is left to the next load.
ViewAfterLogoutKept == view
ViewAfterLogout == "login"

LogoutEnds ==
    /\ logout
    /\ logout' = FALSE
    /\ view' = ViewAfterLogout
    /\ shown' = None
    /\ cookie' \in {cookie, NoCookie}
    /\ UNCHANGED <<loading, error, login, action, loads, server, clicks>>

(***************************************************************************)
(* update() and restore(): the same text but for the call.                 *)
(***************************************************************************)
Act ==
    /\ Click
    /\ view = "dashboard" /\ action = NoAction
    /\ action' = [NoAction EXCEPT !.stage = "posted", !.cookie = cookie]
    /\ error' = ""
    /\ UNCHANGED <<view, shown, loading, login, logout, loads, cookie, server>>

\* The request arrives with the cookie of the click.
AdmitAction ==
    /\ action.stage = "posted"
    /\ Authenticate(token, action.cookie, now)
    /\ action' = [NoAction EXCEPT !.stage = "running"]
    /\ UNCHANGED <<view, shown, loading, error, login, logout, loads, cookie, server, clicks>>

LoadAfterAction(failed, record) ==
    /\ action' = [NoAction EXCEPT !.stage = "loading", !.failed = failed, !.record = record]
    /\ StartLoad("action", cookie)
    /\ error' = ""
    /\ UNCHANGED <<view, shown, login, logout, cookie, token, now, restarts, clicks>>

\* Update or Restore returned without an error, so the record is there.
ActionSucceeds ==
    /\ action.stage = "running"
    /\ records < MaxRecords
    /\ records' = records + 1
    /\ LoadAfterAction(FALSE, records')

\* A 401, or a 404 or 409 without a record, a 502 with one, or no answer.
ActionFails ==
    /\ action.stage \in {"posted", "running"}
    /\ records' \in {records} \cup
          {n \in {records + 1} : action.stage = "running" /\ n <= MaxRecords}
    /\ LoadAfterAction(TRUE, 0)

(***************************************************************************)
(* The server, and everybody else.                                         *)
(***************************************************************************)
OtherTransaction ==
    /\ records < MaxRecords
    /\ records' = records + 1
    /\ UNCHANGED <<page, token, now, restarts, clicks>>

Tick ==
    /\ now < MaxTime
    /\ now' = now + 1
    /\ UNCHANGED <<page, token, records, restarts, clicks>>

\* The guardian starts again, with the token that is in the secret file now.
\* The old process ended a running transaction, or cut its client off, before.
Restart ==
    /\ restarts < MaxRestarts
    /\ action.stage # "running"
    /\ restarts' = restarts + 1
    /\ token' \in Tokens \cup {NoToken}
    /\ UNCHANGED <<page, records, now, clicks>>

LoadStep(o) == Serve(o) \/ Deliver(o) \/ Reject(o) \/ FailLoad(o)
LoginStep == LoginAnswered \/ LoginFails
ActionStep == AdmitAction \/ ActionSucceeds \/ ActionFails

Next ==
    \/ \E o \in Owners : LoadStep(o)
    \/ LoginStep \/ LogoutEnds \/ ActionStep
    \/ Refresh \/ Login \/ Logout \/ Act
    \/ OtherTransaction \/ Tick \/ Restart

\* The browser or the server ends every request: an answer, a reset, or the
\* server's timeouts.  Nobody has to press a button.
Fairness ==
    /\ \A o \in Owners : WF_vars(LoadStep(o))
    /\ WF_vars(LoginStep) /\ WF_vars(LogoutEnds) /\ WF_vars(ActionStep)

Spec == Init /\ [][Next]_vars
FairSpec == Spec /\ Fairness

(***************************************************************************)
(* Properties.                                                             *)
(***************************************************************************)
Load == [waiting: 0 .. Requests, age: Nat \cup {None}, refused: BOOLEAN,
         cookie: Cookie \cup {NoCookie}]
Action == [stage: {"none", "posted", "running", "loading"}, failed: BOOLEAN, record: Nat,
           cookie: Cookie \cup {NoCookie}]

\* Every variable holds a value of the type it stands for.
TypeOK ==
    /\ view \in {"connecting", "login", "dashboard"}
    /\ shown \in Nat \cup {None}
    /\ loading \in BOOLEAN /\ logout \in BOOLEAN
    /\ error \in {"", "load", "login", "action"}
    /\ login \in {"none", "posted", "loading"}
    /\ action \in Action
    /\ loads \in [Owners -> Load]
    /\ cookie \in Cookie \cup {NoCookie}
    /\ token \in Tokens \cup {NoToken}
    /\ records \in Nat /\ now \in Nat /\ restarts \in Nat /\ clicks \in Nat

\* The dashboard has a status to show whenever no login is loading one, in
\* whatever order loads, logins and a logout end (App.vue:18-67).
DashboardHasData == view = "dashboard" /\ login = "none" => shown # None

\* When an update or restore ends, the page shows what became of it: its
\* message if it failed, and otherwise data that include its record, unless
\* the load of them failed (App.vue:68-96).
ActionShowsOutcome ==
    [][action.stage # "none" /\ action'.stage = "none" =>
        IF action.failed THEN error' = "action"
        ELSE view' = "login" \/ shown' >= action.record]_vars

\* A session lasts as long as it should: a request is let in for less than
\* TTL after its login and under its token, and is refused only for lack of
\* a cookie, under another token, or within the last second of TTL or later
\* (auth.go:45-61, 108-125).
SessionLifetime ==
    [][\A o \in Owners : Enabled(token) =>
        LET c == loads[o].cookie
        IN /\ Open(o) /\ loads'[o].waiting < loads[o].waiting /\ loads'[o] # NoLoad =>
                c # NoCookie /\ c.key = token /\ now < c.since + TTL
           /\ loads'[o].refused /\ ~loads[o].refused =>
                c = NoCookie \/ c.key # token \/ now > c.since + TTL - Second]_vars

\* Nothing on the page waits for ever: "connecting", "logging in" and "busy"
\* end, whatever fails (App.vue:40, 54, 78).
PageSettles ==
    /\ <>(view # "connecting")
    /\ []<>(login = "none")
    /\ []<>(action.stage = "none")
=============================================================================
