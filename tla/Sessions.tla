------------------------------ MODULE Sessions ------------------------------
(***************************************************************************)
(* The sessions of internal/auth.  The server keeps none: a cookie carries *)
(* the second at which it expires, signed with a key made from the         *)
(* administrator token.  Time is counted in ticks, Second of them to a     *)
(* second, because the cookie rounds its expiry down to one.               *)
(*                                                                         *)
(* Every request here is the console's own: it sends no bearer token and   *)
(* comes from the page's origin, so that Require's check of the origin     *)
(* always passes.                                                          *)
(***************************************************************************)
EXTENDS Integers

CONSTANTS
    TTL,        \* ticks a session lasts
    Second,     \* ticks per second
    Tokens,     \* the administrator tokens
    NoToken,    \* the empty token: authentication is off
    NoCookie    \* the browser has no session cookie

ASSUME TimeAssumption == TTL \in Nat /\ Second \in Nat \ {0}
ASSUME NoTokenAssumption == NoToken \notin Tokens

\* `since` is not in the cookie; the properties speak of it.
Cookie == [expires: Nat, key: Tokens \cup {NoToken}, since: Nat]

Enabled(token) == token # NoToken

ValidateToken(token, candidate) == Enabled(token) => candidate = token

\* Deviation: the expiry of a cookie that is to be cleared.
SetSessionInThePast(token, time) ==
    [expires |-> (time - TTL) \div Second, key |-> token, since |-> time]
SetSession(token, time) ==
    [expires |-> (time + TTL) \div Second, key |-> token, since |-> time]

\* Deviation: a session still counts in the second in which it expires.
ValidSessionInclusive(token, cookie, time) ==
    time \div Second <= cookie.expires /\ cookie.key = token
ValidSession(token, cookie, time) ==
    time < cookie.expires * Second /\ cookie.key = token

Authenticate(token, cookie, time) ==
    Enabled(token) => cookie # NoCookie /\ ValidSession(token, cookie, time)
=============================================================================
