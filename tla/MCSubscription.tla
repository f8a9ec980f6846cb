---------------------------- MODULE MCSubscription ----------------------------
(***************************************************************************)
(* Instances of Subscription for TLC.                                      *)
(***************************************************************************)
EXTENDS Subscription

P(name, body) == [name |-> name, body |-> body]
G(name, body, members) == [name |-> name, body |-> body, members |-> members]
V(type, text) == [type |-> type, text |-> text]

Doc(proxies, providers, groups, rules) ==
    [proxies |-> proxies, providers |-> providers, groups |-> groups, rules |-> rules,
     settings |-> "theirs", runtime |-> "theirs", ui |-> "theirs"]

a1 == P("a", 1)
a2 == P("a", 2)
b1 == P("b", 1)
a == V("string", "a")
b == V("string", "b")
string1 == V("string", "1")
int1 == V("int", "1")

\* A key that is not there, or holds a scalar.
None == [kind |-> "other"]

\* Sources that agree and ones that clash, in every section; an entry without a
\* name; a name, a rule and a member repeated in one document; rules and members
\* of another type that print alike; members that are no list.
SmallDocuments ==
    {Doc(List(<<a1, b1>>), None, List(<<G("g", 1, List(<<a>>))>>), List(<<a, string1>>)),
     Doc(List(<<b1, a1>>), None, List(<<G("g", 1, List(<<b, int1>>))>>), List(<<int1, a>>)),
     Doc(List(<<a1, a2>>), None, List(<<G("h", 1, None), G("g", 1, Map("x" :> 1))>>), None),
     Doc(List(<<b1>>), Map("x" :> 1), List(<<G("g", 2, List(<<b>>))>>), None),
     Doc(List(<<a2>>), None,
         List(<<G("g", 1, List(<<string1, string1>>)), G("h", 1, List(<<b>>))>>), List(<<b, b>>)),
     Doc(List(<<P(NoName, 1)>>), List(<<>>), None, List(<<a>>)),
     [Doc(None, None, List(<<G("h", 1, List(<<>>))>>), List(<<>>)) EXCEPT !.settings = "others"],
     Doc(Map("a" :> 1), List(<<b>>), None, Map("b" :> 1))}

=============================================================================
