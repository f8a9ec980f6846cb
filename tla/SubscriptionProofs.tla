-------------------------- MODULE SubscriptionProofs --------------------------
(***************************************************************************)
(* Theorems about one call of Build for every number of sources and every  *)
(* set of documents, and their proofs.  The first part treats a section's  *)
(* outcome as any value; the second follows the documents through the      *)
(* merge, with what MergeProofs shows of one section of one document; the  *)
(* third does so for the order of the result.                              *)
(***************************************************************************)
EXTENDS Subscription, MergeProofs

\* The first of some sources is one of them, and none of them comes before it.
LEMMA FirstOfLeast ==
    ASSUME NEW S \in SUBSET Sources, S # {}
    PROVE  FirstOf(S) \in S /\ \A i \in S : FirstOf(S) <= i
<1>1. S \subseteq Nat
  BY SourceAssumption DEF Sources
<1>2. \E x \in S : \A i \in S : x <= i
  BY <1>1, LeastNumber
<1> QED BY <1>2 DEF FirstOf, Min

-----------------------------------------------------------------------------
Merging == {"next", "proxies", "providers", "groups", "rules", "check"}

\* Where Build can be, and what it has in its hands there.
Stages ==
    /\ pc \in {"secrets", "fetch", "convert", "overlay", "returned"} \cup Merging
    /\ pc = "secrets" => \A i \in Sources : fetch[i] = "unstarted"
    /\ config.converter => pc \notin {"fetch"} \cup Merging
    /\ pc = "convert" => config.converter /\ \A i \in Sources : fetch[i] = "unstarted"
    /\ pc = "returned" <=> result # "none"
    /\ pc \in Merging => cursor \in 1 .. N + 1
    /\ pc \in {"proxies", "providers", "groups", "rules"} => cursor \in 1 .. N

\* Each source has its own slot, and it is filled when its goroutine has ended.
Slots ==
    \A i \in Sources :
        /\ fetch[i] = "done" => failed[i] \/ documents[i] = remote[i]
        /\ fetch[i] # "done" => ~failed[i]

\* After the wait nothing is running; after it worked nothing has failed.
Gathered ==
    /\ pc \in Merging \cup {"overlay", "returned"} => \A i \in Sources : fetch[i] # "running"
    /\ pc \in Merging \/ (pc = "overlay" /\ ~config.converter)
          \/ (result \in {"ok", "conflict", "malformed", "empty"} /\ ~config.converter) =>
               \A i \in Sources : fetch[i] = "done" /\ ~failed[i]
    /\ result = "fetch" /\ ~config.converter =>
           /\ culprit \in Sources /\ failed[culprit]
           /\ \A i \in 1 .. culprit - 1 : fetch[i] = "done" /\ ~failed[i]

Inv == TypeOK /\ Stages /\ Slots /\ Gathered

LEMMA InvInit == Init => Inv
<1> SUFFICES ASSUME Init PROVE Inv
  OBVIOUS
<1>1. config \in [converter : BOOLEAN, enforce : BOOLEAN, ui : BOOLEAN,
                   headers : SUBSET Sources]
  BY DEF Init
<1>2. /\ remote \in [Sources -> Documents \cup {Unusable}]
      /\ fetch \in [Sources -> {"unstarted", "running", "done"}]
      /\ documents \in [Sources -> Documents \cup {NoDocument}]
      /\ failed \in [Sources -> BOOLEAN] /\ cancelled \in BOOLEAN
  BY DEF Init
<1>3. cursor \in 0 .. N + 1 /\ culprit \in 0 .. N /\ result \in {"none", "ok"} \cup Reasons
  BY SourceAssumption DEF Init
<1>4. Stages /\ Slots /\ Gathered
  BY DEF Init, Stages, Slots, Gathered, Merging
<1> QED BY <1>1, <1>2, <1>3, <1>4 DEF Inv, TypeOK

LEMMA InvReadSecrets == ASSUME Inv, ReadSecrets PROVE Inv'
<1>1. CASE \E i \in Sources : Return("secrets", "secret", i) /\ UNCHANGED fetch
  BY <1>1, SourceAssumption
  DEF ReadSecrets, Return, Go, Inv, TypeOK, Stages, Slots, Gathered,
      Merging, Reasons, Sources
<1>2. CASE /\ config.converter /\ config.headers # {}
           /\ Return("secrets", "headers", FirstOf(config.headers))
           /\ UNCHANGED fetch
  <2>1. FirstOf(config.headers) \in Sources
    BY <1>2, FirstOfLeast DEF Inv, TypeOK
  <2> QED
    BY <1>2, <2>1, SourceAssumption
    DEF ReadSecrets, Return, Go, Inv, TypeOK, Stages, Slots, Gathered,
        Merging, Reasons, Sources
<1>3. CASE config.converter /\ Go("secrets", "convert") /\ UNCHANGED <<fetch, result, culprit>>
  BY <1>3
  DEF ReadSecrets, Go, Inv, TypeOK, Stages, Slots, Gathered, Merging
<1>4. CASE /\ ~config.converter /\ Go("secrets", "fetch")
           /\ fetch' = [i \in Sources |-> "running"]
           /\ UNCHANGED <<result, culprit>>
  BY <1>4
  DEF ReadSecrets, Go, Inv, TypeOK, Stages, Slots, Gathered, Merging
<1> QED BY <1>1, <1>2, <1>3, <1>4 DEF ReadSecrets

LEMMA InvFetch == ASSUME Inv, NEW i \in Sources, Fetch(i) PROVE Inv'
<1>1. pc = "fetch" /\ result = "none"
  BY DEF Fetch, Inv, TypeOK, Stages, Gathered, Merging
<1>2. TypeOK'
  BY DEF Fetch, Ended, Inv, TypeOK, answer
<1>3. Slots'
  BY DEF Fetch, Ended, Inv, TypeOK, Slots
<1>4. Stages' /\ Gathered'
  BY <1>1 DEF Fetch, answer, Inv, Stages, Gathered, Merging
<1> QED BY <1>2, <1>3, <1>4 DEF Inv

LEMMA InvCollect == ASSUME Inv, Collect PROVE Inv'
<1>1. \A i \in Sources : fetch[i] = "done"
  BY DEF Collect, Waited
<1>2. CASE /\ Failures # {} /\ Return("fetch", "fetch", FirstOf(Failures))
           /\ UNCHANGED <<merged, cursor>>
  <2>1. /\ FirstOf(Failures) \in Failures
        /\ \A i \in Failures : FirstOf(Failures) <= i
    BY <1>2, FirstOfLeast DEF Failures
  <2>2. \A i \in 1 .. FirstOf(Failures) - 1 : i \in Sources /\ ~failed[i]
    BY <2>1, SourceAssumption DEF Failures, Sources
  <2> QED
    BY <1>1, <1>2, <2>1, <2>2, SourceAssumption
    DEF Collect, Return, Go, fetching, Inv, TypeOK, Stages, Slots, Gathered, Merging,
        Reasons, Failures, Sources
<1>3. CASE /\ Failures = {} /\ Go("fetch", "next") /\ merged' = documents[1] /\ cursor' = 2
           /\ UNCHANGED <<result, culprit>>
  <2>1. \A i \in Sources : ~failed[i]
    BY <1>3 DEF Failures
  <2> QED
    BY <1>1, <1>3, <2>1, SourceAssumption
    DEF Collect, Go, fetching, Inv, TypeOK, Stages, Slots, Gathered,
        Merging, Sources
<1> QED BY <1>2, <1>3 DEF Collect

LEMMA InvNextDocument == ASSUME Inv, NextDocument PROVE Inv'
<1>1. cursor \in 1 .. N + 1 /\ (cursor <= N => cursor \in 1 .. N)
  BY SourceAssumption DEF NextDocument, Go, Inv, Stages, Merging
<1> QED
  BY <1>1
  DEF NextDocument, Go, fetching, answer, Inv, TypeOK, Stages, Slots, Gathered, Merging

-----------------------------------------------------------------------------
(***************************************************************************)
(* The sections of a document.  Whatever the merge of a section yields, it *)
(* touches one field of the document, or ends the call.                    *)
(***************************************************************************)
Lists == {"proxies", "providers", "groups", "rules"}

\* A section that may be merged leads to the next; one that may not, to the end.
LEMMA InvSection ==
    ASSUME Inv, NEW from \in Lists, NEW to \in Lists \cup {"next"}, NEW m,
           NEW value, NEW field \in {"proxies", "providers", "groups", "rules"},
           Section(from, to, m, [merged EXCEPT ![field] = value]),
           \/ to # "next" /\ UNCHANGED cursor
           \/ to = "next" /\ cursor' = cursor + 1
    PROVE  Inv'
<1>1. pc = from /\ pc \in Merging /\ result = "none" /\ cursor \in 1 .. N
  BY DEF Section, Return, Go, Inv, Stages, Lists, Merging
<1>2. cursor' \in 1 .. N + 1 /\ (to # "next" => cursor' \in 1 .. N)
  BY <1>1, SourceAssumption
<1>3. CASE m.ok /\ Go(from, to) /\ merged' = [merged EXCEPT ![field] = value]
           /\ UNCHANGED <<result, culprit>>
  <2>1. TypeOK'
    BY <1>2, <1>3 DEF Section, fetching, Inv, TypeOK
  <2>2. Stages'
    BY <1>1, <1>2, <1>3 DEF Section, Go, fetching, Inv, Stages, Merging, Lists
  <2>3. Slots' /\ Gathered'
    BY <1>1, <1>3 DEF Section, Go, fetching, Inv, Slots, Gathered, Merging, Lists
  <2> QED BY <2>1, <2>2, <2>3 DEF Inv
<1>4. CASE \E why \in {"conflict", "malformed"} : Return(from, why, 0) /\ UNCHANGED merged
  BY <1>1, <1>2, <1>4, SourceAssumption
  DEF Section, Return, Go, fetching, Inv, TypeOK, Stages, Slots, Gathered,
      Merging, Lists, Reasons
<1> QED BY <1>3, <1>4 DEF Section

LEMMA InvProxies == ASSUME Inv, Proxies PROVE Inv'
<1>1. PICK m : Section("proxies", "providers", m, [merged EXCEPT !.proxies = m.value])
  BY DEF Proxies
<1>2. UNCHANGED cursor
  BY DEF Proxies
<1>3. "proxies" \in Lists /\ "providers" \in Lists
  BY DEF Lists
<1> QED BY <1>1, <1>2, <1>3, InvSection DEF Lists
LEMMA InvProviders == ASSUME Inv, Providers PROVE Inv'
<1>1. PICK m : Section("providers", "groups", m, [merged EXCEPT !.providers = m.value])
  BY DEF Providers
<1>2. UNCHANGED cursor
  BY DEF Providers
<1>3. "providers" \in Lists /\ "groups" \in Lists
  BY DEF Lists
<1> QED BY <1>1, <1>2, <1>3, InvSection DEF Lists
LEMMA InvGroups == ASSUME Inv, Groups PROVE Inv'
  BY InvSection DEF Groups, Lists
LEMMA InvRules == ASSUME Inv, Rules PROVE Inv'
  BY InvSection DEF Rules, Lists

-----------------------------------------------------------------------------
LEMMA InvCheck == ASSUME Inv, Check PROVE Inv'
<1>1. pc = "check" /\ result = "none"
  BY DEF Check, Go, Return, Inv, Stages, Merging
<1> QED
  BY <1>1, SourceAssumption
  DEF Check, Return, Go, fetching, Inv, TypeOK, Stages, Slots, Gathered,
      Merging, Reasons

LEMMA InvConvert == ASSUME Inv, Convert PROVE Inv'
<1>1. pc = "convert" /\ result = "none" /\ config.converter
      /\ \A i \in Sources : fetch[i] = "unstarted"
  BY DEF Convert, Go, Return, Inv, Stages
<1> QED
  BY <1>1, SourceAssumption
  DEF Convert, Return, Go, fetching, Inv, TypeOK, Stages, Slots, Gathered,
      Merging, Reasons

LEMMA InvOverlay == ASSUME Inv, Overlay PROVE Inv'
<1>1. pc = "overlay" /\ result = "none"
  BY DEF Overlay, Go, Return, Inv, Stages
<1> QED
  BY <1>1, SourceAssumption
  DEF Overlay, Return, Go, fetching, Inv, TypeOK, Stages, Slots, Gathered,
      Merging, Reasons

\* Every step preserves the invariant.
LEMMA InvNext == ASSUME Inv, [Next]_vars PROVE Inv'
<1>1. CASE Cancel
  BY <1>1
  DEF Cancel, fetching, answer, Inv, TypeOK, Stages, Slots, Gathered
<1>2. CASE UNCHANGED vars
  BY <1>2
  DEF vars, fetching, answer, Inv, TypeOK, Stages, Slots, Gathered
<1> QED
  BY <1>1, <1>2, InvReadSecrets, InvFetch, InvCollect, InvNextDocument, InvProxies,
     InvProviders, InvGroups, InvRules, InvCheck, InvConvert, InvOverlay
  DEF Next, BuildStep

LEMMA InvAlways == Spec => []Inv
  BY InvInit, InvNext, PTL DEF Spec

-----------------------------------------------------------------------------
(***************************************************************************)
(* The documents on their way into the result.                             *)
(***************************************************************************)
Proxy == UNION {ToSet(AsSlice(d.proxies)) : d \in Documents}
Rule == UNION {ToSet(AsSlice(d.rules)) : d \in Documents}

\* The call has the documents of all sources, and a result so far.
Assembled == ~config.converter /\ (pc \in Merging \cup {"overlay"} \/ result = "ok")

\* The documents whose section is in the result, and how many: the one at the
\* cursor is among them once Build is past the section.
Past(section) ==
    CASE section = "proxies" -> {"providers", "groups", "rules"}
      [] section = "providers" -> {"groups", "rules"}
      [] section = "groups" -> {"rules"}
      [] section = "rules" -> {}
Count(section) == IF pc \in Past(section) THEN cursor ELSE cursor - 1
In(section) == 1 .. Count(section)

\* What each section of the result owes to the documents merged.
ProxiesMerged ==
    /\ AsSlice(merged.proxies) \in Seq(Proxy)
    /\ MergedList(AsSlice(merged.proxies), AsSlice(remote[1].proxies),
                  UNION {ToSet(AsSlice(remote[i].proxies)) : i \in In("proxies")}, FALSE)
ProvidersMerged ==
    /\ DOMAIN AsMap(merged.providers) =
           UNION {DOMAIN AsMap(remote[i].providers) : i \in In("providers")}
    /\ \A i \in In("providers") : \A name \in DOMAIN AsMap(remote[i].providers) :
          AsMap(merged.providers)[name] = AsMap(remote[i].providers)[name]
GroupsMerged ==
    /\ AsSlice(merged.groups) \in Seq(GroupEntry)
    /\ MergedList(AsSlice(merged.groups), AsSlice(remote[1].groups),
                  UNION {ToSet(AsSlice(remote[i].groups)) : i \in In("groups")}, TRUE)
RulesMerged ==
    /\ AsSlice(merged.rules) \in Seq(Rule)
    /\ PrintsIn(merged.rules) = UNION {PrintsIn(remote[i].rules) : i \in In("rules")}

Contents ==
    Assembled =>
        /\ Lists \subseteq DOMAIN merged
        /\ ProxiesMerged /\ ProvidersMerged /\ GroupsMerged /\ RulesMerged

\* The merge is over when every document has been merged.
AllMerged ==
    ~config.converter /\ (pc \in {"check", "overlay"} \/ result = "ok") => cursor = N + 1

MergeInv == Contents /\ AllMerged /\ RefusedForAReason

\* A section nobody touches stays what it was.
LEMMA Untouched ==
    ASSUME UNCHANGED remote
    PROVE  /\ ProxiesMerged /\ merged'.proxies = merged.proxies
                  /\ In("proxies")' = In("proxies") => ProxiesMerged'
           /\ ProvidersMerged /\ merged'.providers = merged.providers
                  /\ In("providers")' = In("providers") => ProvidersMerged'
           /\ GroupsMerged /\ merged'.groups = merged.groups
                  /\ In("groups")' = In("groups") => GroupsMerged'
           /\ RulesMerged /\ merged'.rules = merged.rules
                  /\ In("rules")' = In("rules") => RulesMerged'
<1>1. ASSUME ProxiesMerged, merged'.proxies = merged.proxies, In("proxies")' = In("proxies")
      PROVE  ProxiesMerged'
  BY <1>1 DEF ProxiesMerged
<1>2. ASSUME ProvidersMerged, merged'.providers = merged.providers,
             In("providers")' = In("providers")
      PROVE  ProvidersMerged'
  BY <1>2 DEF ProvidersMerged
<1>3. ASSUME GroupsMerged, merged'.groups = merged.groups, In("groups")' = In("groups")
      PROVE  GroupsMerged'
  BY <1>3 DEF GroupsMerged
<1>4. ASSUME RulesMerged, merged'.rules = merged.rules, In("rules")' = In("rules")
      PROVE  RulesMerged'
  BY <1>4 DEF RulesMerged
<1> QED BY <1>1, <1>2, <1>3, <1>4

\* The sections of a document that a source may serve.
LEMMA DocumentShape ==
    ASSUME NEW d \in Documents
    PROVE  /\ Lists \subseteq DOMAIN d
           /\ AsSlice(d.proxies) \in Seq(Proxy) /\ AsSlice(d.groups) \in Seq(GroupEntry)
           /\ AsSlice(d.rules) \in Seq(Rule)
<1> DEFINE proxies == AsSlice(d.proxies)
           rules == AsSlice(d.rules)
<1>1. proxies \in Seq(ToSet(proxies)) /\ rules \in Seq(ToSet(rules))
  BY DocumentAssumption
<1>2. ToSet(proxies) \subseteq Proxy /\ ToSet(rules) \subseteq Rule
  BY DEF Proxy, Rule
<1> HIDE DEF proxies, rules
<1>3. proxies \in Seq(Proxy) /\ rules \in Seq(Rule)
  BY <1>1, <1>2
<1> QED BY <1>3, DocumentAssumption DEF Lists, proxies, rules

\* While the merge runs, every source has answered with a document.
LEMMA AllAnswered ==
    ASSUME Inv, ~config.converter, pc \in Merging \cup {"overlay"} \/ result = "ok"
    PROVE  documents = remote /\ \A i \in Sources : remote[i] \in Documents
<1>1. \A i \in Sources : fetch[i] = "done" /\ ~failed[i]
  BY DEF Inv, Gathered
<1>2. \A i \in Sources : documents[i] = remote[i]
  BY <1>1 DEF Inv, Slots
<1>3. documents = remote
  BY <1>2 DEF Inv, TypeOK
<1>4. \A i \in Sources : remote[i] \in Documents
  BY <1>2, DocumentAssumption DEF Inv, TypeOK
<1> QED BY <1>3, <1>4

\* The lists of groups and of proxies can be merged.
LEMMA ListsUnite == Unites(GroupEntry, TRUE) /\ Unites(Proxy, FALSE)
<1> DEFINE served == UNION {ToSet(AsSlice(d.groups)) : d \in Documents}
           names == {g.name : g \in served}
           bodies == {g.body : g \in served}
           members == UNION {ToSet(AsSlice(g.members)) : g \in served}
           others == {g.members : g \in {h \in served : h.members.kind # "list"}}
<1>1. GroupEntry = GroupSet(names, bodies, members, others)
  BY DEF GroupEntry, GroupSet, ListsOf
<1>2. Conflict \notin GroupSet(names, bodies, members, others)
  BY <1>1, DocumentAssumption
<1>3. Unites(GroupSet(names, bodies, members, others), TRUE)
  <2>1. NoLists(others)
    BY DEF NoLists
  <2> HIDE DEF names, bodies, members, others
  <2> QED BY <1>2, <2>1, GroupsUnite
<1>4. Unites(Proxy, FALSE)
  BY DEF Unites
<1> QED BY <1>1, <1>3, <1>4

LEMMA MergeInit == Init => MergeInv
  BY DEF Init, MergeInv, Contents, AllMerged, RefusedForAReason, Assembled, Merging

\* Before the merge there is nothing to say.
LEMMA MergeBefore ==
    ASSUME Inv, MergeInv, Inv',
           ReadSecrets \/ Convert \/ (\E i \in Sources : Fetch(i))
    PROVE  MergeInv'
<1>1. UNCHANGED <<remote, config>>
  BY DEF ReadSecrets, Convert, Fetch
<1>2. pc' \notin Merging \cup {"overlay"} \/ config.converter
  BY DEF ReadSecrets, Convert, Fetch, Return, Go, answer, Inv, Stages, Gathered, Merging
<1>3. result' \notin {"ok", "conflict", "malformed", "empty"}
  BY DEF ReadSecrets, Convert, Fetch, Return, Go, answer, Inv, Stages, Gathered, Merging
<1> QED
  BY <1>1, <1>2, <1>3
  DEF MergeInv, Contents, AllMerged, RefusedForAReason, Assembled, Merging

LEMMA MergeCollect == ASSUME Inv, MergeInv, Inv', Collect PROVE MergeInv'
<1>1. UNCHANGED <<remote, config>> /\ Inv
  BY DEF Collect
<1>2. CASE Failures # {} /\ Return("fetch", "fetch", FirstOf(Failures))
  BY <1>1, <1>2
  DEF Return, Go, MergeInv, Contents, AllMerged, RefusedForAReason, Assembled, Merging
<1>3. CASE /\ Failures = {} /\ Go("fetch", "next") /\ merged' = documents[1] /\ cursor' = 2
           /\ UNCHANGED <<result, culprit>>
  <2>1. pc = "fetch" /\ result = "none" /\ ~config.converter
    BY <1>3 DEF Go, Inv, Stages, Merging
  <2>2. \A i \in Sources : fetch[i] = "done" /\ ~failed[i]
    BY <1>3 DEF Collect, Waited, Failures
  <2>3. 1 \in Sources /\ documents[1] = remote[1] /\ remote[1] \in Documents
    BY <2>2, SourceAssumption, DocumentAssumption DEF Inv, TypeOK, Slots, Sources
  <2>4. merged' = remote[1] /\ Lists \subseteq DOMAIN merged'
    BY <1>3, <2>3, DocumentShape
  <2>5. \A section \in Lists : In(section)' = {1}
    BY <1>3 DEF Go, In, Count, Past, Lists
  <2>6. ProxiesMerged'
    <3>1. MergedList(AsSlice(remote[1].proxies), AsSlice(remote[1].proxies),
                     ToSet(AsSlice(remote[1].proxies)), FALSE)
      BY <2>3, DocumentShape, FirstListIsMerged
    <3>2. UNION {ToSet(AsSlice(remote[i].proxies)) : i \in {1}} = ToSet(AsSlice(remote[1].proxies))
      OBVIOUS
    <3> QED BY <1>1, <2>3, <2>4, <2>5, <3>1, <3>2, DocumentShape DEF ProxiesMerged, Lists
  <2>7. GroupsMerged'
    <3>1. MergedList(AsSlice(remote[1].groups), AsSlice(remote[1].groups),
                     ToSet(AsSlice(remote[1].groups)), TRUE)
      BY <2>3, DocumentShape, FirstListIsMerged
    <3>2. UNION {ToSet(AsSlice(remote[i].groups)) : i \in {1}} = ToSet(AsSlice(remote[1].groups))
      OBVIOUS
    <3> QED BY <1>1, <2>3, <2>4, <2>5, <3>1, <3>2, DocumentShape DEF GroupsMerged, Lists
  <2>8. ProvidersMerged'
    BY <1>1, <2>4, <2>5 DEF ProvidersMerged, Lists
  <2>9. RulesMerged'
    <3>1. UNION {PrintsIn(remote[i].rules) : i \in {1}} = PrintsIn(remote[1].rules)
      OBVIOUS
    <3> QED BY <1>1, <2>3, <2>4, <2>5, <3>1, DocumentShape DEF RulesMerged, Lists
  <2>10. AllMerged' /\ RefusedForAReason'
    BY <1>3, <2>1 DEF Go, AllMerged, RefusedForAReason
  <2> QED BY <2>4, <2>6, <2>7, <2>8, <2>9, <2>10 DEF MergeInv, Contents
<1> QED BY <1>2, <1>3 DEF Collect

LEMMA MergeNextDocument == ASSUME Inv, MergeInv, NextDocument PROVE MergeInv'
<1>1. UNCHANGED <<remote, config, merged, cursor, result>>
      /\ pc = "next" /\ pc' \in {"proxies", "check"}
      /\ pc' = (IF cursor <= N THEN "proxies" ELSE "check")
  BY DEF NextDocument, Go, answer
<1>2. ~config.converter /\ result = "none" /\ cursor \in 1 .. N + 1
  BY <1>1 DEF Inv, Stages, Merging
<1>3. Assembled /\ \A section \in Lists : In(section)' = In(section)
  BY <1>1, <1>2 DEF Assembled, Merging, In, Count, Past, Lists
<1>4. Lists \subseteq DOMAIN merged'
      /\ ProxiesMerged' /\ ProvidersMerged' /\ GroupsMerged' /\ RulesMerged'
  BY <1>1, <1>3, Untouched DEF MergeInv, Contents, Lists
<1>5. AllMerged'
  BY <1>1, <1>2, SourceAssumption DEF AllMerged
<1> QED BY <1>1, <1>2, <1>4, <1>5 DEF MergeInv, Contents, RefusedForAReason

\* The documents up to the cursor are those before it and the one at it.
LEMMA UpToCursor ==
    ASSUME Inv, pc \in Lists
    PROVE  /\ cursor \in Sources /\ result = "none" /\ ~config.converter
           /\ documents[cursor] = remote[cursor] /\ remote[cursor] \in Documents
           /\ remote[1] \in Documents /\ 1 .. cursor - 1 \subseteq Sources
           /\ 1 .. cursor = 1 .. cursor - 1 \cup {cursor}
           /\ 1 .. cursor \subseteq Sources
<1>1. cursor \in Sources /\ result = "none" /\ ~config.converter /\ pc \in Merging
  BY DEF Inv, Stages, Lists, Merging, Sources
<1>2. documents = remote /\ \A i \in Sources : remote[i] \in Documents
  BY <1>1, AllAnswered
<1> QED BY <1>1, <1>2, SourceAssumption DEF Sources

\* A section that ends the call, whichever it is.
LEMMA MergeRefused ==
    ASSUME Inv, MergeInv, pc \in Lists, NEW m,
           NEW from, NEW to, NEW document, Section(from, to, m, document),
           m.ok => MergeInv',
           ~m.ok /\ m.why = "conflict" => \E i, j \in Sources : Clash(i, j),
           ~m.ok /\ m.why = "malformed" =>
               \E i \in Sources :
                   Nameless(AsSlice(remote[i].proxies)) \/ Nameless(AsSlice(remote[i].groups))
    PROVE  MergeInv'
<1>1. UNCHANGED <<remote, config>>
  BY DEF Section
<1>2. CASE m.ok
  BY <1>2
<1>3. CASE ~m.ok
  <2>1. PICK why \in {"conflict", "malformed"} : m.why = why /\ Return(from, why, 0)
    BY <1>3 DEF Section
  <2>2. RefusedForAReason'
    BY <1>1, <1>3, <2>1 DEF Return, RefusedForAReason, Clash
  <2>3. Contents' /\ AllMerged'
    BY <2>1 DEF Return, Go, Contents, AllMerged, Assembled, Merging
  <2> QED BY <2>2, <2>3 DEF MergeInv
<1> QED BY <1>2, <1>3

LEMMA MergeProxies == ASSUME Inv, MergeInv, Proxies PROVE MergeInv'
<1> DEFINE seen == UNION {ToSet(AsSlice(remote[i].proxies)) : i \in 1 .. cursor - 1}
           all == UNION {ToSet(AsSlice(remote[i].proxies)) : i \in 1 .. cursor}
<1>1. PICK m : /\ m = MergeNamedList(merged.proxies, documents[cursor].proxies, FALSE)
               /\ Section("proxies", "providers", m, [merged EXCEPT !.proxies = m.value])
  BY DEF Proxies
<1>2. pc = "proxies" /\ pc \in Lists /\ UNCHANGED <<remote, config, cursor>>
  BY DEF Proxies, Section, Lists
<1>3. /\ cursor \in Sources /\ result = "none" /\ ~config.converter
      /\ documents[cursor] = remote[cursor] /\ remote[cursor] \in Documents
      /\ remote[1] \in Documents /\ 1 .. cursor - 1 \subseteq Sources
      /\ 1 .. cursor = 1 .. cursor - 1 \cup {cursor} /\ 1 .. cursor \subseteq Sources
  BY <1>2, UpToCursor
<1>4. /\ Lists \subseteq DOMAIN merged
      /\ ProxiesMerged /\ ProvidersMerged /\ GroupsMerged /\ RulesMerged
  BY <1>2, <1>3 DEF MergeInv, Contents, Assembled, Merging
<1>5. all = seen \cup ToSet(AsSlice(remote[cursor].proxies))
  BY <1>3
<1>6. /\ AsSlice(merged.proxies) \in Seq(Proxy)
      /\ MergedList(AsSlice(merged.proxies), AsSlice(remote[1].proxies), seen, FALSE)
  BY <1>2, <1>4 DEF ProxiesMerged, In, Count, Past
<1> HIDE DEF seen, all
<1>7. SectionMergedOrRefused(m, Proxy, AsSlice(remote[1].proxies), all, FALSE)
  <2>1. AsSlice(remote[1].proxies) \in Seq(Proxy) /\ AsSlice(remote[cursor].proxies) \in Seq(Proxy)
    BY <1>3, DocumentShape
  <2>2. m = MergeNamedList(merged.proxies, remote[cursor].proxies, FALSE) /\ FALSE \in BOOLEAN
    BY <1>1, <1>3
  <2> QED BY <1>5, <1>6, <2>1, <2>2, ListsUnite, NextSectionMerges
<1>8. ASSUME m.ok PROVE MergeInv'
  <2>1. /\ pc' = "providers" /\ merged' = [merged EXCEPT !.proxies = m.value]
        /\ UNCHANGED result
    BY <1>1, <1>8 DEF Section, Go
  <2>2. /\ merged'.proxies = m.value /\ Lists \subseteq DOMAIN merged'
        /\ merged'.providers = merged.providers /\ merged'.groups = merged.groups
        /\ merged'.rules = merged.rules
    BY <1>4, <2>1 DEF Lists
  <2>3. /\ In("proxies")' = 1 .. cursor
        /\ In("providers")' = In("providers") /\ In("groups")' = In("groups")
        /\ In("rules")' = In("rules")
    BY <1>2, <2>1 DEF In, Count, Past
  <2>4. ProxiesMerged'
    BY <1>2, <1>7, <1>8, <2>2, <2>3 DEF ProxiesMerged, SectionMergedOrRefused, all
  <2>5. ProvidersMerged' /\ GroupsMerged' /\ RulesMerged'
    BY <1>2, <1>4, <2>2, <2>3, Untouched
  <2>6. AllMerged' /\ RefusedForAReason'
    BY <1>3, <2>1 DEF AllMerged, RefusedForAReason
  <2> QED BY <2>2, <2>4, <2>5, <2>6 DEF MergeInv, Contents
<1>9. ASSUME ~m.ok, m.why = "conflict" PROVE \E i, j \in Sources : Clash(i, j)
  <2>1. PICK d \in all, e \in all : d.name = e.name /\ d # e
    BY <1>7, <1>9 DEF SectionMergedOrRefused, Alike
  <2>2. PICK i \in Sources : d \in ToSet(AsSlice(remote[i].proxies))
    BY <1>3 DEF all
  <2>3. PICK j \in Sources : e \in ToSet(AsSlice(remote[j].proxies))
    BY <1>3 DEF all
  <2> QED BY <2>1, <2>2, <2>3 DEF Clash
<1>10. ASSUME ~m.ok, m.why = "malformed"
       PROVE  \E i \in Sources : Nameless(AsSlice(remote[i].proxies))
  <2>1. PICK e \in all : e.name = NoName
    BY <1>7, <1>10 DEF SectionMergedOrRefused
  <2>2. PICK i \in Sources : e \in ToSet(AsSlice(remote[i].proxies))
    BY <1>3 DEF all
  <2> QED BY <2>1, <2>2 DEF Nameless, ToSet
<1> QED BY <1>1, <1>2, <1>8, <1>9, <1>10, MergeRefused

LEMMA MergeProviderMaps == ASSUME Inv, MergeInv, Providers PROVE MergeInv'
<1>1. PICK m : /\ m = MergeProviders(merged.providers, documents[cursor].providers)
               /\ Section("providers", "groups", m, [merged EXCEPT !.providers = m.value])
  BY DEF Providers
<1>2. pc = "providers" /\ pc \in Lists /\ UNCHANGED <<remote, config, cursor>>
  BY DEF Providers, Section, Lists
<1>3. /\ cursor \in Sources /\ result = "none" /\ ~config.converter
      /\ documents[cursor] = remote[cursor] /\ remote[cursor] \in Documents
      /\ remote[1] \in Documents /\ 1 .. cursor - 1 \subseteq Sources
      /\ 1 .. cursor = 1 .. cursor - 1 \cup {cursor} /\ 1 .. cursor \subseteq Sources
  BY <1>2, UpToCursor
<1>4. /\ Lists \subseteq DOMAIN merged
      /\ ProxiesMerged /\ ProvidersMerged /\ GroupsMerged /\ RulesMerged
  BY <1>2, <1>3 DEF MergeInv, Contents, Assembled, Merging
<1>5. /\ DOMAIN AsMap(merged.providers) =
             UNION {DOMAIN AsMap(remote[i].providers) : i \in 1 .. cursor - 1}
      /\ \A i \in 1 .. cursor - 1 : \A name \in DOMAIN AsMap(remote[i].providers) :
            AsMap(merged.providers)[name] = AsMap(remote[i].providers)[name]
  BY <1>2, <1>4 DEF ProvidersMerged, In, Count, Past
<1> DEFINE ours == AsMap(merged.providers)
           theirs == AsMap(remote[cursor].providers)
<1>8. ProvidersMergedOrRefused(m, ours, theirs)
  <2>1. m = MergeProviders(merged.providers, remote[cursor].providers)
    BY <1>1, <1>3
  <2>2. ours = AsMap(merged.providers) /\ theirs = AsMap(remote[cursor].providers)
    OBVIOUS
  <2> HIDE DEF ours, theirs
  <2> QED BY <2>1, <2>2, ProvidersMerge
<1>6. CASE DOMAIN ours \cap DOMAIN theirs # {}
  <2>1. ~m.ok /\ m.why = "conflict"
    BY <1>6, <1>8 DEF ProvidersMergedOrRefused
  <2>2. PICK name \in DOMAIN ours : name \in DOMAIN theirs
    BY <1>6
  <2>3. PICK i \in 1 .. cursor - 1 : name \in DOMAIN AsMap(remote[i].providers)
    BY <1>5
  <2>4. i \in Sources /\ i # cursor
    BY <1>3 DEF Sources
  <2>5. Clash(i, cursor)
    BY <2>2, <2>3, <2>4 DEF Clash
  <2> QED BY <1>1, <1>2, <1>3, <2>1, <2>4, <2>5, MergeRefused
<1>7. CASE DOMAIN ours \cap DOMAIN theirs = {}
  <2> DEFINE both == AsMap(m.value)
  <2>1. /\ m.ok /\ DOMAIN both = DOMAIN ours \cup DOMAIN theirs
        /\ \A name \in DOMAIN ours : both[name] = ours[name]
        /\ \A name \in DOMAIN theirs : both[name] = theirs[name]
    BY <1>7, <1>8 DEF ProvidersMergedOrRefused
  <2>2. /\ pc' = "groups" /\ merged' = [merged EXCEPT !.providers = m.value]
        /\ UNCHANGED result
    BY <1>1, <2>1 DEF Section, Go
  <2>3. /\ merged'.providers = m.value /\ Lists \subseteq DOMAIN merged'
        /\ merged'.proxies = merged.proxies /\ merged'.groups = merged.groups
        /\ merged'.rules = merged.rules
    BY <1>4, <2>2 DEF Lists
  <2>4. /\ In("providers")' = 1 .. cursor
        /\ In("proxies")' = In("proxies") /\ In("groups")' = In("groups")
        /\ In("rules")' = In("rules")
    BY <1>2, <2>2 DEF In, Count, Past
  <2>5. ProvidersMerged'
    <3>1. DOMAIN both = UNION {DOMAIN AsMap(remote[i].providers) : i \in 1 .. cursor}
      BY <1>3, <1>5, <2>1
    <3>2. \A i \in 1 .. cursor : \A name \in DOMAIN AsMap(remote[i].providers) :
              both[name] = AsMap(remote[i].providers)[name]
      BY <1>3, <1>5, <2>1
    <3> QED BY <1>2, <2>3, <2>4, <3>1, <3>2 DEF ProvidersMerged
  <2>6. ProxiesMerged' /\ GroupsMerged' /\ RulesMerged'
    BY <1>2, <1>4, <2>3, <2>4, Untouched
  <2>7. AllMerged' /\ RefusedForAReason'
    BY <1>3, <2>2 DEF AllMerged, RefusedForAReason
  <2> QED BY <2>3, <2>5, <2>6, <2>7 DEF MergeInv, Contents
<1> QED BY <1>6, <1>7

LEMMA MergeGroupLists == ASSUME Inv, MergeInv, Groups PROVE MergeInv'
<1> DEFINE seen == UNION {ToSet(AsSlice(remote[i].groups)) : i \in 1 .. cursor - 1}
           all == UNION {ToSet(AsSlice(remote[i].groups)) : i \in 1 .. cursor}
<1>1. PICK m : /\ m = MergeNamedList(merged.groups, documents[cursor].groups, TRUE)
               /\ Section("groups", "rules", m, [merged EXCEPT !.groups = m.value])
  BY DEF Groups
<1>2. pc = "groups" /\ pc \in Lists /\ UNCHANGED <<remote, config, cursor>>
  BY DEF Groups, Section, Lists
<1>3. /\ cursor \in Sources /\ result = "none" /\ ~config.converter
      /\ documents[cursor] = remote[cursor] /\ remote[cursor] \in Documents
      /\ remote[1] \in Documents /\ 1 .. cursor - 1 \subseteq Sources
      /\ 1 .. cursor = 1 .. cursor - 1 \cup {cursor} /\ 1 .. cursor \subseteq Sources
  BY <1>2, UpToCursor
<1>4. /\ Lists \subseteq DOMAIN merged
      /\ ProxiesMerged /\ ProvidersMerged /\ GroupsMerged /\ RulesMerged
  BY <1>2, <1>3 DEF MergeInv, Contents, Assembled, Merging
<1>5. all = seen \cup ToSet(AsSlice(remote[cursor].groups))
  BY <1>3
<1>6. /\ AsSlice(merged.groups) \in Seq(GroupEntry)
      /\ MergedList(AsSlice(merged.groups), AsSlice(remote[1].groups), seen, TRUE)
  BY <1>2, <1>4 DEF GroupsMerged, In, Count, Past
<1> HIDE DEF seen, all
<1>7. SectionMergedOrRefused(m, GroupEntry, AsSlice(remote[1].groups), all, TRUE)
  <2>1. /\ AsSlice(remote[1].groups) \in Seq(GroupEntry)
        /\ AsSlice(remote[cursor].groups) \in Seq(GroupEntry)
    BY <1>3, DocumentShape
  <2>2. m = MergeNamedList(merged.groups, remote[cursor].groups, TRUE) /\ TRUE \in BOOLEAN
    BY <1>1, <1>3
  <2> QED BY <1>5, <1>6, <2>1, <2>2, ListsUnite, NextSectionMerges
<1>8. ASSUME m.ok PROVE MergeInv'
  <2>1. /\ pc' = "rules" /\ merged' = [merged EXCEPT !.groups = m.value]
        /\ UNCHANGED result
    BY <1>1, <1>8 DEF Section, Go
  <2>2. /\ merged'.groups = m.value /\ Lists \subseteq DOMAIN merged'
        /\ merged'.providers = merged.providers /\ merged'.proxies = merged.proxies
        /\ merged'.rules = merged.rules
    BY <1>4, <2>1 DEF Lists
  <2>3. /\ In("groups")' = 1 .. cursor
        /\ In("providers")' = In("providers") /\ In("proxies")' = In("proxies")
        /\ In("rules")' = In("rules")
    BY <1>2, <2>1 DEF In, Count, Past
  <2>4. GroupsMerged'
    BY <1>2, <1>7, <1>8, <2>2, <2>3 DEF GroupsMerged, SectionMergedOrRefused, all
  <2>5. ProvidersMerged' /\ ProxiesMerged' /\ RulesMerged'
    BY <1>2, <1>4, <2>2, <2>3, Untouched
  <2>6. AllMerged' /\ RefusedForAReason'
    BY <1>3, <2>1 DEF AllMerged, RefusedForAReason
  <2> QED BY <2>2, <2>4, <2>5, <2>6 DEF MergeInv, Contents
<1>9. ASSUME ~m.ok, m.why = "conflict" PROVE \E i, j \in Sources : Clash(i, j)
  <2>1. PICK d \in all, e \in all : d.name = e.name /\ d.body # e.body
    BY <1>7, <1>9 DEF SectionMergedOrRefused, Alike
  <2>2. PICK i \in Sources : d \in ToSet(AsSlice(remote[i].groups))
    BY <1>3 DEF all
  <2>3. PICK j \in Sources : e \in ToSet(AsSlice(remote[j].groups))
    BY <1>3 DEF all
  <2> QED BY <2>1, <2>2, <2>3 DEF Clash
<1>10. ASSUME ~m.ok, m.why = "malformed"
       PROVE  \E i \in Sources : Nameless(AsSlice(remote[i].groups))
  <2>1. PICK e \in all : e.name = NoName
    BY <1>7, <1>10 DEF SectionMergedOrRefused
  <2>2. PICK i \in Sources : e \in ToSet(AsSlice(remote[i].groups))
    BY <1>3 DEF all
  <2> QED BY <2>1, <2>2 DEF Nameless, ToSet
<1> QED BY <1>1, <1>2, <1>8, <1>9, <1>10, MergeRefused

LEMMA MergeRuleLists == ASSUME Inv, MergeInv, Rules PROVE MergeInv'
<1>1. PICK m : /\ m = MergeRules(merged.rules, documents[cursor].rules)
               /\ Section("rules", "next", m, [merged EXCEPT !.rules = m.value])
  BY DEF Rules
<1>2. pc = "rules" /\ pc \in Lists /\ UNCHANGED <<remote, config>> /\ cursor' = cursor + 1
  BY DEF Rules, Section, Return, Go, Lists
<1>3. /\ cursor \in Sources /\ result = "none" /\ ~config.converter
      /\ documents[cursor] = remote[cursor] /\ remote[cursor] \in Documents
      /\ remote[1] \in Documents /\ 1 .. cursor - 1 \subseteq Sources
      /\ 1 .. cursor = 1 .. cursor - 1 \cup {cursor} /\ 1 .. cursor \subseteq Sources
  BY <1>2, UpToCursor
<1>4. /\ Lists \subseteq DOMAIN merged
      /\ ProxiesMerged /\ ProvidersMerged /\ GroupsMerged /\ RulesMerged
  BY <1>2, <1>3 DEF MergeInv, Contents, Assembled, Merging
<1>5. /\ m.ok /\ AsSlice(m.value) \in Seq(Rule)
      /\ PrintsIn(m.value) = PrintsIn(merged.rules) \cup PrintsIn(remote[cursor].rules)
  <2>1. AsSlice(merged.rules) \in Seq(Rule) /\ AsSlice(remote[cursor].rules) \in Seq(Rule)
    BY <1>3, <1>4, DocumentShape DEF RulesMerged
  <2>2. m = MergeRules(merged.rules, remote[cursor].rules)
    BY <1>1, <1>3
  <2> QED BY <2>1, <2>2, RulesMerge
<1>6. pc' = "next" /\ merged' = [merged EXCEPT !.rules = m.value] /\ UNCHANGED result
  BY <1>1, <1>5 DEF Section, Go
<1>7. /\ merged'.rules = m.value /\ Lists \subseteq DOMAIN merged'
      /\ merged'.proxies = merged.proxies /\ merged'.providers = merged.providers
      /\ merged'.groups = merged.groups
  BY <1>4, <1>6 DEF Lists
<1>8. \A section \in Lists : In(section)' = 1 .. cursor
  <2>1. cursor' - 1 = cursor
    BY <1>2, <1>3 DEF Sources
  <2> QED BY <1>6, <2>1 DEF In, Count, Past, Lists
<1>9. /\ In("proxies") = 1 .. cursor /\ In("providers") = 1 .. cursor
      /\ In("groups") = 1 .. cursor /\ In("rules") = 1 .. cursor - 1
  BY <1>2 DEF In, Count, Past
<1>10. RulesMerged'
  <2>1. PrintsIn(m.value) = UNION {PrintsIn(remote[i].rules) : i \in 1 .. cursor}
    BY <1>3, <1>4, <1>5, <1>9 DEF RulesMerged
  <2> QED BY <1>2, <1>5, <1>7, <1>8, <2>1 DEF RulesMerged, Lists
<1>11. ProxiesMerged' /\ ProvidersMerged' /\ GroupsMerged'
  BY <1>2, <1>4, <1>7, <1>8, <1>9, Untouched DEF Lists
<1>12. AllMerged' /\ RefusedForAReason'
  BY <1>3, <1>6 DEF AllMerged, RefusedForAReason
<1> QED BY <1>7, <1>10, <1>11, <1>12 DEF MergeInv, Contents

\* What is merged in the end, seen from the sources.
LEMMA MergedInTheEnd ==
    ASSUME Inv, MergeInv, ~config.converter, pc \in {"check", "overlay"} \/ result = "ok"
    PROVE  /\ Lists \subseteq DOMAIN merged
           /\ ProxiesMerged /\ ProvidersMerged /\ GroupsMerged /\ RulesMerged
           /\ \A section \in Lists : In(section) = Sources
           /\ \A i \in Sources : remote[i] \in Documents
<1>1. Assembled /\ cursor = N + 1 /\ pc \in {"check", "overlay", "returned"}
  BY DEF MergeInv, AllMerged, Assembled, Merging, Inv, Stages
<1>2. \A section \in Lists : In(section) = 1 .. N
  BY <1>1, SourceAssumption DEF In, Count, Past, Lists
<1>3. \A i \in Sources : remote[i] \in Documents
  BY AllAnswered DEF Merging
<1> QED BY <1>1, <1>2, <1>3 DEF MergeInv, Contents, Sources

LEMMA MergeCheck == ASSUME Inv, MergeInv, Check PROVE MergeInv'
<1>1. pc = "check" /\ ~config.converter /\ result = "none"
      /\ UNCHANGED <<remote, config, merged, cursor>>
  BY DEF Check, Go, Return, Inv, Stages, Merging
<1>2. /\ Lists \subseteq DOMAIN merged
      /\ ProxiesMerged /\ ProvidersMerged /\ GroupsMerged /\ RulesMerged
      /\ \A section \in Lists : In(section) = Sources
      /\ \A i \in Sources : remote[i] \in Documents
  BY <1>1, MergedInTheEnd
<1>3. CASE HasContent(merged) /\ Go("check", "overlay") /\ UNCHANGED <<result, culprit>>
  <2>1. \A section \in Lists : In(section)' = In(section)
    BY <1>1, <1>3 DEF Go, In, Count, Past, Lists
  <2>2. Lists \subseteq DOMAIN merged'
        /\ ProxiesMerged' /\ ProvidersMerged' /\ GroupsMerged' /\ RulesMerged'
    BY <1>1, <1>2, <2>1, Untouched DEF Lists
  <2>3. AllMerged' /\ RefusedForAReason'
    BY <1>1, <1>3 DEF Go, MergeInv, AllMerged, RefusedForAReason
  <2> QED BY <2>2, <2>3 DEF MergeInv, Contents
<1>4. CASE ~HasContent(merged) /\ Return("check", "empty", 0)
  <2>1. ASSUME NEW i \in Sources PROVE ~HasEntries(remote[i])
    <3>1. /\ AsSlice(merged.proxies) = <<>> /\ DOMAIN AsMap(merged.providers) = {}
          /\ AsSlice(merged.rules) = <<>>
      BY <1>4 DEF HasContent, HasNonEmpty
    <3>2. ToSet(AsSlice(remote[i].proxies)) = {}
      <4> SUFFICES ASSUME NEW p \in ToSet(AsSlice(remote[i].proxies)) PROVE FALSE
        OBVIOUS
      <4>1. \E k \in 1 .. Len(AsSlice(merged.proxies)) :
                Covers(AsSlice(merged.proxies)[k], p, FALSE)
        BY <1>2, <2>1 DEF ProxiesMerged, MergedList, Lists
      <4>2. Len(AsSlice(merged.proxies)) = 0
        BY <3>1
      <4> QED BY <4>1, <4>2
    <3>3. DOMAIN AsMap(remote[i].providers) = {}
      BY <1>2, <2>1, <3>1 DEF ProvidersMerged, Lists
    <3>4. PrintsIn(remote[i].rules) = {}
      <4>1. PrintsIn(merged.rules) = {}
        BY <3>1 DEF PrintsIn, Prints, ToSet
      <4> QED BY <1>2, <2>1, <4>1 DEF RulesMerged, Lists
    <3>5. ASSUME NEW X, NEW list \in Seq(X), list # <<>>
          PROVE  list[1] \in ToSet(list) /\ 1 \in 1 .. Len(list)
      <4>1. Len(list) \in Nat /\ Len(list) # 0
        BY <3>5, EmptySeq
      <4> QED BY <4>1 DEF ToSet
    <3>6. AsSlice(remote[i].proxies) \in Seq(Proxy) /\ AsSlice(remote[i].rules) \in Seq(Rule)
      BY <1>2, <2>1, DocumentShape
    <3>7. AsSlice(remote[i].proxies) = <<>>
      BY <3>2, <3>5, <3>6
    <3>8. AsSlice(remote[i].rules) = <<>>
      <4> SUFFICES ASSUME AsSlice(remote[i].rules) # <<>> PROVE FALSE
        OBVIOUS
      <4>1. 1 \in 1 .. Len(AsSlice(remote[i].rules))
        BY <3>5, <3>6
      <4>2. Prints(AsSlice(remote[i].rules))[1] \in PrintsIn(remote[i].rules)
        <5>1. Len(Prints(AsSlice(remote[i].rules))) = Len(AsSlice(remote[i].rules))
              /\ Prints(AsSlice(remote[i].rules)) \in Seq({Printed(x) : x \in Rule})
          BY <3>6, PrintsAre
        <5> QED BY <4>1, <5>1 DEF PrintsIn, ToSet
      <4> QED BY <3>4, <4>2
    <3> QED BY <3>3, <3>7, <3>8 DEF HasEntries
  <2>2. RefusedForAReason'
    BY <1>1, <1>4, <2>1 DEF Return, RefusedForAReason
  <2>3. Contents' /\ AllMerged'
    BY <1>4 DEF Return, Go, Contents, AllMerged, Assembled, Merging
  <2> QED BY <2>2, <2>3 DEF MergeInv
<1> QED BY <1>3, <1>4 DEF Check

LEMMA MergeOverlay == ASSUME Inv, MergeInv, Overlay PROVE MergeInv'
<1>1. /\ pc = "overlay" /\ pc' = "returned" /\ result' = "ok"
      /\ UNCHANGED <<remote, config, cursor>> /\ merged' = Overlaid(merged)
  BY DEF Overlay, Go, Return
<1>2. RefusedForAReason'
  BY <1>1 DEF RefusedForAReason
<1>3. CASE config.converter
  BY <1>1, <1>2, <1>3 DEF MergeInv, Contents, AllMerged, Assembled
<1>4. CASE ~config.converter
  <2>1. /\ Lists \subseteq DOMAIN merged
        /\ ProxiesMerged /\ ProvidersMerged /\ GroupsMerged /\ RulesMerged
    BY <1>1, <1>4, MergedInTheEnd
  <2>2. /\ merged'.proxies = merged.proxies /\ merged'.providers = merged.providers
        /\ merged'.groups = merged.groups /\ merged'.rules = merged.rules
        /\ Lists \subseteq DOMAIN merged'
    BY <1>1, <2>1 DEF Overlaid, Lists
  <2>3. \A section \in Lists : In(section)' = In(section)
    BY <1>1 DEF In, Count, Past, Lists
  <2>4. ProxiesMerged' /\ ProvidersMerged' /\ GroupsMerged' /\ RulesMerged'
    BY <1>1, <2>1, <2>2, <2>3, Untouched DEF Lists
  <2>5. AllMerged'
    BY <1>1, <1>4 DEF MergeInv, AllMerged
  <2> QED BY <1>2, <2>2, <2>4, <2>5 DEF MergeInv, Contents
<1> QED BY <1>3, <1>4

LEMMA MergeIdle ==
    ASSUME MergeInv, UNCHANGED <<remote, config, pc, merged, cursor, result>>
    PROVE  MergeInv'
<1>1. \A section \in Lists : In(section)' = In(section)
  BY DEF In, Count, Past, Lists
<1>2. Assembled' => Assembled
  BY DEF Assembled, Merging
<1>3. Contents'
  BY <1>1, <1>2, Untouched DEF MergeInv, Contents, Lists
<1>4. AllMerged'
  BY DEF MergeInv, AllMerged
<1>5. RefusedForAReason'
  BY DEF MergeInv, RefusedForAReason, Clash
<1> QED BY <1>3, <1>4, <1>5 DEF MergeInv

LEMMA MergeNext == ASSUME Inv, Inv', MergeInv, [Next]_vars PROVE MergeInv'
<1>1. CASE Cancel \/ UNCHANGED vars
  BY <1>1, MergeIdle DEF Cancel, vars, answer
<1> QED
  BY <1>1, MergeBefore, MergeCollect, MergeNextDocument, MergeProxies, MergeProviderMaps,
     MergeGroupLists, MergeRuleLists, MergeCheck, MergeOverlay
  DEF Next, BuildStep

LEMMA MergeAlways == Spec => [](Inv /\ MergeInv)
<1>1. Init => Inv /\ MergeInv
  BY InvInit, MergeInit
<1>2. Inv /\ MergeInv /\ [Next]_vars => (Inv /\ MergeInv)'
  BY InvNext, MergeNext
<1> QED BY <1>1, <1>2, PTL DEF Spec

-----------------------------------------------------------------------------
(***************************************************************************)
(* The order of the result.                                                *)
(***************************************************************************)
Ordered == {"proxies", "groups", "rules"}

\* A section as its order is compared: groups by their names, rules as printed.
InSequence(section, list) ==
    IF section = "rules" THEN Prints(list) ELSE Keys(list, section = "groups")
Entries(document, section) == InSequence(section, AsSlice(document[section]))

\* A section of the first documents, one after the other.
Served(section, n) == FlattenSeq([i \in 1 .. n |-> Entries(remote[i], section)])

InOrder(section) == KeepsOrder(Entries(merged, section), Served(section, Count(section)))

OrderInv ==
    Assembled =>
        /\ cursor \in 2 .. N + 1
        /\ "settings" \in DOMAIN merged /\ merged.settings = remote[1].settings
        /\ \A section \in Ordered : InOrder(section)

Entry(section) ==
    CASE section = "proxies" -> Proxy
      [] section = "groups" -> GroupEntry
      [] section = "rules" -> Rule
EntryKey(section) ==
    IF section = "rules" THEN {Printed(r) : r \in Rule}
    ELSE KeySet(Entry(section), section = "groups")

LEMMA InSequenceIs ==
    ASSUME NEW section \in Ordered, NEW list \in Seq(Entry(section))
    PROVE  InSequence(section, list) \in Seq(EntryKey(section))
<1>1. CASE section = "rules"
  BY <1>1, PrintsAre DEF InSequence, EntryKey, Entry
<1>2. CASE section # "rules"
  <2>1. (section = "groups") \in BOOLEAN
    OBVIOUS
  <2> QED BY <1>2, <2>1, KeysAre DEF InSequence, EntryKey
<1> QED BY <1>1, <1>2

\* A section of a document is a list that can be merged.
LEMMA EntriesAre ==
    ASSUME NEW section \in Ordered, NEW d \in Documents
    PROVE  /\ AsSlice(d[section]) \in Seq(Entry(section))
           /\ Entries(d, section) \in Seq(EntryKey(section))
<1>1. AsSlice(d[section]) \in Seq(Entry(section))
  BY DocumentShape DEF Ordered, Entry
<1> QED BY <1>1, InSequenceIs DEF Entries

\* What is served is what came before, then the document at the cursor.
LEMMA OneMoreServed ==
    ASSUME Inv, OrderInv, pc \in Lists, NEW section \in Ordered
    PROVE  /\ Served(section, cursor) =
                  Served(section, cursor - 1) \o Entries(remote[cursor], section)
           /\ Served(section, cursor - 1) \in Seq(EntryKey(section))
<1>1. cursor \in Sources /\ ~config.converter /\ pc \in Merging
  BY UpToCursor DEF Lists, Merging
<1>2. cursor \in 2 .. N + 1 /\ \A i \in Sources : remote[i] \in Documents
  BY <1>1, AllAnswered DEF OrderInv, Assembled
<1> DEFINE n == cursor - 1
           lists == [i \in 1 .. cursor |-> Entries(remote[i], section)]
           fewer == [i \in 1 .. n |-> Entries(remote[i], section)]
<1>3. /\ n \in Nat \ {0} /\ n + 1 = cursor /\ \A i \in 1 .. cursor : i \in Sources
      /\ \A i \in 1 .. n : i \in 1 .. cursor
  BY <1>1, <1>2, SourceAssumption DEF Sources
<1>4. lists \in [1 .. n + 1 -> Seq(EntryKey(section))]
  <2>1. \A i \in 1 .. cursor : Entries(remote[i], section) \in Seq(EntryKey(section))
    BY <1>2, <1>3, EntriesAre
  <2> QED BY <1>3, <2>1
<1>5. fewer = [i \in 1 .. n |-> lists[i]]
  BY <1>3
<1>6. lists[n + 1] = Entries(remote[cursor], section)
  BY <1>1, <1>3 DEF Sources
<1>7. Served(section, cursor) = FlattenSeq(lists) /\ Served(section, cursor - 1) = FlattenSeq(fewer)
  BY DEF Served
<1> HIDE DEF n, lists, fewer
<1>8. FlattenSeq(lists) = FlattenSeq(fewer) \o lists[n + 1]
      /\ FlattenSeq(fewer) \in Seq(EntryKey(section))
  BY <1>3, <1>4, <1>5, FlattenNext
<1> QED BY <1>6, <1>7, <1>8

LEMMA OrderInit == Init => OrderInv
  BY DEF Init, OrderInv, Assembled, Merging

LEMMA OrderCollect == ASSUME Inv, Inv', Collect PROVE OrderInv'
<1>1. UNCHANGED <<remote, config>>
  BY DEF Collect
<1>2. CASE Failures # {} /\ Return("fetch", "fetch", FirstOf(Failures))
  BY <1>2 DEF Return, Go, OrderInv, Assembled, Merging
<1>3. CASE /\ Failures = {} /\ Go("fetch", "next") /\ merged' = documents[1] /\ cursor' = 2
           /\ UNCHANGED <<result, culprit>>
  <2>1. \A i \in Sources : fetch[i] = "done" /\ ~failed[i]
    BY <1>3 DEF Collect, Waited, Failures
  <2>2. 1 \in Sources /\ documents[1] = remote[1] /\ remote[1] \in Documents
    BY <2>1, SourceAssumption, DocumentAssumption DEF Inv, TypeOK, Slots, Sources
  <2>3. /\ merged' = remote[1] /\ "settings" \in DOMAIN merged'
        /\ merged'.settings = remote'[1].settings /\ cursor' \in 2 .. N + 1
    BY <1>1, <1>3, <2>2, SourceAssumption, DocumentAssumption
  <2>4. ASSUME NEW section \in Ordered PROVE InOrder(section)'
    <3> DEFINE lists == [i \in 1 .. 1 |-> Entries(remote[i], section)]
    <3>1. Entries(remote[1], section) \in Seq(EntryKey(section))
      BY <2>2, EntriesAre
    <3>2. lists \in [1 .. 1 -> Seq(EntryKey(section))] /\ lists[1] = Entries(remote[1], section)
      BY <3>1
    <3>3. FlattenSeq(lists) = Entries(remote[1], section)
      <4> HIDE DEF lists
      <4> QED BY <3>2, FlattenFirst
    <3>4. Count(section)' = 1
      BY <1>3 DEF Go, Count, Past, Ordered
    <3>5. Served(section, Count(section))' = Entries(remote[1], section)
      BY <1>1, <3>3, <3>4 DEF Served
    <3>6. Entries(merged, section)' = Entries(remote[1], section)
      BY <2>3 DEF Entries
    <3> QED BY <3>5, <3>6, FirstListKeepsOrder DEF InOrder
  <2> QED BY <2>3, <2>4 DEF OrderInv
<1> QED BY <1>2, <1>3 DEF Collect

\* A section nobody touches.
LEMMA OrderUntouched ==
    ASSUME UNCHANGED remote, NEW section \in Ordered, InOrder(section),
           merged'[section] = merged[section], Count(section)' = Count(section)
    PROVE  InOrder(section)'
<1>1. Served(section, Count(section))' = Served(section, Count(section))
  BY DEF Served
<1>2. Entries(merged, section)' = Entries(merged, section)
  BY DEF Entries
<1> QED BY <1>1, <1>2 DEF InOrder

\* A section that has been merged with the one of the document at the cursor.
LEMMA OrderSection ==
    ASSUME Inv, Inv', OrderInv, NEW section \in Ordered, pc = section, UNCHANGED <<remote, config>>,
           NEW value, merged' = [merged EXCEPT ![section] = value],
           section \in DOMAIN merged,
           KeepsOrder(InSequence(section, AsSlice(value)),
                      Served(section, cursor - 1) \o Entries(remote[cursor], section)),
           cursor' \in {cursor, cursor + 1}, cursor' \in 1 .. N + 1,
           Count(section)' = cursor,
           \A other \in Ordered \ {section} : Count(other)' = Count(other)
    PROVE  OrderInv'
<1>1. pc \in Lists /\ pc \in Merging
  BY DEF Ordered, Lists, Merging
<1>2. Assembled
  BY <1>1, UpToCursor DEF Assembled
<1>3. /\ cursor \in 2 .. N + 1 /\ "settings" \in DOMAIN merged
      /\ merged.settings = remote[1].settings /\ \A other \in Ordered : InOrder(other)
  BY <1>2 DEF OrderInv
<1>4. /\ "settings" \in DOMAIN merged' /\ merged'.settings = merged.settings
      /\ merged'[section] = value
      /\ \A other \in Ordered \ {section} : merged'[other] = merged[other]
  BY <1>3 DEF Ordered
<1>5. cursor' \in 2 .. N + 1
  BY <1>3, SourceAssumption
<1>6. InOrder(section)'
  <2>1. Served(section, cursor) = Served(section, cursor - 1) \o Entries(remote[cursor], section)
    BY <1>1, OneMoreServed
  <2>2. Served(section, Count(section))' = Served(section, cursor)
    BY DEF Served
  <2>3. Entries(merged, section)' = InSequence(section, AsSlice(value))
    BY <1>4 DEF Entries
  <2> QED BY <2>1, <2>2, <2>3 DEF InOrder
<1>7. ASSUME NEW other \in Ordered, other # section PROVE InOrder(other)'
  BY <1>3, <1>4, <1>7, OrderUntouched
<1> QED BY <1>3, <1>4, <1>5, <1>6, <1>7 DEF OrderInv

\* Where a section is merged, the result is in order without the document at
\* the cursor.
LEMMA OrderSoFar ==
    ASSUME Inv, MergeInv, OrderInv, NEW section \in Ordered, pc = section
    PROVE  /\ AsSlice(merged[section]) \in Seq(Entry(section)) /\ section \in DOMAIN merged
           /\ remote[cursor] \in Documents /\ documents[cursor] = remote[cursor]
           /\ AsSlice(remote[cursor][section]) \in Seq(Entry(section))
           /\ KeepsOrder(Entries(merged, section), Served(section, cursor - 1))
           /\ Served(section, cursor - 1) \in Seq(EntryKey(section))
           /\ cursor \in Sources /\ result = "none" /\ ~config.converter
<1>1. pc \in Lists /\ pc \in Merging
  BY DEF Ordered, Lists, Merging
<1>2. /\ cursor \in Sources /\ result = "none" /\ ~config.converter
      /\ documents[cursor] = remote[cursor] /\ remote[cursor] \in Documents
      /\ 1 .. cursor - 1 \subseteq Sources
  BY <1>1, UpToCursor
<1>3. Assembled
  BY <1>1, <1>2 DEF Assembled
<1>4. Lists \subseteq DOMAIN merged /\ ProxiesMerged /\ GroupsMerged /\ RulesMerged
  BY <1>3 DEF MergeInv, Contents
<1>6. AsSlice(merged[section]) \in Seq(Entry(section))
  BY <1>4 DEF Ordered, Entry, ProxiesMerged, GroupsMerged, RulesMerged
<1>7. Count(section) = cursor - 1
  BY DEF Ordered, Count, Past
<1>8. KeepsOrder(Entries(merged, section), Served(section, cursor - 1))
  BY <1>3, <1>7 DEF OrderInv, InOrder
<1>9. Served(section, cursor - 1) \in Seq(EntryKey(section))
  BY <1>1, OneMoreServed
<1>10. section \in DOMAIN merged
  BY <1>4 DEF Ordered, Lists
<1>11. AsSlice(remote[cursor][section]) \in Seq(Entry(section))
  BY <1>2, EntriesAre
<1> QED BY <1>2, <1>6, <1>8, <1>9, <1>10, <1>11

LEMMA OrderNamedList ==
    ASSUME Inv, MergeInv, OrderInv, NEW section \in {"proxies", "groups"}, pc = section,
           NEW m, m = MergeNamedList(merged[section], remote[cursor][section], section = "groups"),
           m.ok
    PROVE  KeepsOrder(InSequence(section, AsSlice(m.value)),
                      Served(section, cursor - 1) \o Entries(remote[cursor], section))
<1> DEFINE mm == section = "groups"
           E == Entry(section)
<1>1. section \in Ordered /\ mm \in BOOLEAN
  BY DEF Ordered
<1>2. Unites(E, mm)
  <2>1. CASE section = "proxies"
    BY <2>1, ListsUnite DEF Entry
  <2>2. CASE section = "groups"
    BY <2>2, ListsUnite DEF Entry
  <2> QED BY <2>1, <2>2
<1>3. /\ AsSlice(merged[section]) \in Seq(E) /\ AsSlice(remote[cursor][section]) \in Seq(E)
      /\ KeepsOrder(Keys(AsSlice(merged[section]), mm), Served(section, cursor - 1))
      /\ Served(section, cursor - 1) \in Seq(KeySet(E, mm))
  BY <1>1, OrderSoFar DEF EntryKey, Entries, InSequence
<1>4. m = MergeNamedList(merged[section], remote[cursor][section], mm)
  OBVIOUS
<1> HIDE DEF mm, E
<1>5. KeepsOrder(Keys(AsSlice(m.value), mm),
                 Served(section, cursor - 1) \o Keys(AsSlice(remote[cursor][section]), mm))
  BY <1>1, <1>2, <1>3, <1>4, NextSectionKeepsOrder
<1> QED BY <1>5 DEF mm, Entries, InSequence

\* A call that ends with an error has no result.
LEMMA OrderRefused ==
    ASSUME NEW from, NEW why \in {"conflict", "malformed", "empty"}, Return(from, why, 0)
    PROVE  OrderInv'
  BY DEF Return, Go, OrderInv, Assembled, Merging

LEMMA OrderProxies == ASSUME Inv, Inv', MergeInv, OrderInv, Proxies PROVE OrderInv'
<1>1. PICK m : /\ m = MergeNamedList(merged.proxies, documents[cursor].proxies, FALSE)
               /\ Section("proxies", "providers", m, [merged EXCEPT !.proxies = m.value])
  BY DEF Proxies
<1>2. pc = "proxies" /\ UNCHANGED <<remote, config, cursor>>
  BY DEF Proxies, Section
<1>3. /\ "proxies" \in DOMAIN merged /\ documents[cursor] = remote[cursor]
      /\ cursor \in Sources
  BY <1>2, OrderSoFar DEF Ordered
<1>4. CASE m.ok
  <2>1. pc' = "providers" /\ merged' = [merged EXCEPT !["proxies"] = m.value]
    BY <1>1, <1>4 DEF Section, Go
  <2>2. KeepsOrder(InSequence("proxies", AsSlice(m.value)),
                   Served("proxies", cursor - 1) \o Entries(remote[cursor], "proxies"))
    <3>1. m = MergeNamedList(merged["proxies"], remote[cursor]["proxies"], "proxies" = "groups")
      BY <1>1, <1>3
    <3> QED BY <1>2, <1>4, <3>1, OrderNamedList
  <2>3. /\ Count("proxies")' = cursor
        /\ \A other \in Ordered \ {"proxies"} : Count(other)' = Count(other)
    BY <1>2, <2>1 DEF Ordered, Count, Past
  <2>4. cursor' \in {cursor, cursor + 1} /\ cursor' \in 1 .. N + 1
    BY <1>2, <1>3, SourceAssumption DEF Sources
  <2> QED BY <1>2, <1>3, <2>1, <2>2, <2>3, <2>4, OrderSection DEF Ordered
<1>5. CASE ~m.ok
  BY <1>1, <1>5, OrderRefused DEF Section
<1> QED BY <1>4, <1>5

LEMMA OrderProviders == ASSUME Inv, Inv', MergeInv, OrderInv, Providers PROVE OrderInv'
<1>1. PICK m : Section("providers", "groups", m, [merged EXCEPT !.providers = m.value])
  BY DEF Providers
<1>2. pc = "providers" /\ UNCHANGED <<remote, config, cursor>>
  BY DEF Providers, Section
<1>3. Assembled /\ result = "none"
  BY <1>2, UpToCursor DEF Assembled, Merging, Lists
<1>4. CASE m.ok
  <2>1. /\ pc' = "groups" /\ UNCHANGED result
        /\ merged' = [merged EXCEPT !.providers = m.value]
    BY <1>1, <1>4 DEF Section, Go
  <2>2. /\ "settings" \in DOMAIN merged' /\ merged'.settings = merged.settings
        /\ \A section \in Ordered : merged'[section] = merged[section]
    BY <1>3, <2>1 DEF OrderInv, Ordered
  <2>3. \A section \in Ordered : Count(section)' = Count(section)
    BY <1>2, <2>1 DEF Ordered, Count, Past
  <2>4. \A section \in Ordered : InOrder(section)'
    BY <1>2, <1>3, <2>2, <2>3, OrderUntouched DEF OrderInv
  <2> QED BY <1>2, <1>3, <2>2, <2>4 DEF OrderInv
<1>5. CASE ~m.ok
  BY <1>1, <1>5, OrderRefused DEF Section
<1> QED BY <1>4, <1>5

LEMMA OrderGroups == ASSUME Inv, Inv', MergeInv, OrderInv, Groups PROVE OrderInv'
<1>1. PICK m : /\ m = MergeNamedList(merged.groups, documents[cursor].groups, TRUE)
               /\ Section("groups", "rules", m, [merged EXCEPT !.groups = m.value])
  BY DEF Groups
<1>2. pc = "groups" /\ UNCHANGED <<remote, config, cursor>>
  BY DEF Groups, Section
<1>3. /\ "groups" \in DOMAIN merged /\ documents[cursor] = remote[cursor]
      /\ cursor \in Sources
  BY <1>2, OrderSoFar DEF Ordered
<1>4. CASE m.ok
  <2>1. pc' = "rules" /\ merged' = [merged EXCEPT !["groups"] = m.value]
    BY <1>1, <1>4 DEF Section, Go
  <2>2. KeepsOrder(InSequence("groups", AsSlice(m.value)),
                   Served("groups", cursor - 1) \o Entries(remote[cursor], "groups"))
    <3>1. m = MergeNamedList(merged["groups"], remote[cursor]["groups"], "groups" = "groups")
      BY <1>1, <1>3
    <3> QED BY <1>2, <1>4, <3>1, OrderNamedList
  <2>3. /\ Count("groups")' = cursor
        /\ \A other \in Ordered \ {"groups"} : Count(other)' = Count(other)
    BY <1>2, <2>1 DEF Ordered, Count, Past
  <2>4. cursor' \in {cursor, cursor + 1} /\ cursor' \in 1 .. N + 1
    BY <1>2, <1>3, SourceAssumption DEF Sources
  <2> QED BY <1>2, <1>3, <2>1, <2>2, <2>3, <2>4, OrderSection DEF Ordered
<1>5. CASE ~m.ok
  BY <1>1, <1>5, OrderRefused DEF Section
<1> QED BY <1>4, <1>5

LEMMA OrderRules == ASSUME Inv, Inv', MergeInv, OrderInv, Rules PROVE OrderInv'
<1>1. PICK m : /\ m = MergeRules(merged.rules, documents[cursor].rules)
               /\ Section("rules", "next", m, [merged EXCEPT !.rules = m.value])
  BY DEF Rules
<1>2. pc = "rules" /\ UNCHANGED <<remote, config>> /\ cursor' = cursor + 1
  BY DEF Rules, Section
<1>3. /\ "rules" \in DOMAIN merged /\ documents[cursor] = remote[cursor]
      /\ AsSlice(merged.rules) \in Seq(Rule) /\ AsSlice(remote[cursor].rules) \in Seq(Rule)
      /\ KeepsOrder(Prints(AsSlice(merged.rules)), Served("rules", cursor - 1))
      /\ Served("rules", cursor - 1) \in Seq({Printed(r) : r \in Rule})
      /\ cursor \in Sources
  BY <1>2, OrderSoFar DEF Ordered, Entry, EntryKey, Entries, InSequence
<1>4. /\ m.ok
      /\ Prints(AsSlice(m.value)) =
             AppendNew(Prints(AsSlice(merged.rules)), Prints(AsSlice(remote[cursor].rules)))
  <2>1. m = MergeRules(merged.rules, remote[cursor].rules)
    BY <1>1, <1>3
  <2> QED BY <1>3, <2>1, RulesMerge
<1>5. pc' = "next" /\ merged' = [merged EXCEPT !["rules"] = m.value]
  BY <1>1, <1>4 DEF Section, Go
<1>6. KeepsOrder(InSequence("rules", AsSlice(m.value)),
                 Served("rules", cursor - 1) \o Entries(remote[cursor], "rules"))
  <2>1. /\ Prints(AsSlice(merged.rules)) \in Seq({Printed(r) : r \in Rule})
        /\ Prints(AsSlice(remote[cursor].rules)) \in Seq({Printed(r) : r \in Rule})
    BY <1>3, PrintsAre
  <2>2. KeepsOrder(Prints(AsSlice(m.value)),
                   Served("rules", cursor - 1) \o Prints(AsSlice(remote[cursor].rules)))
    BY <1>3, <1>4, <2>1, AppendNewKeepsOrder
  <2> QED BY <2>2 DEF InSequence, Entries
<1>7. /\ Count("rules")' = cursor
      /\ \A other \in Ordered \ {"rules"} : Count(other)' = Count(other)
  BY <1>2, <1>3, <1>5, SourceAssumption DEF Ordered, Count, Past, Sources
<1>8. cursor' \in {cursor, cursor + 1} /\ cursor' \in 1 .. N + 1
  BY <1>2, <1>3, SourceAssumption DEF Sources
<1> QED BY <1>2, <1>3, <1>5, <1>6, <1>7, <1>8, OrderSection DEF Ordered

\* The other steps leave the sections alone.
LEMMA OrderKept ==
    ASSUME OrderInv, UNCHANGED <<remote, config, cursor>>, Assembled' => Assembled,
           Assembled =>
               \A section \in Ordered \cup {"settings"} : merged'[section] = merged[section],
           "settings" \in DOMAIN merged => "settings" \in DOMAIN merged',
           \A section \in Ordered : Count(section)' = Count(section)
    PROVE  OrderInv'
<1> SUFFICES ASSUME Assembled' PROVE OrderInv'
  BY DEF OrderInv
<1>1. /\ cursor \in 2 .. N + 1 /\ "settings" \in DOMAIN merged
      /\ merged.settings = remote[1].settings /\ \A section \in Ordered : InOrder(section)
  BY DEF OrderInv
<1>2. \A section \in Ordered : InOrder(section)'
  BY <1>1, OrderUntouched
<1>3. merged'.settings = merged.settings
  OBVIOUS
<1> QED BY <1>1, <1>2, <1>3 DEF OrderInv

LEMMA OrderNext == ASSUME Inv, Inv', MergeInv, OrderInv, [Next]_vars PROVE OrderInv'
<1>1. CASE ReadSecrets \/ Convert \/ \E i \in Sources : Fetch(i)
  <2>1. pc' \notin Merging \cup {"overlay"} \/ config.converter
    BY <1>1
    DEF ReadSecrets, Convert, Fetch, Return, Go, answer, Inv, Stages, Gathered, Merging
  <2>2. result' # "ok" /\ UNCHANGED config
    BY <1>1
    DEF ReadSecrets, Convert, Fetch, Return, Go, answer, Inv, Stages, Gathered, Merging
  <2> QED BY <2>1, <2>2 DEF OrderInv, Assembled
<1>2. CASE NextDocument
  <2>1. /\ UNCHANGED <<remote, config, merged, cursor, result>>
        /\ pc = "next" /\ pc' \in {"proxies", "check"}
    BY <1>2 DEF NextDocument, Go, answer
  <2>2. \A section \in Ordered : Count(section)' = Count(section)
    BY <2>1 DEF Ordered, Count, Past
  <2>3. Assembled' => Assembled
    BY <2>1 DEF Assembled, Merging
  <2> QED BY <2>1, <2>2, <2>3, OrderKept
<1>3. CASE Check
  <2>1. CASE HasContent(merged) /\ Go("check", "overlay") /\ UNCHANGED <<result, culprit>>
    <3>1. /\ UNCHANGED <<remote, config, merged, cursor, result>>
          /\ pc = "check" /\ pc' = "overlay"
      BY <1>3, <2>1 DEF Check, Go
    <3>2. \A section \in Ordered : Count(section)' = Count(section)
      BY <3>1 DEF Ordered, Count, Past
    <3>3. Assembled' => Assembled
      BY <3>1 DEF Assembled, Merging
    <3> QED BY <3>1, <3>2, <3>3, OrderKept
  <2>2. CASE ~HasContent(merged) /\ Return("check", "empty", 0)
    BY <2>2, OrderRefused
  <2> QED BY <1>3, <2>1, <2>2 DEF Check
<1>4. CASE Overlay
  <2>1. /\ pc = "overlay" /\ pc' = "returned" /\ UNCHANGED <<remote, config, cursor>>
        /\ merged' = Overlaid(merged)
    BY <1>4 DEF Overlay, Go, Return
  <2>2. Assembled =>
            \A section \in Ordered \cup {"settings"} : merged'[section] = merged[section]
    <3>1. Assembled => Ordered \cup {"settings"} \subseteq DOMAIN merged
      BY DEF MergeInv, Contents, OrderInv, Ordered, Lists
    <3> QED BY <2>1, <3>1 DEF Overlaid, Ordered
  <2>3. "settings" \in DOMAIN merged => "settings" \in DOMAIN merged'
    BY <2>1 DEF Overlaid
  <2>4. \A section \in Ordered : Count(section)' = Count(section)
    BY <2>1 DEF Ordered, Count, Past
  <2>5. Assembled' => Assembled
    BY <2>1 DEF Assembled
  <2> QED BY <2>1, <2>2, <2>3, <2>4, <2>5, OrderKept
<1>5. CASE Cancel \/ UNCHANGED vars
  <2>1. UNCHANGED <<remote, config, pc, merged, cursor, result>>
    BY <1>5 DEF Cancel, vars, answer
  <2>2. (\A section \in Ordered : Count(section)' = Count(section)) /\ (Assembled' => Assembled)
    BY <2>1 DEF Ordered, Count, Past, Assembled
  <2> QED BY <2>1, <2>2, OrderKept
<1> QED
  BY <1>1, <1>2, <1>3, <1>4, <1>5, OrderCollect, OrderProxies, OrderProviders, OrderGroups,
     OrderRules
  DEF Next, BuildStep

LEMMA OrderAlways == Spec => [](Inv /\ MergeInv /\ OrderInv)
<1>1. Init => Inv /\ MergeInv /\ OrderInv
  BY InvInit, MergeInit, OrderInit
<1>2. Inv /\ MergeInv /\ OrderInv /\ [Next]_vars => (Inv /\ MergeInv /\ OrderInv)'
  BY InvNext, MergeNext, OrderNext
<1> QED BY <1>1, <1>2, PTL DEF Spec

\* The order of a list seen from the first places of its entries.
LEMMA FirstPlace ==
    ASSUME NEW X, NEW list \in Seq(X), NEW x \in ToSet(list)
    PROVE  /\ FirstIn(list, x) \in 1 .. Len(list) /\ list[FirstIn(list, x)] = x
           /\ \A j \in 1 .. Len(list) : list[j] = x => FirstIn(list, x) <= j
<1> DEFINE I == {i \in 1 .. Len(list) : list[i] = x}
<1>1. I \in SUBSET Nat /\ I # {}
  BY DEF ToSet
<1>2. \E m \in I : \A i \in I : m <= i
  <2> HIDE DEF I
  <2> QED BY <1>1, LeastNumber
<1>3. FirstIn(list, x) = Min(I)
  BY <1>1 DEF FirstIn, SelectInSeq
<1>4. Min(I) \in I /\ \A i \in I : Min(I) <= i
  <2> HIDE DEF I
  <2> QED BY <1>2 DEF Min
<1> QED BY <1>3, <1>4

LEMMA InOrderOfIs ==
    ASSUME NEW X, NEW list \in Seq(X), NEW all \in Seq(X), KeepsOrder(list, all)
    PROVE  InOrderOf(list, all)
<1> SUFFICES ASSUME NEW x \in ToSet(list), NEW y \in ToSet(list),
                    FirstIn(list, x) < FirstIn(list, y)
             PROVE  FirstIn(all, x) < FirstIn(all, y)
  BY DEF InOrderOf, KeepsOrder
<1>1. x \in ToSet(all) /\ y \in ToSet(all)
  BY DEF KeepsOrder
<1>2. /\ FirstIn(list, x) \in 1 .. Len(list) /\ list[FirstIn(list, x)] = x
      /\ FirstIn(list, y) \in 1 .. Len(list)
      /\ \A j \in 1 .. Len(list) : list[j] = y => FirstIn(list, y) <= j
  BY FirstPlace
<1>3. /\ FirstIn(all, x) \in 1 .. Len(all) /\ FirstIn(all, y) \in 1 .. Len(all)
      /\ all[FirstIn(all, y)] = y
      /\ \A j \in 1 .. Len(all) : all[j] = x => FirstIn(all, x) <= j
  BY <1>1, FirstPlace
<1>4. Precedes(list, x, y)
  <2>1. \A j \in 1 .. FirstIn(list, x) : list[j] # y
    BY <1>2
  <2> QED BY <1>2, <2>1 DEF Precedes
<1>5. PICK i \in 1 .. Len(all) : all[i] = x /\ \A j \in 1 .. i : all[j] # y
  BY <1>4 DEF KeepsOrder, Precedes
<1>6. FirstIn(all, x) <= i
  BY <1>3, <1>5
<1>7. ~(FirstIn(all, y) <= i)
  BY <1>3, <1>5
<1> QED BY <1>3, <1>6, <1>7

-----------------------------------------------------------------------------
(***************************************************************************)
(* The theorems.                                                           *)
(***************************************************************************)

\* Type correctness.
THEOREM Typing == Spec => []TypeOK
<1>1. Inv => TypeOK
  BY DEF Inv
<1> QED BY <1>1, InvAlways, PTL

\* Build returns only after the goroutine of every source has ended.
THEOREM AnswerWaits == Spec => []NoFetchOutlivesBuild
<1>1. Inv => NoFetchOutlivesBuild
  BY DEF Inv, Gathered, NoFetchOutlivesBuild
<1> QED BY <1>1, InvAlways, PTL

\* A candidate has the documents of all sources, and which error is reported
\* does not depend on the order of the answers.
THEOREM ErrorIsDeterministic == Spec => []AllOrNothing
<1>1. Inv => AllOrNothing
  <2> SUFFICES ASSUME Inv, ~config.converter, pc = "returned" PROVE
        /\ result \in {"ok", "conflict", "malformed", "empty"} => documents = remote
        /\ result = "fetch" =>
               failed[culprit] /\ \A i \in 1 .. culprit - 1 : documents[i] = remote[i]
    BY DEF AllOrNothing
  <2>1. ASSUME result \in {"ok", "conflict", "malformed", "empty"} PROVE documents = remote
    <3>1. \A i \in Sources : documents[i] = remote[i]
      BY <2>1 DEF Inv, Gathered, Slots
    <3> QED BY <3>1 DEF Inv, TypeOK
  <2>2. ASSUME result = "fetch"
        PROVE  failed[culprit] /\ \A i \in 1 .. culprit - 1 : documents[i] = remote[i]
    <3>1. \A i \in 1 .. culprit - 1 : i \in Sources
      BY <2>2, SourceAssumption DEF Inv, Gathered, Sources
    <3> QED BY <2>2, <3>1 DEF Inv, Gathered, Slots
  <2> QED BY <2>1, <2>2
<1> QED BY <1>1, InvAlways, PTL

\* Whatever lists, maps or other values the sources serve, a candidate has every
\* proxy and provider of a section of the right type as it was, and every rule and
\* every member of a group as it prints.
THEOREM MergeKeepsEntries == Spec => []EntriesSurvive
<1>1. Inv /\ MergeInv => EntriesSurvive
  <2> SUFFICES ASSUME Inv, MergeInv, Built, NEW i \in Sources PROVE
        /\ ToSet(AsSlice(remote[i].proxies)) \subseteq ToSet(AsSlice(merged.proxies))
        /\ PrintsIn(remote[i].rules) \subseteq PrintsIn(merged.rules)
        /\ \A name \in DOMAIN AsMap(remote[i].providers) :
              /\ name \in DOMAIN AsMap(merged.providers)
              /\ AsMap(merged.providers)[name] = AsMap(remote[i].providers)[name]
        /\ \A g \in ToSet(AsSlice(remote[i].groups)) :
              \E h \in ToSet(AsSlice(merged.groups)) :
                  /\ h.name = g.name /\ h.body = g.body
                  /\ PrintsIn(g.members) \subseteq PrintsIn(h.members)
    BY DEF EntriesSurvive
  <2>1. /\ ProxiesMerged /\ ProvidersMerged /\ GroupsMerged /\ RulesMerged
        /\ \A section \in Lists : In(section) = Sources
    BY MergedInTheEnd DEF Built
  <2>2. \A X : \A list \in Seq(X) : \A k \in 1 .. Len(list) : list[k] \in ToSet(list)
    BY DEF ToSet
  <2>3. ASSUME NEW p \in ToSet(AsSlice(remote[i].proxies))
        PROVE  p \in ToSet(AsSlice(merged.proxies))
    <3>1. PICK k \in 1 .. Len(AsSlice(merged.proxies)) :
              Covers(AsSlice(merged.proxies)[k], p, FALSE)
      BY <2>1, <2>3 DEF ProxiesMerged, MergedList, Lists
    <3> QED BY <2>1, <2>2, <3>1 DEF Covers, ProxiesMerged
  <2>4. ASSUME NEW g \in ToSet(AsSlice(remote[i].groups))
        PROVE  \E h \in ToSet(AsSlice(merged.groups)) :
                  /\ h.name = g.name /\ h.body = g.body
                  /\ PrintsIn(g.members) \subseteq PrintsIn(h.members)
    <3>1. PICK k \in 1 .. Len(AsSlice(merged.groups)) : Covers(AsSlice(merged.groups)[k], g, TRUE)
      BY <2>1, <2>4 DEF GroupsMerged, MergedList, Lists
    <3> QED BY <2>1, <2>2, <3>1 DEF Covers, GroupsMerged
  <2>5. PrintsIn(remote[i].rules) \subseteq PrintsIn(merged.rules)
    BY <2>1 DEF RulesMerged, Lists
  <2>6. \A name \in DOMAIN AsMap(remote[i].providers) :
            /\ name \in DOMAIN AsMap(merged.providers)
            /\ AsMap(merged.providers)[name] = AsMap(remote[i].providers)[name]
    BY <2>1 DEF ProvidersMerged, Lists
  <2> QED BY <2>3, <2>4, <2>5, <2>6
<1> QED BY <1>1, MergeAlways, PTL

\* Every section of a candidate is in the order in which its entries first occur
\* in the documents, one source after the other; other keys come from the first.
THEOREM MergeFollowsTheList == Spec => []FollowsListOrder
<1>1. Inv /\ MergeInv /\ OrderInv => FollowsListOrder
  <2> SUFFICES ASSUME Inv, MergeInv, OrderInv, Built PROVE
        /\ InOrderOf(AsSlice(merged.proxies),
                     FlattenSeq([i \in Sources |-> AsSlice(remote[i].proxies)]))
        /\ InOrderOf(Prints(AsSlice(merged.rules)),
                     FlattenSeq([i \in Sources |-> Prints(AsSlice(remote[i].rules))]))
        /\ InOrderOf(Names(AsSlice(merged.groups)),
                     FlattenSeq([i \in Sources |-> Names(AsSlice(remote[i].groups))]))
        /\ merged.settings = remote[1].settings
    BY DEF FollowsListOrder
  <2>1. Assembled /\ ~config.converter /\ result = "ok" /\ cursor = N + 1 /\ pc = "returned"
    BY DEF Built, Assembled, MergeInv, AllMerged, Inv, Stages
  <2>2. /\ \A i \in Sources : remote[i] \in Documents
        /\ ProxiesMerged /\ GroupsMerged /\ RulesMerged
    BY <2>1, MergedInTheEnd
  <2>3. ASSUME NEW section \in Ordered
        PROVE  KeepsOrder(Entries(merged, section), Served(section, N))
               /\ Served(section, N) \in Seq(EntryKey(section))
    <3>1. Count(section) = N
      BY <2>1, SourceAssumption DEF Ordered, Count, Past
    <3>2. InOrder(section)
      BY <2>1 DEF OrderInv
    <3> DEFINE lists == [i \in 1 .. N |-> Entries(remote[i], section)]
    <3>3. lists \in [1 .. N -> Seq(EntryKey(section))]
      BY <2>2, EntriesAre DEF Sources
    <3>4. FlattenSeq(lists) \in Seq(EntryKey(section))
      <4> HIDE DEF lists
      <4>1. PICK f \in [1 .. N -> Seq(EntryKey(section))] : Flattens(f, lists, N)
        BY <3>3, SourceAssumption, FlattenIs
      <4> QED BY <4>1, SourceAssumption DEF Flattens
    <3> QED BY <3>1, <3>2, <3>4 DEF InOrder, Served
  <2>4. /\ Entries(merged, "proxies") = AsSlice(merged.proxies)
        /\ Entries(merged, "rules") = Prints(AsSlice(merged.rules))
        /\ Entries(merged, "groups") = Names(AsSlice(merged.groups))
    BY <2>2, KeysAre DEF Entries, InSequence, Keys, Key, Names, ProxiesMerged
  <2>5. ASSUME NEW i \in Sources
        PROVE  /\ Entries(remote[i], "proxies") = AsSlice(remote[i].proxies)
               /\ Entries(remote[i], "rules") = Prints(AsSlice(remote[i].rules))
               /\ Entries(remote[i], "groups") = Names(AsSlice(remote[i].groups))
    <3>1. AsSlice(remote[i].proxies) \in Seq(Proxy)
      BY <2>2, <2>5, DocumentShape
    <3>2. Keys(AsSlice(remote[i].proxies), FALSE) = AsSlice(remote[i].proxies)
      BY <3>1, KeysAre
    <3> QED BY <3>2 DEF Entries, InSequence, Keys, Key, Names
  <2>6. /\ Served("proxies", N) = FlattenSeq([i \in Sources |-> AsSlice(remote[i].proxies)])
        /\ Served("rules", N) = FlattenSeq([i \in Sources |-> Prints(AsSlice(remote[i].rules))])
        /\ Served("groups", N) =
               FlattenSeq([i \in Sources |-> Names(AsSlice(remote[i].groups))])
    <3>1. /\ [i \in 1 .. N |-> Entries(remote[i], "proxies")] =
                 [i \in Sources |-> AsSlice(remote[i].proxies)]
          /\ [i \in 1 .. N |-> Entries(remote[i], "rules")] =
                 [i \in Sources |-> Prints(AsSlice(remote[i].rules))]
          /\ [i \in 1 .. N |-> Entries(remote[i], "groups")] =
                 [i \in Sources |-> Names(AsSlice(remote[i].groups))]
      BY <2>5 DEF Sources
    <3> QED BY <3>1 DEF Served
  <2>7. ASSUME NEW section \in Ordered
        PROVE  InOrderOf(Entries(merged, section), Served(section, N))
    <3>1. AsSlice(merged[section]) \in Seq(Entry(section))
      BY <2>2 DEF Ordered, Entry, ProxiesMerged, GroupsMerged, RulesMerged
    <3>2. Entries(merged, section) \in Seq(EntryKey(section))
      BY <3>1, InSequenceIs DEF Entries
    <3> QED BY <2>3, <3>2, InOrderOfIs
  <2> QED BY <2>1, <2>4, <2>6, <2>7 DEF OrderInv, Ordered
<1> QED BY <1>1, OrderAlways, PTL

\* The merge itself never makes a name ambiguous.
THEOREM MergeKeepsNamesUnique == Spec => []NamesStayUnique
<1>1. Inv /\ MergeInv => NamesStayUnique
  <2> SUFFICES ASSUME Inv, MergeInv, Built PROVE
        /\ UniqueBeyond(AsSlice(merged.proxies), AsSlice(remote[1].proxies))
        /\ UniqueBeyond(AsSlice(merged.groups), AsSlice(remote[1].groups))
    BY DEF NamesStayUnique
  <2>1. ProxiesMerged /\ GroupsMerged /\ 1 \in Sources
        /\ \A i \in Sources : remote[i] \in Documents
    BY MergedInTheEnd, SourceAssumption DEF Built, Sources
  <2>2. ASSUME NEW E, NEW list \in Seq(E), NEW first \in Seq(E), NEW seen, NEW mm \in BOOLEAN,
               MergedList(list, first, seen, mm)
        PROVE  UniqueBeyond(list, first)
    <3>1. Len(list) \in Nat /\ DOMAIN list = 1 .. Len(list) /\ Len(first) \in Nat
      OBVIOUS
    <3>2. ASSUME NEW a \in DOMAIN list, NEW b \in DOMAIN list, a < b,
                 list[a].name = list[b].name
          PROVE  b <= Len(first)
      <4>1. a \in 1 .. b - 1 /\ b \in 1 .. Len(list)
        BY <3>1, <3>2
      <4>2. \A d \in Len(first) + 1 .. Len(list) : \A c \in 1 .. d - 1 : list[c].name # list[d].name
        BY <2>2 DEF MergedList, Grows
      <4>3. b \notin Len(first) + 1 .. Len(list)
        BY <3>2, <4>1, <4>2
      <4> QED BY <3>1, <4>1, <4>3
    <3> QED BY <3>2 DEF UniqueBeyond
  <2>3. AsSlice(remote[1].proxies) \in Seq(Proxy) /\ AsSlice(remote[1].groups) \in Seq(GroupEntry)
    BY <2>1, DocumentShape
  <2> QED BY <2>1, <2>2, <2>3 DEF ProxiesMerged, GroupsMerged
<1> QED BY <1>1, MergeAlways, PTL

\* Each refusal can be put down to what the sources serve.
THEOREM RefusalIsJustified == Spec => []RefusedForAReason
<1>1. Inv /\ MergeInv => RefusedForAReason
  BY DEF MergeInv
<1> QED BY <1>1, MergeAlways, PTL

==============================================================================
