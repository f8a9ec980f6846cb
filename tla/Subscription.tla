----------------------------- MODULE Subscription -----------------------------
(***************************************************************************)
(* internal/subscription and internal/candidate: one call of Build.  The   *)
(* sources are fetched by goroutines of their own; when all have answered  *)
(* the documents are merged in the order of the configuration, a section   *)
(* of one document at a time, and the runtime settings of the operator are *)
(* laid over the result.  With a converter one request fetches everything. *)
(***************************************************************************)
EXTENDS Merge

CONSTANTS
    N,           \* enabled subscription sources, in the order of the file
    Documents,   \* what a source may serve
    Unusable,    \* an answer that is refused: HTML, too large, not YAML, ...
    NoDocument,  \* no document yet
    Operator     \* what mihomo.* sets

Sources == 1 .. N

ASSUME SourceAssumption == N \in Nat \ {0}  \* config.Validate

\* The groups that can be made of those that are served.
GroupEntry ==
    LET served == UNION {ToSet(AsSlice(d.groups)) : d \in Documents}
        members == UNION {ToSet(AsSlice(g.members)) : g \in served}
    IN  [name : {g.name : g \in served}, body : {g.body : g \in served},
         members : [kind : {"list"}, items : Seq(members)]
                       \cup {g.members : g \in {h \in served : h.members.kind # "list"}}]

\* A document has the sections, of any type each; its lists are sequences.
\* `runtime` stands for the keys the overlay always sets, `ui` for external-ui,
\* `settings` for every other key.
ASSUME DocumentAssumption ==
    /\ Documents \cap {Unusable, NoDocument} = {} /\ Unusable # NoDocument
    /\ \A d \in Documents :
          /\ {"proxies", "providers", "groups", "rules", "settings", "runtime", "ui"}
                 \subseteq DOMAIN d
          /\ AsSlice(d.proxies) \in Seq(ToSet(AsSlice(d.proxies)))
          /\ AsSlice(d.rules) \in Seq(ToSet(AsSlice(d.rules)))
          /\ AsSlice(d.groups) \in Seq(GroupEntry)
    /\ Conflict \notin GroupEntry

VARIABLES
    remote,     \* what each source serves
    config,     \* the configuration of the builder
    pc,         \* where Build is
    fetch,      \* the goroutine of each source
    documents,  \* documents[index]
    failed,     \* fetchErrors[index] # nil
    cancelled,  \* the caller's context is done
    merged,     \* the result of the merge so far
    cursor,     \* the document being merged
    result,     \* what Build returned
    culprit     \* the source an error names, 0 for none

fetching == <<fetch, documents, failed>>
answer == <<merged, cursor, result, culprit>>
vars == <<remote, config, pc, fetching, cancelled, answer>>

Reasons == {"secret", "headers", "fetch", "conflict", "malformed", "empty"}

\* Custom headers matter to Build itself only in converter mode; elsewhere a
\* forbidden one is a fetch that fails.
Init ==
    /\ remote \in [Sources -> Documents \cup {Unusable}]
    /\ \E converter, enforce, ui \in BOOLEAN :
          \E headers \in IF converter THEN SUBSET Sources ELSE {{}} :
              config = [converter |-> converter, enforce |-> enforce, ui |-> ui,
                        headers |-> headers]
    /\ pc = "secrets"
    /\ fetch = [i \in Sources |-> "unstarted"]
    /\ documents = [i \in Sources |-> NoDocument]
    /\ failed = [i \in Sources |-> FALSE]
    /\ cancelled = FALSE
    /\ merged = NoDocument
    /\ cursor = 0
    /\ result = "none"
    /\ culprit = 0

-----------------------------------------------------------------------------
Go(from, to) ==
    /\ pc = from
    /\ pc' = to

Return(from, why, source) ==
    /\ Go(from, "returned")
    /\ result' = why
    /\ culprit' = source

\* The first source in the order of the configuration.  Deviations: the last of
\* them; an index off by one.
LastOf(sources) == Max(sources)
FirstOffByOne(sources) == Min(sources) + 1
FirstOf(sources) == Min(sources)

\* URLs are read and checked one source after the other, then the goroutines
\* start, unless the converter does the work.
ReadSecrets ==
    /\ \/ \E i \in Sources : Return("secrets", "secret", i) /\ UNCHANGED fetch
       \/ /\ config.converter /\ config.headers # {}
          /\ Return("secrets", "headers", FirstOf(config.headers))
          /\ UNCHANGED fetch
       \/ /\ config.converter /\ config.headers = {}
          /\ Go("secrets", "convert")
          /\ UNCHANGED <<fetch, result, culprit>>
       \/ /\ ~config.converter
          /\ Go("secrets", "fetch")
          /\ fetch' = [i \in Sources |-> "running"]
          /\ UNCHANGED <<result, culprit>>
    /\ UNCHANGED <<remote, config, documents, failed, cancelled, merged, cursor>>

\* Deviation: a goroutine that fails does not count as done.
EndedWithoutDone(ok) == IF ok THEN "done" ELSE "running"
Ended(ok) == "done"   \* defer fetchGroup.Done()

\* fetch, do and decodeDocument: the whole request has a timeout, and a
\* cancelled context fails it.
Fetch(i) ==
    /\ fetch[i] = "running"
    /\ \/ /\ remote[i] # Unusable /\ ~cancelled
          /\ documents' = [documents EXCEPT ![i] = remote[i]]
          /\ fetch' = [fetch EXCEPT ![i] = Ended(TRUE)]
          /\ UNCHANGED failed
       \/ /\ failed' = [failed EXCEPT ![i] = TRUE]
          /\ fetch' = [fetch EXCEPT ![i] = Ended(FALSE)]
          /\ UNCHANGED documents
    /\ UNCHANGED <<remote, config, pc, cancelled, answer>>

Failures == {i \in Sources : failed[i]}

\* Deviation: the first error ends the wait.
WaitedForError == Failures # {} \/ \A i \in Sources : fetch[i] = "done"
Waited == \A i \in Sources : fetch[i] = "done"

Collect ==
    /\ Waited
    /\ \/ /\ Failures # {}
          /\ Return("fetch", "fetch", FirstOf(Failures))
          /\ UNCHANGED <<merged, cursor>>
       \/ /\ Failures = {}
          /\ Go("fetch", "next")
          /\ merged' = documents[1]
          /\ cursor' = 2
          /\ UNCHANGED <<result, culprit>>
    /\ UNCHANGED <<remote, config, fetching, cancelled>>

-----------------------------------------------------------------------------
(***************************************************************************)
(* mergeDocuments.                                                         *)
(***************************************************************************)
NextDocument ==
    /\ Go("next", IF cursor <= N THEN "proxies" ELSE "check")
    /\ UNCHANGED <<remote, config, fetching, cancelled, answer>>

\* One section of the document at the cursor.
Section(from, to, m, document) ==
    /\ \/ m.ok /\ Go(from, to) /\ merged' = document /\ UNCHANGED <<result, culprit>>
       \/ /\ ~m.ok
          /\ \E why \in {"conflict", "malformed"} : m.why = why /\ Return(from, why, 0)
          /\ UNCHANGED merged
    /\ UNCHANGED <<remote, config, fetching, cancelled>>

Proxies ==
    /\ pc = "proxies"
    /\ LET m == MergeNamedList(merged.proxies, documents[cursor].proxies, FALSE)
       IN  Section("proxies", "providers", m, [merged EXCEPT !.proxies = m.value])
    /\ UNCHANGED cursor

Providers ==
    /\ pc = "providers"
    /\ LET m == MergeProviders(merged.providers, documents[cursor].providers)
       IN  Section("providers", "groups", m, [merged EXCEPT !.providers = m.value])
    /\ UNCHANGED cursor

Groups ==
    /\ pc = "groups"
    /\ LET m == MergeNamedList(merged.groups, documents[cursor].groups, TRUE)
       IN  Section("groups", "rules", m, [merged EXCEPT !.groups = m.value])
    /\ UNCHANGED cursor

Rules ==
    /\ pc = "rules"
    /\ LET m == MergeRules(merged.rules, documents[cursor].rules)
       IN  Section("rules", "next", m, [merged EXCEPT !.rules = m.value])
    /\ cursor' = cursor + 1

Check ==
    /\ pc = "check"
    /\ \/ HasContent(merged) /\ Go("check", "overlay") /\ UNCHANGED <<result, culprit>>
       \/ ~HasContent(merged) /\ Return("check", "empty", 0)
    /\ UNCHANGED <<remote, config, fetching, cancelled, merged, cursor>>

-----------------------------------------------------------------------------
\* fetchConverted: one request for all sources, and its one document as it is.
Convert ==
    /\ \/ /\ ~cancelled
          /\ Go("convert", "overlay")
          /\ merged' \in Documents
          /\ UNCHANGED <<result, culprit>>
       \/ Return("convert", "fetch", 0) /\ UNCHANGED merged
    /\ UNCHANGED <<remote, config, fetching, cancelled, cursor>>

\* external-ui is set only where mihomo.external_ui is.
Overlaid(document) ==
    IF ~config.enforce THEN document
    ELSE [document EXCEPT !.runtime = Operator, !.ui = IF config.ui THEN Operator ELSE @]

\* Overlay.Build: the candidate Update writes.
Overlay ==
    /\ Return("overlay", "ok", 0)
    /\ merged' = Overlaid(merged)
    /\ UNCHANGED <<remote, config, fetching, cancelled, cursor>>

Cancel ==
    /\ pc # "returned" /\ ~cancelled
    /\ cancelled' = TRUE
    /\ UNCHANGED <<remote, config, pc, fetching, answer>>

BuildStep ==
    \/ ReadSecrets \/ Collect \/ NextDocument \/ Proxies \/ Providers \/ Groups
    \/ Rules \/ Check \/ Convert \/ Overlay

Next == BuildStep \/ Cancel \/ \E i \in Sources : Fetch(i)

Spec == Init /\ [][Next]_vars

\* Every request ends within subscription.request_timeout.
Fairness == WF_vars(BuildStep) /\ \A i \in Sources : WF_vars(Fetch(i))
FairSpec == Spec /\ Fairness

-----------------------------------------------------------------------------
(***************************************************************************)
(* Properties.                                                             *)
(***************************************************************************)

\* Every variable holds a value of the Go type it stands for.
TypeOK ==
    /\ remote \in [Sources -> Documents \cup {Unusable}]
    /\ config \in [converter : BOOLEAN, enforce : BOOLEAN, ui : BOOLEAN,
                   headers : SUBSET Sources]
    /\ fetch \in [Sources -> {"unstarted", "running", "done"}]
    /\ documents \in [Sources -> Documents \cup {NoDocument}]
    /\ failed \in [Sources -> BOOLEAN]
    /\ cancelled \in BOOLEAN
    /\ cursor \in 0 .. N + 1
    /\ result \in {"none", "ok"} \cup Reasons
    /\ culprit \in 0 .. N

\* No goroutine of a call outlives it: the answer waits for every source, also
\* when the first has failed already (subscription.go:94-109).
NoFetchOutlivesBuild == pc = "returned" => \A i \in Sources : fetch[i] # "running"

\* All or nothing: a candidate is built from the documents of all sources, and
\* the error names the first source that failed in the order of the
\* configuration, whichever answered first (subscription.go:110-114).
AllOrNothing ==
    ~config.converter /\ pc = "returned" =>
        /\ result \in {"ok", "conflict", "malformed", "empty"} => documents = remote
        /\ result = "fetch" =>
               failed[culprit] /\ \A i \in 1 .. culprit - 1 : documents[i] = remote[i]

Built == result = "ok" /\ ~config.converter

\* No entry is lost or overwritten in the merge: each proxy and provider that a
\* document has in a section of the type the merge reads is in the candidate as it
\* was, each rule and each group's member in its printed form
\* (subscription.go:247-362).
EntriesSurvive ==
    Built => \A i \in Sources :
        /\ ToSet(AsSlice(remote[i].proxies)) \subseteq ToSet(AsSlice(merged.proxies))
        /\ PrintsIn(remote[i].rules) \subseteq PrintsIn(merged.rules)
        /\ \A name \in DOMAIN AsMap(remote[i].providers) :
              /\ name \in DOMAIN AsMap(merged.providers)
              /\ AsMap(merged.providers)[name] = AsMap(remote[i].providers)[name]
        /\ \A g \in ToSet(AsSlice(remote[i].groups)) :
              \E h \in ToSet(AsSlice(merged.groups)) :
                  /\ h.name = g.name /\ h.body = g.body
                  /\ PrintsIn(g.members) \subseteq PrintsIn(h.members)

Names(list) == [i \in DOMAIN list |-> list[i].name]
FirstIn(list, x) == SelectInSeq(list, LAMBDA y : y = x)

\* The distinct entries of `list` are in `all`, and in the same order.
InOrderOf(list, all) ==
    \A x, y \in ToSet(list) :
        /\ x \in ToSet(all)
        /\ FirstIn(list, x) < FirstIn(list, y) => FirstIn(all, x) < FirstIn(all, y)

\* The merge is deterministic and follows the list of sources: every section is
\* in the order in which its entries first occur (config.example.yaml:97).
FollowsListOrder ==
    Built =>
        /\ InOrderOf(AsSlice(merged.proxies),
                     FlattenSeq([i \in Sources |-> AsSlice(remote[i].proxies)]))
        /\ InOrderOf(Prints(AsSlice(merged.rules)),
                     FlattenSeq([i \in Sources |-> Prints(AsSlice(remote[i].rules))]))
        /\ InOrderOf(Names(AsSlice(merged.groups)),
                     FlattenSeq([i \in Sources |-> Names(AsSlice(remote[i].groups))]))
        /\ merged.settings = remote[1].settings

\* The names that a list of the candidate repeats are repeated in the first source.
UniqueBeyond(list, first) ==
    \A a, b \in DOMAIN list : a < b /\ list[a].name = list[b].name => b <= Len(first)

\* A name occurs twice in the candidate only where the first source repeats it
\* (subscription.go:247-287).
NamesStayUnique ==
    Built =>
        /\ UniqueBeyond(AsSlice(merged.proxies), AsSlice(remote[1].proxies))
        /\ UniqueBeyond(AsSlice(merged.groups), AsSlice(remote[1].groups))

\* Two entries of one name that may not be merged.
Clash(i, j) ==
    \/ \E p \in ToSet(AsSlice(remote[i].proxies)), q \in ToSet(AsSlice(remote[j].proxies)) :
          p.name = q.name /\ p # q
    \/ \E g \in ToSet(AsSlice(remote[i].groups)), h \in ToSet(AsSlice(remote[j].groups)) :
          g.name = h.name /\ g.body # h.body
    \/ /\ i # j
       /\ DOMAIN AsMap(remote[i].providers) \cap DOMAIN AsMap(remote[j].providers) # {}

\* The document has something a client can use, where the merge reads it.
HasEntries(d) ==
    AsSlice(d.proxies) # <<>> \/ DOMAIN AsMap(d.providers) # {} \/ AsSlice(d.rules) # <<>>

\* Documents that could be merged are never refused (subscription.go:224-362).
RefusedForAReason ==
    /\ result = "conflict" => \E i, j \in Sources : Clash(i, j)
    /\ result = "malformed" =>
           \E i \in Sources :
               Nameless(AsSlice(remote[i].proxies)) \/ Nameless(AsSlice(remote[i].groups))
    /\ result = "empty" => \A i \in Sources : ~HasEntries(remote[i])

\* Build always returns: no error path leaves a source uncounted
\* (subscription.go:96-109).
BuildReturns == pc = "secrets" ~> pc = "returned"

=============================================================================
