-------------------------------- MODULE Merge --------------------------------
(***************************************************************************)
(* internal/subscription: how decoded Clash documents are merged, one      *)
(* section at a time, each document into the result of those before it.    *)
(*                                                                         *)
(* A document keeps the sections the merge looks at: proxies, providers,   *)
(* groups and rules, and fields of Subscription for every other key.  The  *)
(* decoder does not check what a section holds: it may be a list, a map or *)
(* something else (nothing at all, too), whatever the merge expects there. *)
(* The same goes for the members of a group.  A proxy is a name and a      *)
(* body; a group a name, a body and members; a rule or a member a Go value *)
(* of some type with its printed text.                                     *)
(***************************************************************************)
EXTENDS SequencesExt

CONSTANTS
    NoName,    \* the name of an entry that has none
    Conflict   \* what two entries of one name become when they may not merge

-----------------------------------------------------------------------------
(***************************************************************************)
(* What a key of a document holds.                                         *)
(***************************************************************************)
List(items) == [kind |-> "list", items |-> items]
Map(entries) == [kind |-> "map", entries |-> entries]

\* The type assertions of Go: a value of another type reads as an empty one.
AsSlice(v) == IF v.kind = "list" THEN v.items ELSE <<>>
AsMap(v) == IF v.kind = "map" THEN v.entries ELSE <<>>

HasNonEmpty(v) == AsSlice(v) # <<>> \/ DOMAIN AsMap(v) # {}

-----------------------------------------------------------------------------
(***************************************************************************)
(* Lists of named entries.                                                 *)
(***************************************************************************)

\* The value of a merge, or its failure.
Merged(v) == [ok |-> TRUE, value |-> v]
Failure(v, why) == [ok |-> FALSE, value |-> v, why |-> why]

\* The index maps a name to its last position.  Deviation: the last entry is
\* not indexed.
PositionOffByOne(list, name) ==
    SelectLastInSeq(SubSeq(list, 1, Len(list) - 1), LAMBDA e : e.name = name)
Position(list, name) == SelectLastInSeq(list, LAMBDA e : e.name = name)

Nameless(list) == \E i \in DOMAIN list : list[i].name = NoName

\* fmt.Sprint
Printed(v) == v.text
Prints(list) == [i \in DOMAIN list |-> Printed(list[i])]
PrintsIn(v) == ToSet(Prints(AsSlice(v)))
IsSeen(list, item) == Printed(item) \in ToSet(Prints(list))

\* Deviation: new items go first.
PrependUnseen(left, right) ==
    FoldLeft(LAMBDA list, item : IF IsSeen(list, item) THEN list ELSE <<item>> \o list,
             left, right)

\* The items of `left`, then those of `right` that print as none before them.
AppendUnseen(left, right) ==
    FoldLeft(LAMBDA list, item : IF IsSeen(list, item) THEN list ELSE Append(list, item),
             left, right)

\* Deviations: the members are compared as well; the left ones are kept.
MergeGroupStrict(left, right) == Conflict
MergeGroupLeft(left, right) == IF left.body # right.body THEN Conflict ELSE left

\* Groups merge when they differ in their members only, and have a list of
\* members then, whatever these were.
MergeGroup(left, right) ==
    IF left.body # right.body THEN Conflict
    ELSE [left EXCEPT !.members =
             List(AppendUnseen(AsSlice(left.members), AsSlice(right.members)))]

\* One incoming item: added when its name is new, dropped when it is the same,
\* else merged with the entry that has the name, if entries of this list may be.
MergeItem(acc, item, mergeMembers) ==
    LET position == Position(acc.value, item.name)
        both == IF mergeMembers THEN MergeGroup(acc.value[position], item) ELSE Conflict
    IN  IF ~acc.ok THEN acc
        ELSE IF item.name = NoName THEN Failure(acc.value, "malformed")
        ELSE IF position = 0 THEN Merged(Append(acc.value, item))
        ELSE IF acc.value[position] = item THEN acc
        ELSE IF both = Conflict THEN Failure(acc.value, "conflict")
        ELSE Merged([acc.value EXCEPT ![position] = both])

MergeLists(existing, incoming, mergeMembers) ==
    IF Nameless(existing) THEN Failure(existing, "malformed")
    ELSE FoldLeft(LAMBDA acc, item : MergeItem(acc, item, mergeMembers), Merged(existing), incoming)

\* mergeNamedList: the existing list is looked at only when there is something
\* to merge.  An incoming section that is no list is ignored, an existing one
\* replaced.
MergeNamedList(target, source, mergeMembers) ==
    IF AsSlice(source) = <<>> THEN Merged(target)
    ELSE LET m == MergeLists(AsSlice(target), AsSlice(source), mergeMembers)
         IN  [m EXCEPT !.value = List(@)]

-----------------------------------------------------------------------------
\* mergeProviderMap: a name may come from one document only.
MergeProviders(target, source) ==
    LET existing == AsMap(target)
        incoming == AsMap(source)
    IN  IF DOMAIN incoming = {} THEN Merged(target)
        ELSE IF DOMAIN existing \cap DOMAIN incoming # {} THEN Failure(target, "conflict")
        ELSE Merged(Map([name \in DOMAIN existing \cup DOMAIN incoming |->
                            IF name \in DOMAIN existing THEN existing[name] ELSE incoming[name]]))

\* mergeRules: a rule is kept where it first occurs.  An empty list replaces what
\* is no list, too.
MergeRules(target, source) ==
    IF source.kind # "list" THEN Merged(target)
    ELSE Merged(List(AppendUnseen(AsSlice(target), AsSlice(source))))

\* The check that ends mergeDocuments takes lists and maps.
HasContent(document) ==
    \/ HasNonEmpty(document.proxies)
    \/ HasNonEmpty(document.providers)
    \/ HasNonEmpty(document.rules)

=============================================================================
