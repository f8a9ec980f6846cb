------------------------------ MODULE StateStore ------------------------------
(***************************************************************************)
(* internal/state: the history of transactions.  Each guardian process     *)
(* reads state.json once, keeps the records in memory and writes all of    *)
(* them to a temporary file at every Append, which it syncs, renames over  *)
(* state.json and makes durable with a sync of the directory.              *)
(*                                                                         *)
(* Any of these calls can fail, a process can be killed between two of     *)
(* them, and the machine can lose power: then state.json is one of the     *)
(* versions it had since the directory was last synced.                    *)
(***************************************************************************)
EXTENDS Naturals, Sequences

CONSTANTS
    Processes,   \* guardian processes: `serve`, and the CLI beside it
    Retention,   \* storage.history_retention
    Written,     \* bound: records an earlier run may have left in the file
    MaxRecords,  \* bound: number of the last record
    MaxCrashes,  \* bound: kills and power failures
    NoFile,      \* state.json does not exist
    Torn         \* state.json holds data that never reached the disk

ASSUME RetentionAssumption == Retention \in Nat \ {0}  \* config.Validate
ASSUME FileAssumption == NoFile # Torn /\ NoFile \notin Seq(Nat) /\ Torn \notin Seq(Nat)
ASSUME BoundAssumption ==
    MaxRecords \in Nat /\ Written \in 0 .. MaxRecords /\ MaxCrashes \in Nat

\* One process at a time keeps the history: no CLI update runs beside `serve`.

SingleProcess == \A p, q \in Processes : p = q

VARIABLES
    pc,       \* where each process is in persistLocked
    history,  \* Store.data.History of each process, oldest first
    flushed,  \* the data of the process's temporary file are on the disk
    file,     \* what a reader of state.json sees
    disk,     \* what state.json may hold after a power failure
    next,     \* number of the next record
    acked,    \* records whose Append returned no error
    crashes   \* kills and power failures so far

vars == <<pc, history, flushed, file, disk, next, acked, crashes>>

Steps == {"closed", "idle", "create", "write", "sync", "rename", "syncdir"}

\* A record is its number: records are numbered in the order of their Append.
Records == 1 .. MaxRecords
Upto(n) == [i \in 1 .. n |-> i]

\* An earlier run may have kept more records than this one keeps.
Init ==
    /\ pc = [p \in Processes |-> "closed"]
    /\ history = [p \in Processes |-> <<>>]
    /\ flushed = [p \in Processes |-> FALSE]
    /\ \E n \in 0 .. Written :
          /\ file = IF n = 0 THEN NoFile ELSE Upto(n)
          /\ next = n + 1
          /\ acked = 1 .. n
    /\ disk = {file}
    /\ crashes = 0

-----------------------------------------------------------------------------
(***************************************************************************)
(* Open and Append.                                                        *)
(***************************************************************************)

\* Deviations: the oldest are kept; one too many is kept.
TrimFront(h) == IF Len(h) > Retention THEN SubSeq(h, 1, Retention) ELSE h
TrimOffByOne(h) ==
    IF Len(h) > Retention THEN SubSeq(h, Len(h) - Retention, Len(h)) ELSE h

\* The last Retention records.
Trim(h) ==
    IF Len(h) > Retention THEN SubSeq(h, Len(h) - Retention + 1, Len(h)) ELSE h

\* Deviation: a missing file leaves the list nil.
LoadNil(content) == content
Load(content) == IF content = NoFile THEN <<>> ELSE Trim(content)

\* A file that does not decode makes Open fail: the process does not start.
Open(p) ==
    /\ pc[p] = "closed" /\ file # Torn
    /\ pc' = [pc EXCEPT ![p] = "idle"]
    /\ history' = [history EXCEPT ![p] = Load(file)]
    /\ UNCHANGED <<flushed, file, disk, next, acked, crashes>>

\* Memory first; the lock is held until persistLocked returns, so neither a
\* second Append nor History runs in between.
AppendRecord(p) ==
    /\ pc[p] = "idle" /\ next <= MaxRecords
    /\ pc' = [pc EXCEPT ![p] = "create"]
    /\ history' = [history EXCEPT ![p] = Trim(Append(@, next))]
    /\ next' = next + 1
    /\ UNCHANGED <<flushed, file, disk, acked, crashes>>

\* From one step to the next, or out of Append with an error.
Step(p, from, to) ==
    /\ pc[p] = from
    /\ pc' = [pc EXCEPT ![p] = to]
    /\ UNCHANGED <<history, next, crashes>>

Create(p) ==
    /\ \E to \in {"write", "idle"} : Step(p, "create", to)
    /\ flushed' = [flushed EXCEPT ![p] = FALSE]
    /\ UNCHANGED <<file, disk, acked>>

\* Deviation: the file is closed without a sync.
AfterWriteClose == "rename"
AfterWrite == "sync"

Write(p) ==
    /\ \E to \in {AfterWrite, "idle"} : Step(p, "write", to)
    /\ UNCHANGED <<flushed, file, disk, acked>>

Sync(p) ==
    /\ \/ Step(p, "sync", "rename") /\ flushed' = [flushed EXCEPT ![p] = TRUE]
       \/ Step(p, "sync", "idle") /\ UNCHANGED flushed
    /\ UNCHANGED <<file, disk, acked>>

\* Deviation: Append returns at the rename.
AckedAtRename(p) == acked \cup {history[p][Len(history[p])]}
AckedAfterRename(p) == acked

\* Close, then the rename: until the directory is synced the disk may hold any
\* version since the last sync, or a file without its data.
Rename(p) ==
    /\ \/ /\ Step(p, "rename", "syncdir")
          /\ file' = history[p]
          /\ disk' = disk \cup (IF flushed[p] THEN {history[p]} ELSE {Torn})
          /\ acked' = AckedAfterRename(p)
       \/ Step(p, "rename", "idle") /\ UNCHANGED <<file, disk, acked>>
    /\ UNCHANGED flushed

SyncDirectory(p) ==
    /\ \/ /\ Step(p, "syncdir", "idle")
          /\ disk' = {file}
          /\ acked' = acked \cup {history[p][Len(history[p])]}
       \/ Step(p, "syncdir", "idle") /\ UNCHANGED <<disk, acked>>
    /\ UNCHANGED <<flushed, file>>

-----------------------------------------------------------------------------
\* A process is killed, or a CLI command ends.
Kill(p) ==
    /\ pc[p] # "closed" /\ crashes < MaxCrashes
    /\ pc' = [pc EXCEPT ![p] = "closed"]
    /\ history' = [history EXCEPT ![p] = <<>>]
    /\ crashes' = crashes + 1
    /\ UNCHANGED <<flushed, file, disk, next, acked>>

PowerFailure ==
    /\ crashes < MaxCrashes
    /\ pc' = [p \in Processes |-> "closed"]
    /\ history' = [p \in Processes |-> <<>>]
    /\ \E version \in disk : file' = version /\ disk' = {version}
    /\ crashes' = crashes + 1
    /\ UNCHANGED <<flushed, next, acked>>

Next ==
    \/ \E p \in Processes :
          \/ Open(p) \/ AppendRecord(p) \/ Create(p) \/ Write(p) \/ Sync(p)
          \/ Rename(p) \/ SyncDirectory(p) \/ Kill(p)
    \/ PowerFailure

Spec == Init /\ [][Next]_vars

-----------------------------------------------------------------------------
(***************************************************************************)
(* Properties.                                                             *)
(***************************************************************************)

Entries(h) == {h[i] : i \in DOMAIN h}
Ascending(h) == \A i, j \in DOMAIN h : i < j => h[i] < h[j]
Version == Seq(Records) \cup {NoFile, Torn}

\* Every variable holds a value of the Go type it stands for.
TypeOK ==
    /\ pc \in [Processes -> Steps]
    /\ history \in [Processes -> Seq(Records)]
    /\ flushed \in [Processes -> BOOLEAN]
    /\ file \in Version
    /\ disk \subseteq Version
    /\ next \in 1 .. MaxRecords + 1
    /\ acked \subseteq Records
    /\ crashes \in 0 .. MaxCrashes

\* The history a running process serves is never longer than the retention and
\* in the order of the transactions, whatever failed appends, restarts and
\* other processes did to the file it was read from (state.go:50-62).
HistoryIsRecent ==
    \A p \in Processes :
        /\ pc[p] # "closed" => Len(history[p]) <= Retention
        /\ Ascending(history[p])

\* Guardian always starts again: neither a kill nor a power failure can leave
\* a state.json that does not decode (state.go:44, 92-108).
FileAlwaysOpens == Torn \notin disk \cup {file}

\* h holds record r, or Retention records that are newer.
Covers(h, r) ==
    /\ h \notin {NoFile, Torn}
    /\ \/ r \in Entries(h)
       \/ Len(h) >= Retention /\ h[1] > r

\* A record whose Append returned no error is found after any restart, unless
\* newer ones have taken its place (state.go:56-108).
AcknowledgedSurvives == \A version \in disk : \A r \in acked : Covers(version, r)

\* A restart shows nothing the running process did not: every record of the
\* file is in memory, or older than all it still keeps (state.go:50-63).
HistoryShowsFile ==
    \A p \in Processes : pc[p] # "closed" /\ file \notin {NoFile, Torn} =>
        \A r \in Entries(file) : Covers(history[p], r)

=============================================================================
