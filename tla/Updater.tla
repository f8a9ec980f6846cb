------------------------------- MODULE Updater -------------------------------
(***************************************************************************)
(* internal/updater: Service.Update and Service.Restore, step by step, as  *)
(* several goroutines of one or more OS processes call them, with the      *)
(* files they change and the Mihomo process they reload.                   *)
(*                                                                         *)
(* Every step that touches a file or another process can fail; a caller's  *)
(* context can be cancelled, a guardian process can be killed and Mihomo   *)
(* can crash between any two steps.  Each external call is one step: its   *)
(* outcomes are the ones the caller can see, the lost answer included.     *)
(***************************************************************************)
EXTENDS Naturals, FiniteSets

CONSTANTS
    Callers,         \* goroutines that run Update or Restore
    Processes,       \* OS processes, each with one updater.Service
    ProcessOf,       \* the process a caller belongs to
    Contents,        \* what a configuration file may hold
    NoFile,          \* the file does not exist
    NoCaller,        \* the mutex is free
    Foreign,         \* a configuration Mihomo did not take from the active file
    Down,            \* Mihomo does not run
    BackupRetention, \* Config.BackupRetention
    MaxTx,           \* bound: transactions begun
    MaxCrashes,      \* bound: guardian processes killed
    MaxLate,         \* bound: reload requests Mihomo still has to serve
    MaxUnremoved     \* bound: removals of a candidate file that fail

ASSUME ProcessAssumption == ProcessOf \in [Callers -> Processes]
ASSUME ContentAssumption ==
    /\ NoFile \notin Contents
    /\ {Foreign, Down} \cap (Contents \cup {NoFile}) = {}
    /\ Foreign # Down
ASSUME CallerAssumption == IsFiniteSet(Callers) /\ NoCaller \notin Callers
ASSUME RetentionAssumption == BackupRetention \in Nat \ {0}  \* config.Validate
ASSUME BoundAssumption ==
    MaxTx \in Nat /\ MaxCrashes \in Nat /\ MaxLate \in Nat /\ MaxUnremoved \in Nat

\* All callers share one Service, hence one mutex: the `serve` process alone.
SingleProcess == \A c, d \in Callers : ProcessOf[c] = ProcessOf[d]

VARIABLES
    holder,   \* Service.transaction: who holds the mutex, per process
    busy,     \* Service.busy, per process
    pc,       \* where each caller is
    tx,       \* the local variables of each call
    active,   \* content of the active configuration file
    backups,  \* content of the backup directory, by backup ID
    running,  \* the configuration Mihomo runs
    late,     \* reload requests whose client timed out, not served yet
    litter,   \* candidate files nobody will remove
    started,  \* transactions begun so far: the next ID
    crashes,  \* guardian processes killed so far
    unremoved, \* candidate files that could not be removed so far
    report    \* what the history says of the last transaction

files == <<active, backups, litter>>
mihomo == <<running, late>>
locks == <<holder, busy>>
counters == <<started, crashes, unremoved>>
vars == <<locks, pc, tx, files, mihomo, counters, report>>

Steps == {"idle", "mark", "directories", "build", "validate", "find",
          "backup", "activate", "reload", "health", "undo", "undoreload",
          "undohealth", "cleanup", "append", "clear", "unlock"}
File == Contents \cup {NoFile}
IDs == 1 .. MaxTx
Reports == {"none", "success", "rolledback", "failed", "crashed"}

(***************************************************************************)
(* The locals of one call.  `id` numbers the transaction: IDs are time     *)
(* stamps, so they grow, and the one backup a transaction makes gets its   *)
(* number.  `source` is the backup to restore, 0 for an update.  `phase`,  *)
(* `validated` and `fault` are history: how far the file has been changed, *)
(* what the validator accepted, and whether the rollback itself met a      *)
(* failure of the file system or of Mihomo.                                *)
(***************************************************************************)
Transaction ==
    [id : 0 .. MaxTx, source : 0 .. MaxTx, candidate : File, hadActive : BOOLEAN,
     err : BOOLEAN, rolledBack : BOOLEAN, cancelled : BOOLEAN,
     phase : {"open", "saved", "switched", "verified", "undone"},
     validated : File, fault : BOOLEAN]

NewTx(n, src) ==
    [id |-> n, source |-> src, candidate |-> NoFile, hadActive |-> FALSE,
     err |-> FALSE, rolledBack |-> FALSE, cancelled |-> FALSE,
     phase |-> "open", validated |-> NoFile, fault |-> FALSE]

Inside(c) == pc[c] # "idle"
IsRestore(c) == tx[c].source # 0

Init ==
    /\ holder = [p \in Processes |-> NoCaller]
    /\ busy = [p \in Processes |-> FALSE]
    /\ pc = [c \in Callers |-> "idle"]
    /\ tx = [c \in Callers |-> NewTx(0, 0)]
    /\ active \in File
    /\ backups = [b \in IDs |-> NoFile]
    /\ running = IF active = NoFile THEN Foreign ELSE active
    /\ late = 0
    /\ litter = 0
    /\ started = 0
    /\ crashes = 0
    /\ unremoved = 0
    /\ report = "none"

-----------------------------------------------------------------------------
(***************************************************************************)
(* What the file helpers can leave behind.                                 *)
(***************************************************************************)

\* copyAtomic: nothing happens before the rename; a failure of the directory
\* sync comes after it, with the new content already in place.  Deviation: a
\* source that is gone is not noticed.
CopyOutcomesUnopened(source, destination) ==
    {[content |-> destination, renamed |-> FALSE, ok |-> FALSE]}
        \cup [content : {source}, renamed : {TRUE}, ok : BOOLEAN]
CopyOutcomes(source, destination) ==
    {[content |-> destination, renamed |-> FALSE, ok |-> FALSE]}
        \cup IF source = NoFile THEN {}
             ELSE [content : {source}, renamed : {TRUE}, ok : BOOLEAN]

\* activateCandidate moves the candidate over the active file; chmod or the
\* directory sync may fail after the rename.
ActivateOutcomes(candidate, destination) == CopyOutcomes(candidate, destination)

Present == {b \in IDs : backups[b] # NoFile}
Newer(b) == {d \in Present : d > b}

\* Deviations: a list sorted oldest first, a retention off by one.
ExcessOfOldestFirst ==
    {b \in Present : Cardinality({d \in Present : d < b}) >= BackupRetention}
ExcessOffByOne == {b \in Present : Cardinality(Newer(b)) > BackupRetention}

\* What pruneBackups removes when every removal works.
Excess == {b \in Present : Cardinality(Newer(b)) >= BackupRetention}

\* The removals go from the newest to the oldest of these and stop at the first
\* that fails; a directory that cannot be listed removes nothing.
PruneOutcomes ==
    {[removed |-> Excess, ok |-> TRUE]}
        \cup {[removed |-> {b \in Excess : b > d}, ok |-> FALSE] : d \in Excess}
        \cup {[removed |-> {}, ok |-> FALSE]}

WithoutFiles(dir, removed) ==
    [b \in IDs |-> IF b \in removed THEN NoFile ELSE dir[b]]

-----------------------------------------------------------------------------
(***************************************************************************)
(* Taking the transaction mutex.                                           *)
(***************************************************************************)
ContextDone(c) == tx[c].cancelled

\* The rollback has a context of its own.  Deviation: it uses the caller's.
RollbackOnCallerContext(c) == tx[c].cancelled
RollbackContextDone(c) == FALSE   \* context.WithTimeout(context.Background(), ...)

\* Caller c goes from one step to another with locals t.
Move(c, from, to, t) ==
    /\ pc[c] = from
    /\ pc' = [pc EXCEPT ![c] = to]
    /\ tx' = [tx EXCEPT ![c] = t]

Failed(c) == [tx[c] EXCEPT !.err = TRUE]

\* A step that fails the operation: the deferred calls still run.
Fail(c, from) == Move(c, from, "cleanup", Failed(c))

\* Deviation: the atomic flag taken for the lock.
TryLockOnFlag(p) == ~busy[p]
TryLock(p) == holder[p] = NoCaller

\* TryLock that fails returns ErrBusy and changes nothing, as does a malformed
\* backup ID: neither is a step.
Begin(c, source) ==
    /\ TryLock(ProcessOf[c])
    /\ started < MaxTx
    /\ Move(c, "idle", "mark", NewTx(started + 1, source))
    /\ holder' = [holder EXCEPT ![ProcessOf[c]] = c]
    /\ started' = started + 1
    /\ report' = "none"
    /\ UNCHANGED <<busy, files, mihomo, crashes, unremoved>>

BeginUpdate(c) == Begin(c, 0)

\* The ID comes from a page that may be old: any backup ever made.
BeginRestore(c) == \E b \in 1 .. started : Begin(c, b)

MarkBusy(c) ==
    /\ Move(c, "mark", IF IsRestore(c) THEN "find" ELSE "directories", tx[c])
    /\ busy' = [busy EXCEPT ![ProcessOf[c]] = TRUE]
    /\ UNCHANGED <<holder, files, mihomo, counters, report>>

-----------------------------------------------------------------------------
(***************************************************************************)
(* Up to the switch of the active file.                                    *)
(***************************************************************************)

\* pruneBackups is deferred only after this step: a failure here skips it.
EnsureDirectories(c) ==
    /\ \/ Move(c, "directories", "build", tx[c])
       \/ Move(c, "directories", "append", Failed(c))
    /\ UNCHANGED <<locks, files, mihomo, counters, report>>

\* os.Remove of a candidate file: nobody looks at its error, so the file stays
\* when it fails.
RemovalFails ==
    /\ unremoved < MaxUnremoved
    /\ unremoved' = unremoved + 1
    /\ litter' = litter + 1

\* Build fetches with the caller's context; writeCandidate removes what it
\* could not finish, if it can.
BuildCandidate(c) ==
    /\ \/ /\ ~ContextDone(c)
          /\ \E content \in Contents :
                Move(c, "build", "validate", [tx[c] EXCEPT !.candidate = content])
          /\ UNCHANGED <<litter, unremoved>>
       \/ Fail(c, "build") /\ UNCHANGED <<litter, unremoved>>
       \/ ~ContextDone(c) /\ Fail(c, "build") /\ RemovalFails
    /\ UNCHANGED <<locks, active, backups, mihomo, started, crashes, report>>

FindBackup(c) ==
    /\ \/ Move(c, "find", "validate", tx[c]) /\ backups[tx[c].source] # NoFile
       \/ Fail(c, "find")
    /\ UNCHANGED <<locks, files, mihomo, counters, report>>

\* The file `mihomo -t` reads.  Deviation: the active file before a restore.
TestedActive(c) == IF IsRestore(c) THEN active ELSE tx[c].candidate
Tested(c) == IF IsRestore(c) THEN backups[tx[c].source] ELSE tx[c].candidate

Validate(c) ==
    /\ \/ /\ ~ContextDone(c) /\ Tested(c) # NoFile
          /\ Move(c, "validate", "backup", [tx[c] EXCEPT !.validated = Tested(c)])
       \/ Fail(c, "validate")
    /\ UNCHANGED <<locks, files, mihomo, counters, report>>

\* The file may be there and yet not be usable, or be there for all os.Stat
\* can say.
BackupActive(c) ==
    /\ pc[c] = "backup"
    /\ \/ Fail(c, "backup") /\ UNCHANGED backups
       \/ /\ active = NoFile
          /\ Move(c, "backup", "activate", [tx[c] EXCEPT !.phase = "saved"])
          /\ UNCHANGED backups
       \/ /\ active # NoFile
          /\ \E o \in CopyOutcomes(active, backups[tx[c].id]) :
                /\ backups' = [backups EXCEPT ![tx[c].id] = o.content]
                /\ IF o.ok
                   THEN Move(c, "backup", "activate",
                             [tx[c] EXCEPT !.phase = "saved", !.hadActive = TRUE])
                   ELSE Fail(c, "backup")
    /\ UNCHANGED <<locks, active, litter, mihomo, counters, report>>

\* The locals after a rename over the active file.
Switched(c) == [tx[c] EXCEPT !.phase = "switched"]

\* Update: a failure after the rename is rolled back.
ActivateCandidate(c) ==
    /\ pc[c] = "activate" /\ ~IsRestore(c)
    /\ \E o \in ActivateOutcomes(tx[c].candidate, active) :
          /\ active' = o.content
          /\ IF o.renamed
             THEN Move(c, "activate", IF o.ok THEN "reload" ELSE "undo",
                       [Switched(c) EXCEPT !.candidate = NoFile, !.err = ~o.ok])
             ELSE Fail(c, "activate")
    /\ UNCHANGED <<locks, backups, litter, mihomo, counters, report>>

\* Restore: any failure returns at once, also one after the rename.
ActivateBackup(c) ==
    /\ pc[c] = "activate" /\ IsRestore(c)
    /\ \E o \in CopyOutcomes(backups[tx[c].source], active) :
          /\ active' = o.content
          /\ IF o.renamed
             THEN Move(c, "activate", IF o.ok THEN "reload" ELSE "cleanup",
                       [Switched(c) EXCEPT !.err = ~o.ok])
             ELSE Fail(c, "activate")
    /\ UNCHANGED <<locks, backups, litter, mihomo, counters, report>>

-----------------------------------------------------------------------------
(***************************************************************************)
(* Reload and health check, first of the new configuration with the        *)
(* caller's context, then of the old one with a context of the rollback's  *)
(* own.  A cancelled context fails every call made with it.                *)
(***************************************************************************)

\* Deviation: a missing file is loaded.
LoadUnchecked == running # Down /\ running' = active

\* What Mihomo does with a PUT /configs: the request names the path, not the
\* content.
Load ==
    /\ running # Down /\ active # NoFile
    /\ running' = active

\* What a PUT that returns an error may have done: nothing, all of it (the
\* answer was lost), or nothing yet (the client gave up waiting).
FailedReload ==
    \/ UNCHANGED mihomo
    \/ Load /\ UNCHANGED late
    \/ running # Down /\ late < MaxLate /\ late' = late + 1 /\ UNCHANGED running

Reload(c) ==
    /\ \/ /\ ~ContextDone(c)
          /\ Move(c, "reload", "health", tx[c])
          /\ Load /\ UNCHANGED late
       \/ Move(c, "reload", "undo", Failed(c)) /\ FailedReload
    /\ UNCHANGED <<locks, files, counters, report>>

\* HealthDelay, then GET /version.
Health(c) ==
    /\ \/ /\ ~ContextDone(c) /\ running # Down
          /\ Move(c, "health", "cleanup", [tx[c] EXCEPT !.phase = "verified"])
       \/ Move(c, "health", "undo", Failed(c))
    /\ UNCHANGED <<locks, files, mihomo, counters, report>>

\* The rollback copies the transaction's own backup, also in a Restore, ...
\* Deviation: backupPath for preRestorePath.
UndoFromRestored(c) == backups[IF IsRestore(c) THEN tx[c].source ELSE tx[c].id]
UndoSource(c) == backups[tx[c].id]

\* ... and then reloads it.  Deviation: only the health is checked.
AfterUndoHealthOnly == "undohealth"
AfterUndo == "undoreload"

Faulted(c) == [tx[c] EXCEPT !.fault = TRUE]

\* The first configuration has no predecessor: it is removed and Mihomo is left
\* alone.
RemoveFirst(c) ==
    /\ pc[c] = "undo" /\ ~tx[c].hadActive
    /\ \/ /\ active' = NoFile
          /\ Move(c, "undo", "cleanup",
                  [tx[c] EXCEPT !.phase = "undone", !.rolledBack = TRUE])
       \/ Move(c, "undo", "cleanup", Faulted(c)) /\ UNCHANGED active
    /\ UNCHANGED <<locks, backups, litter, mihomo, counters, report>>

\* Otherwise the backup is copied back.
CopyBack(c) ==
    /\ pc[c] = "undo" /\ tx[c].hadActive
    /\ \E o \in CopyOutcomes(UndoSource(c), active) :
          /\ active' = o.content
          /\ IF o.renamed
             THEN Move(c, "undo", IF o.ok THEN AfterUndo ELSE "cleanup",
                       [tx[c] EXCEPT !.phase = "undone", !.fault = ~o.ok])
             ELSE Move(c, "undo", "cleanup", Faulted(c))
    /\ UNCHANGED <<locks, backups, litter, mihomo, counters, report>>

\* Deviation: a failed rollback is tried again.
RetryRollback(step) == step
AfterFailedRollback(step) == "cleanup"

\* A call of the rollback fails because its context ended or because of Mihomo.
RollbackCallFails(c, from) ==
    Move(c, from, AfterFailedRollback(from),
         IF RollbackContextDone(c) THEN tx[c] ELSE Faulted(c))

UndoReload(c) ==
    /\ \/ /\ ~RollbackContextDone(c)
          /\ Move(c, "undoreload", "undohealth", tx[c])
          /\ Load /\ UNCHANGED late
       \/ RollbackCallFails(c, "undoreload") /\ FailedReload
    /\ UNCHANGED <<locks, files, counters, report>>

UndoHealth(c) ==
    /\ \/ /\ ~RollbackContextDone(c) /\ running # Down
          /\ Move(c, "undohealth", "cleanup", [tx[c] EXCEPT !.rolledBack = TRUE])
       \/ RollbackCallFails(c, "undohealth")
    /\ UNCHANGED <<locks, files, mihomo, counters, report>>

-----------------------------------------------------------------------------
(***************************************************************************)
(* The deferred calls, in the order Go runs them.                          *)
(***************************************************************************)

\* defer os.Remove(candidatePath).  Deviation: deferred after the validation.
CandidateLeftUnvalidated(t) == IF t.validated = NoFile THEN t.candidate ELSE NoFile
CandidateAfterRemove(t) == NoFile

\* The removal above, or its failure, which leaves the file behind for good;
\* then defer pruneBackups.
Cleanup(c) ==
    /\ \/ UNCHANGED <<litter, unremoved>>
       \/ tx[c].candidate # NoFile /\ RemovalFails
    /\ \E o \in PruneOutcomes :
          /\ backups' = WithoutFiles(backups, o.removed)
          /\ Move(c, "cleanup", "append",
                  [IF o.ok THEN tx[c] ELSE Failed(c)
                     EXCEPT !.candidate = CandidateAfterRemove(tx[c])])
    /\ UNCHANGED <<locks, active, mihomo, started, crashes, report>>

\* What the record says: the rollback counts only beside an error.
ReportOf(t) == IF ~t.err THEN "success"
               ELSE IF t.rolledBack THEN "rolledback" ELSE "failed"

\* A record that cannot be saved turns a success into an error for the caller.
AppendRecord(c) ==
    /\ \/ Move(c, "append", "clear", tx[c])
       \/ Move(c, "append", "clear", Failed(c))
    /\ report' = ReportOf(tx[c])
    /\ UNCHANGED <<locks, files, mihomo, counters>>

Litter(cs) == Cardinality({c \in cs : tx[c].candidate # NoFile})

ClearBusy(c) ==
    /\ Move(c, "clear", "unlock", tx[c])
    /\ busy' = [busy EXCEPT ![ProcessOf[c]] = FALSE]
    /\ UNCHANGED <<holder, files, mihomo, counters, report>>

Unlock(c) ==
    /\ Move(c, "unlock", "idle", NewTx(0, 0))
    /\ holder' = [holder EXCEPT ![ProcessOf[c]] = NoCaller]
    /\ litter' = litter + Litter({c})
    /\ UNCHANGED <<busy, active, backups, mihomo, counters, report>>

CallerStep(c) ==
    \/ MarkBusy(c) \/ EnsureDirectories(c) \/ BuildCandidate(c) \/ FindBackup(c)
    \/ Validate(c) \/ BackupActive(c) \/ ActivateCandidate(c) \/ ActivateBackup(c)
    \/ Reload(c) \/ Health(c) \/ RemoveFirst(c) \/ CopyBack(c)
    \/ UndoReload(c) \/ UndoHealth(c)
    \/ Cleanup(c) \/ AppendRecord(c) \/ ClearBusy(c) \/ Unlock(c)

-----------------------------------------------------------------------------
(***************************************************************************)
(* What happens to the callers and to Mihomo.                              *)
(***************************************************************************)

\* The HTTP client goes away, or SIGTERM cancels the scheduler's context.
Cancel(c) ==
    /\ Inside(c) /\ ~tx[c].cancelled
    /\ Move(c, pc[c], pc[c], [tx[c] EXCEPT !.cancelled = TRUE])
    /\ UNCHANGED <<locks, files, mihomo, counters, report>>

CallersOf(p) == {c \in Callers : ProcessOf[c] = p}

\* Steps at which a transaction has yet to write its record.
Unrecorded(c) == pc[c] \notin {"idle", "clear", "unlock"}

\* A guardian process is killed and started again: locks and calls are gone,
\* files stay.  Nothing is repaired when it starts.
Crash(p) ==
    /\ crashes < MaxCrashes
    /\ crashes' = crashes + 1
    /\ holder' = [holder EXCEPT ![p] = NoCaller]
    /\ busy' = [busy EXCEPT ![p] = FALSE]
    /\ pc' = [c \in Callers |-> IF c \in CallersOf(p) THEN "idle" ELSE pc[c]]
    /\ tx' = [c \in Callers |-> IF c \in CallersOf(p) THEN NewTx(0, 0) ELSE tx[c]]
    /\ litter' = litter + Litter(CallersOf(p))
    /\ report' = IF \E c \in CallersOf(p) : Unrecorded(c) THEN "crashed" ELSE report
    /\ UNCHANGED <<active, backups, mihomo, started, unremoved>>

MihomoCrash ==
    /\ running # Down
    /\ running' = Down
    /\ late' = 0
    /\ UNCHANGED <<locks, pc, tx, files, counters, report>>

\* What Mihomo loads when it starts.  Deviation: started without -f.
StartDefault == Foreign
StartConfig == IF active = NoFile THEN Foreign ELSE active

MihomoRestart ==
    /\ running = Down
    /\ running' = StartConfig
    /\ UNCHANGED <<locks, pc, tx, files, late, counters, report>>

\* A request the client gave up on is served after all, or refused.
LateReload ==
    /\ late > 0
    /\ late' = late - 1
    /\ Load \/ UNCHANGED running
    /\ UNCHANGED <<locks, pc, tx, files, counters, report>>

Next ==
    \/ \E c \in Callers : BeginUpdate(c) \/ BeginRestore(c) \/ CallerStep(c) \/ Cancel(c)
    \/ \E p \in Processes : Crash(p)
    \/ MihomoCrash \/ MihomoRestart \/ LateReload

Spec == Init /\ [][Next]_vars

(***************************************************************************)
(* Every call a transaction makes is bounded by a timeout, so a caller     *)
(* that can step does; `restart: unless-stopped` brings Mihomo back.       *)
(***************************************************************************)
Fairness ==
    /\ \A c \in Callers : WF_vars(CallerStep(c))
    /\ WF_vars(MihomoRestart)

FairSpec == Spec /\ Fairness

-----------------------------------------------------------------------------
(***************************************************************************)
(* Properties.                                                             *)
(***************************************************************************)

\* Every variable holds a value of the Go type it stands for.
TypeOK ==
    /\ holder \in [Processes -> Callers \cup {NoCaller}]
    /\ busy \in [Processes -> BOOLEAN]
    /\ pc \in [Callers -> Steps]
    /\ tx \in [Callers -> Transaction]
    /\ active \in File
    /\ backups \in [IDs -> File]
    /\ running \in Contents \cup {Foreign, Down}
    /\ late \in 0 .. MaxLate
    /\ litter \in Nat
    /\ started \in 0 .. MaxTx
    /\ crashes \in 0 .. MaxCrashes
    /\ unremoved \in 0 .. MaxUnremoved
    /\ report \in Reports

\* README.md:42: one transaction runs at a time, whoever asked for it.  The
\* mutex of Update and Restore (updater.go:84, 175) is what enforces it.
OneTransaction == \A c, d \in Callers : Inside(c) /\ Inside(d) => c = d

\* Busy() never says idle while a transaction works on the files: the flag is
\* set under the mutex and cleared before it is released (updater.go:87-91).
BusyCoversWork ==
    \A c \in Callers :
        pc[c] \notin {"idle", "mark", "unlock"} => busy[ProcessOf[c]]

\* What the validator accepted is what went live: between `mihomo -t` and the
\* end of the transaction nothing replaces the tested content by another
\* (updater.go:134-145 and 214-224).
ValidatedIsLive ==
    \A c \in Callers :
        tx[c].phase \in {"switched", "verified"} =>
            active = tx[c].validated /\ active # NoFile

\* Nothing but the tested content is ever switched in, also when another process
\* prunes the backup that a Restore has found and tested: the copy fails then,
\* before it changes anything (updater.go:212-224, 401-429).
SwitchIsTested ==
    [][\A c \in Callers : tx[c].phase = "saved" /\ tx'[c].phase = "switched" =>
          active' = tx[c].validated /\ active' # NoFile]_vars

\* The configuration a transaction replaced is still in the backup directory
\* when the transaction ends: pruning never takes it (updater.go:366-380).
PreviousConfigKept ==
    \A c \in Callers : tx[c].hadActive => backups[tx[c].id] # NoFile

\* A transaction recorded as a success leaves at most BackupRetention backups.
SuccessPrunesBackups ==
    report = "success" => Cardinality(Present) <= BackupRetention

\* A cancelled caller cannot prevent the rollback (updater_test.go:137): an
\* update whose switch failed is rolled back unless the file system or Mihomo
\* fails again, and a rollback that began ends well under the same proviso.
RollbackFailsOnlyByFault ==
    \A c \in Callers : pc[c] \in {"clear", "unlock"} /\ ~tx[c].rolledBack =>
        /\ tx[c].phase = "undone" => tx[c].fault
        /\ tx[c].phase = "switched" /\ ~IsRestore(c) => tx[c].fault

\* After a success or a rollback to an existing configuration Mihomo runs what
\* the active file holds, whatever late reload or restart comes afterwards.
ReportedConfigRuns ==
    report \in {"success", "rolledback"} /\ active # NoFile =>
        running \in {active, Down}

\* No early return and no deferred call forgets a candidate file: it outlives
\* its transaction only if the process was killed or os.Remove itself failed
\* (updater.go:131 and 282-288).
LitterHasACause == litter <= crashes + unremoved

\* The files change as ConfigTransaction says: one switch, to a new content,
\* and one undo, to what the file held when the transaction began.  The saved
\* content is the file itself until it is backed up, then the backup.
Current == {c \in Callers : Unrecorded(c)}
AbstractPhase(c) == IF tx[c].phase = "saved" THEN "open" ELSE tx[c].phase
SavedContent(c) ==
    IF tx[c].phase = "open" THEN active
    ELSE IF tx[c].hadActive THEN backups[tx[c].id] ELSE NoFile

Saved ==
    IF Current = {} THEN NoFile ELSE SavedContent(CHOOSE c \in Current : TRUE)
Phase ==
    IF Current = {} THEN "idle" ELSE AbstractPhase(CHOOSE c \in Current : TRUE)

Abstract == INSTANCE ConfigTransaction WITH
    config <- active, saved <- Saved, phase <- Phase

TransactionRefinement == Abstract!AbstractSpec

\* Every call of Update or Restore returns: again and again nobody is inside,
\* no path skips the deferred unlock (updater.go:88-91, 179-182).
EveryTransactionEnds == []<>(\A c \in Callers : ~Inside(c))

\* Mihomo comes to run a configuration recorded as a success, unless another
\* transaction begins, also when it crashes right after the health check.
SuccessEventuallyRuns == report = "success" ~> (running = active \/ report # "success")

\* config.example.yaml:84: a failed health check restores the old configuration
\* and reloads it: what Mihomo runs after a rollback is what a fresh start
\* would load.  (updater.go:345-349 removes a first configuration without a
\* reload.)
RolledBackIsReloaded == report = "rolledback" => running \in {StartConfig, Down}

\* README.md:39: every switch that is not confirmed is rolled back, or the
\* rollback was at least tried.  (updater.go:224-226 returns without one when
\* copyAtomic fails after its rename.)
UnconfirmedSwitchIsUndone ==
    \A c \in Callers : pc[c] \in {"clear", "unlock"} /\ tx[c].phase = "switched" =>
        tx[c].fault

=============================================================================
