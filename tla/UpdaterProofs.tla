---------------------------- MODULE UpdaterProofs ----------------------------
(***************************************************************************)
(* Theorems about Updater for every value of its constants, and their      *)
(* proofs.                                                                 *)
(***************************************************************************)
EXTENDS Updater, FiniteSetTheorems, TLAPS

\* Counting the candidate files of a set of callers gives a number.
LEMMA LitterType == ASSUME NEW cs \in SUBSET Callers PROVE Litter(cs) \in Nat
<1>1. IsFiniteSet({c \in cs : tx[c].candidate # NoFile})
  BY CallerAssumption, FS_Subset
<1> QED BY <1>1, FS_CardinalityType DEF Litter

\* copyAtomic leaves the source or the old content; only a rename succeeds.
LEMMA CopyOutcomesType ==
    ASSUME NEW s, NEW d, NEW o \in CopyOutcomes(s, d)
    PROVE  \/ o.renamed = TRUE /\ o.content = s /\ s # NoFile /\ o.ok \in BOOLEAN
           \/ o.renamed = FALSE /\ o.content = d /\ o.ok = FALSE
<1>1. \/ o = [content |-> d, renamed |-> FALSE, ok |-> FALSE]
      \/ s # NoFile /\ o \in [content : {s}, renamed : {TRUE}, ok : BOOLEAN]
  BY DEF CopyOutcomes
<1>2. CASE o = [content |-> d, renamed |-> FALSE, ok |-> FALSE]
  BY <1>2
<1>3. CASE s # NoFile /\ o \in [content : {s}, renamed : {TRUE}, ok : BOOLEAN]
  BY <1>3
<1> QED BY <1>1, <1>2, <1>3

LEMMA CopyOutcomesFile ==
    ASSUME NEW s \in File, NEW d \in File, NEW o \in CopyOutcomes(s, d)
    PROVE  o.content \in File /\ o.ok \in BOOLEAN /\ o.renamed \in BOOLEAN
BY CopyOutcomesType, ZenonT(60)

LEMMA NewTxType ==
    ASSUME NEW n \in 0 .. MaxTx, NEW s \in 0 .. MaxTx
    PROVE  NewTx(n, s) \in Transaction
BY DEF NewTx, Transaction, File

-----------------------------------------------------------------------------
(***************************************************************************)
(* Type correctness.  A call inside a transaction has an ID, so its backup *)
(* is an entry of the backup directory.                                    *)
(***************************************************************************)
HasID == \A c \in Callers : Inside(c) => tx[c].id \in IDs

TypeInv == TypeOK /\ HasID

\* The variables a call's own step leaves to the files and to Mihomo.
RestTypeOK ==
    /\ holder \in [Processes -> Callers \cup {NoCaller}]
    /\ busy \in [Processes -> BOOLEAN]
    /\ active \in File
    /\ backups \in [IDs -> File]
    /\ running \in Contents \cup {Foreign, Down}
    /\ late \in 0 .. MaxLate
    /\ litter \in Nat
    /\ started \in 0 .. MaxTx
    /\ crashes \in 0 .. MaxCrashes
    /\ unremoved \in 0 .. MaxUnremoved
    /\ report \in Reports

LEMMA TypeInvSplit ==
    TypeInv <=> /\ RestTypeOK
                /\ pc \in [Callers -> Steps]
                /\ tx \in [Callers -> Transaction]
                /\ HasID
BY DEF TypeInv, TypeOK, RestTypeOK

\* A step of a call that keeps its locals a Transaction with the same ID.
LEMMA MoveType ==
    ASSUME TypeInv, NEW c \in Callers, NEW from \in Steps \ {"idle"},
           NEW to \in Steps, NEW t \in Transaction, t.id = tx[c].id,
           Move(c, from, to, t)
    PROVE  /\ pc' \in [Callers -> Steps]
           /\ tx' \in [Callers -> Transaction]
           /\ HasID'
<1>1. pc \in [Callers -> Steps] /\ tx \in [Callers -> Transaction] /\ HasID
  BY TypeInvSplit
<1>2. pc' \in [Callers -> Steps] /\ tx' \in [Callers -> Transaction]
  BY <1>1 DEF Move
<1>3. ASSUME NEW d \in Callers, Inside(d)' PROVE tx'[d].id \in IDs
  <2>1. CASE d = c
    BY <1>1, <2>1 DEF Move, HasID, Inside
  <2>2. CASE d # c
    BY <1>1, <1>3, <2>2 DEF Move, HasID, Inside
  <2> QED BY <2>1, <2>2
<1> QED BY <1>2, <1>3 DEF HasID, Inside, IDs

\* A caller's locals are a Transaction, also after a failure or a fault.
LEMMA FailedType ==
    ASSUME TypeInv, NEW c \in Callers
    PROVE  \A t \in {tx[c], Failed(c), Faulted(c), Switched(c)} :
               t \in Transaction /\ t.id = tx[c].id
<1>1. tx[c] \in Transaction
  BY TypeInvSplit
<1> QED BY <1>1 DEF Failed, Faulted, Switched, Transaction

\* A step that moves one call and touches neither files nor Mihomo.
LEMMA QuietMove ==
    ASSUME TypeInv, NEW c \in Callers, NEW from \in Steps \ {"idle"},
           NEW to \in Steps, NEW t \in Transaction, t.id = tx[c].id,
           Move(c, from, to, t), RestTypeOK'
    PROVE  TypeInv'
<1>1. /\ pc' \in [Callers -> Steps]
      /\ tx' \in [Callers -> Transaction]
      /\ HasID'
  BY MoveType
<1> QED BY <1>1, TypeInvSplit DEF TypeInv, TypeOK, RestTypeOK

LEMMA TypeInvInit == Init => TypeInv
<1> SUFFICES ASSUME Init PROVE TypeInv
  OBVIOUS
<1>1. NewTx(0, 0) \in Transaction
  BY BoundAssumption, NewTxType
<1>2. running \in Contents \cup {Foreign, Down}
  BY DEF Init, File
<1>3. RestTypeOK
  BY <1>2, BoundAssumption DEF Init, RestTypeOK, Reports, IDs, File
<1> QED
  BY <1>1, <1>3, TypeInvSplit DEF Init, HasID, Inside, Steps

LEMMA TypeInvBegin ==
    ASSUME TypeInv, NEW c \in Callers, NEW s \in 0 .. MaxTx, Begin(c, s)
    PROVE  TypeInv'
<1>1. started + 1 \in 0 .. MaxTx /\ started + 1 \in IDs
  BY BoundAssumption, TypeInvSplit DEF RestTypeOK, Begin, IDs
<1>2. NewTx(started + 1, s) \in Transaction /\ NewTx(started + 1, s).id \in IDs
  BY <1>1, NewTxType DEF NewTx
<1>3. RestTypeOK'
  BY <1>1, TypeInvSplit, ProcessAssumption
  DEF RestTypeOK, Begin, files, mihomo, Reports
<1>4. pc' \in [Callers -> Steps] /\ tx' \in [Callers -> Transaction]
  BY <1>2, TypeInvSplit DEF Begin, Move, Steps
<1>5. HasID'
  BY <1>2, TypeInvSplit DEF Begin, Move, HasID, Inside, IDs
<1> QED BY <1>3, <1>4, <1>5, TypeInvSplit DEF TypeInv, TypeOK, RestTypeOK

LEMMA TypeInvMarkBusy ==
    ASSUME TypeInv, NEW c \in Callers, MarkBusy(c)
    PROVE  TypeInv'
<1>1. RestTypeOK'
  BY TypeInvSplit, ProcessAssumption DEF RestTypeOK, MarkBusy, files, mihomo, counters
<1> QED BY <1>1, QuietMove, FailedType DEF MarkBusy, Steps

LEMMA RemovalFailsType ==
    ASSUME RestTypeOK, RemovalFails
    PROVE  litter' \in Nat /\ unremoved' \in 0 .. MaxUnremoved
BY BoundAssumption DEF RestTypeOK, RemovalFails

LEMMA TypeInvPrepare ==
    ASSUME TypeInv, NEW c \in Callers,
           \/ EnsureDirectories(c) \/ BuildCandidate(c) \/ FindBackup(c)
           \/ Validate(c) \/ Health(c)
    PROVE  TypeInv'
<1>1. RestTypeOK'
  BY TypeInvSplit, RemovalFailsType
  DEF RestTypeOK, EnsureDirectories, BuildCandidate, FindBackup, Validate, Health,
      locks, files, mihomo, counters
<1>2. CASE EnsureDirectories(c)
  BY <1>1, <1>2, QuietMove, FailedType DEF EnsureDirectories, Steps
<1>3. CASE BuildCandidate(c)
  <2>1. ASSUME NEW f \in Contents
        PROVE  /\ [tx[c] EXCEPT !.candidate = f] \in Transaction
               /\ [tx[c] EXCEPT !.candidate = f].id = tx[c].id
    BY FailedType DEF Transaction, File
  <2> QED BY <1>1, <1>3, <2>1, QuietMove, FailedType DEF BuildCandidate, Fail, Steps
<1>4. CASE FindBackup(c)
  BY <1>1, <1>4, QuietMove, FailedType DEF FindBackup, Fail, Steps
<1>5. CASE Validate(c)
  <2>1. CASE Fail(c, "validate")
    BY <1>1, <2>1, QuietMove, FailedType DEF Fail, Steps
  <2>2. CASE Move(c, "validate", "backup", [tx[c] EXCEPT !.validated = Tested(c)])
    <3>1. Tested(c) \in File
      BY TypeInvSplit, BoundAssumption
      DEF RestTypeOK, Tested, IsRestore, Transaction, IDs
    <3>2. /\ [tx[c] EXCEPT !.validated = Tested(c)] \in Transaction
          /\ [tx[c] EXCEPT !.validated = Tested(c)].id = tx[c].id
      BY <3>1, FailedType DEF Transaction
    <3> QED BY <1>1, <2>2, <3>2, QuietMove DEF Steps
  <2> QED BY <1>5, <2>1, <2>2 DEF Validate
<1>6. CASE Health(c)
  <2>1. /\ [tx[c] EXCEPT !.phase = "verified"] \in Transaction
        /\ [tx[c] EXCEPT !.phase = "verified"].id = tx[c].id
    BY FailedType DEF Transaction
  <2> QED BY <1>1, <1>6, <2>1, QuietMove, FailedType DEF Health, Steps
<1> QED BY <1>2, <1>3, <1>4, <1>5, <1>6

LEMMA TypeInvBackup ==
    ASSUME TypeInv, NEW c \in Callers, BackupActive(c)
    PROVE  TypeInv'
<1>1. /\ pc[c] = "backup" /\ tx[c].id \in IDs /\ tx[c] \in Transaction
      /\ RestTypeOK
  BY TypeInvSplit DEF BackupActive, HasID, Inside
<1>2. /\ [tx[c] EXCEPT !.phase = "saved"] \in Transaction
      /\ [tx[c] EXCEPT !.phase = "saved"].id = tx[c].id
      /\ [tx[c] EXCEPT !.phase = "saved", !.hadActive = TRUE] \in Transaction
      /\ [tx[c] EXCEPT !.phase = "saved", !.hadActive = TRUE].id = tx[c].id
  BY <1>1 DEF Transaction
<1>3. CASE UNCHANGED backups
  <2>1. RestTypeOK'
    BY <1>1, <1>3 DEF RestTypeOK, BackupActive, locks, mihomo, counters
  <2>2. \/ Fail(c, "backup")
        \/ \E t \in {[tx[c] EXCEPT !.phase = "saved"],
                     [tx[c] EXCEPT !.phase = "saved", !.hadActive = TRUE]} :
              Move(c, "backup", "activate", t)
    BY DEF BackupActive
  <2> QED BY <1>2, <2>1, <2>2, QuietMove, FailedType DEF Fail, Steps
<1>4. CASE ~ UNCHANGED backups
  <2>1. PICK o \in CopyOutcomes(active, backups[tx[c].id]) :
            /\ backups' = [backups EXCEPT ![tx[c].id] = o.content]
            /\ IF o.ok
               THEN Move(c, "backup", "activate",
                         [tx[c] EXCEPT !.phase = "saved", !.hadActive = TRUE])
               ELSE Fail(c, "backup")
    BY <1>4, ZenonT(30) DEF BackupActive
  <2>2. o.content \in File
    BY <1>1, <2>1, CopyOutcomesFile DEF RestTypeOK
  <2>3. RestTypeOK'
    BY <1>1, <2>1, <2>2 DEF RestTypeOK, BackupActive, locks, mihomo, counters
  <2> QED BY <1>2, <2>1, <2>3, QuietMove, FailedType DEF Fail, Steps
<1> QED BY <1>3, <1>4

LEMMA TypeInvActivateCandidate ==
    ASSUME TypeInv, NEW c \in Callers, ActivateCandidate(c)
    PROVE  TypeInv'
<1>1. tx[c] \in Transaction /\ RestTypeOK
  BY TypeInvSplit
<1>2. PICK o \in CopyOutcomes(tx[c].candidate, active) :
          /\ active' = o.content
          /\ IF o.renamed
             THEN Move(c, "activate", IF o.ok THEN "reload" ELSE "undo",
                       [Switched(c) EXCEPT !.candidate = NoFile, !.err = ~o.ok])
             ELSE Fail(c, "activate")
  BY DEF ActivateCandidate, ActivateOutcomes
<1>3. o.content \in File /\ o.ok \in BOOLEAN
  BY <1>1, <1>2, CopyOutcomesFile DEF RestTypeOK, Transaction
<1>4. RestTypeOK'
  BY <1>1, <1>2, <1>3 DEF RestTypeOK, ActivateCandidate, locks, mihomo, counters
<1>5. /\ [Switched(c) EXCEPT !.candidate = NoFile, !.err = ~o.ok] \in Transaction
      /\ [Switched(c) EXCEPT !.candidate = NoFile, !.err = ~o.ok].id = tx[c].id
  <2>1. /\ [Switched(c) EXCEPT !.candidate = NoFile] \in Transaction
        /\ [Switched(c) EXCEPT !.candidate = NoFile].id = tx[c].id
    BY FailedType DEF Transaction, File
  <2>2. \A t \in Transaction :
            [t EXCEPT !.err = ~o.ok] \in Transaction /\ [t EXCEPT !.err = ~o.ok].id = t.id
    BY DEF Transaction
  <2>3. [Switched(c) EXCEPT !.candidate = NoFile, !.err = ~o.ok]
            = [[Switched(c) EXCEPT !.candidate = NoFile] EXCEPT !.err = ~o.ok]
    BY FailedType DEF Transaction
  <2> QED BY <2>1, <2>2, <2>3
<1> QED BY <1>2, <1>4, <1>5, QuietMove, FailedType DEF Fail, Steps

LEMMA TypeInvActivateBackup ==
    ASSUME TypeInv, NEW c \in Callers, ActivateBackup(c)
    PROVE  TypeInv'
<1>1. tx[c] \in Transaction /\ RestTypeOK
  BY TypeInvSplit
<1>2. PICK o \in CopyOutcomes(backups[tx[c].source], active) :
          /\ active' = o.content
          /\ IF o.renamed
             THEN Move(c, "activate", IF o.ok THEN "reload" ELSE "cleanup",
                       [Switched(c) EXCEPT !.err = ~o.ok])
             ELSE Fail(c, "activate")
  BY DEF ActivateBackup
<1>3. backups[tx[c].source] \in File
  BY <1>1, BoundAssumption DEF RestTypeOK, ActivateBackup, IsRestore, Transaction, IDs
<1>4. o.content \in File /\ o.ok \in BOOLEAN
  BY <1>1, <1>2, <1>3, CopyOutcomesFile DEF RestTypeOK
<1>5. RestTypeOK'
  BY <1>1, <1>2, <1>4 DEF RestTypeOK, ActivateBackup, locks, mihomo, counters
<1>6. /\ [Switched(c) EXCEPT !.err = ~o.ok] \in Transaction
      /\ [Switched(c) EXCEPT !.err = ~o.ok].id = tx[c].id
  <2>1. \A t \in Transaction :
            [t EXCEPT !.err = ~o.ok] \in Transaction /\ [t EXCEPT !.err = ~o.ok].id = t.id
    BY DEF Transaction
  <2> QED BY <2>1, FailedType
<1> QED BY <1>2, <1>5, <1>6, QuietMove, FailedType DEF Fail, Steps

LEMMA FailedReloadType ==
    ASSUME TypeInv, (Load /\ UNCHANGED late) \/ FailedReload
    PROVE  running' \in Contents \cup {Foreign, Down} /\ late' \in 0 .. MaxLate
BY TypeInvSplit, BoundAssumption DEF RestTypeOK, Load, FailedReload, mihomo, File

LEMMA TypeInvReload ==
    ASSUME TypeInv, NEW c \in Callers, Reload(c) \/ UndoReload(c)
    PROVE  TypeInv'
<1>1. RestTypeOK'
  BY TypeInvSplit, FailedReloadType
  DEF RestTypeOK, Reload, UndoReload, locks, files, counters
<1>2. CASE Reload(c)
  BY <1>1, <1>2, QuietMove, FailedType DEF Reload, Steps
<1>3. CASE UndoReload(c)
  BY <1>1, <1>3, QuietMove, FailedType
  DEF UndoReload, RollbackCallFails, AfterFailedRollback, Steps
<1> QED BY <1>2, <1>3

LEMMA TypeInvUndo ==
    ASSUME TypeInv, NEW c \in Callers,
           RemoveFirst(c) \/ CopyBack(c) \/ UndoHealth(c)
    PROVE  TypeInv'
<1>1. tx[c] \in Transaction /\ RestTypeOK
  BY TypeInvSplit
<1>2. CASE RemoveFirst(c)
  <2>1. RestTypeOK'
    BY <1>1, <1>2 DEF RestTypeOK, RemoveFirst, File, locks, mihomo, counters
  <2>2. /\ [tx[c] EXCEPT !.phase = "undone", !.rolledBack = TRUE] \in Transaction
        /\ [tx[c] EXCEPT !.phase = "undone", !.rolledBack = TRUE].id = tx[c].id
    BY <1>1 DEF Transaction
  <2> QED BY <1>2, <2>1, <2>2, QuietMove, FailedType DEF RemoveFirst, Steps
<1>3. CASE CopyBack(c)
  <2>1. PICK o \in CopyOutcomes(backups[tx[c].id], active) :
            /\ active' = o.content
            /\ IF o.renamed
               THEN Move(c, "undo", IF o.ok THEN "undoreload" ELSE "cleanup",
                         [tx[c] EXCEPT !.phase = "undone", !.fault = ~o.ok])
               ELSE Move(c, "undo", "cleanup", Faulted(c))
    BY <1>3 DEF CopyBack, UndoSource, AfterUndo
  <2>2. backups[tx[c].id] \in File
    BY <1>1, <1>3, TypeInvSplit DEF RestTypeOK, HasID, Inside, CopyBack
  <2>3. o.content \in File /\ o.ok \in BOOLEAN
    BY <1>1, <2>1, <2>2, CopyOutcomesFile DEF RestTypeOK
  <2>4. RestTypeOK'
    BY <1>1, <1>3, <2>1, <2>3 DEF RestTypeOK, CopyBack, locks, mihomo, counters
  <2>5. /\ [tx[c] EXCEPT !.phase = "undone", !.fault = ~o.ok] \in Transaction
        /\ [tx[c] EXCEPT !.phase = "undone", !.fault = ~o.ok].id = tx[c].id
    BY <1>1, <2>3 DEF Transaction
  <2> QED BY <2>1, <2>4, <2>5, QuietMove, FailedType DEF Steps
<1>4. CASE UndoHealth(c)
  <2>1. RestTypeOK'
    BY <1>1, <1>4 DEF RestTypeOK, UndoHealth, locks, files, mihomo, counters
  <2>2. /\ [tx[c] EXCEPT !.rolledBack = TRUE] \in Transaction
        /\ [tx[c] EXCEPT !.rolledBack = TRUE].id = tx[c].id
    BY <1>1 DEF Transaction
  <2> QED
    BY <1>4, <2>1, <2>2, QuietMove, FailedType
    DEF UndoHealth, RollbackCallFails, AfterFailedRollback, Steps
<1> QED BY <1>2, <1>3, <1>4

LEMMA TypeInvDeferred ==
    ASSUME TypeInv, NEW c \in Callers,
           Cleanup(c) \/ AppendRecord(c) \/ ClearBusy(c) \/ Cancel(c)
    PROVE  TypeInv'
<1>1. tx[c] \in Transaction /\ RestTypeOK /\ pc \in [Callers -> Steps]
  BY TypeInvSplit
<1>2. CASE Cleanup(c)
  <2>1. PICK o \in PruneOutcomes :
            /\ backups' = WithoutFiles(backups, o.removed)
            /\ Move(c, "cleanup", "append",
                    [IF o.ok THEN tx[c] ELSE Failed(c)
                       EXCEPT !.candidate = NoFile])
    BY <1>2 DEF Cleanup, CandidateAfterRemove
  <2>2. RestTypeOK'
    BY <1>1, <1>2, <2>1, RemovalFailsType
    DEF RestTypeOK, Cleanup, WithoutFiles, File, locks, mihomo, counters
  <2>3. \A t \in {tx[c], Failed(c)} :
            /\ [t EXCEPT !.candidate = NoFile] \in Transaction
            /\ [t EXCEPT !.candidate = NoFile].id = tx[c].id
    BY FailedType DEF Transaction, File
  <2> QED BY <2>1, <2>2, <2>3, QuietMove DEF Steps
<1>3. CASE AppendRecord(c)
  <2>1. RestTypeOK'
    BY <1>1, <1>3
    DEF RestTypeOK, AppendRecord, ReportOf, Reports, locks, files, mihomo, counters
  <2> QED BY <1>3, <2>1, QuietMove, FailedType DEF AppendRecord, Steps
<1>4. CASE ClearBusy(c)
  <2>1. RestTypeOK'
    BY <1>1, <1>4, ProcessAssumption
    DEF RestTypeOK, ClearBusy, files, mihomo, counters
  <2> QED BY <1>4, <2>1, QuietMove, FailedType DEF ClearBusy, Steps
<1>5. CASE Cancel(c)
  <2>1. RestTypeOK'
    BY <1>1, <1>5 DEF RestTypeOK, Cancel, locks, files, mihomo, counters
  <2>2. /\ [tx[c] EXCEPT !.cancelled = TRUE] \in Transaction
        /\ [tx[c] EXCEPT !.cancelled = TRUE].id = tx[c].id
    BY <1>1 DEF Transaction
  <2> QED BY <1>1, <1>5, <2>1, <2>2, QuietMove DEF Cancel, Inside
<1> QED BY <1>2, <1>3, <1>4, <1>5

LEMMA TypeInvUnlock ==
    ASSUME TypeInv, NEW c \in Callers, Unlock(c)
    PROVE  TypeInv'
<1>1. NewTx(0, 0) \in Transaction /\ Litter({c}) \in Nat
  BY NewTxType, LitterType, BoundAssumption
<1>2. RestTypeOK'
  BY <1>1, TypeInvSplit, ProcessAssumption
  DEF RestTypeOK, Unlock, mihomo, counters
<1>3. pc' \in [Callers -> Steps] /\ tx' \in [Callers -> Transaction] /\ HasID'
  BY <1>1, TypeInvSplit DEF Unlock, Move, Steps, HasID, Inside, IDs
<1> QED BY <1>2, <1>3, TypeInvSplit DEF TypeInv, TypeOK, RestTypeOK

LEMMA TypeInvCrash ==
    ASSUME TypeInv, NEW p \in Processes, Crash(p)
    PROVE  TypeInv'
<1>1. NewTx(0, 0) \in Transaction /\ Litter(CallersOf(p)) \in Nat
  BY NewTxType, LitterType, BoundAssumption DEF CallersOf
<1>2. RestTypeOK'
  BY <1>1, TypeInvSplit, BoundAssumption
  DEF RestTypeOK, Crash, Reports, mihomo
<1>3. pc' \in [Callers -> Steps] /\ tx' \in [Callers -> Transaction] /\ HasID'
  BY <1>1, TypeInvSplit DEF Crash, Steps, HasID, Inside, IDs
<1> QED BY <1>2, <1>3, TypeInvSplit DEF TypeInv, TypeOK, RestTypeOK

LEMMA TypeInvMihomo ==
    ASSUME TypeInv, MihomoCrash \/ MihomoRestart \/ LateReload
    PROVE  TypeInv'
<1>1. RestTypeOK'
  BY TypeInvSplit, BoundAssumption
  DEF RestTypeOK, MihomoCrash, MihomoRestart, LateReload, StartConfig, Load, File,
      locks, files, counters
<1>2. UNCHANGED <<pc, tx>>
  BY DEF MihomoCrash, MihomoRestart, LateReload
<1>3. pc' \in [Callers -> Steps] /\ tx' \in [Callers -> Transaction] /\ HasID'
  BY <1>2, TypeInvSplit DEF HasID, Inside, IDs
<1> QED BY <1>1, <1>3, TypeInvSplit DEF TypeInv, TypeOK, RestTypeOK

LEMMA TypeInvNext == TypeInv /\ [Next]_vars => TypeInv'
<1> SUFFICES ASSUME TypeInv, [Next]_vars PROVE TypeInv'
  OBVIOUS
<1>1. ASSUME NEW c \in Callers, BeginUpdate(c) PROVE TypeInv'
  BY <1>1, TypeInvBegin, BoundAssumption DEF BeginUpdate
<1>2. ASSUME NEW c \in Callers, BeginRestore(c) PROVE TypeInv'
  <2>1. PICK b \in 1 .. started : Begin(c, b)
    BY <1>2 DEF BeginRestore
  <2>2. b \in 0 .. MaxTx
    BY BoundAssumption, TypeInvSplit DEF RestTypeOK
  <2> QED BY <2>1, <2>2, TypeInvBegin
<1>3. ASSUME NEW c \in Callers, CallerStep(c) PROVE TypeInv'
  BY <1>3, TypeInvMarkBusy, TypeInvPrepare, TypeInvBackup, TypeInvActivateCandidate,
     TypeInvActivateBackup, TypeInvReload, TypeInvUndo, TypeInvDeferred, TypeInvUnlock
  DEF CallerStep
<1>4. ASSUME NEW c \in Callers, Cancel(c) PROVE TypeInv'
  BY <1>4, TypeInvDeferred
<1>5. ASSUME NEW p \in Processes, Crash(p) PROVE TypeInv'
  BY <1>5, TypeInvCrash
<1>6. CASE MihomoCrash \/ MihomoRestart \/ LateReload
  BY <1>6, TypeInvMihomo
<1>7. CASE UNCHANGED vars
  BY <1>7, TypeInvSplit
  DEF TypeInv, TypeOK, HasID, Inside, IDs, vars, locks, files, mihomo, counters
<1> QED BY <1>1, <1>2, <1>3, <1>4, <1>5, <1>6, <1>7 DEF Next

LEMMA TypeInvAlways == Spec => []TypeInv
BY TypeInvInit, TypeInvNext, PTL DEF Spec

\* Every variable keeps its type under every interleaving of calls, failures,
\* kills and restarts.
THEOREM Typing == Spec => []TypeOK
<1>1. TypeInv => TypeOK
  BY DEF TypeInv
<1> QED BY <1>1, TypeInvAlways, PTL

-----------------------------------------------------------------------------
(***************************************************************************)
(* The mutex and the busy flag.  A caller inside a transaction holds the   *)
(* mutex of its process, and the mutex has one holder.                     *)
(***************************************************************************)
HoldsLock == \A c \in Callers : Inside(c) => holder[ProcessOf[c]] = c

LockInv == HoldsLock /\ BusyCoversWork

LEMMA LockInvBegin ==
    ASSUME TypeInv, LockInv, NEW c \in Callers, NEW s, Begin(c, s)
    PROVE  LockInv'
<1>1. \A d \in Callers : Inside(d) => ProcessOf[d] # ProcessOf[c]
  BY CallerAssumption DEF LockInv, HoldsLock, Begin, TryLock
<1>2. /\ pc \in [Callers -> Steps] /\ pc' = [pc EXCEPT ![c] = "mark"]
      /\ holder \in [Processes -> Callers \cup {NoCaller}]
      /\ holder' = [holder EXCEPT ![ProcessOf[c]] = c]
      /\ UNCHANGED busy
  BY TypeInvSplit DEF RestTypeOK, Begin, Move
<1> QED
  BY <1>1, <1>2, ProcessAssumption DEF LockInv, HoldsLock, BusyCoversWork, Inside

\* A step of a caller that is inside and leaves mutex and flag alone.
LEMMA LockInvMove ==
    ASSUME TypeInv, LockInv, NEW c \in Callers,
           NEW from \in Steps \ {"idle", "mark", "unlock"}, NEW to \in Steps, NEW t,
           Move(c, from, to, t), UNCHANGED locks
    PROVE  LockInv'
<1>1. pc \in [Callers -> Steps] /\ pc[c] = from /\ pc' = [pc EXCEPT ![c] = to]
  BY TypeInvSplit DEF Move
<1>2. UNCHANGED <<holder, busy>>
  BY DEF locks
<1> QED BY <1>1, <1>2 DEF LockInv, HoldsLock, BusyCoversWork, Inside

LEMMA LockInvCaller ==
    ASSUME TypeInv, LockInv, NEW c \in Callers, CallerStep(c)
    PROVE  LockInv'
<1> USE DEF Steps
<1>1. CASE MarkBusy(c)
  <2>1. /\ pc \in [Callers -> Steps] /\ pc[c] = "mark"
        /\ pc' = [pc EXCEPT ![c] = IF IsRestore(c) THEN "find" ELSE "directories"]
        /\ busy \in [Processes -> BOOLEAN]
        /\ busy' = [busy EXCEPT ![ProcessOf[c]] = TRUE] /\ UNCHANGED holder
    BY <1>1, TypeInvSplit DEF RestTypeOK, MarkBusy, Move
  <2> QED BY <2>1, ProcessAssumption DEF LockInv, HoldsLock, BusyCoversWork, Inside
<1>2. CASE EnsureDirectories(c) \/ BuildCandidate(c) \/ FindBackup(c)
  BY <1>2, LockInvMove DEF EnsureDirectories, BuildCandidate, FindBackup, Fail
<1>3. CASE Validate(c) \/ BackupActive(c)
  BY <1>3, LockInvMove DEF Validate, BackupActive, Fail
<1>4. CASE ActivateCandidate(c) \/ ActivateBackup(c)
  BY <1>4, LockInvMove DEF ActivateCandidate, ActivateBackup, Fail
<1>5. CASE Reload(c) \/ Health(c)
  BY <1>5, LockInvMove DEF Reload, Health
<1>6. CASE RemoveFirst(c) \/ CopyBack(c)
  BY <1>6, LockInvMove DEF RemoveFirst, CopyBack, AfterUndo
<1>7. CASE UndoReload(c) \/ UndoHealth(c)
  BY <1>7, LockInvMove
  DEF UndoReload, UndoHealth, RollbackCallFails, AfterFailedRollback
<1>8. CASE Cleanup(c) \/ AppendRecord(c)
  BY <1>8, LockInvMove DEF Cleanup, AppendRecord
<1>9. CASE ClearBusy(c)
  <2>1. /\ pc \in [Callers -> Steps] /\ pc[c] = "clear"
        /\ pc' = [pc EXCEPT ![c] = "unlock"]
        /\ busy \in [Processes -> BOOLEAN]
        /\ busy' = [busy EXCEPT ![ProcessOf[c]] = FALSE] /\ UNCHANGED holder
    BY <1>9, TypeInvSplit DEF RestTypeOK, ClearBusy, Move
  <2> QED BY <2>1, ProcessAssumption DEF LockInv, HoldsLock, BusyCoversWork, Inside
<1>10. CASE Unlock(c)
  <2>1. /\ pc \in [Callers -> Steps] /\ pc[c] = "unlock"
        /\ pc' = [pc EXCEPT ![c] = "idle"]
        /\ holder \in [Processes -> Callers \cup {NoCaller}]
        /\ holder' = [holder EXCEPT ![ProcessOf[c]] = NoCaller] /\ UNCHANGED busy
    BY <1>10, TypeInvSplit DEF RestTypeOK, Unlock, Move
  <2> QED BY <2>1, ProcessAssumption DEF LockInv, HoldsLock, BusyCoversWork, Inside
<1> QED
  BY <1>1, <1>2, <1>3, <1>4, <1>5, <1>6, <1>7, <1>8, <1>9, <1>10 DEF CallerStep

LEMMA LockInvOther ==
    ASSUME TypeInv, LockInv,
           \/ \E c \in Callers : Cancel(c)
           \/ \E p \in Processes : Crash(p)
           \/ MihomoCrash \/ MihomoRestart \/ LateReload
           \/ UNCHANGED vars
    PROVE  LockInv'
<1>1. ASSUME NEW c \in Callers, Cancel(c) PROVE LockInv'
  <2>1. UNCHANGED <<pc, holder, busy>>
    BY <1>1, TypeInvSplit DEF Cancel, Move, locks
  <2> QED BY <2>1 DEF LockInv, HoldsLock, BusyCoversWork, Inside
<1>2. ASSUME NEW p \in Processes, Crash(p) PROVE LockInv'
  <2>1. /\ holder' = [holder EXCEPT ![p] = NoCaller]
        /\ busy' = [busy EXCEPT ![p] = FALSE]
        /\ \A c \in Callers : pc'[c] = IF ProcessOf[c] = p THEN "idle" ELSE pc[c]
        /\ holder \in [Processes -> Callers \cup {NoCaller}]
        /\ busy \in [Processes -> BOOLEAN]
    BY <1>2, TypeInvSplit DEF RestTypeOK, Crash, CallersOf
  <2> QED BY <2>1, ProcessAssumption DEF LockInv, HoldsLock, BusyCoversWork, Inside
<1>3. CASE MihomoCrash \/ MihomoRestart \/ LateReload \/ UNCHANGED vars
  <2>1. UNCHANGED <<pc, holder, busy>>
    BY <1>3 DEF MihomoCrash, MihomoRestart, LateReload, locks, vars
  <2> QED BY <2>1 DEF LockInv, HoldsLock, BusyCoversWork, Inside
<1> QED BY <1>1, <1>2, <1>3

LEMMA LockInvAlways == Spec => [](TypeInv /\ LockInv)
<1>1. Init => LockInv
  BY DEF Init, LockInv, HoldsLock, BusyCoversWork, Inside
<1>2. TypeInv /\ LockInv /\ [Next]_vars => LockInv'
  BY LockInvBegin, LockInvCaller, LockInvOther DEF Next, BeginUpdate, BeginRestore
<1> QED BY <1>1, <1>2, TypeInvAlways, PTL DEF Spec

\* The status a client polls never says idle while a transaction works, in
\* every process, whatever the interleaving of Store and Unlock.
THEOREM BusyIsTruthful == Spec => []BusyCoversWork
<1>1. LockInv => BusyCoversWork
  BY DEF LockInv
<1> QED BY <1>1, LockInvAlways, PTL

\* One transaction at a time, as long as one process runs them all.
THEOREM MutualExclusion == ASSUME SingleProcess PROVE Spec => []OneTransaction
<1>1. TypeInv /\ LockInv => OneTransaction
  BY SingleProcess DEF SingleProcess, LockInv, HoldsLock, OneTransaction
<1> QED BY <1>1, LockInvAlways, PTL

-----------------------------------------------------------------------------
(***************************************************************************)
(* The files of one process.  With one caller inside at most, what it has  *)
(* done to the files follows from where it is and from its locals.         *)
(***************************************************************************)
RunsActive == running \in {active, Down}

\* The caller is idle, or runs the transaction that began last.
Identity(c) ==
    /\ ~Inside(c) => tx[c] = NewTx(0, 0)
    /\ Inside(c) => tx[c].id = started /\ tx[c].source < tx[c].id

\* How far the transaction is at each step.
Progress(c) ==
    LET t == tx[c] IN
    /\ pc[c] \in {"mark", "directories", "build", "find", "validate", "backup"} =>
          t.phase = "open" /\ ~t.hadActive
    /\ pc[c] \in {"directories", "build"} => ~IsRestore(c)
    /\ pc[c] = "find" => IsRestore(c)
    /\ pc[c] = "activate" => t.phase = "saved"
    /\ pc[c] \in {"reload", "health", "undo"} => t.phase = "switched"
    /\ pc[c] \in {"undoreload", "undohealth"} => t.phase = "undone" /\ t.hadActive /\ ~t.rolledBack
    /\ pc[c] \in {"undo", "undoreload", "undohealth"} => t.err
    /\ pc[c] \in {"cleanup", "append"} => t.err \/ t.phase = "verified"
    /\ t.rolledBack => t.phase = "undone"

\* What the files hold after each phase.
Content(c) ==
    LET t == tx[c] IN
    /\ pc[c] \in {"validate", "backup", "activate"} => Tested(c) # NoFile
    /\ pc[c] \in {"backup", "activate"} => t.validated = Tested(c)
    /\ t.phase \in {"switched", "verified"} => active = t.validated /\ active # NoFile
    /\ t.hadActive => backups[t.id] # NoFile
    /\ t.phase = "undone" => active = IF t.hadActive THEN backups[t.id] ELSE NoFile

\* When Mihomo is known to run the active file.
Confirmed(c) ==
    LET t == tx[c] IN
    (\/ pc[c] \in {"health", "undohealth"}
     \/ t.phase = "verified"
     \/ t.rolledBack /\ t.hadActive) => RunsActive

\* A rollback left undone, or done and not confirmed, met a fault.
Blame(c) ==
    LET t == tx[c] IN
    pc[c] \in {"cleanup", "append", "clear", "unlock"} /\ ~t.rolledBack =>
        /\ t.phase = "undone" => t.fault
        /\ t.phase = "switched" /\ ~IsRestore(c) => t.fault

CallInv(c) ==
    /\ Identity(c) /\ Progress(c) /\ Content(c) /\ Confirmed(c) /\ Blame(c)
    /\ Unrecorded(c) => report = "none"

\* A backup belongs to a transaction that has begun.
BackupsBegun == \A b \in IDs : b > started => backups[b] = NoFile

FileInv == (\A c \in Callers : CallInv(c)) /\ BackupsBegun /\ ReportedConfigRuns

\* What a proof about a step may assume of the state before it.
Before == TypeInv /\ LockInv /\ FileInv

LEMMA IdleNext ==
    ASSUME NEW d \in Callers, ~Inside(d)', tx'[d] = NewTx(0, 0)
    PROVE  CallInv(d)'
<1>1. /\ pc'[d] = "idle" /\ tx'[d].phase = "open" /\ tx'[d].hadActive = FALSE
      /\ tx'[d].rolledBack = FALSE
  BY DEF Inside, NewTx
<1> QED
  BY <1>1 DEF CallInv, Identity, Progress, Content, Confirmed, Blame, Unrecorded, Inside

\* While one caller is inside, the others are idle and stay so.
LEMMA OthersIdle ==
    ASSUME SingleProcess, Before, NEW c \in Callers, NEW from \in Steps \ {"idle"},
           NEW to, NEW t, Move(c, from, to, t)
    PROVE  \A d \in Callers : d # c => CallInv(d)'
<1> SUFFICES ASSUME NEW d \in Callers, d # c PROVE CallInv(d)'
  OBVIOUS
<1>1. Inside(c) /\ ~Inside(d)
  BY SingleProcess DEF Before, SingleProcess, LockInv, HoldsLock, Move, Inside
<1>2. tx[d] = NewTx(0, 0)
  BY <1>1 DEF Before, FileInv, CallInv, Identity
<1>3. ~Inside(d)' /\ tx'[d] = NewTx(0, 0)
  BY <1>1, <1>2, TypeInvSplit DEF Before, Move, Inside
<1> QED BY <1>3, IdleNext

\* Where the caller is after its step, and with which locals.
LEMMA Moved ==
    ASSUME TypeInv, NEW c \in Callers, NEW from, NEW to, NEW t, Move(c, from, to, t)
    PROVE  pc[c] = from /\ pc'[c] = to /\ tx'[c] = t
BY TypeInvSplit DEF Move

\* It is enough to look at the caller that steps.
LEMMA FileInvMove ==
    ASSUME SingleProcess, Before, NEW c \in Callers, NEW from \in Steps \ {"idle"},
           NEW to, NEW t, Move(c, from, to, t),
           CallInv(c)', BackupsBegun', ReportedConfigRuns'
    PROVE  FileInv'
BY OthersIdle DEF FileInv

\* The steps before the file is switched change no file.
LEMMA FileInvPrepare ==
    ASSUME SingleProcess, Before, NEW c \in Callers,
           MarkBusy(c) \/ EnsureDirectories(c) \/ BuildCandidate(c)
           \/ FindBackup(c) \/ Validate(c)
    PROVE  FileInv'
<1>1. CallInv(c) /\ BackupsBegun /\ ReportedConfigRuns
  BY DEF Before, FileInv
<1>2. UNCHANGED <<active, backups, running, started, report>>
  BY DEF MarkBusy, EnsureDirectories, BuildCandidate, FindBackup, Validate,
         files, mihomo, counters
<1>3. BackupsBegun' /\ ReportedConfigRuns'
  BY <1>1, <1>2 DEF BackupsBegun, ReportedConfigRuns, IDs
<1> USE DEF CallInv, Identity, Progress, Content, Confirmed, Blame, Unrecorded,
            Inside, RunsActive, Tested, IsRestore
<1>4. tx[c] \in Transaction
  BY TypeInvSplit DEF Before
<1>5. CASE MarkBusy(c)
  <2>1. CallInv(c)'
    BY <1>1, <1>2, <1>5, Moved DEF Before, MarkBusy
  <2> QED BY <1>3, <1>5, <2>1, FileInvMove DEF MarkBusy, Steps
<1>6. CASE Move(c, "directories", "append", Failed(c))
  <2>1. CallInv(c)'
    BY <1>1, <1>2, <1>4, <1>6, Moved DEF Before, Failed, Transaction
  <2> QED BY <1>3, <1>6, <2>1, FileInvMove DEF Steps
<1>7. CASE Move(c, "directories", "build", tx[c])
  <2>1. CallInv(c)'
    BY <1>1, <1>2, <1>4, <1>7, Moved DEF Before
  <2> QED BY <1>3, <1>7, <2>1, FileInvMove DEF Steps
<1>8. ASSUME NEW content \in Contents,
             Move(c, "build", "validate", [tx[c] EXCEPT !.candidate = content])
      PROVE  FileInv'
  <2>1. CallInv(c)'
    BY <1>1, <1>2, <1>4, <1>8, Moved, ContentAssumption DEF Before, Transaction
  <2> QED BY <1>3, <1>8, <2>1, FileInvMove DEF Steps
<1>9. ASSUME NEW from \in {"build", "find", "validate"}, Fail(c, from)
      PROVE  FileInv'
  <2>1. CallInv(c)'
    BY <1>1, <1>2, <1>4, <1>9, Moved DEF Before, Fail, Failed, Transaction
  <2> QED BY <1>3, <1>9, <2>1, FileInvMove DEF Fail, Steps
<1>10. CASE FindBackup(c) /\ Move(c, "find", "validate", tx[c])
  <2>1. CallInv(c)'
    BY <1>1, <1>2, <1>4, <1>10, Moved DEF Before, FindBackup, Fail
  <2> QED BY <1>3, <1>10, <2>1, FileInvMove DEF Steps
<1>11. CASE Move(c, "validate", "backup", [tx[c] EXCEPT !.validated = Tested(c)])
  <2>1. CallInv(c)'
    BY <1>1, <1>2, <1>4, <1>11, Moved DEF Before, Transaction
  <2> QED BY <1>3, <1>11, <2>1, FileInvMove DEF Steps
<1> QED
  BY <1>5, <1>6, <1>7, <1>8, <1>9, <1>10, <1>11
  DEF EnsureDirectories, BuildCandidate, FindBackup, Validate

\* The transaction writes its own backup, never one that a restore reads.
LEMMA FileInvBackup ==
    ASSUME SingleProcess, Before, NEW c \in Callers, BackupActive(c)
    PROVE  FileInv'
<1> USE DEF CallInv, Identity, Progress, Content, Confirmed, Blame, Unrecorded,
            Inside, RunsActive, Tested, IsRestore
<1>1. /\ CallInv(c) /\ BackupsBegun /\ ReportedConfigRuns
      /\ pc[c] = "backup" /\ tx[c] \in Transaction /\ tx[c].id \in IDs
      /\ backups \in [IDs -> File]
  BY TypeInvSplit DEF Before, FileInv, BackupActive, RestTypeOK, HasID
<1>2. UNCHANGED <<active, running, started, report>>
  BY DEF BackupActive, mihomo, counters
<1>3. ReportedConfigRuns'
  BY <1>1, <1>2 DEF ReportedConfigRuns
<1>4. CASE /\ Move(c, "backup", "activate", [tx[c] EXCEPT !.phase = "saved"])
           /\ active = NoFile /\ UNCHANGED backups
  <2>1. /\ Move(c, "backup", "activate", [tx[c] EXCEPT !.phase = "saved"])
        /\ UNCHANGED backups
    BY <1>4
  <2>2. BackupsBegun'
    BY <1>1, <1>2, <2>1 DEF BackupsBegun, IDs
  <2>3. CallInv(c)'
    BY <1>1, <1>2, <1>4, <2>1, Moved DEF Before, Transaction
  <2> QED BY <1>3, <2>1, <2>2, <2>3, FileInvMove DEF Steps
<1>5. CASE /\ active # NoFile
           /\ \E o \in CopyOutcomes(active, backups[tx[c].id]) :
                 /\ backups' = [backups EXCEPT ![tx[c].id] = o.content]
                 /\ IF o.ok
                    THEN Move(c, "backup", "activate",
                              [tx[c] EXCEPT !.phase = "saved", !.hadActive = TRUE])
                    ELSE Fail(c, "backup")
  <2>1. PICK o \in CopyOutcomes(active, backups[tx[c].id]) :
            /\ backups' = [backups EXCEPT ![tx[c].id] = o.content]
            /\ IF o.ok
               THEN Move(c, "backup", "activate",
                         [tx[c] EXCEPT !.phase = "saved", !.hadActive = TRUE])
               ELSE Fail(c, "backup")
    BY <1>5
  <2>2. BackupsBegun'
    BY <1>1, <1>2, <2>1, BoundAssumption DEF BackupsBegun, IDs
  <2>3. tx[c].source # tx[c].id /\ tx[c].source \in 0 .. MaxTx
    BY <1>1, BoundAssumption DEF Transaction, IDs
  <2>4. CASE o.ok = TRUE
    <3>1. o.content = active
      BY <2>1, <2>4, CopyOutcomesType
    <3>2. Move(c, "backup", "activate",
               [tx[c] EXCEPT !.phase = "saved", !.hadActive = TRUE])
      BY <2>1, <2>4
    <3>3. tx'[c] = [tx[c] EXCEPT !.phase = "saved", !.hadActive = TRUE]
      BY <3>2, Moved DEF Before
    <3>4. /\ tx'[c].source = tx[c].source /\ tx'[c].candidate = tx[c].candidate
          /\ tx'[c].id = tx[c].id /\ tx'[c].validated = tx[c].validated
          /\ tx'[c].rolledBack = tx[c].rolledBack /\ tx'[c].phase = "saved"
          /\ tx'[c].hadActive = TRUE /\ pc'[c] = "activate"
      BY <1>1, <3>2, <3>3, Moved DEF Before, Transaction
    <3>5. Tested(c)' = Tested(c)
      <4>1. tx[c].source # 0 => tx[c].source \in IDs
        BY <2>3, BoundAssumption DEF IDs
      <4>2. tx[c].source # 0 => backups'[tx[c].source] = backups[tx[c].source]
        BY <1>1, <2>1, <2>3, <4>1
      <4> QED BY <3>4, <4>2
    <3>6. backups'[tx[c].id] # NoFile
      BY <1>1, <1>5, <2>1, <3>1
    <3>7. CallInv(c)'
      <4> HIDE DEF Tested
      <4> QED BY <1>1, <1>2, <3>4, <3>5, <3>6
    <3> QED BY <1>3, <2>2, <3>2, <3>7, FileInvMove DEF Steps
  <2>5. CASE o.ok = FALSE
    <3>1. Move(c, "backup", "cleanup", Failed(c))
      BY <2>1, <2>5 DEF Fail
    <3>2. CallInv(c)'
      BY <1>1, <1>2, <3>1, Moved DEF Before, Failed, Transaction
    <3> QED BY <1>3, <2>2, <3>1, <3>2, FileInvMove DEF Steps
  <2>6. o.ok \in BOOLEAN
    BY <2>1, CopyOutcomesType, ZenonT(60)
  <2> QED BY <2>4, <2>5, <2>6
<1>6. CASE Fail(c, "backup") /\ UNCHANGED backups
  <2>1. BackupsBegun' /\ Move(c, "backup", "cleanup", Failed(c))
    BY <1>1, <1>2, <1>6 DEF BackupsBegun, IDs, Fail
  <2>2. CallInv(c)'
    BY <1>1, <1>2, <1>6, <2>1, Moved DEF Before, Failed, Transaction
  <2> QED BY <1>3, <2>1, <2>2, FileInvMove DEF Steps
<1> QED BY <1>4, <1>5, <1>6, Zenon DEF BackupActive

\* After a rename over the active file ...
LEMMA FileInvSwitch ==
    ASSUME SingleProcess, Before, NEW c \in Callers, pc[c] = "activate",
           NEW to \in {"reload", "undo", "cleanup"}, NEW t \in Transaction,
           t.phase = "switched", t.id = tx[c].id, t.source = tx[c].source,
           t.validated = tx[c].validated, t.hadActive = tx[c].hadActive,
           t.rolledBack = tx[c].rolledBack, to = "undo" => t.err,
           to = "cleanup" => t.err /\ IsRestore(c),
           Move(c, "activate", to, t), active' = Tested(c),
           UNCHANGED <<backups, running, started, report>>
    PROVE  FileInv'
<1> USE DEF CallInv, Identity, Progress, Content, Confirmed, Blame, Unrecorded,
            Inside, RunsActive, IsRestore
<1>1. CallInv(c) /\ BackupsBegun /\ ReportedConfigRuns
  BY DEF Before, FileInv
<1>2. BackupsBegun' /\ ReportedConfigRuns'
  BY <1>1 DEF BackupsBegun, ReportedConfigRuns, IDs
<1>3. pc'[c] = to /\ tx'[c] = t
  BY Moved DEF Before
<1>4. active' = tx[c].validated /\ active' # NoFile /\ tx[c].rolledBack = FALSE
  BY <1>1, TypeInvSplit DEF Before, Transaction
<1>5. CallInv(c)'
  BY <1>1, <1>3, <1>4
<1> QED BY <1>2, <1>5, FileInvMove DEF Steps

\* ... and after a failure that leaves it alone.
LEMMA FileInvNoSwitch ==
    ASSUME SingleProcess, Before, NEW c \in Callers,
           Move(c, "activate", "cleanup", Failed(c)),
           UNCHANGED <<active, backups, running, started, report>>
    PROVE  FileInv'
<1>1. CallInv(c) /\ BackupsBegun /\ ReportedConfigRuns /\ tx[c] \in Transaction
  BY TypeInvSplit DEF Before, FileInv
<1>2. BackupsBegun' /\ ReportedConfigRuns'
  BY <1>1 DEF BackupsBegun, ReportedConfigRuns, IDs
<1>3. CallInv(c)'
  BY <1>1, Moved DEF Before, Failed, Transaction, CallInv, Identity, Progress, Content,
     Confirmed, Blame, Unrecorded, Inside, RunsActive, IsRestore
<1> QED BY <1>2, <1>3, FileInvMove DEF Steps

\* The content that goes live is the one that was tested.
LEMMA FileInvActivateCandidate ==
    ASSUME SingleProcess, Before, NEW c \in Callers, ActivateCandidate(c)
    PROVE  FileInv'
<1>1. /\ UNCHANGED <<backups, running, started, report>>
      /\ tx[c] \in Transaction /\ pc[c] = "activate" /\ tx[c].source = 0
      /\ Tested(c) = tx[c].candidate
  BY TypeInvSplit DEF Before, ActivateCandidate, mihomo, counters, IsRestore, Tested
<1>2. PICK o \in CopyOutcomes(tx[c].candidate, active) :
          /\ active' = o.content
          /\ IF o.renamed
             THEN Move(c, "activate", IF o.ok THEN "reload" ELSE "undo",
                       [Switched(c) EXCEPT !.candidate = NoFile, !.err = ~o.ok])
             ELSE Fail(c, "activate")
  BY DEF ActivateCandidate, ActivateOutcomes
<1>3. CASE o.renamed = TRUE /\ o.content = tx[c].candidate /\ o.ok \in BOOLEAN
  <2> DEFINE t == [Switched(c) EXCEPT !.candidate = NoFile, !.err = ~o.ok]
  <2>1. /\ t \in Transaction /\ t.phase = "switched" /\ t.id = tx[c].id
        /\ t.source = tx[c].source /\ t.validated = tx[c].validated
        /\ t.hadActive = tx[c].hadActive /\ t.rolledBack = tx[c].rolledBack
        /\ t.err = ~o.ok
    BY <1>1, <1>3 DEF Transaction, Switched, File
  <2>2. Move(c, "activate", IF o.ok THEN "reload" ELSE "undo", t)
    BY <1>2, <1>3
  <2> HIDE DEF t
  <2> QED BY <1>1, <1>2, <1>3, <2>1, <2>2, FileInvSwitch
<1>4. CASE o.renamed = FALSE /\ o.content = active
  BY <1>1, <1>2, <1>4, FileInvNoSwitch DEF Fail
<1> QED BY <1>2, <1>3, <1>4, CopyOutcomesType, ZenonT(60)

LEMMA FileInvActivateBackup ==
    ASSUME SingleProcess, Before, NEW c \in Callers, ActivateBackup(c)
    PROVE  FileInv'
<1>1. /\ UNCHANGED <<backups, running, started, report>>
      /\ tx[c] \in Transaction /\ pc[c] = "activate" /\ IsRestore(c)
      /\ Tested(c) = backups[tx[c].source]
  BY TypeInvSplit DEF Before, ActivateBackup, mihomo, counters, Tested
<1>2. PICK o \in CopyOutcomes(backups[tx[c].source], active) :
          /\ active' = o.content
          /\ IF o.renamed
             THEN Move(c, "activate", IF o.ok THEN "reload" ELSE "cleanup",
                       [Switched(c) EXCEPT !.err = ~o.ok])
             ELSE Fail(c, "activate")
  BY DEF ActivateBackup
<1>3. CASE o.renamed = TRUE /\ o.content = backups[tx[c].source] /\ o.ok \in BOOLEAN
  <2> DEFINE t == [Switched(c) EXCEPT !.err = ~o.ok]
  <2>1. /\ t \in Transaction /\ t.phase = "switched" /\ t.id = tx[c].id
        /\ t.source = tx[c].source /\ t.validated = tx[c].validated
        /\ t.hadActive = tx[c].hadActive /\ t.rolledBack = tx[c].rolledBack
        /\ t.err = ~o.ok
    BY <1>1, <1>3 DEF Transaction, Switched
  <2>2. Move(c, "activate", IF o.ok THEN "reload" ELSE "cleanup", t)
    BY <1>2, <1>3
  <2> HIDE DEF t
  <2> QED BY <1>1, <1>2, <1>3, <2>1, <2>2, FileInvSwitch
<1>4. CASE o.renamed = FALSE /\ o.content = active
  BY <1>1, <1>2, <1>4, FileInvNoSwitch DEF Fail
<1> QED BY <1>2, <1>3, <1>4, CopyOutcomesType, ZenonT(60)

\* A reload or a health check, of the new configuration or of the old one,
\* changes no file.
LEMMA FileInvReload ==
    ASSUME SingleProcess, Before, NEW c \in Callers,
           Reload(c) \/ Health(c) \/ UndoReload(c) \/ UndoHealth(c)
    PROVE  FileInv'
<1> USE DEF CallInv, Identity, Progress, Content, Confirmed, Blame, Unrecorded,
            Inside, RunsActive, IsRestore
<1>1. CallInv(c) /\ BackupsBegun /\ tx[c] \in Transaction
  BY TypeInvSplit DEF Before, FileInv
<1>2. UNCHANGED <<active, backups, started, report>>
  BY DEF Reload, Health, UndoReload, UndoHealth, files, counters
<1>3. report = "none"
  BY <1>1 DEF Reload, Health, UndoReload, UndoHealth, Move, RollbackCallFails
<1>4. BackupsBegun' /\ ReportedConfigRuns'
  BY <1>1, <1>2, <1>3 DEF BackupsBegun, ReportedConfigRuns, IDs
<1>5. CASE Move(c, "reload", "health", tx[c]) /\ Load
  <2>1. CallInv(c)'
    BY <1>1, <1>2, <1>5, Moved DEF Before, Load
  <2> QED BY <1>4, <1>5, <2>1, FileInvMove DEF Steps
<1>6. ASSUME NEW from \in {"reload", "health"}, Move(c, from, "undo", Failed(c))
      PROVE  FileInv'
  <2>1. CallInv(c)'
    BY <1>1, <1>2, <1>6, Moved DEF Before, Failed, Transaction
  <2> QED BY <1>4, <1>6, <2>1, FileInvMove DEF Steps
<1>7. CASE Health(c) /\ Move(c, "health", "cleanup", [tx[c] EXCEPT !.phase = "verified"])
  <2>1. UNCHANGED running
    BY <1>7 DEF Health, mihomo
  <2>2. CallInv(c)'
    BY <1>1, <1>2, <1>7, <2>1, Moved DEF Before, Transaction
  <2> QED BY <1>4, <1>7, <2>2, FileInvMove DEF Steps
<1>8. CASE Move(c, "undoreload", "undohealth", tx[c]) /\ Load
  <2>1. CallInv(c)'
    BY <1>1, <1>2, <1>8, Moved DEF Before, Load
  <2> QED BY <1>4, <1>8, <2>1, FileInvMove DEF Steps
<1>9. ASSUME NEW from \in {"undoreload", "undohealth"}, Move(c, from, "cleanup", Faulted(c))
      PROVE  FileInv'
  <2>1. CallInv(c)'
    BY <1>1, <1>2, <1>9, Moved DEF Before, Faulted, Transaction
  <2> QED BY <1>4, <1>9, <2>1, FileInvMove DEF Steps
<1>10. CASE UndoHealth(c) /\ Move(c, "undohealth", "cleanup", [tx[c] EXCEPT !.rolledBack = TRUE])
  <2>1. UNCHANGED running
    BY <1>10 DEF UndoHealth, mihomo
  <2>2. CallInv(c)'
    BY <1>1, <1>2, <1>10, <2>1, Moved DEF Before, Transaction
  <2> QED BY <1>4, <1>10, <2>2, FileInvMove DEF Steps
<1> QED
  BY <1>5, <1>6, <1>7, <1>8, <1>9, <1>10
  DEF Reload, Health, UndoReload, UndoHealth, RollbackCallFails, AfterFailedRollback,
      RollbackContextDone

\* The rollback of the file puts back what the transaction found.
LEMMA FileInvUndo ==
    ASSUME SingleProcess, Before, NEW c \in Callers, RemoveFirst(c) \/ CopyBack(c)
    PROVE  FileInv'
<1> USE DEF CallInv, Identity, Progress, Content, Confirmed, Blame, Unrecorded,
            Inside, RunsActive, IsRestore
<1>1. CallInv(c) /\ BackupsBegun /\ tx[c] \in Transaction /\ pc[c] = "undo"
  BY TypeInvSplit DEF Before, FileInv, RemoveFirst, CopyBack
<1>2. UNCHANGED <<backups, running, started, report>>
  BY DEF RemoveFirst, CopyBack, mihomo, counters
<1>3. report = "none"
  BY <1>1
<1>4. BackupsBegun' /\ ReportedConfigRuns'
  BY <1>1, <1>2, <1>3 DEF BackupsBegun, ReportedConfigRuns, IDs
<1>5. CASE Move(c, "undo", "cleanup", Faulted(c)) /\ active' = active
  <2>1. CallInv(c)'
    BY <1>1, <1>2, <1>5, Moved DEF Before, Faulted, Transaction
  <2> QED BY <1>4, <1>5, <2>1, FileInvMove DEF Steps
<1>6. CASE RemoveFirst(c)
  <2>1. CASE /\ active' = NoFile
             /\ Move(c, "undo", "cleanup",
                     [tx[c] EXCEPT !.phase = "undone", !.rolledBack = TRUE])
    <3>1. tx[c].hadActive = FALSE
      BY <1>1, <1>6 DEF RemoveFirst, Transaction
    <3> DEFINE t == [tx[c] EXCEPT !.phase = "undone", !.rolledBack = TRUE]
    <3>3. /\ t.phase = "undone" /\ t.rolledBack = TRUE /\ t.id = tx[c].id
          /\ t.source = tx[c].source /\ t.hadActive = FALSE /\ t.err = TRUE
      BY <1>1, <3>1 DEF Transaction
    <3>4. tx'[c] = t /\ pc'[c] = "cleanup"
      BY <2>1, Moved DEF Before
    <3> HIDE DEF t
    <3>2. CallInv(c)'
      BY <1>1, <1>2, <2>1, <3>3, <3>4
    <3> QED BY <1>4, <2>1, <3>2, FileInvMove DEF Steps
  <2> QED BY <1>5, <1>6, <2>1 DEF RemoveFirst
<1>7. CASE CopyBack(c)
  <2>1. PICK o \in CopyOutcomes(backups[tx[c].id], active) :
            /\ active' = o.content
            /\ IF o.renamed
               THEN Move(c, "undo", IF o.ok THEN "undoreload" ELSE "cleanup",
                         [tx[c] EXCEPT !.phase = "undone", !.fault = ~o.ok])
               ELSE Move(c, "undo", "cleanup", Faulted(c))
    BY <1>7 DEF CopyBack, UndoSource, AfterUndo
  <2>2. CASE o.renamed = TRUE /\ o.content = backups[tx[c].id] /\ o.ok \in BOOLEAN
    <3> DEFINE t == [tx[c] EXCEPT !.phase = "undone", !.fault = ~o.ok]
    <3>1. /\ t.phase = "undone" /\ (o.ok = FALSE => t.fault = TRUE) /\ t.id = tx[c].id
          /\ t.source = tx[c].source /\ t.hadActive = TRUE
          /\ t.rolledBack = FALSE /\ t.err = TRUE
      BY <1>1, <1>7, <2>2 DEF CopyBack, Transaction
    <3>2. Move(c, "undo", IF o.ok THEN "undoreload" ELSE "cleanup", t)
      BY <2>1, <2>2
    <3> HIDE DEF t
    <3>3. active' = backups[tx[c].id] /\ backups[tx[c].id] # NoFile
      BY <1>1, <1>7, <2>1, <2>2 DEF CopyBack
    <3>4. tx'[c] = t /\ pc'[c] = IF o.ok THEN "undoreload" ELSE "cleanup"
      BY <3>2, Moved DEF Before
    <3>5. CallInv(c)'
      <4>1. CASE o.ok = TRUE
        <5>1. pc'[c] = "undoreload"
          BY <3>4, <4>1
        <5> QED BY <1>1, <1>2, <3>1, <3>3, <3>4, <5>1
      <4>2. CASE o.ok = FALSE
        <5>1. pc'[c] = "cleanup" /\ t.fault = TRUE
          BY <3>1, <3>4, <4>2
        <5> QED BY <1>1, <1>2, <3>1, <3>3, <3>4, <5>1
      <4> QED BY <2>2, <4>1, <4>2
    <3> QED BY <1>4, <3>2, <3>5, FileInvMove DEF Steps
  <2>3. CASE o.renamed = FALSE /\ o.content = active
    BY <1>5, <2>1, <2>3
  <2> QED BY <2>1, <2>2, <2>3, CopyOutcomesType, ZenonT(60)
<1> QED BY <1>6, <1>7

\* The backup of the running transaction is the newest, so it is never pruned.
LEMMA PruneKeepsOwn ==
    ASSUME BackupsBegun, started \in IDs, NEW o \in PruneOutcomes
    PROVE  started \notin o.removed
<1>1. Newer(started) = {}
  BY DEF BackupsBegun, Newer, Present
<1>2. Cardinality(Newer(started)) = 0
  BY <1>1, FS_EmptySet
<1>3. started \notin Excess
  BY <1>2, RetentionAssumption DEF Excess
<1>4. o.removed \subseteq Excess
  BY DEF PruneOutcomes
<1> QED BY <1>3, <1>4

LEMMA FileInvCleanup ==
    ASSUME SingleProcess, Before, NEW c \in Callers, Cleanup(c)
    PROVE  FileInv'
<1> USE DEF CallInv, Identity, Progress, Content, Confirmed, Blame, Unrecorded,
            Inside, RunsActive, IsRestore
<1>1. PICK o \in PruneOutcomes :
          /\ backups' = WithoutFiles(backups, o.removed)
          /\ Move(c, "cleanup", "append",
                  [IF o.ok THEN tx[c] ELSE Failed(c) EXCEPT !.candidate = NoFile])
  BY DEF Cleanup, CandidateAfterRemove
<1>2. /\ CallInv(c) /\ BackupsBegun /\ pc[c] = "cleanup"
      /\ tx[c] \in Transaction /\ tx[c].id = started /\ started \in IDs
      /\ backups \in [IDs -> File]
  BY <1>1, TypeInvSplit DEF Before, FileInv, HasID, RestTypeOK, Move
<1>3. UNCHANGED <<active, running, started, report>> /\ report = "none"
  BY <1>2 DEF Cleanup, mihomo, counters
<1>4. backups'[started] = backups[started]
  BY <1>1, <1>2, PruneKeepsOwn DEF WithoutFiles
<1>5. BackupsBegun' /\ ReportedConfigRuns'
  BY <1>1, <1>2, <1>3 DEF BackupsBegun, ReportedConfigRuns, WithoutFiles, IDs
<1>6. ASSUME NEW t \in {tx[c], Failed(c)},
             Move(c, "cleanup", "append", [t EXCEPT !.candidate = NoFile])
      PROVE  FileInv'
  <2> DEFINE u == [t EXCEPT !.candidate = NoFile]
  <2>1. /\ u.phase = tx[c].phase /\ u.id = tx[c].id /\ u.source = tx[c].source
        /\ u.hadActive = tx[c].hadActive /\ u.rolledBack = tx[c].rolledBack
        /\ u.validated = tx[c].validated /\ u.fault = tx[c].fault
        /\ u.err = tx[c].err \/ u.err = TRUE
    BY <1>2 DEF Failed, Transaction
  <2>2. tx'[c] = u /\ pc'[c] = "append"
    BY <1>6, Moved DEF Before
  <2> HIDE DEF u
  <2>3. CallInv(c)'
    BY <1>2, <1>3, <1>4, <2>1, <2>2
  <2> QED BY <1>5, <1>6, <2>3, FileInvMove DEF Steps
<1> QED BY <1>1, <1>6

\* The record is written from locals that agree with the files and with Mihomo.
LEMMA FileInvAppend ==
    ASSUME SingleProcess, Before, NEW c \in Callers, AppendRecord(c)
    PROVE  FileInv'
<1> USE DEF CallInv, Identity, Progress, Content, Confirmed, Blame, Unrecorded,
            Inside, RunsActive, IsRestore
<1>1. CallInv(c) /\ BackupsBegun /\ tx[c] \in Transaction /\ pc[c] = "append"
  BY TypeInvSplit DEF Before, FileInv, AppendRecord, Move
<1>2. UNCHANGED <<active, backups, running, started>> /\ report' = ReportOf(tx[c])
  BY DEF AppendRecord, files, mihomo, counters
<1>3. BackupsBegun'
  BY <1>1, <1>2 DEF BackupsBegun, IDs
<1>4. ReportedConfigRuns'
  <2>1. CASE ~tx[c].err
    BY <1>1, <1>2, <2>1 DEF ReportOf, ReportedConfigRuns
  <2>2. CASE tx[c].err /\ tx[c].rolledBack
    BY <1>1, <1>2, <2>2 DEF ReportOf, ReportedConfigRuns
  <2>3. CASE tx[c].err /\ ~tx[c].rolledBack
    BY <1>1, <1>2, <2>3 DEF ReportOf, ReportedConfigRuns
  <2> QED BY <2>1, <2>2, <2>3
<1>5. ASSUME NEW t \in {tx[c], Failed(c)}, Move(c, "append", "clear", t)
      PROVE  FileInv'
  <2>1. CallInv(c)'
    BY <1>1, <1>2, <1>5, Moved DEF Before, Failed, Transaction
  <2> QED BY <1>3, <1>4, <1>5, <2>1, FileInvMove DEF Steps
<1> QED BY <1>5 DEF AppendRecord

LEMMA FileInvRelease ==
    ASSUME SingleProcess, Before, NEW c \in Callers, ClearBusy(c) \/ Unlock(c)
    PROVE  FileInv'
<1>1. CallInv(c) /\ BackupsBegun /\ ReportedConfigRuns
  BY DEF Before, FileInv
<1>2. UNCHANGED <<active, backups, running, started, report>>
  BY DEF ClearBusy, Unlock, files, mihomo, counters
<1>3. BackupsBegun' /\ ReportedConfigRuns'
  BY <1>1, <1>2 DEF BackupsBegun, ReportedConfigRuns, IDs
<1>4. CASE ClearBusy(c)
  <2>1. CallInv(c)'
    BY <1>1, <1>2, <1>4, Moved DEF Before, ClearBusy, CallInv, Identity, Progress,
       Content, Confirmed, Blame, Unrecorded, Inside, RunsActive, IsRestore
  <2> QED BY <1>3, <1>4, <2>1, FileInvMove DEF ClearBusy, Steps
<1>5. CASE Unlock(c)
  <2>1. CallInv(c)'
    BY <1>5, Moved, IdleNext DEF Before, Unlock, Inside
  <2> QED BY <1>3, <1>5, <2>1, FileInvMove DEF Unlock, Steps
<1> QED BY <1>4, <1>5

LEMMA FileInvCancel ==
    ASSUME SingleProcess, Before, NEW c \in Callers, Cancel(c)
    PROVE  FileInv'
<1>1. CallInv(c) /\ BackupsBegun /\ ReportedConfigRuns /\ tx[c] \in Transaction
  BY TypeInvSplit DEF Before, FileInv
<1>2. UNCHANGED <<active, backups, running, started, report>>
  BY DEF Cancel, files, mihomo, counters
<1>3. BackupsBegun' /\ ReportedConfigRuns'
  BY <1>1, <1>2 DEF BackupsBegun, ReportedConfigRuns, IDs
<1>4. Move(c, pc[c], pc[c], [tx[c] EXCEPT !.cancelled = TRUE])
      /\ pc[c] \in Steps \ {"idle"}
  BY TypeInvSplit DEF Before, Cancel, Inside
<1>5. CallInv(c)'
  BY <1>1, <1>2, <1>4, Moved DEF Before, CallInv, Identity, Progress, Content,
     Confirmed, Blame, Unrecorded, Inside, RunsActive, IsRestore, Tested, Transaction
<1> QED BY <1>3, <1>4, <1>5, FileInvMove

LEMMA FileInvBegin ==
    ASSUME SingleProcess, Before, NEW c \in Callers, NEW s \in 0 .. started, Begin(c, s)
    PROVE  FileInv'
<1>1. /\ pc' = [pc EXCEPT ![c] = "mark"] /\ pc \in [Callers -> Steps]
      /\ tx' = [tx EXCEPT ![c] = NewTx(started + 1, s)] /\ tx \in [Callers -> Transaction]
      /\ started' = started + 1 /\ report' = "none" /\ started \in Nat
      /\ UNCHANGED <<active, backups, running>>
  BY TypeInvSplit, BoundAssumption DEF Before, RestTypeOK, Begin, Move, files, mihomo
<1>2. \A d \in Callers : ~Inside(d)
  BY SingleProcess, CallerAssumption
  DEF Before, SingleProcess, LockInv, HoldsLock, Begin, TryLock
<1>3. ASSUME NEW d \in Callers, d # c PROVE CallInv(d)'
  <2>1. ~Inside(d)' /\ tx'[d] = NewTx(0, 0)
    BY <1>1, <1>2, <1>3 DEF Before, FileInv, CallInv, Identity, Inside
  <2> QED BY <2>1, IdleNext
<1>4. CallInv(c)'
  <2>1. pc'[c] = "mark" /\ tx'[c] = NewTx(started + 1, s)
    BY <1>1
  <2> QED
    BY <1>1, <2>1 DEF NewTx, CallInv, Identity, Progress, Content, Confirmed, Blame,
       Unrecorded, Inside, IsRestore
<1>5. BackupsBegun'
  BY <1>1 DEF Before, FileInv, BackupsBegun, IDs
<1>6. ReportedConfigRuns'
  BY <1>1 DEF ReportedConfigRuns
<1> QED BY <1>3, <1>4, <1>5, <1>6 DEF FileInv

LEMMA FileInvCrash ==
    ASSUME SingleProcess, Before, NEW p \in Processes, Crash(p)
    PROVE  FileInv'
<1>1. /\ UNCHANGED <<active, backups, running, started>>
      /\ report' \in {"crashed", report}
      /\ \A c \in Callers :
            /\ pc'[c] = IF ProcessOf[c] = p THEN "idle" ELSE pc[c]
            /\ tx'[c] = IF ProcessOf[c] = p THEN NewTx(0, 0) ELSE tx[c]
  BY DEF Crash, CallersOf, mihomo
<1>2. BackupsBegun' /\ ReportedConfigRuns'
  BY <1>1 DEF Before, FileInv, BackupsBegun, ReportedConfigRuns, IDs
<1>3. ASSUME NEW c \in Callers PROVE CallInv(c)'
  <2>1. CASE ProcessOf[c] = p
    BY <1>1, <2>1, IdleNext DEF Inside
  <2>2. CASE ProcessOf[c] # p
    <3>1. \A d \in Callers : ProcessOf[d] # p
      BY <2>2, SingleProcess DEF SingleProcess
    <3>2. report' = report
      BY <3>1 DEF Crash, CallersOf
    <3>3. pc'[c] = pc[c] /\ tx'[c] = tx[c] /\ CallInv(c)
      BY <1>1, <2>2 DEF Before, FileInv
    <3> QED
      BY <1>1, <3>2, <3>3 DEF CallInv, Identity, Progress, Content, Confirmed, Blame,
         Unrecorded, Inside, RunsActive, IsRestore, Tested
  <2> QED BY <2>1, <2>2
<1> QED BY <1>2, <1>3 DEF FileInv

\* Mihomo never leaves the active file for another configuration but by
\* stopping: a start and a reload both load the file.
LEMMA FileInvMihomo ==
    ASSUME Before, MihomoCrash \/ MihomoRestart \/ LateReload
    PROVE  FileInv'
<1>1. UNCHANGED <<pc, tx, active, backups, started, report>>
  BY DEF MihomoCrash, MihomoRestart, LateReload, files, counters
<1>2. RunsActive /\ active # NoFile => RunsActive'
  BY <1>1 DEF RunsActive, MihomoCrash, MihomoRestart, LateReload, StartConfig, Load
<1>3. ASSUME NEW c \in Callers PROVE CallInv(c)'
  <2>1. CallInv(c) /\ tx[c] \in Transaction
    BY TypeInvSplit DEF Before, FileInv
  <2>2. Confirmed(c)'
    BY <1>1, <1>2, <2>1 DEF CallInv, Confirmed, Progress, Content, Transaction
  <2>3. Content(c)'
    BY <1>1, <2>1 DEF CallInv, Content, Tested, IsRestore
  <2> QED
    BY <1>1, <2>1, <2>2, <2>3
    DEF CallInv, Identity, Progress, Blame, Unrecorded, Inside, IsRestore
<1>4. BackupsBegun' /\ ReportedConfigRuns'
  BY <1>1, <1>2 DEF Before, FileInv, BackupsBegun, ReportedConfigRuns, RunsActive, IDs
<1> QED BY <1>3, <1>4 DEF FileInv

LEMMA FileInvInit == Init => FileInv
<1> SUFFICES ASSUME Init PROVE FileInv
  OBVIOUS
<1>1. ASSUME NEW c \in Callers PROVE CallInv(c)
  BY <1>1 DEF Init, NewTx, CallInv, Identity, Progress, Content, Confirmed, Blame,
     Unrecorded, Inside
<1> QED BY <1>1 DEF Init, FileInv, BackupsBegun, ReportedConfigRuns

LEMMA FileInvNext ==
    ASSUME SingleProcess, Before, [Next]_vars
    PROVE  FileInv'
<1>1. ASSUME NEW c \in Callers, BeginUpdate(c) \/ BeginRestore(c) PROVE FileInv'
  <2>1. PICK s \in 0 .. started : Begin(c, s)
    <3>1. started \in Nat
      BY TypeInvSplit, BoundAssumption DEF Before, RestTypeOK
    <3> QED BY <1>1, <3>1 DEF BeginUpdate, BeginRestore
  <2> QED BY <2>1, FileInvBegin
<1>2. ASSUME NEW c \in Callers, CallerStep(c) PROVE FileInv'
  BY <1>2, FileInvPrepare, FileInvBackup, FileInvActivateCandidate,
     FileInvActivateBackup, FileInvReload, FileInvUndo, FileInvCleanup, FileInvAppend,
     FileInvRelease
  DEF CallerStep
<1>3. ASSUME NEW c \in Callers, Cancel(c) PROVE FileInv'
  BY <1>3, FileInvCancel
<1>4. ASSUME NEW p \in Processes, Crash(p) PROVE FileInv'
  BY <1>4, FileInvCrash
<1>5. CASE MihomoCrash \/ MihomoRestart \/ LateReload
  BY <1>5, FileInvMihomo
<1>6. CASE UNCHANGED vars
  <2>1. UNCHANGED <<pc, tx, active, backups, running, started, report>>
    BY <1>6 DEF vars, files, mihomo, counters
  <2> QED
    BY <2>1 DEF Before, FileInv, CallInv, Identity, Progress, Content, Confirmed, Blame,
       Unrecorded, Inside, RunsActive, IsRestore, Tested, BackupsBegun, IDs,
       ReportedConfigRuns
<1> QED BY <1>1, <1>2, <1>3, <1>4, <1>5, <1>6 DEF Next

LEMMA FileInvAlways == ASSUME SingleProcess PROVE Spec => [](TypeInv /\ LockInv /\ FileInv)
<1>1. TypeInv /\ LockInv /\ FileInv /\ [Next]_vars => FileInv'
  BY SingleProcess, FileInvNext DEF Before
<1> QED BY <1>1, FileInvInit, LockInvAlways, PTL DEF Spec

\* The tested content is the live one, from the switch to the end.
THEOREM TestedGoesLive == ASSUME SingleProcess PROVE Spec => []ValidatedIsLive
<1>1. FileInv => ValidatedIsLive
  BY DEF FileInv, CallInv, Content, ValidatedIsLive
<1> QED BY <1>1, FileInvAlways, PTL

\* Pruning never takes the configuration a transaction replaced.
THEOREM UndoStaysPossible == ASSUME SingleProcess PROVE Spec => []PreviousConfigKept
<1>1. FileInv => PreviousConfigKept
  BY DEF FileInv, CallInv, Content, PreviousConfigKept
<1> QED BY <1>1, FileInvAlways, PTL

\* A cancelled caller cannot prevent the rollback.
THEOREM RollbackIsIndependent ==
    ASSUME SingleProcess PROVE Spec => []RollbackFailsOnlyByFault
<1>1. FileInv => RollbackFailsOnlyByFault
  BY DEF FileInv, CallInv, Blame, RollbackFailsOnlyByFault
<1> QED BY <1>1, FileInvAlways, PTL

\* Mihomo runs the configuration the history calls live.
THEOREM HistoryIsTruthful == ASSUME SingleProcess PROVE Spec => []ReportedConfigRuns
<1>1. FileInv => ReportedConfigRuns
  BY DEF FileInv
<1> QED BY <1>1, FileInvAlways, PTL

-----------------------------------------------------------------------------
(***************************************************************************)
(* What transactions leave on the disk: backups and candidate files.       *)
(***************************************************************************)
Few == Cardinality(Present) <= BackupRetention

LEMMA PresentFinite == IsFiniteSet(Present)
<1>1. IsFiniteSet(IDs)
  BY BoundAssumption, FS_Interval DEF IDs
<1> QED BY <1>1, FS_Subset DEF Present

\* A set of IDs that is not empty has an oldest one.
LEMMA OldestExists ==
    ASSUME NEW S \in SUBSET IDs, S # {}
    PROVE  \E m \in S : \A b \in S : m <= b
<1>1. S \subseteq Nat
  BY BoundAssumption DEF IDs
<1>2. PICK m \in S : \A b \in S : ~(<<b, m>> \in OpToRel(<, Nat))
  BY <1>1, NatLessThanWellFounded, WFMin
<1>3. ASSUME NEW b \in S, b < m PROVE <<b, m>> \in OpToRel(<, Nat)
  BY <1>1, <1>3 DEF OpToRel
<1>4. \A b \in S : ~(b < m) /\ b \in Nat /\ m \in Nat
  BY <1>1, <1>2, <1>3
<1> QED BY <1>4

\* What pruneBackups leaves is no more than the retention: the oldest backup it
\* keeps has fewer newer ones than that.
LEMMA KeptAreFew == Cardinality(Present \ Excess) <= BackupRetention
<1> DEFINE Kept == Present \ Excess
<1>1. IsFiniteSet(Kept) /\ Cardinality(Kept) \in Nat /\ Kept \in SUBSET IDs
  BY PresentFinite, FS_Subset, FS_CardinalityType DEF Present
<1>2. CASE Kept = {}
  BY <1>2, FS_EmptySet, RetentionAssumption
<1>3. CASE Kept # {}
  <2> HIDE DEF Kept
  <2>1. PICK m \in Kept : \A b \in Kept : m <= b
    BY <1>1, <1>3, OldestExists
  <2>2. IsFiniteSet(Newer(m)) /\ Cardinality(Newer(m)) \in Nat
    BY PresentFinite, FS_Subset, FS_CardinalityType DEF Newer
  <2>3. Cardinality(Newer(m)) < BackupRetention
    BY <2>2, RetentionAssumption DEF Excess, Kept
  <2>4. Kept \ {m} \subseteq Newer(m)
    <3>1. \A b \in Kept \ {m} : b > m
      BY <1>1, <2>1, BoundAssumption DEF IDs
    <3> QED BY <3>1 DEF Newer, Kept
  <2>5. Cardinality(Kept \ {m}) <= Cardinality(Newer(m))
    BY <2>2, <2>4, FS_Subset
  <2>6. Cardinality(Kept \ {m}) = Cardinality(Kept) - 1
    BY <1>1, <2>1, FS_RemoveElement
  <2> QED BY <1>1, <2>2, <2>3, <2>5, <2>6, RetentionAssumption DEF Kept
<1> QED BY <1>2, <1>3

\* Before its record is written, a success has pruned the directory.
PruneInv ==
    /\ \A c \in Callers : pc[c] = "append" /\ ~tx[c].err => Few
    /\ SuccessPrunesBackups

\* A step that keeps the backups and writes no record, and the caller that ends
\* it at "append", if one does, has met an error.
LEMMA PruneInvKept ==
    ASSUME PruneInv, UNCHANGED backups, report' # "success" \/ report' = report,
           \A c \in Callers : pc'[c] = "append" /\ ~tx'[c].err =>
               pc[c] = "append" /\ ~tx[c].err
    PROVE  PruneInv'
<1>1. Present' = Present
  BY DEF Present
<1> QED BY <1>1 DEF PruneInv, Few, SuccessPrunesBackups

\* A step of a caller that goes on to another step than "append".
LEMMA PruneInvMove ==
    ASSUME SingleProcess, Before, PruneInv, NEW c \in Callers,
           NEW from \in Steps \ {"idle"}, NEW to, NEW t, Move(c, from, to, t),
           to = "append" => t.err, UNCHANGED report,
           UNCHANGED backups \/ Unrecorded(c)
    PROVE  PruneInv'
<1>1. pc'[c] = to /\ tx'[c] = t /\ pc[c] = from
  BY Moved DEF Before
<1>2. \A d \in Callers : d # c => ~Inside(d)'
  <2>1. Inside(c) /\ \A d \in Callers : d # c => ~Inside(d)
    BY <1>1, SingleProcess
    DEF Before, SingleProcess, LockInv, HoldsLock, Inside
  <2> QED BY <2>1, TypeInvSplit DEF Before, Move, Inside
<1>3. \A d \in Callers : pc'[d] = "append" => d = c /\ t.err
  BY <1>1, <1>2 DEF Inside
<1>4. CASE UNCHANGED backups
  BY <1>1, <1>3, <1>4, PruneInvKept
<1>5. CASE Unrecorded(c)
  <2>1. report' = "none"
    BY <1>5 DEF Before, FileInv, CallInv
  <2> QED BY <1>1, <1>3, <2>1 DEF PruneInv, SuccessPrunesBackups
<1> QED BY <1>4, <1>5

LEMMA PruneInvCaller ==
    ASSUME SingleProcess, Before, PruneInv, NEW c \in Callers, CallerStep(c)
    PROVE  PruneInv'
<1> USE DEF Steps
<1>1. CASE MarkBusy(c) \/ BuildCandidate(c) \/ FindBackup(c) \/ Validate(c)
  BY <1>1, PruneInvMove DEF MarkBusy, BuildCandidate, FindBackup, Validate, Fail, files
<1>2. CASE EnsureDirectories(c)
  <2>1. Failed(c).err = TRUE
    BY TypeInvSplit DEF Before, Failed, Transaction
  <2> QED BY <1>2, <2>1, PruneInvMove DEF EnsureDirectories, files
<1>3. CASE BackupActive(c)
  <2>1. Unrecorded(c) /\ UNCHANGED report
    BY <1>3 DEF BackupActive, Unrecorded
  <2> QED BY <1>3, <2>1, PruneInvMove DEF BackupActive, Fail
<1>4. CASE ActivateCandidate(c) \/ ActivateBackup(c)
  BY <1>4, PruneInvMove DEF ActivateCandidate, ActivateBackup, Fail
<1>5. CASE Reload(c) \/ Health(c)
  BY <1>5, PruneInvMove DEF Reload, Health, files
<1>6. CASE RemoveFirst(c) \/ CopyBack(c)
  BY <1>6, PruneInvMove DEF RemoveFirst, CopyBack, AfterUndo
<1>7. CASE UndoReload(c) \/ UndoHealth(c)
  BY <1>7, PruneInvMove
  DEF UndoReload, UndoHealth, RollbackCallFails, AfterFailedRollback, files
<1>8. CASE Cleanup(c)
  <2>1. PICK o \in PruneOutcomes :
            /\ backups' = WithoutFiles(backups, o.removed)
            /\ Move(c, "cleanup", "append",
                    [IF o.ok THEN tx[c] ELSE Failed(c) EXCEPT !.candidate = NoFile])
    BY <1>8 DEF Cleanup, CandidateAfterRemove
  <2>2. report' = "none" /\ Unrecorded(c) /\ UNCHANGED report /\ tx[c] \in Transaction
    BY <1>8, <2>1, TypeInvSplit
    DEF Before, FileInv, CallInv, Cleanup, Move, Unrecorded
  <2>3. CASE o.ok = TRUE
    <3>1. o.removed = Excess
      BY <2>1, <2>3 DEF PruneOutcomes
    <3>2. Present' = Present \ Excess
      BY <2>1, <3>1 DEF Present, WithoutFiles
    <3>3. Few'
      BY <3>2, KeptAreFew DEF Few
    <3> QED BY <2>2, <3>3 DEF PruneInv, SuccessPrunesBackups
  <2>4. CASE o.ok = FALSE
    <3> DEFINE t == [Failed(c) EXCEPT !.candidate = NoFile]
    <3>1. t.err = TRUE
      BY <2>2 DEF Failed, Transaction
    <3>2. Move(c, "cleanup", "append", t)
      BY <2>1, <2>4
    <3> HIDE DEF t
    <3> QED BY <2>2, <3>1, <3>2, PruneInvMove
  <2>5. o.ok = TRUE \/ o.ok = FALSE
    <3>1. CASE \E d \in Excess : o = [removed |-> {b \in Excess : b > d}, ok |-> FALSE]
      BY <3>1
    <3>2. CASE o = [removed |-> Excess, ok |-> TRUE]
      BY <3>2
    <3>3. CASE o = [removed |-> {}, ok |-> FALSE]
      BY <3>3
    <3> QED BY <3>1, <3>2, <3>3 DEF PruneOutcomes
  <2> QED BY <2>3, <2>4, <2>5
<1>9. CASE AppendRecord(c)
  <2>1. pc[c] = "append" /\ pc'[c] = "clear" /\ report' = ReportOf(tx[c])
        /\ UNCHANGED backups
    BY <1>9, Moved DEF Before, AppendRecord, Move, files
  <2>2. \A d \in Callers : pc'[d] # "append"
    <3>1. \A d \in Callers : d # c => pc[d] = "idle"
      BY <2>1, SingleProcess
      DEF Before, SingleProcess, LockInv, HoldsLock, Inside
    <3> QED BY <1>9, <2>1, <3>1, TypeInvSplit DEF Before, AppendRecord, Move
  <2>3. Present' = Present
    BY <2>1 DEF Present
  <2> QED BY <2>1, <2>2, <2>3 DEF PruneInv, Few, SuccessPrunesBackups, ReportOf
<1>10. CASE ClearBusy(c) \/ Unlock(c)
  BY <1>10, PruneInvMove DEF ClearBusy, Unlock, files
<1> QED
  BY <1>1, <1>2, <1>3, <1>4, <1>5, <1>6, <1>7, <1>8, <1>9, <1>10 DEF CallerStep

LEMMA PruneInvNext ==
    ASSUME SingleProcess, Before, PruneInv, [Next]_vars
    PROVE  PruneInv'
<1>1. ASSUME NEW c \in Callers, BeginUpdate(c) \/ BeginRestore(c) PROVE PruneInv'
  <2>1. PICK s : Begin(c, s)
    BY <1>1 DEF BeginUpdate, BeginRestore
  <2>2. pc' = [pc EXCEPT ![c] = "mark"] /\ tx' = [tx EXCEPT ![c] = NewTx(started + 1, s)]
        /\ report' = "none" /\ UNCHANGED backups
    BY <2>1 DEF Begin, Move, files
  <2> QED BY <2>2, PruneInvKept, TypeInvSplit DEF Before
<1>2. ASSUME NEW c \in Callers, CallerStep(c) PROVE PruneInv'
  BY <1>2, PruneInvCaller
<1>3. ASSUME NEW c \in Callers, Cancel(c) PROVE PruneInv'
  <2>1. [tx[c] EXCEPT !.cancelled = TRUE].err = tx[c].err
    BY TypeInvSplit DEF Before, Transaction
  <2>2. pc' = pc /\ UNCHANGED <<backups, report>>
        /\ tx' = [tx EXCEPT ![c] = [tx[c] EXCEPT !.cancelled = TRUE]]
    BY <1>3, TypeInvSplit DEF Before, Cancel, Move, files
  <2> QED BY <2>1, <2>2, PruneInvKept, TypeInvSplit DEF Before
<1>4. ASSUME NEW p \in Processes, Crash(p) PROVE PruneInv'
  <2>1. /\ UNCHANGED backups /\ report' \in {"crashed", report}
        /\ \A c \in Callers :
              /\ pc'[c] = IF ProcessOf[c] = p THEN "idle" ELSE pc[c]
              /\ tx'[c] = IF ProcessOf[c] = p THEN NewTx(0, 0) ELSE tx[c]
    BY <1>4 DEF Crash, CallersOf
  <2> QED BY <2>1, PruneInvKept
<1>5. CASE MihomoCrash \/ MihomoRestart \/ LateReload \/ UNCHANGED vars
  <2>1. UNCHANGED <<pc, tx, backups, report>>
    BY <1>5 DEF MihomoCrash, MihomoRestart, LateReload, vars, files
  <2> QED BY <2>1, PruneInvKept
<1> QED BY <1>1, <1>2, <1>3, <1>4, <1>5 DEF Next

\* After a transaction recorded as a success the backup directory is within the
\* retention, whatever happened to the transactions before it.
THEOREM SuccessPrunes == ASSUME SingleProcess PROVE Spec => []SuccessPrunesBackups
<1>1. Init => PruneInv
  BY DEF Init, PruneInv, SuccessPrunesBackups
<1>2. TypeInv /\ LockInv /\ FileInv /\ PruneInv /\ [Next]_vars => PruneInv'
  BY SingleProcess, PruneInvNext DEF Before
<1>3. PruneInv => SuccessPrunesBackups
  BY DEF PruneInv
<1> QED BY <1>1, <1>2, <1>3, FileInvAlways, PTL DEF Spec

\* Where a caller may be while its candidate file exists.
HoldsCandidate ==
    {"validate", "backup", "activate", "reload", "health", "undo", "undoreload",
     "undohealth", "cleanup"}

LitterInv ==
    /\ \A c \in Callers : pc[c] \notin HoldsCandidate => tx[c].candidate = NoFile
    /\ LitterHasACause

\* Callers of one process that have a candidate are one at most.
LEMMA LitterOfOneProcess ==
    ASSUME TypeInv, LockInv, LitterInv, NEW p \in Processes
    PROVE  Litter(CallersOf(p)) \in 0 .. 1
<1> DEFINE Owners == {c \in CallersOf(p) : tx[c].candidate # NoFile}
<1>1. \A c, d \in Owners : c = d
  BY DEF LitterInv, HoldsCandidate, LockInv, HoldsLock, Inside, CallersOf
<1>2. CASE Owners = {}
  BY <1>2, FS_EmptySet DEF Litter
<1>3. CASE Owners # {}
  <2>1. PICK c \in Owners : Owners = {c}
    BY <1>1, <1>3
  <2>2. Cardinality(Owners) = 1
    BY <2>1, FS_Singleton
  <2> QED BY <2>2 DEF Litter
<1> QED BY <1>2, <1>3

\* A step that leaves the litter alone, of a caller that keeps its candidate
\* until it is past the cleanup.
LEMMA LitterInvMove ==
    ASSUME TypeInv, LitterInv, NEW c \in Callers, NEW from, NEW to, NEW t,
           Move(c, from, to, t),
           to \notin HoldsCandidate => t.candidate = NoFile,
           UNCHANGED <<litter, crashes, unremoved>>
    PROVE  LitterInv'
<1>1. pc' = [pc EXCEPT ![c] = to] /\ tx' = [tx EXCEPT ![c] = t]
      /\ pc \in [Callers -> Steps] /\ tx \in [Callers -> Transaction]
  BY TypeInvSplit DEF Move
<1>2. ASSUME NEW d \in Callers, pc'[d] \notin HoldsCandidate
      PROVE  tx'[d].candidate = NoFile
  <2>1. CASE d = c
    BY <1>1, <1>2, <2>1
  <2>2. CASE d # c
    BY <1>1, <1>2, <2>2 DEF LitterInv
  <2> QED BY <2>1, <2>2
<1> QED BY <1>2 DEF LitterInv, LitterHasACause, HoldsCandidate

\* A removal that fails adds to both sides.
LEMMA LitterInvRemovalFails ==
    ASSUME TypeInv, LitterInv, NEW c \in Callers, NEW from, NEW to, NEW t,
           Move(c, from, to, t),
           to \notin HoldsCandidate => t.candidate = NoFile,
           RemovalFails, UNCHANGED crashes
    PROVE  LitterInv'
<1>1. /\ pc' = [pc EXCEPT ![c] = to] /\ tx' = [tx EXCEPT ![c] = t]
      /\ pc \in [Callers -> Steps] /\ tx \in [Callers -> Transaction]
  BY TypeInvSplit DEF Move
<1>2. ASSUME NEW d \in Callers, pc'[d] \notin HoldsCandidate
      PROVE  tx'[d].candidate = NoFile
  <2>1. CASE d = c
    BY <1>1, <1>2, <2>1
  <2>2. CASE d # c
    BY <1>1, <1>2, <2>2 DEF LitterInv
  <2> QED BY <2>1, <2>2
<1>3. LitterHasACause'
  BY TypeInvSplit, BoundAssumption
  DEF RestTypeOK, LitterInv, LitterHasACause, RemovalFails
<1> QED BY <1>2, <1>3 DEF LitterInv, HoldsCandidate

LEMMA LitterInvCaller ==
    ASSUME TypeInv, LockInv, LitterInv, NEW c \in Callers, CallerStep(c)
    PROVE  LitterInv'
<1>1. /\ tx[c] \in Transaction /\ Failed(c).candidate = tx[c].candidate
      /\ pc[c] \notin HoldsCandidate => tx[c].candidate = NoFile
  BY TypeInvSplit DEF LitterInv, Failed, Transaction
<1> USE DEF HoldsCandidate
<1>2. CASE MarkBusy(c) \/ EnsureDirectories(c)
  <2>1. tx[c].candidate = NoFile /\ Failed(c).candidate = NoFile
    BY <1>1, <1>2 DEF MarkBusy, EnsureDirectories, Move
  <2> QED
    BY <1>2, <2>1, LitterInvMove DEF MarkBusy, EnsureDirectories, files, counters
<1>3. CASE BuildCandidate(c) \/ FindBackup(c) \/ Validate(c)
  BY <1>3, LitterInvMove, LitterInvRemovalFails
  DEF BuildCandidate, FindBackup, Validate, Fail, files, counters
<1>4. CASE BackupActive(c)
  BY <1>4, LitterInvMove DEF BackupActive, Fail, counters
<1>5. CASE ActivateCandidate(c) \/ ActivateBackup(c)
  BY <1>5, LitterInvMove DEF ActivateCandidate, ActivateBackup, Fail, counters
<1>6. CASE Reload(c) \/ Health(c)
  BY <1>6, LitterInvMove DEF Reload, Health, files, counters
<1>7. CASE RemoveFirst(c) \/ CopyBack(c)
  BY <1>7, LitterInvMove DEF RemoveFirst, CopyBack, AfterUndo, counters
<1>8. CASE UndoReload(c) \/ UndoHealth(c)
  BY <1>8, LitterInvMove
  DEF UndoReload, UndoHealth, RollbackCallFails, AfterFailedRollback, files, counters
<1>9. CASE Cleanup(c)
  <2>1. \A t \in {tx[c], Failed(c)} : [t EXCEPT !.candidate = NoFile].candidate = NoFile
    BY FailedType DEF Transaction
  <2>2. \E t \in {tx[c], Failed(c)} :
            Move(c, "cleanup", "append", [t EXCEPT !.candidate = NoFile])
    BY <1>9 DEF Cleanup, CandidateAfterRemove
  <2>3. UNCHANGED crashes /\ (UNCHANGED <<litter, unremoved>> \/ RemovalFails)
    BY <1>9 DEF Cleanup
  <2> QED BY <2>1, <2>2, <2>3, LitterInvMove, LitterInvRemovalFails
<1>10. CASE AppendRecord(c) \/ ClearBusy(c)
  <2>1. tx[c].candidate = NoFile /\ Failed(c).candidate = NoFile
    BY <1>1, <1>10 DEF AppendRecord, ClearBusy, Move
  <2> QED BY <1>10, <2>1, LitterInvMove DEF AppendRecord, ClearBusy, files, counters
<1>11. CASE Unlock(c)
  <2>1. {d \in {c} : tx[d].candidate # NoFile} = {}
    BY <1>1, <1>11 DEF Unlock, Move
  <2>2. Litter({c}) = 0
    BY <2>1, FS_EmptySet DEF Litter
  <2>3. litter' = litter /\ UNCHANGED <<crashes, unremoved>>
    BY <1>11, <2>2, TypeInvSplit DEF Unlock, RestTypeOK, counters
  <2>4. NewTx(0, 0).candidate = NoFile
    BY DEF NewTx
  <2> QED BY <1>11, <2>3, <2>4, LitterInvMove DEF Unlock
<1> QED
  BY <1>2, <1>3, <1>4, <1>5, <1>6, <1>7, <1>8, <1>9, <1>10, <1>11 DEF CallerStep

LEMMA LitterInvNext ==
    ASSUME TypeInv, LockInv, LitterInv, [Next]_vars
    PROVE  LitterInv'
<1>1. ASSUME NEW c \in Callers, BeginUpdate(c) \/ BeginRestore(c) PROVE LitterInv'
  <2>1. PICK s : Begin(c, s)
    BY <1>1 DEF BeginUpdate, BeginRestore
  <2>2. NewTx(started + 1, s).candidate = NoFile
    BY DEF NewTx
  <2> QED BY <2>1, <2>2, LitterInvMove DEF Begin, files
<1>2. ASSUME NEW c \in Callers, CallerStep(c) PROVE LitterInv'
  BY <1>2, LitterInvCaller
<1>3. ASSUME NEW c \in Callers, Cancel(c) PROVE LitterInv'
  <2>1. [tx[c] EXCEPT !.cancelled = TRUE].candidate = tx[c].candidate
    BY TypeInvSplit DEF Transaction
  <2>2. pc[c] \notin HoldsCandidate => tx[c].candidate = NoFile
    BY DEF LitterInv
  <2> QED BY <1>3, <2>1, <2>2, LitterInvMove DEF Cancel, files, counters
<1>4. ASSUME NEW p \in Processes, Crash(p) PROVE LitterInv'
  <2>1. /\ litter' = litter + Litter(CallersOf(p)) /\ crashes' = crashes + 1
        /\ UNCHANGED unremoved
        /\ \A c \in Callers :
              /\ pc'[c] = IF ProcessOf[c] = p THEN "idle" ELSE pc[c]
              /\ tx'[c] = IF ProcessOf[c] = p THEN NewTx(0, 0) ELSE tx[c]
    BY <1>4 DEF Crash, CallersOf
  <2>2. LitterHasACause'
    <3>1. litter \in Nat /\ crashes \in Nat /\ unremoved \in Nat /\ Litter(CallersOf(p)) \in 0 .. 1
      BY LitterOfOneProcess, TypeInvSplit, BoundAssumption DEF RestTypeOK
    <3> QED BY <2>1, <3>1 DEF LitterInv, LitterHasACause
  <2>3. \A c \in Callers : pc'[c] \notin HoldsCandidate => tx'[c].candidate = NoFile
    BY <2>1 DEF LitterInv, NewTx
  <2> QED BY <2>2, <2>3 DEF LitterInv, HoldsCandidate
<1>5. CASE MihomoCrash \/ MihomoRestart \/ LateReload \/ UNCHANGED vars
  <2>1. UNCHANGED <<pc, tx, litter, crashes, unremoved>>
    BY <1>5 DEF MihomoCrash, MihomoRestart, LateReload, vars, files, counters
  <2> QED BY <2>1 DEF LitterInv, LitterHasACause, HoldsCandidate
<1> QED BY <1>1, <1>2, <1>3, <1>4, <1>5 DEF Next

\* A candidate file outlives its transaction only when the process is killed, one
\* file for each kill, or when os.Remove fails: no other way out of a call leaves
\* one, in any number of processes.
THEOREM LitterIsAccountedFor == Spec => []LitterHasACause
<1>1. Init => LitterInv
  BY DEF Init, NewTx, LitterInv, LitterHasACause
<1>2. TypeInv /\ LockInv /\ LitterInv /\ [Next]_vars => LitterInv'
  BY LitterInvNext
<1>3. LitterInv => LitterHasACause
  BY DEF LitterInv
<1> QED BY <1>1, <1>2, <1>3, LockInvAlways, PTL DEF Spec

-----------------------------------------------------------------------------
(***************************************************************************)
(* What is switched in has been tested, in any number of processes.  A     *)
(* backup is written once, by the transaction of its number, and then only *)
(* removed; the backup a Restore has found is already written.             *)
(***************************************************************************)
ToBackUp == {"mark", "directories", "build", "find", "validate", "backup"}
Testing == {"validate", "backup", "activate"}

Updates(c) == pc[c] \in {"directories", "build"} => ~IsRestore(c)
Numbered(c) == Inside(c) => tx[c].id <= started /\ tx[c].source < tx[c].id
Unwritten(c) == pc[c] \in ToBackUp => backups[tx[c].id] = NoFile
OwnNumber(c, d) == Inside(c) /\ Inside(d) /\ c # d => tx[c].id # tx[d].id
WrittenSource(c, d) ==
    pc[c] \in Testing /\ IsRestore(c) /\ pc[d] \in ToBackUp => tx[c].source # tx[d].id

Approved(c) ==
    pc[c] \in {"backup", "activate"} =>
        /\ tx[c].validated # NoFile
        /\ IF IsRestore(c) THEN backups[tx[c].source] \in {tx[c].validated, NoFile}
                           ELSE tx[c].candidate = tx[c].validated

TestedInv ==
    /\ BackupsBegun
    /\ \A c \in Callers : Updates(c) /\ Numbered(c) /\ Unwritten(c) /\ Approved(c)
    /\ \A c, d \in Callers : OwnNumber(c, d) /\ WrittenSource(c, d)

\* What the step of one caller must respect.  Only the step that backs up writes
\* a backup, under the number of its transaction.
Respects(c, from, to, t) ==
    /\ to # "idle" => t.id = tx[c].id /\ t.source = tx[c].source
    /\ to \in ToBackUp => from \in ToBackUp
    /\ to \in {"directories", "build"} => t.source = 0
    /\ to \in Testing /\ t.source # 0 =>
           from \in Testing \/ backups[t.source] # NoFile
    /\ \A b \in IDs :
          \/ backups'[b] \in {backups[b], NoFile}
          \/ from = "backup" /\ to \notin ToBackUp /\ b = tx[c].id
    /\ started' = started

LEMMA TestedInvMove ==
    ASSUME TypeInv, TestedInv, NEW c \in Callers, NEW from \in Steps \ {"idle"},
           NEW to \in Steps, NEW t \in Transaction, Move(c, from, to, t),
           Respects(c, from, to, t), Approved(c)'
    PROVE  TestedInv'
<1> USE DEF Inside, IsRestore
<1>1. /\ pc[c] = from /\ pc'[c] = to /\ tx'[c] = t
      /\ \A d \in Callers : d # c => pc'[d] = pc[d] /\ tx'[d] = tx[d]
  BY TypeInvSplit DEF Move
<1>2. \A d \in Callers : /\ tx[d].source \in 0 .. MaxTx /\ tx[d].id \in 0 .. MaxTx
                         /\ Inside(d) => tx[d].id \in IDs
  BY TypeInvSplit DEF Transaction, HasID
<1>3. started \in Nat /\ started' = started
  BY TypeInvSplit, BoundAssumption DEF RestTypeOK, Respects
<1>4. \A d \in Callers : Updates(d)' /\ Numbered(d)'
  BY <1>1, <1>3 DEF Respects, TestedInv, Updates, Numbered
<1>5. \A d, e \in Callers : OwnNumber(d, e)'
  BY <1>1 DEF Respects, TestedInv, OwnNumber
<1>6. ASSUME NEW d \in Callers PROVE Unwritten(d)'
  <2>1. CASE d = c
    BY <1>1, <1>2, <2>1 DEF Respects, TestedInv, Unwritten, ToBackUp
  <2>2. CASE d # c
    <3>1. pc[d] \in ToBackUp => tx[d].id \in IDs /\ tx[d].id # tx[c].id
      BY <1>1, <1>2, <2>2 DEF TestedInv, OwnNumber, ToBackUp
    <3> QED BY <1>1, <2>2, <3>1 DEF Respects, TestedInv, Unwritten
  <2> QED BY <2>1, <2>2
<1>7. ASSUME NEW d \in Callers, NEW e \in Callers PROVE WrittenSource(d, e)'
  <2> SUFFICES ASSUME pc'[d] \in Testing, tx'[d].source # 0, pc'[e] \in ToBackUp
               PROVE  tx'[d].source # tx'[e].id
    BY DEF WrittenSource
  <2>1. tx'[d].source = tx[d].source /\ tx'[e].id = tx[e].id /\ pc[e] \in ToBackUp
    BY <1>1 DEF Respects, Testing, ToBackUp
  <2>2. CASE pc[d] \in Testing
    BY <2>1, <2>2 DEF TestedInv, WrittenSource
  <2>3. CASE pc[d] \notin Testing
    BY <1>1, <2>1, <2>3 DEF Respects, TestedInv, Unwritten
  <2> QED BY <2>2, <2>3
<1>8. ASSUME NEW d \in Callers PROVE Approved(d)'
  <2>1. CASE d # c /\ pc[d] \in {"backup", "activate"} /\ IsRestore(d)
    <3>1. tx[d].source \in IDs
      BY <1>2, <2>1, BoundAssumption DEF IDs
    <3>2. from = "backup" => tx[d].source # tx[c].id
      BY <1>1, <2>1 DEF TestedInv, WrittenSource, Testing, ToBackUp
    <3>3. backups'[tx[d].source] \in {backups[tx[d].source], NoFile}
      BY <3>1, <3>2 DEF Respects
    <3> QED BY <1>1, <2>1, <3>3 DEF TestedInv, Approved
  <2>2. CASE d # c /\ ~(pc[d] \in {"backup", "activate"} /\ IsRestore(d))
    BY <1>1, <2>2 DEF TestedInv, Approved
  <2> QED BY <2>1, <2>2
<1>9. BackupsBegun'
  <2>1. \A b \in IDs : b > started /\ from = "backup" => b # tx[c].id
    BY <1>1, <1>2, <1>3 DEF TestedInv, Numbered, IDs
  <2> QED BY <1>3, <2>1 DEF Respects, TestedInv, BackupsBegun
<1> QED BY <1>4, <1>5, <1>6, <1>7, <1>8, <1>9 DEF TestedInv

\* The action that SwitchIsTested is about.
Switches(c) == tx[c].phase = "saved" /\ tx'[c].phase = "switched"
SwitchTested ==
    \A c \in Callers : Switches(c) => active' = tx[c].validated /\ active' # NoFile

\* A step that switches nothing.
LEMMA NoSwitchMove ==
    ASSUME TypeInv, NEW c \in Callers, NEW from, NEW to, NEW t, Move(c, from, to, t),
           t.phase = "switched" => tx[c].phase = "switched"
    PROVE  SwitchTested
<1>1. tx \in [Callers -> Transaction] /\ tx' = [tx EXCEPT ![c] = t]
  BY TypeInvSplit DEF Move
<1> QED BY <1>1 DEF SwitchTested, Switches

\* A step that keeps the backups and what has been approved.
LEMMA TestedInvQuiet ==
    ASSUME TypeInv, TestedInv, NEW c \in Callers, NEW from \in Steps \ {"idle"},
           NEW to \in Steps, NEW t \in Transaction, Move(c, from, to, t),
           to # "idle" => t.id = tx[c].id /\ t.source = tx[c].source,
           to \in ToBackUp => from \in ToBackUp,
           to \notin {"validate", "backup", "activate"},
           to \in {"directories", "build"} => ~IsRestore(c),
           \A b \in IDs : backups'[b] \in {backups[b], NoFile},
           started' = started,
           t.phase = "switched" => tx[c].phase = "switched"
    PROVE  TestedInv' /\ SwitchTested
<1>1. Respects(c, from, to, t)
  BY DEF Respects, Testing, IsRestore
<1>2. Approved(c)'
  BY Moved DEF Approved
<1> QED BY <1>1, <1>2, TestedInvMove, NoSwitchMove

\* A failure ends every preparation in the same way.
LEMMA TestedInvFail ==
    ASSUME TypeInv, TestedInv, NEW c \in Callers, NEW from \in Steps \ {"idle"},
           Fail(c, from), UNCHANGED <<backups, started>>
    PROVE  TestedInv' /\ SwitchTested
<1>1. /\ Failed(c) \in Transaction /\ Failed(c).id = tx[c].id
      /\ Failed(c).source = tx[c].source /\ Failed(c).phase = tx[c].phase
  BY FailedType, TypeInvSplit DEF Failed, Transaction
<1>2. "cleanup" \in Steps \ {"validate", "backup", "activate"} /\ "cleanup" \notin ToBackUp
  BY DEF Steps, ToBackUp
<1> QED BY <1>1, <1>2, TestedInvQuiet DEF Fail

LEMMA TestedInvPrepare ==
    ASSUME TypeInv, TestedInv, NEW c \in Callers,
           \/ MarkBusy(c) \/ EnsureDirectories(c) \/ BuildCandidate(c)
           \/ FindBackup(c) \/ Validate(c)
    PROVE  TestedInv' /\ SwitchTested
<1>1. /\ tx[c] \in Transaction /\ Failed(c) \in Transaction
      /\ Failed(c).id = tx[c].id /\ Failed(c).source = tx[c].source
      /\ Failed(c).phase = tx[c].phase
  BY FailedType, TypeInvSplit DEF Failed, Transaction
<1>2. UNCHANGED <<backups, started>>
  BY DEF MarkBusy, EnsureDirectories, BuildCandidate, FindBackup, Validate, files, counters
<1>3. CASE MarkBusy(c)
  BY <1>1, <1>2, <1>3, TestedInvQuiet DEF MarkBusy, Steps, ToBackUp
<1>4. CASE EnsureDirectories(c)
  <2>1. pc[c] = "directories" /\ ~IsRestore(c)
    BY <1>4, Moved DEF EnsureDirectories, TestedInv, Updates
  <2> QED BY <1>1, <1>2, <1>4, <2>1, TestedInvQuiet DEF EnsureDirectories, Steps, ToBackUp
<1>5. CASE Fail(c, "build") \/ Fail(c, "find") \/ Fail(c, "validate")
  BY <1>2, <1>5, TestedInvFail DEF Steps
<1>6. ASSUME NEW content \in Contents,
             Move(c, "build", "validate", [tx[c] EXCEPT !.candidate = content])
      PROVE  TestedInv' /\ SwitchTested
  <2> DEFINE t == [tx[c] EXCEPT !.candidate = content]
  <2>1. t \in Transaction /\ t.id = tx[c].id /\ t.source = tx[c].source /\ t.phase = tx[c].phase
    BY <1>1 DEF Transaction, File
  <2>2. t.source = 0
    BY <1>6, <2>1, Moved DEF IsRestore, TestedInv, Updates
  <2>3. Respects(c, "build", "validate", t)
    BY <1>2, <2>1, <2>2 DEF Respects, ToBackUp
  <2>4. Approved(c)'
    BY <1>6, Moved DEF Approved
  <2> HIDE DEF t
  <2> QED BY <1>6, <2>1, <2>3, <2>4, TestedInvMove, NoSwitchMove DEF Steps, t
<1>7. CASE Move(c, "find", "validate", tx[c]) /\ backups[tx[c].source] # NoFile
  <2>1. Respects(c, "find", "validate", tx[c])
    BY <1>2, <1>7 DEF Respects, ToBackUp
  <2>2. Approved(c)'
    BY <1>7, Moved DEF Approved
  <2> QED BY <1>1, <1>7, <2>1, <2>2, TestedInvMove, NoSwitchMove DEF Steps
<1>8. CASE /\ Move(c, "validate", "backup", [tx[c] EXCEPT !.validated = Tested(c)])
           /\ Tested(c) # NoFile
  <2> DEFINE t == [tx[c] EXCEPT !.validated = Tested(c)]
  <2>1. Tested(c) \in File
    BY <1>1, TypeInvSplit, BoundAssumption
    DEF Tested, RestTypeOK, Transaction, IsRestore, IDs
  <2>2. /\ t \in Transaction /\ t.id = tx[c].id /\ t.source = tx[c].source
        /\ t.phase = tx[c].phase /\ t.candidate = tx[c].candidate /\ t.validated = Tested(c)
    BY <1>1, <2>1 DEF Transaction
  <2>3. Respects(c, "validate", "backup", t)
    BY <1>2, <2>2 DEF Respects, ToBackUp, Testing
  <2>4. tx'[c] = t
    BY <1>8, Moved
  <2>5. Approved(c)'
    BY <1>2, <1>8, <2>2, <2>4 DEF Approved, Tested, IsRestore
  <2> HIDE DEF t
  <2> QED BY <1>8, <2>2, <2>3, <2>5, TestedInvMove, NoSwitchMove DEF Steps, t
<1> QED
  BY <1>3, <1>4, <1>5, <1>6, <1>7, <1>8 DEF BuildCandidate, FindBackup, Validate

LEMMA TestedInvBackup ==
    ASSUME TypeInv, TestedInv, NEW c \in Callers, BackupActive(c)
    PROVE  TestedInv' /\ SwitchTested
<1>1. /\ tx[c] \in Transaction /\ Failed(c) \in Transaction
      /\ Failed(c).id = tx[c].id /\ Failed(c).source = tx[c].source
      /\ Failed(c).phase = tx[c].phase
  BY FailedType, TypeInvSplit DEF Failed, Transaction
<1>2. /\ pc[c] = "backup" /\ started' = started
      /\ \A b \in IDs : b # tx[c].id => backups'[b] = backups[b]
  BY TypeInvSplit DEF BackupActive, RestTypeOK, counters
<1>3. ASSUME NEW t \in Transaction, Move(c, "backup", "activate", t),
             t.id = tx[c].id, t.source = tx[c].source, t.phase = "saved",
             t.candidate = tx[c].candidate, t.validated = tx[c].validated
      PROVE  TestedInv' /\ SwitchTested
  <2>1. Respects(c, "backup", "activate", t)
    BY <1>2, <1>3 DEF Respects, ToBackUp, Testing
  <2>2. tx'[c] = t
    BY <1>3, Moved
  <2>3. IsRestore(c) => tx[c].source \in IDs /\ tx[c].source # tx[c].id
    BY <1>1, <1>2, BoundAssumption
    DEF IsRestore, Transaction, IDs, TestedInv, Numbered, Inside
  <2>4. Approved(c)'
    BY <1>2, <1>3, <2>2, <2>3 DEF TestedInv, Approved, IsRestore
  <2> QED BY <1>3, <2>1, <2>4, TestedInvMove, NoSwitchMove DEF Steps
<1>4. CASE Fail(c, "backup")
  <2>1. Respects(c, "backup", "cleanup", Failed(c))
    BY <1>1, <1>2 DEF Respects, ToBackUp, Testing
  <2>2. Approved(c)'
    BY <1>4, Moved DEF Fail, Approved
  <2> QED BY <1>1, <1>4, <2>1, <2>2, TestedInvMove, NoSwitchMove DEF Fail, Steps
<1>5. CASE Move(c, "backup", "activate", [tx[c] EXCEPT !.phase = "saved"])
  BY <1>1, <1>3, <1>5 DEF Transaction
<1>6. CASE Move(c, "backup", "activate", [tx[c] EXCEPT !.phase = "saved", !.hadActive = TRUE])
  <2> DEFINE t == [tx[c] EXCEPT !.phase = "saved", !.hadActive = TRUE]
  <2>1. /\ t \in Transaction /\ t.id = tx[c].id /\ t.source = tx[c].source
        /\ t.phase = "saved" /\ t.candidate = tx[c].candidate
        /\ t.validated = tx[c].validated
    BY <1>1 DEF Transaction
  <2> HIDE DEF t
  <2> QED BY <1>3, <1>6, <2>1 DEF t
<1> QED BY <1>4, <1>5, <1>6 DEF BackupActive

\* What is renamed over the active file is what was approved, if it is there.
LEMMA TestedInvActivate ==
    ASSUME TypeInv, TestedInv, NEW c \in Callers,
           ActivateCandidate(c) \/ ActivateBackup(c)
    PROVE  TestedInv' /\ SwitchTested
<1>1. /\ tx[c] \in Transaction /\ pc[c] = "activate" /\ UNCHANGED <<backups, started>>
  BY TypeInvSplit DEF ActivateCandidate, ActivateBackup, counters
<1>2. CASE Fail(c, "activate")
  BY <1>1, <1>2, TestedInvFail DEF Steps
<1>3. ASSUME NEW source, NEW o \in CopyOutcomes(source, active), o.renamed, active' = o.content,
             source \in {tx[c].validated, NoFile}
      PROVE  SwitchTested
  <2>1. tx[c].validated # NoFile
    BY <1>1 DEF TestedInv, Approved
  <2>2. o.content = source /\ source # NoFile
    BY <1>3, CopyOutcomesType
  <2>3. active' = tx[c].validated /\ active' # NoFile
    BY <1>3, <2>1, <2>2
  <2>4. \A d \in Callers : d # c => tx'[d] = tx[d]
    BY TypeInvSplit DEF ActivateCandidate, ActivateBackup, Move, Fail
  <2> QED BY <2>3, <2>4 DEF SwitchTested, Switches
<1>4. ASSUME NEW to \in Steps \ {"idle", "directories", "build", "validate", "backup", "activate"},
             to \notin ToBackUp, NEW t \in Transaction, t.id = tx[c].id, t.source = tx[c].source,
             Move(c, "activate", to, t)
      PROVE  TestedInv'
  <2>1. Respects(c, "activate", to, t)
    BY <1>1, <1>4 DEF Respects, Testing
  <2>2. Approved(c)'
    BY <1>4, Moved DEF Approved
  <2> QED BY <1>4, <2>1, <2>2, TestedInvMove DEF Steps
<1>5. ASSUME ActivateCandidate(c), ~Fail(c, "activate")
      PROVE  TestedInv' /\ SwitchTested
  <2>1. PICK o \in CopyOutcomes(tx[c].candidate, active) :
            /\ active' = o.content /\ o.renamed
            /\ Move(c, "activate", IF o.ok THEN "reload" ELSE "undo",
                    [Switched(c) EXCEPT !.candidate = NoFile, !.err = ~o.ok])
    BY <1>5 DEF ActivateCandidate, ActivateOutcomes
  <2> DEFINE t == [Switched(c) EXCEPT !.candidate = NoFile, !.err = ~o.ok]
  <2>2. t \in Transaction /\ t.id = tx[c].id /\ t.source = tx[c].source
    BY <1>1, <2>1 DEF Transaction, Switched, File
  <2>3. tx[c].candidate = tx[c].validated
    BY <1>1, <1>5 DEF ActivateCandidate, TestedInv, Approved
  <2> HIDE DEF t
  <2> QED BY <1>3, <1>4, <2>1, <2>2, <2>3 DEF Steps, ToBackUp, t
<1>6. ASSUME ActivateBackup(c), ~Fail(c, "activate")
      PROVE  TestedInv' /\ SwitchTested
  <2>1. PICK o \in CopyOutcomes(backups[tx[c].source], active) :
            /\ active' = o.content /\ o.renamed
            /\ Move(c, "activate", IF o.ok THEN "reload" ELSE "cleanup",
                    [Switched(c) EXCEPT !.err = ~o.ok])
    BY <1>6 DEF ActivateBackup
  <2> DEFINE t == [Switched(c) EXCEPT !.err = ~o.ok]
  <2>2. t \in Transaction /\ t.id = tx[c].id /\ t.source = tx[c].source
    BY <1>1, <2>1 DEF Transaction, Switched
  <2>3. backups[tx[c].source] \in {tx[c].validated, NoFile}
    BY <1>1, <1>6 DEF ActivateBackup, TestedInv, Approved
  <2> HIDE DEF t
  <2> QED BY <1>3, <1>4, <2>1, <2>2, <2>3 DEF Steps, ToBackUp, t
<1> QED BY <1>2, <1>5, <1>6

LEMMA TestedInvCaller ==
    ASSUME TypeInv, TestedInv, NEW c \in Callers, CallerStep(c)
    PROVE  TestedInv' /\ SwitchTested
<1>1. \A t \in {tx[c], Failed(c), Faulted(c)} :
          /\ t \in Transaction /\ t.id = tx[c].id
          /\ t.source = tx[c].source /\ t.phase = tx[c].phase
  <2>1. tx[c] \in Transaction
    BY TypeInvSplit
  <2>2. /\ Failed(c).source = tx[c].source /\ Failed(c).phase = tx[c].phase
        /\ Faulted(c).source = tx[c].source /\ Faulted(c).phase = tx[c].phase
    BY <2>1 DEF Failed, Faulted, Transaction
  <2> QED BY <2>2, FailedType
<1>2. CASE Reload(c) \/ Health(c)
  <2>1. /\ [tx[c] EXCEPT !.phase = "verified"] \in Transaction
        /\ [tx[c] EXCEPT !.phase = "verified"].id = tx[c].id
        /\ [tx[c] EXCEPT !.phase = "verified"].source = tx[c].source
        /\ [tx[c] EXCEPT !.phase = "verified"].phase = "verified"
    BY <1>1 DEF Transaction
  <2>2. UNCHANGED <<backups, started>>
    BY <1>2 DEF Reload, Health, files, counters
  <2> QED BY <1>1, <1>2, <2>1, <2>2, TestedInvQuiet DEF Reload, Health, Steps, ToBackUp
<1>3. CASE RemoveFirst(c) \/ CopyBack(c)
  <2>1. \A fault, rolledBack \in BOOLEAN :
            /\ [tx[c] EXCEPT !.phase = "undone", !.rolledBack = rolledBack,
                             !.fault = fault] \in Transaction
            /\ [tx[c] EXCEPT !.phase = "undone", !.rolledBack = rolledBack,
                             !.fault = fault].id = tx[c].id
            /\ [tx[c] EXCEPT !.phase = "undone", !.rolledBack = rolledBack,
                             !.fault = fault].source = tx[c].source
            /\ [tx[c] EXCEPT !.phase = "undone", !.rolledBack = rolledBack,
                             !.fault = fault].phase = "undone"
    BY <1>1 DEF Transaction
  <2>2. UNCHANGED <<backups, started>>
    BY <1>3 DEF RemoveFirst, CopyBack, counters
  <2>3. PICK to \in {"cleanup", "undoreload"}, t \in Transaction :
            /\ Move(c, "undo", to, t) /\ t.id = tx[c].id /\ t.source = tx[c].source
            /\ t.phase \in {"undone", tx[c].phase}
    <3>1. CASE RemoveFirst(c)
      <4>1. [tx[c] EXCEPT !.phase = "undone", !.rolledBack = TRUE] =
                [tx[c] EXCEPT !.phase = "undone", !.rolledBack = TRUE, !.fault = tx[c].fault]
        BY <1>1 DEF Transaction
      <4>2. tx[c].fault \in BOOLEAN
        BY <1>1 DEF Transaction
      <4> QED BY <1>1, <2>1, <3>1, <4>1, <4>2 DEF RemoveFirst
    <3>2. CASE CopyBack(c)
      <4>1. PICK o \in CopyOutcomes(UndoSource(c), active) :
                IF o.renamed
                THEN Move(c, "undo", IF o.ok THEN "undoreload" ELSE "cleanup",
                          [tx[c] EXCEPT !.phase = "undone", !.fault = ~o.ok])
                ELSE Move(c, "undo", "cleanup", Faulted(c))
        BY <3>2 DEF CopyBack, AfterUndo
      <4>2. [tx[c] EXCEPT !.phase = "undone", !.fault = ~o.ok] =
                [tx[c] EXCEPT !.phase = "undone", !.rolledBack = tx[c].rolledBack, !.fault = ~o.ok]
        BY <1>1 DEF Transaction
      <4>3. tx[c].rolledBack \in BOOLEAN /\ (~o.ok) \in BOOLEAN
        BY <1>1 DEF Transaction
      <4> QED BY <1>1, <2>1, <4>1, <4>2, <4>3
    <3> QED BY <1>3, <3>1, <3>2
  <2> QED BY <2>2, <2>3, TestedInvQuiet DEF Steps, ToBackUp
<1>4. CASE UndoReload(c) \/ UndoHealth(c)
  <2>1. /\ [tx[c] EXCEPT !.rolledBack = TRUE] \in Transaction
        /\ [tx[c] EXCEPT !.rolledBack = TRUE].id = tx[c].id
        /\ [tx[c] EXCEPT !.rolledBack = TRUE].source = tx[c].source
        /\ [tx[c] EXCEPT !.rolledBack = TRUE].phase = tx[c].phase
    BY <1>1 DEF Transaction
  <2>2. UNCHANGED <<backups, started>>
    BY <1>4 DEF UndoReload, UndoHealth, files, counters
  <2> QED
    BY <1>1, <1>4, <2>1, <2>2, TestedInvQuiet
    DEF UndoReload, UndoHealth, RollbackCallFails, AfterFailedRollback, RollbackContextDone,
        Steps, ToBackUp
<1>5. CASE Cleanup(c)
  <2>1. PICK o \in PruneOutcomes :
            /\ backups' = WithoutFiles(backups, o.removed)
            /\ Move(c, "cleanup", "append",
                    [IF o.ok THEN tx[c] ELSE Failed(c) EXCEPT !.candidate = NoFile])
    BY <1>5 DEF Cleanup, CandidateAfterRemove
  <2>2. \A b \in IDs : backups'[b] \in {backups[b], NoFile}
    BY <2>1 DEF WithoutFiles
  <2> DEFINE t == [IF o.ok THEN tx[c] ELSE Failed(c) EXCEPT !.candidate = NoFile]
  <2>3. /\ t \in Transaction /\ t.id = tx[c].id
        /\ t.source = tx[c].source /\ t.phase = tx[c].phase
    BY <1>1 DEF Transaction, File
  <2>4. started' = started
    BY <1>5 DEF Cleanup
  <2> HIDE DEF t
  <2> QED BY <2>1, <2>2, <2>3, <2>4, TestedInvQuiet DEF Steps, ToBackUp, t
<1>6. CASE AppendRecord(c) \/ ClearBusy(c)
  <2>1. UNCHANGED <<backups, started>>
    BY <1>6 DEF AppendRecord, ClearBusy, files, counters
  <2> QED BY <1>1, <1>6, <2>1, TestedInvQuiet DEF AppendRecord, ClearBusy, Steps, ToBackUp
<1>7. CASE Unlock(c)
  <2>1. NewTx(0, 0) \in Transaction /\ NewTx(0, 0).phase = "open"
    BY NewTxType, BoundAssumption DEF NewTx
  <2>2. UNCHANGED <<backups, started>>
    BY <1>7 DEF Unlock, counters
  <2> QED BY <1>7, <2>1, <2>2, TestedInvQuiet DEF Unlock, Steps, ToBackUp
<1> QED
  BY <1>2, <1>3, <1>4, <1>5, <1>6, <1>7, TestedInvPrepare, TestedInvBackup, TestedInvActivate
  DEF CallerStep

LEMMA TestedInvBegin ==
    ASSUME TypeInv, TestedInv, NEW c \in Callers, NEW s \in 0 .. started, Begin(c, s)
    PROVE  TestedInv' /\ SwitchTested
<1> USE DEF Inside, IsRestore
<1>1. /\ pc' = [pc EXCEPT ![c] = "mark"] /\ pc \in [Callers -> Steps]
      /\ tx' = [tx EXCEPT ![c] = NewTx(started + 1, s)] /\ tx \in [Callers -> Transaction]
      /\ started \in Nat /\ started' = started + 1 /\ started' \in IDs
      /\ backups' = backups /\ pc[c] = "idle"
  BY TypeInvSplit, BoundAssumption DEF RestTypeOK, Begin, Move, files, IDs
<1>2. /\ pc'[c] = "mark" /\ tx'[c].id = started + 1 /\ tx'[c].source = s
      /\ \A d \in Callers : d # c => pc'[d] = pc[d] /\ tx'[d] = tx[d]
  BY <1>1 DEF NewTx
<1>3. \A d \in Callers : /\ tx[d].source \in 0 .. MaxTx /\ tx[d].id \in 0 .. MaxTx
                         /\ Inside(d) => tx[d].id <= started /\ tx[d].source < tx[d].id
  BY <1>1 DEF Transaction, TestedInv, Numbered
<1>4. \A d \in Callers : Updates(d)' /\ Numbered(d)'
  <2>1. Updates(c)' /\ Numbered(c)'
    BY <1>1, <1>2 DEF Updates, Numbered
  <2>2. ASSUME NEW d \in Callers, d # c PROVE Updates(d)' /\ Numbered(d)'
    <3>1. Inside(d) => tx[d].id <= started + 1
      BY <1>1, <1>3, BoundAssumption
    <3> QED BY <1>1, <1>2, <1>3, <2>2, <3>1 DEF TestedInv, Updates, Numbered
  <2> QED BY <2>1, <2>2
<1>5. \A d \in Callers : Unwritten(d)' /\ Approved(d)'
  <2>1. Unwritten(c)' /\ Approved(c)'
    BY <1>1, <1>2 DEF TestedInv, BackupsBegun, Unwritten, Approved, IDs
  <2>2. ASSUME NEW d \in Callers, d # c PROVE Unwritten(d)' /\ Approved(d)'
    BY <1>1, <1>2, <2>2 DEF TestedInv, Unwritten, Approved
  <2> QED BY <2>1, <2>2
<1>6. ASSUME NEW d \in Callers, NEW e \in Callers
      PROVE  OwnNumber(d, e)' /\ WrittenSource(d, e)'
  <2>1. CASE d # c /\ e # c
    BY <1>2, <2>1 DEF TestedInv, OwnNumber, WrittenSource
  <2>2. CASE d # c /\ e = c
    <3>1. Inside(d) => tx[d].id # started + 1 /\ tx[d].source # started + 1
      BY <1>1, <1>3, BoundAssumption
    <3> QED BY <1>2, <2>2, <3>1 DEF OwnNumber, WrittenSource, Testing
  <2>3. CASE d = c /\ e # c
    <3>1. Inside(e) => tx[e].id # started + 1
      BY <1>1, <1>3, BoundAssumption
    <3> QED BY <1>2, <2>3, <3>1 DEF OwnNumber, WrittenSource, Testing
  <2>4. CASE d = c /\ e = c
    BY <1>2, <2>4 DEF OwnNumber, WrittenSource, Testing
  <2> QED BY <2>1, <2>2, <2>3, <2>4
<1>7. BackupsBegun'
  BY <1>1 DEF TestedInv, BackupsBegun, IDs
<1>8. SwitchTested
  BY <1>1, NoSwitchMove DEF Begin, NewTx
<1> QED BY <1>4, <1>5, <1>6, <1>7, <1>8 DEF TestedInv

\* A cancelled context changes nothing that was tested; a kill only takes callers
\* away.
LEMMA TestedInvOther ==
    ASSUME TypeInv, TestedInv,
           \/ \E c \in Callers : Cancel(c)
           \/ \E p \in Processes : Crash(p)
           \/ MihomoCrash \/ MihomoRestart \/ LateReload \/ UNCHANGED vars
    PROVE  TestedInv' /\ SwitchTested
<1>1. /\ UNCHANGED <<backups, started>>
      /\ \A d \in Callers :
            \/ pc'[d] = "idle" /\ tx'[d].phase = "open"
            \/ /\ pc'[d] = pc[d] /\ tx'[d].id = tx[d].id /\ tx'[d].source = tx[d].source
               /\ tx'[d].validated = tx[d].validated /\ tx'[d].candidate = tx[d].candidate
               /\ tx'[d].phase = tx[d].phase
  <2>1. CASE \E c \in Callers : Cancel(c)
    <3>1. PICK c \in Callers : Cancel(c)
      BY <2>1
    <3>2. pc \in [Callers -> Steps] /\ tx \in [Callers -> Transaction]
      BY TypeInvSplit
    <3>3. /\ pc' = [pc EXCEPT ![c] = pc[c]]
          /\ tx' = [tx EXCEPT ![c] = [tx[c] EXCEPT !.cancelled = TRUE]]
      BY <3>1 DEF Cancel, Move
    <3>4. UNCHANGED <<backups, started>>
      BY <3>1 DEF Cancel, files, counters
    <3>5. ASSUME NEW d \in Callers
          PROVE  /\ pc'[d] = pc[d]
                 /\ tx'[d] = tx[d] \/ tx'[d] = [tx[d] EXCEPT !.cancelled = TRUE]
      BY <3>2, <3>3
    <3>6. \A d \in Callers : tx[d] \in Transaction
      BY <3>2
    <3> QED BY <3>4, <3>5, <3>6 DEF Transaction
  <2>2. CASE \E p \in Processes : Crash(p)
    BY <2>2 DEF Crash, NewTx
  <2>3. CASE MihomoCrash \/ MihomoRestart \/ LateReload \/ UNCHANGED vars
    BY <2>3 DEF MihomoCrash, MihomoRestart, LateReload, vars, files, counters
  <2> QED BY <2>1, <2>2, <2>3
<1>2. ASSUME NEW d \in Callers
      PROVE  Updates(d)' /\ Numbered(d)' /\ Unwritten(d)' /\ Approved(d)'
  BY <1>1
  DEF TestedInv, Updates, Numbered, Unwritten, Approved, Inside, IsRestore, ToBackUp
<1>3. ASSUME NEW d \in Callers, NEW e \in Callers
      PROVE  OwnNumber(d, e)' /\ WrittenSource(d, e)'
  BY <1>1 DEF TestedInv, OwnNumber, WrittenSource, Inside, IsRestore, ToBackUp, Testing
<1>4. BackupsBegun' /\ SwitchTested
  BY <1>1 DEF TestedInv, BackupsBegun, SwitchTested, Switches
<1> QED BY <1>2, <1>3, <1>4 DEF TestedInv

LEMMA TestedInvNext ==
    ASSUME TypeInv, TestedInv, [Next]_vars
    PROVE  TestedInv' /\ SwitchTested
<1>1. ASSUME NEW c \in Callers, BeginUpdate(c) \/ BeginRestore(c)
      PROVE  TestedInv' /\ SwitchTested
  <2>1. started \in Nat
    BY TypeInvSplit DEF RestTypeOK
  <2>2. PICK s \in 0 .. started : Begin(c, s)
    BY <1>1, <2>1 DEF BeginUpdate, BeginRestore
  <2> QED BY <2>2, TestedInvBegin
<1> QED BY <1>1, TestedInvCaller, TestedInvOther DEF Next

\* Whatever any number of processes do to the same files, a switch puts in place
\* what `mihomo -t` accepted for this very transaction, or does not take place:
\* pruning between the test of a backup and its copy can only make the copy fail.
THEOREM SwitchesAreTested == Spec => SwitchIsTested
<1>1. Init => TestedInv
  BY DEF Init, TestedInv, BackupsBegun, Updates, Numbered, Unwritten, Approved, OwnNumber,
         WrittenSource, Inside, ToBackUp, Testing
<1>2. TypeInv /\ TestedInv /\ [Next]_vars => TestedInv'
  BY TestedInvNext
<1>3. TypeInv /\ TestedInv /\ [Next]_vars
          => [\A c \in Callers : tx[c].phase = "saved" /\ tx'[c].phase = "switched" =>
                 active' = tx[c].validated /\ active' # NoFile]_vars
  BY TestedInvNext DEF SwitchTested, Switches
<1> QED BY <1>1, <1>2, <1>3, TypeInvAlways, PTL DEF Spec, SwitchIsTested
=============================================================================
