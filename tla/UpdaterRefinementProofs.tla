------------------------ MODULE UpdaterRefinementProofs ------------------------
(***************************************************************************)
(* Updater implements ConfigTransaction: every step of a call, a kill of   *)
(* the process and every step of Mihomo is a step of the abstract          *)
(* transaction or leaves it alone.                                         *)
(***************************************************************************)
EXTENDS UpdaterProofs

Inv == TypeInv /\ LockInv /\ FileInv

-----------------------------------------------------------------------------
(***************************************************************************)
(* The refinement mapping.  One process runs one transaction at a time, so *)
(* the caller the mapping chooses is the one that steps.                   *)
(***************************************************************************)
LEMMA OnlyInside ==
    ASSUME SingleProcess, Inv, NEW c \in Callers, Inside(c)
    PROVE  \A d \in Callers : Inside(d) => d = c
BY SingleProcess DEF Inv, SingleProcess, LockInv, HoldsLock

LEMMA OnlyInsideNext ==
    ASSUME SingleProcess, Inv', NEW c \in Callers, Inside(c)'
    PROVE  \A d \in Callers : Inside(d)' => d = c
BY SingleProcess DEF Inv, SingleProcess, LockInv, HoldsLock

LEMMA MapsToCaller ==
    ASSUME SingleProcess, Inv, NEW c \in Callers, Unrecorded(c)
    PROVE  Phase = AbstractPhase(c) /\ Saved = SavedContent(c)
<1>1. Current = {c}
  BY OnlyInside DEF Current, Unrecorded, Inside
<1>2. (CHOOSE d \in Current : TRUE) = c
  BY <1>1
<1> QED BY <1>1, <1>2 DEF Phase, Saved

LEMMA MapsToCallerNext ==
    ASSUME SingleProcess, Inv', NEW c \in Callers, Unrecorded(c)'
    PROVE  Phase' = AbstractPhase(c)' /\ Saved' = SavedContent(c)'
<1>1. Current' = {c}
  BY OnlyInsideNext DEF Current, Unrecorded, Inside
<1>2. (CHOOSE d \in Current' : TRUE) = c
  BY <1>1
<1> QED BY <1>1, <1>2 DEF Phase, Saved

\* Nobody has a record to write: the abstract transaction is idle.
LEMMA MapsToIdle ==
    ASSUME \A c \in Callers : ~Unrecorded(c)
    PROVE  Phase = "idle" /\ Saved = NoFile
BY DEF Phase, Saved, Current

LEMMA MapsToIdleNext ==
    ASSUME \A c \in Callers : ~Unrecorded(c)'
    PROVE  Phase' = "idle" /\ Saved' = NoFile
BY DEF Phase, Saved, Current

\* What a caller that is inside does is all that is done.
LEMMA OthersStayOut ==
    ASSUME SingleProcess, Inv, NEW c \in Callers, NEW from \in Steps \ {"idle"},
           NEW to, NEW t, Move(c, from, to, t)
    PROVE  \A d \in Callers : d # c => ~Inside(d) /\ ~Inside(d)'
<1>1. Inside(c) /\ \A d \in Callers : Inside(d) => d = c
  BY OnlyInside DEF Move, Inside
<1>2. \A d \in Callers : d # c => pc'[d] = pc[d]
  BY TypeInvSplit DEF Move, Inv
<1> QED BY <1>1, <1>2 DEF Inside

-----------------------------------------------------------------------------
(***************************************************************************)
(* What a step of a call must do for each step of the abstraction.         *)
(***************************************************************************)

\* A step on the way: the caller is as far as before, the file as it was.
LEMMA QuietStep ==
    ASSUME SingleProcess, Inv, Inv', NEW c \in Callers,
           Unrecorded(c), Unrecorded(c)',
           AbstractPhase(c)' = AbstractPhase(c), SavedContent(c)' = SavedContent(c),
           UNCHANGED <<active, report>>
    PROVE  UNCHANGED Abstract!abstractVars
BY MapsToCaller, MapsToCallerNext DEF Abstract!abstractVars

\* A step that sends a caller on with locals that differ in nothing the mapping
\* looks at.
LEMMA QuietMoveStep ==
    ASSUME SingleProcess, Inv, Inv', NEW c \in Callers, NEW from, NEW to,
           from \notin {"idle", "clear", "unlock"},
           to \notin {"idle", "clear", "unlock"},
           NEW t, Move(c, from, to, t),
           t.phase = tx[c].phase, t.hadActive = tx[c].hadActive, t.id = tx[c].id,
           UNCHANGED <<active, report>>,
           tx[c].hadActive => backups'[tx[c].id] = backups[tx[c].id]
    PROVE  UNCHANGED Abstract!abstractVars
<1>1. pc[c] = from /\ pc'[c] = to /\ tx'[c] = t
  BY Moved DEF Inv
<1>2. AbstractPhase(c)' = AbstractPhase(c) /\ SavedContent(c)' = SavedContent(c)
  BY <1>1 DEF AbstractPhase, SavedContent
<1>3. Unrecorded(c) /\ Unrecorded(c)'
  BY <1>1 DEF Unrecorded
<1> QED BY <1>2, <1>3, QuietStep

\* The same for the failures and faults of a call.
LEMMA QuietFailure ==
    ASSUME SingleProcess, Inv, Inv', NEW c \in Callers, NEW from, NEW to,
           from \notin {"idle", "clear", "unlock"},
           to \notin {"idle", "clear", "unlock"},
           NEW t \in {tx[c], Failed(c), Faulted(c)}, Move(c, from, to, t),
           UNCHANGED <<active, backups, report>>
    PROVE  UNCHANGED Abstract!abstractVars
<1>1. t.phase = tx[c].phase /\ t.hadActive = tx[c].hadActive /\ t.id = tx[c].id
  BY TypeInvSplit DEF Inv, Failed, Faulted, Transaction
<1> QED BY <1>1, QuietMoveStep

-----------------------------------------------------------------------------
(***************************************************************************)
(* The steps of a call, in the order in which it makes them.               *)
(***************************************************************************)
LEMMA BeginOpens ==
    ASSUME SingleProcess, Inv, Inv', NEW c \in Callers, NEW s, Begin(c, s)
    PROVE  Abstract!Open
<1>1. \A d \in Callers : ~Inside(d)
  BY SingleProcess, CallerAssumption
  DEF Inv, SingleProcess, LockInv, HoldsLock, Begin, TryLock
<1>2. Phase = "idle" /\ Saved = NoFile
  BY <1>1, MapsToIdle DEF Unrecorded, Inside
<1>3. pc'[c] = "mark" /\ tx'[c] = NewTx(started + 1, s)
  BY Moved DEF Begin, Inv
<1>4. Phase' = "open" /\ Saved' = active'
  <2>1. Unrecorded(c)' /\ tx'[c].phase = "open"
    BY <1>3 DEF Unrecorded, NewTx
  <2> QED BY <2>1, MapsToCallerNext DEF AbstractPhase, SavedContent
<1>5. report' = "none" /\ UNCHANGED active
  BY DEF Begin, files
<1> QED BY <1>2, <1>4, <1>5 DEF Abstract!Open

LEMMA PreparationIsQuiet ==
    ASSUME SingleProcess, Inv, Inv', NEW c \in Callers,
           MarkBusy(c) \/ EnsureDirectories(c) \/ BuildCandidate(c)
           \/ FindBackup(c) \/ Validate(c)
    PROVE  UNCHANGED Abstract!abstractVars
<1>1. UNCHANGED <<active, backups, report>>
  BY DEF MarkBusy, EnsureDirectories, BuildCandidate, FindBackup, Validate, files
<1>2. CASE MarkBusy(c)
  BY <1>1, <1>2, QuietFailure DEF MarkBusy
<1>3. CASE EnsureDirectories(c)
  BY <1>1, <1>3, QuietFailure DEF EnsureDirectories
<1>4. CASE BuildCandidate(c)
  <2>1. ASSUME NEW content \in Contents,
               Move(c, "build", "validate", [tx[c] EXCEPT !.candidate = content])
        PROVE  UNCHANGED Abstract!abstractVars
    <3> DEFINE t == [tx[c] EXCEPT !.candidate = content]
    <3>1. t.phase = tx[c].phase /\ t.hadActive = tx[c].hadActive /\ t.id = tx[c].id
      BY TypeInvSplit DEF Inv, Transaction
    <3> HIDE DEF t
    <3>2. Move(c, "build", "validate", t)
      BY <2>1 DEF t
    <3> QED BY <1>1, <3>1, <3>2, QuietMoveStep
  <2> QED BY <1>1, <1>4, <2>1, QuietFailure DEF BuildCandidate, Fail
<1>5. CASE FindBackup(c)
  BY <1>1, <1>5, QuietFailure DEF FindBackup, Fail
<1>6. CASE Validate(c)
  <2>1. CASE Move(c, "validate", "backup", [tx[c] EXCEPT !.validated = Tested(c)])
    <3> DEFINE t == [tx[c] EXCEPT !.validated = Tested(c)]
    <3>1. t.phase = tx[c].phase /\ t.hadActive = tx[c].hadActive /\ t.id = tx[c].id
      BY TypeInvSplit DEF Inv, Transaction
    <3> HIDE DEF t
    <3>2. Move(c, "validate", "backup", t)
      BY <2>1 DEF t
    <3> QED BY <1>1, <3>1, <3>2, QuietMoveStep
  <2> QED BY <1>1, <1>6, <2>1, QuietFailure DEF Validate, Fail
<1> QED BY <1>2, <1>3, <1>4, <1>5, <1>6

\* What was the file itself becomes its backup.
LEMMA BackupIsQuiet ==
    ASSUME SingleProcess, Inv, Inv', NEW c \in Callers, BackupActive(c)
    PROVE  UNCHANGED Abstract!abstractVars
<1>1. /\ pc[c] = "backup" /\ tx[c] \in Transaction /\ tx[c].id \in IDs
      /\ tx[c].phase = "open" /\ tx[c].hadActive = FALSE
      /\ backups \in [IDs -> File]
  BY TypeInvSplit
  DEF Inv, BackupActive, HasID, Inside, RestTypeOK, FileInv, CallInv, Progress,
      Transaction
<1>2. UNCHANGED <<active, report>> /\ Unrecorded(c)
  BY <1>1 DEF BackupActive, Unrecorded
<1>3. CASE /\ Move(c, "backup", "activate", [tx[c] EXCEPT !.phase = "saved"])
           /\ active = NoFile /\ UNCHANGED backups
  <2> DEFINE t == [tx[c] EXCEPT !.phase = "saved"]
  <2>1. t.phase = "saved" /\ t.hadActive = FALSE
    BY <1>1 DEF Transaction
  <2>2. pc'[c] = "activate" /\ tx'[c] = t
    BY <1>3, Moved DEF Inv
  <2> HIDE DEF t
  <2>3. /\ AbstractPhase(c)' = AbstractPhase(c)
        /\ SavedContent(c)' = SavedContent(c) /\ Unrecorded(c)'
    BY <1>1, <1>3, <2>1, <2>2 DEF AbstractPhase, SavedContent, Unrecorded
  <2> QED BY <1>2, <2>3, QuietStep
<1>4. CASE /\ active # NoFile
           /\ \E o \in CopyOutcomes(active, backups[tx[c].id]) :
                 /\ backups' = [backups EXCEPT ![tx[c].id] = o.content]
                 /\ IF o.ok
                    THEN Move(c, "backup", "activate",
                              [tx[c] EXCEPT !.phase = "saved", !.hadActive = TRUE])
                    ELSE Fail(c, "backup")
  <2>1. PICK o \in CopyOutcomes(active, backups[tx[c].id]) :
            /\ backups' = [backups EXCEPT ![tx[c].id] = o.content]
            /\ IF o.ok
               THEN Move(c, "backup", "activate",
                         [tx[c] EXCEPT !.phase = "saved", !.hadActive = TRUE])
               ELSE Fail(c, "backup")
    BY <1>4
  <2>2. CASE o.ok = TRUE
    <3> DEFINE t == [tx[c] EXCEPT !.phase = "saved", !.hadActive = TRUE]
    <3>1. t.phase = "saved" /\ t.hadActive = TRUE /\ t.id = tx[c].id
      BY <1>1 DEF Transaction
    <3>2. pc'[c] = "activate" /\ tx'[c] = t
      BY <2>1, <2>2, Moved DEF Inv
    <3>3. backups'[tx[c].id] = active
      BY <1>1, <2>1, <2>2, CopyOutcomesType
    <3> HIDE DEF t
    <3>4. /\ AbstractPhase(c)' = AbstractPhase(c)
          /\ SavedContent(c)' = SavedContent(c) /\ Unrecorded(c)'
      BY <1>1, <3>1, <3>2, <3>3 DEF AbstractPhase, SavedContent, Unrecorded
    <3> QED BY <1>2, <3>4, QuietStep
  <2>3. CASE o.ok = FALSE
    <3>1. Failed(c).phase = tx[c].phase /\ Failed(c).hadActive = FALSE
          /\ Failed(c).id = tx[c].id
      BY <1>1 DEF Failed, Transaction
    <3>2. Move(c, "backup", "cleanup", Failed(c))
      BY <2>1, <2>3 DEF Fail
    <3> QED BY <1>1, <1>2, <3>1, <3>2, QuietMoveStep
  <2>4. o.ok \in BOOLEAN
    BY <2>1, CopyOutcomesType, ZenonT(60)
  <2> QED BY <2>2, <2>3, <2>4
<1>5. CASE Fail(c, "backup") /\ UNCHANGED backups
  <2>1. Failed(c).phase = tx[c].phase /\ Failed(c).hadActive = FALSE
        /\ Failed(c).id = tx[c].id
    BY <1>1 DEF Failed, Transaction
  <2>2. Move(c, "backup", "cleanup", Failed(c))
    BY <1>5 DEF Fail
  <2> QED BY <1>1, <1>2, <1>5, <2>1, <2>2, QuietMoveStep
<1> QED BY <1>3, <1>4, <1>5, Zenon DEF BackupActive

\* A rename over the active file is the switch, ...
LEMMA RenameSwitches ==
    ASSUME SingleProcess, Inv, Inv', NEW c \in Callers, pc[c] = "activate",
           NEW to \in {"reload", "undo", "cleanup"}, NEW t,
           t.phase = "switched", t.hadActive = tx[c].hadActive, t.id = tx[c].id,
           Move(c, "activate", to, t),
           active' \in Contents, UNCHANGED <<backups, report>>
    PROVE  Abstract!Switch
<1>1. tx[c].phase = "saved"
  BY DEF Inv, FileInv, CallInv, Progress
<1>2. pc'[c] = to /\ tx'[c] = t
  BY Moved DEF Inv
<1>3. Unrecorded(c) /\ Unrecorded(c)'
  BY <1>2 DEF Unrecorded
<1>4. Phase = "open" /\ Saved = SavedContent(c)
  BY <1>1, <1>3, MapsToCaller DEF AbstractPhase
<1>5. Phase' = "switched" /\ Saved' = SavedContent(c)'
  BY <1>2, <1>3, MapsToCallerNext DEF AbstractPhase
<1>6. SavedContent(c)' = SavedContent(c)
  BY <1>1, <1>2 DEF SavedContent
<1> QED BY <1>4, <1>5, <1>6 DEF Abstract!Switch

\* ... to a content that was tested and so exists.
LEMMA ActivationSwitches ==
    ASSUME SingleProcess, Inv, Inv', NEW c \in Callers,
           ActivateCandidate(c) \/ ActivateBackup(c)
    PROVE  Abstract!Switch \/ UNCHANGED Abstract!abstractVars
<1>1. /\ UNCHANGED <<backups, report>> /\ pc[c] = "activate"
      /\ tx[c] \in Transaction /\ active \in File /\ backups \in [IDs -> File]
      /\ Tested(c) # NoFile
  BY TypeInvSplit
  DEF Inv, ActivateCandidate, ActivateBackup, RestTypeOK, FileInv, CallInv, Content
<1>2. CASE ActivateCandidate(c)
  <2>1. PICK o \in CopyOutcomes(tx[c].candidate, active) :
            /\ active' = o.content
            /\ IF o.renamed
               THEN Move(c, "activate", IF o.ok THEN "reload" ELSE "undo",
                         [Switched(c) EXCEPT !.candidate = NoFile, !.err = ~o.ok])
               ELSE Fail(c, "activate")
    BY <1>2 DEF ActivateCandidate, ActivateOutcomes
  <2>2. CASE o.renamed = TRUE /\ o.content = tx[c].candidate
             /\ o.content # NoFile /\ o.ok \in BOOLEAN
    <3> DEFINE t == [Switched(c) EXCEPT !.candidate = NoFile, !.err = ~o.ok]
               to == IF o.ok THEN "reload" ELSE "undo"
    <3>1. t.phase = "switched" /\ t.hadActive = tx[c].hadActive /\ t.id = tx[c].id
      BY <1>1 DEF Switched, Transaction
    <3>2. Move(c, "activate", to, t) /\ to \in {"reload", "undo", "cleanup"}
      BY <2>1, <2>2
    <3>3. active' \in Contents
      BY <1>1, <2>1, <2>2 DEF Transaction, File
    <3> HIDE DEF t, to
    <3> QED BY <1>1, <3>1, <3>2, <3>3, RenameSwitches
  <2>3. CASE o.renamed = FALSE /\ o.content = active
    BY <1>1, <2>1, <2>3, QuietFailure DEF Fail
  <2> QED BY <2>1, <2>2, <2>3, CopyOutcomesType, ZenonT(60)
<1>3. CASE ActivateBackup(c)
  <2>1. PICK o \in CopyOutcomes(backups[tx[c].source], active) :
            /\ active' = o.content
            /\ IF o.renamed
               THEN Move(c, "activate", IF o.ok THEN "reload" ELSE "cleanup",
                         [Switched(c) EXCEPT !.err = ~o.ok])
               ELSE Fail(c, "activate")
    BY <1>3 DEF ActivateBackup
  <2>2. CASE o.renamed = TRUE /\ o.content = backups[tx[c].source]
             /\ o.content # NoFile /\ o.ok \in BOOLEAN
    <3> DEFINE t == [Switched(c) EXCEPT !.err = ~o.ok]
               to == IF o.ok THEN "reload" ELSE "cleanup"
    <3>1. t.phase = "switched" /\ t.hadActive = tx[c].hadActive /\ t.id = tx[c].id
      BY <1>1 DEF Switched, Transaction
    <3>2. Move(c, "activate", to, t) /\ to \in {"reload", "undo", "cleanup"}
      BY <2>1, <2>2
    <3>3. tx[c].source \in IDs
      BY <1>1, <1>3, BoundAssumption DEF ActivateBackup, IsRestore, Transaction, IDs
    <3>4. active' \in Contents
      BY <1>1, <2>1, <2>2, <3>3 DEF File
    <3> HIDE DEF t, to
    <3> QED BY <1>1, <3>1, <3>2, <3>4, RenameSwitches
  <2>3. CASE o.renamed = FALSE /\ o.content = active
    BY <1>1, <2>1, <2>3, QuietFailure DEF Fail
  <2> QED BY <2>1, <2>2, <2>3, CopyOutcomesType, ZenonT(60)
<1> QED BY <1>2, <1>3

LEMMA ReloadIsQuiet ==
    ASSUME SingleProcess, Inv, Inv', NEW c \in Callers, Reload(c) \/ UndoReload(c)
    PROVE  UNCHANGED Abstract!abstractVars
<1>1. UNCHANGED <<active, backups, report>>
  BY DEF Reload, UndoReload, files
<1>2. CASE Reload(c)
  BY <1>1, <1>2, QuietFailure DEF Reload
<1>3. CASE UndoReload(c)
  BY <1>1, <1>3, QuietFailure DEF UndoReload, RollbackCallFails, AfterFailedRollback
<1> QED BY <1>2, <1>3

\* The health check that confirms the new configuration is the verification.
LEMMA HealthVerifies ==
    ASSUME SingleProcess, Inv, Inv', NEW c \in Callers, Health(c)
    PROVE  Abstract!Verify \/ UNCHANGED Abstract!abstractVars
<1>1. UNCHANGED <<active, backups, report>> /\ pc[c] = "health"
  BY DEF Health, files, Move
<1>2. CASE Move(c, "health", "undo", Failed(c))
  BY <1>1, <1>2, QuietFailure
<1>3. CASE Move(c, "health", "cleanup", [tx[c] EXCEPT !.phase = "verified"])
  <2> DEFINE t == [tx[c] EXCEPT !.phase = "verified"]
  <2>1. t.phase = "verified" /\ t.hadActive = tx[c].hadActive /\ t.id = tx[c].id
    BY TypeInvSplit DEF Inv, Transaction
  <2>2. pc'[c] = "cleanup" /\ tx'[c] = t
    BY <1>3, Moved DEF Inv
  <2> HIDE DEF t
  <2>3. tx[c].phase = "switched"
    BY <1>1 DEF Inv, FileInv, CallInv, Progress
  <2>4. Unrecorded(c) /\ Unrecorded(c)'
    BY <1>1, <2>2 DEF Unrecorded
  <2>5. Phase = "switched" /\ Phase' = "verified" /\ Saved' = Saved
    BY <1>1, <2>1, <2>2, <2>3, <2>4, MapsToCaller, MapsToCallerNext
    DEF AbstractPhase, SavedContent
  <2> QED BY <1>1, <2>5 DEF Abstract!Verify
<1> QED BY <1>2, <1>3 DEF Health

LEMMA UndoHealthIsQuiet ==
    ASSUME SingleProcess, Inv, Inv', NEW c \in Callers, UndoHealth(c)
    PROVE  UNCHANGED Abstract!abstractVars
<1>1. UNCHANGED <<active, backups, report>>
  BY DEF UndoHealth, files
<1>2. CASE Move(c, "undohealth", "cleanup", [tx[c] EXCEPT !.rolledBack = TRUE])
  <2> DEFINE t == [tx[c] EXCEPT !.rolledBack = TRUE]
  <2>1. t.phase = tx[c].phase /\ t.hadActive = tx[c].hadActive /\ t.id = tx[c].id
    BY TypeInvSplit DEF Inv, Transaction
  <2> HIDE DEF t
  <2>2. Move(c, "undohealth", "cleanup", t)
    BY <1>2 DEF t
  <2> QED BY <1>1, <2>1, <2>2, QuietMoveStep
<1>3. CASE RollbackCallFails(c, "undohealth")
  BY <1>1, <1>3, QuietFailure DEF RollbackCallFails, AfterFailedRollback
<1> QED BY <1>2, <1>3 DEF UndoHealth

\* Putting back what the transaction found is the undo: of a file that ...
LEMMA RenameUndoes ==
    ASSUME SingleProcess, Inv, Inv', NEW c \in Callers, pc[c] = "undo",
           NEW to \in {"undoreload", "cleanup"}, NEW t,
           t.phase = "undone", t.hadActive = tx[c].hadActive, t.id = tx[c].id,
           Move(c, "undo", to, t),
           active' = SavedContent(c), UNCHANGED <<backups, report>>
    PROVE  Abstract!Undo
<1>1. tx[c].phase = "switched"
  BY DEF Inv, FileInv, CallInv, Progress
<1>2. pc'[c] = to /\ tx'[c] = t
  BY Moved DEF Inv
<1>3. Unrecorded(c) /\ Unrecorded(c)'
  BY <1>2 DEF Unrecorded
<1>4. Phase = "switched" /\ Saved = SavedContent(c)
  BY <1>1, <1>3, MapsToCaller DEF AbstractPhase
<1>5. Phase' = "undone" /\ Saved' = SavedContent(c)'
  BY <1>2, <1>3, MapsToCallerNext DEF AbstractPhase
<1>6. SavedContent(c)' = SavedContent(c)
  BY <1>1, <1>2 DEF SavedContent
<1> QED BY <1>4, <1>5, <1>6 DEF Abstract!Undo

\* ... existed, or of one that did not.
LEMMA RollbackUndoes ==
    ASSUME SingleProcess, Inv, Inv', NEW c \in Callers, RemoveFirst(c) \/ CopyBack(c)
    PROVE  Abstract!Undo \/ UNCHANGED Abstract!abstractVars
<1>1. /\ UNCHANGED <<backups, report>> /\ pc[c] = "undo"
      /\ tx[c] \in Transaction /\ tx[c].phase = "switched"
  BY TypeInvSplit DEF Inv, RemoveFirst, CopyBack, FileInv, CallInv, Progress
<1>2. CASE RemoveFirst(c)
  <2>1. CASE Move(c, "undo", "cleanup", Faulted(c)) /\ UNCHANGED active
    BY <1>1, <2>1, QuietFailure
  <2>2. CASE /\ active' = NoFile
             /\ Move(c, "undo", "cleanup",
                     [tx[c] EXCEPT !.phase = "undone", !.rolledBack = TRUE])
    <3> DEFINE t == [tx[c] EXCEPT !.phase = "undone", !.rolledBack = TRUE]
    <3>1. t.phase = "undone" /\ t.hadActive = tx[c].hadActive /\ t.id = tx[c].id
      BY <1>1 DEF Transaction
    <3>2. active' = SavedContent(c)
      BY <1>1, <1>2, <2>2 DEF RemoveFirst, SavedContent
    <3> HIDE DEF t
    <3>3. Move(c, "undo", "cleanup", t)
      BY <2>2 DEF t
    <3> QED BY <1>1, <3>1, <3>2, <3>3, RenameUndoes
  <2> QED BY <1>2, <2>1, <2>2 DEF RemoveFirst
<1>3. CASE CopyBack(c)
  <2>1. PICK o \in CopyOutcomes(backups[tx[c].id], active) :
            /\ active' = o.content
            /\ IF o.renamed
               THEN Move(c, "undo", IF o.ok THEN "undoreload" ELSE "cleanup",
                         [tx[c] EXCEPT !.phase = "undone", !.fault = ~o.ok])
               ELSE Move(c, "undo", "cleanup", Faulted(c))
    BY <1>3 DEF CopyBack, UndoSource, AfterUndo
  <2>2. CASE o.renamed = TRUE /\ o.content = backups[tx[c].id] /\ o.ok \in BOOLEAN
    <3> DEFINE t == [tx[c] EXCEPT !.phase = "undone", !.fault = ~o.ok]
               to == IF o.ok THEN "undoreload" ELSE "cleanup"
    <3>1. t.phase = "undone" /\ t.hadActive = tx[c].hadActive /\ t.id = tx[c].id
      BY <1>1 DEF Transaction
    <3>2. active' = SavedContent(c)
      BY <1>1, <1>3, <2>1, <2>2 DEF CopyBack, SavedContent
    <3>3. Move(c, "undo", to, t) /\ to \in {"undoreload", "cleanup"}
      BY <2>1, <2>2
    <3> HIDE DEF t, to
    <3> QED BY <1>1, <3>1, <3>2, <3>3, RenameUndoes
  <2>3. CASE o.renamed = FALSE /\ o.content = active
    BY <1>1, <2>1, <2>3, QuietFailure
  <2> QED BY <2>1, <2>2, <2>3, CopyOutcomesType, ZenonT(60)
<1> QED BY <1>2, <1>3

\* Pruning leaves the transaction its own backup.
LEMMA CleanupIsQuiet ==
    ASSUME SingleProcess, Inv, Inv', NEW c \in Callers, Cleanup(c)
    PROVE  UNCHANGED Abstract!abstractVars
<1>1. PICK o \in PruneOutcomes :
          /\ backups' = WithoutFiles(backups, o.removed)
          /\ Move(c, "cleanup", "append",
                  [IF o.ok THEN tx[c] ELSE Failed(c) EXCEPT !.candidate = NoFile])
  BY DEF Cleanup, CandidateAfterRemove
<1>2. /\ tx[c] \in Transaction /\ tx[c].id = started /\ started \in IDs
      /\ UNCHANGED <<active, report>>
  BY <1>1, TypeInvSplit
  DEF Inv, FileInv, CallInv, Identity, HasID, Move, Inside, Cleanup
<1>3. backups'[tx[c].id] = backups[tx[c].id]
  BY <1>1, <1>2, PruneKeepsOwn DEF Inv, FileInv, WithoutFiles
<1>4. ASSUME NEW t \in {tx[c], Failed(c)},
             Move(c, "cleanup", "append", [t EXCEPT !.candidate = NoFile])
      PROVE  UNCHANGED Abstract!abstractVars
  <2> DEFINE u == [t EXCEPT !.candidate = NoFile]
  <2>1. u.phase = tx[c].phase /\ u.hadActive = tx[c].hadActive /\ u.id = tx[c].id
    BY <1>2 DEF Failed, Transaction
  <2> HIDE DEF u
  <2>2. Move(c, "cleanup", "append", u)
    BY <1>4 DEF u
  <2> QED BY <1>2, <1>3, <2>1, <2>2, QuietMoveStep
<1> QED BY <1>1, <1>4

\* The record is the report, and it says no more than the abstraction allows.
LEMMA RecordEnds ==
    ASSUME SingleProcess, Inv, Inv', NEW c \in Callers, AppendRecord(c)
    PROVE  Abstract!End(ReportOf(tx[c]))
<1>1. /\ pc[c] = "append" /\ pc'[c] = "clear" /\ UNCHANGED active
      /\ report' = ReportOf(tx[c])
  BY Moved DEF Inv, AppendRecord, files, Move
<1>2. Phase = AbstractPhase(c)
  BY <1>1, MapsToCaller DEF Unrecorded
<1>3. Phase' = "idle" /\ Saved' = NoFile
  <2>1. \A d \in Callers : d # c => ~Inside(d)'
    BY OthersStayOut DEF AppendRecord, Steps
  <2> QED BY <1>1, <2>1, MapsToIdleNext DEF Unrecorded, Inside
<1>4. /\ tx[c].phase \in {"open", "saved", "switched", "verified", "undone"}
      /\ tx[c].err \in BOOLEAN /\ tx[c].rolledBack \in BOOLEAN
      /\ tx[c].err \/ tx[c].phase = "verified"
      /\ tx[c].rolledBack => tx[c].phase = "undone"
  BY <1>1, TypeInvSplit DEF Inv, FileInv, CallInv, Progress, Transaction
<1>5. /\ Phase # "idle"
      /\ ReportOf(tx[c]) = "success" => Phase = "verified"
      /\ ReportOf(tx[c]) = "rolledback" => Phase = "undone"
  BY <1>2, <1>4 DEF AbstractPhase, ReportOf
<1> QED BY <1>1, <1>3, <1>5 DEF Abstract!End

\* After the record only the mutex and the flag are left to give back.
LEMMA ReleaseIsQuiet ==
    ASSUME SingleProcess, Inv, Inv', NEW c \in Callers, ClearBusy(c) \/ Unlock(c)
    PROVE  UNCHANGED Abstract!abstractVars
<1>1. /\ pc[c] \in {"clear", "unlock"} /\ pc'[c] \in {"unlock", "idle"}
      /\ UNCHANGED <<active, report>>
  BY Moved DEF Inv, ClearBusy, Unlock, files, Move
<1>2. \A d \in Callers : d # c => ~Inside(d) /\ ~Inside(d)'
  BY OthersStayOut DEF ClearBusy, Unlock, Steps
<1>3. \A d \in Callers : ~Unrecorded(d) /\ ~Unrecorded(d)'
  BY <1>1, <1>2 DEF Unrecorded, Inside
<1> QED BY <1>1, <1>3, MapsToIdle, MapsToIdleNext DEF Abstract!abstractVars

\* The mapping looks at these variables only, and not at `cancelled`.
LEMMA UnmappedIsQuiet ==
    ASSUME UNCHANGED <<pc, active, backups, report>>,
           \A c \in Callers : /\ tx'[c].phase = tx[c].phase /\ tx'[c].id = tx[c].id
                              /\ tx'[c].hadActive = tx[c].hadActive
    PROVE  UNCHANGED Abstract!abstractVars
<1>1. Current' = Current
  BY DEF Current, Unrecorded
<1>2. \A c \in Callers : /\ AbstractPhase(c)' = AbstractPhase(c)
                         /\ SavedContent(c)' = SavedContent(c)
  BY DEF AbstractPhase, SavedContent
<1>3. CASE Current = {}
  BY <1>1, <1>3 DEF Phase, Saved, Abstract!abstractVars
<1>4. CASE Current # {}
  <2>1. PICK d \in Callers : d = CHOOSE c \in Current : TRUE
    BY <1>4 DEF Current
  <2>2. Phase = AbstractPhase(d) /\ Saved = SavedContent(d)
    BY <1>4, <2>1 DEF Phase, Saved
  <2>3. d = CHOOSE c \in Current' : TRUE
    BY <1>1, <2>1
  <2>4. Phase' = AbstractPhase(d)' /\ Saved' = SavedContent(d)'
    BY <1>1, <1>4, <2>3 DEF Phase, Saved
  <2> QED BY <1>2, <2>2, <2>4 DEF Abstract!abstractVars
<1> QED BY <1>3, <1>4

LEMMA CancelIsQuiet ==
    ASSUME Inv, NEW c \in Callers, Cancel(c)
    PROVE  UNCHANGED Abstract!abstractVars
<1>1. /\ pc \in [Callers -> Steps] /\ tx \in [Callers -> Transaction]
      /\ tx' = [tx EXCEPT ![c] = [tx[c] EXCEPT !.cancelled = TRUE]]
      /\ pc' = [pc EXCEPT ![c] = pc[c]] /\ UNCHANGED <<active, backups, report>>
  BY TypeInvSplit DEF Inv, Cancel, Move, files
<1>2. pc' = pc
  BY <1>1
<1>3. ASSUME NEW d \in Callers
      PROVE  /\ tx'[d].phase = tx[d].phase /\ tx'[d].id = tx[d].id
             /\ tx'[d].hadActive = tx[d].hadActive
  <2>1. tx[d] \in Transaction
    BY <1>1
  <2>2. CASE d = c
    BY <1>1, <2>1, <2>2 DEF Transaction
  <2>3. CASE d # c
    BY <1>1, <2>3
  <2> QED BY <2>2, <2>3
<1> QED BY <1>1, <1>2, <1>3, UnmappedIsQuiet

\* A kill ends the transaction where it stands.
LEMMA CrashEnds ==
    ASSUME SingleProcess, Inv, NEW p \in Processes, Crash(p)
    PROVE  Abstract!End("crashed") \/ UNCHANGED Abstract!abstractVars
<1>1. /\ UNCHANGED <<active, backups>>
      /\ \A c \in Callers :
            /\ pc'[c] = IF ProcessOf[c] = p THEN "idle" ELSE pc[c]
            /\ tx'[c] = IF ProcessOf[c] = p THEN NewTx(0, 0) ELSE tx[c]
  BY DEF Crash, CallersOf
<1>2. CASE \E c \in CallersOf(p) : Unrecorded(c)
  <2>1. PICK c \in Callers : ProcessOf[c] = p /\ Unrecorded(c)
    BY <1>2 DEF CallersOf
  <2>2. Phase = AbstractPhase(c) /\ Phase # "idle"
    <3>1. tx[c].phase # "idle"
      BY TypeInvSplit DEF Inv, Transaction
    <3> QED BY <2>1, <3>1, MapsToCaller DEF AbstractPhase
  <2>3. \A d \in Callers : ~Unrecorded(d)'
    BY <1>1, <2>1, SingleProcess DEF SingleProcess, Unrecorded
  <2>4. Phase' = "idle" /\ Saved' = NoFile /\ report' = "crashed"
    BY <1>2, <2>3, MapsToIdleNext DEF Crash
  <2> QED BY <1>1, <2>2, <2>4 DEF Abstract!End
<1>3. CASE ~ \E c \in CallersOf(p) : Unrecorded(c)
  <2>1. report' = report
    BY <1>3 DEF Crash
  <2>2. CASE \E c \in Callers : ProcessOf[c] = p
    <3>1. \A d \in Callers : ProcessOf[d] = p
      BY <2>2, SingleProcess DEF SingleProcess
    <3>2. \A d \in Callers : ~Unrecorded(d) /\ ~Unrecorded(d)'
      BY <1>1, <1>3, <3>1 DEF CallersOf, Unrecorded
    <3> QED
      BY <1>1, <2>1, <3>2, MapsToIdle, MapsToIdleNext DEF Abstract!abstractVars
  <2>3. CASE ~ \E c \in Callers : ProcessOf[c] = p
    <3>1. pc' = pc
      BY <2>3, TypeInvSplit DEF Crash, CallersOf, Inv
    <3> QED BY <1>1, <2>1, <2>3, <3>1, UnmappedIsQuiet
  <2> QED BY <2>2, <2>3
<1> QED BY <1>2, <1>3

-----------------------------------------------------------------------------
(***************************************************************************)
(* The refinement.                                                         *)
(***************************************************************************)
LEMMA InitMaps == Init => Abstract!AbstractInit
<1> SUFFICES ASSUME Init PROVE Abstract!AbstractInit
  OBVIOUS
<1>1. Phase = "idle" /\ Saved = NoFile
  BY MapsToIdle DEF Init, Unrecorded
<1> QED BY <1>1 DEF Init, File, Abstract!AbstractInit

LEMMA CallerStepMaps ==
    ASSUME SingleProcess, Inv, Inv', NEW c \in Callers, CallerStep(c)
    PROVE  [Abstract!AbstractNext]_(Abstract!abstractVars)
<1> USE DEF Abstract!AbstractNext
<1>1. CASE MarkBusy(c) \/ EnsureDirectories(c) \/ BuildCandidate(c) \/ FindBackup(c)
           \/ Validate(c)
  BY <1>1, PreparationIsQuiet
<1>2. CASE BackupActive(c)
  BY <1>2, BackupIsQuiet
<1>3. CASE ActivateCandidate(c) \/ ActivateBackup(c)
  BY <1>3, ActivationSwitches
<1>4. CASE Reload(c) \/ UndoReload(c)
  BY <1>4, ReloadIsQuiet
<1>5. CASE Health(c)
  BY <1>5, HealthVerifies
<1>6. CASE RemoveFirst(c) \/ CopyBack(c)
  BY <1>6, RollbackUndoes
<1>7. CASE UndoHealth(c)
  BY <1>7, UndoHealthIsQuiet
<1>8. CASE Cleanup(c)
  BY <1>8, CleanupIsQuiet
<1>9. CASE AppendRecord(c)
  <2>1. ReportOf(tx[c]) \in Abstract!Reports \ {"none"}
    BY DEF ReportOf, Abstract!Reports
  <2> QED BY <1>9, <2>1, RecordEnds
<1>10. CASE ClearBusy(c) \/ Unlock(c)
  BY <1>10, ReleaseIsQuiet
<1> QED
  BY <1>1, <1>2, <1>3, <1>4, <1>5, <1>6, <1>7, <1>8, <1>9, <1>10 DEF CallerStep

LEMMA NextMaps ==
    ASSUME SingleProcess, Inv, Inv', [Next]_vars
    PROVE  [Abstract!AbstractNext]_(Abstract!abstractVars)
<1>1. ASSUME NEW c \in Callers, BeginUpdate(c) \/ BeginRestore(c)
      PROVE  [Abstract!AbstractNext]_(Abstract!abstractVars)
  BY <1>1, BeginOpens DEF BeginUpdate, BeginRestore, Abstract!AbstractNext
<1>2. ASSUME NEW c \in Callers, CallerStep(c)
      PROVE  [Abstract!AbstractNext]_(Abstract!abstractVars)
  BY <1>2, CallerStepMaps
<1>3. ASSUME NEW c \in Callers, Cancel(c)
      PROVE  [Abstract!AbstractNext]_(Abstract!abstractVars)
  BY <1>3, CancelIsQuiet
<1>4. ASSUME NEW p \in Processes, Crash(p)
      PROVE  [Abstract!AbstractNext]_(Abstract!abstractVars)
  BY <1>4, CrashEnds DEF Abstract!AbstractNext, Abstract!Reports
<1>5. CASE MihomoCrash \/ MihomoRestart \/ LateReload \/ UNCHANGED vars
  <2>1. UNCHANGED <<pc, tx, active, backups, report>>
    BY <1>5 DEF MihomoCrash, MihomoRestart, LateReload, vars, files
  <2> QED BY <2>1, UnmappedIsQuiet
<1> QED BY <1>1, <1>2, <1>3, <1>4, <1>5 DEF Next

\* What the files go through is what the abstract transaction allows: one switch
\* to a new content, verified before it is reported, and one undo to what the
\* file held when the transaction began.
THEOREM Implementation == ASSUME SingleProcess PROVE Spec => TransactionRefinement
<1>1. Inv /\ Inv' /\ [Next]_vars => [Abstract!AbstractNext]_(Abstract!abstractVars)
  BY SingleProcess, NextMaps
<1>2. Spec => []Inv
  <2>1. TypeInv /\ LockInv /\ FileInv => Inv
    BY DEF Inv
  <2> QED BY <2>1, FileInvAlways, PTL
<1> QED
  BY <1>1, <1>2, InitMaps, PTL DEF Spec, TransactionRefinement, Abstract!AbstractSpec

\* What a rollback leaves is what the transaction found, and it stays so until
\* the record is written.
UndoneIsRestored == Phase = "undone" => active = Saved

\* The abstract transaction gives the concrete one this for free: an undone
\* transaction has the file back as it was when the transaction began, however
\* many steps, failures and prunings lie between.
THEOREM RollbackRestores == ASSUME SingleProcess PROVE Spec => []UndoneIsRestored
<1>1. Abstract!AbstractInit => UndoneIsRestored
  BY DEF Abstract!AbstractInit, UndoneIsRestored
<1>2. UndoneIsRestored /\ [Abstract!AbstractNext]_(Abstract!abstractVars)
        => UndoneIsRestored'
  BY DEF UndoneIsRestored, Abstract!AbstractNext, Abstract!abstractVars, Abstract!Open,
     Abstract!Switch, Abstract!Verify, Abstract!Undo, Abstract!End
<1> QED
  BY <1>1, <1>2, Implementation, PTL DEF TransactionRefinement, Abstract!AbstractSpec
================================================================================
