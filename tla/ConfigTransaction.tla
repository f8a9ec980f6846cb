-------------------------- MODULE ConfigTransaction --------------------------
(***************************************************************************)
(* What a configuration transaction of the guardian promises, without how  *)
(* it keeps the promise.  There is one configuration slot (the file Mihomo *)
(* is told to load) and at most one transaction at a time.  A transaction  *)
(* may switch the slot to another content once, may put the old content    *)
(* back once, and ends with a report:                                      *)
(*   "success"     only after the switched content was verified;           *)
(*   "rolledback"  only after the old content was put back;                *)
(*   "failed"      says nothing about the slot.                            *)
(* The process may die at any moment, which ends the transaction where it  *)
(* stands.                                                                 *)
(***************************************************************************)
CONSTANTS
    Contents,   \* what a configuration file may hold
    NoFile      \* the slot is empty: no configuration file exists

VARIABLES
    config,     \* the content of the slot
    saved,      \* what the slot held when the transaction began
    phase,      \* how far the transaction is
    report      \* how the last transaction ended

abstractVars == <<config, saved, phase, report>>

Phases == {"idle", "open", "switched", "verified", "undone"}
Reports == {"none", "success", "rolledback", "failed", "crashed"}

AbstractTypeOK ==
    /\ config \in Contents \cup {NoFile}
    /\ saved \in Contents \cup {NoFile}
    /\ phase \in Phases
    /\ report \in Reports

AbstractInit ==
    /\ config \in Contents \cup {NoFile}
    /\ saved = NoFile
    /\ phase = "idle"
    /\ report = "none"

Open ==
    /\ phase = "idle"
    /\ phase' = "open"
    /\ saved' = config
    /\ report' = "none"
    /\ UNCHANGED config

\* The only step that brings a new content into the slot.
Switch ==
    /\ phase = "open"
    /\ phase' = "switched"
    /\ config' \in Contents
    /\ UNCHANGED <<saved, report>>

Verify ==
    /\ phase = "switched"
    /\ phase' = "verified"
    /\ UNCHANGED <<config, saved, report>>

\* The only other step that changes the slot: back to what it held.
Undo ==
    /\ phase = "switched"
    /\ phase' = "undone"
    /\ config' = saved
    /\ UNCHANGED <<saved, report>>

End(r) ==
    /\ phase # "idle"
    /\ r = "success" => phase = "verified"
    /\ r = "rolledback" => phase = "undone"
    /\ phase' = "idle"
    /\ saved' = NoFile
    /\ report' = r
    /\ UNCHANGED config

AbstractNext ==
    \/ Open
    \/ Switch
    \/ Verify
    \/ Undo
    \/ \E r \in Reports \ {"none"} : End(r)

AbstractSpec == AbstractInit /\ [][AbstractNext]_abstractVars

=============================================================================
