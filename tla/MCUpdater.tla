------------------------------ MODULE MCUpdater ------------------------------
(***************************************************************************)
(* Small instances of Updater.  `serve` is one process with two callers,   *)
(* the scheduler and an API handler; a CLI `update` is a process of its    *)
(* own.                                                                    *)
(***************************************************************************)
EXTENDS Updater, TLC

CONSTANTS scheduler, handler, serve, cli

OneProcess == [c \in Callers |-> serve]
SchedulerAndCLI == (scheduler :> serve) @@ (handler :> cli)
=============================================================================
