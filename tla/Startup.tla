------------------------------- MODULE Startup -------------------------------
(***************************************************************************)
(* What a configuration has to pass before `serve` or `update` runs        *)
(* anything: config.Load with its Validate, the secret files, and the      *)
(* checks of buildRuntime.  A duration is a number of seconds.             *)
(*                                                                         *)
(* Kept are the fields that other modules or the properties depend on;     *)
(* otherFieldsValid stands for the checks of the rest (paths, URLs, the    *)
(* mixed port, max_bytes, source names, converter), which only refuse.     *)
(***************************************************************************)
EXTENDS Integers

Address == {"loopback", "remote", "malformed"}

\* A secret file by what ReadSecret makes of it.
SecretFile == {"unset", "unusable", "short", "usable"}

Config == [
    listen: Address, allowRemote: BOOLEAN, tokenFile: SecretFile,
    enforceRuntime: BOOLEAN, controllerListen: Address, secretFile: SecretFile,
    readTimeout: Int, writeTimeout: Int, validationTimeout: Int,
    requestTimeout: Int, sourceTimeout: Int, healthDelay: Int,
    scheduled: BOOLEAN, interval: Int,
    backupRetention: Int, historyRetention: Int, enabledSources: Nat,
    otherFieldsValid: BOOLEAN]

\* What a field holds that the file leaves out.
Defaults == [
    listen |-> "loopback", allowRemote |-> FALSE, tokenFile |-> "unset",
    enforceRuntime |-> TRUE, controllerListen |-> "loopback", secretFile |-> "unset",
    readTimeout |-> 10, writeTimeout |-> 120, validationTimeout |-> 30,
    requestTimeout |-> 10, sourceTimeout |-> 30, healthDelay |-> 2,
    scheduled |-> TRUE, interval |-> 21600,
    backupRetention |-> 10, historyRetention |-> 100, enabledSources |-> 0,
    otherFieldsValid |-> TRUE]

ValidListen(c) ==
    /\ c.listen # "malformed"
    /\ c.tokenFile # "unset" \/ c.allowRemote \/ c.listen = "loopback"

ValidController(c) ==
    c.enforceRuntime =>
        /\ c.controllerListen # "malformed"
        /\ c.controllerListen = "loopback" \/ c.secretFile # "unset"

\* Deviation: the interval is not checked, a 0 is taken for "off".
ValidIntervalUnchecked(c) == TRUE
ValidInterval(c) == c.scheduled => c.interval > 0

\* Deviation: a 0 is let through for "no timeout".
ValidTimeoutsFromZero(c) ==
    /\ c.readTimeout > 0 /\ c.writeTimeout > 0
    /\ c.validationTimeout >= 0 /\ c.requestTimeout >= 0 /\ c.sourceTimeout >= 0
    /\ c.healthDelay >= 0
ValidTimeouts(c) ==
    /\ c.readTimeout > 0 /\ c.writeTimeout > 0
    /\ c.validationTimeout > 0 /\ c.requestTimeout > 0 /\ c.sourceTimeout > 0
    /\ c.healthDelay >= 0

BackupRetentions == 1 .. 1000
HistoryRetentions == 1 .. 10000
ValidRetentions(c) ==
    c.backupRetention \in BackupRetentions /\ c.historyRetention \in HistoryRetentions

\* All checks are made and their errors joined; one is enough to refuse.
Validate(c) ==
    /\ ValidListen(c) /\ ValidController(c)
    /\ ValidTimeouts(c) /\ ValidInterval(c)
    /\ ValidRetentions(c)
    /\ c.enabledSources > 0
    /\ c.otherFieldsValid

\* The secret in a file; an unset path is the empty secret and no error.
Readable(file) == file # "unusable"
ReadSecret(file) == IF file = "unset" THEN "" ELSE file

\* Deviation: any token that is not empty will do.
ValidTokenAnyLength(file) == Readable(file)
ValidToken(file) == Readable(file) /\ ReadSecret(file) # "short"

\* Whether buildRuntime returns without an error.  Left out: a history that cannot
\* be opened and a controller address that NewClient refuses, so the model lets
\* more start than the code does.
BuildRuntime(c) == Validate(c) /\ ValidToken(c.tokenFile) /\ Readable(c.secretFile)

\* Deviation: a budget with room for one request.
RollbackTimeoutOfOneRequest(c) == c.requestTimeout + c.healthDelay
RollbackTimeout(c) == 2 * c.requestTimeout + c.healthDelay
=============================================================================
