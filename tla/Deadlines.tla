------------------------------ MODULE Deadlines ------------------------------
(***************************************************************************)
(* One `serve` process and the clock.  It starts with some configuration   *)
(* or refuses it; then its API runs transactions whose calls take time up  *)
(* to their timeouts, while two deadlines run: the context of a rollback   *)
(* and the write timeout of the HTTP server.  Updater says what the steps  *)
(* do, this module only how long they take.  File operations take none.    *)
(***************************************************************************)
EXTENDS Startup

CONSTANTS
    Configs,    \* the configuration files that are tried
    Endless     \* how long a call without a timeout may take

ASSUME ConfigsAssumption == Configs \subseteq Config
ASSUME EndlessAssumption == Endless \in Nat

VARIABLES
    config,     \* the configuration of this process
    token,      \* the administrator token, "" when authentication is off
    pc,         \* start-up, or the step of the transaction a request runs
    now,        \* seconds since that request came
    budget,     \* when the context of the rollback expires
    answer      \* what became of the last answer

vars == <<config, token, pc, now, budget, answer>>

Calls == {"build", "validate", "reload", "delay", "health",
          "rollbackReload", "rollbackDelay", "rollbackHealth", "finish"}

Init ==
    /\ config \in Configs
    /\ pc = "starting"
    /\ token = "" /\ now = 0 /\ budget = 0 /\ answer = "none"

\* buildRuntime, and the scheduler, whose time.NewTicker panics when the
\* interval is not positive.
Start ==
    /\ pc = "starting"
    /\ pc' = IF ~BuildRuntime(config) THEN "refused"
             ELSE IF config.scheduled /\ config.interval <= 0 THEN "panicked"
             ELSE "serving"
    /\ token' = IF BuildRuntime(config) THEN ReadSecret(config.tokenFile) ELSE token
    /\ UNCHANGED <<config, now, budget, answer>>

\* An update begins with the download, a restore with the validation.
Request ==
    /\ pc = "serving"
    /\ pc' \in {"build", "validate"}
    /\ now' = 0
    /\ UNCHANGED <<config, token, budget, answer>>

Least(a, b) == IF a < b THEN a ELSE b

\* A timeout that is not positive: an http.Client has none then, a context is
\* done from the start.
ClientLimit(timeout) == IF timeout > 0 THEN timeout ELSE Endless
ContextLimit(timeout) == IF timeout > 0 THEN timeout ELSE 0

\* A call ends well before its limit, or fails at any time up to it.
Takes(limit, next, failed) ==
    \E d \in 0 .. limit :
        /\ now' = now + d
        /\ (d < limit /\ pc' = next) \/ pc' = failed

\* The downloads run side by side, the converter has the same timeout.
Build ==
    /\ pc = "build"
    /\ Takes(ClientLimit(config.sourceTimeout), "validate", "finish")
    /\ UNCHANGED <<config, token, budget, answer>>

Validation ==
    /\ pc = "validate"
    /\ Takes(ContextLimit(config.validationTimeout), "reload", "finish")
    /\ UNCHANGED <<config, token, budget, answer>>

\* The context of a rollback; 30 seconds when no budget is configured.
RollbackBudget(c) == IF RollbackTimeout(c) > 0 THEN RollbackTimeout(c) ELSE 30

\* A failure after the switch: the old file is copied back and reloaded, or a
\* first configuration is removed, or the copy fails, which needs no time.
StartRollback(moment) ==
    \/ pc' = "rollbackReload" /\ budget' = moment + RollbackBudget(config)
    \/ pc' = "finish" /\ UNCHANGED budget

\* A request to Mihomo after the switch.
RequestTo(step, next) ==
    /\ pc = step
    /\ LET limit == ClientLimit(config.requestTimeout)
       IN \E d \in 0 .. limit :
            /\ now' = now + d
            /\ (d < limit /\ pc' = next /\ UNCHANGED budget) \/ StartRollback(now + d)
    /\ UNCHANGED <<config, token, answer>>

Reload == RequestTo("reload", "delay")
Health == RequestTo("health", "finish")

\* The wait is a timer; it ends early only when the client goes away.
Wait == IF config.healthDelay > 0 THEN config.healthDelay ELSE 0

Delay ==
    /\ pc = "delay"
    /\ \/ now' = now + Wait /\ pc' = "health" /\ UNCHANGED budget
       \/ \E d \in 0 .. Wait : now' = now + d /\ StartRollback(now + d)
    /\ UNCHANGED <<config, token, answer>>

\* The same three with the context of the rollback.
Left == budget - now

RollbackReload ==
    /\ pc = "rollbackReload"
    /\ Takes(Least(ClientLimit(config.requestTimeout), Left), "rollbackDelay", "finish")
    /\ UNCHANGED <<config, token, budget, answer>>

RollbackDelay ==
    /\ pc = "rollbackDelay"
    /\ now' = now + Least(Wait, Left)
    /\ pc' \in (IF Wait <= Left THEN {"rollbackHealth"} ELSE {})
              \cup (IF Left <= Wait THEN {"finish"} ELSE {})
    /\ UNCHANGED <<config, token, budget, answer>>

RollbackHealth ==
    /\ pc = "rollbackHealth"
    /\ Takes(Least(ClientLimit(config.requestTimeout), Left), "finish", "finish")
    /\ UNCHANGED <<config, token, budget, answer>>

\* The deferred pruning and the record, which slice with the retentions, then
\* the answer: the server no longer writes it after the write timeout.
Panics(c) == c.backupRetention < 0 \/ c.historyRetention < 0
InTime == config.writeTimeout > 0 => now < config.writeTimeout

Finish ==
    /\ pc = "finish"
    /\ IF Panics(config)
       THEN pc' = "panicked" /\ UNCHANGED answer
       ELSE pc' = "serving" /\ answer' = IF InTime THEN "received" ELSE "lost"
    /\ UNCHANGED <<config, token, now, budget>>

Next ==
    \/ Start \/ Request \/ Build \/ Validation
    \/ Reload \/ Delay \/ Health
    \/ RollbackReload \/ RollbackDelay \/ RollbackHealth \/ Finish

Spec == Init /\ [][Next]_vars

(***************************************************************************)
(* Properties.                                                             *)
(***************************************************************************)

\* Every variable holds a value of the Go type it stands for, no time is
\* negative, and the token is none or a usable one.
TypeOK ==
    /\ config \in Configs
    /\ token \in {"", "usable"}
    /\ pc \in {"starting", "refused", "panicked", "serving"} \cup Calls
    /\ now \in Nat /\ budget \in Nat
    /\ answer \in {"none", "received", "lost"}

\* What start-up let through is sound: no ticker and no slice panics over it,
\* a listener others can reach asks for a token unless the operator allowed
\* it without (config.example.yaml:13, 29), and so does a remote controller
\* for its secret (config.example.yaml:53).  Each is checked in one function
\* and used in another.
StartsSound ==
    /\ pc # "panicked"
    /\ pc \notin {"starting", "refused"} =>
        /\ config.listen # "loopback" => token # "" \/ config.allowRemote
        /\ config.enforceRuntime /\ config.controllerListen # "loopback" =>
              ReadSecret(config.secretFile) # ""

\* The context of a rollback never ends one of its calls before the call's own
\* timeout would (main.go:245, updater.go:354-359): what fails a rollback is
\* Mihomo, however long each call before it took.
RollbackWithinBudget ==
    /\ pc \in {"rollbackReload", "rollbackHealth"} => Left >= config.requestTimeout
    /\ pc = "rollbackDelay" => Left > Wait

\* The write timeout is independent of the others; its default is long enough
\* for every update with the default timeouts (config.example.yaml:20), and a
\* longer sum of the others is the only way to lose an answer to it.
LongestTransaction(c) ==
    c.sourceTimeout + c.validationTimeout
        + (2 * c.requestTimeout + c.healthDelay) + RollbackTimeout(c)

Timeouts(c) == <<c.writeTimeout, c.sourceTimeout, c.validationTimeout,
                 c.requestTimeout, c.healthDelay>>

AnsweredInTime ==
    answer = "lost" =>
        /\ config.writeTimeout <= LongestTransaction(config)
        /\ Timeouts(config) # Timeouts(Defaults)
=============================================================================
