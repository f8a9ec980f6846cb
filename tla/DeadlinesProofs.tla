--------------------------- MODULE DeadlinesProofs ---------------------------
(***************************************************************************)
(* Proofs about Deadlines for every set of configurations and every length *)
(* of the timeouts.  Inv says how much time may have passed at each step   *)
(* of a transaction and what is left of the rollback's context then.       *)
(***************************************************************************)
EXTENDS Deadlines, TLAPS

\* Start-up let this configuration through.
Accepted ==
    pc \notin {"starting", "refused"} =>
        BuildRuntime(config) /\ token = ReadSecret(config.tokenFile)

S == config.sourceTimeout
V == config.validationTimeout
R == config.requestTimeout
D == config.healthDelay

\* The time since the request, step by step.
Elapsed ==
    /\ pc = "build" => now = 0
    /\ pc = "validate" => now <= S
    /\ pc = "reload" => now <= S + V
    /\ pc = "delay" => now <= S + V + R
    /\ pc = "health" => now <= S + V + R + D
    /\ pc = "rollbackReload" => now <= S + V + 2 * R + D /\ Left = 2 * R + D
    /\ pc = "rollbackDelay" => now <= S + V + 3 * R + D /\ Left > R + D
    /\ pc = "rollbackHealth" => now <= S + V + 3 * R + 2 * D /\ Left > R
    /\ pc = "finish" => now <= S + V + 4 * R + 2 * D

LostForLength == answer = "lost" => config.writeTimeout <= LongestTransaction(config)

Inv ==
    /\ TypeOK
    /\ Accepted
    /\ pc # "panicked"
    /\ Elapsed
    /\ LostForLength

Steps == {"starting", "refused", "panicked", "serving"} \cup Calls

\* What the checks of start-up say about the durations of a running process.
LEMMA PositiveTimeouts ==
    ASSUME Inv, pc \notin {"starting", "refused"}
    PROVE  /\ S \in Nat /\ S > 0 /\ V \in Nat /\ V > 0
           /\ R \in Nat /\ R > 0 /\ D \in Nat
           /\ config.writeTimeout \in Nat /\ config.writeTimeout > 0
           /\ ClientLimit(S) = S /\ ContextLimit(V) = V /\ ClientLimit(R) = R
           /\ Wait = D
           /\ RollbackBudget(config) = 2 * R + D
<1>1. config \in Config
  BY ConfigsAssumption DEF Inv, TypeOK
<1>2. ValidTimeouts(config)
  <2>1. BuildRuntime(config)
    BY DEF Inv, Accepted
  <2> QED
    BY <2>1, Zenon DEF BuildRuntime, Validate
<1> QED
  BY <1>1, <1>2 DEF Config, ValidTimeouts, S, V, R, D, ClientLimit, ContextLimit,
     Wait, RollbackBudget, RollbackTimeout

\* A call inside a transaction leaves configuration, token and answer alone.
LEMMA CallKeeps ==
    ASSUME Inv, pc \in Calls, pc' \in Calls, UNCHANGED <<config, token, answer>>,
           now' \in Nat, budget' \in Nat, Elapsed'
    PROVE  Inv'
<1>1. pc \notin {"starting", "refused"} /\ pc' \notin {"starting", "refused", "panicked"}
  BY DEF Calls
<1>2. TypeOK'
  BY DEF Inv, TypeOK
<1>3. Accepted'
  BY <1>1 DEF Inv, Accepted
<1>4. LostForLength'
  BY DEF Inv, LostForLength
<1> QED
  BY <1>1, <1>2, <1>3, <1>4 DEF Inv

LEMMA InvInit == Init => Inv
<1> SUFFICES ASSUME Init PROVE Inv
  OBVIOUS
<1>1. TypeOK
  BY DEF Init, TypeOK
<1>2. Elapsed
  BY DEF Init, Elapsed
<1> QED
  BY <1>1, <1>2 DEF Init, Inv, Accepted, LostForLength

LEMMA InvStart == Inv /\ Start => Inv'
<1> SUFFICES ASSUME Inv, Start PROVE Inv'
  OBVIOUS
<1>1. config \in Config /\ config' = config /\ now' = now /\ budget' = budget /\ answer' = answer
  BY ConfigsAssumption DEF Inv, TypeOK, Start
<1>2. CASE BuildRuntime(config)
  <2>1. pc' = "serving"
    <3>1. ValidInterval(config)
      BY <1>2, Zenon DEF BuildRuntime, Validate
    <3>2. config.interval \in Int
      BY <1>1 DEF Config
    <3>3. ~(config.scheduled /\ config.interval <= 0)
      BY <3>1, <3>2 DEF ValidInterval
    <3> QED
      BY <1>2, <3>3 DEF Start
  <2>2. token' = ReadSecret(config.tokenFile) /\ token' \in {"", "usable"}
    BY <1>1, <1>2 DEF Start, BuildRuntime, ValidToken, ReadSecret, Readable, Config, SecretFile
  <2>3. BuildRuntime(config')
    BY <1>1, <1>2
  <2> QED
    BY <1>1, <2>1, <2>2, <2>3 DEF Inv, TypeOK, Accepted, Elapsed, LostForLength,
       LongestTransaction, RollbackTimeout
<1>3. CASE ~BuildRuntime(config)
  <2>1. pc' = "refused" /\ token' = token
    BY <1>3 DEF Start
  <2> QED
    BY <1>1, <2>1 DEF Inv, TypeOK, Accepted, Elapsed, LostForLength,
       LongestTransaction, RollbackTimeout
<1> QED
  BY <1>2, <1>3

LEMMA InvRequest == Inv /\ Request => Inv'
<1> SUFFICES ASSUME Inv, Request PROVE Inv'
  OBVIOUS
<1>1. UNCHANGED <<config, token, budget, answer>> /\ now' = 0 /\ pc' \in {"build", "validate"}
      /\ pc = "serving"
  BY DEF Request
<1>2. S \in Nat /\ S' = S
  BY <1>1, PositiveTimeouts DEF S
<1>3. Elapsed'
  BY <1>1, <1>2 DEF Elapsed
<1>4. TypeOK'
  BY <1>1 DEF Inv, TypeOK, Calls
<1>5. Accepted'
  BY <1>1 DEF Inv, Accepted
<1>6. LostForLength'
  BY <1>1 DEF Inv, LostForLength
<1> QED
  BY <1>1, <1>3, <1>4, <1>5, <1>6 DEF Inv

LEMMA InvBuild == Inv /\ Build => Inv'
<1> SUFFICES ASSUME Inv, Build PROVE Inv'
  OBVIOUS
<1>1. pc = "build" /\ UNCHANGED <<config, token, budget, answer>>
  BY DEF Build
<1>2. S \in Nat /\ V \in Nat /\ R \in Nat /\ D \in Nat /\ ClientLimit(S) = S
  BY <1>1, PositiveTimeouts
<1>3. UNCHANGED <<S, V, R, D>>
  BY <1>1 DEF S, V, R, D
<1>4. PICK d \in 0 .. S : now' = now + d /\ ((d < S /\ pc' = "validate") \/ pc' = "finish")
  BY <1>2 DEF Build, Takes, S
<1>5. now' \in Nat /\ now' <= S /\ pc' \in {"validate", "finish"}
  BY <1>1, <1>2, <1>4 DEF Inv, Elapsed
<1>6. Elapsed'
  BY <1>2, <1>3, <1>5 DEF Elapsed
<1> QED
  BY <1>1, <1>5, <1>6, CallKeeps DEF Calls, Inv, TypeOK

LEMMA InvValidation == Inv /\ Validation => Inv'
<1> SUFFICES ASSUME Inv, Validation PROVE Inv'
  OBVIOUS
<1>1. pc = "validate" /\ UNCHANGED <<config, token, budget, answer>>
  BY DEF Validation
<1>2. S \in Nat /\ V \in Nat /\ R \in Nat /\ D \in Nat /\ ContextLimit(V) = V
  BY <1>1, PositiveTimeouts
<1>3. UNCHANGED <<S, V, R, D>>
  BY <1>1 DEF S, V, R, D
<1>4. PICK d \in 0 .. V : now' = now + d /\ ((d < V /\ pc' = "reload") \/ pc' = "finish")
  BY <1>2 DEF Validation, Takes, V
<1>5. now' \in Nat /\ now' <= S + V /\ pc' \in {"reload", "finish"}
  <2>1. now \in Nat /\ now <= S
    BY <1>1 DEF Inv, TypeOK, Elapsed
  <2> QED
    BY <1>2, <1>4, <2>1
<1>6. Elapsed'
  BY <1>2, <1>3, <1>5 DEF Elapsed
<1> QED
  BY <1>1, <1>5, <1>6, CallKeeps DEF Calls, Inv, TypeOK

\* A failure after the switch: the whole budget lies before the rollback.
LEMMA RollbackHasItsBudget ==
    ASSUME Inv, pc \in Calls, NEW moment \in Nat, StartRollback(moment), now' = moment,
           UNCHANGED <<config, token, answer>>, moment <= S + V + 2 * R + D
    PROVE  Inv'
<1>1. pc \notin {"starting", "refused"}
  BY DEF Calls
<1>2. S \in Nat /\ V \in Nat /\ R \in Nat /\ D \in Nat /\ RollbackBudget(config) = 2 * R + D
  BY <1>1, PositiveTimeouts
<1>3. UNCHANGED <<S, V, R, D>>
  BY DEF S, V, R, D
<1>4. pc' \in {"rollbackReload", "finish"} /\ budget' \in Nat
      /\ (pc' = "rollbackReload" => budget' = moment + 2 * R + D)
  <2>1. budget \in Nat
    BY DEF Inv, TypeOK
  <2> QED
    BY <1>2, <2>1 DEF StartRollback
<1>5. Elapsed'
  <2>1. CASE pc' = "finish"
    BY <1>2, <1>3, <2>1 DEF Elapsed
  <2>2. CASE pc' = "rollbackReload"
    <3>1. budget' = moment + 2 * R + D /\ now' = moment
      BY <1>4, <2>2
    <3>2. Left' = 2 * R + D
      BY <1>2, <3>1 DEF Left
    <3> QED
      BY <1>2, <1>3, <2>2, <3>2 DEF Elapsed
  <2> QED
    BY <1>4, <2>1, <2>2
<1> QED
  BY <1>4, <1>5, CallKeeps DEF Calls

LEMMA InvReload == Inv /\ Reload => Inv'
<1> SUFFICES ASSUME Inv, Reload PROVE Inv'
  OBVIOUS
<1>1. pc = "reload" /\ UNCHANGED <<config, token, answer>>
  BY DEF Reload, RequestTo
<1>2. S \in Nat /\ V \in Nat /\ R \in Nat /\ D \in Nat /\ ClientLimit(R) = R
  BY <1>1, PositiveTimeouts
<1>3. UNCHANGED <<S, V, R, D>>
  BY <1>1 DEF S, V, R, D
<1>4. PICK d \in 0 .. R : /\ now' = now + d
                          /\ \/ pc' = "delay" /\ UNCHANGED budget
                             \/ StartRollback(now + d)
  BY <1>1, <1>2 DEF Reload, RequestTo, R
<1>5. now + d \in Nat /\ now + d <= S + V + R /\ budget \in Nat
  <2>1. now \in Nat /\ now <= S + V /\ budget \in Nat
    BY <1>1 DEF Inv, TypeOK, Elapsed
  <2> QED
    BY <1>2, <2>1
<1>6. CASE pc' = "delay" /\ UNCHANGED budget
  <2>1. Elapsed'
    BY <1>2, <1>3, <1>4, <1>5, <1>6 DEF Elapsed
  <2> QED
    BY <1>1, <1>4, <1>5, <1>6, <2>1, CallKeeps DEF Calls
<1>7. CASE StartRollback(now + d)
  BY <1>1, <1>2, <1>4, <1>5, <1>7, RollbackHasItsBudget DEF Calls
<1> QED
  BY <1>4, <1>6, <1>7

LEMMA InvDelay == Inv /\ Delay => Inv'
<1> SUFFICES ASSUME Inv, Delay PROVE Inv'
  OBVIOUS
<1>1. pc = "delay" /\ UNCHANGED <<config, token, answer>>
  BY DEF Delay
<1>2. S \in Nat /\ V \in Nat /\ R \in Nat /\ D \in Nat /\ Wait = D
  BY <1>1, PositiveTimeouts
<1>3. UNCHANGED <<S, V, R, D>>
  BY <1>1 DEF S, V, R, D
<1>4. now \in Nat /\ now <= S + V + R /\ budget \in Nat
  BY <1>1 DEF Inv, TypeOK, Elapsed
<1>5. CASE now' = now + Wait /\ pc' = "health" /\ UNCHANGED budget
  <2>1. Elapsed'
    BY <1>2, <1>3, <1>4, <1>5 DEF Elapsed
  <2> QED
    BY <1>1, <1>2, <1>4, <1>5, <2>1, CallKeeps DEF Calls
<1>6. CASE \E d \in 0 .. Wait : now' = now + d /\ StartRollback(now + d)
  <2>1. PICK d \in 0 .. D : now' = now + d /\ StartRollback(now + d)
    BY <1>2, <1>6
  <2>2. now + d \in Nat /\ now + d <= S + V + 2 * R + D
    BY <1>2, <1>4
  <2> QED
    BY <1>1, <2>1, <2>2, RollbackHasItsBudget DEF Calls
<1> QED
  BY <1>5, <1>6 DEF Delay

LEMMA InvHealth == Inv /\ Health => Inv'
<1> SUFFICES ASSUME Inv, Health PROVE Inv'
  OBVIOUS
<1>1. pc = "health" /\ UNCHANGED <<config, token, answer>>
  BY DEF Health, RequestTo
<1>2. S \in Nat /\ V \in Nat /\ R \in Nat /\ D \in Nat /\ ClientLimit(R) = R
  BY <1>1, PositiveTimeouts
<1>3. UNCHANGED <<S, V, R, D>>
  BY <1>1 DEF S, V, R, D
<1>4. PICK d \in 0 .. R : /\ now' = now + d
                          /\ \/ pc' = "finish" /\ UNCHANGED budget
                             \/ StartRollback(now + d)
  BY <1>1, <1>2 DEF Health, RequestTo, R
<1>5. now + d \in Nat /\ now + d <= S + V + 2 * R + D /\ budget \in Nat
  <2>1. now \in Nat /\ now <= S + V + R + D /\ budget \in Nat
    BY <1>1 DEF Inv, TypeOK, Elapsed
  <2> QED
    BY <1>2, <2>1
<1>6. CASE pc' = "finish" /\ UNCHANGED budget
  <2>1. Elapsed'
    BY <1>2, <1>3, <1>4, <1>5, <1>6 DEF Elapsed
  <2> QED
    BY <1>1, <1>4, <1>5, <1>6, <2>1, CallKeeps DEF Calls
<1>7. CASE StartRollback(now + d)
  BY <1>1, <1>2, <1>4, <1>5, <1>7, RollbackHasItsBudget DEF Calls
<1> QED
  BY <1>4, <1>6, <1>7

LEMMA InvRollbackReload == Inv /\ RollbackReload => Inv'
<1> SUFFICES ASSUME Inv, RollbackReload PROVE Inv'
  OBVIOUS
<1>1. pc = "rollbackReload" /\ UNCHANGED <<config, token, budget, answer>>
  BY DEF RollbackReload
<1>2. S \in Nat /\ V \in Nat /\ R \in Nat /\ D \in Nat /\ ClientLimit(R) = R
  BY <1>1, PositiveTimeouts
<1>3. UNCHANGED <<S, V, R, D>>
  BY <1>1 DEF S, V, R, D
<1>4. now \in Nat /\ budget \in Nat /\ now <= S + V + 2 * R + D /\ Left = 2 * R + D
  BY <1>1 DEF Inv, TypeOK, Elapsed
<1>5. Least(ClientLimit(config.requestTimeout), Left) = R
  BY <1>2, <1>4 DEF Least, R
<1>6. PICK d \in 0 .. R : now' = now + d /\ ((d < R /\ pc' = "rollbackDelay") \/ pc' = "finish")
  BY <1>5 DEF RollbackReload, Takes
<1>7. now' \in Nat /\ pc' \in {"rollbackDelay", "finish"}
  BY <1>2, <1>4, <1>6
<1>8. Elapsed'
  BY <1>1, <1>2, <1>3, <1>4, <1>6 DEF Elapsed, Left
<1> QED
  BY <1>1, <1>4, <1>7, <1>8, CallKeeps DEF Calls

LEMMA InvRollbackDelay == Inv /\ RollbackDelay => Inv'
<1> SUFFICES ASSUME Inv, RollbackDelay PROVE Inv'
  OBVIOUS
<1>1. pc = "rollbackDelay" /\ UNCHANGED <<config, token, budget, answer>>
  BY DEF RollbackDelay
<1>2. S \in Nat /\ V \in Nat /\ R \in Nat /\ D \in Nat /\ Wait = D
  BY <1>1, PositiveTimeouts
<1>3. UNCHANGED <<S, V, R, D>>
  BY <1>1 DEF S, V, R, D
<1>4. now \in Nat /\ budget \in Nat /\ now <= S + V + 3 * R + D /\ Left > R + D
  BY <1>1 DEF Inv, TypeOK, Elapsed
<1>5. now' = now + D /\ pc' = "rollbackHealth"
  BY <1>2, <1>4 DEF RollbackDelay, Least, Left
<1>6. now' \in Nat
  BY <1>2, <1>4, <1>5
<1>7. Elapsed'
  BY <1>1, <1>2, <1>3, <1>4, <1>5 DEF Elapsed, Left
<1> QED
  BY <1>1, <1>4, <1>5, <1>6, <1>7, CallKeeps DEF Calls

LEMMA InvRollbackHealth == Inv /\ RollbackHealth => Inv'
<1> SUFFICES ASSUME Inv, RollbackHealth PROVE Inv'
  OBVIOUS
<1>1. pc = "rollbackHealth" /\ UNCHANGED <<config, token, budget, answer>>
  BY DEF RollbackHealth
<1>2. S \in Nat /\ V \in Nat /\ R \in Nat /\ D \in Nat /\ ClientLimit(R) = R
  BY <1>1, PositiveTimeouts
<1>3. UNCHANGED <<S, V, R, D>>
  BY <1>1 DEF S, V, R, D
<1>4. now \in Nat /\ budget \in Nat /\ now <= S + V + 3 * R + 2 * D /\ Left > R
  BY <1>1 DEF Inv, TypeOK, Elapsed
<1>5. Least(ClientLimit(config.requestTimeout), Left) = R
  BY <1>2, <1>4 DEF Least, R, Left
<1>6. PICK d \in 0 .. R : now' = now + d /\ pc' = "finish"
  BY <1>5 DEF RollbackHealth, Takes
<1>7. now' \in Nat /\ now' <= S + V + 4 * R + 2 * D
  BY <1>2, <1>4, <1>6
<1>8. Elapsed'
  BY <1>3, <1>6, <1>7 DEF Elapsed
<1> QED
  BY <1>1, <1>4, <1>6, <1>7, <1>8, CallKeeps DEF Calls

LEMMA InvFinish == Inv /\ Finish => Inv'
<1> SUFFICES ASSUME Inv, Finish PROVE Inv'
  OBVIOUS
<1>1. pc = "finish" /\ UNCHANGED <<config, token, now, budget>>
  BY DEF Finish
<1>2. S \in Nat /\ V \in Nat /\ R \in Nat /\ D \in Nat
      /\ config.writeTimeout \in Nat /\ config.writeTimeout > 0
  BY <1>1, PositiveTimeouts
<1>3. BuildRuntime(config) /\ BuildRuntime(config')
  BY <1>1 DEF Inv, Accepted
<1>4. ~Panics(config)
  <2>1. ValidRetentions(config)
    BY <1>3, Zenon DEF BuildRuntime, Validate
  <2>2. \A n \in BackupRetentions : ~(n < 0)
    BY DEF BackupRetentions
  <2>3. \A n \in HistoryRetentions : ~(n < 0)
    BY DEF HistoryRetentions
  <2> QED
    BY <2>1, <2>2, <2>3, Zenon DEF ValidRetentions, Panics
<1>5. pc' = "serving" /\ answer' = IF InTime THEN "received" ELSE "lost"
  BY <1>4 DEF Finish
<1>6. now \in Nat /\ now <= S + V + 4 * R + 2 * D
  BY <1>1 DEF Inv, TypeOK, Elapsed
<1>7. LongestTransaction(config) = S + V + 4 * R + 2 * D
  BY <1>2 DEF LongestTransaction, RollbackTimeout, S, V, R, D
<1>8. LostForLength'
  BY <1>1, <1>2, <1>5, <1>6, <1>7 DEF LostForLength, InTime
<1>9. TypeOK'
  BY <1>1, <1>5 DEF Inv, TypeOK
<1>10. Accepted'
  BY <1>1, <1>3, <1>5 DEF Inv, Accepted
<1>11. Elapsed'
  BY <1>5 DEF Elapsed
<1>12. pc' # "panicked"
  BY <1>5
<1> QED
  BY <1>8, <1>9, <1>10, <1>11, <1>12, Zenon DEF Inv

LEMMA InvStutter == Inv /\ UNCHANGED vars => Inv'
<1> SUFFICES ASSUME Inv, UNCHANGED vars PROVE Inv'
  OBVIOUS
<1>1. UNCHANGED <<config, token, pc, now, budget, answer>>
  BY DEF vars
<1>2. TypeOK'
  BY <1>1 DEF Inv, TypeOK
<1>3. Accepted'
  BY <1>1 DEF Inv, Accepted
<1>4. Elapsed'
  BY <1>1 DEF Inv, Elapsed, S, V, R, D, Left
<1>5. LostForLength'
  BY <1>1 DEF Inv, LostForLength
<1> QED
  BY <1>1, <1>2, <1>3, <1>4, <1>5, Zenon DEF Inv

LEMMA InvAlways == Spec => []Inv
<1>1. Inv /\ [Next]_vars => Inv'
  BY InvStart, InvRequest, InvBuild, InvValidation, InvReload, InvDelay, InvHealth,
     InvRollbackReload, InvRollbackDelay, InvRollbackHealth, InvFinish, InvStutter DEF Next
<1> QED
  BY InvInit, <1>1, PTL DEF Spec

\* Every variable keeps its type, and a short token never gets into a process.
THEOREM Typing == Spec => []TypeOK
<1>1. Inv => TypeOK
  BY DEF Inv
<1> QED
  BY <1>1, InvAlways, PTL

\* What start-up let through neither panics nor serves others without a secret
\* (config.go:211-298, main.go:202-217).
THEOREM StartUpSuffices == Spec => []StartsSound
<1>1. Inv => StartsSound
  <2> SUFFICES ASSUME Inv, pc \notin {"starting", "refused"}
               PROVE  /\ config.listen # "loopback" => token # "" \/ config.allowRemote
                      /\ config.enforceRuntime /\ config.controllerListen # "loopback" =>
                            ReadSecret(config.secretFile) # ""
    BY DEF Inv, StartsSound
  <2>1. config \in Config /\ ValidListen(config) /\ ValidController(config)
        /\ token = ReadSecret(config.tokenFile)
    <3>1. config \in Config
      BY ConfigsAssumption DEF Inv, TypeOK
    <3>2. BuildRuntime(config) /\ token = ReadSecret(config.tokenFile)
      BY DEF Inv, Accepted
    <3> QED
      BY <3>1, <3>2, Zenon DEF BuildRuntime, Validate
  <2>2. \A file \in SecretFile : file # "unset" => ReadSecret(file) # ""
    BY DEF SecretFile, ReadSecret
  <2> QED
    BY <2>1, <2>2 DEF Config, ValidListen, ValidController
<1> QED
  BY <1>1, InvAlways, PTL

\* The budget of a rollback outlasts its calls for all timeouts and delays
\* (main.go:245, updater.go:354-359).
THEOREM BudgetSuffices == Spec => []RollbackWithinBudget
<1>1. Inv => RollbackWithinBudget
  <2> SUFFICES ASSUME Inv, pc \in {"rollbackReload", "rollbackHealth", "rollbackDelay"}
               PROVE  RollbackWithinBudget
    BY DEF RollbackWithinBudget
  <2>1. R \in Nat /\ D \in Nat /\ Wait = D
    BY PositiveTimeouts
  <2>2. Left \in Int
    <3>1. now \in Nat /\ budget \in Nat
      BY DEF Inv, TypeOK
    <3> QED
      BY <3>1 DEF Left
  <2>3. /\ pc = "rollbackReload" => Left = 2 * R + D
        /\ pc = "rollbackDelay" => Left > R + D
        /\ pc = "rollbackHealth" => Left > R
    BY DEF Inv, Elapsed
  <2> QED
    BY <2>1, <2>2, <2>3 DEF RollbackWithinBudget, R
<1> QED
  BY <1>1, InvAlways, PTL

\* No answer is lost to the write timeout unless it is shorter than the other
\* timeouts together, which the defaults are not (config.go:114-146).
THEOREM AnswersAreInTime == Spec => []AnsweredInTime
<1>1. Inv => AnsweredInTime
  <2> SUFFICES ASSUME Inv, answer = "lost" PROVE Timeouts(config) # Timeouts(Defaults)
    BY DEF Inv, LostForLength, AnsweredInTime
  <2>1. config.writeTimeout <= LongestTransaction(config)
    BY DEF Inv, LostForLength
  <2>2. SUFFICES ASSUME Timeouts(config) = Timeouts(Defaults) PROVE FALSE
    OBVIOUS
  <2>3. config.writeTimeout = 120 /\ config.sourceTimeout = 30 /\ config.validationTimeout = 30
        /\ config.requestTimeout = 10 /\ config.healthDelay = 2
    BY <2>2 DEF Timeouts, Defaults
  <2> QED
    BY <2>1, <2>3 DEF LongestTransaction, RollbackTimeout
<1> QED
  BY <1>1, InvAlways, PTL
=============================================================================
