------------------------------- MODULE Guardian -------------------------------
(***************************************************************************)
(* cmd/mihomo-guardian serve: one process with the scheduler, the handlers *)
(* of API requests and the main goroutine that stops them.  Scheduler and  *)
(* handlers call the updater, whose transactions are those of              *)
(* ConfigTransaction, which Updater implements, with the two things a      *)
(* caller sees besides: the mutex, and the history a transaction ends in.  *)
(* The history is shorter than its retention here; StateStore trims it.    *)
(***************************************************************************)
EXTENDS ConfigTransaction, Naturals, Sequences

CONSTANTS
    Requests,   \* update and restore requests clients send, one call each
    scheduler,  \* the goroutine of scheduleUpdates
    Nobody,     \* the mutex is free
    MaxTicks    \* bound: ticks of the scheduler

Callers == Requests \cup {scheduler}

ASSUME CallerAssumption == scheduler \notin Requests /\ Nobody \notin Callers
ASSUME ContentAssumption == NoFile \notin Contents
ASSUME TickAssumption == MaxTicks \in Nat

VARIABLES
    owner,    \* who holds the mutex
    tested,   \* the candidate of the transaction has passed `mihomo -t`
    late,     \* the transaction is the scheduler's and began after the signal
    stage,    \* where each caller is
    result,   \* what the last call of each caller returned
    answer,   \* what the client of a request received
    restore,  \* the request is a restore
    gone,     \* the client of a request has gone away
    history,  \* the records in memory, oldest first
    disk,     \* the records of state.json
    tick,     \* the ticker's channel: not made yet, empty or full
    ticks,    \* ticks so far
    signal,   \* SIGTERM or an interrupt has come: the context of serve is done
    server,   \* the HTTP server
    exit      \* how serve ended

slot == abstractVars
updater == <<owner, tested, late, history, disk>>
clients == <<answer, restore, gone>>
clock == <<tick, ticks>>
main == <<signal, server, exit>>
vars == <<slot, updater, stage, result, clients, clock, main>>

Up == exit = "running"
Outcomes == {"success", "rolledback", "failed"}
Results == Outcomes \cup {"none", "busy", "notfound"}
InFlight == {"handling", "running", "returned"}
Stages == InFlight \cup {"new", "answered", "off", "startup", "waiting", "stopped"}

\* update.enabled and update.run_on_start decide how the scheduler begins.
Init ==
    /\ AbstractInit
    /\ owner = Nobody /\ tested = FALSE /\ late = FALSE
    /\ \E s \in {"off", "startup", "waiting"} :
          /\ stage = [c \in Callers |-> IF c = scheduler THEN s ELSE "new"]
          /\ tick = IF s = "waiting" THEN "empty" ELSE "none"
    /\ result = [c \in Callers |-> "none"]
    /\ answer = [r \in Requests |-> "none"]
    /\ restore \in [Requests -> BOOLEAN]
    /\ gone = [r \in Requests |-> FALSE]
    /\ history = <<>> /\ disk = <<>>
    /\ ticks = 0
    /\ signal = FALSE /\ server = "serving" /\ exit = "running"

-----------------------------------------------------------------------------
(***************************************************************************)
(* A call of Update or Restore.                                            *)
(***************************************************************************)
Goto(c, to) == stage' = [stage EXCEPT ![c] = to]

\* A call that returns at once, without a transaction.
Refuse(c, why) ==
    /\ Goto(c, "returned")
    /\ result' = [result EXCEPT ![c] = why]
    /\ UNCHANGED <<slot, updater>>

Call(c) ==
    \/ /\ owner = Nobody
       /\ Open
       /\ owner' = c /\ late' = (c = scheduler /\ signal)
       /\ Goto(c, "running")
       /\ UNCHANGED <<tested, history, disk, result>>
    \/ owner # Nobody /\ Refuse(c, "busy")

\* Deviation: the scheduler calls with a context of its own.
ContextDoneOfRequest(c) == c \in Requests /\ gone[c]
\* The context of a request ends with its client, the scheduler's with a signal.
ContextDone(c) == IF c = scheduler THEN signal ELSE gone[c]

\* Build and validation fail when the context is done, ...
Test ==
    /\ phase = "open" /\ ~tested /\ ~ContextDone(owner)
    /\ tested' = TRUE
    /\ UNCHANGED <<slot, owner, late, history, disk, stage, result>>

\* ... the rename over the active file does not, ...
SwitchConfig ==
    /\ tested /\ Switch
    /\ UNCHANGED <<updater, stage, result>>

\* ... and the reload and the health check do again.
VerifyConfig ==
    /\ Verify /\ ~ContextDone(owner)
    /\ UNCHANGED <<updater, stage, result>>

UndoConfig ==
    /\ Undo
    /\ UNCHANGED <<updater, stage, result>>

\* Deviation: the record is taken before the outcome is known.
RecordedEarly(outcome) == report
Recorded(outcome) == outcome

\* What the caller is told.  Deviation: an error of Append is dropped.
ToldWithoutAppend(outcome, kept) == outcome
Told(outcome, kept) == IF outcome = "success" /\ ~kept THEN "failed" ELSE outcome

\* The deferred Append.  Memory always has the record; one that could not be
\* kept is in the file or not.  A backup that does not exist fails a restore.
Record ==
    \E outcome \in Outcomes, kept \in BOOLEAN :
        /\ End(outcome)
        /\ history' = Append(history, [by |-> owner, outcome |-> Recorded(outcome)])
        /\ disk' \in IF kept THEN {history'} ELSE {disk, history'}
        /\ \/ result' = [result EXCEPT ![owner] = Told(outcome, kept)]
           \/ /\ owner \in Requests /\ restore[owner] /\ phase = "open" /\ ~tested
              /\ outcome = "failed"
              /\ result' = [result EXCEPT ![owner] = "notfound"]
        /\ UNCHANGED <<owner, tested, late, stage>>

Unlock ==
    /\ owner # Nobody /\ phase = "idle"
    /\ owner' = Nobody /\ tested' = FALSE /\ late' = FALSE
    /\ Goto(owner, "returned")
    /\ UNCHANGED <<slot, history, disk, result>>

TransactionStep ==
    /\ Up
    /\ Test \/ SwitchConfig \/ VerifyConfig \/ UndoConfig \/ Record \/ Unlock
    /\ UNCHANGED <<clients, clock, main>>

-----------------------------------------------------------------------------
(***************************************************************************)
(* scheduleUpdates.                                                        *)
(***************************************************************************)

\* select takes either when both are ready.
TakeTick ==
    /\ stage[scheduler] = "waiting" /\ tick = "full"
    /\ tick' = "empty"
    /\ Call(scheduler)

Startup ==
    /\ stage[scheduler] = "startup"
    /\ Call(scheduler)
    /\ UNCHANGED tick

\* Deviation: an update that is refused ends the scheduler.
AfterUpdateOnce == IF result[scheduler] = "busy" THEN "stopped" ELSE "waiting"
AfterUpdate == "waiting"

\* The ticker is made after the update at the start.
LogResult ==
    /\ stage[scheduler] = "returned"
    /\ Goto(scheduler, AfterUpdate)
    /\ tick' = IF tick = "none" THEN "empty" ELSE tick
    /\ UNCHANGED <<slot, updater, result>>

StopScheduler ==
    /\ stage[scheduler] = "waiting" /\ signal
    /\ Goto(scheduler, "stopped")
    /\ UNCHANGED <<slot, updater, result, tick>>

SchedulerStep ==
    /\ Up
    /\ TakeTick \/ Startup \/ LogResult \/ StopScheduler
    /\ UNCHANGED <<clients, ticks, main>>

\* A tick that finds the channel full is dropped.
Tick ==
    /\ Up /\ tick = "empty" /\ ticks < MaxTicks
    /\ tick' = "full" /\ ticks' = ticks + 1
    /\ UNCHANGED <<slot, updater, stage, result, clients, main>>

-----------------------------------------------------------------------------
(***************************************************************************)
(* API requests.                                                           *)
(***************************************************************************)
Send(r) ==
    /\ Up /\ server = "serving" /\ stage[r] = "new"
    /\ Goto(r, "handling")
    /\ UNCHANGED <<slot, updater, result, clients, clock, main>>

\* A malformed backup ID is refused before the lock.
Handle(r) ==
    /\ Up /\ stage[r] = "handling"
    /\ Call(r) \/ (restore[r] /\ Refuse(r, "notfound"))
    /\ UNCHANGED <<clients, clock, main>>

\* The answer is lost when the client has gone or the write timeout has passed.
Respond(r) ==
    /\ Up /\ stage[r] = "returned"
    /\ Goto(r, "answered")
    /\ answer' \in {[answer EXCEPT ![r] = a] :
                       a \in {"lost"} \cup IF gone[r] THEN {} ELSE {result[r]}}
    /\ UNCHANGED <<slot, updater, result, restore, gone, clock, main>>

Disconnect(r) ==
    /\ Up /\ stage[r] \in {"handling", "running"} /\ ~gone[r]
    /\ gone' = [gone EXCEPT ![r] = TRUE]
    /\ UNCHANGED <<slot, updater, stage, result, answer, restore, clock, main>>

-----------------------------------------------------------------------------
(***************************************************************************)
(* The main goroutine.  When it returns the process ends, and every        *)
(* goroutine with it.                                                      *)
(***************************************************************************)
Signal ==
    /\ Up /\ ~signal
    /\ signal' = TRUE
    /\ UNCHANGED <<slot, updater, stage, result, clients, clock, server, exit>>

\* Deviation: main waits for the scheduler, which may not run at all.
StopsWithScheduler == signal /\ stage[scheduler] = "stopped"
Stops == signal   \* <-ctx.Done()

CloseServer ==
    /\ Up /\ Stops /\ server = "serving"
    /\ server' = "closing"
    /\ UNCHANGED <<slot, updater, stage, result, clients, clock, signal, exit>>

Return(how) ==
    /\ Up
    /\ exit' = how
    /\ \/ phase = "idle" /\ UNCHANGED slot
       \/ phase # "idle" /\ End("crashed")
    /\ UNCHANGED <<updater, stage, result, clients, clock, signal, server>>

\* Shutdown returns when no request is open, or after ten seconds.
Shutdown ==
    /\ server = "closing"
    /\ \/ (\A r \in Requests : stage[r] \notin InFlight) /\ Return("clean")
       \/ (\E r \in Requests : stage[r] \in InFlight) /\ Return("deadline")

\* The address is taken, or the listener breaks.
ServerFails == server = "serving" /\ Return("failed")

Next ==
    \/ TransactionStep \/ SchedulerStep \/ Tick
    \/ \E r \in Requests : Send(r) \/ Handle(r) \/ Respond(r) \/ Disconnect(r)
    \/ Signal \/ CloseServer \/ Shutdown \/ ServerFails

Spec == Init /\ [][Next]_vars

(***************************************************************************)
(* Every call of a transaction has a timeout, a goroutine that can run     *)
(* does, and Shutdown has a deadline.  Nothing is assumed of the clients,  *)
(* the ticker or the signal.                                               *)
(***************************************************************************)
Fairness ==
    /\ WF_vars(TransactionStep) /\ WF_vars(SchedulerStep)
    /\ \A r \in Requests : WF_vars(Handle(r)) /\ WF_vars(Respond(r))
    /\ WF_vars(CloseServer) /\ WF_vars(Shutdown)

FairSpec == Spec /\ Fairness

-----------------------------------------------------------------------------
(***************************************************************************)
(* Properties.                                                             *)
(***************************************************************************)
Entry == [by : Callers, outcome : Outcomes]

\* Every variable holds a value of the Go type it stands for.
TypeOK ==
    /\ AbstractTypeOK
    /\ owner \in Callers \cup {Nobody}
    /\ tested \in BOOLEAN /\ late \in BOOLEAN
    /\ stage \in [Callers -> Stages]
    /\ result \in [Callers -> Results]
    /\ answer \in [Requests -> Results \cup {"lost"}]
    /\ restore \in [Requests -> BOOLEAN] /\ gone \in [Requests -> BOOLEAN]
    /\ history \in Seq(Entry) /\ disk \in Seq(Entry)
    /\ tick \in {"none", "empty", "full"} /\ ticks \in 0 .. MaxTicks
    /\ signal \in BOOLEAN /\ server \in {"serving", "closing"}
    /\ exit \in {"running", "clean", "deadline", "failed"}

RecordsOf(h, r) == {h[i].outcome : i \in {j \in DOMAIN h : h[j].by = r}}

\* What a client is told and what the history says agree, whoever else updates,
\* stops or fails in between: a success is in the file, a rollback in the
\* history, a refusal leaves no record, and a failure is a recorded one or a
\* success that may not have reached the file (updater.go:99-113,
\* api.go:166-191, 247-269).
AnswersMatchHistory ==
    \A r \in Requests :
        /\ answer[r] = "success" => RecordsOf(disk, r) = {"success"}
        /\ answer[r] = "rolledback" => RecordsOf(history, r) = {"rolledback"}
        /\ answer[r] = "busy" => RecordsOf(history, r) = {}
        /\ answer[r] = "failed" => RecordsOf(history, r) \in {{"failed"}, {"success"}}
        /\ answer[r] = "notfound" => RecordsOf(history, r) \in {{}, {"failed"}}

\* select may still start an update after the signal (main.go:264-270); it never
\* gets as far as the active file.
StoppedSchedulerNeverSwitches == late => phase \in {"idle", "open"}

\* The scheduler survives every outcome of an update, a refused one too: a tick
\* is taken, unless serve is stopping (main.go:262-271).
TickIsTaken == tick = "full" ~> (tick # "full" \/ signal \/ ~Up)

\* A signal ends the process, whatever transactions and requests are doing and
\* whether or not the scheduler runs (main.go:122-126).
StopEnds == signal ~> ~Up

\* updater_test.go:137: a cancelled caller cannot prevent the rollback.  Serve
\* leaves the active file switched only when it is verified or put back, at
\* least when every request was answered in time.
StopCutsNoSwitch == [][Up /\ exit' = "clean" => phase # "switched"]_vars

=============================================================================
