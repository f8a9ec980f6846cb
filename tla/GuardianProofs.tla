---------------------------- MODULE GuardianProofs ----------------------------
(***************************************************************************)
(* Theorems about serve for any number of requests and ticks, and their    *)
(* proofs.                                                                 *)
(***************************************************************************)
EXTENDS Guardian, TLAPS

\* Appending a record adds its outcome to those of its caller only.
LEMMA RecordsOfAppend ==
    ASSUME NEW h \in Seq(Entry), NEW e \in Entry, NEW r
    PROVE  RecordsOf(Append(h, e), r)
               = RecordsOf(h, r) \cup IF e.by = r THEN {e.outcome} ELSE {}
<1> DEFINE g == Append(h, e)
           n == Len(h) + 1
<1>1. /\ DOMAIN g = DOMAIN h \cup {n} /\ n \notin DOMAIN h
      /\ g[n] = e
      /\ \A i \in DOMAIN h : g[i] = h[i]
  OBVIOUS
<1> HIDE DEF g, n
<1>2. RecordsOf(g, r) = RecordsOf(h, r) \cup IF e.by = r THEN {e.outcome} ELSE {}
  <2>1. ASSUME NEW o \in RecordsOf(g, r)
        PROVE  o \in RecordsOf(h, r) \cup IF e.by = r THEN {e.outcome} ELSE {}
    <3>1. PICK i \in DOMAIN g : g[i].by = r /\ o = g[i].outcome
      BY <2>1 DEF RecordsOf
    <3>2. CASE i = n
      BY <1>1, <3>1, <3>2
    <3>3. CASE i \in DOMAIN h
      BY <1>1, <3>1, <3>3 DEF RecordsOf
    <3> QED BY <1>1, <3>2, <3>3
  <2>2. ASSUME NEW o \in RecordsOf(h, r) PROVE o \in RecordsOf(g, r)
    <3>1. PICK i \in DOMAIN h : h[i].by = r /\ o = h[i].outcome
      BY <2>2 DEF RecordsOf
    <3> QED BY <1>1, <3>1 DEF RecordsOf
  <2>3. ASSUME e.by = r PROVE e.outcome \in RecordsOf(g, r)
    BY <1>1, <2>3 DEF RecordsOf
  <2> QED BY <2>1, <2>2, <2>3
<1> QED BY <1>2 DEF g

LEMMA RecordsOfEmpty == ASSUME NEW r PROVE RecordsOf(<<>>, r) = {}
BY DEF RecordsOf

-----------------------------------------------------------------------------
(***************************************************************************)
(* The inductive invariant.                                                *)
(***************************************************************************)

\* Who is in a transaction has the mutex, and nothing is left of one that ended.
Ownership ==
    /\ \A c \in Callers : stage[c] = "running" <=> owner = c
    /\ phase # "idle" => owner # Nobody
    /\ owner = Nobody => ~tested /\ ~late
    /\ late => owner = scheduler /\ signal /\ ~tested /\ phase \in {"idle", "open"}

\* What a call of request r returned fits its records.
Fits(a, r) ==
    /\ a = "none" => RecordsOf(history, r) = {} /\ RecordsOf(disk, r) = {}
    /\ a = "success" => RecordsOf(history, r) = {"success"} /\ RecordsOf(disk, r) = {"success"}
    /\ a = "rolledback" => RecordsOf(history, r) = {"rolledback"}
    /\ a = "busy" => RecordsOf(history, r) = {}
    /\ a = "failed" => RecordsOf(history, r) \in {{"failed"}, {"success"}}
    /\ a = "notfound" => RecordsOf(history, r) \in {{}, {"failed"}}

\* A call has no result before its record is written, and the client is told
\* nothing else.
CallsFit ==
    \A r \in Requests :
        /\ Fits(result[r], r)
        /\ stage[r] \in {"new", "handling"} => result[r] = "none"
        /\ owner = r /\ phase # "idle" => result[r] = "none"
        /\ answer[r] \in {"none", "lost", result[r]}

Inv == TypeOK /\ Ownership /\ CallsFit

LEMMA InvInit == Init => Inv
<1> SUFFICES ASSUME Init PROVE Inv
  OBVIOUS
<1>1. PICK s \in {"off", "startup", "waiting"} :
          /\ stage = [c \in Callers |-> IF c = scheduler THEN s ELSE "new"]
          /\ tick = IF s = "waiting" THEN "empty" ELSE "none"
  BY DEF Init
<1>2. TypeOK
  <2>1. AbstractTypeOK
    BY DEF Init, AbstractInit, AbstractTypeOK, Phases, Reports
  <2>2. stage \in [Callers -> Stages] /\ tick \in {"none", "empty", "full"}
    BY <1>1 DEF Stages, InFlight
  <2>3. history \in Seq(Entry) /\ disk \in Seq(Entry) /\ ticks \in 0 .. MaxTicks
    BY TickAssumption DEF Init
  <2>4. result \in [Callers -> Results] /\ answer \in [Requests -> Results \cup {"lost"}]
    BY DEF Init, Results
  <2> QED BY <2>1, <2>2, <2>3, <2>4 DEF Init, TypeOK
<1>3. Ownership
  BY <1>1, CallerAssumption DEF Init, AbstractInit, Ownership, Callers
<1>4. CallsFit
  BY RecordsOfEmpty, CallerAssumption DEF Init, CallsFit, Fits, Callers
<1> QED BY <1>2, <1>3, <1>4 DEF Inv

-----------------------------------------------------------------------------
\* The end of a call: where the caller is and what it has in its hands.
LEMMA InvCall ==
    ASSUME Inv, NEW c \in Callers, Call(c), UNCHANGED <<clients, ticks, main>>,
           stage[c] \in {"handling", "startup", "waiting"},
           tick' \in {"none", "empty", "full"}, c \in Requests => stage[c] = "handling"
    PROVE  Inv'
<1>1. c # Nobody /\ stage[c] # "running"
  BY CallerAssumption
<1>2. CASE /\ owner = Nobody
           /\ Open
           /\ owner' = c /\ late' = (c = scheduler /\ signal)
           /\ Goto(c, "running")
           /\ UNCHANGED <<tested, history, disk, result>>
  <2>1. TypeOK'
    BY <1>2 DEF Open, Goto, clients, main, Inv, TypeOK, AbstractTypeOK, Phases, Reports,
                Stages, InFlight
  <2>2. Ownership'
    BY <1>1, <1>2, CallerAssumption
    DEF Open, Goto, clients, main, Inv, TypeOK, Ownership
  <2>3. CallsFit'
    BY <1>1, <1>2, CallerAssumption
    DEF Open, Goto, clients, main, Inv, TypeOK, Ownership, CallsFit, Fits, Callers
  <2> QED BY <2>1, <2>2, <2>3 DEF Inv
<1>3. CASE owner # Nobody /\ Refuse(c, "busy")
  <2>1. TypeOK'
    BY <1>3 DEF Refuse, Goto, slot, abstractVars, updater, clients, main, Inv, TypeOK,
                AbstractTypeOK, Stages, InFlight, Results
  <2>2. Ownership'
    BY <1>1, <1>3
    DEF Refuse, Goto, slot, abstractVars, updater, clients, main, Inv, TypeOK, Ownership
  <2>3. CallsFit'
    BY <1>1, <1>3
    DEF Refuse, Goto, slot, abstractVars, updater, clients, main, Inv, TypeOK, Ownership,
        CallsFit, Fits, Callers
  <2> QED BY <2>1, <2>2, <2>3 DEF Inv
<1> QED BY <1>2, <1>3 DEF Call

\* Test, the switch, the health check and the rollback.
LEMMA InvInside ==
    ASSUME Inv, Test \/ SwitchConfig \/ VerifyConfig \/ UndoConfig,
           UNCHANGED <<clients, clock, main>>
    PROVE  Inv'
<1>1. UNCHANGED <<owner, late, history, disk, stage, result>>
  BY DEF Test, SwitchConfig, VerifyConfig, UndoConfig, updater
<1>2. tested' \in BOOLEAN /\ AbstractTypeOK'
  BY DEF Test, SwitchConfig, VerifyConfig, UndoConfig, updater, Switch, Verify, Undo,
         slot, abstractVars, Inv, TypeOK, AbstractTypeOK, Phases, Reports
<1>3. TypeOK'
  BY <1>1, <1>2 DEF clients, clock, main, Inv, TypeOK
<1>4. Ownership'
  <2>1. phase # "idle" /\ owner # Nobody
    BY DEF Test, SwitchConfig, VerifyConfig, UndoConfig, Switch, Verify, Undo, Inv, Ownership
  <2>2. late => UNCHANGED <<tested, phase>>
    BY DEF Test, SwitchConfig, VerifyConfig, UndoConfig, Switch, Verify, Undo,
           ContextDone, Inv, Ownership
  <2> QED BY <1>1, <2>1, <2>2 DEF main, Inv, Ownership
<1>5. CallsFit'
  <2>1. phase # "idle"
    BY DEF Test, SwitchConfig, VerifyConfig, UndoConfig, Switch, Verify, Undo
  <2> QED BY <1>1, <2>1 DEF clients, Inv, CallsFit, Fits
<1> QED BY <1>3, <1>4, <1>5 DEF Inv

LEMMA InvRecord ==
    ASSUME Inv, Record, UNCHANGED <<clients, clock, main>>
    PROVE  Inv'
<1>1. PICK outcome \in Outcomes, kept \in BOOLEAN :
        /\ End(outcome)
        /\ history' = Append(history, [by |-> owner, outcome |-> outcome])
        /\ disk' \in IF kept THEN {history'} ELSE {disk, history'}
        /\ \/ result' = [result EXCEPT ![owner] = Told(outcome, kept)]
           \/ /\ owner \in Requests /\ outcome = "failed"
              /\ result' = [result EXCEPT ![owner] = "notfound"]
        /\ UNCHANGED <<owner, tested, late, stage>>
  BY DEF Record, Recorded
<1>2. owner \in Callers /\ phase # "idle" /\ phase' = "idle"
  BY <1>1 DEF End, Inv, TypeOK, Ownership
<1> DEFINE e == [by |-> owner, outcome |-> outcome]
<1>3. e \in Entry /\ e.by = owner /\ e.outcome = outcome
  BY <1>2 DEF Entry
<1>4. PICK told \in Results \ {"none"} :
        /\ result' = [result EXCEPT ![owner] = told]
        /\ told \in {outcome, "failed", "notfound"}
        /\ told = "success" => kept = TRUE
        /\ told = "failed" => outcome \in {"success", "failed"}
        /\ told = "notfound" => outcome = "failed"
  <2>1. Told(outcome, kept) \in {outcome, "failed"}
        /\ (Told(outcome, kept) = "success" => kept = TRUE)
        /\ (Told(outcome, kept) = "failed" => outcome \in {"success", "failed"})
        /\ Told(outcome, kept) # "notfound"
    BY DEF Told, Outcomes
  <2>2. CASE result' = [result EXCEPT ![owner] = Told(outcome, kept)]
    <3>1. Told(outcome, kept) \in Results \ {"none"}
      BY <2>1 DEF Outcomes, Results
    <3> QED BY <2>1, <2>2, <3>1
  <2>3. CASE outcome = "failed" /\ result' = [result EXCEPT ![owner] = "notfound"]
    BY <2>3 DEF Results
  <2> QED BY <1>1, <2>2, <2>3
<1> HIDE DEF e
<1>5. history' = Append(history, e) /\ history' \in Seq(Entry)
  BY <1>1, <1>3 DEF e, Inv, TypeOK
<1>6. TypeOK'
  <2>1. AbstractTypeOK'
    BY <1>1 DEF End, Inv, TypeOK, AbstractTypeOK, Phases, Reports, Outcomes
  <2>2. disk' \in Seq(Entry)
    BY <1>1, <1>5 DEF Inv, TypeOK
  <2> QED BY <1>1, <1>4, <1>5, <2>1, <2>2 DEF clients, clock, main, Inv, TypeOK
<1>7. Ownership'
  BY <1>1, <1>2 DEF main, Inv, Ownership
<1>8. CallsFit'
  <2>1. SUFFICES ASSUME NEW r \in Requests
                 PROVE  /\ Fits(result[r], r)'
                        /\ (stage[r] \in {"new", "handling"} => result[r] = "none")'
                        /\ (answer[r] \in {"none", "lost", result[r]})'
    BY <1>2 DEF CallsFit
  <2>2. CASE r = owner
    <3>1. result[r] = "none" /\ RecordsOf(history, r) = {} /\ RecordsOf(disk, r) = {}
      BY <1>2, <2>2 DEF Inv, CallsFit, Fits
    <3>2. RecordsOf(history', r) = {outcome}
      BY <1>3, <1>5, <2>2, <3>1, RecordsOfAppend DEF Inv, TypeOK
    <3>3. kept = TRUE => disk' = history'
      BY <1>1
    <3>4. result'[r] = told
      BY <1>2, <1>4, <2>2 DEF Inv, TypeOK
    <3>5. Fits(result[r], r)'
      <4> DEFINE H == RecordsOf(history', r)
                 D == RecordsOf(disk', r)
      <4>1. H = {outcome} /\ (kept = TRUE => D = {outcome})
        BY <3>2, <3>3
      <4> HIDE DEF H, D
      <4>2. /\ told # "none"
            /\ told = "success" => H = {"success"} /\ D = {"success"}
            /\ told = "rolledback" => H = {"rolledback"}
            /\ told # "busy"
            /\ told = "failed" => H \in {{"failed"}, {"success"}}
            /\ told = "notfound" => H \in {{}, {"failed"}}
        BY <1>1, <1>4, <4>1 DEF Outcomes
      <4> QED BY <3>4, <4>2 DEF Fits, H, D
    <3>6. stage[r] = "running" /\ stage' = stage
      BY <1>1, <1>2, <2>2 DEF Inv, Ownership
    <3> QED BY <3>1, <3>5, <3>6 DEF clients, Inv, CallsFit
  <2>3. CASE r # owner
    <3>1. RecordsOf(history', r) = RecordsOf(history, r)
      <4>1. history \in Seq(Entry) /\ e.by # r
        BY <1>3, <2>3 DEF Inv, TypeOK
      <4>2. RecordsOf(Append(history, e), r) = RecordsOf(history, r) \cup {}
        BY <1>3, <4>1, RecordsOfAppend
      <4> QED BY <1>5, <4>2
    <3>2. RecordsOf(disk', r) \in {RecordsOf(disk, r), RecordsOf(history, r)}
      BY <1>1, <3>1
    <3>3. result'[r] = result[r]
      BY <1>4, <2>3 DEF Inv, TypeOK, Callers
    <3> QED BY <1>1, <3>1, <3>2, <3>3 DEF clients, Inv, CallsFit, Fits
  <2> QED BY <2>2, <2>3
<1> QED BY <1>6, <1>7, <1>8 DEF Inv

LEMMA InvUnlock ==
    ASSUME Inv, Unlock, UNCHANGED <<clients, clock, main>>
    PROVE  Inv'
<1>1. owner \in Callers
  BY DEF Unlock, Inv, TypeOK
<1>2. TypeOK'
  BY DEF Unlock, Goto, slot, abstractVars, clients, clock, main, Inv, TypeOK, AbstractTypeOK,
         Stages, InFlight
<1>3. Ownership'
  BY <1>1, CallerAssumption
  DEF Unlock, Goto, slot, abstractVars, main, Inv, TypeOK, Ownership
<1>4. CallsFit'
  BY <1>1, CallerAssumption
  DEF Unlock, Goto, slot, abstractVars, clients, Inv, TypeOK, Ownership, CallsFit, Fits, Callers
<1> QED BY <1>2, <1>3, <1>4 DEF Inv

-----------------------------------------------------------------------------
\* A step that moves a caller that is in no transaction, or none at all.
LEMMA InvOutside ==
    ASSUME Inv, UNCHANGED <<updater, restore>>, AbstractTypeOK', phase' \in {phase, "idle"},
           NEW c \in Callers, NEW s \in Stages \ {"running"},
           \/ UNCHANGED stage
           \/ /\ stage' = [stage EXCEPT ![c] = s] /\ stage[c] # "running"
              /\ (stage[c] \in {"new", "handling"} \/ s \notin {"new", "handling"}),
           result' \in [Callers -> Results],
           \A r \in Requests :
               \/ result'[r] = result[r]
               \/ /\ r = c /\ stage[r] = "handling" /\ stage'[r] = "returned"
                  /\ result[r] = "none" /\ result'[r] = "notfound" /\ answer'[r] = answer[r],
           gone' \in [Requests -> BOOLEAN],
           answer' \in [Requests -> Results \cup {"lost"}],
           \A r \in Requests : answer'[r] \in {answer[r], "lost", result[r]},
           tick' \in {"none", "empty", "full"}, ticks' \in 0 .. MaxTicks,
           signal' \in BOOLEAN, signal => signal', server' \in {"serving", "closing"},
           exit' \in {"running", "clean", "deadline", "failed"}
    PROVE  Inv'
<1>1. stage' \in [Callers -> Stages]
  BY DEF Inv, TypeOK
<1>2. TypeOK'
  BY <1>1 DEF updater, Inv, TypeOK
<1>3. \A d \in Callers : stage'[d] = "running" <=> stage[d] = "running"
  BY DEF Inv, TypeOK
<1>4. Ownership'
  BY <1>3 DEF updater, Inv, TypeOK, Ownership
<1>5. \A d \in Callers : stage'[d] \in {"new", "handling"} => stage[d] \in {"new", "handling"}
  BY DEF Inv, TypeOK
<1>6. CallsFit'
  <2> SUFFICES ASSUME NEW r \in Requests
               PROVE  /\ Fits(result[r], r)'
                      /\ (stage[r] \in {"new", "handling"} => result[r] = "none")'
                      /\ (owner = r /\ phase # "idle" => result[r] = "none")'
                      /\ (answer[r] \in {"none", "lost", result[r]})'
    BY DEF CallsFit
  <2>1. r \in Callers
    BY DEF Callers
  <2>2. CASE result'[r] = result[r]
    BY <1>5, <2>1, <2>2 DEF updater, Inv, CallsFit, Fits
  <2>3. CASE /\ stage[r] = "handling" /\ stage'[r] = "returned"
             /\ result[r] = "none" /\ result'[r] = "notfound" /\ answer'[r] = answer[r]
    <3>1. owner # r
      BY <2>1, <2>3 DEF Inv, Ownership
    <3> QED BY <2>3, <3>1 DEF updater, Inv, CallsFit, Fits
  <2> QED BY <2>2, <2>3
<1> QED BY <1>2, <1>4, <1>6 DEF Inv

\* A step of the clock or of the main goroutine, which moves no caller.
LEMMA InvMain ==
    ASSUME Inv, UNCHANGED <<updater, stage, result, clients>>,
           AbstractTypeOK', phase' \in {phase, "idle"},
           tick' \in {"none", "empty", "full"}, ticks' \in 0 .. MaxTicks,
           signal' \in BOOLEAN, signal => signal', server' \in {"serving", "closing"},
           exit' \in {"running", "clean", "deadline", "failed"}
    PROVE  Inv'
<1>1. scheduler \in Callers /\ "stopped" \in Stages \ {"running"}
  BY DEF Callers, Stages
<1>2. /\ result' \in [Callers -> Results]
      /\ gone' \in [Requests -> BOOLEAN]
      /\ answer' \in [Requests -> Results \cup {"lost"}]
  BY DEF clients, Inv, TypeOK
<1>3. UNCHANGED <<updater, restore, stage>>
  BY DEF clients
<1>4. \A r \in Requests : result'[r] = result[r] /\ answer'[r] = answer[r]
  BY DEF clients
<1> QED BY <1>1, <1>2, <1>3, <1>4, InvOutside

\* Steps of the scheduler that start no update.
LEMMA InvScheduler ==
    ASSUME Inv, LogResult \/ StopScheduler, UNCHANGED <<clients, ticks, main>>
    PROVE  Inv'
<1>1. PICK s \in {"waiting", "stopped"} :
          /\ stage' = [stage EXCEPT ![scheduler] = s]
          /\ stage[scheduler] # "running"
          /\ tick' \in {tick, "empty"}
          /\ UNCHANGED <<slot, updater, result>>
  BY DEF LogResult, StopScheduler, Goto, AfterUpdate
<1>2. scheduler \in Callers /\ s \in Stages \ {"running"} /\ s \notin {"new", "handling"}
  BY DEF Callers, Stages
<1>3. AbstractTypeOK' /\ phase' = phase
  BY <1>1 DEF slot, abstractVars, AbstractTypeOK, Inv, TypeOK
<1>4. /\ result' \in [Callers -> Results] /\ gone' \in [Requests -> BOOLEAN]
      /\ answer' \in [Requests -> Results \cup {"lost"}]
      /\ tick' \in {"none", "empty", "full"} /\ ticks' \in 0 .. MaxTicks
      /\ signal' \in BOOLEAN /\ signal' = signal /\ server' \in {"serving", "closing"}
      /\ exit' \in {"running", "clean", "deadline", "failed"}
  BY <1>1 DEF clients, main, Inv, TypeOK
<1>5. \A r \in Requests : result'[r] = result[r] /\ answer'[r] = answer[r]
  BY <1>1 DEF clients
<1>6. UNCHANGED <<updater, restore>>
  BY <1>1 DEF clients
<1> QED BY <1>1, <1>2, <1>3, <1>4, <1>5, <1>6, InvOutside

\* Steps of a request around its call.
LEMMA InvRequest ==
    ASSUME Inv, NEW r \in Requests,
           Send(r) \/ Respond(r) \/ Disconnect(r)
              \/ (Handle(r) /\ Refuse(r, "notfound"))
    PROVE  Inv'
<1>1. /\ r \in Callers /\ UNCHANGED <<updater, slot, restore, clock, main>>
  BY DEF Callers, Send, Respond, Disconnect, Handle, Refuse, clients
<1>2. AbstractTypeOK' /\ phase' = phase
  BY <1>1 DEF slot, abstractVars, AbstractTypeOK, Inv, TypeOK
<1>3. /\ tick' \in {"none", "empty", "full"} /\ ticks' \in 0 .. MaxTicks
      /\ signal' \in BOOLEAN /\ signal' = signal /\ server' \in {"serving", "closing"}
      /\ exit' \in {"running", "clean", "deadline", "failed"}
  BY <1>1 DEF clock, main, Inv, TypeOK
<1>4. {"handling", "answered", "returned"} \subseteq Stages \ {"running"}
  BY DEF Stages, InFlight
<1>5. /\ answer \in [Requests -> Results \cup {"lost"}] /\ result \in [Callers -> Results]
      /\ gone \in [Requests -> BOOLEAN] /\ stage \in [Callers -> Stages]
  BY DEF Inv, TypeOK
<1>6. CASE Send(r)
  <2>1. /\ stage' = [stage EXCEPT ![r] = "handling"] /\ stage[r] = "new"
        /\ UNCHANGED <<result, answer, gone>>
    BY <1>6 DEF Send, Goto, clients
  <2> QED BY <1>1, <1>2, <1>3, <1>4, <1>5, <2>1, InvOutside
<1>7. CASE Respond(r)
  <2>1. PICK a \in {"lost", result[r]} :
          /\ stage' = [stage EXCEPT ![r] = "answered"] /\ stage[r] = "returned"
          /\ answer' = [answer EXCEPT ![r] = a]
          /\ UNCHANGED <<result, gone>>
    BY <1>7 DEF Respond, Goto
  <2>2. /\ answer' \in [Requests -> Results \cup {"lost"}]
        /\ \A q \in Requests : answer'[q] \in {answer[q], "lost", result[q]}
    BY <1>1, <1>5, <2>1
  <2> QED BY <1>1, <1>2, <1>3, <1>4, <1>5, <2>1, <2>2, InvOutside
<1>8. CASE Disconnect(r)
  <2>1. UNCHANGED <<stage, result, answer>> /\ gone' \in [Requests -> BOOLEAN]
    BY <1>5, <1>8 DEF Disconnect
  <2> QED BY <1>1, <1>2, <1>3, <1>4, <1>5, <2>1, InvOutside
<1>9. CASE Handle(r) /\ Refuse(r, "notfound")
  <2>1. /\ stage' = [stage EXCEPT ![r] = "returned"] /\ stage[r] = "handling"
        /\ result' = [result EXCEPT ![r] = "notfound"]
        /\ UNCHANGED <<answer, gone>>
    BY <1>9 DEF Handle, Refuse, Goto, clients
  <2>2. result[r] = "none" /\ result' \in [Callers -> Results]
    BY <1>5, <2>1 DEF Inv, CallsFit, Results
  <2>3. \A q \in Requests :
           \/ result'[q] = result[q]
           \/ /\ q = r /\ stage[q] = "handling" /\ stage'[q] = "returned"
              /\ result[q] = "none" /\ result'[q] = "notfound" /\ answer'[q] = answer[q]
    BY <1>1, <1>5, <2>1, <2>2 DEF Callers
  <2> QED BY <1>1, <1>2, <1>3, <1>4, <1>5, <2>1, <2>2, <2>3, InvOutside
<1> QED BY <1>6, <1>7, <1>8, <1>9

\* The end of the process ends the transaction where it stands.
LEMMA InvReturn ==
    ASSUME Inv, NEW how \in {"clean", "deadline", "failed"}, Return(how)
    PROVE  Inv'
<1>1. AbstractTypeOK' /\ phase' \in {phase, "idle"}
  BY DEF Return, End, slot, abstractVars, AbstractTypeOK, Phases, Reports, Inv, TypeOK
<1>2. /\ UNCHANGED <<updater, stage, result, clients>>
      /\ tick' \in {"none", "empty", "full"} /\ ticks' \in 0 .. MaxTicks
      /\ signal' \in BOOLEAN /\ signal' = signal /\ server' \in {"serving", "closing"}
      /\ exit' \in {"running", "clean", "deadline", "failed"}
  BY DEF Return, clock, Inv, TypeOK
<1> QED BY <1>1, <1>2, InvMain

LEMMA InvNext == Inv /\ [Next]_vars => Inv'
<1> SUFFICES ASSUME Inv, [Next]_vars PROVE Inv'
  OBVIOUS
<1>1. CASE TransactionStep
  BY <1>1, InvInside, InvRecord, InvUnlock DEF TransactionStep
<1>2. CASE SchedulerStep
  <2>1. scheduler \in Callers \ Requests /\ UNCHANGED <<clients, ticks, main>>
    BY <1>2, CallerAssumption DEF SchedulerStep, Callers
  <2>2. CASE TakeTick
    BY <2>1, <2>2, InvCall DEF TakeTick
  <2>3. CASE Startup
    <3>1. tick' \in {"none", "empty", "full"}
      BY <2>3 DEF Startup, Inv, TypeOK
    <3> QED BY <2>1, <2>3, <3>1, InvCall DEF Startup
  <2>4. CASE LogResult \/ StopScheduler
    BY <2>1, <2>4, InvScheduler
  <2> QED BY <1>2, <2>2, <2>3, <2>4 DEF SchedulerStep
<1>3. CASE Tick
  <2>1. /\ AbstractTypeOK' /\ phase' = phase /\ ticks' \in 0 .. MaxTicks
        /\ tick' = "full" /\ UNCHANGED <<updater, stage, result, clients, main>>
    BY <1>3, TickAssumption DEF Tick, slot, abstractVars, AbstractTypeOK, Inv, TypeOK
  <2> QED BY <2>1, InvMain DEF main, Inv, TypeOK
<1>4. ASSUME NEW r \in Requests, Send(r) \/ Handle(r) \/ Respond(r) \/ Disconnect(r)
      PROVE  Inv'
  <2>1. CASE Handle(r) /\ Call(r)
    <3>1. /\ r \in Callers /\ stage[r] = "handling" /\ tick' \in {"none", "empty", "full"}
          /\ UNCHANGED <<clients, ticks, main>>
      BY <2>1 DEF Handle, Callers, clock, Inv, TypeOK
    <3> QED BY <2>1, <3>1, InvCall
  <2>2. CASE Send(r) \/ Respond(r) \/ Disconnect(r) \/ (Handle(r) /\ Refuse(r, "notfound"))
    BY <2>2, InvRequest
  <2>3. Handle(r) => Call(r) \/ Refuse(r, "notfound")
    BY DEF Handle
  <2>4. CASE Handle(r)
    BY <2>1, <2>2, <2>3, <2>4
  <2>5. CASE Send(r) \/ Respond(r) \/ Disconnect(r)
    BY <2>2, <2>5
  <2> QED BY <1>4, <2>4, <2>5
<1>5. CASE Signal \/ CloseServer
  <2>1. /\ UNCHANGED <<updater, stage, result, clients, clock, slot, exit>>
        /\ signal' \in {signal, TRUE} /\ server' \in {server, "closing"}
    BY <1>5 DEF Signal, CloseServer
  <2>2. AbstractTypeOK' /\ phase' = phase
    BY <2>1 DEF slot, abstractVars, AbstractTypeOK, Inv, TypeOK
  <2>3. /\ tick' \in {"none", "empty", "full"} /\ ticks' \in 0 .. MaxTicks
        /\ server' \in {"serving", "closing"}
        /\ exit' \in {"running", "clean", "deadline", "failed"}
    BY <2>1 DEF clock, Inv, TypeOK
  <2>4. signal' \in BOOLEAN /\ (signal => signal')
    BY <1>5 DEF Signal, CloseServer, Inv, TypeOK
  <2> QED BY <2>1, <2>2, <2>3, <2>4, InvMain
<1>6. CASE Shutdown \/ ServerFails
  BY <1>6, InvReturn DEF Shutdown, ServerFails
<1>7. CASE UNCHANGED vars
  <2>1. /\ UNCHANGED <<updater, stage, result, clients, clock, main, slot>>
    BY <1>7 DEF vars
  <2>2. AbstractTypeOK' /\ phase' = phase
    BY <2>1 DEF slot, abstractVars, AbstractTypeOK, Inv, TypeOK
  <2> QED BY <2>1, <2>2, InvMain DEF clock, main, Inv, TypeOK
<1> QED BY <1>1, <1>2, <1>3, <1>4, <1>5, <1>6, <1>7 DEF Next

THEOREM InvAlways == Spec => []Inv
<1>1. Init => Inv
  BY InvInit
<1>2. Inv /\ [Next]_vars => Inv'
  BY InvNext
<1> QED BY <1>1, <1>2, PTL DEF Spec

-----------------------------------------------------------------------------
(***************************************************************************)
(* The theorems.                                                           *)
(***************************************************************************)

\* Every variable holds a value of its type.
THEOREM Typing == Spec => []TypeOK
<1>1. Inv => TypeOK
  BY DEF Inv
<1> QED BY <1>1, InvAlways, PTL

\* However the requests, the ticks, the clients and the signal interleave, an
\* answer agrees with the history (updater.go:99-113, api.go:166-191, 247-269).
THEOREM AnswersAgree == Spec => []AnswersMatchHistory
<1>1. Inv => AnswersMatchHistory
  <2> SUFFICES ASSUME Inv, NEW r \in Requests
               PROVE  /\ answer[r] = "success" => RecordsOf(disk, r) = {"success"}
                      /\ answer[r] = "rolledback" => RecordsOf(history, r) = {"rolledback"}
                      /\ answer[r] = "busy" => RecordsOf(history, r) = {}
                      /\ answer[r] = "failed" => RecordsOf(history, r) \in {{"failed"}, {"success"}}
                      /\ answer[r] = "notfound" => RecordsOf(history, r) \in {{}, {"failed"}}
    BY DEF AnswersMatchHistory
  <2>1. Fits(result[r], r) /\ answer[r] \in {"none", "lost", result[r]}
    BY DEF Inv, CallsFit
  <2>2. CASE answer[r] \in {"none", "lost"}
    BY <2>2
  <2>3. CASE answer[r] = result[r]
    BY <2>1, <2>3 DEF Fits
  <2> QED BY <2>1, <2>2, <2>3
<1> QED BY <1>1, InvAlways, PTL

\* An update the scheduler begins after the signal never switches the file
\* (main.go:264-270).
THEOREM StoppedSchedulerIsHarmless == Spec => []StoppedSchedulerNeverSwitches
<1>1. Inv => StoppedSchedulerNeverSwitches
  BY DEF Inv, Ownership, StoppedSchedulerNeverSwitches
<1> QED BY <1>1, InvAlways, PTL

\* Whatever serve does, the active file sees the transactions of
\* ConfigTransaction and nothing else: the requests, the scheduler and the
\* shutdown never open two of them and change the file outside of one nowhere.
THEOREM ServeUsesTransactions == Spec => AbstractSpec
<1>1. Init => AbstractInit
  BY DEF Init
<1>2. [Next]_vars => [AbstractNext]_abstractVars
  <2> SUFFICES ASSUME [Next]_vars
               PROVE  AbstractNext \/ UNCHANGED abstractVars
    OBVIOUS
  <2>1. CASE TransactionStep
    <3>1. CASE Record
      BY <3>1 DEF Record, Outcomes, Reports, AbstractNext
    <3>2. CASE Test \/ SwitchConfig \/ VerifyConfig \/ UndoConfig \/ Unlock
      BY <3>2 DEF Test, SwitchConfig, VerifyConfig, UndoConfig, Unlock, slot, AbstractNext
    <3> QED BY <2>1, <3>1, <3>2 DEF TransactionStep
  <2>2. CASE SchedulerStep
    BY <2>2 DEF SchedulerStep, TakeTick, Startup, LogResult, StopScheduler, Call, Refuse,
                slot, AbstractNext
  <2>3. ASSUME NEW r \in Requests, Send(r) \/ Handle(r) \/ Respond(r) \/ Disconnect(r)
        PROVE  AbstractNext \/ UNCHANGED abstractVars
    BY <2>3 DEF Send, Handle, Respond, Disconnect, Call, Refuse, slot, AbstractNext
  <2>4. CASE Tick \/ Signal \/ CloseServer \/ UNCHANGED vars
    BY <2>4 DEF Tick, Signal, CloseServer, slot, vars
  <2>5. CASE Shutdown \/ ServerFails
    BY <2>5 DEF Shutdown, ServerFails, Return, slot, Reports, AbstractNext
  <2> QED BY <2>1, <2>2, <2>3, <2>4, <2>5 DEF Next
<1> QED BY <1>1, <1>2, PTL DEF Spec, AbstractSpec

=============================================================================
