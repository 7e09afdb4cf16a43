--------------------------- MODULE ParseSmsHandler ---------------------------
(***************************************************************************)
(* The parse-sms edge function (handlePost and executeAdmittedWork of      *)
(* parse-sms-handler.ts) over the ledger: several handlers serve requests  *)
(* of one user's devices at once.  A client may send a request again,      *)
(* under the same key, while an earlier handler of it still runs.  A call  *)
(* of the ledger may fail before or after it took effect, a start that was *)
(* given up may still take effect later, and a handler may be killed.      *)
(***************************************************************************)
EXTENDS SmsAiLedger

CONSTANTS
    Handlers,
    Requests,      \* the requests clients send: key, session and sms of each
    MaxCalls,      \* bound on the requests received
    MaxAttempts    \* MAX_COMPLETION_ATTEMPTS

ASSUME HandlerAssumption ==
    /\ Requests \subseteq [key : Keys, session : Sessions, sms : (SUBSET Sms) \ {{}}]
    /\ NoRequest \notin Requests
    /\ MaxCalls \in Nat /\ MaxAttempts \in Nat \ {0}

VARIABLES
    handler,   \* handler[h]: the request h works on, and where it is
    lateStarts,\* calls of mark_provider_started the caller no longer waits for
    calls,     \* requests received so far
    runs,      \* runs[k]: runs of the provider for requests with key k (history)
    sent       \* sent[k]: the candidates it was sent (history)

callVars == <<calls, runs, sent>>
vars == <<ledgerVars, handler, lateStarts, callVars>>

Steps == {"idle", "reserve", "admitted", "mark", "unknown", "started", "provider",
          "reconcile", "finish"}
NoOutcome == [positive |-> {}, negative |-> {}]
Idle == [step |-> "idle", request |-> NoRequest, sms |-> {}, seen |-> 0, tries |-> 0,
         outcome |-> NoOutcome, target |-> "completed"]

HandlerInit ==
    /\ LedgerInit
    /\ handler = [h \in Handlers |-> Idle]
    /\ lateStarts = {} /\ calls = 0
    /\ runs = [k \in Keys |-> 0] /\ sent = [k \in Keys |-> {}]

At(h, step) == handler[h].step = step
KeyOf(h) == handler[h].request.key
Goto(h, step) == handler' = [handler EXCEPT ![h].step = step, ![h].seen = 0]
FinishAs(h, target) ==
    handler' = [handler EXCEPT ![h].step = "finish", ![h].target = target,
                                ![h].outcome = NoOutcome]
End(h) == handler' = [handler EXCEPT ![h] = Idle]
Failed == "completed_with_provider_error"

\* handlePost() up to the call of reserveWork: the candidates with a negative
\* outcome are left out; a request without others ends at once.
Receive(h, request) ==
    LET sms == {s \in request.sms : ~Blocked(s, request.session)}
    IN  /\ At(h, "idle") /\ calls < MaxCalls /\ sms # {}
        /\ calls' = calls + 1
        /\ handler' = [handler EXCEPT ![h] =
             [Idle EXCEPT !.step = "reserve", !.request = request, !.sms = sms, !.seen = now]]
        /\ UNCHANGED <<ledgerVars, lateStarts, runs, sent>>

\* reserveWork(): the answer, or its loss, which ends the handler.
ReserveWork(h) ==
    /\ At(h, "reserve")
    /\ \E answer \in BOOLEAN :
        /\ Reserve(handler[h].request, Cardinality(handler[h].sms), handler[h].seen, answer)
        /\ \/ answer /\ Goto(h, "admitted")
           \/ End(h)
    /\ UNCHANGED <<lateStarts, callVars>>

\* The caller cancelled: releaseCancelledReservation(), whose failure is ignored.
CancelReservation(h) ==
    /\ At(h, "admitted")
    /\ ReleaseWork(KeyOf(h)) \/ UNCHANGED ledgerVars
    /\ End(h)
    /\ UNCHANGED <<lateStarts, callVars>>

CallMark(h) ==
    /\ At(h, "admitted")
    /\ handler' = [handler EXCEPT ![h].step = "mark", ![h].seen = now]
    /\ UNCHANGED <<ledgerVars, lateStarts, callVars>>

\* markProviderStarted() answers, or throws after it took effect.
Mark(h) ==
    /\ At(h, "mark")
    /\ \E answer \in BOOLEAN :
        /\ MarkProviderStarted(KeyOf(h), handler[h].sms, handler[h].seen, answer)
        /\ \/ Goto(h, "unknown")
           \/ answer /\ Goto(h, "started")
           \/ ~answer /\ End(h)
    /\ UNCHANGED <<lateStarts, callVars>>

\* It throws, and takes effect later or never.
LoseMark(h) ==
    /\ At(h, "mark")
    /\ \E late \in SUBSET {[key |-> KeyOf(h), sms |-> handler[h].sms, seen |-> handler[h].seen]} :
        lateStarts' = lateStarts \cup late
    /\ Goto(h, "unknown")
    /\ UNCHANGED <<ledgerVars, callVars>>

LateStart ==
    /\ \E call \in lateStarts :
        /\ \E answer \in BOOLEAN : MarkProviderStarted(call.key, call.sms, call.seen, answer)
        /\ lateStarts' = lateStarts \ {call}
    /\ UNCHANGED <<handler, callVars>>

\* One attempt of completeSmsAiWorkWithRetry(): it answers, or throws before or
\* after it took effect.  After the last one the handler is in the state next.
Attempt(h, target, next) ==
    \E answer \in BOOLEAN :
        /\ CompleteWork(KeyOf(h), target, answer) \/ (UNCHANGED ledgerVars /\ ~answer)
        /\ \/ answer /\ End(h)
           \/ /\ handler[h].tries + 1 < MaxAttempts
              /\ handler' = [handler EXCEPT ![h].tries = @ + 1]
           \/ handler[h].tries + 1 = MaxAttempts /\ handler' = [handler EXCEPT ![h] = next]

\* reconcileAmbiguousProviderStart(): completion, then release, then the end.
CompleteUnknown(h) ==
    /\ At(h, "unknown") /\ handler[h].tries < MaxAttempts
    /\ Attempt(h, Failed, [handler[h] EXCEPT !.tries = MaxAttempts])
    /\ UNCHANGED <<lateStarts, callVars>>

ReleaseUnknown(h) ==
    /\ At(h, "unknown") /\ handler[h].tries = MaxAttempts
    /\ ReleaseWork(KeyOf(h)) \/ UNCHANGED ledgerVars
    /\ End(h)
    /\ UNCHANGED <<lateStarts, callVars>>

\* executeProvider(), unless the caller cancelled: from here on it is paid for.
ExecuteProvider(h) ==
    /\ At(h, "started")
    /\ runs' = [runs EXCEPT ![KeyOf(h)] = @ + 1]
    /\ sent' = [sent EXCEPT ![KeyOf(h)] = @ \cup handler[h].sms]
    /\ Goto(h, "provider")
    /\ UNCHANGED <<ledgerVars, lateStarts, calls>>

\* A failure, an invalid or truncated answer, a cancellation before or after it.
ProviderFails(h) ==
    /\ At(h, "started") \/ At(h, "provider")
    /\ FinishAs(h, Failed)
    /\ UNCHANGED <<ledgerVars, lateStarts, callVars>>

\* A complete answer: transactions for some candidates, nothing for others; the
\* rest, whose entries were invalid, stays out of the reconciliation.
ProviderAnswers(h) ==
    /\ At(h, "provider")
    /\ \E negative \in SUBSET handler[h].sms :
        \E positive \in SUBSET (handler[h].sms \ negative) :
            handler' = [handler EXCEPT ![h].step = "reconcile",
                ![h].outcome = [positive |-> positive, negative |-> negative]]
    /\ UNCHANGED <<ledgerVars, lateStarts, callVars>>

\* Faulty variant: a failed call is made again.
ReconcileAgain(h) ==
    /\ At(h, "reconcile")
    /\ \/ /\ ReconcileOutcomes(handler[h].outcome.positive, handler[h].outcome.negative)
          /\ FinishAs(h, "completed") \/ UNCHANGED handler
       \/ UNCHANGED <<ledgerVars, handler>>
    /\ UNCHANGED <<lateStarts, callVars>>

\* reconcileOutcomes() answers, or throws before or after it took effect.
Reconcile(h) ==
    /\ At(h, "reconcile")
    /\ LET outcome == handler[h].outcome
       IN  \/ /\ ReconcileOutcomes(outcome.positive, outcome.negative)
              /\ FinishAs(h, "completed") \/ FinishAs(h, Failed)
           \/ UNCHANGED ledgerVars /\ FinishAs(h, Failed)
    /\ UNCHANGED <<lateStarts, callVars>>

Finish(h) ==
    /\ At(h, "finish")
    /\ Attempt(h, handler[h].target, Idle)
    /\ UNCHANGED <<lateStarts, callVars>>

Kill(h) == ~At(h, "idle") /\ End(h) /\ UNCHANGED <<ledgerVars, lateStarts, callVars>>

HandlerNext ==
    \/ Tick /\ UNCHANGED <<handler, lateStarts, callVars>>
    \/ LateStart
    \/ \E h \in Handlers :
        \/ \E request \in Requests : Receive(h, request)
        \/ ReserveWork(h) \/ CancelReservation(h) \/ CallMark(h) \/ Mark(h) \/ LoseMark(h)
        \/ CompleteUnknown(h) \/ ReleaseUnknown(h)
        \/ ExecuteProvider(h) \/ ProviderFails(h) \/ ProviderAnswers(h)
        \/ Reconcile(h) \/ Finish(h) \/ Kill(h)

HandlerSpec == HandlerInit /\ [][HandlerNext]_vars

-----------------------------------------------------------------------------
LedgerTypeOK ==
    /\ now \in 1..MaxTime
    /\ rows \in [Keys -> [status : Statuses, request : Requests \cup {NoRequest},
                          units : 0..Cardinality(Sms), expires : 0..(MaxTime + Lease)]]
    /\ \A k \in Keys : rows[k].expires # 0 <=> rows[k].status = "reserved"
    /\ startedAt \in [Keys -> 0..MaxTime]
    /\ strikes \in [Sms -> 0..3]
    /\ \A h \in Handlers :
        handler[h].step \in Steps /\ handler[h].tries \in 0..MaxAttempts

\* "retries must not double-charge", and the provider is never called twice
\* under one request identity: whatever replays, lost answers, late starts and
\* cancellations do, a key has at most one run of the provider, and a usage event.
OneRunPerRequest ==
    \A k \in Keys : runs[k] <= (IF startedAt[k] = 0 THEN 0 ELSE 1)

StartsIn(from, window) == {k \in Keys : startedAt[k] \in from..(from + window - 1) /\ startedAt[k] # 0}

RollingLimit == \A from \in 1..now : Units(StartsIn(from, RollingWindow)) <= MaxRolling
BurstLimit == \A from \in 1..now : Cardinality(StartsIn(from, BurstWindow)) <= MaxBurst
ScanLimit ==
    \A session \in Sessions :
        Units({k \in Keys : startedAt[k] # 0 /\ rows[k].request.session = session}) <= MaxScan

\* A history scan starts nothing within the cooldown of another one's first
\* start, although both may have been admitted before either started.  (What it
\* goes on with at the instant of the other's first start came before it.)
HistoryCooldown ==
    \A k \in Keys : startedAt[k] # 0 /\ rows[k].request.session \in HistorySessions =>
        \A other \in HistorySessions \ {rows[k].request.session} :
            Started(other) =>
                \/ FirstStart(other) + Cooldown <= startedAt[k]
                \/ /\ FirstStart(other) >= startedAt[k]
                   /\ FirstStart(other) > FirstStart(rows[k].request.session)

\* "Concurrent requests and retries MUST NOT allow accepted usage to exceed the
\* same user's remaining allowance": in no window, wherever it lies, do the
\* units or the starts exceed their limits, nor do history scans the cooldown.
WithinLimits == RollingLimit /\ BurstLimit /\ ScanLimit /\ HistoryCooldown

\* No start is granted for a candidate with a terminal outcome, although the
\* handler looked the outcomes up before it reserved.
NoTerminalStart ==
    [][\A h \in Handlers : At(h, "mark") /\ handler'[h].step = "started" =>
         \A s \in handler[h].sms : ~Terminal(s)]_vars

\* One provider result counts at most one strike, and a strike needs a result.
StrikesAreEarned ==
    \A s \in Sms : strikes[s] <= FirstStrikes[s] + Cardinality({k \in Keys : s \in sent[k]})
=============================================================================
