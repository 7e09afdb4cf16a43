----------------------------- MODULE SmsAiLedger -----------------------------
(***************************************************************************)
(* The ledger that meters SMS parsing by a paid provider: the functions    *)
(* sms_ai_reserve_work_v2, sms_ai_mark_provider_started_v3,                *)
(* sms_ai_release_work, sms_ai_complete_work and sms_ai_reconcile_outcomes *)
(* (migrations 061 to 066) for one user and the capability sms_full_parse. *)
(*                                                                         *)
(* Reserving, starting and reconciling hold the user's advisory lock, so   *)
(* each is one step; but reserve_v2 and mark_v3 read the clock before they *)
(* wait for it, and `seen` is that reading.  Refusals differ in their      *)
(* texts, which are left out, and no row is old enough to be cleaned up.   *)
(***************************************************************************)
EXTENDS Naturals, FiniteSets, FiniteSetsExt

CONSTANTS
    Keys,            \* request keys
    Sms,             \* candidate fingerprints
    Sessions,        \* scan sessions
    HistorySessions, \* those that rescan the history
    MaxScan, MaxRolling, MaxBurst,  \* units per session and window, starts per burst
    RollingWindow, BurstWindow, Cooldown, Lease,
    MaxTime,         \* bound on the clock
    NoRequest,       \* a row that was never inserted
    FirstStrikes     \* the strikes of each candidate before the model begins

ASSUME LedgerAssumption ==
    /\ IsFiniteSet(Keys) /\ IsFiniteSet(Sms)
    /\ HistorySessions \subseteq Sessions
    /\ FirstStrikes \in [Sms -> 0..2]
    /\ {MaxScan, MaxRolling, MaxBurst, RollingWindow, BurstWindow, Cooldown, Lease, MaxTime}
         \subseteq Nat \ {0}

VARIABLES
    now,       \* clock_timestamp()
    rows,      \* sms_ai_work_requests by request key
    startedAt, \* sms_ai_usage_events: the stamp of a key's one event, 0 if none
    strikes    \* sms_ai_negative_outcomes that are not deleted, 0 if none

ledgerVars == <<now, rows, startedAt, strikes>>

Statuses == {"none", "reserved", "provider_started", "completed",
             "completed_with_provider_error", "released", "refused"}
NoRow == [status |-> "none", request |-> NoRequest, units |-> 0, expires |-> 0]

Terminal(s) == strikes[s] = 3
Blocked(s, session) == IF session \in HistorySessions THEN Terminal(s) ELSE strikes[s] > 0

LedgerInit ==
    /\ now = 1
    /\ rows = [k \in Keys |-> NoRow]
    /\ startedAt = [k \in Keys |-> 0]
    /\ strikes = FirstStrikes

Tick == now < MaxTime /\ now' = now + 1 /\ UNCHANGED <<rows, startedAt, strikes>>

\* The units of the requests in S, as many as the sum of the column.
UnitsOf(table, S) ==
    Cardinality({unit \in S \X (1..Cardinality(Sms)) : unit[2] <= table[unit[1]].units})
Units(S) == UnitsOf(rows, S)
Reserved == {k \in Keys : rows[k].status = "reserved"}
Live == {k \in Reserved : rows[k].expires > now}
Since(window) == {k \in Keys : startedAt[k] # 0 /\ startedAt[k] + window > now}
Consumed == {"reserved", "provider_started", "completed", "completed_with_provider_error"}

\* Faulty variants: each limit forgets what is on its way.
ScanFitsDone(session, n) ==
    Units({k \in Live : rows[k].request.session = session}) + n <= MaxScan
RollingFitsStarted(n) == Units(Since(RollingWindow)) + n <= MaxRolling
BurstFitsStarted == Cardinality(Since(BurstWindow)) + 1 <= MaxBurst

\* The limits as sms_ai_reserve_work() finds them, expired rows being released.
ScanFits(session, n) ==
    Units({k \in Keys \ (Reserved \ Live) :
            rows[k].status \in Consumed /\ rows[k].request.session = session}) + n <= MaxScan
RollingFits(n) == Units(Since(RollingWindow)) + Units(Live) + n <= MaxRolling
BurstFits == Cardinality(Since(BurstWindow)) + Cardinality(Live) + 1 <= MaxBurst

\* The first start of another history session within the cooldown of `seen`.
FirstStart(session) ==
    Min({startedAt[k] : k \in {j \in Keys : startedAt[j] # 0 /\ rows[j].request.session = session}})
Started(session) == \E k \in Keys : startedAt[k] # 0 /\ rows[k].request.session = session
CoolingDown(session, seen) ==
    /\ session \in HistorySessions
    /\ \E other \in HistorySessions \ {session} :
        Started(other) /\ FirstStart(other) + Cooldown > seen

WithStatus(row, status) == [row EXCEPT !.status = status, !.expires = 0]
Swept == [k \in Keys |-> IF k \in Reserved \ Live THEN WithStatus(rows[k], "released") ELSE rows[k]]

\* sms_ai_reserve_work_v2(): answer is whether the request was admitted.
Reserve(request, n, seen, answer) ==
    LET key == request.key
        row == rows[key]
        cooling == CoolingDown(request.session, seen)
        admitted == [status |-> IF cooling THEN "refused" ELSE "reserved",
                     request |-> request, units |-> n,
                     expires |-> IF cooling THEN 0 ELSE now + Lease]
    IN  /\ UNCHANGED <<now, startedAt, strikes>>
        /\ \/ /\ row.status # "none" /\ row.request # request       \* idempotency_conflict
              /\ answer = FALSE /\ UNCHANGED rows
           \/ /\ row.request = request /\ key \in Live               \* replay
              /\ answer = ~cooling
              /\ rows' = IF cooling THEN [rows EXCEPT ![key] = WithStatus(row, "refused")] ELSE rows
           \/ /\ row.request = request /\ key \notin Reserved
              /\ answer = FALSE /\ UNCHANGED rows
           \/ /\ row.status = "none" \/ (row.request = request /\ key \in Reserved \ Live)
              /\ IF ScanFits(request.session, n) /\ RollingFits(n) /\ BurstFits
                 THEN /\ answer = ~cooling
                      /\ rows' = [Swept EXCEPT ![key] = admitted]
                 ELSE /\ answer = FALSE
                      /\ rows' = [Swept EXCEPT ![key] = [admitted EXCEPT
                                      !.status = "refused", !.expires = 0]]

\* The work of key is started, or closed because of what was found.
MarkUnless(terminal, cooling, key, answer) ==
    LET Become(status) == rows' = [rows EXCEPT ![key] = WithStatus(rows[key], status)]
    IN  /\ UNCHANGED <<now, strikes>>
        /\ answer = (key \in Live /\ ~terminal /\ ~cooling)
        /\ startedAt' = IF answer THEN [startedAt EXCEPT ![key] = now] ELSE startedAt
        /\ \/ answer /\ Become("provider_started")
           \/ key \in Reserved /\ terminal /\ Become("released")
           \/ key \in Reserved /\ ~terminal /\ cooling /\ Become("refused")
           \/ ~terminal /\ ~cooling /\ key \in Reserved \ Live /\ Become("released")
           \/ key \notin Reserved /\ UNCHANGED rows

AnyTerminal(submitted) == \E s \in submitted : Terminal(s)

\* Faulty variant: the outcomes are not looked up again.
MarkTerminal(key, submitted, seen, answer) ==
    MarkUnless(FALSE, CoolingDown(rows[key].request.session, seen), key, answer)

\* Faulty variant: the cooldown is not looked up again.
MarkUncooled(key, submitted, seen, answer) ==
    MarkUnless(AnyTerminal(submitted), FALSE, key, answer)

\* Faulty variant: a start that is asked for again is granted again.
MarkAgain(key, submitted, seen, answer) ==
    \/ MarkUnless(AnyTerminal(submitted), CoolingDown(rows[key].request.session, seen), key, answer)
    \/ rows[key].status = "provider_started" /\ answer /\ UNCHANGED ledgerVars

\* sms_ai_mark_provider_started_v3(): answer is whether the provider may run.
MarkProviderStarted(key, submitted, seen, answer) ==
    MarkUnless(AnyTerminal(submitted), CoolingDown(rows[key].request.session, seen), key, answer)

\* sms_ai_release_work()
ReleaseWork(key) ==
    /\ rows' = IF key \in Reserved
               THEN [rows EXCEPT ![key] = WithStatus(rows[key], "released")] ELSE rows
    /\ UNCHANGED <<now, startedAt, strikes>>

\* sms_ai_complete_work(): a repeated completion is answered like the first.
CompleteWork(key, target, answer) ==
    /\ answer = (rows[key].status \in {"provider_started", target})
    /\ rows' = IF rows[key].status = "provider_started"
               THEN [rows EXCEPT ![key] = WithStatus(rows[key], target)] ELSE rows
    /\ UNCHANGED <<now, startedAt, strikes>>

\* sms_ai_reconcile_outcomes()
ReconcileOutcomes(positive, negative) ==
    /\ strikes' = [s \in Sms |->
         CASE s \in negative -> IF Terminal(s) THEN 3 ELSE strikes[s] + 1
           [] s \in positive /\ ~Terminal(s) -> 0
           [] OTHER -> strikes[s]]
    /\ UNCHANGED <<now, rows, startedAt>>
=============================================================================
