----------------------------- MODULE VoiceLimits -----------------------------
(***************************************************************************)
(* The limits of voice parsing: the ledger of migration 087 and the        *)
(* parse-voice handlers that use it, for one metered user.  The ledger's   *)
(* functions hold the user's advisory lock and are one step each, but      *)
(* their public wrappers read the clock before they wait for it: `seen`    *)
(* may be any instant of the time a call waited.  The daily limit counts   *)
(* starts in the user's pinned local day, the burst limit starts in a      *)
(* sliding window, both with the live reservations of others.              *)
(***************************************************************************)
EXTENDS Naturals, FiniteSets

CONSTANTS
    Keys, Handlers,
    Zones, Midnight,  \* Midnight[z]: an instant at which a day of zone z begins
    Day,              \* the length of a day
    DailyLimit, BurstLimit, BurstWindow, Lease,
    Retention,        \* c_retention and c_accounting_horizon
    MaxWait,          \* the longest a call waits for the lock
    MaxTime, MaxCalls,\* bounds on the clock and on the requests received
    NoWindow

ASSUME VoiceAssumption ==
    /\ {Day, DailyLimit, BurstLimit, BurstWindow, Lease, Retention, MaxTime, MaxCalls}
         \subseteq Nat \ {0}
    /\ Midnight \in [Zones -> 0..(Day - 1)]
    /\ MaxWait \in Nat /\ IsFiniteSet(Keys)
    /\ Retention >= MaxWait + Day /\ Retention >= MaxWait + BurstWindow
    /\ NoWindow \notin [zone : Zones, from : Nat, to : Nat]

VARIABLES
    now,      \* clock_timestamp()
    window,   \* the user's row of voice_ai_usage_windows
    rows,     \* voice_ai_work_requests by request key; id is the call that made it
    handler,  \* handler[h]: where it is, its request and since when
    calls,    \* requests received so far
    charges,  \* every start: its stamp and the window it was counted in (history)
    runs      \* runs[k]: provider runs of the identity k has now (history)

ledger == <<window, rows>>
history == <<calls, charges, runs>>
vars == <<now, ledger, handler, history>>

\* The readings a call may come with that was possible since the given instant.
ReadSince(since) == {seen \in since..now : seen + MaxWait >= now}

Statuses == {"none", "reserved", "provider_started", "completed", "released", "refused"}
NoRow == [status |-> "none", window |-> NoWindow, expires |-> 0, started |-> 0, created |-> 0,
          id |-> 0]
Idle == [step |-> "idle", key |-> "none", zone |-> "none", since |-> 0, id |-> 0]

\* The local day of zone at an instant; days are counted from before the first.
DayOf(zone, at) ==
    LET from == ((at + Day - Midnight[zone]) \div Day) * Day + Midnight[zone]
    IN  [zone |-> zone, from |-> from, to |-> from + Day]
\* Instants are shifted by a day, so that the first day begins above 0.
In(at, w) == at + Day >= w.from /\ at + Day < w.to

VoiceInit ==
    /\ now = 1
    /\ window = NoWindow
    /\ rows = [k \in Keys |-> NoRow]
    /\ handler = [h \in Handlers |-> Idle]
    /\ calls = 0 /\ charges = {} /\ runs = [k \in Keys |-> 0]

Tick == now < MaxTime /\ now' = now + 1 /\ UNCHANGED <<ledger, handler, history>>

\* voice_ai_ensure_window_at_v1(): the pinned window, unless seen lies outside.
Ensured(zone, seen) ==
    IF window # NoWindow /\ In(seen, window) THEN window ELSE DayOf(zone, seen)

Closed(row, status) == [row EXCEPT !.status = status, !.expires = 0]
LiveAt(seen) == {k \in Keys : rows[k].status = "reserved" /\ rows[k].expires > seen}

\* voice_ai_reclaim_expired_reservations_at_v1()
Reclaimed(seen) ==
    [k \in Keys |-> IF rows[k].status = "reserved" /\ k \notin LiveAt(seen)
                    THEN Closed(rows[k], "released") ELSE rows[k]]

\* Faulty variant: a start no longer counts once its work is complete.
DailyFullRunning(w, seen, others) ==
    Cardinality({k \in Keys : rows[k].status = "provider_started" /\ In(rows[k].started, w)})
      + Cardinality({k \in LiveAt(seen) \cap others : rows[k].window = w}) >= DailyLimit

\* Faulty variant: the burst leaves out the live reservations of others.
BurstFullStarted(seen, others) ==
    Cardinality({k \in Keys : /\ rows[k].started # 0 /\ rows[k].started <= seen
                              /\ rows[k].started + BurstWindow > seen}) >= BurstLimit

\* The limits as the reservation and the start find them; others are the keys
\* whose reservations count.
DailyFull(w, seen, others) ==
    Cardinality({k \in Keys : rows[k].started # 0 /\ In(rows[k].started, w)})
      + Cardinality({k \in LiveAt(seen) \cap others :
                       rows[k].window.from = w.from /\ rows[k].window.to = w.to}) >= DailyLimit
BurstFull(seen, others) ==
    Cardinality({k \in Keys : /\ rows[k].started # 0 /\ rows[k].started <= seen
                              /\ rows[k].started + BurstWindow > seen})
      + Cardinality(LiveAt(seen) \cap others) >= BurstLimit
Full(w, seen, others) == DailyFull(w, seen, others) \/ BurstFull(seen, others)

\* voice_ai_reserve_work(): an existing row only answers, a new one is written.
Reserve(key, zone, seen, answer) ==
    LET w == Ensured(zone, seen)
        row == [NoRow EXCEPT !.window = w, !.created = seen, !.id = calls + 1]
    IN  /\ window' = w
        /\ IF rows[key].status # "none"
           THEN answer = (key \in LiveAt(seen)) /\ rows' = Reclaimed(seen)
           ELSE /\ answer = ~Full(w, seen, Keys)
                /\ rows' = [Reclaimed(seen) EXCEPT ![key] =
                     IF answer THEN [row EXCEPT !.status = "reserved", !.expires = seen + Lease]
                     ELSE [row EXCEPT !.status = "refused"]]

\* The window a start is counted in: the zone is the row's within its window,
\* the caller's beyond it.
StartWindow(key, zone, seen) ==
    Ensured(IF In(seen, rows[key].window) THEN rows[key].window.zone ELSE zone, seen)

Starts(key, seen, w) ==
    rows' = [Reclaimed(seen) EXCEPT ![key] =
        [Closed(rows[key], "provider_started") EXCEPT !.window = w, !.started = seen]]

\* Faulty variant: a start is granted to every caller of the identity.
MarkReplayed(key, zone, seen, answer) ==
    /\ window' = StartWindow(key, zone, seen)
    /\ answer = (rows[key].status \in {"reserved", "provider_started"})
    /\ IF answer THEN Starts(key, seen, window') ELSE rows' = Reclaimed(seen)

\* voice_ai_mark_provider_started(): the one step that is charged.
MarkProviderStarted(key, zone, seen, answer) ==
    LET w == StartWindow(key, zone, seen)
        full == Full(w, seen, Keys \ {key})
    IN  /\ window' = w
        /\ answer = (key \in LiveAt(seen) /\ ~full)
        /\ CASE answer -> Starts(key, seen, w)
             [] key \in LiveAt(seen) /\ full ->
                  rows' = [Reclaimed(seen) EXCEPT ![key] =
                             [Closed(rows[key], "refused") EXCEPT !.window = w]]
             [] OTHER -> rows' = Reclaimed(seen)

\* voice_ai_get_availability(): it reserves nothing, but pins and reclaims.
GetAvailability ==
    /\ \E zone \in Zones, seen \in ReadSince(1) :
        window' = Ensured(zone, seen) /\ rows' = Reclaimed(seen)
    /\ UNCHANGED <<now, handler, history>>

\* What the hourly cleanup deletes, having found it again under the lock.
Over(k, seen) ==
    /\ rows[k].status \in {"completed", "released", "refused"}
    /\ rows[k].created + Retention <= seen
    /\ rows[k].started # 0 =>
         /\ rows[k].started + Retention <= seen
         /\ (window # NoWindow /\ In(seen, window)) => ~In(rows[k].started, window)

CleanUp ==
    /\ \E k \in Keys, seen \in ReadSince(1) :
        /\ Over(k, seen)
        /\ rows' = [rows EXCEPT ![k] = NoRow]
        /\ runs' = [runs EXCEPT ![k] = 0]
    /\ UNCHANGED <<now, window, handler, calls, charges>>

At(h, step) == handler[h].step = step
End(h) == handler' = [handler EXCEPT ![h] = Idle]
\* The row is looked up by its id: it is gone once the identity was deleted.
Found(h) == rows[handler[h].key].id = handler[h].id

\* A request arrives, under a key that may be in use or have been used, and is
\* reserved; the answer may be lost.
ReserveWork(h, key, zone) ==
    /\ At(h, "idle") /\ calls < MaxCalls
    /\ calls' = calls + 1
    /\ \E seen \in ReadSince(1), answer \in BOOLEAN :
        /\ Reserve(key, zone, seen, answer)
        /\ \/ answer /\ handler' = [handler EXCEPT ![h] =
                [step |-> "admitted", key |-> key, zone |-> zone, since |-> now,
                 id |-> rows'[key].id]]
           \/ UNCHANGED handler
    /\ UNCHANGED <<now, charges, runs>>

\* The preparation fails: the reservation is released, or that fails too.
FailPreparation(h) ==
    /\ At(h, "admitted")
    /\ \/ UNCHANGED rows
       \/ /\ Found(h) /\ rows[handler[h].key].status = "reserved"
          /\ rows' = [rows EXCEPT ![handler[h].key] = Closed(@, "released")]
    /\ End(h)
    /\ UNCHANGED <<now, window, history>>

\* The start: its answer may be lost, and an ambiguous start is left as it is.
MarkStart(h) ==
    /\ At(h, "admitted") /\ Found(h)
    /\ \E seen \in ReadSince(handler[h].since), answer \in BOOLEAN :
        /\ MarkProviderStarted(handler[h].key, handler[h].zone, seen, answer)
        /\ charges' = IF answer
                      THEN charges \cup {[key |-> handler[h].key, at |-> seen, window |-> window']}
                      ELSE charges
        /\ \/ /\ answer
              /\ handler' = [handler EXCEPT ![h].step = "provider"]
              /\ runs' = [runs EXCEPT ![handler[h].key] = @ + 1]
           \/ End(h) /\ UNCHANGED runs
    /\ UNCHANGED <<now, calls>>

\* The provider answers or fails; the bookkeeping may fail and is not repeated.
Complete(h) ==
    /\ At(h, "provider")
    /\ \/ UNCHANGED rows
       \/ /\ Found(h) /\ rows[handler[h].key].status = "provider_started"
          /\ rows' = [rows EXCEPT ![handler[h].key] = Closed(@, "completed")]
    /\ End(h)
    /\ UNCHANGED <<now, window, history>>

Kill(h) == At(h, "admitted") /\ End(h) /\ UNCHANGED <<now, ledger, history>>

VoiceNext ==
    \/ Tick \/ GetAvailability \/ CleanUp
    \/ \E h \in Handlers :
        \/ \E key \in Keys, zone \in Zones : ReserveWork(h, key, zone)
        \/ FailPreparation(h) \/ MarkStart(h) \/ Complete(h) \/ Kill(h)

VoiceSpec == VoiceInit /\ [][VoiceNext]_vars

-----------------------------------------------------------------------------
Windows == {DayOf(zone, at) : zone \in Zones, at \in 1..MaxTime}

VoiceTypeOK ==
    /\ now \in 1..MaxTime
    /\ window \in Windows \cup {NoWindow}
    /\ rows \in [Keys -> [status : Statuses, window : Windows \cup {NoWindow},
                          expires : 0..(MaxTime + Lease), started : 0..MaxTime, created : 0..MaxTime,
                          id : 0..MaxCalls]]
    /\ \A k \in Keys : /\ rows[k].status = "reserved" <=> rows[k].expires # 0
                       /\ rows[k].status \in {"provider_started", "completed"} <=> rows[k].started # 0
    /\ \A h \in Handlers : handler[h].step \in {"idle", "admitted", "provider"}
    /\ calls \in 0..MaxCalls

\* "usage accounting MUST avoid multiple daily units for that request": an
\* identity runs the provider at most once, and only when it was charged.
OneRunPerIdentity == \A k \in Keys : runs[k] <= (IF rows[k].started = 0 THEN 0 ELSE 1)

BurstLimited ==
    \A from \in 1..now :
        Cardinality({c \in charges : c.at \in from..(from + BurstWindow - 1)}) <= BurstLimit
DailyLimited ==
    \A c \in charges : Cardinality({d \in charges : In(d.at, c.window)}) <= DailyLimit

\* "no more than 2 provider-starting logical voice requests per minute", in no
\* minute wherever it lies, and a day a start was charged to holds no more than
\* its limit, although starts carry stamps read before the lock, reservations
\* cross midnight and devices report other zones.
UsageLimited == BurstLimited /\ DailyLimited
=============================================================================
