-------------------------- MODULE VoiceLimits_proofs --------------------------
(***************************************************************************)
(* What holds of the voice ledger for any limits, any number of requests,  *)
(* handlers and time zones, and however long a call waits for the lock: an *)
(* identity runs the provider once, no burst window holds more starts than *)
(* its limit; no day does where all zones share their midnight, or calls   *)
(* do not wait.                                                            *)
(***************************************************************************)
EXTENDS VoiceLimits, FiniteSetTheorems, TLAPS

DaySet == {DayOf(zone, at) : zone \in Zones, at \in Nat}
RowSet == [status : Statuses, window : DaySet \cup {NoWindow}, expires : Nat, started : Nat,
           created : Nat, id : Nat]
HandlerSet == [step : {"idle", "admitted", "provider"}, key : Keys \cup {"none"},
               zone : Zones \cup {"none"}, since : Nat, id : Nat]
ChargeSet == [key : Keys, at : Nat, window : DaySet]

RowOK(k) ==
    /\ rows[k].id <= calls
    /\ rows[k].status = "none" <=> rows[k].id = 0
    /\ rows[k].status # "none" => rows[k].window \in DaySet
    /\ rows[k].status \in {"none", "reserved"} => rows[k].started = 0

HandlerOK(h) ==
    At(h, "admitted") =>
        /\ handler[h].key \in Keys /\ handler[h].zone \in Zones
        /\ handler[h].id \in 1..calls /\ handler[h].since \in 1..now

\* A charge is found in its row, or too old to lie in a window that counts.
Recorded(c) ==
    \/ rows[c.key].started = c.at /\ rows[c.key].window = c.window
    \/ c.at + Retention <= now

TypesInv ==
    /\ now \in Nat \ {0} /\ calls \in Nat
    /\ window \in DaySet \cup {NoWindow}
    /\ rows \in [Keys -> RowSet] /\ handler \in [Handlers -> HandlerSet]
    /\ charges \in SUBSET ChargeSet /\ IsFiniteSet(charges)
    /\ runs \in [Keys -> Nat]

LedgerInv ==
    /\ \A k \in Keys : RowOK(k)
    /\ \A h \in Handlers : HandlerOK(h)
    /\ \A c \in charges : c.at \in 1..now /\ Recorded(c)

\* The starts of a burst window, and the reservations that may still start
\* before the last of them: their handlers were admitted earlier.
Burst(from) == {c \in charges : c.at \in from..(from + BurstWindow - 1)}
MayStart(h, k) ==
    At(h, "admitted") /\ handler[h].key = k /\ handler[h].id = rows[k].id /\ rows[k].status = "reserved"
Overtaken(from) ==
    {k \in Keys : \E h \in Handlers, c \in Burst(from) : MayStart(h, k) /\ handler[h].since < c.at}

Room(from) == Cardinality(Burst(from)) + Cardinality(Overtaken(from)) <= BurstLimit
RoomInv == \A from \in Nat : Room(from)

VoiceInv == TypesInv /\ LedgerInv /\ OneRunPerIdentity /\ RoomInv

-----------------------------------------------------------------------------
(***************************************************************************)
(* Days, and numbers of charges.                                           *)
(***************************************************************************)
LEMMA VoiceConstants ==
  /\ Day \in Nat \ {0} /\ DailyLimit \in Nat \ {0} /\ BurstLimit \in Nat \ {0}
  /\ BurstWindow \in Nat \ {0} /\ Lease \in Nat \ {0} /\ Retention \in Nat \ {0}
  /\ MaxWait \in Nat /\ Retention >= MaxWait + Day /\ Retention >= MaxWait + BurstWindow
  /\ \A zone \in Zones : Midnight[zone] \in 0..(Day - 1)
  /\ IsFiniteSet(Keys)
BY VoiceAssumption

\* Whole days up to an instant.
LEMMA WholeDays ==
  ASSUME NEW a \in Nat, NEW d \in Nat \ {0}
  PROVE  /\ a \div d \in Nat /\ (a \div d) * d \in Nat
         /\ (a \div d) * d <= a /\ a < (a \div d) * d + d
OBVIOUS

\* The day of an instant is a day's length from its midnight, and has the instant.
LEMMA DayFacts ==
  ASSUME NEW zone \in Zones, NEW at \in Nat
  PROVE  /\ DayOf(zone, at) \in DaySet /\ DayOf(zone, at).zone = zone
         /\ DayOf(zone, at).from \in Nat /\ DayOf(zone, at).to = DayOf(zone, at).from + Day
         /\ In(at, DayOf(zone, at))
         /\ \E q \in Nat : DayOf(zone, at).from = q * Day + Midnight[zone]
<1>1. /\ Day \in Nat \ {0} /\ Midnight[zone] \in Nat /\ Midnight[zone] <= Day - 1
  BY VoiceConstants
<1>2. PICK a \in Nat : a = at + Day - Midnight[zone]
  BY <1>1
<1>3. PICK from \in Nat : from = (a \div Day) * Day + Midnight[zone]
  <2>1. PICK b \in Nat : b = (a \div Day) * Day
    BY <1>1, WholeDays
  <2>2. b + Midnight[zone] \in Nat
    BY <1>1
  <2> QED BY <2>1, <2>2
<1>4. /\ DayOf(zone, at).zone = zone /\ DayOf(zone, at).from = from
      /\ DayOf(zone, at).to = from + Day
  BY <1>2, <1>3 DEF DayOf
<1>5. from <= at + Day /\ at + Day < from + Day
  <2>1. PICK b \in Nat : b = (a \div Day) * Day /\ b <= a /\ a < b + Day
    BY <1>1, WholeDays
  <2> QED BY <1>1, <1>2, <1>3, <2>1
<1>6. In(at, DayOf(zone, at))
  BY <1>1, <1>4, <1>5 DEF In
<1>7. a \div Day \in Nat
  BY <1>1, WholeDays
<1> QED BY <1>3, <1>4, <1>6, <1>7 DEF DaySet

\* A pinned day is a whole day from the midnight of its zone.
LEMMA DaySetFacts ==
  ASSUME NEW w \in DaySet
  PROVE  /\ w.zone \in Zones /\ w.from \in Nat /\ w.to = w.from + Day
         /\ \E q \in Nat : w.from = q * Day + Midnight[w.zone]
<1>1. PICK zone \in Zones, at \in Nat : w = DayOf(zone, at)
  BY DEF DaySet
<1> QED BY <1>1, DayFacts

\* An instant lies in the window a call ensures.
LEMMA EnsuredFacts ==
  ASSUME NEW zone \in Zones, NEW seen \in Nat, window \in DaySet \cup {NoWindow}
  PROVE  Ensured(zone, seen) \in DaySet /\ In(seen, Ensured(zone, seen))
BY DayFacts DEF Ensured

\* Charges are no more than the keys they are told apart by.
LEMMA ChargesByKey ==
  ASSUME NEW C, NEW K, IsFiniteSet(K), \A c \in C : c.key \in K,
         \A c, d \in C : c.key = d.key => c = d
  PROVE  IsFiniteSet(C) /\ Cardinality(C) \in Nat /\ Cardinality(C) <= Cardinality(K)
<1> DEFINE f == [c \in C |-> c.key]
<1>1. f \in Injection(C, K)
  BY DEF Injection, IsInjective
<1> QED BY <1>1, FS_Injection, FS_CardinalityType

\* One more element is at most one more to count.
LEMMA OneMore ==
  ASSUME NEW S, IsFiniteSet(S), NEW x
  PROVE  /\ IsFiniteSet(S \cup {x}) /\ Cardinality(S \cup {x}) \in Nat
         /\ Cardinality(S) \in Nat /\ Cardinality(S \cup {x}) <= Cardinality(S) + 1
<1>1. IsFiniteSet(S \cup {x}) /\ Cardinality(S \cup {x}) =
        IF x \in S THEN Cardinality(S) ELSE Cardinality(S) + 1
  BY FS_AddElement
<1>2. Cardinality(S) \in Nat
  BY FS_CardinalityType
<1>3. CASE x \in S
  BY <1>1, <1>2, <1>3
<1>4. CASE x \notin S
  BY <1>1, <1>2, <1>4
<1> QED BY <1>3, <1>4

\* Without one of its elements a set has fewer.
LEMMA OneLess ==
  ASSUME NEW S, IsFiniteSet(S), NEW x \in S, NEW T, T \subseteq S \ {x}
  PROVE  /\ IsFiniteSet(T) /\ Cardinality(T) \in Nat /\ Cardinality(S) \in Nat
         /\ Cardinality(T) + 1 <= Cardinality(S)
<1>1. IsFiniteSet(S \ {x}) /\ Cardinality(S \ {x}) = Cardinality(S) - 1
  BY FS_RemoveElement
<1>2. IsFiniteSet(T) /\ Cardinality(T) <= Cardinality(S \ {x})
  BY <1>1, FS_Subset
<1>3. Cardinality(S) \in Nat /\ Cardinality(T) \in Nat /\ Cardinality(S \ {x}) \in Nat
  BY <1>1, <1>2, FS_CardinalityType
<1> QED BY <1>1, <1>2, <1>3

\* A part has no more elements than the whole.
LEMMA FewerElements ==
  ASSUME NEW S, IsFiniteSet(S), NEW T, T \subseteq S
  PROVE  /\ IsFiniteSet(T) /\ Cardinality(T) \in Nat /\ Cardinality(S) \in Nat
         /\ Cardinality(T) <= Cardinality(S)
BY FS_Subset, FS_CardinalityType

-----------------------------------------------------------------------------
(***************************************************************************)
(* Steps that charge nothing.                                              *)
(***************************************************************************)
\* What such a step makes of a row, of a handler.
Fresh(k) == rows'[k].id = calls + 1 /\ calls' = calls + 1 /\ rows[k].status = "none"
RowStep(k) ==
    /\ RowOK(k)'
    /\ rows'[k].status = "reserved" =>
         Fresh(k) \/ (rows[k].status = "reserved" /\ rows'[k].id = rows[k].id)
    /\ rows[k].started # 0 =>
         \/ rows'[k].started = rows[k].started /\ rows'[k].window = rows[k].window
         \/ rows[k].started + Retention <= now
    /\ runs'[k] <= (IF rows'[k].started = 0 THEN 0 ELSE 1)
HandlerStep(h) ==
    At(h, "admitted")' =>
        \/ handler'[h] = handler[h]
        \/ /\ handler'[h].key \in Keys /\ handler'[h].zone \in Zones
           /\ handler'[h].id \in 1..calls' /\ handler'[h].since = now /\ now' = now

\* A step that charges nothing keeps the invariant, if rows and handlers step as they may.
LEMMA NothingCharged ==
  ASSUME VoiceInv, TypesInv', now <= now', calls <= calls', charges' = charges,
         \A k \in Keys : RowStep(k), \A h \in Handlers : HandlerStep(h)
  PROVE  VoiceInv'
<1>1. TypesInv /\ LedgerInv /\ RoomInv /\ now \in Nat /\ calls \in Nat /\ now' \in Nat /\ calls' \in Nat
  BY DEF VoiceInv, TypesInv
<1>2. OneRunPerIdentity'
  BY DEF OneRunPerIdentity, RowStep
<1>3. LedgerInv'
  <2>1. \A k \in Keys : RowOK(k)'
    BY DEF RowStep
  <2>2. ASSUME NEW h \in Handlers PROVE HandlerOK(h)'
    <3>1. CASE At(h, "admitted")' /\ handler'[h] = handler[h]
      BY <1>1, <3>1 DEF LedgerInv, HandlerOK, At
    <3>2. CASE At(h, "admitted")' /\ handler'[h] # handler[h]
      BY <1>1, <3>2 DEF HandlerStep, HandlerOK, TypesInv
    <3> QED BY <3>1, <3>2 DEF HandlerOK
  <2>3. ASSUME NEW c \in charges PROVE c.at \in 1..now' /\ Recorded(c)'
    <3>1. c.at \in 1..now /\ Recorded(c) /\ c.key \in Keys
      BY <1>1 DEF LedgerInv, TypesInv, ChargeSet
    <3>2. CASE c.at + Retention <= now
      BY <1>1, <3>1, <3>2, VoiceConstants DEF Recorded
    <3>3. CASE rows[c.key].started = c.at /\ rows[c.key].window = c.window
      BY <1>1, <3>1, <3>3, VoiceConstants DEF Recorded, RowStep
    <3> QED BY <1>1, <3>1, <3>2, <3>3 DEF Recorded
  <2> QED BY <2>1, <2>2, <2>3 DEF LedgerInv
<1>4. RoomInv'
  <2>1. ASSUME NEW from \in Nat PROVE Room(from)'
    <3>1. Burst(from)' = Burst(from)
      BY DEF Burst
    <3>2. Overtaken(from)' \subseteq Overtaken(from)
      <4>1. ASSUME NEW k \in Keys, NEW h \in Handlers, NEW c \in Burst(from), MayStart(h, k)',
                   handler'[h].since < c.at
            PROVE  MayStart(h, k) /\ handler[h].since < c.at
        <5>1. c.at \in 1..now
          BY <1>1 DEF LedgerInv, Burst
        <5>2. handler'[h] = handler[h] /\ At(h, "admitted")
          BY <1>1, <4>1, <5>1 DEF HandlerStep, MayStart, At
        <5>3. handler[h].id \in 1..calls
          BY <1>1, <5>2 DEF LedgerInv, HandlerOK
        <5>4. ~Fresh(k)
          BY <1>1, <4>1, <5>2, <5>3 DEF Fresh, MayStart
        <5> QED BY <4>1, <5>2, <5>4 DEF RowStep, MayStart
      <4> QED BY <3>1, <4>1 DEF Overtaken
    <3>3. Overtaken(from) \subseteq Keys /\ IsFiniteSet(Overtaken(from))
      BY VoiceConstants, FewerElements DEF Overtaken
    <3>4. Burst(from) \subseteq charges /\ IsFiniteSet(Burst(from)) /\ Cardinality(Burst(from)) \in Nat
      BY <1>1, FewerElements DEF Burst, TypesInv
    <3>5. /\ Cardinality(Overtaken(from)') \in Nat /\ Cardinality(Overtaken(from)) \in Nat
          /\ Cardinality(Overtaken(from)') <= Cardinality(Overtaken(from))
      BY <3>2, <3>3, FewerElements
    <3> QED BY <1>1, <3>1, <3>4, <3>5, VoiceConstants DEF RoomInv, Room
  <2> QED BY <2>1 DEF RoomInv
<1> QED BY <1>2, <1>3, <1>4 DEF VoiceInv

\* The invariant, unfolded for the steps.
LEMMA VoiceFacts ==
  ASSUME VoiceInv
  PROVE  /\ TypesInv /\ LedgerInv /\ RoomInv /\ OneRunPerIdentity
         /\ now \in Nat \ {0} /\ now <= now /\ calls \in Nat /\ calls <= calls
         /\ window \in DaySet \cup {NoWindow}
         /\ rows \in [Keys -> RowSet] /\ handler \in [Handlers -> HandlerSet]
         /\ charges \in SUBSET ChargeSet /\ IsFiniteSet(charges) /\ runs \in [Keys -> Nat]
         /\ \A k \in Keys : /\ rows[k] \in RowSet /\ RowOK(k) /\ runs[k] \in Nat
                            /\ runs[k] <= (IF rows[k].started = 0 THEN 0 ELSE 1)
BY DEF VoiceInv, TypesInv, LedgerInv, OneRunPerIdentity

\* The fields of a row.
LEMMA RowFields ==
  ASSUME NEW r \in RowSet
  PROVE  /\ r.status \in Statuses /\ r.window \in DaySet \cup {NoWindow} /\ r.expires \in Nat
         /\ r.started \in Nat /\ r.created \in Nat /\ r.id \in Nat
BY DEF RowSet

\* Closing a row changes its status and its expiry.
LEMMA ClosedFacts ==
  ASSUME NEW r \in RowSet, NEW status \in Statuses
  PROVE  /\ Closed(r, status) \in RowSet /\ Closed(r, status).status = status
         /\ Closed(r, status).window = r.window /\ Closed(r, status).started = r.started
         /\ Closed(r, status).id = r.id /\ Closed(r, status).created = r.created
<1>1. PICK q : q = Closed(r, status)
  OBVIOUS
<1>2. q = [r EXCEPT !.status = status, !.expires = 0]
  BY <1>1 DEF Closed
<1>3. /\ q \in RowSet /\ q.status = status /\ q.window = r.window /\ q.started = r.started
      /\ q.id = r.id /\ q.created = r.created
  BY <1>2 DEF RowSet
<1> QED BY <1>1, <1>3

\* Reclaiming closes reservations that expired and leaves the other rows.
LEMMA ReclaimedFacts ==
  ASSUME rows \in [Keys -> RowSet], NEW seen
  PROVE  /\ Reclaimed(seen) \in [Keys -> RowSet]
         /\ \A k \in Keys :
              \/ Reclaimed(seen)[k] = rows[k] /\ (rows[k].status = "reserved" => k \in LiveAt(seen))
              \/ Reclaimed(seen)[k] = Closed(rows[k], "released") /\ rows[k].status = "reserved"
<1>1. "released" \in Statuses
  BY DEF Statuses
<1>2. \A k \in Keys : rows[k] \in RowSet /\ Closed(rows[k], "released") \in RowSet
  BY <1>1, ClosedFacts
<1>3. \A k \in Keys : Reclaimed(seen)[k] =
        IF rows[k].status = "reserved" /\ k \notin LiveAt(seen) THEN Closed(rows[k], "released") ELSE rows[k]
  BY DEF Reclaimed
<1>4. Reclaimed(seen) = [k \in Keys |-> Reclaimed(seen)[k]]
  BY DEF Reclaimed
<1>5. \A k \in Keys : Reclaimed(seen)[k] \in RowSet
  BY <1>2, <1>3
<1> QED BY <1>3, <1>4, <1>5

\* A row that stays, one that is given up, and one that is written.
LEMMA KeptRow ==
  ASSUME VoiceInv, NEW k \in Keys, rows'[k] = rows[k], runs'[k] = runs[k], calls <= calls', calls' \in Nat
  PROVE  RowStep(k)
<1>1. RowOK(k)'
  BY VoiceFacts, RowFields DEF RowOK
<1> QED BY <1>1, VoiceFacts DEF RowStep

\* A row is closed by its handler or a release.
LEMMA ClosedRow ==
  ASSUME VoiceInv, NEW k \in Keys, NEW status \in Statuses, rows'[k] = Closed(rows[k], status),
         runs'[k] = runs[k], calls <= calls', calls' \in Nat, status \notin {"none", "reserved"},
         rows[k].status # "none"
  PROVE  RowStep(k)
<1>1. PICK r \in RowSet : r = rows[k]
  BY VoiceFacts
<1>2. PICK q \in RowSet : q = rows'[k]
  BY <1>1, ClosedFacts
<1>3. q.status = status /\ q.window = r.window /\ q.started = r.started /\ q.id = r.id
  BY <1>1, <1>2, ClosedFacts
<1>4. r.id <= calls /\ r.id # 0 /\ r.window \in DaySet /\ r.id \in Nat /\ calls \in Nat
  BY <1>1, VoiceFacts, RowFields DEF RowOK
<1>5. RowOK(k)'
  BY <1>2, <1>3, <1>4 DEF RowOK
<1>6. runs[k] <= (IF r.started = 0 THEN 0 ELSE 1)
  BY <1>1, VoiceFacts
<1> QED BY <1>1, <1>2, <1>3, <1>5, <1>6 DEF RowStep

\* A row may be reclaimed.
LEMMA ReclaimedRow ==
  ASSUME VoiceInv, NEW k \in Keys, NEW seen, rows'[k] = Reclaimed(seen)[k], runs'[k] = runs[k],
         calls <= calls', calls' \in Nat
  PROVE  RowStep(k)
<1>1. "released" \in Statuses /\ "released" \notin {"none", "reserved"}
  BY DEF Statuses
<1>2. CASE rows'[k] = rows[k]
  BY <1>2, KeptRow
<1>3. CASE rows'[k] = Closed(rows[k], "released") /\ rows[k].status = "reserved"
  BY <1>1, <1>3, ClosedRow
<1> QED BY <1>2, <1>3, VoiceFacts, ReclaimedFacts

\* A handler without a call is a handler.
LEMMA IdleHandler == Idle \in HandlerSet /\ Idle.step = "idle"
BY DEF Idle, HandlerSet

\* A handler ends, the others stay.
LEMMA EndSteps ==
  ASSUME VoiceInv, NEW h \in Handlers, End(h)
  PROVE  handler' \in [Handlers -> HandlerSet] /\ \A g \in Handlers : HandlerStep(g)
<1>1. handler' = [handler EXCEPT ![h] = Idle] /\ handler \in [Handlers -> HandlerSet]
  BY VoiceFacts DEF End
<1>2. \A g \in Handlers : handler'[g] = handler[g] \/ handler'[g] = Idle
  BY <1>1
<1> QED BY <1>1, <1>2, IdleHandler DEF HandlerStep, At

\* Time passes.
LEMMA ClockInv == ASSUME VoiceInv, Tick PROVE VoiceInv'
<1>1. now' = now + 1 /\ UNCHANGED <<window, rows, handler, calls, charges, runs>>
  BY DEF Tick, ledger, history
<1>2. now <= now' /\ now' \in Nat \ {0} /\ TypesInv'
  BY <1>1, VoiceFacts DEF TypesInv
<1>3. \A k \in Keys : RowStep(k)
  BY <1>1, VoiceFacts, KeptRow
<1>4. \A h \in Handlers : HandlerStep(h)
  BY <1>1 DEF HandlerStep
<1> QED BY <1>1, <1>2, <1>3, <1>4, VoiceFacts, NothingCharged

\* Nothing changes.
LEMMA StutterInv == ASSUME VoiceInv, UNCHANGED vars PROVE VoiceInv'
<1>1. UNCHANGED <<now, window, rows, handler, calls, charges, runs>>
  BY DEF vars, ledger, history
<1>2. now <= now' /\ TypesInv'
  BY <1>1, VoiceFacts DEF TypesInv
<1>3. \A k \in Keys : RowStep(k)
  BY <1>1, VoiceFacts, KeptRow
<1>4. \A h \in Handlers : HandlerStep(h)
  BY <1>1 DEF HandlerStep
<1> QED BY <1>1, <1>2, <1>3, <1>4, VoiceFacts, NothingCharged

\* The availability is asked for (087:70), which may pin another day.
LEMMA AvailabilityInv == ASSUME VoiceInv, GetAvailability PROVE VoiceInv'
<1>1. PICK zone \in Zones, seen \in ReadSince(1) : window' = Ensured(zone, seen) /\ rows' = Reclaimed(seen)
  BY DEF GetAvailability
<1>2. UNCHANGED <<now, handler, calls, charges, runs>>
  BY DEF GetAvailability, history
<1>3. seen \in Nat
  BY VoiceFacts DEF ReadSince
<1>4. window' \in DaySet \cup {NoWindow}
  BY <1>1, <1>3, VoiceFacts, EnsuredFacts
<1>5. rows' \in [Keys -> RowSet]
  BY <1>1, VoiceFacts, ReclaimedFacts
<1>6. TypesInv'
  BY <1>2, <1>4, <1>5, VoiceFacts DEF TypesInv
<1>7. \A k \in Keys : RowStep(k)
  BY <1>1, <1>2, VoiceFacts, ReclaimedRow
<1>8. \A h \in Handlers : HandlerStep(h)
  BY <1>2 DEF HandlerStep
<1> QED BY <1>2, <1>6, <1>7, <1>8, VoiceFacts, NothingCharged

\* An identity is deleted when its charges are too old to count.
LEMMA CleanUpInv == ASSUME VoiceInv, CleanUp PROVE VoiceInv'
<1>1. PICK k \in Keys, seen \in ReadSince(1) :
        /\ Over(k, seen) /\ rows' = [rows EXCEPT ![k] = NoRow] /\ runs' = [runs EXCEPT ![k] = 0]
  BY DEF CleanUp
<1>2. UNCHANGED <<now, window, handler, calls, charges>>
  BY DEF CleanUp
<1>3. seen \in Nat /\ seen <= now
  BY VoiceFacts DEF ReadSince
<1>4. /\ NoRow \in RowSet /\ NoRow.status = "none" /\ NoRow.id = 0 /\ NoRow.started = 0
  BY DEF NoRow, RowSet, Statuses
<1>5. TypesInv'
  BY <1>1, <1>2, <1>4, VoiceFacts DEF TypesInv
<1>6. ASSUME NEW j \in Keys, j # k PROVE RowStep(j)
  BY <1>1, <1>2, <1>6, VoiceFacts, KeptRow
<1>7. RowStep(k)
  <2>1. rows'[k] = NoRow /\ runs'[k] = 0
    BY <1>1, VoiceFacts
  <2>2. RowOK(k)'
    BY <1>2, <1>4, <2>1, VoiceFacts DEF RowOK
  <2>3. rows[k].started # 0 => rows[k].started + Retention <= now
    <3>1. rows[k].started \in Nat
      BY VoiceFacts, RowFields
    <3>2. rows[k].started # 0 => rows[k].started + Retention <= seen
      BY <1>1 DEF Over
    <3> QED BY <1>3, <3>1, <3>2, VoiceFacts, VoiceConstants
  <2> QED BY <1>4, <2>1, <2>2, <2>3 DEF RowStep
<1>8. \A h \in Handlers : HandlerStep(h)
  BY <1>2 DEF HandlerStep
<1> QED BY <1>2, <1>5, <1>6, <1>7, <1>8, VoiceFacts, NothingCharged

\* A handler dies: its row stays as it is.
LEMMA KillInv == ASSUME VoiceInv, NEW h \in Handlers, Kill(h) PROVE VoiceInv'
<1>1. End(h) /\ UNCHANGED <<now, window, rows, calls, charges, runs>>
  BY DEF Kill, ledger, history
<1>2. TypesInv'
  BY <1>1, VoiceFacts, EndSteps DEF TypesInv
<1>3. \A k \in Keys : RowStep(k)
  BY <1>1, VoiceFacts, KeptRow
<1> QED BY <1>1, <1>2, <1>3, VoiceFacts, EndSteps, NothingCharged

\* A release, a completion: the row of a handler is closed, or its call fails.
LEMMA CloseInv ==
  ASSUME VoiceInv, NEW h \in Handlers, End(h), UNCHANGED <<now, window, calls, charges, runs>>,
         NEW before \in Statuses, before # "none",
         NEW status \in Statuses, status \notin {"none", "reserved"}, NEW key,
         \/ rows' = rows
         \/ rows[key].status = before /\ rows' = [rows EXCEPT ![key] = Closed(@, status)]
  PROVE  VoiceInv'
<1>1. \A k \in Keys : rows'[k] = rows[k] \/ (k = key /\ rows'[k] = Closed(rows[k], status) /\ rows[k].status # "none")
  BY VoiceFacts
<1>2. \A k \in Keys : rows'[k] \in RowSet
  BY <1>1, VoiceFacts, ClosedFacts
<1>3. rows' \in [Keys -> RowSet]
  BY <1>2, VoiceFacts
<1>4. TypesInv'
  BY <1>3, VoiceFacts, EndSteps DEF TypesInv
<1>5. \A k \in Keys : RowStep(k)
  BY <1>1, VoiceFacts, KeptRow, ClosedRow
<1> QED BY <1>4, <1>5, VoiceFacts, EndSteps, NothingCharged

\* A call that fails before the provider releases its row.
LEMMA FailPreparationInv == ASSUME VoiceInv, NEW h \in Handlers, FailPreparation(h) PROVE VoiceInv'
<1>1. /\ End(h) /\ UNCHANGED <<now, window, calls, charges, runs>>
      /\ \/ rows' = rows
         \/ /\ rows[handler[h].key].status = "reserved"
            /\ rows' = [rows EXCEPT ![handler[h].key] = Closed(@, "released")]
  BY DEF FailPreparation, history
<1>2. "reserved" \in Statuses /\ "released" \in Statuses
  BY DEF Statuses
<1> QED BY <1>1, <1>2, CloseInv

\* A call that ends stores its outcome.
LEMMA CompleteInv == ASSUME VoiceInv, NEW h \in Handlers, Complete(h) PROVE VoiceInv'
<1>1. /\ End(h) /\ UNCHANGED <<now, window, calls, charges, runs>>
      /\ \/ rows' = rows
         \/ /\ rows[handler[h].key].status = "provider_started"
            /\ rows' = [rows EXCEPT ![handler[h].key] = Closed(@, "completed")]
  BY DEF Complete, history
<1>2. "provider_started" \in Statuses /\ "completed" \in Statuses
  BY DEF Statuses
<1> QED BY <1>1, <1>2, CloseInv

\* A request is reserved, refused, or finds its row.
LEMMA ReserveWorkInv ==
  ASSUME VoiceInv, NEW h \in Handlers, NEW key \in Keys, NEW zone \in Zones, ReserveWork(h, key, zone)
  PROVE  VoiceInv'
<1>1. PICK seen \in ReadSince(1), answer \in BOOLEAN :
        /\ Reserve(key, zone, seen, answer)
        /\ \/ answer /\ handler' = [handler EXCEPT ![h] =
                [step |-> "admitted", key |-> key, zone |-> zone, since |-> now,
                 id |-> rows'[key].id]]
           \/ UNCHANGED handler
  BY DEF ReserveWork
<1>2. calls' = calls + 1 /\ UNCHANGED <<now, charges, runs>>
  BY DEF ReserveWork
<1>3. seen \in Nat /\ calls <= calls' /\ calls' \in Nat
  BY <1>2, VoiceFacts DEF ReadSince
<1>4. PICK w : w = Ensured(zone, seen)
  OBVIOUS
<1>5. w \in DaySet /\ window' = w
  BY <1>1, <1>3, <1>4, VoiceFacts, EnsuredFacts DEF Reserve
<1>6. \A k \in Keys : rows'[k] = Reclaimed(seen)[k] => RowStep(k)
  BY <1>2, <1>3, ReclaimedRow
<1>7. CASE rows[key].status # "none"
  <2>1. answer = (key \in LiveAt(seen)) /\ rows' = Reclaimed(seen)
    BY <1>1, <1>7 DEF Reserve
  <2>2. rows' \in [Keys -> RowSet] /\ \A k \in Keys : RowStep(k)
    BY <1>6, <2>1, VoiceFacts, ReclaimedFacts
  <2>3. rows'[key].id \in 1..calls'
    <3>1. rows'[key].status # "none"
      <4>1. "released" \in Statuses
        BY DEF Statuses
      <4> QED BY <1>7, <2>1, <4>1, VoiceFacts, ReclaimedFacts, ClosedFacts
    <3>2. rows'[key].id \in Nat
      BY <2>2, RowFields
    <3> QED BY <2>2, <3>1, <3>2, <1>3 DEF RowStep, RowOK
  <2>4. handler' \in [Handlers -> HandlerSet] /\ \A g \in Handlers : HandlerStep(g)
    <3>1. PICK new : new = [step |-> "admitted", key |-> key, zone |-> zone, since |-> now,
                            id |-> rows'[key].id]
      OBVIOUS
    <3>2. new \in HandlerSet
      BY <2>3, <3>1, VoiceFacts DEF HandlerSet
    <3>3. \A g \in Handlers : handler'[g] = handler[g] \/ handler'[g] = new
      BY <1>1, <3>1, VoiceFacts
    <3>4. handler' \in [Handlers -> HandlerSet]
      BY <1>1, <3>1, <3>2, VoiceFacts
    <3> QED BY <1>2, <2>3, <3>1, <3>3, <3>4 DEF HandlerStep
  <2>5. TypesInv'
    BY <1>2, <1>3, <1>5, <2>2, <2>4, VoiceFacts DEF TypesInv
  <2> QED BY <1>2, <1>3, <2>2, <2>4, <2>5, VoiceFacts, NothingCharged
<1>8. CASE rows[key].status = "none"
  <2>1. PICK row : row = [NoRow EXCEPT !.window = w, !.created = seen, !.id = calls + 1]
    OBVIOUS
  <2>2. PICK new : new = IF answer THEN [row EXCEPT !.status = "reserved", !.expires = seen + Lease]
                         ELSE [row EXCEPT !.status = "refused"]
    OBVIOUS
  <2>3. rows' = [Reclaimed(seen) EXCEPT ![key] = new]
    BY <1>1, <1>4, <1>8, <2>1, <2>2 DEF Reserve
  <2>4. /\ row = [status |-> "none", window |-> w, expires |-> 0, started |-> 0, created |-> seen,
                  id |-> calls + 1]
    BY <2>1 DEF NoRow
  <2>5. /\ new \in RowSet /\ new.status \in {"reserved", "refused"} /\ new.started = 0
        /\ new.id = calls + 1 /\ new.window = w
    <3>1. seen + Lease \in Nat /\ calls + 1 \in Nat /\ w \in DaySet \cup {NoWindow}
      BY <1>3, <1>5, VoiceConstants, VoiceFacts
    <3>2. CASE answer
      <4>1. new = [status |-> "reserved", window |-> w, expires |-> seen + Lease, started |-> 0,
                   created |-> seen, id |-> calls + 1]
        BY <2>2, <2>4, <3>2
      <4> QED BY <1>3, <3>1, <4>1 DEF RowSet, Statuses
    <3>3. CASE ~answer
      <4>1. new = [status |-> "refused", window |-> w, expires |-> 0, started |-> 0,
                   created |-> seen, id |-> calls + 1]
        BY <2>2, <2>4, <3>3
      <4> QED BY <1>3, <3>1, <4>1 DEF RowSet, Statuses
    <3> QED BY <3>2, <3>3
  <2>6. /\ rows' \in [Keys -> RowSet] /\ rows'[key] = new
        /\ \A k \in Keys : k # key => rows'[k] = Reclaimed(seen)[k]
    BY <2>3, <2>5, VoiceFacts, ReclaimedFacts
  <2>7. RowStep(key)
    <3>1. rows[key].started = 0
      BY <1>8, VoiceFacts DEF RowOK
    <3>2. RowOK(key)'
      BY <1>2, <1>5, <2>5, <2>6, VoiceFacts DEF RowOK
    <3>3. runs'[key] <= 0
      BY <1>2, <3>1, VoiceFacts
    <3> QED BY <1>2, <1>8, <2>5, <2>6, <3>1, <3>2, <3>3 DEF RowStep, Fresh
  <2>8. \A k \in Keys : RowStep(k)
    BY <1>6, <2>6, <2>7
  <2>9. handler' \in [Handlers -> HandlerSet] /\ \A g \in Handlers : HandlerStep(g)
    <3>1. PICK made : made = [step |-> "admitted", key |-> key, zone |-> zone, since |-> now,
                              id |-> rows'[key].id]
      OBVIOUS
    <3>2. made \in HandlerSet /\ rows'[key].id \in 1..calls'
      BY <1>2, <2>5, <2>6, <3>1, VoiceFacts DEF HandlerSet
    <3>3. \A g \in Handlers : handler'[g] = handler[g] \/ handler'[g] = made
      BY <1>1, <3>1, VoiceFacts
    <3>4. handler' \in [Handlers -> HandlerSet]
      BY <1>1, <3>1, <3>2, VoiceFacts
    <3> QED BY <1>2, <3>1, <3>2, <3>3, <3>4 DEF HandlerStep
  <2>10. TypesInv'
    BY <1>2, <1>3, <1>5, <2>6, <2>9, VoiceFacts DEF TypesInv
  <2> QED BY <1>2, <1>3, <2>8, <2>9, <2>10, VoiceFacts, NothingCharged
<1> QED BY <1>7, <1>8

-----------------------------------------------------------------------------
(***************************************************************************)
(* The start.                                                              *)
(***************************************************************************)
LEMMA StartWindowFacts ==
  ASSUME VoiceInv, NEW key \in Keys, NEW zone \in Zones, NEW seen \in Nat, rows[key].status # "none"
  PROVE  StartWindow(key, zone, seen) \in DaySet /\ In(seen, StartWindow(key, zone, seen))
<1>1. rows[key].window \in DaySet
  BY VoiceFacts DEF RowOK
<1>2. PICK z \in Zones : z = IF In(seen, rows[key].window) THEN rows[key].window.zone ELSE zone
  BY <1>1, DaySetFacts
<1>3. StartWindow(key, zone, seen) = Ensured(z, seen)
  BY <1>2 DEF StartWindow
<1> QED BY <1>3, VoiceFacts, EnsuredFacts

\* The day a start is charged to was pinned for some zone at that reading.
LEMMA StartZone ==
  ASSUME VoiceInv, NEW key \in Keys, NEW zone \in Zones, NEW seen \in Nat, rows[key].status # "none"
  PROVE  \E z \in Zones : StartWindow(key, zone, seen) = Ensured(z, seen)
<1>1. rows[key].window \in DaySet
  BY VoiceFacts DEF RowOK
<1>2. PICK z \in Zones : z = IF In(seen, rows[key].window) THEN rows[key].window.zone ELSE zone
  BY <1>1, DaySetFacts
<1> QED BY <1>2 DEF StartWindow

\* What a handler that was admitted knows of its row.
LEMMA StarterFacts ==
  ASSUME VoiceInv, NEW h \in Handlers, At(h, "admitted"), Found(h)
  PROVE  /\ handler[h].key \in Keys /\ handler[h].zone \in Zones
         /\ handler[h].since \in 1..now /\ handler[h].id \in 1..calls
         /\ rows[handler[h].key].id = handler[h].id
<1> QED BY VoiceFacts DEF Found, LedgerInv, HandlerOK

\* A start that is refused.
LEMMA RefusedInv ==
  ASSUME VoiceInv, NEW h \in Handlers, End(h), NEW key \in Keys, NEW zone \in Zones, NEW seen \in Nat,
         MarkProviderStarted(key, zone, seen, FALSE), rows[key].id # 0,
         UNCHANGED <<now, calls, charges, runs>>
  PROVE  VoiceInv'
<1>1. PICK w : w = StartWindow(key, zone, seen)
  OBVIOUS
<1>2. PICK new : new = [Closed(rows[key], "refused") EXCEPT !.window = w]
  OBVIOUS
<1>3. /\ window' = w
      /\ \/ key \in LiveAt(seen) /\ rows' = [Reclaimed(seen) EXCEPT ![key] = new]
         \/ rows' = Reclaimed(seen)
  BY <1>1, <1>2 DEF MarkProviderStarted
<1>4. w \in DaySet /\ rows[key].status # "none" /\ rows \in [Keys -> RowSet]
  <2>1. rows[key].status # "none" /\ rows \in [Keys -> RowSet]
    BY VoiceFacts DEF RowOK
  <2> QED BY <1>1, <2>1, StartWindowFacts
<1>5. \A k \in Keys : rows'[k] = Reclaimed(seen)[k] => RowStep(k)
  BY VoiceFacts, ReclaimedRow
<1>6. CASE rows' = Reclaimed(seen)
  <2>1. TypesInv'
    BY <1>3, <1>4, <1>6, VoiceFacts, EndSteps, ReclaimedFacts DEF TypesInv
  <2> QED BY <1>5, <1>6, <2>1, VoiceFacts, EndSteps, NothingCharged
<1>7. CASE key \in LiveAt(seen) /\ rows' = [Reclaimed(seen) EXCEPT ![key] = new]
  <2>1. PICK r \in RowSet : r = rows[key]
    BY <1>4
  <2>2. r.status = "reserved" /\ r.started = 0 /\ r.id <= calls /\ r.id # 0 /\ calls \in Nat
    BY <1>7, <2>1, VoiceFacts DEF LiveAt, RowOK
  <2>3. "refused" \in Statuses
    BY DEF Statuses
  <2>4. PICK f \in RowSet : f = Closed(r, "refused")
    BY <2>3, ClosedFacts
  <2>5. f.status = "refused" /\ f.started = 0 /\ f.id = r.id
    BY <2>2, <2>3, <2>4, ClosedFacts
  <2>6. new = [f EXCEPT !.window = w]
    BY <1>2, <2>1, <2>4
  <2>7. new \in RowSet /\ new.status = "refused" /\ new.started = 0 /\ new.id = r.id /\ new.window = w
    BY <1>4, <2>5, <2>6 DEF RowSet
  <2>8. /\ rows' \in [Keys -> RowSet] /\ rows'[key] = new
        /\ \A k \in Keys : k # key => rows'[k] = Reclaimed(seen)[k]
    BY <1>4, <1>7, <2>7, ReclaimedFacts
  <2>9. RowStep(key)
    <3>1. RowOK(key)'
      BY <1>4, <2>2, <2>7, <2>8 DEF RowOK
    <3>2. runs'[key] <= 0
      BY <2>1, <2>2, VoiceFacts
    <3> QED BY <2>1, <2>2, <2>7, <2>8, <3>1, <3>2 DEF RowStep
  <2>10. TypesInv'
    BY <1>3, <1>4, <2>8, VoiceFacts, EndSteps DEF TypesInv
  <2> QED BY <1>5, <2>8, <2>9, <2>10, VoiceFacts, EndSteps, NothingCharged
<1> QED BY <1>3, <1>6, <1>7

\* The charges whose stamps count at an instant no call can come before are in
\* their rows.
LEMMA RecentCharges ==
  ASSUME VoiceInv, NEW seen \in Nat, seen + MaxWait >= now, NEW C, C \subseteq charges,
         \A c \in C : c.at + Retention > seen + MaxWait
  PROVE  /\ \A c \in C : c.key \in Keys /\ rows[c.key].started = c.at /\ c.at # 0
         /\ \A c, d \in C : c.key = d.key => c = d
<1>1. ASSUME NEW c \in C
      PROVE  /\ c.key \in Keys /\ rows[c.key].started = c.at /\ c.at # 0
             /\ c = [key |-> c.key, at |-> rows[c.key].started, window |-> rows[c.key].window]
  <2>1. c \in ChargeSet /\ c.at \in 1..now /\ Recorded(c)
    BY VoiceFacts DEF LedgerInv
  <2>2. c.at + Retention > now
    BY <2>1, VoiceFacts, VoiceConstants
  <2>3. c.at \in Nat /\ c.key \in Keys /\ c = [key |-> c.key, at |-> c.at, window |-> c.window]
    BY <2>1 DEF ChargeSet
  <2>4. rows[c.key].started = c.at /\ rows[c.key].window = c.window
    BY <2>1, <2>2, <2>3, VoiceFacts, VoiceConstants DEF Recorded
  <2> QED BY <2>1, <2>3, <2>4, VoiceFacts
<1>2. \A c, d \in C : c.key = d.key => c = d
  BY <1>1
<1> QED BY <1>1, <1>2

\* A start that finds room.
LEMMA ChargedInv ==
  ASSUME VoiceInv, NEW h \in Handlers, At(h, "admitted"), NEW key \in Keys, NEW zone \in Zones,
         handler[h].key = key, Found(h), NEW seen \in handler[h].since..now, seen + MaxWait >= now,
         NEW w, w = StartWindow(key, zone, seen), window' = w,
         key \in LiveAt(seen), ~Full(w, seen, Keys \ {key}), Starts(key, seen, w),
         NEW new, new = [key |-> key, at |-> seen, window |-> w], charges' = charges \cup {new},
         \/ /\ handler' = [handler EXCEPT ![h].step = "provider"]
            /\ runs' = [runs EXCEPT ![key] = @ + 1]
         \/ End(h) /\ UNCHANGED runs,
         UNCHANGED <<now, calls>>
  PROVE  VoiceInv'
<1>1. /\ TypesInv /\ LedgerInv /\ RoomInv /\ now \in Nat \ {0} /\ calls \in Nat
      /\ rows \in [Keys -> RowSet] /\ handler \in [Handlers -> HandlerSet]
  BY VoiceFacts
<1>2. /\ handler[h].since \in 1..now /\ handler[h].id \in 1..calls /\ rows[key].id = handler[h].id
      /\ seen \in Nat \ {0} /\ seen <= now /\ handler[h].since <= seen
  BY <1>1, StarterFacts
<1>3. PICK r \in RowSet : r = rows[key]
  BY <1>1
<1>4. r.status = "reserved" /\ r.started = 0 /\ r.id \in 1..calls /\ runs[key] = 0
  BY <1>1, <1>2, <1>3, VoiceFacts DEF LiveAt, RowOK
<1>5. w \in DaySet /\ In(seen, w)
  BY <1>2, <1>3, <1>4, StartWindowFacts
<1>6. PICK q : q = rows'[key]
  OBVIOUS
<1>7. /\ q \in RowSet /\ q.status = "provider_started" /\ q.started = seen /\ q.window = w /\ q.id = r.id
      /\ rows' \in [Keys -> RowSet]
      /\ \A k \in Keys : k # key => rows'[k] = Reclaimed(seen)[k]
  <2>1. "provider_started" \in Statuses
    BY DEF Statuses
  <2>2. PICK f \in RowSet : f = Closed(r, "provider_started")
    BY <2>1, ClosedFacts
  <2>3. f.status = "provider_started" /\ f.id = r.id
    BY <2>1, <2>2, ClosedFacts
  <2>4. PICK made : made = [f EXCEPT !.window = w, !.started = seen]
    OBVIOUS
  <2>5. rows' = [Reclaimed(seen) EXCEPT ![key] = made]
    BY <1>3, <2>2, <2>4 DEF Starts
  <2>6. /\ made \in RowSet /\ made.status = "provider_started" /\ made.started = seen
        /\ made.window = w /\ made.id = r.id
    BY <1>2, <1>5, <2>3, <2>4 DEF RowSet
  <2>7. rows' \in [Keys -> RowSet] /\ rows'[key] = made
        /\ \A k \in Keys : k # key => rows'[k] = Reclaimed(seen)[k]
    BY <1>1, <2>5, <2>6, ReclaimedFacts
  <2> QED BY <1>6, <2>6, <2>7
<1>8. /\ handler' \in [Handlers -> HandlerSet] /\ runs' \in [Keys -> Nat] /\ runs'[key] <= 1
      /\ \A g \in Handlers : At(g, "admitted")' => handler'[g] = handler[g] /\ At(g, "admitted")
      /\ \A k \in Keys : k # key => runs'[k] = runs[k]
  <2>1. CASE handler' = [handler EXCEPT ![h].step = "provider"] /\ runs' = [runs EXCEPT ![key] = @ + 1]
    <3>1. handler' \in [Handlers -> HandlerSet]
      BY <1>1, <2>1 DEF HandlerSet
    <3>2. \A g \in Handlers : At(g, "admitted")' => handler'[g] = handler[g] /\ At(g, "admitted")
      BY <1>1, <2>1 DEF At
    <3>3. /\ runs' \in [Keys -> Nat] /\ runs'[key] <= 1
          /\ \A k \in Keys : k # key => runs'[k] = runs[k]
      BY <1>4, <2>1, VoiceFacts
    <3> QED BY <3>1, <3>2, <3>3
  <2>2. CASE End(h) /\ UNCHANGED runs
    <3>1. handler' = [handler EXCEPT ![h] = Idle]
      BY <2>2 DEF End
    <3>2. handler' \in [Handlers -> HandlerSet]
      BY <2>2, EndSteps
    <3>3. \A g \in Handlers : At(g, "admitted")' => handler'[g] = handler[g] /\ At(g, "admitted")
      BY <1>1, <3>1, IdleHandler DEF At
    <3> QED BY <1>4, <2>2, <3>2, <3>3, VoiceFacts
  <2> QED BY <2>1, <2>2
<1>9. new \in ChargeSet /\ new.key = key /\ new.at = seen /\ new.window = w
  BY <1>2, <1>5 DEF ChargeSet
<1>10. IsFiniteSet(charges')
  BY <1>1, OneMore DEF TypesInv
<1>11. TypesInv'
  BY <1>1, <1>5, <1>7, <1>8, <1>9, <1>10 DEF TypesInv
<1>12. \A k \in Keys : k # key =>
         /\ rows'[k].status = "reserved" => rows'[k] = rows[k] /\ k \in LiveAt(seen)
         /\ rows'[k].started = rows[k].started /\ rows'[k].window = rows[k].window
         /\ RowOK(k)'
  <2>1. ASSUME NEW k \in Keys, k # key
        PROVE  /\ rows'[k].status = "reserved" => rows'[k] = rows[k] /\ k \in LiveAt(seen)
               /\ rows'[k].started = rows[k].started /\ rows'[k].window = rows[k].window
               /\ RowOK(k)'
    <3>1. rows'[k] = Reclaimed(seen)[k] /\ rows[k] \in RowSet
      BY <1>1, <1>7, <2>1
    <3>2. "released" \in Statuses
      BY DEF Statuses
    <3>3. RowStep(k)
      BY <1>1, <1>8, <2>1, <3>1, VoiceFacts, ReclaimedRow
    <3> QED BY <1>1, <3>1, <3>2, <3>3, ReclaimedFacts, ClosedFacts DEF RowStep
  <2> QED BY <2>1
<1>13. LedgerInv'
  <2>1. \A k \in Keys : RowOK(k)'
    <3>1. RowOK(key)'
      BY <1>1, <1>4, <1>5, <1>6, <1>7 DEF RowOK
    <3> QED BY <1>12, <3>1
  <2>2. \A g \in Handlers : HandlerOK(g)'
    BY <1>1, <1>8 DEF LedgerInv, HandlerOK
  <2>3. ASSUME NEW c \in charges' PROVE c.at \in 1..now' /\ Recorded(c)'
    <3>1. CASE c = new
      BY <1>2, <1>6, <1>7, <1>9, <3>1 DEF Recorded
    <3>2. CASE c \in charges
      <4>1. c.at \in 1..now /\ Recorded(c) /\ c.key \in Keys
        BY <1>1, <3>2 DEF LedgerInv, TypesInv, ChargeSet
      <4>2. CASE c.at + Retention <= now
        BY <4>1, <4>2 DEF Recorded
      <4>3. CASE rows[c.key].started = c.at /\ rows[c.key].window = c.window
        <5>1. c.key # key
          BY <1>3, <1>4, <4>1, <4>3
        <5> QED BY <1>12, <4>1, <4>3, <5>1 DEF Recorded
      <4> QED BY <4>1, <4>2, <4>3 DEF Recorded
    <3> QED BY <3>1, <3>2
  <2> QED BY <2>1, <2>2, <2>3 DEF LedgerInv
<1>14. OneRunPerIdentity'
  BY <1>2, <1>6, <1>7, <1>8, <1>12, VoiceFacts DEF OneRunPerIdentity
<1>15. \A k \in Keys, g \in Handlers : MayStart(g, k)' =>
         k # key /\ k \in LiveAt(seen) /\ MayStart(g, k) /\ handler'[g] = handler[g]
  BY <1>6, <1>7, <1>8, <1>12 DEF MayStart
<1>16. ASSUME NEW from \in Nat PROVE Room(from)'
  <2>1. /\ IsFiniteSet(Burst(from)) /\ IsFiniteSet(Overtaken(from))
        /\ Cardinality(Burst(from)) \in Nat /\ Cardinality(Overtaken(from)) \in Nat
        /\ Cardinality(Burst(from)) + Cardinality(Overtaken(from)) <= BurstLimit
    <3>1. Burst(from) \subseteq charges /\ Overtaken(from) \subseteq Keys
      BY DEF Burst, Overtaken
    <3> QED BY <1>1, <3>1, FewerElements, VoiceConstants DEF RoomInv, Room, TypesInv
  <2>2. CASE seen \notin from..(from + BurstWindow - 1)
    <3>1. Burst(from)' = Burst(from)
      BY <1>9, <2>2 DEF Burst
    <3>2. Overtaken(from)' \subseteq Overtaken(from)
      BY <1>15, <3>1 DEF Overtaken
    <3>3. Cardinality(Overtaken(from)') <= Cardinality(Overtaken(from)) /\ Cardinality(Overtaken(from)') \in Nat
      BY <2>1, <3>2, FewerElements
    <3> QED BY <2>1, <3>1, <3>3, VoiceConstants DEF Room
  <2>3. CASE seen \in from..(from + BurstWindow - 1)
    <3>1. Burst(from)' = Burst(from) \cup {new}
      BY <1>9, <2>3 DEF Burst
    <3>2. /\ Cardinality(Burst(from)') \in Nat
          /\ Cardinality(Burst(from)') <= Cardinality(Burst(from)) + 1
      BY <2>1, <3>1, OneMore
    <3>3. CASE \E c \in Burst(from) : c.at > seen
      <4>1. key \in Overtaken(from)
        <5>1. MayStart(h, key)
          BY <1>2, <1>3, <1>4 DEF MayStart
        <5>2. PICK c \in Burst(from) : c.at > seen
          BY <3>3
        <5>3. c.at \in Nat
          BY <1>1 DEF LedgerInv, Burst
        <5>4. handler[h].since < c.at
          BY <1>2, <5>2, <5>3
        <5> QED BY <5>1, <5>4 DEF Overtaken
      <4>2. Overtaken(from)' \subseteq Overtaken(from) \ {key}
        <5>1. ASSUME NEW k \in Keys, NEW g \in Handlers, NEW c \in Burst(from)', MayStart(g, k)',
                     handler'[g].since < c.at
              PROVE  k # key /\ \E d \in Burst(from) : MayStart(g, k) /\ handler[g].since < d.at
          <6>1. k # key /\ MayStart(g, k) /\ handler'[g] = handler[g]
            BY <1>15, <5>1
          <6>2. CASE c \in Burst(from)
            BY <5>1, <6>1, <6>2
          <6>3. CASE c = new
            <7>1. PICK d \in Burst(from) : d.at > seen
              BY <3>3
            <7>2. d.at \in Nat /\ handler[g].since \in Nat
              BY <1>1 DEF LedgerInv, Burst, HandlerSet
            <7>3. handler[g].since < d.at
              BY <1>2, <1>9, <5>1, <6>1, <6>3, <7>1, <7>2
            <7> QED BY <6>1, <7>3
          <6> QED BY <3>1, <6>2, <6>3
        <5> QED BY <5>1 DEF Overtaken
      <4>3. Cardinality(Overtaken(from)') \in Nat
            /\ Cardinality(Overtaken(from)') + 1 <= Cardinality(Overtaken(from))
        BY <2>1, <4>1, <4>2, OneLess
      <4> QED BY <2>1, <3>2, <4>3, VoiceConstants DEF Room
    <3>4. CASE ~\E c \in Burst(from) : c.at > seen
      <4> DEFINE A == {k \in Keys : /\ rows[k].started # 0 /\ rows[k].started <= seen
                                    /\ rows[k].started + BurstWindow > seen}
                 B == LiveAt(seen) \cap (Keys \ {key})
      <4>1. ~(Cardinality(A) + Cardinality(B) >= BurstLimit)
        BY DEF Full, BurstFull
      <4>2. A \subseteq Keys /\ B \subseteq Keys
        OBVIOUS
      <4>3. /\ IsFiniteSet(A) /\ IsFiniteSet(B) /\ Cardinality(A) \in Nat /\ Cardinality(B) \in Nat
        <5> HIDE DEF A, B
        <5> QED BY <4>2, FewerElements, VoiceConstants
      <4>4. ASSUME NEW c \in Burst(from)
            PROVE  c.at + BurstWindow > seen /\ c.at <= seen /\ c.at + Retention > seen + MaxWait
        <5>1. c.at \in Nat /\ c.at \in from..(from + BurstWindow - 1)
          BY <1>1 DEF LedgerInv, Burst
        <5>2. c.at + BurstWindow > seen /\ c.at <= seen
          BY <1>2, <2>3, <3>4, <5>1, VoiceConstants
        <5> QED BY <1>2, <5>1, <5>2, VoiceConstants
      <4>5. Burst(from) \subseteq charges
        BY DEF Burst
      <4>6. /\ \A c \in Burst(from) : c.key \in Keys /\ rows[c.key].started = c.at /\ c.at # 0
            /\ \A c, d \in Burst(from) : c.key = d.key => c = d
        BY <1>2, <4>4, <4>5, RecentCharges
      <4>7. \A c \in Burst(from) : c.key \in A
        BY <4>4, <4>6
      <4>8. Overtaken(from)' \subseteq B
        BY <1>15 DEF Overtaken
      <4> HIDE DEF A, B
      <4>9. Cardinality(Burst(from)) <= Cardinality(A)
        BY <4>3, <4>6, <4>7, ChargesByKey
      <4>10. Cardinality(Overtaken(from)') <= Cardinality(B) /\ Cardinality(Overtaken(from)') \in Nat
        BY <4>3, <4>8, FewerElements
      <4> QED BY <2>1, <3>2, <4>1, <4>3, <4>9, <4>10, VoiceConstants DEF Room
    <3> QED BY <3>3, <3>4
  <2> QED BY <2>2, <2>3
<1>17. RoomInv'
  BY <1>16 DEF RoomInv
<1> QED BY <1>11, <1>13, <1>14, <1>17 DEF VoiceInv

\* voice_ai_mark_provider_started_at (087:149): the start is refused, or charged.
LEMMA MarkStartInv == ASSUME VoiceInv, NEW h \in Handlers, MarkStart(h) PROVE VoiceInv'
<1>1. /\ At(h, "admitted") /\ Found(h) /\ UNCHANGED <<now, calls>>
  BY DEF MarkStart
<1>2. PICK key \in Keys, zone \in Zones : key = handler[h].key /\ zone = handler[h].zone
  BY <1>1, StarterFacts
<1>3. PICK seen \in ReadSince(handler[h].since), answer \in BOOLEAN :
        /\ MarkProviderStarted(key, zone, seen, answer)
        /\ charges' = IF answer
                      THEN charges \cup {[key |-> key, at |-> seen, window |-> window']}
                      ELSE charges
        /\ \/ /\ answer
              /\ handler' = [handler EXCEPT ![h].step = "provider"]
              /\ runs' = [runs EXCEPT ![key] = @ + 1]
           \/ End(h) /\ UNCHANGED runs
  BY <1>2 DEF MarkStart
<1>4. /\ seen \in Nat /\ seen \in handler[h].since..now /\ seen + MaxWait >= now
      /\ rows[key].id # 0
  BY <1>1, <1>2, StarterFacts, VoiceFacts DEF ReadSince
<1>5. CASE answer
  <2>1. PICK w : w = StartWindow(key, zone, seen)
    OBVIOUS
  <2>2. /\ window' = w /\ key \in LiveAt(seen) /\ ~Full(w, seen, Keys \ {key}) /\ Starts(key, seen, w)
    BY <1>3, <1>5, <2>1 DEF MarkProviderStarted
  <2>3. PICK new : new = [key |-> key, at |-> seen, window |-> w]
    OBVIOUS
  <2>4. /\ charges' = charges \cup {new}
        /\ \/ /\ handler' = [handler EXCEPT ![h].step = "provider"]
              /\ runs' = [runs EXCEPT ![key] = @ + 1]
           \/ End(h) /\ UNCHANGED runs
    BY <1>3, <1>5, <2>2, <2>3
  <2> QED BY <1>1, <1>2, <1>4, <2>1, <2>2, <2>3, <2>4, ChargedInv
<1>6. CASE ~answer
  <2>1. MarkProviderStarted(key, zone, seen, FALSE) /\ End(h) /\ UNCHANGED <<charges, runs>>
    <3>1. answer = FALSE
      BY <1>6
    <3> QED BY <1>3, <3>1
  <2> QED BY <1>1, <1>4, <2>1, RefusedInv
<1> QED BY <1>5, <1>6

-----------------------------------------------------------------------------
(***************************************************************************)
(* The invariant, and what it says of the starts.                          *)
(***************************************************************************)
LEMMA VoiceStart == VoiceInit => VoiceInv
<1> SUFFICES ASSUME VoiceInit PROVE VoiceInv
  OBVIOUS
<1>1. /\ now = 1 /\ window = NoWindow /\ rows = [k \in Keys |-> NoRow]
      /\ handler = [h \in Handlers |-> Idle] /\ calls = 0 /\ charges = {} /\ runs = [k \in Keys |-> 0]
  BY DEF VoiceInit
<1>2. /\ NoRow \in RowSet /\ NoRow.status = "none" /\ NoRow.id = 0 /\ NoRow.started = 0
  BY DEF NoRow, RowSet, Statuses
<1>3. TypesInv
  BY <1>1, <1>2, IdleHandler, FS_EmptySet DEF TypesInv
<1>4. LedgerInv
  BY <1>1, <1>2, IdleHandler DEF LedgerInv, RowOK, HandlerOK, At
<1>5. OneRunPerIdentity
  BY <1>1, <1>2 DEF OneRunPerIdentity
<1>6. RoomInv
  <2>1. ASSUME NEW from \in Nat PROVE Room(from)
    <3>1. Burst(from) = {} /\ Overtaken(from) = {}
      BY <1>1 DEF Burst, Overtaken
    <3> QED BY <3>1, FS_EmptySet, VoiceConstants DEF Room
  <2> QED BY <2>1 DEF RoomInv
<1> QED BY <1>3, <1>4, <1>5, <1>6 DEF VoiceInv

\* Every step keeps the invariant.
LEMMA VoiceSteps == VoiceInv /\ [VoiceNext]_vars => VoiceInv'
<1> SUFFICES ASSUME VoiceInv, [VoiceNext]_vars PROVE VoiceInv'
  OBVIOUS
<1>1. CASE Tick
  BY <1>1, ClockInv
<1>2. CASE GetAvailability
  BY <1>2, AvailabilityInv
<1>3. CASE CleanUp
  BY <1>3, CleanUpInv
<1>4. ASSUME NEW h \in Handlers, NEW key \in Keys, NEW zone \in Zones, ReserveWork(h, key, zone)
      PROVE  VoiceInv'
  BY <1>4, ReserveWorkInv
<1>5. ASSUME NEW h \in Handlers, FailPreparation(h) PROVE VoiceInv'
  BY <1>5, FailPreparationInv
<1>6. ASSUME NEW h \in Handlers, MarkStart(h) PROVE VoiceInv'
  BY <1>6, MarkStartInv
<1>7. ASSUME NEW h \in Handlers, Complete(h) PROVE VoiceInv'
  BY <1>7, CompleteInv
<1>8. ASSUME NEW h \in Handlers, Kill(h) PROVE VoiceInv'
  BY <1>8, KillInv
<1>9. CASE UNCHANGED vars
  BY <1>9, StutterInv
<1> QED BY <1>1, <1>2, <1>3, <1>4, <1>5, <1>6, <1>7, <1>8, <1>9 DEF VoiceNext

\* The ledger's inductive invariant holds in every state.
LEMMA VoiceAlways == VoiceSpec => []VoiceInv
<1> QED BY VoiceStart, VoiceSteps, PTL DEF VoiceSpec

\* An identity runs the provider at most once and only when it was charged,
\* however calls are repeated, answers lost and keys used again.
THEOREM IdentitiesRunOnce == VoiceSpec => []OneRunPerIdentity
<1>1. VoiceInv => OneRunPerIdentity
  BY VoiceFacts
<1> QED BY <1>1, VoiceAlways, PTL

\* No burst window, wherever it lies, holds more starts than the limit, although
\* starts carry stamps that were read before the lock and out of order.
THEOREM BurstsAreLimited == VoiceSpec => []BurstLimited
<1>1. VoiceInv => BurstLimited
  <2> SUFFICES ASSUME VoiceInv, NEW from \in 1..now
               PROVE  Cardinality({c \in charges : c.at \in from..(from + BurstWindow - 1)}) <= BurstLimit
    BY DEF BurstLimited
  <2>1. from \in Nat
    BY VoiceFacts
  <2>2. Room(from)
    BY <2>1, VoiceFacts DEF RoomInv
  <2>3. Cardinality(Burst(from)) \in Nat /\ Cardinality(Overtaken(from)) \in Nat
    <3>1. Burst(from) \subseteq charges /\ Overtaken(from) \subseteq Keys
      BY DEF Burst, Overtaken
    <3> QED BY <3>1, VoiceFacts, FewerElements, VoiceConstants
  <2>4. Cardinality(Burst(from)) <= BurstLimit
    BY <2>2, <2>3, VoiceConstants DEF Room
  <2> QED BY <2>4 DEF Burst
<1> QED BY <1>1, VoiceAlways, PTL

-----------------------------------------------------------------------------
(***************************************************************************)
(* The days, where all zones share their midnight or calls do not wait.    *)
(***************************************************************************)
SameMidnight == \A y, z \in Zones : Midnight[y] = Midnight[z]

\* Two days with an instant in common are one.
LEMMA DaysApart ==
  ASSUME SameMidnight, NEW v \in DaySet, NEW w \in DaySet, NEW at \in Nat, In(at, v), In(at, w)
  PROVE  \A t : In(t, v) <=> In(t, w)
<1>1. PICK p \in Nat : v.from = p * Day + Midnight[v.zone]
  BY DaySetFacts
<1>2. PICK q \in Nat : w.from = q * Day + Midnight[w.zone]
  BY DaySetFacts
<1>3. /\ v.zone \in Zones /\ w.zone \in Zones /\ v.to = v.from + Day /\ w.to = w.from + Day
      /\ v.from \in Nat /\ w.from \in Nat
  BY DaySetFacts
<1>4. PICK m \in Nat : m = Midnight[v.zone] /\ m = Midnight[w.zone]
  BY <1>3, VoiceConstants DEF SameMidnight
<1>5. /\ v.from <= at + Day /\ at + Day < v.from + Day
      /\ w.from <= at + Day /\ at + Day < w.from + Day
  BY <1>3 DEF In
<1>6. ASSUME NEW i \in Nat, NEW j \in Nat, i < j PROVE i * Day + Day <= j * Day
  <2>1. PICK e \in Nat : j = i + 1 + e
    <3>1. j - i - 1 \in Nat /\ j = i + 1 + (j - i - 1)
      BY <1>6
    <3> QED BY <3>1
  <2>2. j * Day = i * Day + Day + e * Day /\ e * Day \in Nat /\ i * Day \in Nat
    BY <2>1, VoiceConstants
  <2> QED BY <2>2, VoiceConstants
<1>7. p = q
  <2>1. p * Day \in Nat /\ q * Day \in Nat
    BY VoiceConstants
  <2>2. ~(p < q)
    <3>1. SUFFICES ASSUME p < q PROVE FALSE
      OBVIOUS
    <3>2. p * Day + Day <= q * Day
      BY <1>6, <3>1
    <3> QED BY <1>1, <1>2, <1>3, <1>4, <1>5, <2>1, <3>2, VoiceConstants
  <2>3. ~(q < p)
    <3>1. SUFFICES ASSUME q < p PROVE FALSE
      OBVIOUS
    <3>2. q * Day + Day <= p * Day
      BY <1>6, <3>1
    <3> QED BY <1>1, <1>2, <1>3, <1>4, <1>5, <2>1, <3>2, VoiceConstants
  <2> QED BY <2>2, <2>3
<1>8. v.from = w.from /\ v.to = w.to
  BY <1>1, <1>2, <1>3, <1>4, <1>7
<1> QED BY <1>8 DEF In

\* A day is not the absence of one.
LEMMA DayRecord == ASSUME NEW w \in DaySet PROVE w # NoWindow
<1>1. PICK zone \in Zones, at \in Nat : w = DayOf(zone, at)
  BY DEF DaySet
<1>2. w.from \in Nat /\ w.to \in Nat
  BY DaySetFacts, VoiceConstants
<1>3. w = [zone |-> zone, from |-> w.from, to |-> w.to]
  BY <1>1 DEF DayOf
<1>4. w \in [zone : Zones, from : Nat, to : Nat]
  BY <1>2, <1>3
<1> QED BY <1>4, VoiceAssumption

\* The days that starts were counted in have begun; one that is not over is the
\* window of the ledger.
DaysInOrder ==
    \A c \in charges :
        c.window.from <= now + Day /\ (c.window = window \/ c.window.to <= now + Day)

\* A day that has an instant of a start is the day the start is counted in.
DaysInv == SameMidnight \/ (MaxWait = 0 /\ DaysInOrder)

\* A charge of the day that is being charged was given that same day.
LEMMA DayCounted ==
  ASSUME VoiceInv, DaysInv, NEW zone \in Zones, NEW seen \in Nat, seen <= now, seen + MaxWait >= now,
         NEW w \in DaySet, In(seen, w), \E z \in Zones : w = Ensured(z, seen),
         NEW c \in charges, In(seen, c.window)
  PROVE  \A t : In(t, c.window) <=> In(t, w)
<1>1. c.window \in DaySet
  BY VoiceFacts DEF ChargeSet
<1>2. CASE SameMidnight
  BY <1>1, <1>2, DaysApart
<1>3. CASE MaxWait = 0 /\ DaysInOrder
  <2>1. seen = now
    BY <1>3, VoiceFacts
  <2>2. c.window.to > now + Day /\ c.window.to \in Nat
    BY <1>1, <2>1, DaySetFacts, VoiceConstants DEF In
  <2>3. c.window = window
    BY <1>3, <2>2, VoiceFacts, VoiceConstants DEF DaysInOrder
  <2>4. window # NoWindow
    BY <1>1, <2>3, DayRecord
  <2>5. w = window
    BY <2>3, <2>4 DEF Ensured
  <2> QED BY <2>3, <2>5
<1> QED BY <1>2, <1>3 DEF DaysInv

\* A start that finds room in its day.
LEMMA DayCharged ==
  ASSUME VoiceInv, DailyLimited, NEW key \in Keys, NEW seen \in Nat, seen <= now, seen + MaxWait >= now,
         NEW w \in DaySet, In(seen, w), ~Full(w, seen, Keys \ {key}),
         \A c \in charges : In(seen, c.window) => \A t : In(t, c.window) <=> In(t, w),
         NEW new, new = [key |-> key, at |-> seen, window |-> w], charges' = charges \cup {new}
  PROVE  DailyLimited'
<1>1. new.at = seen /\ new.window = w
  OBVIOUS
<1>2. Cardinality({d \in charges' : In(d.at, w)}) <= DailyLimit
  <2> DEFINE D == {d \in charges : In(d.at, w)}
             A == {k \in Keys : rows[k].started # 0 /\ In(rows[k].started, w)}
             B == {k \in LiveAt(seen) \cap (Keys \ {key}) :
                     rows[k].window.from = w.from /\ rows[k].window.to = w.to}
  <2>1. ~(Cardinality(A) + Cardinality(B) >= DailyLimit)
    BY DEF Full, DailyFull
  <2>2. A \subseteq Keys /\ B \subseteq Keys
    OBVIOUS
  <2>3. D \subseteq charges /\ {d \in charges' : In(d.at, w)} \subseteq D \cup {new}
    OBVIOUS
  <2>4. ASSUME NEW c \in D PROVE c.at + Retention > seen + MaxWait
    <3>1. c.at \in Nat /\ In(c.at, w)
      BY VoiceFacts DEF LedgerInv
    <3>2. w.from \in Nat /\ w.to = w.from + Day
      BY DaySetFacts
    <3>3. seen + Day < w.from + Day /\ c.at + Day >= w.from
      BY <3>1, <3>2 DEF In
    <3> QED BY <3>1, <3>2, <3>3, VoiceConstants
  <2>5. /\ \A c \in D : c.key \in Keys /\ rows[c.key].started = c.at /\ c.at # 0
        /\ \A c, d \in D : c.key = d.key => c = d
    <3>1. D \subseteq charges /\ \A c \in D : c.at + Retention > seen + MaxWait
      BY <2>3, <2>4
    <3> HIDE DEF D
    <3> QED BY <3>1, RecentCharges
  <2>6. \A c \in D : c.key \in A
    BY <2>5
  <2> HIDE DEF A, B, D
  <2>7. IsFiniteSet(A) /\ Cardinality(A) \in Nat /\ Cardinality(B) \in Nat
    BY <2>2, FewerElements, VoiceConstants
  <2>8. IsFiniteSet(D) /\ Cardinality(D) \in Nat /\ Cardinality(D) <= Cardinality(A)
    BY <2>5, <2>6, <2>7, ChargesByKey
  <2>9. /\ Cardinality({d \in charges' : In(d.at, w)}) \in Nat
        /\ Cardinality({d \in charges' : In(d.at, w)}) <= Cardinality(D) + 1
    <3>1. /\ IsFiniteSet(D \cup {new}) /\ Cardinality(D \cup {new}) \in Nat
          /\ Cardinality(D \cup {new}) <= Cardinality(D) + 1
      BY <2>8, OneMore
    <3>2. /\ Cardinality({d \in charges' : In(d.at, w)}) \in Nat
          /\ Cardinality({d \in charges' : In(d.at, w)}) <= Cardinality(D \cup {new})
      BY <2>3, <3>1, FewerElements
    <3> QED BY <2>8, <3>1, <3>2
  <2> QED BY <2>1, <2>7, <2>8, <2>9, VoiceConstants
<1>3. ASSUME NEW c \in charges' PROVE Cardinality({d \in charges' : In(d.at, c.window)}) <= DailyLimit
  <2>1. CASE c = new
    BY <1>1, <1>2, <2>1
  <2>2. CASE c \in charges /\ In(seen, c.window)
    <3>2. \A t : In(t, c.window) <=> In(t, w)
      BY <2>2
    <3>3. {d \in charges' : In(d.at, c.window)} = {d \in charges' : In(d.at, w)}
      BY <3>2
    <3> QED BY <1>2, <3>3
  <2>3. CASE c \in charges /\ ~In(seen, c.window)
    <3>1. {d \in charges' : In(d.at, c.window)} = {d \in charges : In(d.at, c.window)}
      BY <1>1, <2>3
    <3> QED BY <2>3, <3>1 DEF DailyLimited
  <2> QED BY <2>1, <2>2, <2>3
<1> QED BY <1>3 DEF DailyLimited

\* The window moves on when it is over; days stay in order while calls read the
\* clock at once.
LEMMA WindowMoves ==
  ASSUME VoiceInv, DaysInOrder, NEW zone \in Zones, window' = Ensured(zone, now), now' = now,
         \A c \in charges' : c \in charges \/ (c.window = window' /\ In(now, c.window) /\ c.window \in DaySet)
  PROVE  DaysInOrder'
<1>1. SUFFICES ASSUME NEW c \in charges'
               PROVE  c.window.from <= now + Day /\ (c.window = window' \/ c.window.to <= now + Day)
  BY DEF DaysInOrder
<1>2. CASE c \in charges
  <2>1. c.window \in DaySet /\ c.window.from <= now + Day /\ (c.window = window \/ c.window.to <= now + Day)
    BY <1>2, VoiceFacts DEF DaysInOrder, ChargeSet
  <2>2. CASE c.window = window
    <3>1. window # NoWindow
      BY <2>1, <2>2, DayRecord
    <3>2. CASE In(now, window)
      BY <2>1, <2>2, <3>1, <3>2 DEF Ensured
    <3>3. CASE ~In(now, window)
      <4>1. c.window.from \in Nat /\ c.window.to = c.window.from + Day
        BY <2>1, DaySetFacts
      <4> QED BY <2>1, <2>2, <3>3, <4>1, VoiceFacts, VoiceConstants DEF In
    <3> QED BY <3>2, <3>3
  <2> QED BY <2>1, <2>2
<1>3. CASE c.window = window' /\ In(now, c.window)
  BY <1>3, VoiceFacts, VoiceConstants DEF In
<1> QED BY <1>2, <1>3

\* A call that does not wait reads the present.
LEMMA ReadAtOnce ==
  ASSUME VoiceInv, MaxWait = 0, NEW since \in Nat, NEW seen \in ReadSince(since)
  PROVE  seen = now
BY VoiceFacts DEF ReadSince

\* Every step keeps days in order, when calls do not wait.
LEMMA DaysSteps ==
  ASSUME VoiceInv, DaysInv, [VoiceNext]_vars
  PROVE  DaysInv'
<1>1. SUFFICES ASSUME MaxWait = 0, DaysInOrder PROVE DaysInOrder'
  BY DEF DaysInv, SameMidnight
<1>2. ASSUME NEW h \in Handlers, MarkStart(h) PROVE DaysInOrder'
  <2>1. At(h, "admitted") /\ Found(h) /\ now' = now
    BY <1>2 DEF MarkStart
  <2>2. PICK key \in Keys, zone \in Zones : key = handler[h].key /\ zone = handler[h].zone
    BY <2>1, StarterFacts
  <2>3. PICK seen \in ReadSince(handler[h].since), answer \in BOOLEAN :
          /\ MarkProviderStarted(key, zone, seen, answer)
          /\ charges' = IF answer
                        THEN charges \cup {[key |-> key, at |-> seen, window |-> window']}
                        ELSE charges
    BY <1>2, <2>2 DEF MarkStart
  <2>4. seen = now /\ now \in Nat /\ rows[key].status # "none"
    <3>1. rows[key].id # 0 /\ RowOK(key) /\ handler[h].since \in Nat
      BY <2>1, <2>2, StarterFacts, VoiceFacts
    <3> QED BY <1>1, <3>1, ReadAtOnce, VoiceFacts DEF RowOK
  <2>5. window' = StartWindow(key, zone, now) /\ window' \in DaySet /\ In(now, window')
    <3>1. window' = StartWindow(key, zone, now)
      BY <2>3, <2>4 DEF MarkProviderStarted
    <3> QED BY <2>4, <3>1, StartWindowFacts
  <2>6. PICK z \in Zones : window' = Ensured(z, now)
    BY <2>2, <2>4, <2>5, StartZone
  <2>7. \A c \in charges' : c \in charges \/ (c.window = window' /\ In(now, c.window) /\ c.window \in DaySet)
    BY <2>3, <2>5
  <2> QED BY <1>1, <2>1, <2>6, <2>7, WindowMoves
<1>3. CASE Tick
  <2>1. now' = now + 1 /\ UNCHANGED <<window, charges>>
    BY <1>3 DEF Tick, ledger, history
  <2>2. \A c \in charges : c.window.from \in Nat /\ c.window.to \in Nat
    BY VoiceFacts, DaySetFacts, VoiceConstants DEF ChargeSet
  <2> QED BY <1>1, <2>1, <2>2, VoiceFacts, VoiceConstants DEF DaysInOrder
<1>4. CASE GetAvailability
  <2>1. PICK zone \in Zones, seen \in ReadSince(1) : window' = Ensured(zone, seen)
    BY <1>4 DEF GetAvailability
  <2>2. UNCHANGED <<now, charges>>
    BY <1>4 DEF GetAvailability, history
  <2>3. seen = now
    BY <1>1, <2>1, ReadAtOnce
  <2> QED BY <1>1, <2>1, <2>2, <2>3, WindowMoves
<1>5. ASSUME NEW h \in Handlers, NEW key \in Keys, NEW zone \in Zones, ReserveWork(h, key, zone)
      PROVE  DaysInOrder'
  <2>1. PICK seen \in ReadSince(1), answer \in BOOLEAN : Reserve(key, zone, seen, answer)
    BY <1>5 DEF ReserveWork
  <2>2. UNCHANGED <<now, charges>>
    BY <1>5 DEF ReserveWork
  <2>3. seen = now /\ window' = Ensured(zone, seen)
    BY <1>1, <2>1, ReadAtOnce DEF Reserve
  <2> QED BY <1>1, <2>2, <2>3, WindowMoves
<1>6. CASE CleanUp
  BY <1>1, <1>6 DEF CleanUp, DaysInOrder
<1>7. ASSUME NEW h \in Handlers, FailPreparation(h) \/ Complete(h) \/ Kill(h) PROVE DaysInOrder'
  BY <1>1, <1>7 DEF FailPreparation, Complete, Kill, ledger, history, DaysInOrder
<1>8. CASE UNCHANGED vars
  BY <1>1, <1>8 DEF vars, ledger, history, DaysInOrder
<1> QED BY <1>2, <1>3, <1>4, <1>5, <1>6, <1>7, <1>8 DEF VoiceNext

\* Every step keeps the daily limit.
LEMMA DailySteps ==
  ASSUME VoiceInv, DaysInv, DailyLimited, [VoiceNext]_vars
  PROVE  DailyLimited'
<1>1. ASSUME NEW h \in Handlers, MarkStart(h) PROVE DailyLimited'
  <2>1. /\ At(h, "admitted") /\ Found(h)
    BY <1>1 DEF MarkStart
  <2>2. PICK key \in Keys, zone \in Zones : key = handler[h].key /\ zone = handler[h].zone
    BY <2>1, StarterFacts
  <2>3. PICK seen \in ReadSince(handler[h].since), answer \in BOOLEAN :
          /\ MarkProviderStarted(key, zone, seen, answer)
          /\ charges' = IF answer
                        THEN charges \cup {[key |-> key, at |-> seen, window |-> window']}
                        ELSE charges
    BY <1>1, <2>2 DEF MarkStart
  <2>4. seen \in Nat /\ seen <= now /\ seen + MaxWait >= now /\ rows[key].status # "none"
    <3>1. rows[key].id # 0 /\ RowOK(key)
      BY <2>1, <2>2, StarterFacts, VoiceFacts
    <3> QED BY <2>1, <2>2, <3>1, StarterFacts, VoiceFacts DEF ReadSince, RowOK
  <2>5. CASE answer
    <3>1. PICK w : w = StartWindow(key, zone, seen)
      OBVIOUS
    <3>2. window' = w /\ ~Full(w, seen, Keys \ {key})
      BY <2>3, <2>5, <3>1 DEF MarkProviderStarted
    <3>3. w \in DaySet /\ In(seen, w)
      BY <2>4, <3>1, StartWindowFacts
    <3>4. PICK new : new = [key |-> key, at |-> seen, window |-> w]
      OBVIOUS
    <3>5. charges' = charges \cup {new}
      BY <2>3, <2>5, <3>2, <3>4
    <3>6. \E z \in Zones : w = Ensured(z, seen)
      BY <2>2, <2>4, <3>1, StartZone
    <3>7. \A c \in charges : In(seen, c.window) => \A t : In(t, c.window) <=> In(t, w)
      BY <2>2, <2>4, <3>3, <3>6, DayCounted
    <3> QED BY <2>4, <3>2, <3>3, <3>4, <3>5, <3>7, DayCharged
  <2>6. CASE ~answer
    BY <2>3, <2>6 DEF DailyLimited
  <2> QED BY <2>5, <2>6
<1>2. CASE Tick \/ GetAvailability \/ CleanUp
  BY <1>2 DEF Tick, GetAvailability, CleanUp, history, DailyLimited
<1>3. ASSUME NEW h \in Handlers, NEW key \in Keys, NEW zone \in Zones, ReserveWork(h, key, zone)
      PROVE  DailyLimited'
  BY <1>3 DEF ReserveWork, DailyLimited
<1>4. ASSUME NEW h \in Handlers, FailPreparation(h) \/ Complete(h) \/ Kill(h) PROVE DailyLimited'
  BY <1>4 DEF FailPreparation, Complete, Kill, history, DailyLimited
<1>5. CASE UNCHANGED vars
  BY <1>5 DEF vars, history, DailyLimited
<1> QED BY <1>1, <1>2, <1>3, <1>4, <1>5 DEF VoiceNext

\* Where all zones share their midnight, or every call has the lock at once, a
\* day a start was charged to holds no more starts than its limit, and so does
\* every burst window; reservations that cross midnight do not matter.  Where
\* neither is so, the day that a late stamp derives may overlap another.
THEOREM UsageIsLimited ==
  ASSUME SameMidnight \/ MaxWait = 0
  PROVE  VoiceSpec => []UsageLimited
<1>1. VoiceInit => DailyLimited /\ DaysInv
  BY DEF VoiceInit, DailyLimited, DaysInv, DaysInOrder
<1>2. VoiceInv /\ DailyLimited /\ DaysInv /\ [VoiceNext]_vars => DailyLimited' /\ DaysInv'
  BY DailySteps, DaysSteps
<1>3. VoiceSpec => []DailyLimited
  BY <1>1, <1>2, VoiceAlways, PTL DEF VoiceSpec
<1>4. BurstLimited /\ DailyLimited => UsageLimited
  BY DEF UsageLimited
<1> QED BY <1>3, <1>4, BurstsAreLimited, PTL
=============================================================================
