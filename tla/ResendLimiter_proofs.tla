------------------------- MODULE ResendLimiter_proofs -------------------------
(***************************************************************************)
(* What holds of the limiter of verification mails for any windows, leases *)
(* and numbers of resends, while mails leave before the cooldown of their  *)
(* reservation may end.  Of the mails of which no error was returned, each *)
(* has a slot, a window has no more than its allowance, and two are apart. *)
(* A mail that left with an error (denied) has none of this: its slot was  *)
(* released, and MCResendLimiterErrors shows what follows.                 *)
(***************************************************************************)
EXTENDS ResendLimiter, FiniteSetTheorems, TLAPS

RowSet == [window : Nat, last : Nat, count : 0..MaxResends, id : Nat, reserved : Nat]
HandlerSet == [step : {"idle", "admitted", "sent", "failed"}, id : Nat, since : Nat]
MailSet == [at : Nat, id : Nat, window : Nat]
Delay == MaxWait + MaxSend

Admitted(h) == handler[h].step = "admitted"

\* One mail for an id, by the handler that was admitted last.
IdsInv ==
    /\ now \in Nat \ {0} /\ sentAt \in Nat /\ sentAt <= now /\ lastId \in Nat
    /\ handler \in [Handlers -> HandlerSet]
    /\ mails \in SUBSET MailSet
    /\ \A h \in Handlers :
        /\ handler[h].since <= now
        /\ handler[h].step # "idle" => handler[h].id \in 1..lastId
        /\ Admitted(h) => handler[h].id = lastId /\ now <= handler[h].since + MaxSend
        /\ handler[h].step \in {"admitted", "failed"} => \A m \in mails : m.id # handler[h].id
    /\ \A g, h \in Handlers :
        handler[g].step # "idle" /\ handler[h].step # "idle" /\ handler[g].id = handler[h].id => g = h
    /\ \A m \in mails : m.id \in 1..lastId /\ m.at <= now /\ m.window <= m.at
    /\ \A m, n \in mails : m.id = n.id => m = n

\* What was reserved under an id and leaves by an instant is behind the
\* cooldown, which counts from the reservation, the last mail, or a window that
\* began a cooldown later.
Behind(r, id, by) ==
    /\ id = r.id => by <= r.reserved + Delay
    /\ id # r.id /\ r.last # 0 => by <= r.last + Delay
    /\ id # r.id /\ r.last = 0 => by + Cooldown <= r.window + Delay

\* The ids a window has to count beside the reservation: of its mails, and of
\* a mail that may still leave after its reservation was given up.
Slots(r) ==
    ({m.id : m \in {n \in mails : n.window = r.window}}
       \cup {handler[h].id : h \in {g \in Handlers : Admitted(g)}}) \ {r.id}

SafeRow(r) ==
    /\ r \in RowSet
    /\ r.window <= now /\ r.last <= now /\ r.reserved <= now /\ r.id <= lastId
    /\ r.id # 0 =>
        /\ r.count < MaxResends /\ r.reserved # 0
        /\ r.last # 0 => r.last + Cooldown <= r.reserved
        /\ r.last = 0 => r.window <= r.reserved + MaxWait
    /\ \A m \in mails :
        /\ Behind(r, m.id, m.at)
        /\ m.window <= r.window
        /\ m.window # r.window => m.window + WindowLength <= r.window /\ m.at < r.window
    /\ \A h \in Handlers : Admitted(h) => Behind(r, handler[h].id, handler[h].since + MaxSend)
    /\ Cardinality(Slots(r)) <= r.count

RowInv ==
    IF row = NoRow THEN mails = {} /\ \A h \in Handlers : handler[h] = Idle ELSE SafeRow(row)

MailsInv ==
    /\ \A h \in Handlers, m \in mails : Admitted(h) => m.at + Cooldown <= now + Delay
    /\ \A m, n \in mails :
        /\ m.id < n.id => m.at + Cooldown <= n.at + Delay
        /\ m.window < n.window => m.window + WindowLength <= n.window /\ m.at < n.window
    /\ \A m \in mails : Cardinality({n \in mails : n.window = m.window}) <= MaxResends

ResendInv == IdsInv /\ RowInv /\ MailsInv

-----------------------------------------------------------------------------
(***************************************************************************)
(* Numbers of mails.                                                       *)
(***************************************************************************)
LEMMA ResendConstants ==
  /\ Cooldown \in Nat \ {0} /\ WindowLength \in Nat \ {0} /\ MaxResends \in Nat \ {0}
  /\ Lease \in Nat \ {0} /\ MaxWait \in Nat /\ MaxSend \in Nat
  /\ Delay \in Nat /\ Delay = MaxWait + MaxSend /\ Delay < Cooldown
BY ResendAssumption, PromptAssumption DEF Delay

\* Mails are as many as their ids.
LEMMA MailsById ==
  ASSUME NEW M, NEW I, IsFiniteSet(I), \A m \in M : m.id \in I,
         \A m, n \in M : m.id = n.id => m = n
  PROVE  IsFiniteSet(M) /\ Cardinality(M) \in Nat /\ Cardinality(M) <= Cardinality(I)
<1> DEFINE f == [m \in M |-> m.id]
<1>1. f \in Injection(M, I)
  BY DEF Injection, IsInjective
<1> QED BY <1>1, FS_Injection, FS_CardinalityType

\* One more element.
LEMMA OneMore ==
  ASSUME NEW S, IsFiniteSet(S), NEW x
  PROVE  /\ IsFiniteSet(S \cup {x}) /\ Cardinality(S \cup {x}) \in Nat
         /\ Cardinality(S) \in Nat /\ Cardinality(S \cup {x}) <= Cardinality(S) + 1
<1>1. IsFiniteSet(S \cup {x}) /\ Cardinality(S \cup {x}) =
        IF x \in S THEN Cardinality(S) ELSE Cardinality(S) + 1
  BY FS_AddElement
<1>2. Cardinality(S) \in Nat
  BY FS_CardinalityType
<1>3. CASE x \in S
  BY <1>1, <1>2, <1>3
<1>4. CASE x \notin S
  BY <1>1, <1>2, <1>4
<1> QED BY <1>3, <1>4

\* The fields of a row.
LEMMA RowFields ==
  ASSUME NEW r \in RowSet
  PROVE  /\ r.window \in Nat /\ r.last \in Nat /\ r.count \in 0..MaxResends
         /\ r.id \in Nat /\ r.reserved \in Nat
         /\ r = [window |-> r.window, last |-> r.last, count |-> r.count, id |-> r.id,
                 reserved |-> r.reserved]
BY DEF RowSet

\* The ids a window counts are those given so far.
LEMMA SlotsFinite ==
  ASSUME IdsInv, NEW r
  PROVE  /\ Slots(r) \in SUBSET (1..lastId)
         /\ IsFiniteSet(Slots(r)) /\ Cardinality(Slots(r)) \in Nat
<1>1. Slots(r) \in SUBSET (1..lastId)
  BY DEF Slots, IdsInv, Admitted
<1>2. IsFiniteSet(1..lastId)
  BY FS_Interval DEF IdsInv
<1> QED BY <1>1, <1>2, FS_Subset, FS_CardinalityType

\* Mails that have slots, or the reservation, are no more than those.
LEMMA MailsCounted ==
  ASSUME NEW M, NEW S, IsFiniteSet(S), NEW count \in Nat, Cardinality(S) <= count,
         count <= MaxResends, NEW id, id # 0 => count < MaxResends,
         \A m \in M : m.id # 0 /\ m.id \in S \cup {id}, \A m, n \in M : m.id = n.id => m = n
  PROVE  /\ Cardinality(M) \in Nat
         /\ Cardinality(M) <= count + (IF id # 0 THEN 1 ELSE 0)
         /\ Cardinality(M) <= MaxResends
<1>1. CASE id # 0
  <2>1. IsFiniteSet(S \cup {id}) /\ Cardinality(S \cup {id}) \in Nat /\ Cardinality(S) \in Nat
        /\ Cardinality(S \cup {id}) <= Cardinality(S) + 1
    BY OneMore
  <2>2. Cardinality(M) \in Nat /\ Cardinality(M) <= Cardinality(S \cup {id})
    BY <2>1, MailsById
  <2> QED BY <1>1, <2>1, <2>2, ResendConstants
<1>2. CASE id = 0
  <2>1. \A m \in M : m.id \in S
    BY <1>2
  <2>2. Cardinality(M) \in Nat /\ Cardinality(M) <= Cardinality(S) /\ Cardinality(S) \in Nat
    BY <2>1, MailsById, FS_CardinalityType
  <2> QED BY <1>2, <2>2, ResendConstants
<1> QED BY <1>1, <1>2

-----------------------------------------------------------------------------
(***************************************************************************)
(* What a reservation makes of the row before it accepts.                  *)
(***************************************************************************)
LEMMA NewRowSafe ==
  ASSUME IdsInv, sentAt # 0, mails = {}, \A h \in Handlers : handler[h] = Idle
  PROVE  SafeRow(NewRow)
<1>1. \A h \in Handlers : ~Admitted(h)
  BY DEF Admitted, Idle
<1>2. Slots(NewRow) = {}
  BY <1>1 DEF Slots
<1>3. NewRow \in RowSet /\ NewRow.id = 0 /\ NewRow.count = 0 /\ NewRow.window = sentAt
      /\ NewRow.last = sentAt /\ NewRow.reserved = 0
  BY ResendConstants DEF NewRow, RowSet, IdsInv
<1> QED BY <1>1, <1>2, <1>3, FS_EmptySet DEF SafeRow, IdsInv

\* A row stays safe when its expired reservation is recovered.
LEMMA RecoveredSafe ==
  ASSUME IdsInv, NEW r, SafeRow(r), NEW seen \in Nat
  PROVE  SafeRow(Recovered(r, seen))
<1>2. ASSUME NEW q, r.id # 0,
             q = [r EXCEPT !.count = IF @ < MaxResends THEN @ + 1 ELSE MaxResends,
                           !.last = r.reserved, !.id = 0, !.reserved = 0]
      PROVE  SafeRow(q)
  <2>1. /\ r \in RowSet /\ r.count < MaxResends /\ r.reserved # 0 /\ r.reserved <= now
        /\ r.last # 0 => r.last + Cooldown <= r.reserved
        /\ r.last = 0 => r.window <= r.reserved + MaxWait
        /\ r.window <= now /\ now \in Nat /\ lastId \in Nat
    BY <1>2 DEF SafeRow, IdsInv
  <2>2. /\ q \in RowSet /\ q.count = r.count + 1 /\ q.last = r.reserved /\ q.id = 0 /\ q.reserved = 0
        /\ q.window = r.window
    <3>1. r.count + 1 \in 0..MaxResends /\ r.reserved \in Nat
      BY <2>1, RowFields, ResendConstants
    <3>2. q = [r EXCEPT !.count = r.count + 1, !.last = r.reserved, !.id = 0, !.reserved = 0]
      BY <1>2, <2>1
    <3>3. r \in RowSet
      BY <2>1
    <3>4. /\ q \in RowSet /\ q.window = r.window /\ q.last = r.reserved /\ q.count = r.count + 1
          /\ q.id = 0 /\ q.reserved = 0
      BY <3>1, <3>2, <3>3 DEF RowSet
    <3> QED BY <3>4
  <2>3. /\ r.window \in Nat /\ r.last \in Nat /\ r.count \in Nat /\ r.id \in Nat /\ r.reserved \in Nat
    BY <2>1, ResendConstants DEF RowSet
  <2>4. ASSUME NEW id \in 1..lastId, NEW by \in Nat, Behind(r, id, by)
        PROVE  Behind(q, id, by)
    <3>1. id # q.id /\ q.last # 0
      BY <2>1, <2>2, <2>4
    <3>2. by <= r.reserved + Delay
      BY <2>1, <2>3, <2>4, ResendConstants DEF Behind
    <3> QED BY <2>2, <3>1, <3>2 DEF Behind
  <2>5. Cardinality(Slots(q)) <= q.count
    <3>1. Slots(q) \subseteq Slots(r) \cup {r.id}
      BY <2>2 DEF Slots
    <3>2. IsFiniteSet(Slots(r)) /\ Cardinality(Slots(r)) \in Nat /\ Cardinality(Slots(r)) <= r.count
      BY SlotsFinite DEF SafeRow
    <3>3. IsFiniteSet(Slots(r) \cup {r.id})
          /\ Cardinality(Slots(r) \cup {r.id}) <= Cardinality(Slots(r)) + 1
          /\ Cardinality(Slots(r) \cup {r.id}) \in Nat
      BY <3>2, OneMore
    <3>4. Cardinality(Slots(q)) <= Cardinality(Slots(r) \cup {r.id}) /\ Cardinality(Slots(q)) \in Nat
      BY <3>1, <3>3, FS_Subset, FS_CardinalityType
    <3> QED BY <2>2, <2>3, <3>2, <3>3, <3>4
  <2>6. \A m \in mails : m.id \in 1..lastId /\ m.at \in Nat
    BY DEF IdsInv, MailSet
  <2>7. ASSUME NEW h \in Handlers, Admitted(h)
        PROVE  handler[h].id \in 1..lastId /\ handler[h].since + MaxSend \in Nat
    <3>1. handler[h] \in HandlerSet
      BY DEF IdsInv
    <3> QED BY <2>7, <3>1, ResendConstants DEF IdsInv, Admitted, HandlerSet
  <2>8. \A m \in mails : Behind(q, m.id, m.at)
    BY <2>4, <2>6 DEF SafeRow
  <2>9. \A h \in Handlers : Admitted(h) => Behind(q, handler[h].id, handler[h].since + MaxSend)
    BY <2>4, <2>7 DEF SafeRow
  <2>10. \A m \in mails : /\ m.window <= q.window
                          /\ m.window # q.window => m.window + WindowLength <= q.window
                                                    /\ m.at < q.window
    BY <2>2 DEF SafeRow
  <2> QED BY <2>1, <2>2, <2>5, <2>8, <2>9, <2>10 DEF SafeRow
<1> QED BY <1>2 DEF Recovered

\* No mail that was admitted before is still to leave when the cooldown ended.
LEMMA CooledIsQuiet ==
  ASSUME IdsInv, NEW r, SafeRow(r), r.id = 0, NEW seen \in Nat, seen <= now, ~Cooling(r, seen)
  PROVE  /\ \A h \in Handlers : ~Admitted(h)
         /\ \A m \in mails : /\ m.at + Cooldown <= now + Delay
                             /\ r.last # 0 => m.at < seen
                             /\ r.last = 0 => m.at < r.window
<1>1. /\ r.last \in Nat /\ r.window \in Nat /\ r.window <= now /\ now \in Nat
      /\ r.last # 0 => r.last + Cooldown <= seen
  BY ResendConstants DEF SafeRow, RowSet, Cooling, IdsInv
<1>2. ASSUME NEW id \in 1..lastId, NEW by \in Nat, Behind(r, id, by)
      PROVE  /\ by + Cooldown <= now + Delay
             /\ r.last # 0 => by < seen
             /\ r.last = 0 => by < r.window
  <2>1. id # r.id
    BY <1>2
  <2>2. CASE r.last # 0
    <3>1. by <= r.last + Delay
      BY <1>2, <2>1, <2>2 DEF Behind
    <3> QED BY <1>1, <2>2, <3>1, ResendConstants
  <2>3. CASE r.last = 0
    <3>1. by + Cooldown <= r.window + Delay
      BY <1>2, <2>1, <2>3 DEF Behind
    <3> QED BY <1>1, <2>3, <3>1, ResendConstants
  <2> QED BY <2>2, <2>3
<1>3. ASSUME NEW h \in Handlers, Admitted(h) PROVE FALSE
  <2>1. handler[h] \in HandlerSet /\ handler[h].id \in 1..lastId /\ now <= handler[h].since + MaxSend
    BY <1>3 DEF IdsInv, Admitted
  <2>2. handler[h].since + MaxSend \in Nat
    BY <2>1, ResendConstants DEF HandlerSet
  <2>3. Behind(r, handler[h].id, handler[h].since + MaxSend)
    BY <1>3 DEF SafeRow
  <2>4. handler[h].since + MaxSend + Cooldown <= now + Delay
    BY <1>2, <2>1, <2>2, <2>3
  <2> QED BY <1>1, <2>1, <2>2, <2>4, ResendConstants
<1>4. ASSUME NEW m \in mails
      PROVE  /\ m.at + Cooldown <= now + Delay
             /\ r.last # 0 => m.at < seen
             /\ r.last = 0 => m.at < r.window
  <2>1. m.id \in 1..lastId /\ m.at \in Nat /\ Behind(r, m.id, m.at)
    BY DEF IdsInv, MailSet, SafeRow
  <2> QED BY <1>2, <2>1
<1> QED BY <1>3, <1>4

\* A row stays safe when its window is rolled over: no mail of the old window is counted or missed.
LEMMA RolledOverSafe ==
  ASSUME IdsInv, NEW r, SafeRow(r), NEW seen \in Nat, seen <= now
  PROVE  SafeRow(RolledOver(r, seen))
<1>2. ASSUME NEW q, r.id = 0, ~Cooling(r, seen), r.window + WindowLength <= seen,
             q = [r EXCEPT !.window = seen, !.last = 0, !.count = 0]
      PROVE  SafeRow(q)
  <2>1. /\ r \in RowSet /\ r.reserved <= now /\ now \in Nat /\ lastId \in Nat
    BY DEF SafeRow, IdsInv
  <2>2. /\ q \in RowSet /\ q.count = 0 /\ q.last = 0 /\ q.id = 0 /\ q.reserved = r.reserved
        /\ q.window = seen
    <3>1. q = [r EXCEPT !.window = seen, !.last = 0, !.count = 0]
      BY <1>2
    <3>2. r \in RowSet
      BY <2>1
    <3>3. /\ q \in RowSet /\ q.window = seen /\ q.last = 0 /\ q.count = 0
          /\ q.id = r.id /\ q.reserved = r.reserved
      <4>1. 0 \in 0..MaxResends
        BY ResendConstants
      <4> QED BY <3>1, <3>2, <4>1 DEF RowSet
    <3> QED BY <1>2, <3>3
  <2>3. r.window \in Nat /\ r.last \in Nat
    BY <2>1 DEF RowSet
  <2>4. /\ \A h \in Handlers : ~Admitted(h)
        /\ \A m \in mails : /\ m.at + Cooldown <= now + Delay
                            /\ r.last # 0 => m.at < seen
                            /\ r.last = 0 => m.at < r.window
    BY <1>2, CooledIsQuiet
  <2>5. ASSUME NEW m \in mails
        PROVE  /\ Behind(q, m.id, m.at)
               /\ m.window + WindowLength <= q.window /\ m.at < q.window /\ m.window < q.window
    <3>1. /\ m.id \in 1..lastId /\ m.at \in Nat /\ m.window \in Nat /\ m.window <= r.window
          /\ Behind(r, m.id, m.at) /\ m.id # r.id
      BY <1>2 DEF IdsInv, MailSet, SafeRow
    <3>2. m.at < seen
      BY <1>2, <2>3, <2>4, <3>1, ResendConstants
    <3>3. m.at + Cooldown <= seen + Delay
      <4>1. CASE r.last # 0
        <5>1. m.at <= r.last + Delay
          BY <1>2, <3>1, <4>1 DEF Behind
        <5>2. r.last + Cooldown <= seen
          BY <1>2, <2>3, <4>1, ResendConstants DEF Cooling
        <5> QED BY <2>3, <3>1, <5>1, <5>2, ResendConstants
      <4>2. CASE r.last = 0
        <5>1. m.at + Cooldown <= r.window + Delay
          BY <1>2, <3>1, <4>2 DEF Behind
        <5> QED BY <1>2, <2>3, <3>1, <5>1, ResendConstants
      <4> QED BY <4>1, <4>2
    <3>4. Behind(q, m.id, m.at)
      BY <2>2, <3>1, <3>3 DEF Behind
    <3> QED BY <1>2, <2>2, <2>3, <3>1, <3>2, <3>4, ResendConstants
  <2>6. Slots(q) = {}
    <3>1. \A m \in mails : m.window # q.window
      <4>1. \A m \in mails : m.window \in Nat
        BY DEF IdsInv, MailSet
      <4> QED BY <2>2, <2>5, <4>1
    <3> QED BY <2>4, <3>1 DEF Slots
  <2>7. Cardinality(Slots(q)) <= q.count
    BY <2>2, <2>6, FS_EmptySet
  <2>8. \A m \in mails : m.window <= q.window
    <3>1. \A m \in mails : m.window \in Nat
      BY DEF IdsInv, MailSet
    <3> QED BY <2>2, <2>5, <3>1
  <2> QED BY <2>1, <2>2, <2>4, <2>5, <2>7, <2>8 DEF SafeRow
<1> QED BY <1>2 DEF RolledOver

-----------------------------------------------------------------------------
(***************************************************************************)
(* The actions.                                                            *)
(***************************************************************************)
LEMMA RowsAreRows == ASSUME NEW r \in RowSet PROVE r # NoRow
BY ResendAssumption DEF RowSet

\* Time passes and handlers stop sending: nothing is added.
LEMMA SafeStays ==
  ASSUME IdsInv, NEW r, SafeRow(r), now <= now', now' \in Nat, lastId' = lastId, mails' = mails,
         \A h \in Handlers : Admitted(h)' => Admitted(h) /\ handler'[h] = handler[h]
  PROVE  SafeRow(r)'
<1>1. Slots(r)' \subseteq Slots(r)
  BY DEF Slots, Admitted
<1>2. /\ IsFiniteSet(Slots(r)) /\ Cardinality(Slots(r)) \in Nat /\ Cardinality(Slots(r)) <= r.count
      /\ r \in RowSet /\ now \in Nat
  BY SlotsFinite DEF SafeRow, IdsInv
<1>3. Cardinality(Slots(r)') <= Cardinality(Slots(r)) /\ Cardinality(Slots(r)') \in Nat
  BY <1>1, <1>2, FS_Subset, FS_CardinalityType
<1>4. r.count \in Nat /\ r.window \in Nat /\ r.last \in Nat /\ r.reserved \in Nat
  BY <1>2, RowFields, ResendConstants
<1>5. Cardinality(Slots(r)') <= r.count
  BY <1>2, <1>3, <1>4
<1>6. r.window <= now' /\ r.last <= now' /\ r.reserved <= now' /\ r.id <= lastId'
  BY <1>2, <1>4 DEF SafeRow
<1>7. \A h \in Handlers : Admitted(h)' => Behind(r, handler'[h].id, handler'[h].since + MaxSend)
  BY DEF SafeRow
<1>8. \A id, by : Behind(r, id, by)' <=> Behind(r, id, by)
  BY DEF Behind
<1> QED BY <1>2, <1>5, <1>6, <1>7, <1>8 DEF SafeRow

\* Ids stay apart when nothing is reserved or sent.
LEMMA IdsStay ==
  ASSUME IdsInv, now <= now', now' \in Nat \ {0}, sentAt' \in Nat, sentAt' <= now', lastId' = lastId,
         mails' = mails,
         \A h \in Handlers : handler'[h] = handler[h] \/ handler'[h] = Idle,
         handler' \in [Handlers -> HandlerSet],
         \A h \in Handlers : Admitted(h) => now' <= handler[h].since + MaxSend
  PROVE  IdsInv' /\ \A h \in Handlers : Admitted(h)' => Admitted(h) /\ handler'[h] = handler[h]
<1>1. Idle.step = "idle" /\ Idle.since = 0
  BY DEF Idle
<1>2. now \in Nat
  BY DEF IdsInv
<1>3. ASSUME NEW h \in Handlers
      PROVE  /\ handler'[h].step # "idle" => handler'[h] = handler[h]
             /\ handler'[h].since <= now'
             /\ Admitted(h)' => Admitted(h) /\ handler'[h] = handler[h]
  <2>1. handler[h].since \in Nat /\ handler[h].since <= now
    BY DEF IdsInv, HandlerSet
  <2> QED BY <1>1, <1>2, <2>1 DEF Admitted
<1>4. \A h \in Handlers :
        /\ handler'[h].step # "idle" => handler'[h].id \in 1..lastId'
        /\ Admitted(h)' => handler'[h].id = lastId' /\ now' <= handler'[h].since + MaxSend
        /\ handler'[h].step \in {"admitted", "failed"} => \A m \in mails' : m.id # handler'[h].id
  BY <1>3 DEF IdsInv
<1>5. \A g, h \in Handlers :
        handler'[g].step # "idle" /\ handler'[h].step # "idle" /\ handler'[g].id = handler'[h].id => g = h
  BY <1>3 DEF IdsInv
<1>6. \A m \in mails' : m.id \in 1..lastId' /\ m.at <= now' /\ m.window <= m.at
  <2>1. \A m \in mails : m.at \in Nat
    BY DEF IdsInv, MailSet
  <2> QED BY <1>2, <2>1 DEF IdsInv
<1> QED BY <1>3, <1>4, <1>5, <1>6 DEF IdsInv

\* What was sent stays limited and apart when nothing is sent.
LEMMA MailsStay ==
  ASSUME IdsInv, MailsInv, now <= now', now' \in Nat, mails' = mails,
         \A h \in Handlers : Admitted(h)' => Admitted(h)
  PROVE  MailsInv'
<1>1. now \in Nat /\ \A m \in mails : m.at \in Nat
  BY DEF IdsInv, MailSet
<1>2. \A h \in Handlers, m \in mails : Admitted(h)' => m.at + Cooldown <= now' + Delay
  BY <1>1, ResendConstants DEF MailsInv
<1> QED BY <1>2 DEF MailsInv

\* A step that neither writes the row nor lets a mail go.
LEMMA QuietStep ==
  ASSUME ResendInv, now <= now', now' \in Nat \ {0}, sentAt' \in Nat, sentAt' <= now',
         UNCHANGED <<row, lastId, mails>>,
         \A h \in Handlers : handler'[h] = handler[h] \/ handler'[h] = Idle,
         handler' \in [Handlers -> HandlerSet],
         \A h \in Handlers : Admitted(h) => now' <= handler[h].since + MaxSend
  PROVE  ResendInv'
<1>1. IdsInv' /\ \A h \in Handlers : Admitted(h)' => Admitted(h) /\ handler'[h] = handler[h]
  BY IdsStay DEF ResendInv
<1>2. MailsInv'
  BY <1>1, MailsStay DEF ResendInv
<1>3. CASE row = NoRow
  BY <1>1, <1>2, <1>3 DEF ResendInv, RowInv
<1>4. CASE row # NoRow
  <2>1. PICK r : r = row
    OBVIOUS
  <2>2. SafeRow(r)
    BY <1>4, <2>1 DEF ResendInv, RowInv
  <2>3. SafeRow(r)'
    BY <1>1, <2>2, SafeStays DEF ResendInv
  <2>4. row' = r
    BY <2>1
  <2> QED BY <1>1, <1>2, <1>4, <2>1, <2>3, <2>4 DEF ResendInv, RowInv
<1> QED BY <1>3, <1>4

\* The invariant, unfolded for the steps.
LEMMA ResendFacts ==
  ASSUME ResendInv
  PROVE  /\ IdsInv /\ RowInv /\ MailsInv
         /\ now \in Nat \ {0} /\ now <= now /\ sentAt \in Nat /\ sentAt <= now
         /\ handler \in [Handlers -> HandlerSet] /\ lastId \in Nat
         /\ \A h \in Handlers : Admitted(h) => now <= handler[h].since + MaxSend
BY DEF ResendInv, IdsInv

\* Time passes, the address signs up or is confirmed.
LEMMA ClockInv ==
  ASSUME ResendInv, Tick \/ SignUp \/ Confirm
  PROVE  ResendInv'
<1>1. CASE Tick
  <2>1. now' = now + 1 /\ UNCHANGED <<sentAt, row, handler, lastId, mails>>
    BY <1>1 DEF Tick
  <2>2. now <= now' /\ now' \in Nat \ {0} /\ sentAt' \in Nat /\ sentAt' <= now'
    BY <2>1, ResendFacts
  <2>3. ASSUME NEW h \in Handlers, Admitted(h) PROVE now' <= handler[h].since + MaxSend
    <3>1. now < handler[h].since + MaxSend /\ handler[h].since \in Nat
      BY <1>1, <2>3, ResendFacts DEF Tick, Admitted, HandlerSet
    <3> QED BY <2>1, <3>1, ResendFacts, ResendConstants
  <2> QED BY <2>1, <2>2, <2>3, ResendFacts, QuietStep
<1>2. CASE SignUp \/ Confirm
  <2>1. sentAt' \in {now, 0} /\ now' = now /\ UNCHANGED <<row, handler, lastId, mails>>
    BY <1>2 DEF SignUp, Confirm
  <2>2. now <= now' /\ now' \in Nat \ {0} /\ sentAt' \in Nat /\ sentAt' <= now'
    BY <2>1, ResendFacts
  <2> QED BY <2>1, <2>2, ResendFacts, QuietStep
<1> QED BY <1>1, <1>2

\* The row is written, and nothing else changes but a handler that ends.
LEMMA RowWritten ==
  ASSUME ResendInv, NEW r, row' = r, SafeRow(r)', UNCHANGED <<now, sentAt, lastId, mails>>,
         \A h \in Handlers : handler'[h] = handler[h] \/ handler'[h] = Idle,
         handler' \in [Handlers -> HandlerSet]
  PROVE  ResendInv'
<1>1. IdsInv' /\ \A h \in Handlers : Admitted(h)' => Admitted(h) /\ handler'[h] = handler[h]
  BY ResendFacts, IdsStay
<1>2. MailsInv'
  BY <1>1, ResendFacts, MailsStay
<1>3. RowInv'
  BY RowsAreRows DEF RowInv, SafeRow
<1> QED BY <1>1, <1>2, <1>3 DEF ResendInv

\* email_verification_register_initial_send (081:56): the first row of an address.
LEMMA RegisterInv == ASSUME ResendInv, RegisterInitial PROVE ResendInv'
<1>1. PICK r : r = NewRow
  OBVIOUS
<1>2. /\ sentAt # 0 /\ row = NoRow /\ row' = r
      /\ UNCHANGED <<now, sentAt, handler, lastId, mails>>
  BY <1>1 DEF RegisterInitial
<1>3. SafeRow(r)
  BY <1>1, <1>2, ResendFacts, NewRowSafe DEF RowInv
<1>4. SafeRow(r)'
  BY <1>2, <1>3, ResendFacts, SafeStays DEF Admitted
<1> QED BY <1>2, <1>4, ResendFacts, RowWritten

\* The row after a reservation is kept, or takes the next id.
LEMMA AcceptInv ==
  ASSUME ResendInv, NEW r, SafeRow(r), NEW seen \in 1..now, seen + MaxWait >= now, Accepts(r, seen),
         NEW q, q = [r EXCEPT !.id = lastId + 1, !.reserved = seen], row' = q,
         NEW h \in Handlers, handler[h] = Idle, lastId' = lastId + 1,
         \/ handler' = [handler EXCEPT ![h] =
              [step |-> "admitted", id |-> lastId + 1, since |-> now]]
         \/ UNCHANGED handler,
         UNCHANGED <<now, sentAt, mails>>
  PROVE  ResendInv'
<1> DEFINE new == [step |-> "admitted", id |-> lastId + 1, since |-> now]
<1>1. /\ IdsInv /\ MailsInv /\ now \in Nat \ {0} /\ lastId \in Nat /\ handler \in [Handlers -> HandlerSet]
      /\ seen \in Nat \ {0} /\ seen <= now /\ now <= seen + MaxWait
      /\ r.id = 0 /\ ~Cooling(r, seen) /\ r.count < MaxResends
  BY ResendFacts DEF Accepts
<1>2. /\ \A g \in Handlers : ~Admitted(g)
      /\ \A m \in mails : m.at + Cooldown <= now + Delay
  BY <1>1, CooledIsQuiet
<1>3. r \in RowSet /\ r.window <= now /\ r.last <= now
  BY DEF SafeRow
<1>4. /\ q \in RowSet /\ q.window = r.window /\ q.last = r.last /\ q.count = r.count
      /\ q.id = lastId + 1 /\ q.reserved = seen
  <2>1. lastId + 1 \in Nat
    BY <1>1
  <2> QED BY <1>1, <1>3, <2>1 DEF RowSet
<1>5. /\ r.window \in Nat /\ r.last \in Nat /\ r.count \in Nat
      /\ r.last # 0 => r.last + Cooldown <= seen
  BY <1>1, <1>3, RowFields, ResendConstants DEF Cooling
<1>6. new \in HandlerSet /\ new.step = "admitted" /\ new.id = lastId + 1 /\ new.since = now
  BY <1>1 DEF HandlerSet
<1> HIDE DEF new
<1>7. /\ handler' \in [Handlers -> HandlerSet]
      /\ \A g \in Handlers : handler'[g] = handler[g] \/ (g = h /\ handler'[g] = new)
  BY <1>1, <1>6 DEF new
<1>8. \A g \in Handlers : Admitted(g)' => g = h /\ handler'[g] = new
  BY <1>2, <1>7 DEF Admitted
<1>9. IdsInv'
  <2>1. ASSUME NEW g \in Handlers
        PROVE  /\ handler'[g].since <= now'
               /\ handler'[g].step # "idle" => handler'[g].id \in 1..lastId'
               /\ Admitted(g)' => handler'[g].id = lastId' /\ now' <= handler'[g].since + MaxSend
               /\ handler'[g].step \in {"admitted", "failed"} => \A m \in mails' : m.id # handler'[g].id
    <3>1. CASE handler'[g] = handler[g] /\ ~Admitted(g)'
      <4>1. handler[g].step # "idle" => handler[g].id \in 1..lastId
        BY DEF ResendInv, IdsInv
      <4> QED BY <1>1, <3>1, <4>1 DEF IdsInv
    <3>2. CASE handler'[g] = new
      <4>1. \A m \in mails : m.id # lastId + 1
        BY <1>1 DEF IdsInv
      <4> QED BY <1>1, <1>6, <3>2, <4>1, ResendConstants
    <3> QED BY <1>7, <1>8, <3>1, <3>2
  <2>2. ASSUME NEW f \in Handlers, NEW g \in Handlers, handler'[f].step # "idle",
               handler'[g].step # "idle", handler'[f].id = handler'[g].id
        PROVE  f = g
    <3>1. \A g1 \in Handlers : handler[g1].step # "idle" => handler[g1].id # lastId + 1
      BY <1>1 DEF IdsInv
    <3> QED BY <1>1, <1>6, <1>7, <2>2, <3>1 DEF IdsInv
  <2>3. \A m \in mails' : m.id \in 1..lastId'
    BY <1>1 DEF IdsInv
  <2> QED BY <1>1, <1>7, <2>1, <2>2, <2>3 DEF IdsInv
<1>10. MailsInv'
  BY <1>1, <1>2 DEF MailsInv
<1>11. SafeRow(q)'
  <2>1. Slots(q)' \subseteq Slots(r)
    <3>1. \A m \in mails : m.id # 0
      BY <1>1 DEF IdsInv
    <3> QED BY <1>1, <1>4, <1>6, <1>8, <3>1 DEF Slots
  <2>2. Cardinality(Slots(q)') <= q.count
    <3>1. /\ IsFiniteSet(Slots(r)) /\ Cardinality(Slots(r)) \in Nat /\ Cardinality(Slots(r)) <= r.count
      BY <1>1, SlotsFinite DEF SafeRow
    <3>2. Cardinality(Slots(q)') <= Cardinality(Slots(r)) /\ Cardinality(Slots(q)') \in Nat
      BY <2>1, <3>1, FS_Subset, FS_CardinalityType
    <3> QED BY <1>4, <1>5, <3>1, <3>2
  <2>3. ASSUME NEW m \in mails PROVE Behind(q, m.id, m.at)
    <3>1. m.id # r.id /\ m.id # q.id /\ Behind(r, m.id, m.at)
      BY <1>1, <1>4 DEF IdsInv, SafeRow
    <3> QED BY <1>4, <3>1 DEF Behind
  <2>4. ASSUME NEW g \in Handlers, Admitted(g)'
        PROVE  Behind(q, handler'[g].id, handler'[g].since + MaxSend)
    <3>1. now + MaxSend <= seen + Delay
      BY <1>1, ResendConstants
    <3> QED BY <1>4, <1>6, <1>8, <2>4, <3>1 DEF Behind
  <2>5. q.window <= q.reserved + MaxWait
    BY <1>1, <1>3, <1>4, <1>5, ResendConstants
  <2>6. \A m \in mails : /\ m.window <= q.window
                         /\ m.window # q.window => m.window + WindowLength <= q.window
                                                   /\ m.at < q.window
    BY <1>4 DEF SafeRow
  <2>7. \A id, by : Behind(q, id, by)' <=> Behind(q, id, by)
    BY DEF Behind
  <2>8. q.window <= now /\ q.last <= now /\ q.reserved <= now /\ q.id <= lastId' /\ q.count < MaxResends
        /\ q.reserved # 0 /\ (q.last # 0 => q.last + Cooldown <= q.reserved)
    BY <1>1, <1>3, <1>4, <1>5
  <2> QED BY <1>4, <2>2, <2>3, <2>4, <2>5, <2>6, <2>7, <2>8 DEF SafeRow
<1>12. RowInv'
  BY <1>4, <1>11, RowsAreRows DEF RowInv
<1> QED BY <1>9, <1>10, <1>12 DEF ResendInv

\* email_verification_reserve_resend (081:111): recovery, rollover, refusal or admission.
LEMMA ReserveInv == ASSUME ResendInv, NEW h \in Handlers, Reserve(h) PROVE ResendInv'
<1>1. PICK seen \in {t \in 1..now : t + MaxWait >= now} :
        LET r == RolledOver(Recovered(IF row = NoRow THEN NewRow ELSE row, seen), seen)
        IN  IF Accepts(r, seen)
            THEN /\ lastId' = lastId + 1
                 /\ row' = [r EXCEPT !.id = lastId + 1, !.reserved = seen]
                 /\ \/ handler' = [handler EXCEPT ![h] =
                              [step |-> "admitted", id |-> lastId + 1, since |-> now]]
                    \/ UNCHANGED handler
            ELSE row' = r /\ UNCHANGED <<lastId, handler>>
  BY DEF Reserve
<1>2. PICK first : first = (IF row = NoRow THEN NewRow ELSE row)
  OBVIOUS
<1>3. PICK r : r = RolledOver(Recovered(first, seen), seen)
  OBVIOUS
<1>4. IF Accepts(r, seen)
      THEN /\ lastId' = lastId + 1
           /\ row' = [r EXCEPT !.id = lastId + 1, !.reserved = seen]
           /\ \/ handler' = [handler EXCEPT ![h] =
                        [step |-> "admitted", id |-> lastId + 1, since |-> now]]
              \/ UNCHANGED handler
      ELSE row' = r /\ UNCHANGED <<lastId, handler>>
  BY <1>1, <1>2, <1>3
<1>5. handler[h] = Idle /\ sentAt # 0 /\ UNCHANGED <<now, sentAt, mails>>
  BY DEF Reserve
<1>6. seen \in Nat /\ seen \in 1..now /\ seen <= now /\ seen + MaxWait >= now
  BY ResendFacts
<1>7. SafeRow(first)
  <2>1. CASE row = NoRow
    BY <1>2, <1>5, <2>1, ResendFacts, NewRowSafe DEF RowInv
  <2>2. CASE row # NoRow
    BY <1>2, <2>2, ResendFacts DEF RowInv
  <2> QED BY <2>1, <2>2
<1>8. SafeRow(r)
  BY <1>3, <1>6, <1>7, ResendFacts, RecoveredSafe, RolledOverSafe
<1>9. CASE Accepts(r, seen)
  <2>1. PICK q : q = [r EXCEPT !.id = lastId + 1, !.reserved = seen]
    OBVIOUS
  <2>2. /\ row' = q /\ lastId' = lastId + 1
        /\ \/ handler' = [handler EXCEPT ![h] =
                        [step |-> "admitted", id |-> lastId + 1, since |-> now]]
           \/ UNCHANGED handler
    BY <1>4, <1>9, <2>1
  <2> QED BY <1>5, <1>6, <1>8, <1>9, <2>1, <2>2, AcceptInv
<1>10. CASE ~Accepts(r, seen)
  <2>1. row' = r /\ UNCHANGED <<now, sentAt, lastId, mails, handler>>
    BY <1>4, <1>5, <1>10
  <2>2. SafeRow(r)'
    BY <1>8, <2>1, ResendFacts, SafeStays DEF Admitted
  <2> QED BY <2>1, <2>2, ResendFacts, RowWritten
<1> QED BY <1>9, <1>10

\* The mails of the row's window have slots, or stand for the reservation.
LEMMA WindowCounted ==
  ASSUME IdsInv, NEW r, SafeRow(r), NEW M, \A m \in M : m.id \in 1..lastId /\ m.id \in Slots(r) \cup {r.id},
         \A m, n \in M : m.id = n.id => m = n
  PROVE  /\ Cardinality(M) <= r.count + (IF r.id # 0 THEN 1 ELSE 0)
         /\ Cardinality(M) <= MaxResends
<1>1. /\ IsFiniteSet(Slots(r)) /\ Cardinality(Slots(r)) <= r.count
      /\ r.id # 0 => r.count < MaxResends
  BY SlotsFinite DEF SafeRow
<1>2. r.count \in Nat /\ r.count <= MaxResends
  BY RowFields, ResendConstants DEF SafeRow
<1>3. \A m \in M : m.id # 0 /\ m.id \in Slots(r) \cup {r.id}
  BY DEF IdsInv
<1> QED BY <1>1, <1>2, <1>3, MailsCounted

\* A mail leaves.
LEMMA MailInv ==
  ASSUME ResendInv, NEW h \in Handlers, Admitted(h), NEW r, row = r,
         NEW new, new = [at |-> now, id |-> handler[h].id, window |-> r.window],
         mails' = mails \cup {new}, handler' = [handler EXCEPT ![h].step = "sent"],
         UNCHANGED <<now, sentAt, row, lastId>>
  PROVE  ResendInv'
<1>1. /\ IdsInv /\ MailsInv /\ now \in Nat \ {0} /\ lastId \in Nat /\ handler \in [Handlers -> HandlerSet]
  BY ResendFacts
<1>2. r # NoRow /\ SafeRow(r) /\ r \in RowSet
  <2>1. handler[h] # Idle
    BY DEF Admitted, Idle
  <2>2. SafeRow(r) /\ r # NoRow
    BY <2>1, ResendFacts DEF RowInv
  <2> QED BY <2>2 DEF SafeRow
<1>3. /\ handler[h].id = lastId /\ handler[h].id \in 1..lastId /\ handler[h].since \in Nat
      /\ now <= handler[h].since + MaxSend
      /\ \A m \in mails : m.id # handler[h].id /\ m.id \in 1..lastId
  BY <1>1 DEF IdsInv, Admitted, HandlerSet
<1>4. /\ handler' \in [Handlers -> HandlerSet] /\ handler'[h].step = "sent"
      /\ \A g \in Handlers : /\ handler'[g].id = handler[g].id /\ handler'[g].since = handler[g].since
                             /\ g # h => handler'[g] = handler[g]
  BY <1>1 DEF HandlerSet
<1>5. \A g \in Handlers : ~Admitted(g)'
  <2>1. \A g \in Handlers : Admitted(g) => g = h
    BY <1>1, <1>3 DEF IdsInv, Admitted
  <2> QED BY <1>4, <2>1 DEF Admitted
<1>6. /\ r.window \in Nat /\ r.last \in Nat /\ r.reserved \in Nat /\ r.window <= now
      /\ new.at = now /\ new.id = lastId /\ new.window = r.window /\ new \in MailSet
  BY <1>1, <1>2, <1>3, RowFields DEF SafeRow, MailSet
<1>7. IdsInv'
  <2>1. ASSUME NEW g \in Handlers
        PROVE  /\ handler'[g].since <= now'
               /\ handler'[g].step # "idle" => handler'[g].id \in 1..lastId'
               /\ handler'[g].step \in {"admitted", "failed"} => \A m \in mails' : m.id # handler'[g].id
    <3>1. CASE g = h
      BY <1>1, <1>3, <1>4, <3>1 DEF IdsInv
    <3>2. CASE g # h
      <4>1. handler[g].step # "idle" => handler[g].id # lastId
        BY <1>1, <1>3, <3>2 DEF IdsInv, Admitted
      <4> QED BY <1>1, <1>4, <1>6, <3>2, <4>1 DEF IdsInv
    <3> QED BY <3>1, <3>2
  <2>2. \A f, g \in Handlers :
          handler'[f].step # "idle" /\ handler'[g].step # "idle" /\ handler'[f].id = handler'[g].id => f = g
    <3>1. handler[h].step # "idle"
      BY DEF Admitted
    <3>2. \A g \in Handlers : handler'[g].step # "idle" => handler[g].step # "idle"
      BY <1>4, <3>1
    <3> QED BY <1>1, <1>4, <3>2 DEF IdsInv
  <2>3. \A m \in mails' : m.id \in 1..lastId' /\ m.at <= now' /\ m.window <= m.at
    BY <1>1, <1>3, <1>6 DEF IdsInv
  <2>4. \A m, n \in mails' : m.id = n.id => m = n
    BY <1>1, <1>3, <1>6 DEF IdsInv
  <2>5. mails' \in SUBSET MailSet
    BY <1>1, <1>6 DEF IdsInv
  <2> QED BY <1>1, <1>4, <1>5, <2>1, <2>2, <2>3, <2>4, <2>5 DEF IdsInv
<1>8. lastId \in Slots(r) \cup {r.id}
  BY <1>3 DEF Slots
<1>9. SafeRow(r)'
  <2>1. Slots(r)' \subseteq Slots(r)
    BY <1>5, <1>6, <1>8 DEF Slots
  <2>2. Cardinality(Slots(r)') <= r.count
    <3>1. /\ IsFiniteSet(Slots(r)) /\ Cardinality(Slots(r)) \in Nat /\ Cardinality(Slots(r)) <= r.count
          /\ r.count \in Nat
      BY <1>1, <1>2, SlotsFinite, RowFields, ResendConstants DEF SafeRow
    <3>2. Cardinality(Slots(r)') <= Cardinality(Slots(r)) /\ Cardinality(Slots(r)') \in Nat
      BY <2>1, <3>1, FS_Subset, FS_CardinalityType
    <3> QED BY <3>1, <3>2
  <2>3. Behind(r, new.id, new.at)
    <3>1. Behind(r, lastId, handler[h].since + MaxSend)
      BY <1>2, <1>3 DEF SafeRow
    <3> QED BY <1>1, <1>3, <1>6, <3>1, ResendConstants DEF Behind
  <2>4. \A m \in mails' : /\ Behind(r, m.id, m.at)
                          /\ m.window <= r.window
                          /\ m.window # r.window => m.window + WindowLength <= r.window /\ m.at < r.window
    BY <1>2, <1>6, <2>3 DEF SafeRow
  <2>5. \A id, by : Behind(r, id, by)' <=> Behind(r, id, by)
    BY DEF Behind
  <2>6. /\ r.window <= now' /\ r.last <= now' /\ r.reserved <= now' /\ r.id <= lastId'
        /\ r.id # 0 =>
            /\ r.count < MaxResends /\ r.reserved # 0
            /\ r.last # 0 => r.last + Cooldown <= r.reserved
            /\ r.last = 0 => r.window <= r.reserved + MaxWait
    BY <1>2 DEF SafeRow
  <2> QED BY <1>2, <1>5, <2>2, <2>4, <2>5, <2>6 DEF SafeRow
<1>10. MailsInv'
  <2>1. ASSUME NEW m \in mails', NEW n \in mails', m.id < n.id PROVE m.at + Cooldown <= n.at + Delay
    <3>1. CASE m \in mails /\ n \in mails
      BY <1>1, <2>1, <3>1 DEF MailsInv
    <3>2. CASE m \in mails /\ n = new
      BY <1>1, <1>6, <3>2 DEF MailsInv
    <3>3. CASE m = new
      <4>1. n.id \in 1..lastId
        BY <1>1, <1>3, <1>6
      <4> QED BY <1>1, <1>6, <2>1, <3>3, <4>1
    <3> QED BY <3>1, <3>2, <3>3
  <2>2. ASSUME NEW m \in mails', NEW n \in mails', m.window < n.window
        PROVE  m.window + WindowLength <= n.window /\ m.at < n.window
    <3>1. CASE m \in mails /\ n \in mails
      BY <1>1, <2>2, <3>1 DEF MailsInv
    <3>2. CASE m \in mails /\ n = new
      <4>1. m.window \in Nat
        BY <1>1, <3>2 DEF IdsInv, MailSet
      <4> QED BY <1>2, <1>6, <2>2, <3>2, <4>1 DEF SafeRow
    <3>3. CASE m = new
      <4>1. n.window <= r.window /\ n.window \in Nat
        BY <1>1, <1>2, <1>6 DEF SafeRow, IdsInv, MailSet
      <4> QED BY <1>6, <2>2, <3>3, <4>1
    <3> QED BY <3>1, <3>2, <3>3
  <2>3. ASSUME NEW m \in mails'
        PROVE  Cardinality({n \in mails' : n.window = m.window}) <= MaxResends
    <3>1. CASE m.window = r.window
      <4> DEFINE M == {n \in mails' : n.window = m.window}
      <4>1. \A n \in M : n.id \in 1..lastId /\ n.id \in Slots(r) \cup {r.id}
        BY <1>3, <1>6, <1>8, <3>1 DEF Slots
      <4>2. \A n1, n2 \in M : n1.id = n2.id => n1 = n2
        BY <1>7 DEF IdsInv
      <4> HIDE DEF M
      <4>3. Cardinality(M) <= MaxResends
        BY <1>1, <1>2, <4>1, <4>2, WindowCounted
      <4> QED BY <4>3 DEF M
    <3>2. CASE m.window # r.window
      <4>1. m \in mails /\ {n \in mails' : n.window = m.window} = {n \in mails : n.window = m.window}
        BY <1>6, <3>2
      <4>2. Cardinality({n \in mails : n.window = m.window}) <= MaxResends
        BY <1>1, <4>1 DEF MailsInv
      <4> QED BY <4>1, <4>2
    <3> QED BY <3>1, <3>2
  <2> QED BY <1>5, <2>1, <2>2, <2>3 DEF MailsInv
<1>11. RowInv'
  BY <1>2, <1>9 DEF RowInv
<1> QED BY <1>7, <1>10, <1>11 DEF ResendInv

\* An error is returned: nothing is added to the mails without one.
LEMMA RefusedInv ==
  ASSUME ResendInv, NEW h \in Handlers, Admitted(h), NEW r, row = r,
         handler' = [handler EXCEPT ![h].step = "failed"],
         UNCHANGED <<now, sentAt, row, lastId, mails>>
  PROVE  ResendInv'
<1>1. /\ IdsInv /\ MailsInv /\ now \in Nat \ {0} /\ lastId \in Nat /\ handler \in [Handlers -> HandlerSet]
  BY ResendFacts
<1>2. r # NoRow /\ SafeRow(r)
  <2>1. handler[h] # Idle
    BY DEF Admitted, Idle
  <2> QED BY <2>1, ResendFacts DEF RowInv
<1>3. /\ handler' \in [Handlers -> HandlerSet] /\ handler'[h].step = "failed"
      /\ \A g \in Handlers : /\ handler'[g].id = handler[g].id /\ handler'[g].since = handler[g].since
                             /\ g # h => handler'[g] = handler[g]
  BY <1>1 DEF HandlerSet
<1>4. \A g \in Handlers : Admitted(g)' => Admitted(g) /\ handler'[g] = handler[g]
  BY <1>3 DEF Admitted
<1>5. \A g \in Handlers : /\ handler'[g].step # "idle" => handler[g].step # "idle"
                          /\ handler'[g].step \in {"admitted", "failed"} =>
                               handler[g].step \in {"admitted", "failed"}
  BY <1>3 DEF Admitted
<1>6. IdsInv'
  <2>1. \A g \in Handlers :
          /\ handler'[g].since <= now'
          /\ handler'[g].step # "idle" => handler'[g].id \in 1..lastId'
          /\ Admitted(g)' => handler'[g].id = lastId' /\ now' <= handler'[g].since + MaxSend
          /\ handler'[g].step \in {"admitted", "failed"} => \A m \in mails' : m.id # handler'[g].id
    BY <1>1, <1>3, <1>4, <1>5 DEF IdsInv
  <2>2. \A f, g \in Handlers :
          handler'[f].step # "idle" /\ handler'[g].step # "idle" /\ handler'[f].id = handler'[g].id => f = g
    BY <1>1, <1>3, <1>5 DEF IdsInv
  <2> QED BY <1>1, <1>3, <2>1, <2>2 DEF IdsInv
<1>7. SafeRow(r)'
  BY <1>1, <1>2, <1>4, SafeStays
<1>8. MailsInv'
  BY <1>1, <1>4, MailsStay
<1>9. RowInv'
  BY <1>2, <1>7 DEF RowInv
<1> QED BY <1>6, <1>8, <1>9 DEF ResendInv

\* The mail leaves, or an error is returned, whether it left or not.
LEMMA SendInv == ASSUME ResendInv, NEW h \in Handlers, Send(h) PROVE ResendInv'
<1>1. PICK r : row = r
  OBVIOUS
<1>2. PICK new : new = [at |-> now, id |-> handler[h].id, window |-> r.window]
  OBVIOUS
<1>3. /\ Admitted(h) /\ UNCHANGED <<now, sentAt, row, lastId>>
      /\ \/ mails' = mails \cup {new} /\ handler' = [handler EXCEPT ![h].step = "sent"]
         \/ mails' = mails /\ handler' = [handler EXCEPT ![h].step = "failed"]
  BY <1>1, <1>2 DEF Send, Mail, Admitted
<1>4. CASE mails' = mails \cup {new} /\ handler' = [handler EXCEPT ![h].step = "sent"]
  BY <1>1, <1>2, <1>3, <1>4, MailInv
<1>5. CASE mails' = mails /\ handler' = [handler EXCEPT ![h].step = "failed"]
  BY <1>1, <1>3, <1>5, RefusedInv
<1> QED BY <1>3, <1>4, <1>5

\* A handler ends; what it makes of the row is safe.
LEMMA EndInv ==
  ASSUME ResendInv, NEW h \in Handlers, handler[h].step # "idle", NEW q, SafeRow(q), End(h, q)
  PROVE  ResendInv'
<1>1. row' = q /\ handler' = [handler EXCEPT ![h] = Idle] /\ UNCHANGED <<now, sentAt, lastId, mails>>
  BY DEF End
<1>2. Idle \in HandlerSet
  BY DEF Idle, HandlerSet
<1>3. /\ handler' \in [Handlers -> HandlerSet]
      /\ \A g \in Handlers : handler'[g] = handler[g] \/ handler'[g] = Idle
  BY <1>1, <1>2, ResendFacts
<1>4. \A g \in Handlers : Admitted(g)' => Admitted(g) /\ handler'[g] = handler[g]
  BY <1>3 DEF Admitted, Idle
<1>5. SafeRow(q)'
  BY <1>1, <1>4, ResendFacts, SafeStays
<1> QED BY <1>1, <1>3, <1>5, RowWritten

\* The row of a handler that is at work, and its reservation.
LEMMA WorkingFacts ==
  ASSUME ResendInv, NEW h \in Handlers, handler[h].step # "idle", NEW r, row = r
  PROVE  /\ r # NoRow /\ SafeRow(r) /\ r \in RowSet
         /\ handler[h].id \in 1..lastId /\ lastId \in Nat
<1>1. handler[h] # Idle
  BY DEF Idle
<1>2. SafeRow(r) /\ r # NoRow
  BY <1>1, ResendFacts DEF RowInv
<1>3. r \in RowSet
  BY <1>2 DEF SafeRow
<1> QED BY <1>2, <1>3, ResendFacts DEF IdsInv

\* A mail that left has its slot, and the cooldown begins.
LEMMA FinalizeInv == ASSUME ResendInv, NEW h \in Handlers, FinalizeResend(h) PROVE ResendInv'
<1>1. PICK r : row = r
  OBVIOUS
<1>2. handler[h].step = "sent"
  BY DEF FinalizeResend
<1>3. PICK q : q = Finalized(h)
  OBVIOUS
<1>4. End(h, q)
  BY <1>3 DEF FinalizeResend
<1>5. /\ r # NoRow /\ SafeRow(r) /\ r \in RowSet /\ handler[h].id \in 1..lastId /\ lastId \in Nat
  BY <1>1, <1>2, WorkingFacts
<1>6. CASE ~(Matches(h) /\ r.count < 3)
  <2>1. q = r
    BY <1>1, <1>3, <1>6 DEF Finalized
  <2> QED BY <1>2, <1>4, <1>5, <2>1, EndInv
<1>7. CASE Matches(h) /\ r.count < 3
  <2>1. r.id = handler[h].id /\ r.id # 0 /\ now \in Nat \ {0} /\ IdsInv
    BY <1>1, <1>5, <1>7, ResendFacts DEF Matches
  <2>2. PICK f : f = [r EXCEPT !.id = 0, !.reserved = 0]
    OBVIOUS
  <2>3. q = [f EXCEPT !.count = @ + 1, !.last = now]
    BY <1>1, <1>3, <1>7, <2>2 DEF Finalized, Freed
  <2>4. /\ r.count \in Nat /\ r.count + 1 \in 0..MaxResends /\ r.window \in Nat /\ r.window <= now
    BY <1>5, <2>1, RowFields, ResendConstants DEF SafeRow
  <2>5. /\ f \in RowSet /\ f.window = r.window /\ f.count = r.count /\ f.id = 0 /\ f.reserved = 0
    BY <2>2, <1>5 DEF RowSet
  <2>6. /\ q \in RowSet /\ q.window = r.window /\ q.count = r.count + 1 /\ q.id = 0
        /\ q.reserved = 0 /\ q.last = now
    BY <2>1, <2>3, <2>4, <2>5 DEF RowSet
  <2>7. ASSUME NEW id \in 1..lastId, NEW by \in Nat, by <= now + MaxSend
        PROVE  Behind(q, id, by)
    <3>1. by <= now + Delay
      BY <2>1, <2>7, ResendConstants
    <3> QED BY <1>5, <2>1, <2>6, <3>1 DEF Behind
  <2>8. ASSUME NEW m \in mails
        PROVE  /\ Behind(q, m.id, m.at)
               /\ m.window <= q.window
               /\ m.window # q.window => m.window + WindowLength <= q.window /\ m.at < q.window
    <3>1. m.id \in 1..lastId /\ m.at \in Nat /\ m.at <= now
      BY <2>1 DEF IdsInv, MailSet
    <3>2. m.at <= now + MaxSend
      BY <2>1, <3>1, ResendConstants
    <3>3. Behind(q, m.id, m.at)
      BY <2>7, <3>1, <3>2
    <3> QED BY <1>5, <2>6, <3>3 DEF SafeRow
  <2>9. ASSUME NEW g \in Handlers, Admitted(g)
        PROVE  Behind(q, handler[g].id, handler[g].since + MaxSend)
    <3>1. handler[g].id \in 1..lastId /\ handler[g].since \in Nat /\ handler[g].since <= now
      BY <2>1, <2>9 DEF IdsInv, HandlerSet, Admitted
    <3>2. handler[g].since + MaxSend \in Nat /\ handler[g].since + MaxSend <= now + MaxSend
      BY <2>1, <3>1, ResendConstants
    <3> QED BY <2>7, <3>1, <3>2
  <2>10. Cardinality(Slots(q)) <= q.count
    <3>1. Slots(q) \subseteq Slots(r) \cup {r.id}
      BY <2>6 DEF Slots
    <3>2. IsFiniteSet(Slots(r)) /\ Cardinality(Slots(r)) \in Nat /\ Cardinality(Slots(r)) <= r.count
      BY <1>5, <2>1, SlotsFinite DEF SafeRow
    <3>3. IsFiniteSet(Slots(r) \cup {r.id})
          /\ Cardinality(Slots(r) \cup {r.id}) <= Cardinality(Slots(r)) + 1
          /\ Cardinality(Slots(r) \cup {r.id}) \in Nat
      BY <3>2, OneMore
    <3>4. Cardinality(Slots(q)) <= Cardinality(Slots(r) \cup {r.id}) /\ Cardinality(Slots(q)) \in Nat
      BY <3>1, <3>3, FS_Subset, FS_CardinalityType
    <3> QED BY <2>4, <2>6, <3>2, <3>3, <3>4
  <2>11. q.window <= now /\ q.last <= now /\ q.reserved <= now /\ q.id <= lastId
    BY <1>5, <2>1, <2>4, <2>6
  <2>12. SafeRow(q)
    BY <2>6, <2>8, <2>9, <2>10, <2>11 DEF SafeRow
  <2> QED BY <1>2, <1>4, <2>12, EndInv
<1> QED BY <1>6, <1>7

\* After an error the slot is free again.
LEMMA ReleaseInv == ASSUME ResendInv, NEW h \in Handlers, ReleaseResend(h) PROVE ResendInv'
<1>1. PICK r : row = r
  OBVIOUS
<1>2. handler[h].step = "failed"
  BY DEF ReleaseResend
<1>3. PICK q : q = Freed(h)
  OBVIOUS
<1>4. End(h, q)
  BY <1>3 DEF ReleaseResend
<1>5. /\ r # NoRow /\ SafeRow(r) /\ r \in RowSet /\ handler[h].id \in 1..lastId /\ lastId \in Nat
  BY <1>1, <1>2, WorkingFacts
<1>6. CASE ~Matches(h)
  <2>1. q = r
    BY <1>1, <1>3, <1>6 DEF Freed
  <2> QED BY <1>2, <1>4, <1>5, <2>1, EndInv
<1>7. CASE Matches(h)
  <2>1. r.id = handler[h].id /\ r.id # 0 /\ now \in Nat \ {0} /\ IdsInv
    BY <1>1, <1>5, <1>7, ResendFacts DEF Matches
  <2>2. q = [r EXCEPT !.id = 0, !.reserved = 0]
    BY <1>1, <1>3, <1>7 DEF Freed
  <2>3. /\ q \in RowSet /\ q.window = r.window /\ q.count = r.count /\ q.id = 0 /\ q.reserved = 0
        /\ q.last = r.last
    BY <1>5, <2>2 DEF RowSet
  <2>4. ASSUME NEW id \in 1..lastId, id # r.id, NEW by, Behind(r, id, by)
        PROVE  Behind(q, id, by)
    BY <1>5, <2>3, <2>4 DEF Behind
  <2>5. ASSUME NEW m \in mails
        PROVE  /\ Behind(q, m.id, m.at) /\ m.id # r.id
               /\ m.window <= q.window
               /\ m.window # q.window => m.window + WindowLength <= q.window /\ m.at < q.window
    <3>1. m.id \in 1..lastId /\ m.id # r.id /\ Behind(r, m.id, m.at)
      BY <1>2, <1>5, <2>1 DEF IdsInv, SafeRow
    <3>2. Behind(q, m.id, m.at)
      BY <2>4, <3>1
    <3> QED BY <1>5, <2>3, <3>1, <3>2 DEF SafeRow
  <2>6. ASSUME NEW g \in Handlers, Admitted(g)
        PROVE  Behind(q, handler[g].id, handler[g].since + MaxSend) /\ handler[g].id # r.id
    <3>1. handler[g].id \in 1..lastId /\ handler[g].id # r.id
      <4>1. handler[g].step # "idle" /\ handler[h].step # "idle" /\ g # h
        BY <1>2, <2>6 DEF Admitted
      <4> QED BY <2>1, <4>1 DEF IdsInv
    <3> QED BY <1>5, <2>4, <2>6, <3>1 DEF SafeRow
  <2>7. Slots(q) \subseteq Slots(r)
    BY <2>3, <2>5, <2>6 DEF Slots
  <2>8. Cardinality(Slots(q)) <= q.count
    <3>1. IsFiniteSet(Slots(r)) /\ Cardinality(Slots(r)) \in Nat /\ Cardinality(Slots(r)) <= r.count
          /\ r.count \in Nat
      BY <1>5, <2>1, SlotsFinite, RowFields, ResendConstants DEF SafeRow
    <3>2. Cardinality(Slots(q)) <= Cardinality(Slots(r)) /\ Cardinality(Slots(q)) \in Nat
      BY <2>7, <3>1, FS_Subset, FS_CardinalityType
    <3> QED BY <2>3, <3>1, <3>2
  <2>9. q.window <= now /\ q.last <= now /\ q.reserved <= now /\ q.id <= lastId
    BY <1>5, <2>1, <2>3 DEF SafeRow
  <2>10. SafeRow(q)
    BY <2>3, <2>5, <2>6, <2>8, <2>9 DEF SafeRow
  <2> QED BY <1>2, <1>4, <2>10, EndInv
<1> QED BY <1>6, <1>7

\* A function dies: its reservation stays.
LEMMA KillInv == ASSUME ResendInv, NEW h \in Handlers, Kill(h) PROVE ResendInv'
<1>1. PICK r : row = r
  OBVIOUS
<1>2. handler[h].step # "idle" /\ End(h, r)
  BY <1>1 DEF Kill
<1>3. SafeRow(r)
  BY <1>1, <1>2, WorkingFacts
<1> QED BY <1>2, <1>3, EndInv

-----------------------------------------------------------------------------
(***************************************************************************)
(* The invariant, and what it says of the mails.                           *)
(***************************************************************************)
LEMMA ResendStart == ResendInit => ResendInv
<1> SUFFICES ASSUME ResendInit PROVE ResendInv
  OBVIOUS
<1>1. /\ now = 1 /\ sentAt = 0 /\ row = NoRow /\ handler = [h \in Handlers |-> Idle]
      /\ lastId = 0 /\ mails = {}
  BY DEF ResendInit
<1>2. Idle \in HandlerSet /\ Idle.step = "idle" /\ Idle.since = 0
  BY DEF Idle, HandlerSet
<1>3. \A h \in Handlers : handler[h] = Idle /\ ~Admitted(h)
  BY <1>1, <1>2 DEF Admitted
<1>4. IdsInv
  BY <1>1, <1>2, <1>3 DEF IdsInv
<1>5. RowInv
  BY <1>1, <1>3 DEF RowInv
<1>6. MailsInv
  BY <1>1, <1>3 DEF MailsInv
<1> QED BY <1>4, <1>5, <1>6 DEF ResendInv

\* Every step keeps the invariant.
LEMMA ResendSteps == ResendInv /\ [ResendNext]_vars => ResendInv'
<1> SUFFICES ASSUME ResendInv, [ResendNext]_vars PROVE ResendInv'
  OBVIOUS
<1>1. CASE Tick \/ SignUp \/ Confirm
  BY <1>1, ClockInv
<1>2. CASE RegisterInitial
  BY <1>2, RegisterInv
<1>3. ASSUME NEW h \in Handlers, Reserve(h) PROVE ResendInv'
  BY <1>3, ReserveInv
<1>4. ASSUME NEW h \in Handlers, Send(h) PROVE ResendInv'
  BY <1>4, SendInv
<1>5. ASSUME NEW h \in Handlers, FinalizeResend(h) PROVE ResendInv'
  BY <1>5, FinalizeInv
<1>6. ASSUME NEW h \in Handlers, ReleaseResend(h) PROVE ResendInv'
  BY <1>6, ReleaseInv
<1>7. ASSUME NEW h \in Handlers, Kill(h) PROVE ResendInv'
  BY <1>7, KillInv
<1>8. CASE UNCHANGED vars
  <2>1. UNCHANGED <<now, sentAt, row, handler, lastId, mails>>
    BY <1>8 DEF vars
  <2>2. now <= now' /\ now' \in Nat \ {0} /\ sentAt' \in Nat /\ sentAt' <= now'
    BY <2>1, ResendFacts
  <2> QED BY <2>1, <2>2, ResendFacts, QuietStep
<1> QED BY <1>1, <1>2, <1>3, <1>4, <1>5, <1>6, <1>7, <1>8 DEF ResendNext

\* The limiter's inductive invariant holds in every state.
LEMMA ResendAlways == ResendSpec => []ResendInv
<1> QED BY ResendStart, ResendSteps, PTL DEF ResendSpec

\* Every mail of the current window of which no error was returned has a slot
\* in the row, or is the one the live reservation stands for: however handlers
\* die, answers of the database are lost, leases end, and other mails of the
\* window leave with an error and have their slots released.
THEOREM MailsAreCounted == ResendSpec => []NoUncountedMail
<1>1. ResendInv => NoUncountedMail
  <2> SUFFICES ASSUME ResendInv, row # NoRow
               PROVE  Cardinality({m \in mails : m.window = row.window})
                        <= row.count + (IF row.id # 0 THEN 1 ELSE 0)
    BY DEF NoUncountedMail
  <2>1. PICK r : row = r
    OBVIOUS
  <2> DEFINE M == {m \in mails : m.window = r.window}
  <2>2. SafeRow(r) /\ IdsInv
    BY <2>1, ResendFacts DEF RowInv
  <2>3. \A m \in M : m.id \in 1..lastId /\ m.id \in Slots(r) \cup {r.id}
    BY <2>2 DEF Slots, IdsInv
  <2>4. \A m, n \in M : m.id = n.id => m = n
    BY <2>2 DEF IdsInv
  <2> HIDE DEF M
  <2>5. Cardinality(M) <= r.count + (IF r.id # 0 THEN 1 ELSE 0)
    BY <2>2, <2>3, <2>4, WindowCounted
  <2> QED BY <2>1, <2>5 DEF M
<1> QED BY <1>1, ResendAlways, PTL

\* The time a window lasts sees at most its allowance of mails of which no error
\* was returned, also those that were reserved under a window before it.
THEOREM WindowsAreLimited == ResendSpec => []WindowLimited
<1>1. ResendInv => WindowLimited
  <2> SUFFICES ASSUME ResendInv, NEW m \in mails
               PROVE  Cardinality({n \in mails : n.at \in m.window..(m.window + WindowLength - 1)})
                        <= MaxResends
    BY DEF WindowLimited
  <2> DEFINE S == {n \in mails : n.window = m.window}
             T == {n \in mails : n.at \in m.window..(m.window + WindowLength - 1)}
  <2>1. IdsInv /\ MailsInv
    BY ResendFacts
  <2>2. T \subseteq S
    <3>1. ASSUME NEW n \in mails, n.at \in m.window..(m.window + WindowLength - 1)
          PROVE  n.window = m.window
      <4>1. m.window \in Nat /\ n.window \in Nat /\ n.at \in Nat /\ n.window <= n.at
        BY <2>1 DEF IdsInv, MailSet
      <4>2. ~(m.window < n.window)
        <5>1. m.window < n.window => m.window + WindowLength <= n.window
          BY <2>1 DEF MailsInv
        <5> QED BY <3>1, <4>1, <5>1, ResendConstants
      <4>3. ~(n.window < m.window)
        <5>1. n.window < m.window => n.at < m.window
          BY <2>1 DEF MailsInv
        <5> QED BY <3>1, <4>1, <5>1, ResendConstants
      <4> QED BY <4>1, <4>2, <4>3
    <3> QED BY <3>1
  <2>3. IsFiniteSet(S)
    <3>1. \A n \in S : n.id \in 1..lastId
      BY <2>1 DEF IdsInv
    <3>2. \A n1, n2 \in S : n1.id = n2.id => n1 = n2
      BY <2>1 DEF IdsInv
    <3>3. IsFiniteSet(1..lastId)
      BY <2>1, FS_Interval DEF IdsInv
    <3> HIDE DEF S
    <3> QED BY <3>1, <3>2, <3>3, MailsById
  <2>4. Cardinality(S) <= MaxResends
    BY <2>1 DEF MailsInv
  <2> HIDE DEF S, T
  <2>5. Cardinality(T) <= Cardinality(S) /\ Cardinality(T) \in Nat /\ Cardinality(S) \in Nat
    BY <2>2, <2>3, FS_Subset, FS_CardinalityType
  <2>6. Cardinality(T) <= MaxResends
    BY <2>4, <2>5, ResendConstants
  <2> QED BY <2>6 DEF T
<1> QED BY <1>1, ResendAlways, PTL

\* Two mails of which no error was returned are apart by the cooldown, less the
\* time between a reservation's clock and its mail, whichever handlers sent them
\* and whatever became of these, also when one that left with an error is between.
THEOREM MailsStayApart == ResendSpec => []MailsSpaced
<1>1. ResendInv => MailsSpaced
  <2> SUFFICES ASSUME ResendInv, NEW m \in mails, NEW n \in mails, m.id < n.id
               PROVE  n.at >= m.at + Cooldown - (MaxWait + MaxSend)
    BY DEF MailsSpaced
  <2>1. m.at + Cooldown <= n.at + Delay
    BY ResendFacts DEF MailsInv
  <2>2. m.at \in Nat /\ n.at \in Nat
    BY ResendFacts DEF IdsInv, MailSet
  <2> QED BY <2>1, <2>2, ResendConstants
<1> QED BY <1>1, ResendAlways, PTL
=============================================================================
