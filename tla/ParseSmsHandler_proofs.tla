------------------------ MODULE ParseSmsHandler_proofs ------------------------
(***************************************************************************)
(* What holds of the parse function for any requests, handlers, limits and *)
(* windows: the limits are kept, a request runs the provider once at most, *)
(* a strike needs a result, and nothing terminal is started.               *)
(***************************************************************************)
EXTENDS ParseSmsHandler, FiniteSetTheorems, WellFoundedInduction, TLAPS

-----------------------------------------------------------------------------
(***************************************************************************)
(* Sums of units.                                                          *)
(***************************************************************************)
UnitTable == [Keys -> [status : Statuses, request : Requests \cup {NoRequest},
                       units : 0..Cardinality(Sms), expires : Nat]]
Tokens(table, S) == {unit \in S \X (1..Cardinality(Sms)) : unit[2] <= table[unit[1]].units}

\* The units of some requests are their tokens, one per unit.
LEMMA UnitsAreTokens == \A table, S : UnitsOf(table, S) = Cardinality(Tokens(table, S))
BY DEF UnitsOf, Tokens

\* There are finitely many units.
LEMMA TokensFinite ==
  ASSUME NEW table, NEW S \in SUBSET Keys
  PROVE  IsFiniteSet(Tokens(table, S)) /\ Cardinality(Tokens(table, S)) \in Nat
<1>1. IsFiniteSet(S) /\ Cardinality(Sms) \in Nat
  BY LedgerAssumption, FS_Subset, FS_CardinalityType
<1>2. IsFiniteSet(1..Cardinality(Sms))
  BY <1>1, FS_Interval
<1>3. IsFiniteSet(S \X (1..Cardinality(Sms)))
  BY <1>1, <1>2, FS_Product
<1> QED BY <1>3, FS_Subset, FS_CardinalityType DEF Tokens

\* Units are a number.
LEMMA UnitsType ==
  ASSUME NEW table, NEW S \in SUBSET Keys
  PROVE  UnitsOf(table, S) \in Nat
BY TokensFinite, UnitsAreTokens

\* More requests have no fewer units, if those they share have not changed.
LEMMA UnitsMono ==
  ASSUME NEW old, NEW new, NEW S \in SUBSET Keys, NEW T \in SUBSET Keys, S \subseteq T,
         \A k \in S : new[k].units = old[k].units
  PROVE  UnitsOf(new, S) <= UnitsOf(old, T)
<1>1. Tokens(new, S) \subseteq Tokens(old, T)
  BY DEF Tokens
<1> QED BY <1>1, TokensFinite, FS_Subset, UnitsAreTokens

\* One request has as many tokens as units.
LEMMA OneRequest ==
  ASSUME NEW k, NEW n \in Nat
  PROVE  IsFiniteSet({k} \X (1..n)) /\ Cardinality({k} \X (1..n)) = n
<1>1. 1 \in Int /\ n \in Int
  OBVIOUS
<1>2. IsFiniteSet(1..n) /\ Cardinality(1..n) = IF 1 > n THEN 0 ELSE n - 1 + 1
  BY <1>1, FS_Interval
<1>3. Cardinality(1..n) = n
  BY <1>2
<1>4. IsFiniteSet({k}) /\ Cardinality({k}) = 1
  BY FS_Singleton
<1>5. Cardinality({k} \X (1..n)) = 1 * n
  BY <1>2, <1>3, <1>4, FS_Product
<1> QED BY <1>2, <1>4, <1>5, FS_Product

\* A request adds its units.
LEMMA UnitsAdd ==
  ASSUME NEW table \in UnitTable, NEW S \in SUBSET Keys, NEW k \in Keys \ S
  PROVE  UnitsOf(table, S \cup {k}) = UnitsOf(table, S) + table[k].units
<1> DEFINE n == table[k].units
           mine == {k} \X (1..n)
<1>1. n \in 0..Cardinality(Sms) /\ Cardinality(Sms) \in Nat /\ n \in Nat
  BY LedgerAssumption, FS_CardinalityType DEF UnitTable
<1>2. Tokens(table, S \cup {k}) = Tokens(table, S) \cup mine
  BY <1>1 DEF Tokens
<1>3. Tokens(table, S) \cap mine = {}
  BY DEF Tokens
<1> HIDE DEF n
<1>4. IsFiniteSet(mine) /\ Cardinality(mine) = n
  BY <1>1, OneRequest
<1>5. IsFiniteSet(Tokens(table, S)) /\ Cardinality(Tokens(table, S)) \in Nat
  BY TokensFinite
<1> HIDE DEF mine
<1>6. Cardinality(Tokens(table, S) \cup mine) =
        Cardinality(Tokens(table, S)) + Cardinality(mine) - Cardinality(Tokens(table, S) \cap mine)
  BY <1>4, <1>5, FS_Union
<1>7. Cardinality(Tokens(table, S) \cap mine) = 0
  BY <1>3, FS_EmptySet
<1>8. Cardinality(Tokens(table, S) \cup mine) = Cardinality(Tokens(table, S)) + n
  BY <1>1, <1>4, <1>5, <1>6, <1>7
<1> QED BY <1>2, <1>8, UnitsAreTokens DEF n

-----------------------------------------------------------------------------
(***************************************************************************)
(* The first start of a session.                                           *)
(***************************************************************************)
\* A set of numbers has a least one.
LEMMA NatMin ==
  ASSUME NEW S \in SUBSET Nat, S # {}
  PROVE  Min(S) \in S /\ \A m \in S : Min(S) <= m
<1> DEFINE R == OpToRel(<, Nat)
<1>1. \A x, y \in Nat : x < y => <<x, y>> \in R
  BY DEF OpToRel
<1>2. IsWellFoundedOn(R, Nat)
  BY NatLessThanWellFounded
<1> HIDE DEF R
<1>3. PICK x \in S : \A y \in S : ~(<<y, x>> \in R)
  BY <1>2, WFMin
<1>4. ASSUME NEW y \in S PROVE x <= y
  <2>1. x \in Nat /\ y \in Nat
    OBVIOUS
  <2>2. ~(y < x)
    BY <1>1, <1>3, <2>1
  <2> QED BY <2>1, <2>2
<1> QED BY <1>3, <1>4 DEF Min

\* A later number leaves the least one as it is.
LEMMA MinStays ==
  ASSUME NEW S \in SUBSET Nat, S # {}, NEW n \in Nat, \A m \in S : m <= n
  PROVE  Min(S \cup {n}) = Min(S)
<1>1. Min(S) \in S /\ \A m \in S : Min(S) <= m
  BY NatMin
<1>2. /\ Min(S \cup {n}) \in S \cup {n}
      /\ \A m \in S \cup {n} : Min(S \cup {n}) <= m
  BY NatMin
<1>3. Min(S) \in Nat /\ Min(S \cup {n}) \in Nat /\ Min(S) <= n
  BY <1>1, <1>2
<1>4. Min(S) <= Min(S \cup {n}) /\ Min(S \cup {n}) <= Min(S)
  BY <1>1, <1>2, <1>3
<1> QED BY <1>3, <1>4

\* The starts of a session, as a set of instants.
StartsOf(session) ==
    {startedAt[k] : k \in {j \in Keys : startedAt[j] # 0 /\ rows[j].request.session = session}}

\* The first start of a session is the earliest of its starts.
LEMMA FirstStartFacts ==
  ASSUME startedAt \in [Keys -> Nat], NEW session
  PROVE  /\ FirstStart(session) = Min(StartsOf(session))
         /\ StartsOf(session) \in SUBSET Nat
         /\ Started(session) <=> StartsOf(session) # {}
         /\ Started(session) =>
              FirstStart(session) \in Nat /\ \A m \in StartsOf(session) : FirstStart(session) <= m
<1>1. FirstStart(session) = Min(StartsOf(session))
  BY DEF FirstStart, StartsOf
<1>2. StartsOf(session) \in SUBSET Nat
  BY DEF StartsOf
<1>3. Started(session) <=> StartsOf(session) # {}
  BY DEF Started, StartsOf
<1> QED BY <1>1, <1>2, <1>3, NatMin

-----------------------------------------------------------------------------
(***************************************************************************)
(* The ledger.  The limits are about the starts of any window; a           *)
(* reservation is admitted when what is started and what is reserved leave *)
(* room for it, so what the invariant bounds is both together: a start     *)
(* only moves a request from one to the other.                             *)
(***************************************************************************)
Charged == {"provider_started", "completed", "completed_with_provider_error"}
StartedKeys == {k \in Keys : startedAt[k] # 0}
OfSession(session) == {k \in StartedKeys \cup Live : rows[k].request.session = session}

\* The types of the ledger; a request is charged when it was started.
RowsOK ==
    /\ now \in Nat \ {0}
    /\ rows \in UnitTable
    /\ startedAt \in [Keys -> Nat]
    /\ strikes \in [Sms -> 0..3]
    /\ \A k \in Keys :
        /\ startedAt[k] <= now
        /\ startedAt[k] # 0 <=> rows[k].status \in Charged
        /\ rows[k].status # "none" => rows[k].request \in Requests

Room ==
    /\ Units(Since(RollingWindow)) + Units(Live) <= MaxRolling
    /\ Cardinality(Since(BurstWindow)) + Cardinality(Live) <= MaxBurst
    /\ \A session \in Sessions : Units(OfSession(session)) <= MaxScan

LedgerInv == RowsOK /\ Room /\ RollingLimit /\ BurstLimit /\ HistoryCooldown

\* The ledger's constants are numbers.
LEMMA LedgerConstants ==
  /\ MaxScan \in Nat /\ MaxRolling \in Nat /\ MaxBurst \in Nat
  /\ RollingWindow \in Nat \ {0} /\ BurstWindow \in Nat \ {0} /\ Cooldown \in Nat \ {0}
BY LedgerAssumption

\* Numbers of keys.
LEMMA KeysMono ==
  ASSUME NEW T \in SUBSET Keys, NEW S \in SUBSET T
  PROVE  /\ IsFiniteSet(T) /\ Cardinality(T) \in Nat /\ Cardinality(S) \in Nat
         /\ Cardinality(S) <= Cardinality(T)
<1>1. IsFiniteSet(T)
  BY LedgerAssumption, FS_Subset
<1> QED BY <1>1, FS_Subset, FS_CardinalityType

\* The sets the limits count are sets of keys.
LEMMA KeySets ==
  /\ Live \in SUBSET Keys /\ StartedKeys \in SUBSET Keys
  /\ \A window : Since(window) \in SUBSET Keys
  /\ \A from, window : StartsIn(from, window) \in SUBSET StartedKeys
  /\ \A session : OfSession(session) \in SUBSET Keys
BY DEF Live, Reserved, StartedKeys, Since, StartsIn, OfSession

\* What a charge cost stays within the limits of all windows, if there is room
\* and nothing is started.
LEMMA HistoryQuiet ==
  ASSUME LedgerInv, RowsOK', now <= now', startedAt' = startedAt,
         \A k \in StartedKeys : rows'[k].units = rows[k].units /\ rows'[k].request = rows[k].request
  PROVE  RollingLimit' /\ BurstLimit' /\ HistoryCooldown'
<1> USE LedgerConstants
<1>1. now \in Nat /\ now' \in Nat /\ startedAt \in [Keys -> Nat]
      /\ \A k \in Keys : startedAt[k] <= now
  BY DEF LedgerInv, RowsOK
<1>2. ASSUME NEW from \in 1..now', NEW window \in Nat
      PROVE  \/ from \in 1..now
             \/ StartsIn(from, window) = {}
  BY <1>1 DEF StartsIn
<1>3. \A from, window : StartsIn(from, window)' = StartsIn(from, window)
  BY DEF StartsIn
<1>4. RollingLimit'
  <2> SUFFICES ASSUME NEW from \in 1..now'
               PROVE  UnitsOf(rows', StartsIn(from, RollingWindow)') <= MaxRolling
    BY DEF RollingLimit, Units
  <2> DEFINE S == StartsIn(from, RollingWindow)
  <2>1. S \in SUBSET Keys /\ S \subseteq StartedKeys /\ StartsIn(from, RollingWindow)' = S
    BY <1>3, KeySets
  <2>2. CASE from \in 1..now
    <3>1. UnitsOf(rows, S) <= MaxRolling
      BY <2>2 DEF LedgerInv, RollingLimit, Units
    <3> HIDE DEF S
    <3>2. UnitsOf(rows', S) <= UnitsOf(rows, S)
      BY <2>1, UnitsMono
    <3>3. UnitsOf(rows', S) \in Nat /\ UnitsOf(rows, S) \in Nat
      BY <2>1, UnitsType
    <3> QED BY <2>1, <3>1, <3>2, <3>3
  <2>3. CASE S = {}
    <3>1. Since(RollingWindow) \in SUBSET Keys /\ Live \in SUBSET Keys
      BY KeySets
    <3>2. UnitsOf(rows', {}) <= UnitsOf(rows, Since(RollingWindow))
      BY <3>1, UnitsMono
    <3>3. /\ UnitsOf(rows, Since(RollingWindow)) \in Nat /\ UnitsOf(rows, Live) \in Nat
          /\ UnitsOf(rows', {}) \in Nat
      BY <3>1, UnitsType
    <3>4. UnitsOf(rows, Since(RollingWindow)) + UnitsOf(rows, Live) <= MaxRolling
      BY DEF LedgerInv, Room, Units
    <3> QED BY <2>1, <2>3, <3>2, <3>3, <3>4
  <2> QED BY <1>2, <2>2, <2>3
<1>5. BurstLimit'
  <2> SUFFICES ASSUME NEW from \in 1..now'
               PROVE  Cardinality(StartsIn(from, BurstWindow)') <= MaxBurst
    BY DEF BurstLimit
  <2>1. CASE from \in 1..now
    BY <1>3, <2>1 DEF LedgerInv, BurstLimit
  <2>2. CASE StartsIn(from, BurstWindow) = {}
    BY <1>3, <2>2, FS_EmptySet
  <2> QED BY <1>2, <2>1, <2>2
<1>6. HistoryCooldown'
  <2>1. \A session : Started(session)' = Started(session)
    BY DEF Started, StartedKeys
  <2>2. ASSUME NEW session PROVE FirstStart(session)' = FirstStart(session)
    <3>1. {j \in Keys : startedAt'[j] # 0 /\ rows'[j].request.session = session} =
          {j \in Keys : startedAt[j] # 0 /\ rows[j].request.session = session}
      BY DEF StartedKeys
    <3> QED BY <3>1, Zenon DEF FirstStart
  <2> QED BY <2>1, <2>2 DEF LedgerInv, HistoryCooldown, StartedKeys
<1> QED BY <1>4, <1>5, <1>6

\* Time passes, requests are released, refused or completed: nothing is added.
LEMMA LedgerQuiet ==
  ASSUME LedgerInv, RowsOK', now <= now', startedAt' = startedAt, Live' \subseteq Live,
         \A k \in Live' \cup StartedKeys :
            rows'[k].units = rows[k].units /\ rows'[k].request = rows[k].request
  PROVE  LedgerInv'
<1> USE LedgerConstants
<1>1. now \in Nat /\ now' \in Nat /\ startedAt \in [Keys -> Nat]
  BY DEF LedgerInv, RowsOK
<1>2. ASSUME NEW window \in Nat
      PROVE  Since(window)' \subseteq Since(window) /\ Since(window) \subseteq StartedKeys
  BY <1>1 DEF Since, StartedKeys
<1>3. /\ Live' \in SUBSET Keys /\ Live \in SUBSET Keys /\ \A window : Since(window) \in SUBSET Keys
      /\ \A session : OfSession(session) \in SUBSET Keys
  BY KeySets
<1>4. Units(Since(RollingWindow))' + Units(Live)' <= MaxRolling
  <2> DEFINE S == Since(RollingWindow)
             T == Since(RollingWindow)'
             L == Live
             M == Live'
  <2>1. /\ S \in SUBSET Keys /\ T \in SUBSET Keys /\ L \in SUBSET Keys /\ M \in SUBSET Keys
        /\ T \subseteq S /\ M \subseteq L
        /\ \A k \in T \cup M : rows'[k].units = rows[k].units
    BY <1>2, <1>3
  <2>2. UnitsOf(rows, S) + UnitsOf(rows, L) <= MaxRolling
    BY DEF LedgerInv, Room, Units
  <2>3. Units(Since(RollingWindow))' = UnitsOf(rows', T) /\ Units(Live)' = UnitsOf(rows', M)
    BY DEF Units
  <2> HIDE DEF S, T, L, M
  <2>4. UnitsOf(rows', T) <= UnitsOf(rows, S) /\ UnitsOf(rows', M) <= UnitsOf(rows, L)
    BY <2>1, UnitsMono
  <2>5. /\ UnitsOf(rows', T) \in Nat /\ UnitsOf(rows, S) \in Nat
        /\ UnitsOf(rows', M) \in Nat /\ UnitsOf(rows, L) \in Nat
    BY <2>1, UnitsType
  <2> QED BY <2>2, <2>3, <2>4, <2>5
<1>5. Cardinality(Since(BurstWindow)') + Cardinality(Live') <= MaxBurst
  <2>1. Since(BurstWindow)' \subseteq Since(BurstWindow)
    BY <1>2
  <2>2. Cardinality(Since(BurstWindow)) + Cardinality(Live) <= MaxBurst
    BY DEF LedgerInv, Room
  <2>3. /\ Cardinality(Since(BurstWindow)') <= Cardinality(Since(BurstWindow))
        /\ Cardinality(Since(BurstWindow)') \in Nat /\ Cardinality(Since(BurstWindow)) \in Nat
    BY <1>3, <2>1, KeysMono
  <2>4. /\ Cardinality(Live') <= Cardinality(Live)
        /\ Cardinality(Live') \in Nat /\ Cardinality(Live) \in Nat
    BY <1>3, KeysMono
  <2> QED BY <2>2, <2>3, <2>4
<1>6. ASSUME NEW session \in Sessions PROVE Units(OfSession(session))' <= MaxScan
  <2> DEFINE S == OfSession(session)
             T == OfSession(session)'
  <2>1. /\ S \in SUBSET Keys /\ T \in SUBSET Keys /\ T \subseteq S
        /\ \A k \in T : rows'[k].units = rows[k].units
    BY <1>3 DEF OfSession, StartedKeys
  <2>2. UnitsOf(rows, S) <= MaxScan
    BY DEF LedgerInv, Room, Units
  <2>3. Units(OfSession(session))' = UnitsOf(rows', T)
    BY DEF Units
  <2> HIDE DEF S, T
  <2>4. UnitsOf(rows', T) <= UnitsOf(rows, S)
    BY <2>1, UnitsMono
  <2>5. UnitsOf(rows', T) \in Nat /\ UnitsOf(rows, S) \in Nat
    BY <2>1, UnitsType
  <2> QED BY <2>2, <2>3, <2>4, <2>5
<1>7. Room'
  BY <1>4, <1>5, <1>6 DEF Room
<1>8. RollingLimit' /\ BurstLimit' /\ HistoryCooldown'
  BY HistoryQuiet
<1> QED BY <1>7, <1>8 DEF LedgerInv

\* A reservation is admitted when it fits beside what is started and reserved.
LEMMA LedgerAdmits ==
  ASSUME LedgerInv, RowsOK', UNCHANGED <<now, startedAt>>,
         NEW k \in Keys \ Live, NEW n \in Nat, NEW session \in Sessions,
         startedAt[k] = 0, rows'[k].units = n, rows'[k].request.session = session,
         RollingFits(n), BurstFits, Units(OfSession(session)) + n <= MaxScan,
         Live' = Live \cup {k},
         \A j \in Live \cup StartedKeys :
            rows'[j].units = rows[j].units /\ rows'[j].request = rows[j].request
  PROVE  LedgerInv'
<1> USE LedgerConstants
<1>1. now \in Nat /\ startedAt \in [Keys -> Nat] /\ rows' \in UnitTable
  BY DEF LedgerInv, RowsOK
<1>2. k \notin StartedKeys
  BY DEF StartedKeys
<1>3. /\ \A window : Since(window)' = Since(window) /\ Since(window) \subseteq StartedKeys
      /\ StartedKeys' = StartedKeys
  BY DEF Since, StartedKeys
<1>4. /\ Live \in SUBSET Keys /\ \A window : Since(window) \in SUBSET Keys
      /\ \A s : OfSession(s) \in SUBSET Keys
  BY KeySets
<1>5. Units(Since(RollingWindow))' + Units(Live)' <= MaxRolling
  <2> DEFINE S == Since(RollingWindow)
             L == Live
  <2>1. /\ S \in SUBSET Keys /\ L \in SUBSET Keys /\ k \in Keys \ L
        /\ \A j \in S \cup L : rows'[j].units = rows[j].units
    BY <1>3, <1>4
  <2>2. UnitsOf(rows, S) + UnitsOf(rows, L) + n <= MaxRolling
    BY DEF RollingFits, Units
  <2>3. Units(Since(RollingWindow))' = UnitsOf(rows', S) /\ Units(Live)' = UnitsOf(rows', L \cup {k})
    BY <1>3 DEF Units
  <2> HIDE DEF S, L
  <2>4. UnitsOf(rows', S) <= UnitsOf(rows, S) /\ UnitsOf(rows', L) <= UnitsOf(rows, L)
    BY <2>1, UnitsMono
  <2>5. UnitsOf(rows', L \cup {k}) = UnitsOf(rows', L) + n
    BY <1>1, <2>1, UnitsAdd
  <2>6. /\ UnitsOf(rows', S) \in Nat /\ UnitsOf(rows, S) \in Nat
        /\ UnitsOf(rows', L) \in Nat /\ UnitsOf(rows, L) \in Nat
    BY <2>1, UnitsType
  <2> QED BY <2>2, <2>3, <2>4, <2>5, <2>6
<1>6. Cardinality(Since(BurstWindow)') + Cardinality(Live') <= MaxBurst
  <2>1. Cardinality(Since(BurstWindow)) + Cardinality(Live) + 1 <= MaxBurst
    BY DEF BurstFits
  <2>2. IsFiniteSet(Live) /\ Cardinality(Live) \in Nat /\ Cardinality(Since(BurstWindow)) \in Nat
    BY <1>4, KeysMono
  <2>3. Cardinality(Live') = Cardinality(Live) + 1
    BY <2>2, FS_AddElement
  <2> QED BY <1>3, <2>1, <2>2, <2>3
<1>7. ASSUME NEW s \in Sessions PROVE Units(OfSession(s))' <= MaxScan
  <2> DEFINE S == OfSession(s)
             T == OfSession(s)'
  <2>1. /\ S \in SUBSET Keys /\ k \in Keys \ S
        /\ \A j \in S : rows'[j].units = rows[j].units
        /\ T = IF s = session THEN S \cup {k} ELSE S
    BY <1>2, <1>3, <1>4 DEF OfSession
  <2>2. UnitsOf(rows, S) <= MaxScan /\ (s = session => UnitsOf(rows, S) + n <= MaxScan)
    BY DEF LedgerInv, Room, Units
  <2>3. Units(OfSession(s))' = UnitsOf(rows', T)
    BY DEF Units
  <2> HIDE DEF S, T
  <2>4. UnitsOf(rows', S) <= UnitsOf(rows, S)
    BY <2>1, UnitsMono
  <2>5. UnitsOf(rows', S \cup {k}) = UnitsOf(rows', S) + n
    BY <1>1, <2>1, UnitsAdd
  <2>6. UnitsOf(rows', S) \in Nat /\ UnitsOf(rows, S) \in Nat
    BY <2>1, UnitsType
  <2> QED BY <2>1, <2>2, <2>3, <2>4, <2>5, <2>6
<1>8. Room'
  BY <1>5, <1>6, <1>7 DEF Room
<1>9. RollingLimit' /\ BurstLimit' /\ HistoryCooldown'
  BY <1>1, HistoryQuiet
<1> QED BY <1>8, <1>9 DEF LedgerInv

\* A start that is not cooling down keeps the cooldown: the first start of its
\* session is now, or was before it.
LEMMA CooldownStarts ==
  ASSUME LedgerInv, NEW k \in Keys, startedAt[k] = 0,
         startedAt' = [startedAt EXCEPT ![k] = now],
         NEW mine, rows[k].request.session = mine,
         NEW seen \in Nat, seen <= now, ~CoolingDown(mine, seen),
         \A j \in Keys : rows'[j].request = rows[j].request
  PROVE  HistoryCooldown'
<1>1. now \in Nat \ {0} /\ startedAt \in [Keys -> Nat] /\ \A j \in Keys : startedAt[j] <= now
  BY DEF LedgerInv, RowsOK
<1>2. \A session : FirstStart(session)' = Min(StartsOf(session)')
  BY DEF FirstStart, StartsOf
<1>3. ASSUME NEW session, session # mine
      PROVE  /\ Started(session)' = Started(session)
             /\ FirstStart(session)' = FirstStart(session)
  <2>1. StartsOf(session)' = StartsOf(session)
    BY <1>1, <1>3 DEF StartsOf
  <2>2. Started(session)' = Started(session)
    BY <1>1, <1>3 DEF Started
  <2> QED BY <1>1, <1>2, <2>1, <2>2, FirstStartFacts
<1>4. StartsOf(mine)' = StartsOf(mine) \cup {now}
  BY <1>1 DEF StartsOf
<1>5. Started(mine) => FirstStart(mine)' = FirstStart(mine)
  <2> SUFFICES ASSUME Started(mine) PROVE FirstStart(mine)' = FirstStart(mine)
    OBVIOUS
  <2>1. StartsOf(mine) \in SUBSET Nat /\ StartsOf(mine) # {} /\ FirstStart(mine) = Min(StartsOf(mine))
    BY <1>1, FirstStartFacts
  <2>2. \A m \in StartsOf(mine) : m <= now
    BY <1>1 DEF StartsOf
  <2>3. Min(StartsOf(mine) \cup {now}) = Min(StartsOf(mine))
    BY <1>1, <2>1, <2>2, MinStays
  <2> QED BY <1>2, <1>4, <2>1, <2>3
<1>6. ~Started(mine) => FirstStart(mine)' = now
  <2> SUFFICES ASSUME ~Started(mine) PROVE FirstStart(mine)' = now
    OBVIOUS
  <2>1. StartsOf(mine)' = {now}
    BY <1>1, <1>4, FirstStartFacts
  <2>2. Min({now}) \in {now}
    BY <1>1, NatMin
  <2> QED BY <1>2, <2>1, <2>2
<1>7. ASSUME NEW session \in HistorySessions \ {mine}, mine \in HistorySessions, Started(session)
      PROVE  FirstStart(session) + Cooldown <= now /\ FirstStart(session) < now
  <2>1. FirstStart(session) \in Nat
    BY <1>1, <1>7, FirstStartFacts
  <2>2. ~(FirstStart(session) + Cooldown > seen)
    BY <1>7 DEF CoolingDown
  <2> QED BY <1>1, <2>1, <2>2, LedgerConstants
<1> SUFFICES ASSUME NEW j \in Keys, startedAt'[j] # 0,
                    NEW hers \in HistorySessions, rows[j].request.session = hers,
                    NEW other \in HistorySessions \ {hers}, Started(other)'
             PROVE  \/ FirstStart(other)' + Cooldown <= startedAt'[j]
                    \/ /\ FirstStart(other)' >= startedAt'[j]
                       /\ FirstStart(other)' > FirstStart(hers)'
  BY DEF HistoryCooldown, FirstStart
<1>9. CASE j = k
  <2>1. other # mine /\ mine \in HistorySessions /\ Started(other)
    BY <1>3, <1>9
  <2> QED BY <1>1, <1>3, <1>7, <1>9, <2>1
<1>10. CASE j # k
  <2>1. startedAt'[j] = startedAt[j] /\ startedAt[j] # 0 /\ startedAt[j] <= now
    BY <1>1, <1>10
  <2>2. Started(hers)
    BY <2>1 DEF Started
  <2>3. FirstStart(hers)' = FirstStart(hers)
    BY <1>3, <1>5, <2>2
  <2>4. Started(other) =>
          \/ FirstStart(other) + Cooldown <= startedAt[j]
          \/ FirstStart(other) >= startedAt[j] /\ FirstStart(other) > FirstStart(hers)
    BY <2>1 DEF LedgerInv, HistoryCooldown
  <2>5. CASE Started(other)
    <3>1. FirstStart(other)' = FirstStart(other)
      BY <1>3, <1>5, <2>5
    <3> QED BY <2>1, <2>3, <2>4, <2>5, <3>1
  <2>6. CASE ~Started(other)
    <3>1. other = mine
      BY <1>3, <2>6
    <3>2. FirstStart(other)' = now
      BY <1>6, <2>6, <3>1
    <3>3. FirstStart(hers) < now
      BY <1>7, <2>2, <3>1
    <3> QED BY <1>1, <2>1, <2>3, <3>2, <3>3
  <2> QED BY <2>5, <2>6
<1> QED BY <1>9, <1>10

\* A start moves a request from what is reserved to what is started.
LEMMA LedgerStarts ==
  ASSUME LedgerInv, RowsOK', now' = now, NEW k \in Live, startedAt[k] = 0,
         startedAt' = [startedAt EXCEPT ![k] = now],
         NEW mine \in Sessions, rows[k].request.session = mine,
         NEW seen \in Nat, seen <= now, ~CoolingDown(mine, seen),
         Live' = Live \ {k},
         \A j \in Keys : rows'[j].units = rows[j].units /\ rows'[j].request = rows[j].request
  PROVE  LedgerInv'
<1> USE LedgerConstants
<1>1. now \in Nat \ {0} /\ startedAt \in [Keys -> Nat] /\ rows \in UnitTable
      /\ \A j \in Keys : startedAt[j] <= now
  BY DEF LedgerInv, RowsOK
<1>2. /\ Live \in SUBSET Keys /\ \A window : Since(window) \in SUBSET Keys
      /\ \A s : OfSession(s) \in SUBSET Keys
      /\ k \in Keys
  BY KeySets
<1>3. ASSUME NEW window \in Nat \ {0}
      PROVE  Since(window)' = Since(window) \cup {k} /\ k \notin Since(window)
  BY <1>1, <1>2 DEF Since
<1>4. StartedKeys' = StartedKeys \cup {k}
  BY <1>1, <1>2 DEF StartedKeys
<1>5. Units(Since(RollingWindow))' + Units(Live)' <= MaxRolling /\ Units(Since(RollingWindow))' <= MaxRolling
  <2> DEFINE S == Since(RollingWindow)
             L == Live \ {k}
             n == rows[k].units
  <2>1. /\ S \in SUBSET Keys /\ L \in SUBSET Keys /\ k \in Keys \ L /\ k \in Keys \ S
        /\ L \cup {k} = Live /\ S \cup {k} \in SUBSET Keys
    BY <1>2, <1>3
  <2>2. UnitsOf(rows, S) + UnitsOf(rows, L \cup {k}) <= MaxRolling
    BY <2>1 DEF LedgerInv, Room, Units
  <2>3. Units(Since(RollingWindow))' = UnitsOf(rows', S \cup {k}) /\ Units(Live)' = UnitsOf(rows', L)
    BY <1>3 DEF Units
  <2> HIDE DEF S, L
  <2>4. UnitsOf(rows', S \cup {k}) <= UnitsOf(rows, S \cup {k}) /\ UnitsOf(rows', L) <= UnitsOf(rows, L)
    BY <2>1, UnitsMono
  <2>5. UnitsOf(rows, S \cup {k}) = UnitsOf(rows, S) + n /\ UnitsOf(rows, L \cup {k}) = UnitsOf(rows, L) + n
    BY <1>1, <2>1, UnitsAdd
  <2>6. /\ UnitsOf(rows', S \cup {k}) \in Nat /\ UnitsOf(rows, S) \in Nat
        /\ UnitsOf(rows', L) \in Nat /\ UnitsOf(rows, L) \in Nat
        /\ UnitsOf(rows, L \cup {k}) \in Nat /\ UnitsOf(rows, S \cup {k}) \in Nat
    BY <1>2, <2>1, UnitsType
  <2>7. n \in Nat
    BY <2>5, <2>6, <1>1, <1>2, FS_CardinalityType, LedgerAssumption DEF UnitTable
  <2> HIDE DEF n
  <2> QED BY <2>2, <2>3, <2>4, <2>5, <2>6, <2>7
<1>6. /\ Cardinality(Since(BurstWindow)') + Cardinality(Live') <= MaxBurst
      /\ Cardinality(Since(BurstWindow)') <= MaxBurst
  <2>1. Cardinality(Since(BurstWindow)) + Cardinality(Live) <= MaxBurst
    BY DEF LedgerInv, Room
  <2>2. /\ IsFiniteSet(Since(BurstWindow)) /\ IsFiniteSet(Live)
        /\ Cardinality(Live) \in Nat /\ Cardinality(Since(BurstWindow)) \in Nat
    BY <1>2, KeysMono
  <2>3. Cardinality(Since(BurstWindow)') = Cardinality(Since(BurstWindow)) + 1
    <3>1. Since(BurstWindow)' = Since(BurstWindow) \cup {k} /\ k \notin Since(BurstWindow)
      BY <1>3
    <3>2. Cardinality(Since(BurstWindow) \cup {k}) = Cardinality(Since(BurstWindow)) + 1
      BY <2>2, <3>1, FS_AddElement
    <3> QED BY <3>1, <3>2
  <2>4. Cardinality(Live') = Cardinality(Live) - 1 /\ Cardinality(Live') \in Nat
    BY <1>2, <2>2, FS_RemoveElement, KeysMono
  <2> QED BY <2>1, <2>2, <2>3, <2>4
<1>7. ASSUME NEW s \in Sessions PROVE Units(OfSession(s))' <= MaxScan
  <2>1. OfSession(s)' = OfSession(s)
    BY <1>2, <1>4 DEF OfSession
  <2>2. UnitsOf(rows, OfSession(s)) <= MaxScan
    BY DEF LedgerInv, Room, Units
  <2>3. UnitsOf(rows', OfSession(s)) <= UnitsOf(rows, OfSession(s))
    BY <1>2, UnitsMono
  <2>4. UnitsOf(rows', OfSession(s)) \in Nat /\ UnitsOf(rows, OfSession(s)) \in Nat
    BY <1>2, UnitsType
  <2> QED BY <2>1, <2>2, <2>3, <2>4 DEF Units
<1>8. Room'
  BY <1>5, <1>6, <1>7 DEF Room
<1>9. ASSUME NEW from \in 1..now, NEW window \in Nat \ {0}
      PROVE  \/ StartsIn(from, window)' = StartsIn(from, window)
             \/ StartsIn(from, window)' \subseteq Since(window)'
  <2>1. CASE now \in from..(from + window - 1)
    <3>1. \A j \in Keys : startedAt'[j] \in from..(from + window - 1) => startedAt'[j] + window > now
      BY <1>1, <2>1
    <3> QED BY <3>1 DEF StartsIn, Since
  <2>2. CASE now \notin from..(from + window - 1)
    BY <1>1, <1>2, <2>2 DEF StartsIn
  <2> QED BY <2>1, <2>2
<1>10. RollingLimit'
  <2> SUFFICES ASSUME NEW from \in 1..now
               PROVE  UnitsOf(rows', StartsIn(from, RollingWindow)') <= MaxRolling
    BY DEF RollingLimit, Units
  <2>1. /\ StartsIn(from, RollingWindow)' \in SUBSET Keys /\ StartsIn(from, RollingWindow) \in SUBSET Keys
        /\ Since(RollingWindow)' \in SUBSET Keys
    BY KeySets DEF StartsIn, Since
  <2>2. CASE StartsIn(from, RollingWindow)' = StartsIn(from, RollingWindow)
    <3>1. UnitsOf(rows, StartsIn(from, RollingWindow)) <= MaxRolling
      BY DEF LedgerInv, RollingLimit, Units
    <3>2. UnitsOf(rows', StartsIn(from, RollingWindow)) <= UnitsOf(rows, StartsIn(from, RollingWindow))
      BY <2>1, UnitsMono
    <3>3. /\ UnitsOf(rows', StartsIn(from, RollingWindow)) \in Nat
          /\ UnitsOf(rows, StartsIn(from, RollingWindow)) \in Nat
      BY <2>1, UnitsType
    <3> QED BY <2>2, <3>1, <3>2, <3>3
  <2>3. CASE StartsIn(from, RollingWindow)' \subseteq Since(RollingWindow)'
    <3>1. UnitsOf(rows', Since(RollingWindow)') <= MaxRolling
      BY <1>5 DEF Units
    <3>2. UnitsOf(rows', StartsIn(from, RollingWindow)') <= UnitsOf(rows', Since(RollingWindow)')
      BY <2>1, <2>3, UnitsMono
    <3>3. /\ UnitsOf(rows', StartsIn(from, RollingWindow)') \in Nat
          /\ UnitsOf(rows', Since(RollingWindow)') \in Nat
      BY <2>1, UnitsType
    <3> QED BY <3>1, <3>2, <3>3
  <2> QED BY <1>9, <2>2, <2>3
<1>11. BurstLimit'
  <2> SUFFICES ASSUME NEW from \in 1..now
               PROVE  Cardinality(StartsIn(from, BurstWindow)') <= MaxBurst
    BY DEF BurstLimit
  <2>1. CASE StartsIn(from, BurstWindow)' = StartsIn(from, BurstWindow)
    BY <2>1 DEF LedgerInv, BurstLimit
  <2>2. CASE StartsIn(from, BurstWindow)' \subseteq Since(BurstWindow)'
    <3>1. Since(BurstWindow)' \in SUBSET Keys
      BY DEF Since
    <3>2. /\ Cardinality(StartsIn(from, BurstWindow)') <= Cardinality(Since(BurstWindow)')
          /\ Cardinality(StartsIn(from, BurstWindow)') \in Nat /\ Cardinality(Since(BurstWindow)') \in Nat
      BY <2>2, <3>1, KeysMono
    <3> QED BY <1>6, <3>2
  <2> QED BY <1>9, <2>1, <2>2
<1>12. HistoryCooldown'
  BY <1>2, CooldownStarts
<1> QED BY <1>8, <1>10, <1>11, <1>12 DEF LedgerInv

-----------------------------------------------------------------------------
(***************************************************************************)
(* The operations of the ledger.                                           *)
(***************************************************************************)
\* A request's row gets another status, and no reservation is left.
LEMMA StatusChanges ==
  ASSUME rows \in UnitTable, NEW k \in Keys, NEW status \in Statuses,
         rows' = [rows EXCEPT ![k] = WithStatus(rows[k], status)]
  PROVE  /\ rows' \in UnitTable
         /\ rows'[k].status = status
         /\ \A j \in Keys : rows'[j].units = rows[j].units /\ rows'[j].request = rows[j].request
         /\ \A j \in Keys \ {k} : rows'[j] = rows[j]
BY DEF UnitTable, WithStatus

\* A request is released, refused or completed.
LEMMA RequestCloses ==
  ASSUME LedgerInv, NEW k \in Keys, NEW status \in Statuses \ {"none", "reserved"},
         rows[k].status # "none", status \in Charged <=> rows[k].status \in Charged,
         rows' = [rows EXCEPT ![k] = WithStatus(rows[k], status)],
         UNCHANGED <<now, startedAt, strikes>>
  PROVE  LedgerInv'
<1>1. RowsOK
  BY DEF LedgerInv
<1>2. /\ rows' \in UnitTable
      /\ rows'[k].status = status
      /\ \A j \in Keys : rows'[j].units = rows[j].units /\ rows'[j].request = rows[j].request
      /\ \A j \in Keys \ {k} : rows'[j] = rows[j]
  BY <1>1, StatusChanges DEF RowsOK
<1>3. RowsOK'
  BY <1>1, <1>2 DEF RowsOK
<1>4. Live' \subseteq Live
  BY <1>2 DEF Live, Reserved
<1>5. now <= now'
  BY <1>1 DEF RowsOK
<1> QED BY <1>2, <1>3, <1>4, <1>5, LedgerQuiet DEF Live, Reserved, StartedKeys

\* Nothing changes.
LEMMA LedgerStutters == LedgerInv /\ UNCHANGED ledgerVars => LedgerInv'
<1> SUFFICES ASSUME LedgerInv, UNCHANGED ledgerVars PROVE LedgerInv'
  OBVIOUS
<1>1. UNCHANGED <<now, rows, startedAt, strikes>>
  BY DEF ledgerVars
<1>2. RowsOK' /\ Live' = Live /\ now <= now'
  BY <1>1 DEF LedgerInv, RowsOK, Live, Reserved
<1> QED BY <1>1, <1>2, LedgerQuiet

\* sms_ai_release_work.
LEMMA ReleaseLedger ==
  ASSUME LedgerInv, NEW k \in Keys, ReleaseWork(k)
  PROVE  LedgerInv'
<1>1. CASE k \in Reserved
  <2>1. rows' = [rows EXCEPT ![k] = WithStatus(rows[k], "released")] /\ UNCHANGED <<now, startedAt, strikes>>
    BY <1>1 DEF ReleaseWork
  <2>2. rows[k].status = "reserved"
    BY <1>1 DEF Reserved
  <2> QED BY <2>1, <2>2, RequestCloses DEF Statuses, Charged
<1>2. CASE k \notin Reserved
  BY <1>2, LedgerStutters DEF ReleaseWork, ledgerVars
<1> QED BY <1>1, <1>2

\* sms_ai_complete_work.
LEMMA CompleteLedger ==
  ASSUME LedgerInv, NEW k \in Keys, NEW target \in {"completed", Failed}, NEW answer,
         CompleteWork(k, target, answer)
  PROVE  LedgerInv'
<1>1. CASE rows[k].status = "provider_started"
  <2>1. rows' = [rows EXCEPT ![k] = WithStatus(rows[k], target)] /\ UNCHANGED <<now, startedAt, strikes>>
    BY <1>1 DEF CompleteWork
  <2> QED BY <1>1, <2>1, RequestCloses DEF Statuses, Charged, Failed
<1>2. CASE rows[k].status # "provider_started"
  BY <1>2, LedgerStutters DEF CompleteWork, ledgerVars
<1> QED BY <1>1, <1>2

\* sms_ai_mark_provider_started: one start per key, and of nothing with a final outcome.
LEMMA MarkLedger ==
  ASSUME LedgerInv, NEW k \in Keys, NEW submitted, NEW seen \in Nat, seen <= now, NEW answer,
         MarkProviderStarted(k, submitted, seen, answer)
  PROVE  /\ LedgerInv'
         /\ strikes' = strikes
         /\ \A j \in Keys \ {k} : startedAt'[j] = startedAt[j]
         /\ answer => startedAt[k] = 0 /\ startedAt'[k] # 0
         /\ startedAt[k] # 0 => startedAt'[k] # 0
         /\ answer => ~AnyTerminal(submitted)
<1> DEFINE terminal == AnyTerminal(submitted)
           cooling == CoolingDown(rows[k].request.session, seen)
<1>1. /\ UNCHANGED <<now, strikes>>
      /\ answer = (k \in Live /\ ~terminal /\ ~cooling)
      /\ startedAt' = IF answer THEN [startedAt EXCEPT ![k] = now] ELSE startedAt
      /\ \/ answer /\ rows' = [rows EXCEPT ![k] = WithStatus(rows[k], "provider_started")]
         \/ k \in Reserved /\ ~answer /\ rows' = [rows EXCEPT ![k] = WithStatus(rows[k], "released")]
         \/ k \in Reserved /\ ~answer /\ rows' = [rows EXCEPT ![k] = WithStatus(rows[k], "refused")]
         \/ k \notin Reserved /\ ~answer /\ UNCHANGED rows
  BY DEF MarkProviderStarted, MarkUnless, Live
<1>2. RowsOK /\ startedAt \in [Keys -> Nat] /\ now \in Nat \ {0}
  BY DEF LedgerInv, RowsOK
<1>3. CASE answer /\ rows' = [rows EXCEPT ![k] = WithStatus(rows[k], "provider_started")]
  <2> DEFINE mine == rows[k].request.session
  <2>1. /\ startedAt' = [startedAt EXCEPT ![k] = now] /\ k \in Live
        /\ rows[k].status = "reserved" /\ ~CoolingDown(mine, seen) /\ ~terminal
    BY <1>1, <1>3 DEF Live, Reserved
  <2>2. /\ startedAt[k] = 0 /\ mine \in Sessions
    BY <1>2, <2>1, HandlerAssumption DEF RowsOK, Charged
  <2>3. /\ rows' \in UnitTable
        /\ rows'[k].status = "provider_started"
        /\ \A j \in Keys : rows'[j].units = rows[j].units /\ rows'[j].request = rows[j].request
        /\ \A j \in Keys \ {k} : rows'[j] = rows[j]
    BY <1>2, <1>3, StatusChanges DEF RowsOK, Statuses
  <2>4. RowsOK'
    BY <1>1, <1>2, <2>1, <2>3 DEF RowsOK, Charged
  <2>5. Live' = Live \ {k}
    BY <1>1, <2>3 DEF Live, Reserved
  <2>6. LedgerInv'
    BY <1>1, <2>1, <2>2, <2>3, <2>4, <2>5, LedgerStarts
  <2> QED BY <1>1, <1>2, <2>1, <2>2, <2>6
<1>4. ASSUME NEW status \in {"released", "refused"}, ~answer, k \in Reserved,
             rows' = [rows EXCEPT ![k] = WithStatus(rows[k], status)]
      PROVE  LedgerInv'
  <2>1. UNCHANGED <<now, startedAt, strikes>> /\ rows[k].status = "reserved"
    BY <1>1, <1>4 DEF Reserved
  <2> QED BY <1>4, <2>1, RequestCloses DEF Statuses, Charged
<1>5. ASSUME k \notin Reserved, ~answer, UNCHANGED rows
      PROVE  LedgerInv'
  <2>1. UNCHANGED <<now, startedAt, strikes, rows>>
    BY <1>1, <1>5
  <2> QED BY <2>1, LedgerStutters DEF ledgerVars
<1> HIDE DEF terminal, cooling
<1>6. ~answer => startedAt' = startedAt /\ strikes' = strikes
  BY <1>1
<1>7. ~answer => LedgerInv'
  BY <1>1, <1>4, <1>5
<1> QED BY <1>1, <1>3, <1>6, <1>7

\* sms_ai_reconcile_outcomes: at most one strike each.
LEMMA ReconcileLedger ==
  ASSUME LedgerInv, NEW positive, NEW negative, ReconcileOutcomes(positive, negative)
  PROVE  /\ LedgerInv' /\ startedAt' = startedAt
         /\ \A s \in Sms : strikes'[s] <= strikes[s] + (IF s \in negative THEN 1 ELSE 0)
<1>1. /\ UNCHANGED <<now, rows, startedAt>>
      /\ strikes' = [s \in Sms |->
           CASE s \in negative -> IF Terminal(s) THEN 3 ELSE strikes[s] + 1
             [] s \in positive /\ ~Terminal(s) -> 0
             [] OTHER -> strikes[s]]
  BY DEF ReconcileOutcomes
<1>2. ASSUME NEW s \in Sms
      PROVE  strikes'[s] \in 0..3 /\ strikes'[s] <= strikes[s] + (IF s \in negative THEN 1 ELSE 0)
  <2>1. strikes[s] \in 0..3
    BY DEF LedgerInv, RowsOK
  <2>2. CASE s \in negative
    BY <1>1, <2>1, <2>2 DEF Terminal
  <2>3. CASE s \notin negative /\ s \in positive /\ ~Terminal(s)
    BY <1>1, <2>1, <2>3
  <2>4. CASE s \notin negative /\ ~(s \in positive /\ ~Terminal(s))
    BY <1>1, <2>1, <2>4
  <2> QED BY <2>2, <2>3, <2>4
<1>3. RowsOK'
  <2>1. strikes' \in [Sms -> 0..3]
    BY <1>1, <1>2
  <2> QED BY <1>1, <2>1 DEF LedgerInv, RowsOK
<1>4. Live' = Live /\ now <= now'
  BY <1>1 DEF LedgerInv, RowsOK, Live, Reserved
<1>5. LedgerInv'
  BY <1>1, <1>3, <1>4, LedgerQuiet
<1> QED BY <1>1, <1>2, <1>5

\* Time passes.
LEMMA TickLedger ==
  ASSUME LedgerInv, Tick
  PROVE  LedgerInv' /\ UNCHANGED <<startedAt, strikes>>
<1>1. now' = now + 1 /\ UNCHANGED <<rows, startedAt, strikes>>
  BY DEF Tick
<1>2. now \in Nat \ {0} /\ startedAt \in [Keys -> Nat]
  BY DEF LedgerInv, RowsOK
<1>3. RowsOK'
  BY <1>1, <1>2 DEF LedgerInv, RowsOK
<1>4. Live' \subseteq Live
  <2>1. \A k \in Keys : rows[k].expires \in Nat
    BY DEF LedgerInv, RowsOK, UnitTable
  <2> QED BY <1>1, <1>2, <2>1 DEF Live, Reserved
<1> QED BY <1>1, <1>2, <1>3, <1>4, LedgerQuiet

\* What is reserved or started of a session is what the scan limit counts.
LEMMA ScanCounts ==
  ASSUME RowsOK, NEW session
  PROVE  {k \in Keys \ (Reserved \ Live) :
            rows[k].status \in Consumed /\ rows[k].request.session = session} = OfSession(session)
BY DEF RowsOK, OfSession, StartedKeys, Live, Reserved, Consumed, Charged

\* sms_ai_reserve_work: refused, replayed or admitted.
LEMMA ReserveLedger ==
  ASSUME LedgerInv, NEW request \in Requests, NEW n \in 0..Cardinality(Sms), NEW seen \in Nat, NEW answer,
         Reserve(request, n, seen, answer)
  PROVE  LedgerInv' /\ UNCHANGED <<startedAt, strikes>>
<1> DEFINE k == request.key
           admitted == [status |-> "reserved", request |-> request, units |-> n, expires |-> now + Lease]
           refused == [status |-> "refused", request |-> request, units |-> n, expires |-> 0]
           fits == ScanFits(request.session, n) /\ RollingFits(n) /\ BurstFits
<1>1. UNCHANGED <<now, startedAt, strikes>>
  BY DEF Reserve
<1>2. \/ UNCHANGED rows
      \/ k \in Live /\ rows' = [rows EXCEPT ![k] = WithStatus(rows[k], "refused")]
      \/ /\ rows[k].status = "none" \/ k \in Reserved \ Live
         /\ \/ rows' = [Swept EXCEPT ![k] = refused]
            \/ fits /\ rows' = [Swept EXCEPT ![k] = admitted]
  BY DEF Reserve
<1>3. /\ RowsOK /\ rows \in UnitTable /\ now \in Nat \ {0} /\ k \in Keys /\ request.session \in Sessions
      /\ n \in Nat /\ Lease \in Nat \ {0}
  BY HandlerAssumption, LedgerAssumption, FS_CardinalityType DEF LedgerInv, RowsOK
<1>4. CASE UNCHANGED rows
  BY <1>1, <1>4, LedgerStutters DEF ledgerVars
<1>5. CASE k \in Live /\ rows' = [rows EXCEPT ![k] = WithStatus(rows[k], "refused")]
  <2>1. rows[k].status = "reserved"
    BY <1>5 DEF Live, Reserved
  <2> QED BY <1>1, <1>3, <1>5, <2>1, RequestCloses DEF Statuses, Charged
<1>6. ASSUME rows[k].status = "none" \/ k \in Reserved \ Live,
             NEW row \in {admitted, refused}, row = refused \/ fits,
             rows' = [Swept EXCEPT ![k] = row]
      PROVE  LedgerInv'
  <2>1. /\ row.request = request /\ row.units = n /\ row.status \in {"reserved", "refused"}
        /\ row.status = "reserved" => row = admitted
        /\ row.expires \in Nat
    BY <1>3, <1>6
  <2>2. row \in [status : Statuses, request : Requests \cup {NoRequest},
                  units : 0..Cardinality(Sms), expires : Nat]
    BY <1>3, <1>6 DEF Statuses
  <2>3. /\ Swept \in UnitTable
        /\ \A j \in Keys :
            /\ Swept[j].units = rows[j].units /\ Swept[j].request = rows[j].request
            /\ j \notin Reserved \ Live => Swept[j] = rows[j]
            /\ j \in Reserved \ Live => Swept[j].status = "released"
    BY <1>3 DEF Swept, UnitTable, WithStatus, Statuses
  <2>4. /\ rows' \in UnitTable /\ rows'[k] = row
        /\ \A j \in Keys \ {k} : rows'[j] = Swept[j]
    BY <1>3, <1>6, <2>2, <2>3 DEF UnitTable
  <2>5. k \notin Live /\ startedAt[k] = 0 /\ k \notin StartedKeys
    BY <1>3, <1>6 DEF RowsOK, Live, Reserved, Charged, StartedKeys
  <2>6. RowsOK'
    <3>1. ASSUME NEW j \in Keys
          PROVE  /\ startedAt'[j] # 0 <=> rows'[j].status \in Charged
                 /\ rows'[j].status # "none" => rows'[j].request \in Requests
      <4>1. CASE j = k
        BY <1>1, <2>1, <2>4, <2>5, <4>1 DEF Charged
      <4>2. CASE j # k /\ j \in Reserved \ Live
        <5>1. rows[j].status = "reserved" /\ startedAt[j] = 0 /\ rows[j].request \in Requests
          BY <1>3, <4>2 DEF RowsOK, Reserved, Charged
        <5> QED BY <1>1, <2>3, <2>4, <4>2, <5>1 DEF Charged
      <4>3. CASE j # k /\ j \notin Reserved \ Live
        BY <1>1, <1>3, <2>3, <2>4, <4>3 DEF RowsOK
      <4> QED BY <4>1, <4>2, <4>3
    <3> QED BY <1>1, <1>3, <2>4, <3>1 DEF RowsOK
  <2>7. \A j \in Live \cup StartedKeys :
          rows'[j].units = rows[j].units /\ rows'[j].request = rows[j].request
    BY <2>3, <2>4, <2>5 DEF Live, Reserved, StartedKeys
  <2>8. \A j \in Keys \ {k} : j \in Live' <=> j \in Live
    BY <1>1, <2>3, <2>4 DEF Live, Reserved
  <2>9. CASE row = admitted
    <3>1. k \in Live'
      BY <1>1, <1>3, <2>4, <2>9 DEF Live, Reserved
    <3>2. Live' = Live \cup {k}
      BY <1>3, <2>8, <3>1, KeySets DEF Live, Reserved
    <3>3. RollingFits(n) /\ BurstFits /\ Units(OfSession(request.session)) + n <= MaxScan
      BY <1>3, <1>6, <2>9, ScanCounts DEF ScanFits
    <3>4. rows'[k].units = n /\ rows'[k].request.session = request.session
      BY <2>1, <2>4
    <3> HIDE DEF k, fits
    <3> QED BY <1>1, <1>3, <2>5, <2>6, <2>7, <3>2, <3>3, <3>4, LedgerAdmits
  <2>10. CASE row = refused
    <3>1. k \notin Live'
      BY <1>1, <2>4, <2>10 DEF Live, Reserved
    <3>2. Live' \subseteq Live /\ now <= now'
      BY <1>1, <1>3, <2>8, <3>1 DEF Live, Reserved
    <3> QED BY <1>1, <2>6, <2>7, <3>2, LedgerQuiet
  <2> QED BY <1>6, <2>9, <2>10
<1>7. LedgerInv'
  <2> HIDE DEF k, admitted, refused, fits
  <2> QED BY <1>2, <1>4, <1>5, <1>6
<1> QED BY <1>1, <1>7

-----------------------------------------------------------------------------
(***************************************************************************)
(* The handlers.  A start is granted for a request that was not started,   *)
(* so at most one handler is between the start and the result of a key,    *)
(* and what it has yet to reconcile has not been counted.                  *)
(***************************************************************************)
Outcomes == [positive : SUBSET Sms, negative : SUBSET Sms]
HandlerStates ==
    [step : Steps, request : Requests \cup {NoRequest}, sms : SUBSET Sms, seen : Nat, tries : Nat,
     outcome : Outcomes, target : {"completed", Failed}]

HandlersOK ==
    /\ handler \in [Handlers -> HandlerStates]
    /\ lateStarts \subseteq [key : Keys, sms : SUBSET Sms, seen : Nat]
    /\ runs \in [Keys -> Nat] /\ sent \in [Keys -> SUBSET Sms]
    /\ \A h \in Handlers :
        /\ ~At(h, "idle") => handler[h].request \in Requests
        /\ handler[h].seen <= now
    /\ \A call \in lateStarts : call.seen <= now

InRun(h) == handler[h].step \in {"started", "provider", "reconcile"}
Unreconciled(h) == handler[h].step \in {"provider", "reconcile"}

RunsInv ==
    /\ \A h \in Handlers : InRun(h) => startedAt[KeyOf(h)] # 0
    /\ \A g, h \in Handlers : InRun(g) /\ InRun(h) /\ KeyOf(g) = KeyOf(h) => g = h
    /\ \A h \in Handlers : At(h, "started") => runs[KeyOf(h)] = 0
    /\ \A k \in Keys : runs[k] = 0 => sent[k] = {}

\* The keys whose results may have counted a strike of s.
Counted(s) ==
    {k \in Keys : s \in sent[k] /\
        ~\E h \in Handlers : Unreconciled(h) /\ KeyOf(h) = k /\ s \in handler[h].sms}

StrikesInv ==
    /\ \A h \in Handlers :
        /\ At(h, "reconcile") => handler[h].outcome.negative \subseteq handler[h].sms
        /\ Unreconciled(h) => handler[h].sms \subseteq sent[KeyOf(h)]
    /\ \A s \in Sms : strikes[s] <= FirstStrikes[s] + Cardinality(Counted(s))

HandlerInv == LedgerInv /\ HandlersOK /\ RunsInv /\ OneRunPerRequest /\ StrikesInv

\* A handler without a call is a handler.
LEMMA IdleOK == Idle \in HandlerStates /\ Idle.step = "idle" /\ Idle.seen = 0
BY DEF Idle, HandlerStates, Steps, NoOutcome, Outcomes

\* The invariant holds at the start.
LEMMA HandlerInitInv == HandlerInit => HandlerInv
<1> SUFFICES ASSUME HandlerInit PROVE HandlerInv
  OBVIOUS
<1>1. /\ now = 1 /\ rows = [k \in Keys |-> NoRow] /\ startedAt = [k \in Keys |-> 0]
      /\ strikes = FirstStrikes
      /\ handler = [h \in Handlers |-> Idle]
      /\ lateStarts = {} /\ runs = [k \in Keys |-> 0] /\ sent = [k \in Keys |-> {}]
  BY DEF HandlerInit, LedgerInit
<1>2. RowsOK
  <2>1. Cardinality(Sms) \in Nat
    BY LedgerAssumption, FS_CardinalityType
  <2>2. rows \in UnitTable
    BY <1>1, <2>1 DEF UnitTable, NoRow, Statuses
  <2>3. strikes \in [Sms -> 0..3]
    BY <1>1, LedgerAssumption
  <2> QED BY <1>1, <2>2, <2>3 DEF RowsOK, NoRow, Charged
<1>3. /\ \A window : Since(window) = {}
      /\ Live = {} /\ \A session : OfSession(session) = {}
      /\ \A from, window : StartsIn(from, window) = {}
  BY <1>1 DEF Since, Live, Reserved, OfSession, StartedKeys, StartsIn, NoRow
<1>4. Cardinality({}) = 0 /\ Units({}) = 0
  <2>1. Tokens(rows, {}) = {}
    BY DEF Tokens
  <2> QED BY <2>1, FS_EmptySet, UnitsAreTokens DEF Units
<1>5. LedgerInv
  BY <1>1, <1>2, <1>3, <1>4, LedgerConstants
     DEF LedgerInv, Room, RollingLimit, BurstLimit, HistoryCooldown, Units
<1>6. HandlersOK
  BY <1>1, IdleOK DEF HandlersOK, At
<1>7. RunsInv /\ OneRunPerRequest
  BY <1>1, IdleOK DEF RunsInv, InRun, At, OneRunPerRequest
<1>8. StrikesInv
  <2>1. \A s \in Sms : Counted(s) = {}
    BY <1>1 DEF Counted
  <2>2. \A s \in Sms : FirstStrikes[s] \in 0..2
    BY LedgerAssumption
  <2> QED BY <1>1, <1>4, <2>1, <2>2, IdleOK DEF StrikesInv, At, Unreconciled
<1> QED BY <1>5, <1>6, <1>7, <1>8 DEF HandlerInv

\* A handler that is in no run, before or after, changes no count; one that
\* leaves its run leaves what it was to count.
LEMMA LeavesRun ==
  ASSUME HandlerInv, HandlersOK',
         UNCHANGED <<runs, sent>>,
         \A k \in Keys : startedAt[k] # 0 => startedAt'[k] # 0,
         \A h \in Handlers : handler'[h] = handler[h] \/ ~InRun(h)'
  PROVE  /\ RunsInv' /\ OneRunPerRequest'
         /\ \A h \in Handlers :
              /\ At(h, "reconcile")' => handler'[h].outcome.negative \subseteq handler'[h].sms
              /\ Unreconciled(h)' => handler'[h].sms \subseteq sent'[KeyOf(h)']
         /\ \A s \in Sms : Counted(s) \subseteq Counted(s)'
<1>1. \A h \in Handlers : InRun(h)' => handler'[h] = handler[h] /\ InRun(h)
  BY DEF InRun
<1>2. ASSUME NEW h \in Handlers, InRun(h) PROVE KeyOf(h) \in Keys
  BY <1>2, HandlerAssumption DEF HandlerInv, HandlersOK, InRun, At, KeyOf
<1>3. RunsInv'
  BY <1>1, <1>2 DEF HandlerInv, RunsInv, At, InRun, KeyOf
<1>4. OneRunPerRequest'
  BY DEF HandlerInv, OneRunPerRequest, HandlersOK
<1>5. \A s \in Sms : Counted(s) \subseteq Counted(s)'
  BY <1>1 DEF Counted, Unreconciled, InRun, KeyOf
<1>6. \A h \in Handlers :
        /\ At(h, "reconcile")' => handler'[h].outcome.negative \subseteq handler'[h].sms
        /\ Unreconciled(h)' => handler'[h].sms \subseteq sent'[KeyOf(h)']
  BY <1>1 DEF HandlerInv, StrikesInv, At, Unreconciled, InRun, KeyOf
<1> QED BY <1>3, <1>4, <1>5, <1>6

\* What is counted are keys.
LEMMA CountedKeys == \A s : Counted(s) \in SUBSET Keys /\ Counted(s)' \in SUBSET Keys
BY DEF Counted

\* Strikes are numbers.
LEMMA StrikeNumbers ==
  ASSUME RowsOK, NEW s \in Sms
  PROVE  strikes[s] \in Nat /\ FirstStrikes[s] \in Nat
BY LedgerAssumption DEF RowsOK

\* A step outside of every run keeps the invariant, if the ledger keeps its own.
LEMMA OutOfRun ==
  ASSUME HandlerInv, LedgerInv', now <= now', HandlersOK',
         UNCHANGED <<runs, sent, strikes>>,
         \A k \in Keys : startedAt[k] # 0 => startedAt'[k] # 0,
         \A h \in Handlers : handler'[h] = handler[h] \/ ~InRun(h)'
  PROVE  HandlerInv'
<1>1. /\ RunsInv' /\ OneRunPerRequest'
      /\ \A h \in Handlers :
           /\ At(h, "reconcile")' => handler'[h].outcome.negative \subseteq handler'[h].sms
           /\ Unreconciled(h)' => handler'[h].sms \subseteq sent'[KeyOf(h)']
      /\ \A s \in Sms : Counted(s) \subseteq Counted(s)'
  BY LeavesRun
<1>2. ASSUME NEW s \in Sms PROVE strikes'[s] <= FirstStrikes[s] + Cardinality(Counted(s)')
  <2>1. /\ Cardinality(Counted(s)) <= Cardinality(Counted(s)')
        /\ Cardinality(Counted(s)) \in Nat /\ Cardinality(Counted(s)') \in Nat
    BY <1>1, CountedKeys, KeysMono
  <2>2. strikes[s] <= FirstStrikes[s] + Cardinality(Counted(s))
    BY DEF HandlerInv, StrikesInv
  <2>3. strikes[s] \in Nat /\ FirstStrikes[s] \in Nat
    BY StrikeNumbers DEF HandlerInv, LedgerInv
  <2> QED BY <2>1, <2>2, <2>3
<1>3. StrikesInv'
  BY <1>1, <1>2 DEF StrikesInv
<1> QED BY <1>1, <1>3 DEF HandlerInv

\* What an update of a handler's step, outcome or attempts makes of it.
LEMMA GotoIs ==
  ASSUME HandlersOK, NEW h \in Handlers, NEW step \in Steps, Goto(h, step)
  PROVE  \E st \in HandlerStates :
           /\ handler' = [handler EXCEPT ![h] = st]
           /\ st.step = step /\ st.seen = 0
           /\ st.request = handler[h].request /\ st.sms = handler[h].sms
<1> DEFINE st == [handler[h] EXCEPT !.step = step, !.seen = 0]
<1>1. handler \in [Handlers -> HandlerStates] /\ handler[h] \in HandlerStates
  BY DEF HandlersOK
<1>2. /\ st \in HandlerStates /\ st.step = step /\ st.seen = 0
      /\ st.request = handler[h].request /\ st.sms = handler[h].sms
  BY <1>1 DEF HandlerStates
<1>3. handler' = [handler EXCEPT ![h] = st]
  BY <1>1 DEF Goto, HandlerStates
<1> QED BY <1>2, <1>3

\* A handler goes on to store its outcome.
LEMMA FinishIs ==
  ASSUME HandlersOK, NEW h \in Handlers, NEW target \in {"completed", Failed}, FinishAs(h, target)
  PROVE  \E st \in HandlerStates :
           /\ handler' = [handler EXCEPT ![h] = st]
           /\ st.step = "finish" /\ st.seen = handler[h].seen
           /\ st.request = handler[h].request
<1> DEFINE st == [handler[h] EXCEPT !.step = "finish", !.target = target, !.outcome = NoOutcome]
<1>1. handler \in [Handlers -> HandlerStates] /\ handler[h] \in HandlerStates
  BY DEF HandlersOK
<1>2. /\ st \in HandlerStates /\ st.step = "finish" /\ st.seen = handler[h].seen
      /\ st.request = handler[h].request
  BY <1>1 DEF HandlerStates, Steps, NoOutcome, Outcomes
<1>3. handler' = [handler EXCEPT ![h] = st]
  BY <1>1 DEF FinishAs, HandlerStates
<1> QED BY <1>2, <1>3

\* A handler ends.
LEMMA EndIs ==
  ASSUME NEW h \in Handlers, End(h)
  PROVE  \E st \in HandlerStates :
           handler' = [handler EXCEPT ![h] = st] /\ st.step = "idle" /\ st.seen = 0
BY IdleOK DEF End

\* An attempt leaves the handler where it is, with one more try, or as `next`.
LEMMA AttemptIs ==
  ASSUME HandlersOK, NEW h \in Handlers, NEW target, NEW next \in HandlerStates,
         Attempt(h, target, next)
  PROVE  \/ handler' = [handler EXCEPT ![h] = next]
         \/ \E st \in HandlerStates :
              /\ handler' = [handler EXCEPT ![h] = st]
              /\ \/ st.step = "idle" /\ st.seen = 0
                 \/ /\ st.step = handler[h].step /\ st.seen = handler[h].seen
                    /\ st.request = handler[h].request
<1> DEFINE st == [handler[h] EXCEPT !.tries = @ + 1]
<1>1. handler \in [Handlers -> HandlerStates] /\ handler[h] \in HandlerStates
  BY DEF HandlersOK
<1>2. /\ st \in HandlerStates /\ st.step = handler[h].step /\ st.seen = handler[h].seen
      /\ st.request = handler[h].request
  BY <1>1 DEF HandlerStates
<1>3. CASE End(h)
  BY <1>3, EndIs
<1>4. CASE handler' = [handler EXCEPT ![h].tries = @ + 1]
  <2>1. handler' = [handler EXCEPT ![h] = st]
    BY <1>1, <1>4 DEF HandlerStates
  <2> QED BY <1>2, <2>1
<1>5. CASE handler' = [handler EXCEPT ![h] = next]
  BY <1>5
<1> QED BY <1>3, <1>4, <1>5 DEF Attempt

\* A handler moves, and is in no run then.
LEMMA HandlerMoves ==
  ASSUME HandlerInv, LedgerInv', now' = now, NEW h \in Handlers, NEW st \in HandlerStates,
         handler' = [handler EXCEPT ![h] = st],
         st.step \notin {"started", "provider", "reconcile"},
         st.step = "idle" \/ st.request \in Requests, st.seen <= now,
         NEW late \in SUBSET [key : Keys, sms : SUBSET Sms, seen : Nat],
         \A call \in late : call.seen <= now,
         lateStarts' \subseteq lateStarts \cup late,
         UNCHANGED <<runs, sent, strikes>>,
         \A k \in Keys : startedAt[k] # 0 => startedAt'[k] # 0
  PROVE  HandlerInv'
<1>1. handler \in [Handlers -> HandlerStates] /\ now \in Nat
  BY DEF HandlerInv, HandlersOK, LedgerInv, RowsOK
<1>2. /\ handler' \in [Handlers -> HandlerStates] /\ handler'[h] = st
      /\ \A g \in Handlers \ {h} : handler'[g] = handler[g]
  BY <1>1
<1>3. HandlersOK'
  <2>1. ASSUME NEW g \in Handlers
        PROVE  /\ handler'[g].step # "idle" => handler'[g].request \in Requests
               /\ handler'[g].seen <= now'
    BY <1>2 DEF HandlerInv, HandlersOK, At
  <2> QED BY <1>2, <2>1 DEF HandlerInv, HandlersOK, At
<1>4. \A g \in Handlers : handler'[g] = handler[g] \/ ~InRun(g)'
  BY <1>2 DEF InRun
<1> QED BY <1>1, <1>3, <1>4, OutOfRun

-----------------------------------------------------------------------------
(***************************************************************************)
(* The actions.                                                            *)
(***************************************************************************)
LEMMA HandlerFacts ==
  ASSUME HandlerInv, NEW h \in Handlers
  PROVE  /\ LedgerInv /\ HandlersOK /\ handler[h] \in HandlerStates
         /\ now \in Nat /\ handler[h].seen \in Nat /\ handler[h].seen <= now
         /\ handler[h].sms \in SUBSET Sms
         /\ ~At(h, "idle") => handler[h].request \in Requests /\ KeyOf(h) \in Keys
BY HandlerAssumption DEF HandlerInv, HandlersOK, LedgerInv, RowsOK, At, KeyOf, HandlerStates

\* An action that leaves the starts and the strikes, and ends or moves on one
\* handler outside a run.
LEMMA QuietMove ==
  ASSUME HandlerInv, LedgerInv', now' = now, UNCHANGED <<startedAt, strikes, lateStarts, runs, sent>>,
         NEW h \in Handlers, NEW st \in HandlerStates, handler' = [handler EXCEPT ![h] = st],
         st.step \notin {"started", "provider", "reconcile"},
         st.step = "idle" \/ st.request \in Requests, st.seen <= now
  PROVE  HandlerInv'
<1>1. {} \in SUBSET [key : Keys, sms : SUBSET Sms, seen : Nat] /\ \A call \in {} : call.seen <= now
  OBVIOUS
<1>2. lateStarts' \subseteq lateStarts \cup {} /\ UNCHANGED <<runs, sent, strikes>>
  OBVIOUS
<1>3. \A k \in Keys : startedAt[k] # 0 => startedAt'[k] # 0
  OBVIOUS
<1> QED BY <1>1, <1>2, <1>3, HandlerMoves

\* A call arrives.
LEMMA ReceiveInv ==
  ASSUME HandlerInv, NEW h \in Handlers, NEW request \in Requests, Receive(h, request)
  PROVE  HandlerInv'
<1> DEFINE sms == {s \in request.sms : ~Blocked(s, request.session)}
           st == [Idle EXCEPT !.step = "reserve", !.request = request, !.sms = sms, !.seen = now]
<1>1. UNCHANGED ledgerVars /\ now' = now /\ UNCHANGED <<startedAt, strikes, lateStarts, runs, sent>>
      /\ handler' = [handler EXCEPT ![h] = st]
  BY DEF Receive, ledgerVars
<1>2. sms \in SUBSET Sms /\ now \in Nat
  BY HandlerAssumption, HandlerFacts
<1>3. st \in HandlerStates /\ st.step = "reserve" /\ st.request = request /\ st.seen = now
  BY <1>2, IdleOK DEF HandlerStates, Steps, Idle
<1>4. LedgerInv'
  BY <1>1, HandlerFacts, LedgerStutters
<1> HIDE DEF st, sms
<1>5. /\ st.step \notin {"started", "provider", "reconcile"}
      /\ st.step = "idle" \/ st.request \in Requests
      /\ st.seen <= now
  BY <1>2, <1>3
<1> QED BY <1>1, <1>3, <1>4, <1>5, QuietMove

\* A handler reserves.
LEMMA ReserveInv == ASSUME HandlerInv, NEW h \in Handlers, ReserveWork(h) PROVE HandlerInv'
<1>1. PICK answer \in BOOLEAN :
        /\ Reserve(handler[h].request, Cardinality(handler[h].sms), handler[h].seen, answer)
        /\ Goto(h, "admitted") \/ End(h)
  BY DEF ReserveWork
<1>2. UNCHANGED <<lateStarts, runs, sent>> /\ At(h, "reserve") /\ ~At(h, "idle")
  BY DEF ReserveWork, callVars, At
<1>3. Cardinality(handler[h].sms) \in 0..Cardinality(Sms)
  BY HandlerFacts, LedgerAssumption, FS_Subset, FS_CardinalityType
<1>4. LedgerInv' /\ UNCHANGED <<startedAt, strikes>>
  BY <1>1, <1>2, <1>3, HandlerFacts, ReserveLedger
<1>5. now' = now
  BY <1>1 DEF Reserve
<1>6. CASE Goto(h, "admitted")
  <2>1. PICK st \in HandlerStates : handler' = [handler EXCEPT ![h] = st] /\ st.step = "admitted"
                                    /\ st.seen = 0 /\ st.request = handler[h].request
    BY <1>6, HandlerFacts, GotoIs DEF Steps
  <2>9. /\ st.step \notin {"started", "provider", "reconcile"}
        /\ st.step = "idle" \/ st.request \in Requests
        /\ st.seen <= now
    BY <1>2, <1>4, <1>5, <2>1, HandlerFacts
  <2> QED BY <1>2, <1>4, <1>5, <2>1, <2>9, QuietMove
<1>7. CASE End(h)
  <2>1. PICK st \in HandlerStates :
          handler' = [handler EXCEPT ![h] = st] /\ st.step = "idle" /\ st.seen = 0
    BY <1>7, EndIs
  <2>9. /\ st.step \notin {"started", "provider", "reconcile"}
        /\ st.step = "idle" \/ st.request \in Requests
        /\ st.seen <= now
    BY <1>2, <1>4, <1>5, <2>1, HandlerFacts
  <2> QED BY <1>2, <1>4, <1>5, <2>1, <2>9, QuietMove
<1> QED BY <1>1, <1>6, <1>7

\* A release that fails, or takes effect.
LEMMA ReleaseEnds ==
  ASSUME HandlerInv, NEW h \in Handlers, ~At(h, "idle"),
         ReleaseWork(KeyOf(h)) \/ UNCHANGED ledgerVars, End(h), UNCHANGED <<lateStarts, callVars>>
  PROVE  HandlerInv'
<1>1. LedgerInv'
  BY HandlerFacts, ReleaseLedger, LedgerStutters
<1>2. now' = now /\ UNCHANGED <<startedAt, strikes, lateStarts, runs, sent>>
  BY DEF ReleaseWork, ledgerVars, callVars
<1>3. PICK st \in HandlerStates :
        handler' = [handler EXCEPT ![h] = st] /\ st.step = "idle" /\ st.seen = 0
  BY EndIs
<1>9. /\ st.step \notin {"started", "provider", "reconcile"}
      /\ st.step = "idle" \/ st.request \in Requests
      /\ st.seen <= now
  BY <1>1, <1>2, <1>3, HandlerFacts
<1> QED BY <1>1, <1>2, <1>3, <1>9, QuietMove

\* A cancelled call releases its reservation.
LEMMA CancelInv == ASSUME HandlerInv, NEW h \in Handlers, CancelReservation(h) PROVE HandlerInv'
BY ReleaseEnds DEF CancelReservation, At

\* A handler that does not know if it started releases.
LEMMA ReleaseUnknownInv == ASSUME HandlerInv, NEW h \in Handlers, ReleaseUnknown(h) PROVE HandlerInv'
BY ReleaseEnds DEF ReleaseUnknown, At

\* A handler reads the clock to ask for the start.
LEMMA CallMarkInv == ASSUME HandlerInv, NEW h \in Handlers, CallMark(h) PROVE HandlerInv'
<1> DEFINE st == [handler[h] EXCEPT !.step = "mark", !.seen = now]
<1>1. /\ At(h, "admitted") /\ ~At(h, "idle") /\ UNCHANGED ledgerVars
      /\ handler' = [handler EXCEPT ![h].step = "mark", ![h].seen = now]
      /\ now' = now /\ UNCHANGED <<startedAt, strikes, lateStarts, runs, sent>>
  BY DEF CallMark, ledgerVars, callVars, At
<1>2. handler \in [Handlers -> HandlerStates] /\ handler[h] \in HandlerStates /\ now \in Nat
  BY HandlerFacts DEF HandlersOK
<1>3. /\ st \in HandlerStates /\ st.step = "mark" /\ st.seen = now /\ st.request = handler[h].request
  BY <1>2 DEF HandlerStates, Steps
<1>4. handler' = [handler EXCEPT ![h] = st]
  BY <1>1, <1>2 DEF HandlerStates
<1>5. LedgerInv'
  BY <1>1, HandlerFacts, LedgerStutters
<1> HIDE DEF st
<1>9. /\ st.step \notin {"started", "provider", "reconcile"}
      /\ st.step = "idle" \/ st.request \in Requests
      /\ st.seen <= now
  BY <1>1, <1>2, <1>3, <1>4, <1>5, HandlerFacts
<1> QED BY <1>1, <1>2, <1>3, <1>4, <1>5, <1>9, QuietMove

\* The answer of a start is lost: it may arrive late.
LEMMA LoseMarkInv == ASSUME HandlerInv, NEW h \in Handlers, LoseMark(h) PROVE HandlerInv'
<1> DEFINE call == [key |-> KeyOf(h), sms |-> handler[h].sms, seen |-> handler[h].seen]
<1>1. /\ At(h, "mark") /\ ~At(h, "idle") /\ UNCHANGED ledgerVars
      /\ now' = now /\ UNCHANGED <<startedAt, strikes, runs, sent>>
      /\ lateStarts' \subseteq lateStarts \cup {call} /\ Goto(h, "unknown")
  BY DEF LoseMark, ledgerVars, callVars, At
<1>2. PICK st \in HandlerStates : handler' = [handler EXCEPT ![h] = st] /\ st.step = "unknown"
                                  /\ st.seen = 0 /\ st.request = handler[h].request
  BY <1>1, HandlerFacts, GotoIs DEF Steps
<1>3. call \in [key : Keys, sms : SUBSET Sms, seen : Nat] /\ call.seen <= now
  BY <1>1, HandlerFacts
<1>4. {call} \in SUBSET [key : Keys, sms : SUBSET Sms, seen : Nat] /\ \A c \in {call} : c.seen <= now
  BY <1>3
<1>5. LedgerInv'
  BY <1>1, HandlerFacts, LedgerStutters
<1> HIDE DEF call
<1>9. /\ st.step \notin {"started", "provider", "reconcile"}
      /\ st.step = "idle" \/ st.request \in Requests
      /\ st.seen <= now
  BY <1>1, <1>2, <1>4, <1>5, HandlerFacts
<1> QED BY <1>1, <1>2, <1>4, <1>5, <1>9, HandlerMoves

\* A start arrives late, with nobody to run it.
LEMMA LateStartInv == ASSUME HandlerInv, LateStart PROVE HandlerInv'
<1>1. PICK call \in lateStarts : \E answer \in BOOLEAN :
        MarkProviderStarted(call.key, call.sms, call.seen, answer)
  BY DEF LateStart
<1>2. PICK answer \in BOOLEAN : MarkProviderStarted(call.key, call.sms, call.seen, answer)
  BY <1>1
<1>3. lateStarts' \subseteq lateStarts /\ UNCHANGED <<handler, runs, sent>>
  BY DEF LateStart, callVars
<1>4. /\ LedgerInv /\ HandlersOK
      /\ call.key \in Keys /\ call.seen \in Nat /\ call.seen <= now
  BY DEF HandlerInv, HandlersOK
<1>5. /\ LedgerInv' /\ strikes' = strikes
      /\ \A k \in Keys : startedAt[k] # 0 => startedAt'[k] # 0
  BY <1>2, <1>4, MarkLedger
<1>6. now' = now /\ now \in Nat
  BY <1>2, <1>4 DEF MarkProviderStarted, MarkUnless, LedgerInv, RowsOK
<1>7. HandlersOK'
  BY <1>3, <1>4, <1>6 DEF HandlersOK, At
<1> QED BY <1>3, <1>5, <1>6, <1>7, OutOfRun

\* Time passes for the handlers.
LEMMA TickInv ==
  ASSUME HandlerInv, Tick, UNCHANGED <<handler, lateStarts, callVars>> PROVE HandlerInv'
<1>1. LedgerInv /\ HandlersOK /\ UNCHANGED <<handler, lateStarts, runs, sent>>
      /\ now \in Nat /\ now' = now + 1
  BY DEF HandlerInv, callVars, Tick, LedgerInv, RowsOK
<1>2. LedgerInv' /\ UNCHANGED <<startedAt, strikes>>
  BY <1>1, TickLedger
<1>3. HandlersOK'
  <2>1. \A h \in Handlers : handler[h].seen \in Nat
    BY <1>1 DEF HandlersOK, HandlerStates
  <2>2. \A call \in lateStarts : call.seen \in Nat
    BY <1>1 DEF HandlersOK
  <2> QED BY <1>1, <2>1, <2>2 DEF HandlersOK, At
<1> QED BY <1>1, <1>2, <1>3, OutOfRun

\* The provider fails.
LEMMA ProviderFailsInv == ASSUME HandlerInv, NEW h \in Handlers, ProviderFails(h) PROVE HandlerInv'
<1>1. /\ ~At(h, "idle") /\ UNCHANGED ledgerVars /\ FinishAs(h, Failed)
      /\ now' = now /\ UNCHANGED <<startedAt, strikes, lateStarts, runs, sent>>
  BY DEF ProviderFails, ledgerVars, callVars, At
<1>2. PICK st \in HandlerStates : handler' = [handler EXCEPT ![h] = st] /\ st.step = "finish"
                                  /\ st.seen = handler[h].seen /\ st.request = handler[h].request
  BY <1>1, HandlerFacts, FinishIs
<1>3. LedgerInv'
  BY <1>1, HandlerFacts, LedgerStutters
<1>9. /\ st.step \notin {"started", "provider", "reconcile"}
      /\ st.step = "idle" \/ st.request \in Requests
      /\ st.seen <= now
  BY <1>1, <1>2, <1>3, HandlerFacts
<1> QED BY <1>1, <1>2, <1>3, <1>9, QuietMove

\* A handler dies.
LEMMA KillInv == ASSUME HandlerInv, NEW h \in Handlers, Kill(h) PROVE HandlerInv'
<1>1. /\ ~At(h, "idle") /\ End(h) /\ UNCHANGED ledgerVars /\ UNCHANGED <<lateStarts, callVars>>
  BY DEF Kill
<1> QED BY <1>1, ReleaseEnds

\* The attempts to complete.
LEMMA AttemptInv ==
  ASSUME HandlerInv, NEW h \in Handlers, At(h, "unknown") \/ At(h, "finish"),
         NEW target \in {"completed", Failed}, NEW next \in HandlerStates, Attempt(h, target, next),
         \/ next.step = "idle" /\ next.seen = 0
         \/ next.step = "unknown" /\ next.seen = handler[h].seen /\ next.request = handler[h].request,
         UNCHANGED <<lateStarts, callVars>>
  PROVE  HandlerInv'
<1>1. PICK answer \in BOOLEAN : CompleteWork(KeyOf(h), target, answer) \/ UNCHANGED ledgerVars
  BY DEF Attempt
<1>2. now' = now /\ UNCHANGED <<startedAt, strikes, lateStarts, runs, sent>> /\ ~At(h, "idle")
  BY <1>1 DEF CompleteWork, ledgerVars, callVars, At
<1>3. LedgerInv'
  BY <1>1, <1>2, HandlerFacts, CompleteLedger, LedgerStutters
<1>4. PICK st \in HandlerStates :
        /\ handler' = [handler EXCEPT ![h] = st]
        /\ \/ st.step = "idle" /\ st.seen = 0
           \/ /\ st.step = "unknown" \/ st.step = handler[h].step
              /\ st.seen = handler[h].seen /\ st.request = handler[h].request
  <2> HIDE DEF HandlerStates
  <2> QED BY HandlerFacts, AttemptIs
<1>5. /\ st.step \notin {"started", "provider", "reconcile"}
      /\ st.step = "idle" \/ st.request \in Requests
      /\ st.seen <= now
  BY <1>2, <1>4, HandlerFacts DEF At
<1> QED BY <1>2, <1>3, <1>4, <1>5, QuietMove

\* A handler that does not know if it started completes as failed.
LEMMA CompleteUnknownInv ==
  ASSUME HandlerInv, NEW h \in Handlers, CompleteUnknown(h) PROVE HandlerInv'
<1> DEFINE next == [handler[h] EXCEPT !.tries = MaxAttempts]
<1>1. At(h, "unknown") /\ Attempt(h, Failed, next) /\ UNCHANGED <<lateStarts, callVars>>
  BY DEF CompleteUnknown
<1>2. /\ next \in HandlerStates /\ next.step = "unknown" /\ next.seen = handler[h].seen
      /\ next.request = handler[h].request
  BY <1>1, HandlerFacts, HandlerAssumption DEF HandlerStates, At
<1> HIDE DEF next
<1> QED BY <1>1, <1>2, AttemptInv

\* A handler stores its outcome.
LEMMA FinishInv == ASSUME HandlerInv, NEW h \in Handlers, Finish(h) PROVE HandlerInv'
<1>1. /\ At(h, "finish") /\ Attempt(h, handler[h].target, Idle)
      /\ UNCHANGED <<lateStarts, callVars>> /\ handler[h].target \in {"completed", Failed}
  BY HandlerFacts DEF Finish, HandlerStates
<1> QED BY <1>1, IdleOK, AttemptInv

\* A handler moves within a run: its request and candidates stay, and it is
\* about to run the provider, or has run it, as it was.
LEMMA StartGranted ==
  ASSUME HandlerInv, NEW h \in Handlers, At(h, "mark"), Goto(h, "started"),
         MarkProviderStarted(KeyOf(h), handler[h].sms, handler[h].seen, TRUE),
         UNCHANGED <<lateStarts, callVars>>
  PROVE  HandlerInv'
<1> DEFINE k == KeyOf(h)
<1>1. PICK st \in HandlerStates :
        /\ handler' = [handler EXCEPT ![h] = st] /\ st.step = "started" /\ st.seen = 0
        /\ st.request = handler[h].request /\ st.sms = handler[h].sms
  BY HandlerFacts, GotoIs DEF Steps
<1>2. /\ ~At(h, "idle") /\ handler[h].request \in Requests /\ k \in Keys
      /\ handler[h].seen \in Nat /\ handler[h].seen <= now /\ now \in Nat
      /\ LedgerInv /\ HandlersOK /\ UNCHANGED <<lateStarts, runs, sent>>
  BY HandlerFacts DEF At, callVars
<1>3. /\ LedgerInv' /\ strikes' = strikes
      /\ \A j \in Keys \ {k} : startedAt'[j] = startedAt[j]
      /\ startedAt[k] = 0 /\ startedAt'[k] # 0
  BY <1>2, MarkLedger
<1>4. now' = now
  BY DEF MarkProviderStarted, MarkUnless
<1>5. /\ handler' \in [Handlers -> HandlerStates] /\ handler'[h] = st
      /\ \A g \in Handlers \ {h} : handler'[g] = handler[g]
  BY <1>1, <1>2 DEF HandlersOK
<1>6. HandlersOK'
  <2>1. ASSUME NEW g \in Handlers
        PROVE  /\ handler'[g].step # "idle" => handler'[g].request \in Requests
               /\ handler'[g].seen <= now'
    BY <1>1, <1>2, <1>4, <1>5 DEF HandlersOK, At
  <2> QED BY <1>2, <1>4, <1>5, <2>1 DEF HandlersOK, At
<1>7. runs[k] = 0
  BY <1>2, <1>3 DEF HandlerInv, OneRunPerRequest, HandlersOK
<1>8. /\ KeyOf(h)' = k
      /\ \A g \in Handlers \ {h} : KeyOf(g)' = KeyOf(g) /\ (InRun(g)' <=> InRun(g))
                                   /\ (Unreconciled(g)' <=> Unreconciled(g))
      /\ \A g \in Handlers : InRun(g) => KeyOf(g) # k /\ KeyOf(g) \in Keys
      /\ ~Unreconciled(h)' /\ ~Unreconciled(h)
  <2>1. \A g \in Handlers : InRun(g) => KeyOf(g) \in Keys
    BY HandlerFacts DEF InRun, At
  <2> QED BY <1>1, <1>3, <1>5, <2>1 DEF KeyOf, InRun, Unreconciled, HandlerInv, RunsInv, At
<1> HIDE DEF k
<1>9. RunsInv'
  <2>1. ASSUME NEW g \in Handlers, InRun(g)' PROVE startedAt'[KeyOf(g)'] # 0
    BY <1>3, <1>8, <2>1 DEF HandlerInv, RunsInv
  <2>2. ASSUME NEW f \in Handlers, NEW g \in Handlers, InRun(f)', InRun(g)', KeyOf(f)' = KeyOf(g)'
        PROVE  f = g
    BY <1>8, <2>2 DEF HandlerInv, RunsInv
  <2>3. ASSUME NEW g \in Handlers, At(g, "started")' PROVE runs'[KeyOf(g)'] = 0
    BY <1>2, <1>5, <1>7, <1>8, <2>3 DEF HandlerInv, RunsInv, At
  <2> QED BY <1>2, <2>1, <2>2, <2>3 DEF HandlerInv, RunsInv
<1>10. OneRunPerRequest'
  BY <1>2, <1>3, <1>7 DEF HandlerInv, OneRunPerRequest, HandlersOK
<1>11. StrikesInv'
  <2>1. \A s \in Sms : Counted(s)' = Counted(s)
    BY <1>2, <1>5, <1>8 DEF Counted
  <2>2. ASSUME NEW g \in Handlers
        PROVE  /\ At(g, "reconcile")' => handler'[g].outcome.negative \subseteq handler'[g].sms
               /\ Unreconciled(g)' => handler'[g].sms \subseteq sent'[KeyOf(g)']
    BY <1>1, <1>2, <1>5, <1>8 DEF HandlerInv, StrikesInv, At
  <2> QED BY <1>3, <2>1, <2>2 DEF HandlerInv, StrikesInv
<1> QED BY <1>3, <1>6, <1>9, <1>10, <1>11 DEF HandlerInv

\* A handler asks for the start, and is granted or refused it.
LEMMA MarkInv == ASSUME HandlerInv, NEW h \in Handlers, Mark(h) PROVE HandlerInv'
<1>1. PICK answer \in BOOLEAN :
        /\ MarkProviderStarted(KeyOf(h), handler[h].sms, handler[h].seen, answer)
        /\ \/ Goto(h, "unknown")
           \/ answer /\ Goto(h, "started")
           \/ ~answer /\ End(h)
  BY DEF Mark
<1>2. /\ At(h, "mark") /\ ~At(h, "idle") /\ UNCHANGED <<lateStarts, callVars>>
      /\ UNCHANGED <<lateStarts, runs, sent>>
  BY DEF Mark, callVars, At
<1>3. CASE answer /\ Goto(h, "started")
  <2>1. MarkProviderStarted(KeyOf(h), handler[h].sms, handler[h].seen, TRUE)
    BY <1>1, <1>3
  <2> QED BY <1>2, <1>3, <2>1, StartGranted
<1>4. ASSUME NEW st \in HandlerStates, handler' = [handler EXCEPT ![h] = st],
             \/ st.step = "idle"
             \/ st.step = "unknown" /\ st.request = handler[h].request,
             st.seen = 0
      PROVE  HandlerInv'
  <2>1. LedgerInv' /\ strikes' = strikes /\ \A k \in Keys : startedAt[k] # 0 => startedAt'[k] # 0
    BY <1>1, <1>2, HandlerFacts, MarkLedger
  <2>2. now' = now
    BY <1>1 DEF MarkProviderStarted, MarkUnless
  <2>3. /\ st.step \notin {"started", "provider", "reconcile"}
        /\ st.step = "idle" \/ st.request \in Requests
        /\ st.seen <= now
    BY <1>2, <1>4, HandlerFacts
  <2>4. {} \in SUBSET [key : Keys, sms : SUBSET Sms, seen : Nat] /\ \A call \in {} : call.seen <= now
    OBVIOUS
  <2>5. lateStarts' \subseteq lateStarts \cup {} /\ UNCHANGED <<runs, sent, strikes>>
    BY <1>2, <2>1
  <2>6. st \in HandlerStates /\ handler' = [handler EXCEPT ![h] = st]
    BY <1>4
  <2> QED BY <2>1, <2>2, <2>3, <2>4, <2>5, <2>6, HandlerMoves
<1>5. CASE Goto(h, "unknown")
  <2>1. PICK st \in HandlerStates : handler' = [handler EXCEPT ![h] = st] /\ st.step = "unknown"
                                    /\ st.seen = 0 /\ st.request = handler[h].request
    BY <1>5, HandlerFacts, GotoIs DEF Steps
  <2> QED BY <1>4, <2>1
<1>6. CASE End(h)
  <2>1. PICK st \in HandlerStates :
          handler' = [handler EXCEPT ![h] = st] /\ st.step = "idle" /\ st.seen = 0
    BY <1>6, EndIs
  <2> QED BY <1>4, <2>1
<1> QED BY <1>1, <1>3, <1>5, <1>6

\* The provider runs for the first time for the key, and what it was sent is
\* yet to be reconciled.
LEMMA ExecuteInv == ASSUME HandlerInv, NEW h \in Handlers, ExecuteProvider(h) PROVE HandlerInv'
<1> DEFINE k == KeyOf(h)
<1>1. /\ At(h, "started") /\ ~At(h, "idle") /\ Goto(h, "provider") /\ UNCHANGED ledgerVars
      /\ UNCHANGED <<now, startedAt, strikes, lateStarts>>
      /\ runs' = [runs EXCEPT ![k] = @ + 1] /\ sent' = [sent EXCEPT ![k] = @ \cup handler[h].sms]
  BY DEF ExecuteProvider, ledgerVars, At
<1>2. PICK st \in HandlerStates :
        /\ handler' = [handler EXCEPT ![h] = st] /\ st.step = "provider" /\ st.seen = 0
        /\ st.request = handler[h].request /\ st.sms = handler[h].sms
  BY <1>1, HandlerFacts, GotoIs DEF Steps
<1>3. /\ handler[h].request \in Requests /\ k \in Keys /\ handler[h].sms \in SUBSET Sms
      /\ HandlersOK /\ InRun(h) /\ now \in Nat
      /\ runs[k] = 0 /\ sent[k] = {} /\ startedAt[k] # 0
  BY <1>1, HandlerFacts DEF InRun, At, HandlerInv, RunsInv
<1>4. LedgerInv'
  BY <1>1, HandlerFacts, LedgerStutters
<1>5. /\ handler' \in [Handlers -> HandlerStates] /\ handler'[h] = st
      /\ \A g \in Handlers \ {h} : handler'[g] = handler[g]
  BY <1>2, <1>3 DEF HandlersOK
<1>6. /\ runs' \in [Keys -> Nat] /\ sent' \in [Keys -> SUBSET Sms]
      /\ runs'[k] = 1 /\ sent'[k] = handler[h].sms
      /\ \A j \in Keys \ {k} : runs'[j] = runs[j] /\ sent'[j] = sent[j]
  BY <1>1, <1>3 DEF HandlersOK
<1>7. HandlersOK'
  <2>1. ASSUME NEW g \in Handlers
        PROVE  /\ handler'[g].step # "idle" => handler'[g].request \in Requests
               /\ handler'[g].seen <= now'
    BY <1>1, <1>2, <1>3, <1>5 DEF HandlersOK, At
  <2> QED BY <1>1, <1>3, <1>5, <1>6, <2>1 DEF HandlersOK, At
<1>8. /\ KeyOf(h)' = k /\ InRun(h)' /\ Unreconciled(h)' /\ ~Unreconciled(h)
      /\ \A g \in Handlers \ {h} : KeyOf(g)' = KeyOf(g) /\ (InRun(g)' <=> InRun(g))
                                   /\ (Unreconciled(g)' <=> Unreconciled(g))
                                   /\ (InRun(g) => KeyOf(g) # k /\ KeyOf(g) \in Keys)
  <2>1. \A g \in Handlers : InRun(g) => KeyOf(g) \in Keys
    BY HandlerFacts DEF InRun, At
  <2> QED BY <1>1, <1>2, <1>3, <1>5, <2>1 DEF KeyOf, InRun, Unreconciled, HandlerInv, RunsInv, At
<1>9. handler'[h].sms = handler[h].sms /\ ~At(h, "started")' /\ ~At(h, "reconcile")'
  BY <1>2, <1>5 DEF At
<1> HIDE DEF k
<1>10. RunsInv'
  <2>1. ASSUME NEW g \in Handlers, InRun(g)' PROVE startedAt'[KeyOf(g)'] # 0
    BY <1>1, <1>3, <1>8, <2>1 DEF HandlerInv, RunsInv
  <2>2. ASSUME NEW f \in Handlers, NEW g \in Handlers, InRun(f)', InRun(g)', KeyOf(f)' = KeyOf(g)'
        PROVE  f = g
    BY <1>8, <2>2 DEF HandlerInv, RunsInv
  <2>3. ASSUME NEW g \in Handlers, At(g, "started")' PROVE runs'[KeyOf(g)'] = 0
    <3>1. g # h /\ At(g, "started") /\ InRun(g)
      BY <1>5, <1>9, <2>3 DEF At, InRun
    <3> QED BY <1>6, <1>8, <3>1 DEF HandlerInv, RunsInv
  <2>4. \A j \in Keys : runs'[j] = 0 => sent'[j] = {}
    BY <1>6 DEF HandlerInv, RunsInv
  <2> QED BY <2>1, <2>2, <2>3, <2>4 DEF RunsInv
<1>11. OneRunPerRequest'
  BY <1>1, <1>3, <1>6 DEF HandlerInv, OneRunPerRequest
<1>12. StrikesInv'
  <2>1. ASSUME NEW s \in Sms PROVE Counted(s)' = Counted(s)
    <3>1. ASSUME NEW j \in Keys \ {k} PROVE j \in Counted(s)' <=> j \in Counted(s)
      BY <1>5, <1>6, <1>8 DEF Counted
    <3>2. k \notin Counted(s)
      BY <1>3 DEF Counted
    <3>3. k \notin Counted(s)'
      BY <1>6, <1>8, <1>9 DEF Counted
    <3> QED BY <3>1, <3>2, <3>3 DEF Counted
  <2>2. ASSUME NEW g \in Handlers
        PROVE  /\ At(g, "reconcile")' => handler'[g].outcome.negative \subseteq handler'[g].sms
               /\ Unreconciled(g)' => handler'[g].sms \subseteq sent'[KeyOf(g)']
    <3>1. CASE g = h
      BY <1>6, <1>8, <1>9, <3>1
    <3>2. CASE g # h
      BY <1>5, <1>6, <1>8, <3>2 DEF HandlerInv, StrikesInv, At, Unreconciled, InRun
    <3> QED BY <3>1, <3>2
  <2> QED BY <1>1, <2>1, <2>2 DEF HandlerInv, StrikesInv
<1> QED BY <1>4, <1>7, <1>10, <1>11, <1>12 DEF HandlerInv

\* The answer changes neither what is sent nor what is reconciled.
LEMMA AnswersInv == ASSUME HandlerInv, NEW h \in Handlers, ProviderAnswers(h) PROVE HandlerInv'
<1>1. PICK negative \in SUBSET handler[h].sms : \E positive \in SUBSET (handler[h].sms \ negative) :
        handler' = [handler EXCEPT ![h].step = "reconcile",
                      ![h].outcome = [positive |-> positive, negative |-> negative]]
  BY DEF ProviderAnswers
<1>2. PICK positive \in SUBSET (handler[h].sms \ negative) :
        handler' = [handler EXCEPT ![h].step = "reconcile",
                      ![h].outcome = [positive |-> positive, negative |-> negative]]
  BY <1>1
<1> DEFINE outcome == [positive |-> positive, negative |-> negative]
           st == [handler[h] EXCEPT !.step = "reconcile", !.outcome = outcome]
<1>3. /\ At(h, "provider") /\ ~At(h, "idle") /\ UNCHANGED ledgerVars
      /\ UNCHANGED <<now, startedAt, strikes, lateStarts, runs, sent>>
  BY DEF ProviderAnswers, ledgerVars, callVars, At
<1>4. /\ HandlersOK /\ handler \in [Handlers -> HandlerStates] /\ handler[h] \in HandlerStates
      /\ handler[h].request \in Requests /\ handler[h].sms \in SUBSET Sms
      /\ now \in Nat /\ handler[h].seen <= now
  BY <1>3, HandlerFacts DEF HandlersOK
<1>5. outcome \in Outcomes
  BY <1>4 DEF Outcomes
<1>6. /\ st \in HandlerStates /\ st.step = "reconcile" /\ st.outcome.negative = negative
      /\ st.request = handler[h].request /\ st.sms = handler[h].sms /\ st.seen = handler[h].seen
  <2> HIDE DEF outcome
  <2>1. /\ st \in HandlerStates /\ st.step = "reconcile" /\ st.outcome = outcome
        /\ st.request = handler[h].request /\ st.sms = handler[h].sms /\ st.seen = handler[h].seen
    BY <1>4, <1>5 DEF HandlerStates, Steps
  <2> QED BY <2>1 DEF outcome
<1>7. handler' = [handler EXCEPT ![h] = st]
  BY <1>2, <1>4 DEF HandlerStates
<1> HIDE DEF st, outcome
<1>8. /\ handler' \in [Handlers -> HandlerStates] /\ handler'[h] = st
      /\ \A g \in Handlers \ {h} : handler'[g] = handler[g]
  BY <1>4, <1>6, <1>7
<1>9. HandlersOK'
  <2>1. ASSUME NEW g \in Handlers
        PROVE  /\ handler'[g].step # "idle" => handler'[g].request \in Requests
               /\ handler'[g].seen <= now'
    BY <1>3, <1>4, <1>6, <1>8 DEF HandlersOK, At
  <2> QED BY <1>3, <1>4, <1>8, <2>1 DEF HandlersOK, At
<1>10. \A g \in Handlers : /\ KeyOf(g)' = KeyOf(g) /\ (InRun(g)' <=> InRun(g))
                           /\ (Unreconciled(g)' <=> Unreconciled(g))
                           /\ (At(g, "started")' <=> At(g, "started"))
                           /\ handler'[g].sms = handler[g].sms
  BY <1>3, <1>6, <1>8 DEF KeyOf, InRun, Unreconciled, At
<1>11. RunsInv' /\ OneRunPerRequest'
  BY <1>3, <1>10 DEF HandlerInv, RunsInv, OneRunPerRequest
<1>12. StrikesInv'
  <2>1. \A s \in Sms : Counted(s)' = Counted(s)
    BY <1>3, <1>10 DEF Counted
  <2>2. ASSUME NEW g \in Handlers
        PROVE  At(g, "reconcile")' => handler'[g].outcome.negative \subseteq handler'[g].sms
    BY <1>6, <1>8 DEF HandlerInv, StrikesInv, At
  <2> QED BY <1>3, <1>10, <2>1, <2>2 DEF HandlerInv, StrikesInv
<1>13. LedgerInv'
  BY <1>3, HandlerFacts, LedgerStutters
<1> QED BY <1>9, <1>11, <1>12, <1>13 DEF HandlerInv

\* A result is reconciled once: its key was not counted, and now is.
LEMMA ReconcileInv == ASSUME HandlerInv, NEW h \in Handlers, Reconcile(h) PROVE HandlerInv'
<1> DEFINE k == KeyOf(h)
           outcome == handler[h].outcome
<1>1. /\ At(h, "reconcile") /\ ~At(h, "idle") /\ UNCHANGED <<lateStarts, runs, sent>>
      /\ FinishAs(h, "completed") \/ FinishAs(h, Failed)
      /\ ReconcileOutcomes(outcome.positive, outcome.negative) \/ UNCHANGED ledgerVars
  BY DEF Reconcile, callVars, At
<1>2. PICK st \in HandlerStates : handler' = [handler EXCEPT ![h] = st] /\ st.step = "finish"
                                  /\ st.seen = handler[h].seen /\ st.request = handler[h].request
  BY <1>1, HandlerFacts, FinishIs
<1>3. /\ st.step \notin {"started", "provider", "reconcile"}
      /\ st.step = "idle" \/ st.request \in Requests
      /\ st.seen <= now
  BY <1>1, <1>2, HandlerFacts
<1>4. CASE UNCHANGED ledgerVars
  <2>1. LedgerInv'
    BY <1>4, HandlerFacts, LedgerStutters
  <2>2. now' = now /\ UNCHANGED <<startedAt, strikes, lateStarts, runs, sent>>
    BY <1>1, <1>4 DEF ledgerVars
  <2> QED BY <1>2, <1>3, <2>1, <2>2, QuietMove
<1>5. CASE ReconcileOutcomes(outcome.positive, outcome.negative)
  <2>1. /\ LedgerInv' /\ startedAt' = startedAt /\ now' = now
        /\ \A s \in Sms : strikes'[s] <= strikes[s] + (IF s \in outcome.negative THEN 1 ELSE 0)
    <3> HIDE DEF outcome
    <3>1. now' = now
      BY <1>5 DEF ReconcileOutcomes
    <3>2. LedgerInv
      BY HandlerFacts
    <3> QED BY <1>5, <3>1, <3>2, ReconcileLedger
  <2>2. /\ HandlersOK /\ k \in Keys /\ handler \in [Handlers -> HandlerStates]
        /\ InRun(h) /\ Unreconciled(h) /\ now \in Nat
        /\ outcome.negative \subseteq handler[h].sms /\ handler[h].sms \subseteq sent[k]
    BY <1>1, HandlerFacts DEF HandlersOK, InRun, Unreconciled, At, HandlerInv, StrikesInv
  <2>3. /\ handler' \in [Handlers -> HandlerStates] /\ handler'[h] = st
        /\ \A g \in Handlers \ {h} : handler'[g] = handler[g]
    BY <1>2, <2>2
  <2>4. HandlersOK'
    <3>1. ASSUME NEW g \in Handlers
          PROVE  /\ handler'[g].step # "idle" => handler'[g].request \in Requests
                 /\ handler'[g].seen <= now'
      BY <1>3, <2>1, <2>2, <2>3 DEF HandlersOK, At
    <3> QED BY <1>1, <2>1, <2>2, <2>3, <3>1 DEF HandlersOK, At
  <2>5. \A g \in Handlers : handler'[g] = handler[g] \/ ~InRun(g)'
    BY <1>2, <2>3 DEF InRun
  <2>6. /\ RunsInv' /\ OneRunPerRequest'
        /\ \A g \in Handlers :
             /\ At(g, "reconcile")' => handler'[g].outcome.negative \subseteq handler'[g].sms
             /\ Unreconciled(g)' => handler'[g].sms \subseteq sent'[KeyOf(g)']
        /\ \A s \in Sms : Counted(s) \subseteq Counted(s)'
    BY <1>1, <2>1, <2>4, <2>5, LeavesRun
  <2>7. ~Unreconciled(h)' /\ \A g \in Handlers \ {h} : Unreconciled(g)' => KeyOf(g)' # k
    <3>1. \A g \in Handlers \ {h} : Unreconciled(g)' => InRun(g) /\ KeyOf(g)' = KeyOf(g)
      BY <2>3 DEF Unreconciled, InRun, KeyOf
    <3> QED BY <1>2, <2>2, <2>3, <3>1 DEF Unreconciled, HandlerInv, RunsInv
  <2>8. ASSUME NEW s \in Sms PROVE strikes'[s] <= FirstStrikes[s] + Cardinality(Counted(s)')
    <3>1. strikes[s] <= FirstStrikes[s] + Cardinality(Counted(s))
      BY DEF HandlerInv, StrikesInv
    <3>2. strikes[s] \in Nat /\ FirstStrikes[s] \in Nat /\ strikes'[s] \in Nat
      BY <2>1, StrikeNumbers DEF HandlerInv, LedgerInv, RowsOK
    <3>3. /\ Counted(s) \in SUBSET Keys /\ Counted(s)' \in SUBSET Keys
          /\ Counted(s) \subseteq Counted(s)'
      BY <2>6, CountedKeys
    <3>4. CASE s \in outcome.negative
      <4>1. k \notin Counted(s)
        BY <2>2, <3>4 DEF Counted
      <4>2. k \in Counted(s)'
        BY <1>1, <2>2, <2>7, <3>4 DEF Counted
      <4>3. IsFiniteSet(Counted(s)) /\ Cardinality(Counted(s)) \in Nat
        BY <3>3, KeysMono
      <4>4. Cardinality(Counted(s) \cup {k}) = Cardinality(Counted(s)) + 1
        BY <4>1, <4>3, FS_AddElement
      <4>5. Cardinality(Counted(s) \cup {k}) <= Cardinality(Counted(s)')
            /\ Cardinality(Counted(s)') \in Nat
        BY <3>3, <4>2, KeysMono
      <4>6. strikes'[s] <= strikes[s] + 1
        BY <2>1, <3>4
      <4> QED BY <3>1, <3>2, <4>3, <4>4, <4>5, <4>6
    <3>5. CASE s \notin outcome.negative
      <4>1. /\ Cardinality(Counted(s)) <= Cardinality(Counted(s)')
            /\ Cardinality(Counted(s)) \in Nat /\ Cardinality(Counted(s)') \in Nat
        BY <3>3, KeysMono
      <4>2. strikes'[s] <= strikes[s]
        BY <2>1, <3>2, <3>5
      <4> QED BY <3>1, <3>2, <4>1, <4>2
    <3> QED BY <3>4, <3>5
  <2>9. StrikesInv'
    BY <2>6, <2>8 DEF StrikesInv
  <2> QED BY <2>1, <2>4, <2>6, <2>9 DEF HandlerInv
<1> QED BY <1>1, <1>4, <1>5

-----------------------------------------------------------------------------
(***************************************************************************)
(* The theorems.                                                           *)
(***************************************************************************)
LEMMA HandlerNextInv == HandlerInv /\ [HandlerNext]_vars => HandlerInv'
<1> SUFFICES ASSUME HandlerInv, [HandlerNext]_vars PROVE HandlerInv'
  OBVIOUS
<1>1. CASE Tick /\ UNCHANGED <<handler, lateStarts, callVars>>
  BY <1>1, TickInv
<1>2. CASE LateStart
  BY <1>2, LateStartInv
<1>3. ASSUME NEW h \in Handlers, NEW request \in Requests, Receive(h, request) PROVE HandlerInv'
  BY <1>3, ReceiveInv
<1>4. ASSUME NEW h \in Handlers,
             \/ ReserveWork(h) \/ CancelReservation(h) \/ CallMark(h) \/ Mark(h) \/ LoseMark(h)
             \/ CompleteUnknown(h) \/ ReleaseUnknown(h)
             \/ ExecuteProvider(h) \/ ProviderFails(h) \/ ProviderAnswers(h)
             \/ Reconcile(h) \/ Finish(h) \/ Kill(h)
      PROVE  HandlerInv'
  BY <1>4, ReserveInv, CancelInv, CallMarkInv, MarkInv, LoseMarkInv, CompleteUnknownInv,
     ReleaseUnknownInv, ExecuteInv, ProviderFailsInv, AnswersInv, ReconcileInv, FinishInv, KillInv
<1>5. CASE UNCHANGED vars
  <2>1. /\ UNCHANGED ledgerVars /\ now' = now /\ UNCHANGED <<runs, sent, strikes, startedAt>>
        /\ UNCHANGED <<handler, lateStarts>>
    BY <1>5 DEF vars, ledgerVars, callVars
  <2>2. LedgerInv' /\ HandlersOK /\ now \in Nat
    BY <2>1, LedgerStutters DEF HandlerInv, LedgerInv, RowsOK
  <2>3. HandlersOK' /\ now <= now'
    BY <2>1, <2>2 DEF HandlersOK, At
  <2> QED BY <2>1, <2>2, <2>3, OutOfRun
<1> QED BY <1>1, <1>2, <1>3, <1>4, <1>5 DEF HandlerNext

\* The handlers' inductive invariant holds in every state.
LEMMA Invariance == HandlerSpec => []HandlerInv
BY HandlerInitInv, HandlerNextInv, PTL DEF HandlerSpec

\* A request runs the provider at most once, and only with its usage event:
\* whatever is sent again, answered late or lost, a handler is paid for once.
THEOREM RunsAreSingle == HandlerSpec => []OneRunPerRequest
BY Invariance, PTL DEF HandlerInv

\* What a session has started is no more than it has started or reserved.
LEMMA ScanIsLimited == LedgerInv => ScanLimit
<1> SUFFICES ASSUME LedgerInv, NEW session \in Sessions
             PROVE  Units({k \in Keys : startedAt[k] # 0 /\ rows[k].request.session = session}) <= MaxScan
  BY DEF ScanLimit
<1> DEFINE S == {k \in Keys : startedAt[k] # 0 /\ rows[k].request.session = session}
           T == OfSession(session)
<1>1. S \in SUBSET Keys /\ T \in SUBSET Keys /\ S \subseteq T
  BY DEF OfSession, StartedKeys, Live, Reserved
<1>2. UnitsOf(rows, T) <= MaxScan
  BY DEF LedgerInv, Room, Units
<1> HIDE DEF S, T
<1>3. UnitsOf(rows, S) <= UnitsOf(rows, T) /\ UnitsOf(rows, S) \in Nat /\ UnitsOf(rows, T) \in Nat
  BY <1>1, UnitsMono, UnitsType
<1> QED BY <1>2, <1>3, LedgerConstants DEF S, Units

\* No window, wherever it lies, holds more units or starts than its limit, no
\* session more units than a scan may have, and history scans cool down:
\* whichever handlers reserve, start, lose answers and die in between.
THEOREM LimitsAreKept == HandlerSpec => []WithinLimits
<1>1. HandlerInv => WithinLimits
  BY ScanIsLimited DEF HandlerInv, LedgerInv, WithinLimits
<1> QED BY <1>1, Invariance, PTL

\* A candidate has no more strikes than provider results that counted one: a
\* reconciliation that is asked for again, or lost, never counts twice.
THEOREM StrikesHaveResults == HandlerSpec => []StrikesAreEarned
<1>1. ASSUME HandlerInv, NEW s \in Sms
      PROVE  strikes[s] <= FirstStrikes[s] + Cardinality({k \in Keys : s \in sent[k]})
  <2> DEFINE all == {k \in Keys : s \in sent[k]}
  <2>1. Counted(s) \in SUBSET all /\ all \in SUBSET Keys
    BY DEF Counted
  <2>2. strikes[s] <= FirstStrikes[s] + Cardinality(Counted(s))
    BY <1>1 DEF HandlerInv, StrikesInv
  <2>3. strikes[s] \in Nat /\ FirstStrikes[s] \in Nat
    BY <1>1, StrikeNumbers DEF HandlerInv, LedgerInv
  <2> HIDE DEF all
  <2>4. /\ Cardinality(Counted(s)) <= Cardinality(all)
        /\ Cardinality(Counted(s)) \in Nat /\ Cardinality(all) \in Nat
    BY <2>1, KeysMono
  <2>5. strikes[s] <= FirstStrikes[s] + Cardinality(all)
    BY <2>2, <2>3, <2>4
  <2> QED BY <2>5 DEF all
<1>2. HandlerInv => StrikesAreEarned
  BY <1>1 DEF StrikesAreEarned
<1> QED BY <1>2, Invariance, PTL

\* What a handler does leaves the others where they are.
HandlerStep(h) ==
    \/ \E request \in Requests : Receive(h, request)
    \/ ReserveWork(h) \/ CancelReservation(h) \/ CallMark(h) \/ Mark(h) \/ LoseMark(h)
    \/ CompleteUnknown(h) \/ ReleaseUnknown(h)
    \/ ExecuteProvider(h) \/ ProviderFails(h) \/ ProviderAnswers(h)
    \/ Reconcile(h) \/ Finish(h) \/ Kill(h)

\* A step of one handler leaves the others.
LEMMA OthersStay ==
  ASSUME handler \in [Handlers -> HandlerStates], NEW h \in Handlers, NEW g \in Handlers \ {h},
         HandlerStep(g)
  PROVE  handler'[h] = handler[h]
<1>1. \A step : Goto(g, step) => handler'[h] = handler[h]
  BY DEF Goto
<1>2. \A target : FinishAs(g, target) => handler'[h] = handler[h]
  BY DEF FinishAs
<1>3. End(g) => handler'[h] = handler[h]
  BY DEF End
<1>4. \A target, next : Attempt(g, target, next) => handler'[h] = handler[h]
  BY <1>3 DEF Attempt
<1>5. ASSUME NEW request \in Requests, Receive(g, request) PROVE handler'[h] = handler[h]
  BY <1>5 DEF Receive
<1>6. CASE ReserveWork(g) \/ CancelReservation(g) \/ Mark(g) \/ LoseMark(g) \/ Kill(g)
  BY <1>1, <1>3, <1>6 DEF ReserveWork, CancelReservation, Mark, LoseMark, Kill
<1>7. CASE CallMark(g) \/ ProviderAnswers(g)
  BY <1>7 DEF CallMark, ProviderAnswers
<1>8. CASE CompleteUnknown(g) \/ ReleaseUnknown(g) \/ Finish(g)
  BY <1>3, <1>4, <1>8 DEF CompleteUnknown, ReleaseUnknown, Finish
<1>9. CASE ExecuteProvider(g) \/ ProviderFails(g) \/ Reconcile(g)
  BY <1>1, <1>2, <1>9 DEF ExecuteProvider, ProviderFails, Reconcile
<1> QED BY <1>5, <1>6, <1>7, <1>8, <1>9 DEF HandlerStep

\* The step that grants a start finds none of the candidates terminal, whatever
\* was struck since the handler looked.
THEOREM NothingTerminalStarts == HandlerSpec => NoTerminalStart
<1>1. ASSUME HandlerInv, [HandlerNext]_vars, NEW h \in Handlers,
             At(h, "mark"), handler'[h].step = "started"
      PROVE  \A s \in handler[h].sms : ~Terminal(s)
  <2>1. /\ handler \in [Handlers -> HandlerStates]
        /\ handler[h].seen \in Nat /\ handler[h].seen <= now /\ KeyOf(h) \in Keys
    BY <1>1, HandlerFacts DEF HandlersOK, At
  <2>2. CASE Mark(h)
    <3>1. PICK answer \in BOOLEAN :
            /\ MarkProviderStarted(KeyOf(h), handler[h].sms, handler[h].seen, answer)
            /\ \/ Goto(h, "unknown")
               \/ answer /\ Goto(h, "started")
               \/ ~answer /\ End(h)
      BY <2>2 DEF Mark
    <3>2. ~Goto(h, "unknown") /\ ~End(h)
      BY <1>1, <2>1 DEF Goto, End, Idle, HandlerStates
    <3>3. answer
      BY <3>1, <3>2
    <3>4. answer => ~AnyTerminal(handler[h].sms)
      BY <1>1, <2>1, <3>1, MarkLedger DEF HandlerInv
    <3> QED BY <3>3, <3>4 DEF AnyTerminal
  <2>3. ASSUME handler'[h] = handler[h] PROVE FALSE
    BY <1>1, <2>3 DEF At
  <2>4. ASSUME NEW g \in Handlers, g # h, HandlerStep(g) PROVE FALSE
    <3>1. handler'[h] = handler[h]
      BY <2>1, <2>4, OthersStay
    <3> QED BY <2>3, <3>1
  <2>5. CASE LoseMark(h)
    BY <1>1, <2>1, <2>5 DEF LoseMark, Goto, HandlerStates
  <2>6. CASE Kill(h)
    BY <1>1, <2>1, <2>6 DEF Kill, End, Idle
  <2>7. ASSUME HandlerStep(h) PROVE Mark(h) \/ LoseMark(h) \/ Kill(h)
    BY <1>1, <2>7 DEF HandlerStep, At, Receive, ReserveWork, CancelReservation, CallMark,
       CompleteUnknown, ReleaseUnknown, ExecuteProvider, ProviderFails, ProviderAnswers, Reconcile, Finish
  <2>8. CASE handler' = handler
    BY <2>3, <2>8
  <2>9. HandlerNext \/ UNCHANGED vars => handler' = handler \/ \E g \in Handlers : HandlerStep(g)
    BY DEF HandlerNext, HandlerStep, LateStart, vars
  <2> QED BY <1>1, <2>2, <2>4, <2>5, <2>6, <2>7, <2>8, <2>9
<1>2. HandlerInv /\ [HandlerNext]_vars =>
        [\A h \in Handlers : At(h, "mark") /\ handler'[h].step = "started" =>
           \A s \in handler[h].sms : ~Terminal(s)]_vars
  BY <1>1
<1> QED BY <1>2, Invariance, PTL DEF HandlerSpec, NoTerminalStart
=============================================================================
