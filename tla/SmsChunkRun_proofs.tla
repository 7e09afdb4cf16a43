------------------------- MODULE SmsChunkRun_proofs -------------------------
(***************************************************************************)
(* First the worker pool, for any list, any limit and any bound on the     *)
(* list: its invariant, and that it implements the run BatchRun promises.  *)
(* Then the concurrent SMS parse, for any number of candidates and any     *)
(* chunk size: it runs a pool, no candidate is in two requests, and a      *)
(* result accounts for every candidate once.                               *)
(***************************************************************************)
EXTENDS SmsChunkRun, FiniteSetTheorems, TLAPS

\* What is claimed is running or has its one outcome, the counter counts the
\* running items, and the promise is resolved exactly when there are none.
ItemsCounted ==
    /\ running \cup Ended = 1..cursor
    /\ running \cap Ended = {}
    /\ completed \cap failed = {} /\ completed \cap cancelled = {} /\ failed \cap cancelled = {}
    /\ active = Cardinality(running)
    /\ settled <=> running = {}

\* A run that may still launch does not end before its list.
EndsWithItsList == settled => cursor = listed \/ stopped \/ aborted

QueueInv == QueueTypeOK /\ ItemsCounted /\ EndsWithItsList /\ NoIdleWorker

\* The pool has a worker at least.
LEMMA LimitType == Limit \in Nat /\ Limit >= 1
BY QueueAssumption DEF Limit

\* The items a pump launches are new, and their number is the counter's growth.
LEMMA PumpCounts ==
  ASSUME QueueInv, NEW n \in listed..MaxItems
  PROVE  /\ Launches(n) \in Nat
         /\ active + Launches(n) \in 0..Limit
         /\ cursor + Launches(n) \in cursor..n
         /\ active + Launches(n) = Limit \/ cursor + Launches(n) = n
         /\ LET new == (cursor + 1)..(cursor + Launches(n))
            IN  Cardinality(running \cup new) = active + Launches(n)
<1> USE QueueAssumption, LimitType DEF QueueInv, QueueTypeOK
<1>1. /\ Launches(n) \in Nat
      /\ active + Launches(n) \in 0..Limit
      /\ cursor + Launches(n) \in cursor..n
      /\ active + Launches(n) = Limit \/ cursor + Launches(n) = n
  BY DEF Launches, Lesser
<1> DEFINE new == (cursor + 1)..(cursor + Launches(n))
<1>2. IsFiniteSet(running)
  <2>1. IsFiniteSet(1..cursor)
    BY FS_Interval
  <2> QED BY <2>1, FS_Subset DEF ItemsCounted
<1>3. IsFiniteSet(new) /\ Cardinality(new) = Launches(n)
  <2> DEFINE a == cursor + 1
             b == cursor + Launches(n)
  <2>1. a \in Int /\ b \in Int /\ (IF a > b THEN 0 ELSE b - a + 1) = Launches(n)
    BY <1>1
  <2> HIDE DEF a, b
  <2>2. IsFiniteSet(a..b) /\ Cardinality(a..b) = IF a > b THEN 0 ELSE b - a + 1
    BY <2>1, FS_Interval
  <2> QED BY <2>1, <2>2 DEF a, b
<1>4. running \cap new = {}
  BY DEF ItemsCounted
<1>5. Cardinality(running \cup new) = Cardinality(running) + Cardinality(new) - Cardinality({})
  BY <1>2, <1>3, <1>4, FS_Union
<1>6. Cardinality({}) = 0
  BY FS_EmptySet
<1> QED BY <1>1, <1>3, <1>5, <1>6 DEF ItemsCounted

\* The pool starts in its invariant.
LEMMA QueueInitInv == QueueInit => QueueInv
<1> SUFFICES ASSUME QueueInit PROVE QueueInv
  OBVIOUS
<1> USE QueueAssumption, LimitType DEF QueueInit
<1>1. QueueTypeOK
  <2>1. active \in 0..Limit /\ active \in 0..listed /\ listed \in 0..MaxItems
    BY DEF Lesser
  <2>2. running \subseteq Items
    BY <2>1 DEF Items
  <2>3. settled \in BOOLEAN
    OBVIOUS
  <2> QED BY <2>1, <2>2, <2>3 DEF QueueTypeOK
<1>2. Cardinality(1..cursor) = cursor
  <2>1. cursor \in Nat
    BY <1>1 DEF QueueTypeOK
  <2> HIDE DEF QueueInit
  <2> QED BY <2>1, FS_Interval
<1>3. ItemsCounted
  <2>1. running = 1..cursor /\ Ended = {} /\ active = cursor /\ cursor \in Nat
    BY <1>1 DEF Ended, QueueTypeOK
  <2>2. settled <=> running = {}
    <3>1. settled <=> cursor = 0
      BY <2>1
    <3>2. running = {} <=> cursor = 0
      BY <2>1
    <3> QED BY <3>1, <3>2
  <2>3. running \cup Ended = 1..cursor /\ running \cap Ended = {}
    BY <2>1
  <2>4. completed \cap failed = {} /\ completed \cap cancelled = {} /\ failed \cap cancelled = {}
    OBVIOUS
  <2>5. active = Cardinality(running)
    BY <1>2, <2>1
  <2> QED BY <2>2, <2>3, <2>4, <2>5 DEF ItemsCounted
<1>4. EndsWithItsList
  BY <1>1 DEF EndsWithItsList, Lesser, QueueTypeOK
<1>5. NoIdleWorker
  BY DEF NoIdleWorker, Lesser
<1> QED BY <1>1, <1>3, <1>4, <1>5 DEF QueueInv

\* A running item enqueues: the run is not settled, and the pump fills it.
LEMMA EnqueueInv ==
  ASSUME QueueInv, NEW i \in Items, NEW n \in 1..2, Enqueue(i, n)
  PROVE  QueueInv'
<1> USE QueueAssumption DEF Enqueue
<1>1. listed + n \in listed..MaxItems
  BY DEF QueueInv, QueueTypeOK
<1>2. CASE stopped \/ aborted
  BY <1>1, <1>2 DEF QueueInv, QueueTypeOK, ItemsCounted, Ended, EndsWithItsList, NoIdleWorker, outcomeVars
<1>3. CASE ~(stopped \/ aborted)
  <2>1. Pump(listed + n) /\ UNCHANGED <<outcomeVars, stopped, aborted>>
    BY <1>3
  <2> DEFINE m == listed + n
             k == Launches(m)
  <2>2. /\ k \in Nat /\ active + k \in 0..Limit /\ cursor + k \in cursor..m
        /\ active + k = Limit \/ cursor + k = m
        /\ Cardinality(running \cup (cursor + 1)..(cursor + k)) = active + k
    BY <1>1, PumpCounts
  <2>3. /\ listed' = m /\ cursor' = cursor + k /\ active' = active + k
        /\ running' = running \cup (cursor + 1)..(cursor + k)
        /\ settled' = (active' = 0)
        /\ completed' = completed /\ failed' = failed /\ cancelled' = cancelled
        /\ stopped' = stopped /\ aborted' = aborted
    BY <2>1 DEF Pump, outcomeVars
  <2>4. active > 0
    <3>1. IsFiniteSet(running)
      <4>1. IsFiniteSet(1..cursor)
        BY FS_Interval DEF QueueInv, QueueTypeOK
      <4> QED BY <4>1, FS_Subset DEF QueueInv, ItemsCounted
    <3>2. Cardinality(running) # 0
      BY <3>1, FS_EmptySet
    <3> QED BY <3>2 DEF QueueInv, QueueTypeOK, ItemsCounted
  <2> HIDE DEF k, m
  <2>5. listed' = m /\ m \in listed..MaxItems
    BY <1>1, <2>3 DEF m
  <2>6. QueueTypeOK'
    BY <2>2, <2>3, <2>5 DEF QueueInv, QueueTypeOK, Items
  <2>7. ItemsCounted'
    BY <2>2, <2>3, <2>4 DEF QueueInv, QueueTypeOK, ItemsCounted, Ended
  <2>8. EndsWithItsList' /\ NoIdleWorker'
    BY <2>2, <2>3, <2>4, <2>5 DEF QueueInv, QueueTypeOK, EndsWithItsList, NoIdleWorker
  <2> QED BY <2>6, <2>7, <2>8 DEF QueueInv
<1> QED BY <1>2, <1>3

\* An item ends: it gets its one outcome, and its worker claims the next item
\* or leaves because there is none to claim.
LEMMA EndItemInv ==
  ASSUME QueueInv, NEW i \in Items, NEW how \in Outcomes, EndItem(i, how)
  PROVE  QueueInv'
<1> USE QueueAssumption, LimitType
<1>1. /\ i \in running /\ i \notin Ended
      /\ Ended' = Ended \cup {i}
      /\ completed' \subseteq Items /\ failed' \subseteq Items /\ cancelled' \subseteq Items
      /\ completed' \cap failed' = {} /\ completed' \cap cancelled' = {} /\ failed' \cap cancelled' = {}
      /\ listed' = listed /\ stopped' = stopped /\ aborted' = aborted
  BY DEF EndItem, Record, QueueInv, QueueTypeOK, ItemsCounted, Ended, Outcomes
<1>2. IsFiniteSet(running)
  <2>1. IsFiniteSet(1..cursor)
    BY FS_Interval DEF QueueInv, QueueTypeOK
  <2> QED BY <2>1, FS_Subset DEF QueueInv, ItemsCounted
<1>3. /\ IsFiniteSet(running \ {i})
      /\ Cardinality(running \ {i}) = active - 1
  BY <1>1, <1>2, FS_RemoveElement DEF QueueInv, ItemsCounted
<1>4. CASE ClaimNext(i)
  <2>1. /\ ~stopped /\ ~aborted /\ cursor < listed
        /\ cursor' = cursor + 1 /\ active' = active /\ settled' = settled
        /\ running' = (running \ {i}) \cup {cursor + 1}
    BY <1>4 DEF ClaimNext
  <2>2. cursor + 1 \notin running
    BY DEF QueueInv, QueueTypeOK, ItemsCounted
  <2>3. Cardinality(running') = active
    <3> DEFINE rest == running \ {i}
    <3>1. IsFiniteSet(rest) /\ Cardinality(rest) = active - 1 /\ cursor + 1 \notin rest
      BY <1>3, <2>2
    <3> HIDE DEF rest
    <3>2. Cardinality(rest \cup {cursor + 1}) = Cardinality(rest) + 1
      BY <3>1, FS_AddElement
    <3>3. active - 1 + 1 = active
      BY DEF QueueInv, QueueTypeOK
    <3> QED BY <2>1, <3>1, <3>2, <3>3 DEF rest
  <2>4. QueueTypeOK'
    BY <1>1, <2>1 DEF QueueInv, QueueTypeOK, Items
  <2>5. ItemsCounted'
    <3>1. running' \cup Ended' = 1..cursor'
      BY <1>1, <2>1 DEF QueueInv, QueueTypeOK, ItemsCounted
    <3>2. running' \cap Ended' = {}
      BY <1>1, <2>1, <2>2 DEF QueueInv, QueueTypeOK, ItemsCounted
    <3>3. settled' <=> running' = {}
      BY <1>1, <2>1 DEF QueueInv, ItemsCounted
    <3> QED BY <1>1, <2>1, <2>3, <3>1, <3>2, <3>3 DEF ItemsCounted
  <2>6. EndsWithItsList' /\ NoIdleWorker'
    BY <1>1, <2>1 DEF QueueInv, QueueTypeOK, ItemsCounted, EndsWithItsList, NoIdleWorker
  <2> QED BY <2>4, <2>5, <2>6 DEF QueueInv
<1>5. CASE Leave(i)
  <2>1. /\ stopped \/ aborted \/ cursor >= listed
        /\ cursor' = cursor /\ active' = active - 1
        /\ running' = running \ {i}
        /\ settled' = (active' = 0)
    BY <1>5 DEF Leave, Departs
  <2>2. active' \in Nat /\ active' = Cardinality(running')
    BY <1>3, <2>1, FS_CardinalityType
  <2>3. QueueTypeOK'
    BY <1>1, <2>1, <2>2 DEF QueueInv, QueueTypeOK
  <2>4. ItemsCounted'
    <3>1. running' = {} <=> active' = 0
      BY <1>3, <2>1, <2>2, FS_EmptySet
    <3> QED BY <1>1, <2>1, <2>2, <3>1 DEF QueueInv, ItemsCounted
  <2>5. EndsWithItsList' /\ NoIdleWorker'
    BY <1>1, <2>1 DEF QueueInv, QueueTypeOK, EndsWithItsList, NoIdleWorker
  <2> QED BY <2>3, <2>4, <2>5 DEF QueueInv
<1> QED BY <1>4, <1>5 DEF EndItem

\* Every step of the pool keeps its invariant.
LEMMA QueueNextInv == QueueInv /\ [QueueNext]_queueVars => QueueInv'
<1> SUFFICES ASSUME QueueInv, [QueueNext]_queueVars PROVE QueueInv'
  OBVIOUS
<1> USE DEF QueueInv, QueueTypeOK, ItemsCounted, Ended, EndsWithItsList, NoIdleWorker, outcomeVars
<1>1. ASSUME NEW i \in Items, Stop(i) PROVE QueueInv'
  BY <1>1 DEF Stop
<1>2. CASE Abort
  BY <1>2 DEF Abort
<1>3. CASE StopAndAbort
  BY <1>3 DEF StopAndAbort
<1>4. CASE UNCHANGED queueVars
  BY <1>4 DEF queueVars
<1> QED BY <1>1, <1>2, <1>3, <1>4, EnqueueInv, EndItemInv DEF QueueNext

\* The pool refills at once: while launches are allowed, a worker is missing
\* only if nothing waits.
THEOREM QueueNeverIdle == QueueSpec => []NoIdleWorker
<1>1. QueueInv => NoIdleWorker
  BY DEF QueueInv
<1> QED BY <1>1, QueueInitInv, QueueNextInv, PTL DEF QueueSpec

-----------------------------------------------------------------------------
\* What the caller sees of an item, by the sets that hold it.
StatusIs ==
    \A i \in Items :
        /\ i \in running => StatusOf(i) = "active"
        /\ i \in completed => StatusOf(i) = "completed"
        /\ i \in failed => StatusOf(i) = "failed"
        /\ i \in cancelled => StatusOf(i) = "cancelled"
        /\ i > cursor /\ i <= listed => StatusOf(i) = "waiting"
        /\ i > listed => StatusOf(i) = "unknown"
        /\ \/ i \in running \/ i \in completed \/ i \in failed \/ i \in cancelled
           \/ (i > cursor /\ i <= listed) \/ i > listed

\* An item is waiting, running, ended in one way, or not listed yet.
LEMMA StatusCases == QueueInv => StatusIs
<1> SUFFICES ASSUME QueueInv, NEW i \in Items
             PROVE  /\ i \in running => StatusOf(i) = "active"
                    /\ i \in completed => StatusOf(i) = "completed"
                    /\ i \in failed => StatusOf(i) = "failed"
                    /\ i \in cancelled => StatusOf(i) = "cancelled"
                    /\ i > cursor /\ i <= listed => StatusOf(i) = "waiting"
                    /\ i > listed => StatusOf(i) = "unknown"
                    /\ \/ i \in running \/ i \in completed \/ i \in failed \/ i \in cancelled
                       \/ (i > cursor /\ i <= listed) \/ i > listed
  BY DEF StatusIs
<1>1. /\ i \in Nat /\ i >= 1 /\ cursor \in Nat /\ listed \in Nat /\ cursor <= listed
      /\ (i \in running \/ i \in completed \/ i \in failed \/ i \in cancelled) <=> i <= cursor
      /\ i \in running => i \notin completed /\ i \notin failed /\ i \notin cancelled
      /\ i \in completed => i \notin failed /\ i \notin cancelled
      /\ i \in failed => i \notin cancelled
  BY QueueAssumption DEF QueueInv, QueueTypeOK, ItemsCounted, Ended, Items
<1> QED BY <1>1 DEF StatusOf

\* The caller's sets of items are the pool's.
CallerSees ==
    /\ Caller!With("active") = running
    /\ Caller!With("waiting") = (cursor + 1)..listed

\* The sets BatchRun speaks of are the pool's.
LEMMA CallerSets == QueueInv => CallerSees
<1> SUFFICES ASSUME QueueInv PROVE CallerSees
  OBVIOUS
<1>1. StatusIs
  BY StatusCases
<1>2. running \subseteq Items /\ (cursor + 1)..listed \subseteq Items
  BY QueueAssumption DEF QueueInv, QueueTypeOK, Items
<1>3. \A i \in Items : i \in running <=> StatusOf(i) = "active"
  BY <1>1 DEF StatusIs, QueueInv, ItemsCounted, Ended
<1>4. \A i \in Items : i \in (cursor + 1)..listed <=> StatusOf(i) = "waiting"
  BY <1>1, QueueAssumption DEF StatusIs, QueueInv, QueueTypeOK, Items
<1> QED BY <1>2, <1>3, <1>4 DEF CallerSees, Caller!With

\* Both modules count alike.
LEMMA SameCardinality == \A S : Caller!Cardinality(S) = Cardinality(S)
BY DEF Caller!Cardinality, Cardinality

\* An initial state of the pool is one of the run.
LEMMA RunInitMap == QueueInit => Caller!RunInit
<1> SUFFICES ASSUME QueueInit PROVE Caller!RunInit
  OBVIOUS
<1>1. QueueInv /\ StatusIs
  BY QueueInitInv, StatusCases
<1>2. Caller!With("active") = running
  BY <1>1, CallerSets DEF CallerSees
<1>3. completed = {} /\ failed = {} /\ cancelled = {}
  BY DEF QueueInit
<1>4. [i \in Items |-> StatusOf(i)] \in [Items -> {"unknown", "waiting", "active"}]
  BY <1>1, <1>3 DEF StatusIs
<1>5. Cardinality(running) <= Limit
  BY <1>1, LimitType DEF QueueInv, QueueTypeOK, ItemsCounted
<1>6. (stopped \/ aborted) => running = {}
  BY DEF QueueInit
<1>7. settled = (running = {})
  BY <1>1 DEF QueueInv, QueueTypeOK, ItemsCounted
<1>8. (stopped \/ aborted) \in BOOLEAN
  OBVIOUS
<1> QED BY <1>2, <1>4, <1>5, <1>6, <1>7, <1>8, SameCardinality DEF Caller!RunInit

\* A step in which items arrive, are started or end, as the sets show it, is
\* one of the run.
Advances ==
    /\ ~settled
    /\ \A i \in Items :
        /\ i > listed => i \in running' \/ (i > cursor' /\ i <= listed') \/ i > listed'
        /\ i > cursor /\ i <= listed => i \in running' \/ (i > cursor' /\ i <= listed')
        /\ i \in running => i \in running' \/ i \in completed' \/ i \in failed' \/ i \in cancelled'
        /\ i \in completed => i \in completed'
        /\ i \in failed => i \in failed'
        /\ i \in cancelled => i \in cancelled'
    /\ stopped \/ aborted => running' \subseteq running
    /\ stopped' = stopped /\ aborted' = aborted

\* The range above a number, up to it, is empty.
LEMMA NothingAbove == \A c \in Nat : (c + 1)..c = {}
OBVIOUS

\* A step that advances in terms of the pool's sets is an Advance of the run.
LEMMA AdvanceMap ==
  ASSUME QueueInv, QueueInv', Advances
  PROVE  Caller!Advance
<1>1. StatusIs
  BY StatusCases
<1>2. StatusIs'
  <2>1. QueueInv' => StatusIs'
    BY StatusCases, PTL
  <2> QED BY <2>1
<1>3. /\ Caller!With("active") = running
      /\ (Caller!With("active"))' = running'
      /\ (Caller!With("waiting"))' = ((cursor + 1)..listed)'
  <2>1. QueueInv' => CallerSees'
    BY CallerSets, PTL
  <2> QED BY <2>1, CallerSets DEF CallerSees
<1>4. \A i \in Items : StatusOf(i)' \in Caller!Lives
  BY <1>2 DEF StatusIs, Caller!Lives, Caller!Finished
<1>5. \A i \in Items : \/ StatusOf(i)' = StatusOf(i)
                       \/ <<StatusOf(i), StatusOf(i)'>> \in Caller!Moves
  <2> TAKE i \in Items
  <2>1. CASE i > listed
    BY <2>1, <1>1, <1>2 DEF StatusIs, Advances, Caller!Moves
  <2>2. CASE i > cursor /\ i <= listed
    BY <2>2, <1>1, <1>2 DEF StatusIs, Advances, Caller!Moves
  <2>3. CASE i \in running
    BY <2>3, <1>1, <1>2 DEF StatusIs, Advances, Caller!Moves, Caller!Finished
  <2>4. CASE i \in completed \/ i \in failed \/ i \in cancelled
    BY <2>4, <1>1, <1>2 DEF StatusIs, Advances
  <2> QED BY <1>1, <2>1, <2>2, <2>3, <2>4 DEF StatusIs
<1>6. stopped \/ aborted => \A i \in Items : ~(StatusOf(i) # "active" /\ StatusOf(i)' = "active")
  <2> SUFFICES ASSUME stopped \/ aborted, NEW i \in Items, StatusOf(i)' = "active"
               PROVE  StatusOf(i) = "active"
    OBVIOUS
  <2>1. i \in running'
    BY <1>2 DEF StatusIs
  <2> QED BY <2>1, <1>1 DEF StatusIs, Advances
<1>7. Cardinality(running') <= Limit
  BY LimitType DEF QueueInv, QueueTypeOK, ItemsCounted
<1>8. settled' = (running' = {})
  BY DEF QueueInv, QueueTypeOK, ItemsCounted
<1>9. settled' => (stopped \/ aborted) \/ ((cursor + 1)..listed)' = {}
  <2> SUFFICES ASSUME settled', ~stopped, ~aborted
               PROVE  ((cursor + 1)..listed)' = {}
    OBVIOUS
  <2>1. cursor' = listed'
    <3>1. cursor' = listed' \/ stopped' \/ aborted'
      BY DEF QueueInv, EndsWithItsList
    <3>2. stopped' = stopped /\ aborted' = aborted
      BY DEF Advances
    <3> QED BY <3>1, <3>2
  <2>2. cursor' \in Nat /\ listed' \in Nat
    BY <2>1, QueueAssumption DEF QueueInv, QueueTypeOK
  <2>3. (listed' + 1)..listed' = {}
    BY <2>2, NothingAbove
  <2> QED BY <2>1, <2>3
<1>10. ~settled /\ (stopped \/ aborted)' = (stopped \/ aborted)
  BY DEF Advances
<1>11. [i \in Items |-> StatusOf(i)]' \in [Items -> Caller!Lives]
  BY <1>4
<1>12. Caller!Cardinality(Caller!With("active")') <= Limit
  BY <1>3, <1>7, SameCardinality
<1>13. stopped \/ aborted => \A i \in Items : ~Caller!Started(i)
  BY <1>6 DEF Caller!Started
<1> QED BY <1>3, <1>5, <1>8, <1>9, <1>10, <1>11, <1>12, <1>13 DEF Caller!Advance

\* A stop or an abort is a Close of the run.
LEMMA CloseMap ==
  ASSUME UNCHANGED <<listed, cursor, running, completed, failed, cancelled, settled>>,
         (stopped \/ aborted)'
  PROVE  Caller!Close
<1>1. [i \in Items |-> StatusOf(i)]' = [i \in Items |-> StatusOf(i)]
  BY DEF StatusOf
<1>2. (stopped \/ aborted)' = TRUE
  OBVIOUS
<1> QED BY <1>1, <1>2 DEF Caller!Close

\* What a step that leaves every variable of the queue alone leaves the caller.
LEMMA StutterMap == UNCHANGED queueVars => UNCHANGED Caller!runVars
<1> SUFFICES ASSUME UNCHANGED queueVars PROVE UNCHANGED Caller!runVars
  OBVIOUS
<1>1. [i \in Items |-> StatusOf(i)]' = [i \in Items |-> StatusOf(i)]
  BY DEF StatusOf, queueVars, outcomeVars
<1>2. (stopped \/ aborted)' = (stopped \/ aborted) /\ settled' = settled
  BY DEF queueVars, outcomeVars
<1> QED BY <1>1, <1>2 DEF Caller!runVars

\* The claim of a worker moves the cursor over the item it runs next.
LEMMA EndItemMoves ==
  ASSUME QueueInv, NEW i \in Items, NEW how, EndItem(i, how)
  PROVE  /\ running' = (running \ {i}) \cup (cursor + 1)..cursor'
         /\ cursor' \in cursor..listed
         /\ stopped \/ aborted => cursor' = cursor
         /\ stopped' = stopped /\ aborted' = aborted /\ listed' = listed
<1> USE QueueAssumption DEF QueueInv, QueueTypeOK, EndItem
<1>1. CASE ClaimNext(i)
  BY <1>1 DEF ClaimNext
<1>2. CASE Leave(i)
  BY <1>2 DEF Leave, Departs
<1> QED BY <1>1, <1>2

\* The end of an item is an advance.
LEMMA EndItemAdvances ==
  ASSUME QueueInv, QueueInv', NEW i \in Items, NEW how \in Outcomes, EndItem(i, how)
  PROVE  Advances
<1> USE QueueAssumption DEF QueueInv, QueueTypeOK
<1>1. ~settled
  BY DEF ItemsCounted, EndItem
<1>2. /\ completed \subseteq completed' /\ failed \subseteq failed' /\ cancelled \subseteq cancelled'
      /\ i \in completed' \/ i \in failed' \/ i \in cancelled'
  BY DEF EndItem, Record
<1>3. stopped' = stopped /\ aborted' = aborted /\ listed' = listed
  BY EndItemMoves
<1>4. /\ running' = (running \ {i}) \cup (cursor + 1)..cursor'
      /\ cursor' \in cursor..listed
      /\ stopped \/ aborted => cursor' = cursor
  BY EndItemMoves
<1>5. \A j \in Items : j > cursor /\ ~(j > cursor') => j \in running'
  BY <1>4 DEF Items
<1>6. stopped \/ aborted => running' \subseteq running
  BY <1>4
<1>7. \A j \in Items : j \in running => j \in running' \/ j = i
  BY <1>4
<1>8. \A j \in Items : j > listed => j > cursor /\ j > listed'
  BY <1>3 DEF Items
<1> QED BY <1>1, <1>2, <1>3, <1>5, <1>6, <1>7, <1>8 DEF Advances

\* A call of enqueue lists new items, and the pump starts the first of those
\* that wait.
LEMMA EnqueueMoves ==
  ASSUME QueueInv, NEW i \in Items, NEW n \in 1..2, Enqueue(i, n)
  PROVE  /\ running' = running \cup (cursor + 1)..cursor'
         /\ cursor' \in cursor..listed'
         /\ stopped \/ aborted => cursor' = cursor
         /\ stopped' = stopped /\ aborted' = aborted
         /\ listed' = listed + n /\ listed + n <= MaxItems
<1> USE QueueAssumption DEF QueueInv, QueueTypeOK
<1>1. stopped' = stopped /\ aborted' = aborted /\ listed' = listed + n /\ listed + n <= MaxItems
  BY DEF Enqueue, Pump, outcomeVars
<1>2. CASE stopped \/ aborted
  BY <1>1, <1>2 DEF Enqueue
<1>3. CASE ~(stopped \/ aborted)
  <2>1. listed + n \in listed..MaxItems
    BY <1>1
  <2>2. Pump(listed + n)
    BY <1>3 DEF Enqueue
  <2>3. cursor' = cursor + Launches(listed + n) /\ cursor + Launches(listed + n) \in cursor..(listed + n)
    BY <2>1, <2>2, PumpCounts DEF Pump
  <2> QED BY <1>1, <1>3, <2>2, <2>3 DEF Pump
<1> QED BY <1>2, <1>3

\* The listing of further items is an advance.
LEMMA EnqueueAdvances ==
  ASSUME QueueInv, QueueInv', NEW i \in Items, NEW n \in 1..2, Enqueue(i, n)
  PROVE  Advances
<1> USE QueueAssumption DEF QueueInv, QueueTypeOK
<1>1. ~settled
  BY DEF ItemsCounted, Enqueue
<1>2. completed' = completed /\ failed' = failed /\ cancelled' = cancelled
  BY DEF Enqueue, outcomeVars
<1>3. /\ running' = running \cup (cursor + 1)..cursor'
      /\ cursor' \in cursor..listed'
      /\ stopped \/ aborted => cursor' = cursor
      /\ stopped' = stopped /\ aborted' = aborted
      /\ listed' = listed + n /\ listed + n <= MaxItems
  BY EnqueueMoves
<1>4. \A j \in Items : j > cursor /\ ~(j > cursor') => j \in running'
  BY <1>3 DEF Items
<1>5. stopped \/ aborted => running' \subseteq running
  BY <1>3
<1>6. running \subseteq running'
  BY <1>3
<1>7. \A j \in Items : /\ j > listed => j > cursor
                       /\ j <= listed => j <= listed'
                       /\ j > listed' \/ j <= listed'
  BY <1>3 DEF Items
<1> QED BY <1>1, <1>2, <1>3, <1>4, <1>5, <1>6, <1>7 DEF Advances

\* Every step of the pool is one of the run, or a stutter.
LEMMA StepMap == QueueInv /\ QueueInv' /\ [QueueNext]_queueVars => [Caller!RunNext]_Caller!runVars
<1> SUFFICES ASSUME QueueInv, QueueInv', [QueueNext]_queueVars
             PROVE  [Caller!RunNext]_Caller!runVars
  OBVIOUS
<1>1. ASSUME NEW i \in Items, NEW n \in 1..2, Enqueue(i, n)
      PROVE  Caller!RunNext
  BY <1>1, EnqueueAdvances, AdvanceMap DEF Caller!RunNext
<1>2. ASSUME NEW i \in Items, NEW how \in Outcomes, EndItem(i, how)
      PROVE  Caller!RunNext
  BY <1>2, EndItemAdvances, AdvanceMap DEF Caller!RunNext
<1>3. ASSUME NEW i \in Items, Stop(i)
      PROVE  Caller!RunNext
  BY <1>3, CloseMap DEF Stop, outcomeVars, Caller!RunNext
<1>4. ASSUME Abort PROVE Caller!RunNext
  BY <1>4, CloseMap DEF Abort, outcomeVars, Caller!RunNext
<1>5. ASSUME StopAndAbort PROVE Caller!RunNext
  BY <1>5, CloseMap DEF StopAndAbort, outcomeVars, Caller!RunNext
<1>6. ASSUME UNCHANGED queueVars PROVE UNCHANGED Caller!runVars
  BY <1>6, StutterMap
<1> QED BY <1>1, <1>2, <1>3, <1>4, <1>5, <1>6 DEF QueueNext

\* The same without the fairness, for the components that run a pool.
LEMMA PoolSteps == QueueInit /\ [][QueueNext]_queueVars => []QueueInv /\ ImplementsRun
<1>1. QueueInit => QueueInv /\ Caller!RunInit
  BY QueueInitInv, RunInitMap
<1>2. QueueInv /\ [QueueNext]_queueVars => QueueInv'
  BY QueueNextInv
<1>3. QueueInv /\ QueueInv' /\ [QueueNext]_queueVars => [Caller!RunNext]_Caller!runVars
  BY StepMap
<1> QED BY <1>1, <1>2, <1>3, PTL DEF ImplementsRun, Caller!RunSpec

\* The pool is a run as its caller is promised it: every item goes once from
\* waiting through active to one outcome, at most Limit are active, a stopped
\* or aborted pool starts nothing, and the promise resolves with nothing active
\* and, unless launches were stopped, nothing waiting.
THEOREM PoolImplementsRun == QueueSpec => ImplementsRun
BY PoolSteps, PTL DEF QueueSpec

-----------------------------------------------------------------------------
(* The parse. *)

Phases == {"idle", "request", "emit", "return", "throw", "abort"}
Accounted == resolved \cup oversized \cup unresolved

\* The candidates of an open chunk are yet to be answered.
Open(i) == phase[i] = "request" \/ i \in pending

OpenChunks == {i \in Items : Open(i)}

ChunkTypeOK ==
    /\ work \in [Items -> SUBSET Messages]
    /\ phase \in [Items -> Phases]
    /\ running = {i \in Items : phase[i] # "idle"}
    /\ pending = (cursor + 1)..listed
    /\ resolved \subseteq Messages /\ oversized \subseteq Messages /\ unresolved \subseteq Messages
    /\ answer \in {"none", "result", "error"}
    /\ answer # "none" => settled

\* The chain holds chunks that wait for their emission, each once.
Emission ==
    /\ emitting \in Seq(Items)
    /\ \A k \in 1..Len(emitting) : phase[emitting[k]] = "emit"
    /\ \A k, l \in 1..Len(emitting) : emitting[k] = emitting[l] => k = l
    /\ calling => emitting # <<>>

Apart == \A i, j \in Items : Open(i) /\ Open(j) /\ i # j => work[i] \cap work[j] = {}

\* What waits was given up, if at all, by a capacity stop.
Unspent ==
    \A i \in Items :
        /\ Open(i) => work[i] \cap (resolved \cup oversized) = {}
        /\ phase[i] = "request" => work[i] \cap unresolved = {}
        /\ i \in pending /\ ~stopped => work[i] \cap unresolved = {}

Once == resolved \cap oversized = {} /\ unresolved \cap (resolved \cup oversized) = {}

\* A run that nobody aborted loses no candidate.
Covered ==
    ~aborted => \A m \in Messages : m \in Accounted \/ \E i \in Items : Open(i) /\ m \in work[i]

Complete == answer = "result" => Accounted = Messages

ChunkInv ==
    /\ QueueInv /\ ChunkTypeOK /\ Emission
    /\ Apart /\ Unspent /\ Once /\ Covered /\ Complete

-----------------------------------------------------------------------------
\* Every step of the parse is one of the pool, or leaves the pool alone.
LEMMA ChunkStep == [ChunkNext]_chunkVars => [QueueNext]_queueVars
<1> SUFFICES ASSUME [ChunkNext]_chunkVars PROVE [QueueNext]_queueVars
  OBVIOUS
<1>1. ASSUME NEW i \in Items, Respond(i) PROVE [QueueNext]_queueVars
  <2>1. CASE SplitWork(i)
    <3>1. Enqueue(i, 2)
      BY <2>1 DEF SplitWork, Halved
    <3> QED BY <3>1 DEF QueueNext
  <2>2. CASE KeepRunning
    BY <2>2 DEF KeepRunning, QueueNext
  <2>3. CASE TerminalCapacity(i)
    BY <2>3 DEF TerminalCapacity, QueueNext
  <2>4. CASE ControlFlow(i)
    BY <2>4 DEF ControlFlow, QueueNext
  <2> QED BY <1>1, <2>1, <2>2, <2>3, <2>4 DEF Respond, Resolve, Oversized
<1>2. ASSUME NEW i \in Items, EndChunk(i) PROVE [QueueNext]_queueVars
  <2>1. HowEnded(i) \in Outcomes
    BY <1>2 DEF EndChunk, HowEnded, Outcomes
  <2> QED BY <1>2, <2>1 DEF EndChunk, QueueNext
<1>3. CASE CallProgress \/ EndProgress \/ Finalize \/ UNCHANGED chunkVars
  BY <1>3 DEF CallProgress, EndProgress, Finalize, chunkVars
<1>4. CASE FailProgress \/ CancelScan
  BY <1>4 DEF FailProgress, CancelScan, QueueNext
<1> QED BY <1>1, <1>2, <1>3, <1>4 DEF ChunkNext

\* The pool's invariant and refinement hold under the parse.
LEMMA ChunkPool == ChunkSpec => []QueueInv /\ ImplementsRun
<1>1. ChunkInit => QueueInit
  BY DEF ChunkInit
<1> QED BY <1>1, ChunkStep, PoolSteps, PTL DEF ChunkSpec

\* The pool refills at once in the composition too, whatever its chunks do.
THEOREM ChunksNeverIdle == ChunkSpec => []NoIdleWorker
<1>1. QueueInv => NoIdleWorker
  BY DEF QueueInv
<1> QED BY <1>1, ChunkPool, PTL

\* The parse is a run as BatchRun promises it, with its splits, its stops and
\* its aborts.
THEOREM ChunksImplementRun == ChunkSpec => ImplementsRun
BY ChunkPool, PTL

-----------------------------------------------------------------------------
\* Division with remainder.
LEMMA DivLaw ==
  ASSUME NEW a \in Nat, NEW c \in Nat \ {0}
  PROVE  a \div c \in Nat /\ c * (a \div c) <= a /\ a < c * (a \div c) + c
OBVIOUS

\* A common factor can be cancelled.
LEMMA ProductLaw ==
  ASSUME NEW p \in Nat, NEW q \in Nat, NEW c \in Nat \ {0}, c * p < c * q
  PROVE  p < q
OBVIOUS

\* Every candidate is in one of the initial chunks.
LEMMA ChunkOfCandidate ==
  ASSUME NEW m \in Messages
  PROVE  \E i \in 1..InitialItems : m \in InitialChunk(i)
<1> DEFINE n == Candidates
           c == ChunkSize
           p == (m - 1) \div c
           q == (n + c - 1) \div c
<1>1. n \in Nat \ {0} /\ c \in Nat \ {0} /\ m \in 1..n /\ InitialItems = q
  BY ChunkAssumption DEF Messages
<1>2. p \in Nat /\ c * p <= m - 1
  BY <1>1, DivLaw
<1>3. q \in Nat /\ n + c - 1 < c * q + c
  <2>1. n + c - 1 \in Nat
    BY <1>1
  <2> HIDE DEF n, c
  <2> QED BY <1>1, <2>1, DivLaw
<1> HIDE DEF n, c, p, q
<1>4. c * p \in Int /\ c * q \in Int
  BY <1>1, <1>2, <1>3
<1>5. c * p < c * q
  BY <1>1, <1>2, <1>3, <1>4
<1>6. p < q
  BY <1>1, <1>2, <1>3, <1>5, ProductLaw
<1>7. p + 1 \in 1..InitialItems /\ p = (p + 1) - 1
  BY <1>1, <1>2, <1>3, <1>6
<1> QED BY <1>7 DEF p, c, InitialChunk

\* The parse starts in its invariant: the initial chunks cover the candidates.
LEMMA ChunkInitInv == ChunkInit => ChunkInv
<1> SUFFICES ASSUME ChunkInit PROVE ChunkInv
  OBVIOUS
<1>1. QueueInv
  BY QueueInitInv DEF ChunkInit
<1>2. /\ InitialItems \in Nat /\ InitialItems <= MaxItems /\ MaxItems \in Nat
      /\ listed = InitialItems /\ cursor \in 0..listed /\ running = 1..cursor
  BY <1>1, QueueAssumption DEF ChunkInit, QueueInit, QueueInv, QueueTypeOK
<1>3. pending = (cursor + 1)..listed
  BY <1>2 DEF ChunkInit
<1>4. ChunkTypeOK
  BY <1>2, <1>3 DEF ChunkInit, ChunkTypeOK, Items, Phases, InitialChunk
<1>5. \A i \in Items : Open(i) <=> i <= InitialItems
  BY <1>2, <1>3 DEF Open, ChunkInit, Items
<1>6. \A i \in 1..InitialItems : i \in Items /\ work[i] = InitialChunk(i)
  BY <1>2 DEF ChunkInit, Items
<1>7. Apart
  <2> SUFFICES ASSUME NEW i \in Items, NEW j \in Items, Open(i), Open(j), i # j,
                      NEW c \in work[i], c \in work[j]
               PROVE  FALSE
    BY DEF Apart
  <2>1. i \in 1..InitialItems /\ j \in 1..InitialItems
    BY <1>5 DEF Items
  <2>2. (c - 1) \div ChunkSize = i - 1 /\ (c - 1) \div ChunkSize = j - 1
    BY <1>6, <2>1 DEF InitialChunk
  <2>3. i - 1 = j - 1
    BY <2>2
  <2> QED BY <2>1, <2>3
<1>8. Covered
  <2> SUFFICES ASSUME NEW m \in Messages
               PROVE  \E i \in Items : Open(i) /\ m \in work[i]
    BY DEF Covered
  <2>1. PICK i \in 1..InitialItems : m \in InitialChunk(i)
    BY ChunkOfCandidate
  <2>2. i \in Items /\ work[i] = InitialChunk(i)
    BY <1>6
  <2>3. Open(i)
    BY <1>5, <2>2, <1>2
  <2> QED BY <2>1, <2>2, <2>3
<1>9. Emission
  BY DEF ChunkInit, Emission
<1>10. Unspent /\ Once /\ Complete
  BY DEF ChunkInit, Unspent, Once, Complete
<1> QED BY <1>1, <1>4, <1>7, <1>8, <1>9, <1>10 DEF ChunkInv

-----------------------------------------------------------------------------
\* The chunks that run and those that wait.
LEMMA Sides ==
  ASSUME ChunkInv
  PROVE  /\ cursor \in Nat /\ listed \in Nat /\ cursor <= listed /\ listed <= MaxItems /\ MaxItems \in Nat
         /\ running \subseteq 1..cursor /\ pending = (cursor + 1)..listed
         /\ \A i \in Items : phase[i] # "idle" <=> i \in running
         /\ pending \subseteq Items
<1> USE QueueAssumption DEF ChunkInv, ChunkTypeOK, QueueInv, QueueTypeOK, ItemsCounted
<1>1. cursor \in Nat /\ listed \in Nat /\ cursor <= listed /\ listed <= MaxItems /\ MaxItems \in Nat
  OBVIOUS
<1>2. running \subseteq 1..cursor /\ pending = (cursor + 1)..listed
  OBVIOUS
<1>3. \A i \in Items : phase[i] # "idle" <=> i \in running
  OBVIOUS
<1>4. (cursor + 1)..listed \subseteq Items
  BY <1>1 DEF Items
<1> QED BY <1>1, <1>2, <1>3, <1>4

\* A step of chunk i in which the pool launches nothing.
LEMMA Still ==
  ASSUME ChunkInv, NEW i \in Items, i \in running, NEW p \in Phases, p # "idle",
         Moved(i, p, {}), UNCHANGED <<running, cursor, listed>>
  PROVE  /\ pending' = pending
         /\ phase' = [phase EXCEPT ![i] = p]
         /\ phase' \in [Items -> Phases]
         /\ running' = {j \in Items : phase'[j] # "idle"}
<1>1. pending' = pending
  BY Sides DEF Moved
<1>2. phase \in [Items -> Phases] /\ running = {j \in Items : phase[j] # "idle"}
  BY DEF ChunkInv, ChunkTypeOK
<1>3. phase' = [phase EXCEPT ![i] = p]
  BY <1>2 DEF Moved
<1> QED BY <1>1, <1>2, <1>3

\* Chunk i's candidates are accounted for as r, o and u; a capacity stop
\* accounts for what waits too, and an abort may account for nothing.
Accounts(i, r, o, u) ==
    /\ resolved' = resolved \cup r /\ oversized' = oversized \cup o /\ unresolved' = unresolved \cup u
    /\ r \cup o \subseteq work[i] /\ r \cap o = {} /\ u \cap (r \cup o) = {}
    /\ u \subseteq work[i] \/ (stopped' /\ u \subseteq work[i] \cup WorkOf(pending))
    /\ aborted' \/ work[i] \subseteq r \cup o \cup u
    /\ aborted => aborted'
    /\ stopped => stopped'

\* A chunk that is answered for closes, and its candidates are accounted for once.
LEMMA Answered ==
  ASSUME ChunkInv, NEW i \in Items, phase[i] = "request",
         NEW p, p # "request", phase' = [phase EXCEPT ![i] = p],
         pending' = pending, work' = work,
         NEW r, NEW o, NEW u, Accounts(i, r, o, u)
  PROVE  /\ Apart' /\ Unspent' /\ Once' /\ Covered'
         /\ OpenChunks' = OpenChunks \ {i}
<1> USE DEF ChunkInv, Accounts
<1>1. \A j \in pending : j \in Items /\ j # i /\ phase[j] # "request"
  BY Sides
<1>2. \A j \in Items : Open(j)' <=> Open(j) /\ j # i
  BY <1>1 DEF Open, ChunkTypeOK
<1>3. Open(i)
  BY DEF Open
<1>4. \A m \in u : m \in work[i] \/ \E k \in pending : m \in work[k]
  BY DEF WorkOf
<1>5. Apart'
  BY <1>2 DEF Apart
<1>6. \A j \in Items : Open(j)' => work[j] \cap work[i] = {}
  BY <1>2, <1>3 DEF Apart
<1>7. Unspent'
  <2> SUFFICES ASSUME NEW j \in Items, Open(j)'
               PROVE  /\ work[j] \cap (resolved' \cup oversized') = {}
                      /\ phase'[j] = "request" => work[j] \cap unresolved' = {}
                      /\ j \in pending /\ ~stopped' => work[j] \cap unresolved' = {}
    BY DEF Unspent, Open
  <2>1. Open(j) /\ j # i /\ work[j] \cap work[i] = {}
    BY <1>2, <1>6
  <2>2. work[j] \cap (resolved' \cup oversized') = {}
    BY <2>1 DEF Unspent
  <2>3. ASSUME phase'[j] = "request" PROVE work[j] \cap unresolved' = {}
    <3>1. phase[j] = "request" /\ j \notin pending
      BY <1>1, <2>1, <2>3 DEF ChunkTypeOK
    <3>2. \A k \in pending : work[j] \cap work[k] = {}
      BY <1>1, <2>1, <3>1 DEF Apart, Open
    <3> QED BY <1>4, <2>1, <3>1, <3>2 DEF Unspent
  <2>4. ASSUME j \in pending, ~stopped' PROVE work[j] \cap unresolved' = {}
    BY <2>1, <2>4 DEF Unspent
  <2> QED BY <2>2, <2>3, <2>4
<1>8. Once'
  <2>1. work[i] \cap Accounted = {}
    BY <1>3 DEF Unspent, Accounted
  <2>2. \A m \in u : m \notin resolved /\ m \notin oversized
    BY <1>1, <1>3, <1>4 DEF Unspent, Open
  <2> QED BY <2>1, <2>2 DEF Once, Accounted
<1>9. Covered'
  <2> SUFFICES ASSUME ~aborted', NEW m \in Messages, m \notin Accounted'
               PROVE  \E j \in Items : Open(j)' /\ m \in work[j]
    BY DEF Covered
  <2>1. PICK j \in Items : Open(j) /\ m \in work[j]
    BY DEF Covered, Accounted
  <2>2. j # i
    BY <2>1 DEF Accounted
  <2> QED BY <1>2, <2>1, <2>2
<1>10. OpenChunks' = OpenChunks \ {i}
  BY <1>2 DEF OpenChunks
<1> QED BY <1>5, <1>7, <1>8, <1>9, <1>10

\* A range that starts later is part of the one that started before.
LEMMA Shorter ==
  ASSUME NEW a \in Nat, NEW c \in Nat, NEW b \in a..c
  PROVE  (b + 1)..c \subseteq (a + 1)..c
OBVIOUS

\* What is left of a range when its first part is taken.
LEMMA IntervalRest ==
  ASSUME NEW a \in Nat, NEW b \in Nat, NEW c \in Nat, NEW j \in Nat, a <= b, b <= c
  PROVE  j \in (b + 1)..c <=> j \in (a + 1)..c /\ j \notin (a + 1)..b
OBVIOUS

\* A step of chunk i in which the pool launches the next of what waits, with
\* the chunks of new joining it.
LEMMA Launched ==
  ASSUME ChunkInv, NEW i \in Items, i \in running, NEW p \in Phases, p # "request",
         NEW new, Moved(i, p, new),
         cursor' \in cursor..listed', listed' \in listed..MaxItems,
         pending \cup new = (cursor + 1)..listed',
         stopped \/ aborted => cursor' = cursor,
         running' = (IF p = "idle" THEN running \ {i} ELSE running) \cup (cursor + 1)..cursor'
  PROVE  /\ pending' = (cursor' + 1)..listed'
         /\ phase' \in [Items -> Phases]
         /\ running' = {j \in Items : phase'[j] # "idle"}
         /\ \A j \in Items : Open(j)' <=> j # i /\ (Open(j) \/ j \in new)
         /\ \A j \in Items : phase'[j] = "request" =>
                phase[j] = "request" \/ (j \in pending \cup new /\ ~stopped /\ ~aborted)
         /\ \A j \in Items : phase[j] = "emit" /\ j # i => phase'[j] = "emit"
<1> DEFINE L == (cursor + 1)..cursor'
<1>1. /\ cursor \in Nat /\ cursor' \in Nat /\ listed' \in Nat /\ listed' <= MaxItems
      /\ cursor <= cursor' /\ cursor' <= listed' /\ MaxItems \in Nat
      /\ running \subseteq 1..cursor
  BY Sides
<1>2. L \cap running = {} /\ L \subseteq Items /\ L \subseteq pending \cup new
  BY <1>1 DEF Items
<1>3. pending' = (cursor' + 1)..listed'
  <2>1. pending' = ((cursor + 1)..listed') \ running'
    BY DEF Moved
  <2>2. \A j \in (cursor + 1)..listed' : j \in running' <=> j \in L
    BY <1>1
  <2>3. ((cursor + 1)..listed') \ L = (cursor' + 1)..listed'
    BY <1>1
  <2> QED BY <2>1, <2>2, <2>3
<1> HIDE DEF L
<1>4. running' \ running = L
  BY <1>2 DEF L
<1>5. phase' = [j \in Items |-> IF j = i THEN p ELSE IF j \in L THEN "request" ELSE phase[j]]
  BY <1>4 DEF Moved
<1>6. i \notin L
  BY <1>2
<1>7. phase' \in [Items -> Phases]
  BY <1>5 DEF ChunkInv, ChunkTypeOK, Phases
<1>8. running' = {j \in Items : phase'[j] # "idle"}
  <2>1. running = {j \in Items : phase[j] # "idle"}
    BY DEF ChunkInv, ChunkTypeOK
  <2>2. running' = (IF p = "idle" THEN running \ {i} ELSE running) \cup L
    BY DEF L
  <2> QED BY <1>2, <1>5, <1>6, <2>1, <2>2
<1>9. \A j \in Items : j \in pending' <=> j \in pending \cup new /\ j \notin L
  <2> SUFFICES ASSUME NEW j \in Items
               PROVE  j \in pending' <=> j \in pending \cup new /\ j \notin L
    OBVIOUS
  <2>1. j \in Nat /\ pending' = (cursor' + 1)..listed'
    BY <1>1, <1>3 DEF Items
  <2>2. j \in (cursor' + 1)..listed' <=> j \in (cursor + 1)..listed' /\ j \notin L
    BY <1>1, <2>1, IntervalRest DEF L
  <2> QED BY <2>1, <2>2
<1>10. i \notin pending \cup new
  BY <1>1
<1>11. \A j \in Items : Open(j)' <=> j # i /\ (Open(j) \/ j \in new)
  BY <1>2, <1>5, <1>6, <1>9, <1>10 DEF Open
<1>12. L # {} => ~stopped /\ ~aborted
  BY <1>1 DEF L
<1>13. \A j \in Items : phase'[j] = "request" =>
          phase[j] = "request" \/ (j \in pending \cup new /\ ~stopped /\ ~aborted)
  BY <1>2, <1>5, <1>12
<1>14. \A j \in Items : phase[j] = "emit" /\ j # i => phase'[j] = "emit"
  BY <1>2, <1>5, Sides
<1> QED BY <1>3, <1>7, <1>8, <1>11, <1>13, <1>14

\* While a chunk runs the pool has not settled and the parse has no answer.
LEMMA Unanswered ==
  ASSUME ChunkInv, NEW i \in Items, phase[i] # "idle"
  PROVE  i \in running /\ ~settled /\ answer = "none"
BY Sides DEF ChunkInv, ChunkTypeOK, QueueInv, QueueTypeOK, ItemsCounted

\* A chunk reports what became of its candidates.
LEMMA ReportInv ==
  ASSUME ChunkInv, NEW i \in Items, phase[i] = "request", Report(i),
         UNCHANGED <<listed, cursor, running, settled>>,
         NEW r, NEW o, NEW u, Accounts(i, r, o, u)
  PROVE  /\ ChunkTypeOK' /\ Emission' /\ Apart' /\ Unspent' /\ Once' /\ Covered' /\ Complete'
         /\ OpenChunks' = OpenChunks \ {i}
<1>1. i \in running /\ ~settled /\ answer = "none"
  BY Unanswered
<1>2. PICK p \in {"throw", "emit"} : /\ Moved(i, p, {})
                                  /\ emitting' = IF p = "throw" THEN emitting ELSE Append(emitting, i)
  BY DEF Report
<1>3. /\ pending' = pending
      /\ phase' = [phase EXCEPT ![i] = p]
      /\ phase' \in [Items -> Phases]
      /\ running' = {j \in Items : phase'[j] # "idle"}
  BY <1>1, <1>2, Still DEF Phases
<1>4. work' = work /\ answer' = answer /\ calling' = calling
  BY DEF Report
<1>5. Apart' /\ Unspent' /\ Once' /\ Covered' /\ OpenChunks' = OpenChunks \ {i}
  BY <1>2, <1>3, <1>4, Answered
<1>6. ChunkTypeOK'
  <2>1. work[i] \subseteq Messages /\ WorkOf(pending) \subseteq Messages
    BY Sides DEF ChunkInv, ChunkTypeOK, WorkOf
  <2>2. resolved' \subseteq Messages /\ oversized' \subseteq Messages /\ unresolved' \subseteq Messages
    BY <2>1 DEF ChunkInv, ChunkTypeOK, Accounts
  <2>3. pending' = (cursor' + 1)..listed'
    BY <1>3, Sides
  <2> QED BY <1>1, <1>3, <1>4, <2>2, <2>3 DEF ChunkInv, ChunkTypeOK
<1>7. Emission'
  <2>1. /\ emitting \in Seq(Items)
        /\ \A k \in 1..Len(emitting) : phase[emitting[k]] = "emit" /\ emitting[k] \in Items /\ emitting[k] # i
    BY DEF ChunkInv, Emission
  <2>2. \A k \in 1..Len(emitting) : phase'[emitting[k]] = "emit"
    BY <1>3, <2>1 DEF ChunkInv, ChunkTypeOK
  <2>3. CASE p = "throw"
    BY <1>2, <1>4, <2>2, <2>3 DEF ChunkInv, Emission
  <2>4. CASE p = "emit"
    <3>1. emitting' = Append(emitting, i)
      BY <1>2, <2>4
    <3>2. /\ emitting' \in Seq(Items) /\ Len(emitting') = Len(emitting) + 1 /\ emitting' # <<>>
          /\ \A k \in 1..Len(emitting) : emitting'[k] = emitting[k]
          /\ emitting'[Len(emitting) + 1] = i
      BY <2>1, <3>1
    <3>3. Len(emitting) \in Nat
      BY <2>1
    <3>4. phase'[i] = "emit"
      BY <1>3, <2>4 DEF ChunkInv, ChunkTypeOK
    <3>5. \A k \in 1..Len(emitting') : k \in 1..Len(emitting) \/ k = Len(emitting) + 1
      BY <3>2, <3>3
    <3>6. \A k \in 1..Len(emitting') : phase'[emitting'[k]] = "emit"
      BY <2>2, <3>2, <3>4, <3>5
    <3>7. \A k, l \in 1..Len(emitting') : emitting'[k] = emitting'[l] => k = l
      BY <2>1, <3>2, <3>5 DEF ChunkInv, Emission
    <3> QED BY <3>2, <3>6, <3>7 DEF Emission
  <2> QED BY <1>2, <2>3, <2>4
<1>8. Complete'
  BY <1>1, <1>4 DEF Complete
<1> QED BY <1>5, <1>6, <1>7, <1>8

\* A chunk is answered, and its candidates resolved or left open as bad.
LEMMA ResolveInv ==
  ASSUME ChunkInv, NEW i \in Items, phase[i] = "request", NEW bad, Resolve(i, bad)
  PROVE  /\ ChunkTypeOK' /\ Emission' /\ Apart' /\ Unspent' /\ Once' /\ Covered' /\ Complete'
         /\ OpenChunks' = OpenChunks \ {i}
<1>1. UNCHANGED <<listed, cursor, running, settled>> /\ (aborted => aborted') /\ (stopped => stopped')
  BY DEF Resolve, KeepRunning, StopAndAbort, queueVars
<1>2. Accounts(i, work[i] \ bad, {}, bad)
  BY <1>1 DEF Resolve, Accounts
<1>3. Report(i)
  BY DEF Resolve
<1> QED BY <1>1, <1>2, <1>3, ReportInv

\* A chunk of one candidate that is too large is given up.
LEMMA OversizedInv ==
  ASSUME ChunkInv, NEW i \in Items, phase[i] = "request", Oversized(i)
  PROVE  /\ ChunkTypeOK' /\ Emission' /\ Apart' /\ Unspent' /\ Once' /\ Covered' /\ Complete'
         /\ OpenChunks' = OpenChunks \ {i}
<1>1. UNCHANGED <<listed, cursor, running, settled>> /\ (aborted => aborted') /\ (stopped => stopped')
  BY DEF Oversized, KeepRunning, StopAndAbort, queueVars
<1>2. Accounts(i, {}, work[i], {})
  BY <1>1 DEF Oversized, Accounts
<1>3. Report(i)
  BY DEF Oversized
<1> QED BY <1>1, <1>2, <1>3, ReportInv

\* A capacity stop gives up the chunk and everything that waits.
LEMMA TerminalCapacityInv ==
  ASSUME ChunkInv, NEW i \in Items, phase[i] = "request", TerminalCapacity(i)
  PROVE  /\ ChunkTypeOK' /\ Emission' /\ Apart' /\ Unspent' /\ Once' /\ Covered' /\ Complete'
         /\ OpenChunks' = OpenChunks \ {i}
<1>1. UNCHANGED <<listed, cursor, running, settled>> /\ (aborted => aborted') /\ stopped'
  BY DEF TerminalCapacity, Stop, StopAndAbort
<1>2. Accounts(i, {}, {}, work[i] \cup WorkOf(pending))
  BY <1>1 DEF TerminalCapacity, Accounts
<1>3. Report(i)
  BY DEF TerminalCapacity
<1> QED BY <1>1, <1>2, <1>3, ReportInv

\* The chain keeps its chunks while another one moves.
LEMMA EmissionStays ==
  ASSUME ChunkInv, NEW i \in Items, phase[i] # "emit",
         \A j \in Items : phase[j] = "emit" /\ j # i => phase'[j] = "emit",
         emitting' = emitting, calling' = calling
  PROVE  Emission'
<1>1. \A k \in 1..Len(emitting) : emitting[k] \in Items /\ phase[emitting[k]] = "emit"
  BY DEF ChunkInv, Emission
<1>2. \A k \in 1..Len(emitting) : phase'[emitting[k]] = "emit"
  BY <1>1
<1> QED BY <1>2 DEF ChunkInv, Emission

\* A chunk ends by the abort or by an error that ends the run.
LEMMA ControlFlowInv ==
  ASSUME ChunkInv, NEW i \in Items, phase[i] = "request", ControlFlow(i)
  PROVE  /\ ChunkTypeOK' /\ Emission' /\ Apart' /\ Unspent' /\ Once' /\ Covered' /\ Complete'
         /\ OpenChunks' = OpenChunks \ {i}
<1>1. /\ UNCHANGED <<listed, cursor, running, settled>> /\ aborted' /\ stopped'
      /\ UNCHANGED <<work, resolved, oversized, unresolved, emitting, calling, answer>>
  BY DEF ControlFlow, StopAndAbort, aggregateVars, emitVars
<1>2. i \in running /\ ~settled /\ answer = "none"
  BY Unanswered
<1>3. PICK p \in {"throw", "abort"} : Moved(i, p, {})
  BY DEF ControlFlow
<1>4. /\ pending' = pending
      /\ phase' = [phase EXCEPT ![i] = p]
      /\ phase' \in [Items -> Phases]
      /\ running' = {j \in Items : phase'[j] # "idle"}
  BY <1>1, <1>2, <1>3, Still DEF Phases
<1>5. Accounts(i, {}, {}, {})
  BY <1>1 DEF Accounts
<1>6. Apart' /\ Unspent' /\ Once' /\ Covered' /\ OpenChunks' = OpenChunks \ {i}
  BY <1>1, <1>3, <1>4, <1>5, Answered
<1>7. ChunkTypeOK'
  BY <1>1, <1>4 DEF ChunkInv, ChunkTypeOK
<1>8. Emission'
  BY <1>1, <1>4, EmissionStays DEF ChunkInv, ChunkTypeOK
<1>9. Complete'
  BY <1>1, <1>2 DEF Complete
<1> QED BY <1>6, <1>7, <1>8, <1>9

\* A chunk that is too large is listed as two halves: its candidates stay open.
LEMMA SplitWorkInv ==
  ASSUME ChunkInv, NEW i \in Items, phase[i] = "request", SplitWork(i)
  PROVE  /\ ChunkTypeOK' /\ Emission' /\ Apart' /\ Unspent' /\ Once' /\ Covered' /\ Complete'
         /\ OpenChunks' = (OpenChunks \ {i}) \cup {listed + 1, listed + 2}
         /\ {listed + 1, listed + 2} \cap OpenChunks = {} /\ i \in OpenChunks
<1> DEFINE l == listed + 1
           m == listed + 2
<1>1. /\ Enqueue(i, 2) /\ Moved(i, "return", {l, m})
      /\ work' = [work EXCEPT ![l] = Left(work[i]), ![m] = work[i] \ Left(work[i])]
      /\ UNCHANGED <<resolved, oversized, unresolved, emitting, calling, answer>>
  BY DEF SplitWork, Halved, emitVars
<1>2. i \in running /\ ~settled /\ answer = "none"
  BY Unanswered
<1>3. /\ running' = running \cup (cursor + 1)..cursor'
      /\ cursor' \in cursor..listed'
      /\ stopped \/ aborted => cursor' = cursor
      /\ stopped' = stopped /\ aborted' = aborted
      /\ listed' = listed + 2 /\ listed + 2 <= MaxItems
  BY <1>1, EnqueueMoves DEF ChunkInv
<1>4. /\ cursor \in Nat /\ listed \in Nat /\ cursor <= listed /\ MaxItems \in Nat
      /\ running \subseteq 1..cursor /\ pending = (cursor + 1)..listed
  BY Sides
<1>5. l \in Items /\ m \in Items /\ l # m /\ l \notin pending /\ m \notin pending
      /\ l \notin running /\ m \notin running /\ l # i /\ m # i /\ i \notin pending
  BY <1>2, <1>3, <1>4 DEF Items
<1>6. pending \cup {l, m} = (cursor + 1)..listed' /\ listed' \in listed..MaxItems
  BY <1>3, <1>4
<1> HIDE DEF l, m
<1>7. /\ pending' = (cursor' + 1)..listed'
      /\ phase' \in [Items -> Phases]
      /\ running' = {j \in Items : phase'[j] # "idle"}
      /\ \A j \in Items : Open(j)' <=> j # i /\ (Open(j) \/ j \in {l, m})
      /\ \A j \in Items : phase'[j] = "request" =>
             phase[j] = "request" \/ (j \in pending \cup {l, m} /\ ~stopped /\ ~aborted)
      /\ \A j \in Items : phase[j] = "emit" /\ j # i => phase'[j] = "emit"
  <2>1. "return" \in Phases
    BY DEF Phases
  <2> QED BY <1>1, <1>2, <1>3, <1>6, <2>1, Launched
<1>8. work \in [Items -> SUBSET Messages] /\ work[i] \subseteq Messages /\ Left(work[i]) \subseteq work[i]
  BY DEF ChunkInv, ChunkTypeOK, Left
<1>9. /\ work' \in [Items -> SUBSET Messages]
      /\ work'[l] \cap work'[m] = {} /\ work'[l] \cup work'[m] = work[i]
      /\ \A j \in Items : j # l /\ j # m => work'[j] = work[j]
  BY <1>1, <1>5, <1>8
<1>10. Open(i)
  BY DEF Open
<1>11. \A j \in Items : Open(j)' => \/ j \in {l, m}
                                    \/ j # i /\ j # l /\ j # m /\ Open(j) /\ work[j] \cap work[i] = {}
  BY <1>7, <1>10 DEF ChunkInv, Apart
<1>12. Apart'
  BY <1>9, <1>11 DEF ChunkInv, Apart
<1>13. work[i] \cap (resolved \cup oversized \cup unresolved) = {}
  BY <1>10 DEF ChunkInv, Unspent
<1>14. Unspent'
  <2> SUFFICES ASSUME NEW j \in Items, Open(j)'
               PROVE  /\ work'[j] \cap (resolved \cup oversized) = {}
                      /\ phase'[j] = "request" => work'[j] \cap unresolved = {}
                      /\ j \in pending' /\ ~stopped => work'[j] \cap unresolved = {}
    BY <1>1, <1>3 DEF Unspent, Open
  <2>1. CASE j \in {l, m}
    BY <1>9, <1>13, <2>1
  <2>2. CASE j \notin {l, m}
    <3>1. work'[j] = work[j] /\ Open(j) /\ j # i
      BY <1>9, <1>11, <2>2
    <3>2. phase'[j] = "request" => phase[j] = "request" \/ (j \in pending /\ ~stopped)
      BY <1>7, <2>2
    <3>3. j \in pending' => j \in pending
      <4>1. cursor \in Nat /\ listed' \in Nat /\ cursor' \in cursor..listed'
        BY <1>3, <1>4
      <4>2. pending' \subseteq (cursor + 1)..listed'
        BY <1>7, <4>1, Shorter
      <4> QED BY <1>6, <2>2, <4>2
    <3> QED BY <3>1, <3>2, <3>3 DEF ChunkInv, Unspent
  <2> QED BY <2>1, <2>2
<1>15. Once'
  BY <1>1 DEF ChunkInv, Once
<1>16. Covered'
  <2> SUFFICES ASSUME ~aborted, NEW c \in Messages, c \notin Accounted
               PROVE  \E j \in Items : Open(j)' /\ c \in work'[j]
    BY <1>1, <1>3 DEF Covered, Accounted
  <2>1. PICK j \in Items : Open(j) /\ c \in work[j]
    BY DEF ChunkInv, Covered
  <2>2. CASE j = i
    BY <1>5, <1>7, <1>9, <2>1, <2>2
  <2>3. CASE j # i
    <3>1. j # l /\ j # m
      BY <1>5, <2>1, Sides DEF Open
    <3> QED BY <1>7, <1>9, <2>1, <2>3, <3>1
  <2> QED BY <2>2, <2>3
<1>17. ChunkTypeOK'
  BY <1>1, <1>2, <1>7, <1>9 DEF ChunkInv, ChunkTypeOK
<1>18. Emission'
  BY <1>1, <1>7, EmissionStays
<1>19. Complete'
  BY <1>1, <1>2 DEF Complete
<1>20. /\ OpenChunks' = (OpenChunks \ {i}) \cup {l, m}
       /\ {l, m} \cap OpenChunks = {} /\ i \in OpenChunks
  <2>1. phase[l] = "idle" /\ phase[m] = "idle"
    BY <1>5, Sides
  <2>2. ~Open(l) /\ ~Open(m)
    BY <1>5, <2>1 DEF Open
  <2> QED BY <1>5, <1>7, <1>10, <2>2 DEF OpenChunks
<1> QED BY <1>20, <1>12, <1>14, <1>15, <1>16, <1>17, <1>18, <1>19 DEF l, m

\* The process of a chunk returns or throws, and its worker launches what waits.
LEMMA EndChunkInv ==
  ASSUME ChunkInv, NEW i \in Items, EndChunk(i)
  PROVE  /\ ChunkTypeOK' /\ Emission' /\ Apart' /\ Unspent' /\ Once' /\ Covered' /\ Complete'
         /\ OpenChunks' = OpenChunks
<1>1. /\ phase[i] \in {"return", "throw", "abort"} /\ EndItem(i, HowEnded(i)) /\ Moved(i, "idle", {})
      /\ UNCHANGED <<work, resolved, oversized, unresolved, emitting, calling, answer>>
  BY DEF EndChunk, aggregateVars, emitVars
<1>2. i \in running /\ ~settled /\ answer = "none"
  BY <1>1, Unanswered
<1>3. /\ running' = (running \ {i}) \cup (cursor + 1)..cursor'
      /\ cursor' \in cursor..listed
      /\ stopped \/ aborted => cursor' = cursor
      /\ stopped' = stopped /\ aborted' = aborted /\ listed' = listed
  BY <1>1, EndItemMoves DEF ChunkInv
<1>4. pending \cup {} = (cursor + 1)..listed' /\ listed' \in listed..MaxItems
  BY <1>3, Sides
<1>5. /\ pending' = (cursor' + 1)..listed'
      /\ phase' \in [Items -> Phases]
      /\ running' = {j \in Items : phase'[j] # "idle"}
      /\ \A j \in Items : Open(j)' <=> j # i /\ (Open(j) \/ j \in {})
      /\ \A j \in Items : phase'[j] = "request" =>
             phase[j] = "request" \/ (j \in pending \cup {} /\ ~stopped /\ ~aborted)
      /\ \A j \in Items : phase[j] = "emit" /\ j # i => phase'[j] = "emit"
  <2>1. "idle" \in Phases
    BY DEF Phases
  <2> QED BY <1>1, <1>2, <1>3, <1>4, <2>1, Launched
<1>6. ~Open(i)
  BY <1>1, <1>2, Sides DEF Open
<1>7. \A j \in Items : Open(j)' <=> Open(j)
  BY <1>5, <1>6
<1>8. Apart'
  BY <1>1, <1>7 DEF ChunkInv, Apart
<1>9. pending' \subseteq pending
  BY <1>3, <1>4, <1>5, Sides, Shorter
<1>10. Unspent'
  BY <1>1, <1>3, <1>5, <1>7, <1>9 DEF ChunkInv, Unspent
<1>11. Once' /\ Covered'
  BY <1>1, <1>3, <1>7 DEF ChunkInv, Once, Covered, Accounted
<1>12. ChunkTypeOK'
  BY <1>1, <1>2, <1>5 DEF ChunkInv, ChunkTypeOK
<1>13. Emission'
  BY <1>1, <1>5, EmissionStays
<1>14. Complete'
  BY <1>1, <1>2 DEF Complete
<1>15. OpenChunks' = OpenChunks
  BY <1>7 DEF OpenChunks
<1> QED BY <1>15, <1>8, <1>10, <1>11, <1>12, <1>13, <1>14

\* The head of the chain is a chunk in emission, and the rest is a chain.
LEMMA ChainHead ==
  ASSUME ChunkInv, emitting # <<>>
  PROVE  /\ Head(emitting) \in Items /\ phase[Head(emitting)] = "emit"
         /\ Tail(emitting) \in Seq(Items)
         /\ \A k \in 1..Len(Tail(emitting)) :
                /\ Tail(emitting)[k] \in Items /\ phase[Tail(emitting)[k]] = "emit"
                /\ Tail(emitting)[k] # Head(emitting)
         /\ \A k, l \in 1..Len(Tail(emitting)) :
                Tail(emitting)[k] = Tail(emitting)[l] => k = l
<1>1. emitting \in Seq(Items) /\ Len(emitting) \in Nat /\ Len(emitting) >= 1
  BY DEF ChunkInv, Emission
<1>2. Head(emitting) = emitting[1] /\ Head(emitting) \in Items /\ phase[Head(emitting)] = "emit"
  BY <1>1 DEF ChunkInv, Emission
<1>3. /\ Tail(emitting) \in Seq(Items) /\ Len(Tail(emitting)) = Len(emitting) - 1
      /\ \A k \in 1..Len(Tail(emitting)) : Tail(emitting)[k] = emitting[k + 1]
  BY <1>1
<1>4. \A k \in 1..Len(Tail(emitting)) : k + 1 \in 1..Len(emitting) /\ k + 1 # 1
  BY <1>1, <1>3
<1>5. \A k \in 1..Len(Tail(emitting)) :
         /\ Tail(emitting)[k] \in Items /\ phase[Tail(emitting)[k]] = "emit"
         /\ Tail(emitting)[k] # Head(emitting)
  <2> SUFFICES ASSUME NEW k \in 1..Len(Tail(emitting))
               PROVE  /\ emitting[k + 1] \in Items /\ phase[emitting[k + 1]] = "emit"
                      /\ emitting[k + 1] # emitting[1]
    BY <1>2, <1>3
  <2>1. k + 1 \in 1..Len(emitting) /\ 1 \in 1..Len(emitting) /\ k + 1 # 1
    BY <1>1, <1>4
  <2> QED BY <1>1, <2>1 DEF ChunkInv, Emission
<1>6. \A k, l \in 1..Len(Tail(emitting)) : Tail(emitting)[k] = Tail(emitting)[l] => k = l
  <2> SUFFICES ASSUME NEW k \in 1..Len(Tail(emitting)), NEW l \in 1..Len(Tail(emitting)),
                      emitting[k + 1] = emitting[l + 1]
               PROVE  k = l
    BY <1>3
  <2>1. k + 1 \in 1..Len(emitting) /\ l + 1 \in 1..Len(emitting) /\ k \in Int /\ l \in Int
    BY <1>1, <1>4
  <2>2. k + 1 = l + 1
    BY <2>1 DEF ChunkInv, Emission
  <2> QED BY <2>1, <2>2
<1> QED BY <1>2, <1>3, <1>5, <1>6

\* A step of the chain alone: chunks in emission move on, none of them to a
\* request.
LEMMA EmissionMoves ==
  ASSUME ChunkInv, phase' \in [Items -> Phases],
         \A j \in Items : phase'[j] = phase[j] \/ (phase[j] = "emit" /\ phase'[j] \in {"return", "throw"}),
         UNCHANGED <<listed, cursor, running, settled>>, aborted => aborted', stopped => stopped',
         UNCHANGED <<work, pending, resolved, oversized, unresolved, answer>>
  PROVE  /\ ChunkTypeOK' /\ Apart' /\ Unspent' /\ Once' /\ Covered' /\ Complete'
         /\ OpenChunks' = OpenChunks
<1>1. \A j \in Items : Open(j)' <=> Open(j)
  BY DEF Open
<1>2. \A j \in Items : phase'[j] = "request" <=> phase[j] = "request"
  OBVIOUS
<1>3. \A j \in Items : phase'[j] # "idle" <=> phase[j] # "idle"
  OBVIOUS
<1>4. ChunkTypeOK'
  BY <1>3 DEF ChunkInv, ChunkTypeOK
<1>5. Apart' /\ Unspent'
  BY <1>1, <1>2 DEF ChunkInv, Apart, Unspent
<1>6. Once' /\ Covered' /\ Complete'
  BY <1>1 DEF ChunkInv, Once, Covered, Complete, Accounted
<1>7. OpenChunks' = OpenChunks
  BY <1>1 DEF OpenChunks
<1> QED BY <1>4, <1>5, <1>6, <1>7

\* The steps of the progress chain.
LEMMA ProgressInv ==
  ASSUME ChunkInv, CallProgress \/ EndProgress \/ FailProgress
  PROVE  /\ ChunkTypeOK' /\ Emission' /\ Apart' /\ Unspent' /\ Once' /\ Covered' /\ Complete'
         /\ OpenChunks' = OpenChunks
<1>1. phase \in [Items -> Phases]
  BY DEF ChunkInv, ChunkTypeOK
<1>2. CASE CallProgress
  <2>1. Emission'
    BY <1>2 DEF CallProgress, ChunkInv, Emission
  <2> QED BY <1>1, <1>2, <2>1, EmissionMoves DEF CallProgress, queueVars, aggregateVars
<1>3. CASE EndProgress
  <2>1. /\ emitting # <<>> /\ emitting' = Tail(emitting) /\ calling' = FALSE
        /\ phase' = [phase EXCEPT ![Head(emitting)] = "return"]
    BY <1>3 DEF EndProgress
  <2>2. Emission'
    BY <1>1, <2>1, ChainHead DEF Emission
  <2>3. /\ phase' \in [Items -> Phases]
        /\ \A j \in Items : phase'[j] = phase[j] \/ (phase[j] = "emit" /\ phase'[j] \in {"return", "throw"})
    BY <1>1, <2>1, ChainHead DEF Phases
  <2> QED BY <1>3, <2>2, <2>3, EmissionMoves DEF EndProgress, queueVars, aggregateVars
<1>4. CASE FailProgress
  <2>1. Emission'
    BY <1>4 DEF FailProgress, Emission
  <2>2. /\ phase' \in [Items -> Phases]
        /\ \A j \in Items : phase'[j] = phase[j] \/ (phase[j] = "emit" /\ phase'[j] \in {"return", "throw"})
    BY <1>1, <1>4 DEF FailProgress, Phases
  <2> QED BY <1>4, <2>1, <2>2, EmissionMoves DEF FailProgress, StopAndAbort, aggregateVars
<1> QED BY <1>2, <1>3, <1>4

\* The user cancels the scan.
LEMMA CancelScanInv ==
  ASSUME ChunkInv, CancelScan
  PROVE  /\ ChunkTypeOK' /\ Emission' /\ Apart' /\ Unspent' /\ Once' /\ Covered' /\ Complete'
         /\ OpenChunks' = OpenChunks
<1>1. /\ aborted' /\ UNCHANGED <<listed, cursor, running, stopped, settled>>
      /\ UNCHANGED <<work, pending, phase, resolved, oversized, unresolved, emitting, calling, answer>>
  BY DEF CancelScan, Abort, sessionVars, aggregateVars, emitVars
<1>2. ChunkTypeOK' /\ Emission'
  BY <1>1 DEF ChunkInv, ChunkTypeOK, Emission
<1>3. Apart' /\ Unspent' /\ Once' /\ Covered' /\ Complete'
  BY <1>1 DEF ChunkInv, Apart, Unspent, Open, Once, Covered, Complete, Accounted
<1>4. OpenChunks' = OpenChunks
  BY <1>1 DEF OpenChunks, Open
<1> QED BY <1>2, <1>3, <1>4

\* When the pool has settled, what is open is what never ran.
LEMMA FinalizeInv ==
  ASSUME ChunkInv, Finalize
  PROVE  /\ ChunkTypeOK' /\ Emission' /\ Apart' /\ Unspent' /\ Once' /\ Covered' /\ Complete'
         /\ OpenChunks' = OpenChunks
<1>1. /\ settled /\ UNCHANGED <<listed, cursor, running, stopped, aborted, settled>>
      /\ UNCHANGED <<work, pending, phase, resolved, oversized, emitting, calling>>
      /\ unresolved' = IF ~aborted /\ cancelled = {}
                       THEN unresolved \cup WorkOf(NotRun) ELSE unresolved
      /\ answer' = IF failed = {} /\ ~emitFailure /\ cancelled = {} /\ ~aborted
                   THEN "result" ELSE "error"
  BY DEF Finalize, queueVars, outcomeVars, emitVars
<1>2. running = {} /\ NotRun = pending /\ \A i \in Items : phase[i] = "idle"
  BY <1>1, Sides DEF ChunkInv, QueueInv, ItemsCounted, NotRun
<1>3. /\ unresolved \subseteq unresolved' /\ unresolved' \subseteq unresolved \cup WorkOf(pending)
      /\ \A j \in pending : j \in Items /\ Open(j) /\ work[j] \subseteq Messages
  BY <1>1, <1>2, Sides DEF ChunkInv, ChunkTypeOK, Open
<1>4. \A m \in WorkOf(pending) : \E j \in pending : m \in work[j]
  BY DEF WorkOf
<1>5. \A m \in WorkOf(pending) : m \in Messages /\ m \notin resolved /\ m \notin oversized
  BY <1>3, <1>4 DEF ChunkInv, Unspent
<1>6. ChunkTypeOK'
  BY <1>1, <1>3, <1>5 DEF ChunkInv, ChunkTypeOK
<1>7. Emission' /\ Apart'
  BY <1>1 DEF ChunkInv, Emission, Apart, Open
<1>8. Once' /\ Covered'
  BY <1>1, <1>3, <1>5 DEF ChunkInv, Once, Covered, Accounted, Open
<1>9. Complete'
  <2> SUFFICES ASSUME answer' = "result", NEW m \in Messages, m \notin Accounted'
               PROVE  FALSE
    BY <1>6 DEF Complete, ChunkTypeOK, Accounted
  <2>1. ~aborted /\ cancelled = {}
    BY <1>1
  <2>2. unresolved' = unresolved \cup WorkOf(pending)
    BY <1>1, <1>2, <2>1
  <2>3. PICK j \in Items : Open(j) /\ m \in work[j]
    BY <1>1, <2>1, <2>2 DEF ChunkInv, Covered, Accounted
  <2>4. j \in pending
    BY <1>2, <2>3 DEF Open
  <2> QED BY <1>1, <2>2, <2>3, <2>4 DEF WorkOf, Accounted
<1>10. Unspent'
  <2>1. \A i \in pending : ~stopped => unresolved' = unresolved
    <3>1. ~stopped /\ ~aborted => cursor = listed
      BY <1>1 DEF ChunkInv, QueueInv, EndsWithItsList
    <3>2. cursor = listed => pending = {}
      BY Sides, NothingAbove
    <3> QED BY <1>1, <3>1, <3>2
  <2> QED BY <1>1, <1>2, <2>1 DEF ChunkInv, Unspent, Open
<1>11. OpenChunks' = OpenChunks
  BY <1>1 DEF OpenChunks, Open
<1> QED BY <1>6, <1>7, <1>8, <1>9, <1>10, <1>11

Kept == ChunkTypeOK' /\ Emission' /\ Apart' /\ Unspent' /\ Once' /\ Covered' /\ Complete'

\* Every step of the parse keeps its invariant.
LEMMA ChunkNextInv == ChunkInv /\ [ChunkNext]_chunkVars => ChunkInv'
<1> SUFFICES ASSUME ChunkInv, [ChunkNext]_chunkVars PROVE ChunkInv'
  OBVIOUS
<1>1. QueueInv'
  BY ChunkStep, QueueNextInv DEF ChunkInv
<1>2. ASSUME NEW i \in Items, Respond(i) PROVE Kept
  <2>1. phase[i] = "request"
    BY <1>2 DEF Respond, Kept
  <2> QED BY <1>2, <2>1, SplitWorkInv, ResolveInv, OversizedInv, TerminalCapacityInv, ControlFlowInv DEF Respond, Kept
<1>3. ASSUME NEW i \in Items, EndChunk(i) PROVE Kept
  BY <1>3, EndChunkInv DEF Kept
<1>4. ASSUME CallProgress \/ EndProgress \/ FailProgress PROVE Kept
  BY <1>4, ProgressInv DEF Kept
<1>5. ASSUME CancelScan PROVE Kept
  BY <1>5, CancelScanInv DEF Kept
<1>6. ASSUME Finalize PROVE Kept
  BY <1>6, FinalizeInv DEF Kept
<1>7. ASSUME UNCHANGED chunkVars PROVE Kept
  BY <1>7 DEF Kept, chunkVars, queueVars, sessionVars, aggregateVars, emitVars, ChunkInv, ChunkTypeOK, Emission,
              Apart, Unspent, Open, Once, Covered, Complete, Accounted
<1> QED BY <1>1, <1>2, <1>3, <1>4, <1>5, <1>6, <1>7 DEF ChunkNext, ChunkInv, Kept

\* The parse's inductive invariant holds in every state.
LEMMA ChunkInvariance == ChunkSpec => []ChunkInv
BY ChunkInitInv, ChunkNextInv, PTL DEF ChunkSpec

\* A parse that returns accounts for each candidate exactly once, whatever the
\* chunks, the splits, the capacity stops and the order in which siblings end.
THEOREM CandidatesOnce == ChunkSpec => []EveryCandidateOnce
<1>1. ChunkInv => EveryCandidateOnce
  BY DEF ChunkInv, Once, Complete, Accounted, EveryCandidateOnce
<1> QED BY <1>1, ChunkInvariance, PTL

\* No candidate is in two requests, and none in a request once it was
\* accounted for.
THEOREM CandidatesNeverTwice == ChunkSpec => []NoCandidateTwice
<1>1. ChunkInv => NoCandidateTwice
  BY DEF ChunkInv, Apart, Unspent, Open, NoCandidateTwice, InPhase
<1> QED BY <1>1, ChunkInvariance, PTL

-----------------------------------------------------------------------------
\* What is reported and what is open add up to the total, unless the run was
\* stopped: a split replaces one chunk by two, and only a chunk whose process
\* fails leaves without a report.
ProgressCounts ==
    /\ done \in Nat /\ total \in Nat
    /\ done + Cardinality(OpenChunks) <= total
    /\ ~stopped => done + Cardinality(OpenChunks) = total
    /\ answer = "result" /\ ~stopped => done = total

\* The open chunks are finitely many.
LEMMA OpenCount ==
  ASSUME ChunkInv
  PROVE  IsFiniteSet(OpenChunks) /\ Cardinality(OpenChunks) \in Nat
<1>1. IsFiniteSet(Items)
  BY Sides, FS_Interval DEF Items
<1> QED BY <1>1, FS_Subset, FS_CardinalityType DEF OpenChunks

\* One leaves.
LEMMA OneLess ==
  ASSUME ChunkInv, NEW i \in OpenChunks
  PROVE  Cardinality(OpenChunks \ {i}) = Cardinality(OpenChunks) - 1
BY OpenCount, FS_RemoveElement

\* At first all chunks are open.
LEMMA ProgressInit == ChunkInit => ProgressCounts
<1> SUFFICES ASSUME ChunkInit PROVE ProgressCounts
  OBVIOUS
<1>1. ChunkInv /\ InitialItems \in Nat /\ InitialItems <= MaxItems /\ MaxItems \in Nat
      /\ running = 1..cursor /\ cursor \in 0..InitialItems
  BY ChunkInitInv, QueueAssumption DEF ChunkInit, QueueInit, ChunkInv, QueueInv, QueueTypeOK
<1>2. OpenChunks = 1..InitialItems
  <2>1. pending = (cursor + 1)..InitialItems
    BY <1>1 DEF ChunkInit
  <2>2. \A i \in Items : Open(i) <=> i <= InitialItems
    BY <1>1, <2>1 DEF Open, ChunkInit, Items
  <2> QED BY <1>1, <2>2 DEF OpenChunks, Items
<1>3. Cardinality(1..InitialItems) = InitialItems
  BY <1>1, FS_Interval
<1> QED BY <1>1, <1>2, <1>3 DEF ProgressCounts, ChunkInit

\* A report counts a chunk that leaves, a split one that comes.
LEMMA ProgressNext ==
  ASSUME ChunkInv, ChunkInv', ProgressCounts, [ChunkNext]_chunkVars
  PROVE  ProgressCounts'
<1> USE DEF ProgressCounts
<1>1. Cardinality(OpenChunks) \in Nat
  BY OpenCount
<1>2. ASSUME NEW i \in Items, Respond(i) PROVE ProgressCounts'
  <2>1. phase[i] = "request" /\ answer = "none" /\ i \in OpenChunks
    BY <1>2, Unanswered DEF Respond, OpenChunks, Open
  <2>2. ASSUME Report(i), OpenChunks' = OpenChunks \ {i}, stopped => stopped' PROVE ProgressCounts'
    BY <1>1, <2>1, <2>2, OneLess DEF Report
  <2>3. CASE SplitWork(i)
    <3> DEFINE l == listed + 1
               m == listed + 2
               rest == OpenChunks \ {i}
    <3>1. /\ OpenChunks' = rest \cup {l, m} /\ {l, m} \cap OpenChunks = {} /\ l # m
      BY <2>1, <2>3, SplitWorkInv, Sides
    <3>2. IsFiniteSet(rest) /\ l \notin rest /\ m \notin rest \cup {l}
          /\ Cardinality(rest) = Cardinality(OpenChunks) - 1
      BY <2>1, <3>1, OpenCount, OneLess, FS_Subset
    <3>3. rest \cup {l, m} = (rest \cup {l}) \cup {m}
      OBVIOUS
    <3> HIDE DEF l, m, rest
    <3>4. IsFiniteSet(rest \cup {l}) /\ Cardinality(rest \cup {l}) = Cardinality(rest) + 1
      BY <3>2, FS_AddElement
    <3>5. Cardinality((rest \cup {l}) \cup {m}) = Cardinality(rest \cup {l}) + 1
      BY <3>2, <3>4, FS_AddElement
    <3>6. Cardinality(OpenChunks') = Cardinality(OpenChunks) + 1
      BY <1>1, <3>1, <3>2, <3>3, <3>4, <3>5
    <3>7. done' = done /\ total' = total + 1 /\ stopped' = stopped /\ answer' = answer
      BY <2>3 DEF SplitWork, Halved, Enqueue
    <3> QED BY <1>1, <2>1, <3>6, <3>7
  <2>4. ASSUME NEW bad, Resolve(i, bad) PROVE ProgressCounts'
    <3>1. stopped => stopped'
      BY <2>4 DEF Resolve, KeepRunning, StopAndAbort, queueVars
    <3> QED BY <2>1, <2>2, <2>4, <3>1, ResolveInv DEF Resolve
  <2>5. CASE Oversized(i)
    <3>1. stopped => stopped'
      BY <2>5 DEF Oversized, KeepRunning, StopAndAbort, queueVars
    <3> QED BY <2>1, <2>2, <2>5, <3>1, OversizedInv DEF Oversized
  <2>6. CASE TerminalCapacity(i)
    <3>1. stopped'
      BY <2>6 DEF TerminalCapacity, Stop, StopAndAbort
    <3> QED BY <2>1, <2>2, <2>6, <3>1, TerminalCapacityInv DEF TerminalCapacity
  <2>7. CASE ControlFlow(i)
    <3>1. stopped' /\ done' = done /\ total' = total /\ answer' = answer
      BY <2>7 DEF ControlFlow, StopAndAbort, aggregateVars
    <3>2. OpenChunks' = OpenChunks \ {i}
      BY <2>1, <2>7, ControlFlowInv
    <3> QED BY <1>1, <2>1, <3>1, <3>2, OneLess
  <2> QED BY <1>2, <2>3, <2>4, <2>5, <2>6, <2>7 DEF Respond
<1>3. ASSUME UNCHANGED <<done, total, answer>>, OpenChunks' = OpenChunks, stopped => stopped'
      PROVE  ProgressCounts'
  BY <1>3
<1>4. ASSUME NEW i \in Items, EndChunk(i) PROVE ProgressCounts'
  <2>1. OpenChunks' = OpenChunks
    BY <1>4, EndChunkInv
  <2>2. UNCHANGED <<done, total, answer>> /\ stopped' = stopped
    BY <1>4 DEF EndChunk, EndItem, aggregateVars
  <2> QED BY <1>3, <2>1, <2>2
<1>5. CASE CallProgress \/ EndProgress \/ FailProgress
  <2>1. OpenChunks' = OpenChunks
    BY <1>5, ProgressInv
  <2>2. UNCHANGED <<done, total, answer>> /\ (stopped => stopped')
    BY <1>5 DEF CallProgress, EndProgress, FailProgress, StopAndAbort, queueVars, aggregateVars
  <2> QED BY <1>3, <2>1, <2>2
<1>6. CASE CancelScan
  <2>1. OpenChunks' = OpenChunks
    BY <1>6, CancelScanInv
  <2>2. UNCHANGED <<done, total, answer, stopped>>
    BY <1>6 DEF CancelScan, Abort, sessionVars, aggregateVars
  <2> QED BY <1>3, <2>1, <2>2
<1>7. CASE Finalize
  <2>1. OpenChunks' = OpenChunks
    BY <1>7, FinalizeInv
  <2>2. UNCHANGED <<done, total, stopped, aborted, settled>> /\ settled
    BY <1>7 DEF Finalize, queueVars
  <2>3. ~aborted /\ ~stopped => OpenChunks = {}
    <3>1. running = {} /\ (~aborted /\ ~stopped => cursor = listed)
      BY <2>2 DEF ChunkInv, QueueInv, ItemsCounted, EndsWithItsList
    <3>2. cursor = listed => pending = {}
      BY Sides, NothingAbove
    <3>3. \A i \in Items : phase[i] = "idle"
      BY <3>1, Sides
    <3> QED BY <3>1, <3>2, <3>3 DEF OpenChunks, Open
  <2>4. answer' = "result" => ~aborted
    BY <1>7 DEF Finalize
  <2>5. Cardinality({}) = 0
    BY FS_EmptySet
  <2> QED BY <2>1, <2>2, <2>3, <2>4, <2>5
<1>8. CASE UNCHANGED chunkVars
  BY <1>3, <1>8 DEF chunkVars, queueVars, sessionVars, aggregateVars, OpenChunks, Open
<1> QED BY <1>2, <1>4, <1>5, <1>6, <1>7, <1>8 DEF ChunkNext

\* The progress never exceeds its total, and ends at it when nothing stopped
\* the parse (emitProgress of ai-sms-parser-service.ts).
THEOREM ProgressAlwaysAddsUp == ChunkSpec => []ProgressAddsUp
<1>1. ChunkInv /\ ChunkInv' /\ ProgressCounts /\ [ChunkNext]_chunkVars => ProgressCounts'
  BY ProgressNext
<1>2. ChunkInv /\ ProgressCounts => ProgressAddsUp
  <2> SUFFICES ASSUME ChunkInv, ProgressCounts PROVE ProgressAddsUp
    OBVIOUS
  <2>1. Cardinality(OpenChunks) \in Nat
    BY OpenCount
  <2> QED BY <2>1 DEF ProgressCounts, ProgressAddsUp
<1> QED BY ProgressInit, ChunkInvariance, <1>1, <1>2, PTL DEF ChunkSpec
=============================================================================
