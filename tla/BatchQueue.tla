----------------------------- MODULE BatchQueue -----------------------------
(***************************************************************************)
(* runConcurrentBatchQueue (concurrent-batch-queue-service.ts): a pool of  *)
(* workers over one growing work list.  An item is its position on the     *)
(* list.  JavaScript runs one synchronous stretch at a time, so a stretch  *)
(* is one step: a worker that records its item, claims the next one or     *)
(* leaves and pumps; a call of enqueue or stop by a running item; an abort *)
(* of the signal by anyone.  A running item makes its calls after its      *)
(* first await, as the process functions of both callers do.               *)
(***************************************************************************)
EXTENDS Integers, FiniteSets

CONSTANTS
    InitialItems,   \* the number of items the run starts with
    MaxItems,       \* bound on the items ever listed
    MaxConcurrent   \* options.maxConcurrent

ASSUME QueueAssumption ==
    /\ MaxItems \in Nat /\ InitialItems \in 0..MaxItems
    /\ MaxConcurrent \in Int

VARIABLES
    listed,      \* workList.length
    cursor,      \* the items 1..cursor have been claimed
    active,      \* activeWorkers
    running,     \* items whose process has not settled
    completed, failed, cancelled,  \* the outcome lists, as sets of positions
    stopped,     \* stop() was called
    aborted,     \* options.signal.aborted
    settled      \* the run's promise is resolved

outcomeVars == <<completed, failed, cancelled>>
queueVars == <<listed, cursor, active, running, outcomeVars, stopped, aborted, settled>>

Items == 1..MaxItems
Limit == IF MaxConcurrent > 1 THEN MaxConcurrent ELSE 1
Lesser(a, b) == IF a < b THEN a ELSE b

Outcomes == {"completed", "failed", "cancelled"}
Ended == completed \cup failed \cup cancelled
NotRun == IF settled THEN (cursor + 1)..listed ELSE {}

\* while (activeWorkers < maxConcurrent) claimNext(): how many items of a list
\* of n a pump launches.
Launches(n) == Lesser(Limit - active, n - cursor)

\* pump() of a run that may still launch, after the list has grown to n.
Pump(n) ==
    /\ listed' = n
    /\ cursor' = cursor + Launches(n)
    /\ running' = running \cup (cursor + 1)..cursor'
    /\ active' = active + Launches(n)
    /\ settled' = (active' = 0)

QueueInit ==
    /\ listed = InitialItems
    /\ completed = {} /\ failed = {} /\ cancelled = {}
    /\ stopped = FALSE
    /\ aborted \in BOOLEAN
    /\ active = IF aborted THEN 0 ELSE Lesser(Limit, InitialItems)
    /\ cursor = active
    /\ running = 1..cursor
    /\ settled = (active = 0)

\* Faulty variant: the list grows, and nobody pumps.
EnqueueLazily(i, n) ==
    /\ i \in running
    /\ listed + n <= MaxItems
    /\ listed' = listed + n
    /\ UNCHANGED <<cursor, running, active, settled, outcomeVars, stopped, aborted>>

\* Faulty variant: a call of enqueue pumps after stop() too.
EnqueueAfterStop(i, n) ==
    /\ i \in running
    /\ listed + n <= MaxItems
    /\ Pump(listed + n)
    /\ UNCHANGED <<outcomeVars, stopped, aborted>>

\* enqueue(), called n times in one stretch.
Enqueue(i, n) ==
    /\ i \in running
    /\ listed + n <= MaxItems
    /\ IF stopped \/ aborted
       THEN listed' = listed + n /\ UNCHANGED <<cursor, running, active, settled>>
       ELSE Pump(listed + n)
    /\ UNCHANGED <<outcomeVars, stopped, aborted>>

Stop(i) ==
    /\ i \in running
    /\ stopped' = TRUE
    /\ UNCHANGED <<listed, cursor, active, running, outcomeVars, aborted, settled>>

\* The listener is gone once the run has settled; before, a worker is active
\* and the pump of onAbort finds nothing to do.
Abort ==
    /\ ~aborted
    /\ aborted' = TRUE
    /\ UNCHANGED <<listed, cursor, active, running, outcomeVars, stopped, settled>>

\* stop() and an abort of the siblings in one stretch.
StopAndAbort ==
    /\ stopped' = TRUE /\ aborted' = TRUE
    /\ UNCHANGED <<listed, cursor, active, running, outcomeVars, settled>>

\* process() resolves, or rejects with an AbortError or another error.
Record(i, how) ==
    /\ how \in {"completed", "failed"} \cup (IF aborted THEN {"cancelled"} ELSE {})
    /\ completed' = IF how = "completed" THEN completed \cup {i} ELSE completed
    /\ failed' = IF how = "failed" THEN failed \cup {i} ELSE failed
    /\ cancelled' = IF how = "cancelled" THEN cancelled \cup {i} ELSE cancelled

ClaimNext(i) ==
    /\ ~stopped /\ ~aborted /\ cursor < listed
    /\ cursor' = cursor + 1
    /\ running' = (running \ {i}) \cup {cursor + 1}
    /\ UNCHANGED <<active, settled>>

\* The worker finds nothing to claim.
Departs(i) ==
    /\ stopped \/ aborted \/ cursor >= listed
    /\ running' = running \ {i}
    /\ UNCHANGED cursor

\* claimNext() returned undefined: the pump of the finally block launches
\* nothing, and the last worker to leave settles the run.
Leave(i) ==
    /\ Departs(i)
    /\ active' = active - 1
    /\ settled' = (active' = 0)

EndItem(i, how) ==
    /\ i \in running
    /\ Record(i, how)
    /\ ClaimNext(i) \/ Leave(i)
    /\ UNCHANGED <<listed, stopped, aborted>>

QueueNext ==
    \/ \E i \in Items :
        \/ \E n \in 1..2 : Enqueue(i, n)
        \/ Stop(i)
        \/ \E how \in Outcomes : EndItem(i, how)
    \/ Abort \/ StopAndAbort

\* A process ends in the end: each of its requests is answered, fails or is
\* aborted.
QueueFairness ==
    \A i \in Items : WF_queueVars(\E how \in Outcomes : EndItem(i, how))

QueueSpec == QueueInit /\ [][QueueNext]_queueVars /\ QueueFairness

-----------------------------------------------------------------------------
QueueTypeOK ==
    /\ listed \in 0..MaxItems /\ cursor \in 0..listed
    /\ active \in 0..Limit
    /\ running \subseteq Items
    /\ completed \subseteq Items /\ failed \subseteq Items /\ cancelled \subseteq Items
    /\ stopped \in BOOLEAN /\ aborted \in BOOLEAN /\ settled \in BOOLEAN

\* The pool refills at once rather than in waves: a worker is only missing
\* when no item waits or launches were stopped.
NoIdleWorker ==
    (~stopped /\ ~aborted) => (active = Limit \/ cursor = listed)

\* The life of an item as the caller sees it.
StatusOf(i) ==
    CASE i \in running -> "active"
      [] i \in completed -> "completed"
      [] i \in failed -> "failed"
      [] i \in cancelled -> "cancelled"
      [] i > cursor /\ i <= listed -> "waiting"
      [] OTHER -> "unknown"

Caller == INSTANCE BatchRun WITH
    status <- [i \in Items |-> StatusOf(i)],
    closed <- stopped \/ aborted,
    answered <- settled

\* The pool with its cursor, counter and pumps does what its caller is
\* promised: one outcome per item, bounded flight, no start after the end.
ImplementsRun == Caller!RunSpec
=============================================================================
