------------------------- MODULE MarketPublication -------------------------
(***************************************************************************)
(* Publication of market-rate snapshots (migration 072) and the reader     *)
(* that pages through them (pull_market_rate_snapshots_page_v2 and         *)
(* market-rate-snapshot-pull.ts).                                          *)
(*                                                                         *)
(* A snapshot is a root and its observations, written by one transaction   *)
(* (the RPC) or by several (a local import).  A row trigger publishes the  *)
(* snapshot once it is complete, under the row lock of a singleton barrier *)
(* that the transaction keeps until it ends.  The upper watermark of a     *)
(* reader's first page, chosen under the same lock, is the checkpoint of   *)
(* the whole device synchronization.                                       *)
(***************************************************************************)
EXTENDS ServerClock, FiniteSets

CONSTANTS
  Snapshots,      \* ids of market_rates roots, ordered as uuids are
  Observations,   \* instruments a complete snapshot needs
  Publishers,     \* concurrent transactions writing market rows
  Readers,        \* devices paging through the publications
  MarketPageSize  \* p_limit

Root == "root"
ASSUME MarketAssumption ==
  /\ Snapshots \subseteq Nat \ {0}
  /\ Root \notin Observations
  /\ MarketPageSize \in Nat \ {0}

Parts == {Root} \cup Observations

\* A transaction on one snapshot: rows written and publication time chosen,
\* both invisible to others until it commits.
MarketTx == [step  : {"idle", "open", "trigger", "locked"},
             snap  : Snapshots \cup {0},
             wrote : SUBSET Parts,
             pub   : Nat]
Tx(step, snap, wrote, pub) ==
  [step |-> step, snap |-> snap, wrote |-> wrote, pub |-> pub]
NoTx == Tx("idle", 0, {}, NoTime)

\* A device's market pull: window (start, upper], cursor (at, id) and the
\* snapshots received.
MarketRead == [step  : {"idle", "paging", "done"},
               start : Nat, upper : Nat, at : Nat, id : Nat,
               got   : SUBSET Snapshots]
Read(step, start, upper, at, id, got) ==
  [step |-> step, start |-> start, upper |-> upper, at |-> at, id |-> id,
   got |-> got]
NoRead == Read("idle", NoTime, NoTime, NoTime, 0, {})

VARIABLES
  market,      \* market_rate_publication_barrier.watermark, committed
  mlock,       \* transactions holding the barrier row FOR UPDATE
  parts,       \* committed rows of each snapshot
  published,   \* market_rate_publications.published_at, committed
  mtx,         \* the open transactions
  mread        \* the devices' market pulls

marketVars == <<market, mlock, parts, published, mtx>>
vars == <<clock, marketVars, mread>>

MarketTypeOK ==
  /\ clock \in Nat
  /\ market \in Nat
  /\ mlock \subseteq {p \in Publishers : mtx[p].step # "idle"}
  /\ parts \in [Snapshots -> SUBSET Parts]
  /\ published \in [Snapshots -> Nat]
  /\ mtx \in [Publishers -> MarketTx]
  /\ mread \in [Readers -> MarketRead]

MarketInit ==
  /\ clock = TicksPerMs
  /\ market = TruncMs(clock)
  /\ mlock = {}
  /\ parts = [s \in Snapshots |-> {}]
  /\ published = [s \in Snapshots |-> NoTime]
  /\ mtx = [p \in Publishers |-> NoTx]
  /\ mread = [r \in Readers |-> NoRead]

-----------------------------------------------------------------------------
(* Publishing transactions. *)

BeginMarketTx(p, s) ==
  /\ mtx[p].step = "idle"
  /\ mtx' = [mtx EXCEPT ![p] = Tx("open", s, {}, NoTime)]
  /\ UNCHANGED <<clock, market, mlock, parts, published, mread>>

\* The rows of snapshot s that transaction p sees: committed ones and its own.
SeenBy(p, s) == parts[s] \cup mtx[p].wrote

\* An INSERT waits for another open transaction's row with the same key; the
\* observations' foreign key needs a visible root.  The trigger that follows
\* returns at once if the publication is already there.
WritePart(p, part) ==
  LET s == mtx[p].snap
  IN /\ mtx[p].step = "open"
     /\ part \notin SeenBy(p, s)
     /\ part # Root => Root \in SeenBy(p, s)
     /\ \A q \in Publishers \ {p} : mtx[q].snap = s => part \notin mtx[q].wrote
     /\ mtx' = [mtx EXCEPT ![p] =
          Tx(IF published[s] = NoTime /\ mtx[p].pub = NoTime
             THEN "trigger" ELSE "open",
             s, mtx[p].wrote \cup {part}, mtx[p].pub)]
     /\ UNCHANGED <<clock, market, mlock, parts, published, mread>>

\* SELECT ... FOR UPDATE: waits for the transaction that holds the row.
LockBarrier(p) ==
  /\ mtx[p].step = "trigger"
  /\ mlock \subseteq {p}
  /\ mlock' = {p}
  /\ mtx' = [mtx EXCEPT ![p].step = "locked"]
  /\ UNCHANGED <<clock, market, parts, published, mread>>

\* Faulty variant: the barrier row is given back when nothing was published.
IncompleteReturnUnlocked(p) ==
  /\ mtx[p].step = "locked"
  /\ SeenBy(p, mtx[p].snap) # Parts
  /\ mtx' = [mtx EXCEPT ![p].step = "open"]
  /\ mlock' = {}
  /\ UNCHANGED <<clock, market, parts, published, mread>>

\* Completeness is read in a fresh statement after the lock.  An incomplete
\* snapshot leaves the lock held; a complete one takes a publication time
\* strictly above the barrier (waiting while the clock equals it).
IncompleteReturn(p) ==
  /\ mtx[p].step = "locked"
  /\ SeenBy(p, mtx[p].snap) # Parts
  /\ mtx' = [mtx EXCEPT ![p].step = "open"]
  /\ UNCHANGED <<clock, market, mlock, parts, published, mread>>

\* Faulty variant: a publication may share the barrier's millisecond.
PublishAtBarrier(p) ==
  /\ mtx[p].step = "locked"
  /\ SeenBy(p, mtx[p].snap) = Parts
  /\ TruncMs(clock) >= market
  /\ mtx' = [mtx EXCEPT ![p] =
       Tx("open", mtx[p].snap, mtx[p].wrote, TruncMs(clock))]
  /\ UNCHANGED <<clock, market, mlock, parts, published, mread>>

PublishComplete(p) ==
  /\ mtx[p].step = "locked"
  /\ SeenBy(p, mtx[p].snap) = Parts
  /\ TruncMs(clock) > market
  /\ mtx' = [mtx EXCEPT ![p] =
       Tx("open", mtx[p].snap, mtx[p].wrote, TruncMs(clock))]
  /\ UNCHANGED <<clock, market, mlock, parts, published, mread>>

CommitMarketTx(p) ==
  LET t == mtx[p]
  IN /\ t.step = "open"
     /\ parts' = [parts EXCEPT ![t.snap] = @ \cup t.wrote]
     /\ published' = IF t.pub = NoTime THEN published
                     ELSE [published EXCEPT ![t.snap] = t.pub]
     /\ market' = IF t.pub = NoTime THEN market ELSE t.pub
     /\ mlock' = mlock \ {p}
     /\ mtx' = [mtx EXCEPT ![p] = NoTx]
     /\ UNCHANGED <<clock, mread>>

\* Faulty variant: a rollback that leaves the barrier row locked.
AbortKeepingLock(p) ==
  /\ mtx[p].step # "idle"
  /\ mtx' = [mtx EXCEPT ![p] = NoTx]
  /\ UNCHANGED <<clock, market, mlock, parts, published, mread>>

\* Rolled back: an error, a lost connection, or the trigger's
\* market_rate_snapshot_clock_regressed.
AbortMarketTx(p) ==
  /\ mtx[p].step # "idle"
  /\ mtx' = [mtx EXCEPT ![p] = NoTx]
  /\ mlock' = mlock \ {p}
  /\ UNCHANGED <<clock, market, parts, published, mread>>

-----------------------------------------------------------------------------
(* The reader. *)

\* (published_at, id) row comparison.
After(s, at, id) ==
  \/ published[s] > at
  \/ published[s] = at /\ s > id

Candidates(upper, at, id) ==
  {s \in Snapshots : /\ published[s] # NoTime
                     /\ published[s] <= upper
                     /\ After(s, at, id)
                     /\ parts[s] = Parts}

\* The LIMIT smallest candidates, in (published_at, id) order.
IsMarketPage(page, candidates) ==
  /\ page \subseteq candidates
  /\ IF Cardinality(candidates) <= MarketPageSize THEN page = candidates
     ELSE Cardinality(page) = MarketPageSize
  /\ \A x \in page, y \in candidates \ page : After(y, published[x], x)

\* One page arrives; nextCursor is null exactly when nothing remains.
ReceiveMarketPage(r, read, candidates) ==
  \E page \in SUBSET candidates :
    LET got == read.got \cup page
    IN /\ IsMarketPage(page, candidates)
       /\ IF page = candidates
          THEN mread' = [mread EXCEPT ![r] =
                 Read("done", read.start, read.upper, read.at, read.id, got)]
          ELSE \E lst \in page :
                 /\ \A x \in page : x = lst \/ After(lst, published[x], x)
                 /\ mread' = [mread EXCEPT ![r] =
                      Read("paging", read.start, read.upper,
                           published[lst], lst, got)]

\* Faulty variant: the watermark follows a clock that went back.
PullFirstUnchecked(r, start) ==
  LET upper == TruncMs(clock)
  IN /\ mread[r].step = "idle"
     /\ mlock = {}
     /\ market' = upper
     /\ ReceiveMarketPage(r,
          Read("idle", start, upper, NoTime, 0, {}),
          {s \in Candidates(upper, NoTime, 0) : published[s] > start})
     /\ UNCHANGED <<clock, mlock, parts, published, mtx>>

\* Faulty variant: the watermark is chosen without waiting for the lock.
PullFirstUnlocked(r, start) ==
  LET upper == TruncMs(clock)
  IN /\ mread[r].step = "idle"
     /\ upper >= market
     /\ market' = upper
     /\ ReceiveMarketPage(r,
          Read("idle", start, upper, NoTime, 0, {}),
          {s \in Candidates(upper, NoTime, 0) : published[s] > start})
     /\ UNCHANGED <<clock, mlock, parts, published, mtx>>

\* First page: the reader waits for the barrier lock, picks the watermark and
\* reads in a later statement; the lock goes with the call.  The cursor is
\* (lastPulledAt, UUID_MAX) or null.
PullFirstMarketPage(r, start) ==
  LET upper == TruncMs(clock)
  IN /\ mread[r].step = "idle"
     /\ mlock = {}
     /\ upper >= market
     /\ market' = upper
     /\ ReceiveMarketPage(r,
          Read("idle", start, upper, NoTime, 0, {}),
          {s \in Candidates(upper, NoTime, 0) : published[s] > start})
     /\ UNCHANGED <<clock, mlock, parts, published, mtx>>

PullNextMarketPage(r) ==
  LET read == mread[r]
  IN /\ read.step = "paging"
     /\ read.upper <= market
     /\ ReceiveMarketPage(r, read, Candidates(read.upper, read.at, read.id))
     /\ UNCHANGED <<clock, marketVars>>

\* The attempt ends, applied or failed; a new one may begin.
EndMarketRead(r) ==
  /\ mread[r].step # "idle"
  /\ mread' = [mread EXCEPT ![r] = NoRead]
  /\ UNCHANGED <<clock, marketVars>>

-----------------------------------------------------------------------------
ClockStep == (Tick \/ StepClockBack) /\ UNCHANGED <<marketVars, mread>>

MarketTxStep(p) ==
  \/ \E s \in Snapshots : BeginMarketTx(p, s)
  \/ \E part \in Parts : WritePart(p, part)
  \/ LockBarrier(p)
  \/ IncompleteReturn(p)
  \/ PublishComplete(p)
  \/ CommitMarketTx(p)
  \/ AbortMarketTx(p)

MarketReadStep(r) ==
  \/ \E start \in {NoTime, market} : PullFirstMarketPage(r, start)
  \/ PullNextMarketPage(r)
  \/ EndMarketRead(r)

MarketNext ==
  \/ ClockStep
  \/ \E p \in Publishers : MarketTxStep(p)
  \/ \E r \in Readers : MarketReadStep(r)

MarketSpec == MarketInit /\ [][MarketNext]_vars

-----------------------------------------------------------------------------
(* Properties. *)

\* "every later publisher receives a strictly greater time": no publication
\* becomes visible at or below a watermark that a reader may already hold.
NoLatePublication ==
  [][\A s \in Snapshots :
       published'[s] # published[s] => published'[s] > market]_vars

\* Two transactions that each complete the other's half never leave a
\* complete snapshot unpublished: whoever waits for the lock sees the other's
\* committed rows.
CompleteIsPublished ==
  \A s \in Snapshots : parts[s] = Parts => published[s] # NoTime

\* A finished market pull holds every publication of its window, and keeps
\* holding it while publishers go on: the cut is final.
CutComplete ==
  \A r \in Readers : mread[r].step = "done" =>
    \A s \in Snapshots :
      (published[s] > mread[r].start /\ published[s] <= mread[r].upper)
        => s \in mread[r].got
=============================================================================
