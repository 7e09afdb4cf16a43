---------------------------- MODULE WriterFence ----------------------------
(***************************************************************************)
(* The ordinary sync publication fence (migrations 082, 083, 085).         *)
(*                                                                         *)
(* Every transaction that writes a synchronized row takes the singleton    *)
(* barrier row FOR SHARE, keeps it until it ends, and stamps its rows with *)
(* a clock reading strictly above last_sealed_watermark.  seal_sync_pull   *)
(* takes the row FOR UPDATE, so it waits for those transactions, and moves *)
(* last_sealed_watermark up to the watermark a device is about to pull to. *)
(*                                                                         *)
(* What a device can pull are "items": an ordinary row (its image changes, *)
(* its stamp is updated_at), a snapshot row (inserted once, stamped        *)
(* created_at, then hard-deleted) and the journal entry of that deletion   *)
(* (stamped published_at).                                                 *)
(***************************************************************************)
EXTENDS MarketPublication

CONSTANTS
  Writers,      \* concurrent database sessions
  Rows,         \* ids of ordinary rows (soft-deleted by an update)
  Snaps,        \* ids of daily_snapshot_* rows
  MaxImage      \* bound on the images an ordinary row goes through

ASSUME FenceAssumption ==
  /\ Rows \subseteq Nat \ {0}
  /\ Snaps \subseteq Nat \ {0}
  /\ IsFiniteSet(Rows) /\ IsFiniteSet(Snaps)
  /\ MaxImage \in Nat

Items == ({"ordinary"} \X Rows) \cup ({"snapshot", "journal"} \X Snaps)

VARIABLES
  sealed,    \* sync_pull_barrier.last_sealed_watermark
  feed,      \* committed items: image number (0: none yet) and stamp
  fence,     \* sessions whose open transaction holds the barrier row FOR SHARE
  floor,     \* last_sealed_watermark as read under the fence
  pending    \* stamps of the items a transaction has written (0: not written)

fenceVars == <<sealed, feed, fence, floor, pending>>

NotWritten == [i \in Items |-> NoTime]

FenceTypeOK ==
  /\ sealed \in Nat
  /\ feed \in [Items -> [image : Nat, at : Nat]]
  /\ fence \subseteq Writers
  /\ floor \in [Writers -> Nat]
  /\ pending \in [Writers -> [Items -> Nat]]
  /\ \A w \in Writers \ fence : pending[w] = NotWritten /\ floor[w] = NoTime

FenceInit ==
  /\ sealed = NoTime
  /\ feed = [i \in Items |-> [image |-> 0, at |-> NoTime]]
  /\ fence = {}
  /\ floor = [w \in Writers |-> NoTime]
  /\ pending = [w \in Writers |-> NotWritten]

-----------------------------------------------------------------------------
(* Writing transactions. *)

\* The fence goes when the transaction ends.
EndTx(w) ==
  /\ fence' = fence \ {w}
  /\ pending' = [pending EXCEPT ![w] = NotWritten]
  /\ floor' = [floor EXCEPT ![w] = NoTime]

\* A transaction starts to matter here.  FOR SHARE is compatible with the
\* other sharers.  The financial, metal and SMS functions take it before their
\* own locks, every other write takes it in the row trigger.
AcquireSyncWriterFence(w) ==
  /\ w \notin fence
  /\ fence' = fence \cup {w}
  /\ floor' = [floor EXCEPT ![w] = sealed]
  /\ UNCHANGED <<clock, marketVars, sealed, feed, pending>>

\* Faulty variant: a stamp may equal the sealed watermark.
WriteTimeAtFloor(w) ==
  /\ w \in fence
  /\ clock >= floor[w]

\* sync_write_time_v1: the clock is read under the fence and must be above the
\* floor (at the floor the loop waits, below it the transaction fails).
WriteTimeReady(w) ==
  /\ w \in fence
  /\ clock > floor[w]

\* A row that another open transaction has written is locked.
RowFree(w, i) == \A v \in Writers \ {w} : pending[v][i] = NoTime

Stamp(w, i) ==
  /\ WriteTimeReady(w)
  /\ pending' = [pending EXCEPT ![w][i] = clock]
  /\ UNCHANGED <<clock, marketVars, sealed, feed, fence, floor>>

\* stamp_sync_updated_at_v1, on INSERT and UPDATE of an ordinary row.
WriteRow(w, r) ==
  /\ RowFree(w, <<"ordinary", r>>)
  /\ feed[<<"ordinary", r>>].image < MaxImage
  /\ Stamp(w, <<"ordinary", r>>)

\* stamp_sync_snapshot_created_at_v1, on INSERT of a snapshot row.
InsertSnapshot(w, s) ==
  /\ RowFree(w, <<"snapshot", s>>)
  /\ feed[<<"snapshot", s>>].image = 0
  /\ pending[w][<<"snapshot", s>>] = NoTime
  /\ Stamp(w, <<"snapshot", s>>)

\* publish_sync_snapshot_deletion_v1, on DELETE of a committed snapshot row:
\* the journal entry is written in the transaction that removes the row.
DeleteSnapshot(w, s) ==
  /\ RowFree(w, <<"journal", s>>)
  /\ feed[<<"snapshot", s>>].image = 1
  /\ feed[<<"journal", s>>].image = 0
  /\ pending[w][<<"journal", s>>] = NoTime
  /\ Stamp(w, <<"journal", s>>)

CommitTx(w) ==
  /\ w \in fence
  /\ feed' = [i \in Items |->
       IF pending[w][i] = NoTime THEN feed[i]
       ELSE [image |-> feed[i].image + 1, at |-> pending[w][i]]]
  /\ EndTx(w)
  /\ UNCHANGED <<clock, marketVars, sealed>>

\* Rolled back: an error, a dropped connection, or sync_pull_clock_regressed.
AbortTx(w) ==
  /\ w \in fence
  /\ EndTx(w)
  /\ UNCHANGED <<clock, marketVars, sealed, feed>>

-----------------------------------------------------------------------------
(* seal_sync_pull_v1(H), called by a device. *)

\* Faulty variant: the barrier is read without a lock.
SealAcceptsUnfenced(h) ==
  /\ clock >= sealed
  /\ clock >= market
  /\ h <= clock
  /\ h <= market
  /\ h = TruncMs(h)

\* Faulty variant: a watermark that was sealed before is never answered.
SealAcceptsNewer(h) ==
  /\ fence = {}
  /\ clock >= sealed
  /\ clock >= market
  /\ h <= clock
  /\ h <= market
  /\ h > sealed
  /\ h = TruncMs(h)

\* FOR UPDATE waits until no transaction shares the row; market is then read
\* without a lock, and a bad clock or a watermark beyond it is refused.
SealAccepts(h) ==
  /\ fence = {}
  /\ clock >= sealed
  /\ clock >= market
  /\ h <= clock
  /\ h <= market
  /\ h = TruncMs(h)

\* The call fails: the clock is behind a watermark, or H is ahead of one.
SealRefuses(h) ==
  /\ fence = {}
  /\ \/ clock < sealed
     \/ clock < market
     \/ h > clock
     \/ h > market
     \/ h # TruncMs(h)

SealSyncPull(h) ==
  /\ SealAccepts(h)
  /\ sealed' = IF h > sealed THEN h ELSE sealed
  /\ UNCHANGED <<clock, marketVars, feed, fence, floor, pending>>

\* A snapshot row is in its table until its journal entry commits.
Visible(i) ==
  /\ feed[i].image > 0
  /\ i[1] = "snapshot" => feed[<<"journal", i[2]>>].image = 0

WriterStep(w) ==
  \/ AcquireSyncWriterFence(w)
  \/ \E r \in Rows : WriteRow(w, r)
  \/ \E s \in Snaps : InsertSnapshot(w, s) \/ DeleteSnapshot(w, s)
  \/ CommitTx(w)
  \/ AbortTx(w)
=============================================================================
