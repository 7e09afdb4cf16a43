------------------------------ MODULE SyncPull ------------------------------
(***************************************************************************)
(* A device's pull against the fenced server: pullChanges of               *)
(* atomic-pull-strategies.ts with pull-fence.ts, pull-pagination.ts,       *)
(* snapshot-deletion-pull.ts and pull-strategies.ts, and the two steps in  *)
(* which the SDK's writer stores the result (rows, then checkpoint).       *)
(*                                                                         *)
(* Steps of a pull, each a request of its own while the server goes on:    *)
(* market pages (the first fixes the upper watermark), seal, deletion      *)
(* journal pages, table pages, apply, checkpoint.  An attempt may fail or  *)
(* the app may be killed between any two of them.                          *)
(***************************************************************************)
EXTENDS WriterFence

CONSTANTS
  PageSize      \* PULL_PAGE_SIZE, or the server's lower row cap

ASSUME PullAssumption == PageSize \in Nat \ {0}

Devices == Readers
Streams == {"journal", "ordinary", "snapshot"}
TableRows == ({"ordinary"} \X Rows) \cup ({"snapshot"} \X Snaps)

VARIABLES
  phase,     \* where the device's pull is
  last,      \* the SDK's lastPulledAt (0: never pulled), persisted
  from,      \* lower bound of this attempt's windows (0: a full pull)
  upper,     \* upper watermark of this attempt
  todo,      \* streams this attempt has not read to the end
  stream,    \* stream it is in the middle of
  cursor,    \* key of the last row received of that stream
  got,       \* images received so far (0: not received)
  replica,   \* the device's rows, persisted
  rates      \* the device's market snapshots, persisted

deviceVars == <<phase, last, from, upper, todo, stream, cursor, got, replica, rates>>
serverVars == <<clock, marketVars, fenceVars>>
pullVars == <<serverVars, mread, deviceVars>>

Phases == {"idle", "market", "pages", "applied"}
NoCursor == [at |-> NoTime, id |-> 0]
NotGot == [i \in Items |-> 0]

DeviceTypeOK ==
  /\ phase \in [Devices -> Phases]
  /\ last \in [Devices -> Nat]
  /\ from \in [Devices -> Nat]
  /\ upper \in [Devices -> Nat]
  /\ todo \in [Devices -> SUBSET Streams]
  /\ stream \in [Devices -> Streams \cup {"none"}]
  /\ cursor \in [Devices -> [at : Nat, id : Nat]]
  /\ got \in [Devices -> [Items -> Nat]]
  /\ replica \in [Devices -> [TableRows -> Nat]]
  /\ rates \in [Devices -> SUBSET Snapshots]
  /\ \A d \in Devices :
       /\ from[d] \in {NoTime, last[d]}
       /\ phase[d] # "pages" => todo[d] = {}
       /\ stream[d] \in todo[d] \cup {"none"}
       /\ phase[d] = "idle" => mread[d] = NoRead

TypeOK == MarketTypeOK /\ FenceTypeOK /\ DeviceTypeOK

DeviceInit ==
  /\ phase = [d \in Devices |-> "idle"]
  /\ last = [d \in Devices |-> NoTime]
  /\ from = [d \in Devices |-> NoTime]
  /\ upper = [d \in Devices |-> NoTime]
  /\ todo = [d \in Devices |-> {}]
  /\ stream = [d \in Devices |-> "none"]
  /\ cursor = [d \in Devices |-> NoCursor]
  /\ got = [d \in Devices |-> NotGot]
  /\ replica = [d \in Devices |-> [i \in TableRows |-> 0]]
  /\ rates = [d \in Devices |-> {}]

Init == MarketInit /\ FenceInit /\ DeviceInit

-----------------------------------------------------------------------------
(* A pull, request by request. *)

\* synchronize() asks for changes since lastPulledAt; a forced full
\* synchronization replaces it by null.
StartPull(d, full) ==
  /\ phase[d] = "idle"
  /\ phase' = [phase EXCEPT ![d] = "market"]
  /\ from' = [from EXCEPT ![d] = IF full THEN NoTime ELSE last[d]]
  /\ UNCHANGED <<serverVars, mread, last, upper, todo, stream, cursor, got,
                 replica, rates>>

\* pullMarketRateSnapshots
PullMarketPage(d) ==
  /\ phase[d] = "market"
  /\ PullFirstMarketPage(d, from[d]) \/ PullNextMarketPage(d)
  /\ UNCHANGED <<fenceVars, deviceVars>>

\* sealSyncPull(upperWatermark); the pages come after it.
SealPull(d) ==
  /\ phase[d] = "market"
  /\ mread[d].step = "done"
  /\ SealSyncPull(mread[d].upper)
  /\ phase' = [phase EXCEPT ![d] = "pages"]
  /\ upper' = [upper EXCEPT ![d] = mread[d].upper]
  /\ todo' = [todo EXCEPT ![d] = Streams]
  /\ cursor' = [cursor EXCEPT ![d] = NoCursor]
  /\ got' = [got EXCEPT ![d] = NotGot]
  /\ UNCHANGED <<mread, last, from, stream, replica, rates>>

\* (stamp, id) comparison of the keyset filter.
Beyond(i, key) ==
  \/ feed[i].at > key.at
  \/ feed[i].at = key.at /\ i[2] > key.id

\* Faulty variant: the next request carries no cursor.
KeyLost(i) == NoCursor

KeyOf(i) == [at |-> feed[i].at, id |-> i[2]]

\* Faulty variant: rows stamped as the last one received count as received.
RemainingByStamp(t, lo, hi, key) ==
  {i \in Items : /\ i[1] = t
                 /\ Visible(i)
                 /\ feed[i].at > IF key.at > lo THEN key.at ELSE lo
                 /\ feed[i].at <= hi}

\* What the server still has for the window (lo, hi] after the cursor.
Remaining(t, lo, hi, key) ==
  {i \in Items : /\ i[1] = t
                 /\ Visible(i)
                 /\ feed[i].at > lo
                 /\ feed[i].at <= hi
                 /\ Beyond(i, key)}

\* The first PageSize rows in key order.
IsPage(page, remaining) ==
  /\ page \subseteq remaining
  /\ \A x \in page, y \in remaining \ page : Beyond(y, KeyOf(x))
  /\ Cardinality(page) = IF Cardinality(remaining) < PageSize
                         THEN Cardinality(remaining) ELSE PageSize

\* The deletion journal is read to the end before any table; its server
\* function refuses a watermark that is not sealed.
MayRead(d, t) ==
  /\ phase[d] = "pages"
  /\ t \in todo[d]
  /\ stream[d] \in {"none", t}
  /\ "journal" \in todo[d] => t = "journal" /\ upper[d] <= sealed

\* One response of pullAllKeysetPages: rows and the exact count of what
\* remained, from one statement.  The stream ends when they agree.
PullPage(d, t) ==
  LET remaining == Remaining(t, from[d], upper[d], cursor[d])
  IN /\ MayRead(d, t)
     /\ \E page \in SUBSET remaining :
          /\ IsPage(page, remaining)
          /\ got' = [got EXCEPT ![d] =
               [i \in Items |-> IF i \in page THEN feed[i].image ELSE got[d][i]]]
          /\ IF Cardinality(remaining) = Cardinality(page)
             THEN /\ todo' = [todo EXCEPT ![d] = @ \ {t}]
                  /\ stream' = [stream EXCEPT ![d] = "none"]
                  /\ cursor' = [cursor EXCEPT ![d] = NoCursor]
             ELSE \E x \in page :
                  /\ \A y \in page : y = x \/ Beyond(x, KeyOf(y))
                  /\ stream' = [stream EXCEPT ![d] = t]
                  /\ cursor' = [cursor EXCEPT ![d] = KeyOf(x)]
                  /\ UNCHANGED todo
     /\ UNCHANGED <<serverVars, mread, phase, last, from, upper, replica, rates>>

-----------------------------------------------------------------------------
(* Storing the result: one SDK writer, two durable steps. *)

\* Faulty variant: deletions are not applied.
MergedWithoutJournal(d, i) ==
  IF got[d][i] > 0 THEN got[d][i] ELSE replica[d][i]

\* A journalled deletion removes the row, a received image replaces it.
Merged(d, i) ==
  IF i[1] = "snapshot" /\ got[d][<<"journal", i[2]>>] > 0 THEN 0
  ELSE IF got[d][i] > 0 THEN got[d][i] ELSE replica[d][i]

ApplyPull(d) ==
  /\ phase[d] = "pages"
  /\ todo[d] = {}
  /\ replica' = [replica EXCEPT ![d] = [i \in TableRows |-> Merged(d, i)]]
  /\ rates' = [rates EXCEPT ![d] = @ \cup mread[d].got]
  /\ phase' = [phase EXCEPT ![d] = "applied"]
  /\ UNCHANGED <<serverVars, mread, last, from, upper, todo, stream, cursor, got>>

\* Faulty variant: page state survives a failed attempt.
ForgetKeepingPages(d) ==
  /\ phase' = [phase EXCEPT ![d] = "idle"]
  /\ mread' = [mread EXCEPT ![d] = NoRead]
  /\ from' = [from EXCEPT ![d] = NoTime]
  /\ upper' = [upper EXCEPT ![d] = NoTime]
  /\ UNCHANGED <<todo, stream, cursor, got>>

\* What an attempt held in memory is gone when it ends.
Forget(d) ==
  /\ phase' = [phase EXCEPT ![d] = "idle"]
  /\ mread' = [mread EXCEPT ![d] = NoRead]
  /\ from' = [from EXCEPT ![d] = NoTime]
  /\ upper' = [upper EXCEPT ![d] = NoTime]
  /\ todo' = [todo EXCEPT ![d] = {}]
  /\ stream' = [stream EXCEPT ![d] = "none"]
  /\ cursor' = [cursor EXCEPT ![d] = NoCursor]
  /\ got' = [got EXCEPT ![d] = NotGot]

\* Faulty variant: the checkpoint is the time the pull ended.
CheckpointAtNow(d) ==
  /\ phase[d] = "applied"
  /\ last' = [last EXCEPT ![d] = clock]
  /\ Forget(d)
  /\ UNCHANGED <<serverVars, replica, rates>>

\* setLastPulledAt(timestamp)
CheckpointPull(d) ==
  /\ phase[d] = "applied"
  /\ last' = [last EXCEPT ![d] = upper[d]]
  /\ Forget(d)
  /\ UNCHANGED <<serverVars, replica, rates>>

\* A request fails or its answer is lost, the seal is refused, a page is
\* malformed, the user changes, or the app is killed.
FailPull(d) ==
  /\ phase[d] # "idle"
  /\ Forget(d)
  /\ UNCHANGED <<serverVars, last, replica, rates>>

-----------------------------------------------------------------------------
ServerStep ==
  /\ \/ ClockStep /\ UNCHANGED fenceVars
     \/ \E p \in Publishers : MarketTxStep(p) /\ UNCHANGED fenceVars
     \/ \E w \in Writers : WriterStep(w) /\ UNCHANGED mread
  /\ UNCHANGED deviceVars

DeviceStep(d) ==
  \/ \E full \in BOOLEAN : StartPull(d, full)
  \/ PullMarketPage(d)
  \/ SealPull(d)
  \/ \E t \in Streams : PullPage(d, t)
  \/ ApplyPull(d)
  \/ CheckpointPull(d)
  \/ FailPull(d)

Next == ServerStep \/ \E d \in Devices : DeviceStep(d)

Spec == Init /\ [][Next]_pullVars

\* A server that answers with an error ends the attempt.
Refused(d) ==
  /\ phase[d] = "market"
  /\ \/ mread[d].step = "idle" /\ mlock = {} /\ TruncMs(clock) < market
     \/ mread[d].step = "done" /\ SealRefuses(mread[d].upper)

\* Fairness: a running attempt is a chain of awaits that goes on as long as
\* the server answers.  Nothing makes a user start one, and nothing orders the
\* writers behind a waiting seal.
Progress(d) ==
  \/ PullMarketPage(d)
  \/ SealPull(d)
  \/ \E t \in Streams : PullPage(d, t)
  \/ ApplyPull(d)
  \/ CheckpointPull(d)
  \/ Refused(d) /\ FailPull(d)

LiveSpec == Spec /\ \A d \in Devices : WF_pullVars(Progress(d))

-----------------------------------------------------------------------------
(* Properties. *)

\* The fence: a commit never makes anything visible at or below a watermark
\* that has been sealed, however late the transaction ends.
NoLateStamp ==
  [][\A i \in Items : feed'[i] # feed[i] => feed'[i].at > sealed]_pullVars

DeliveredTo(d, i) ==
  IF i[1] = "journal" THEN replica[d][<<"snapshot", i[2]>>] = 0
  ELSE replica[d][i] = feed[i].image

HoldsRows(d, at) ==
  \A i \in Items : (Visible(i) /\ feed[i].at <= at) => DeliveredTo(d, i)

HoldsRates(d, at) ==
  \A s \in Snapshots :
    (published[s] # NoTime /\ published[s] <= at) => s \in rates[d]

\* Nothing behind the checkpoint is missing from a device: it holds the latest
\* image of every row whose stamp its checkpoint covers, the rows whose
\* deletion is journalled there are gone, and so are no others.
NoMissedRow == \A d \in Devices : HoldsRows(d, last[d])

\* The market snapshots share the checkpoint.
NoMissedRate == \A d \in Devices : HoldsRates(d, last[d])

\* The checkpoint of a device never moves back, even when the server clock
\* does, and a device's copy of a row never reverts to an older image.
NoStepBack ==
  [][\A d \in Devices :
       /\ last'[d] >= last[d]
       /\ \A r \in Rows :
            replica'[d][<<"ordinary", r>>] >= replica[d][<<"ordinary", r>>]]_pullVars

\* Once sealed, a pull ends whatever the writers do: rows can only leave its
\* window, so its pages run out.
SealedPullEnds ==
  \A d \in Devices : phase[d] = "pages" ~> phase[d] = "idle"

\* A pull that waits for the seal gets it, or an error, once the transactions
\* that share the fence or hold the market barrier have ended and no more arrive.
PullEndsWhenWritersPause ==
  <>[](fence = {} /\ mlock = {}) =>
    \A d \in Devices : phase[d] = "market" ~> phase[d] # "market"

\* The pull implements the abstract change feed: a row is in the backlog of a
\* device while a stamp of it is above the device's checkpoint.
Feed == INSTANCE ChangeFeed WITH
  Keys    <- TableRows,
  Devices <- Devices,
  content <- [i \in TableRows |-> IF Visible(i) THEN feed[i].image ELSE 0],
  copy    <- replica,
  backlog <- [d \in Devices |->
                {i \in TableRows :
                   \/ feed[i].at > last[d]
                   \/ /\ i[1] = "snapshot"
                      /\ feed[<<"journal", i[2]>>].at > last[d]}]

ImplementsChangeFeed == Feed!Spec
=============================================================================
