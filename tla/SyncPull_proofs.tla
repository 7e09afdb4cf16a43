-------------------------- MODULE SyncPull_proofs --------------------------
(***************************************************************************)
(* The pull, for every value of the constants.  Its types; an inductive    *)
(* invariant that relates the fence, the publication barrier, the pages in *)
(* flight and the devices' checkpoints; the properties it implies; and the *)
(* refinement of the abstract change feed.                                 *)
(* The invariant is kept step by step: a step of the server or of another  *)
(* device touches a device only through Grows, so each action of a device  *)
(* is proved alone.                                                        *)
(***************************************************************************)
EXTENDS SyncPull, TLAPS, FiniteSetTheorems

\* Truncation to milliseconds goes down.
LEMMA TruncMsNat == \A t \in Nat : TruncMs(t) \in Nat /\ TruncMs(t) <= t
<1> TAKE t \in Nat
<1> USE ClockAssumption
<1>1. t % TicksPerMs \in Nat
  OBVIOUS
<1>2. t % TicksPerMs <= t
  OBVIOUS
<1> QED BY <1>1, <1>2 DEF TruncMs

\* Publishing transactions keep the types.
LEMMA MarketTxType ==
  ASSUME MarketTypeOK, NEW p \in Publishers, MarketTxStep(p)
  PROVE  MarketTypeOK'
<1> USE DEF MarketTypeOK, MarketTx, NoTx, Tx
<1>1. ASSUME NEW s \in Snapshots, BeginMarketTx(p, s) PROVE MarketTypeOK'
  BY <1>1 DEF BeginMarketTx, NoTime
<1>2. ASSUME NEW part \in Parts, WritePart(p, part) PROVE MarketTypeOK'
  BY <1>2 DEF WritePart
<1>3. CASE LockBarrier(p)
  BY <1>3 DEF LockBarrier
<1>4. CASE IncompleteReturn(p)
  <2>1. mtx' \in [Publishers -> MarketTx]
    BY <1>4 DEF IncompleteReturn
  <2> QED BY <1>4, <2>1 DEF IncompleteReturn
<1>5. CASE PublishComplete(p)
  <2>1. mtx' \in [Publishers -> MarketTx]
    BY <1>5, TruncMsNat DEF PublishComplete
  <2> QED BY <1>5, <2>1 DEF PublishComplete
<1>6. CASE CommitMarketTx(p)
  BY <1>6 DEF CommitMarketTx, NoTime
<1>7. CASE AbortMarketTx(p)
  BY <1>7 DEF AbortMarketTx, NoTime
<1> QED BY <1>1, <1>2, <1>3, <1>4, <1>5, <1>6, <1>7 DEF MarketTxStep

\* A market page keeps the type of the devices' market pulls ...
LEMMA MarketPageType ==
  ASSUME MarketTypeOK, NEW r \in Readers, NEW read \in MarketRead,
         NEW C \in SUBSET Snapshots, ReceiveMarketPage(r, read, C)
  PROVE  mread' \in [Readers -> MarketRead]
<1> USE DEF MarketRead, Read
<1>1. PICK page \in SUBSET C :
        IF page = C
        THEN mread' = [mread EXCEPT ![r] =
               Read("done", read.start, read.upper, read.at, read.id, read.got \cup page)]
        ELSE \E lst \in page :
               mread' = [mread EXCEPT ![r] =
                      Read("paging", read.start, read.upper,
                           published[lst], lst, read.got \cup page)]
  BY DEF ReceiveMarketPage
<1>2. CASE page = C
  BY <1>1, <1>2 DEF MarketTypeOK
<1>3. CASE page # C
  <2>1. PICK lst \in page :
               mread' = [mread EXCEPT ![r] =
                      Read("paging", read.start, read.upper,
                           published[lst], lst, read.got \cup page)]
    BY <1>1, <1>3
  <2>2. published[lst] \in Nat /\ lst \in Nat
    BY MarketAssumption DEF MarketTypeOK
  <2> QED BY <2>1, <2>2 DEF MarketTypeOK
<1> QED BY <1>2, <1>3

\* ... and touches the pull of one device only.
LEMMA MarketPageFrame ==
  ASSUME MarketTypeOK, NEW r \in Readers, NEW read, NEW C,
         ReceiveMarketPage(r, read, C), NEW q \in Readers \ {r}
  PROVE  mread'[q] = mread[q]
<1>1. PICK page \in SUBSET C : \E new : mread' = [mread EXCEPT ![r] = new]
  BY DEF ReceiveMarketPage
<1> QED BY <1>1 DEF MarketTypeOK

\* Market pages keep the types.
LEMMA MarketReadType ==
  ASSUME MarketTypeOK, NEW r \in Readers, NEW start \in Nat,
         PullFirstMarketPage(r, start) \/ PullNextMarketPage(r)
  PROVE  MarketTypeOK'
<1>1. CASE PullFirstMarketPage(r, start)
  <2> DEFINE u == TruncMs(clock)
  <2>1. u \in Nat
    BY TruncMsNat DEF MarketTypeOK
  <2>2. Read("idle", start, u, NoTime, 0, {}) \in MarketRead
    BY <2>1 DEF Read, MarketRead, NoTime
  <2>3. {s \in Candidates(u, NoTime, 0) : published[s] > start} \in SUBSET Snapshots
    BY DEF Candidates
  <2> QED BY <1>1, <2>1, <2>2, <2>3, MarketPageType
          DEF PullFirstMarketPage, MarketTypeOK
<1>2. CASE PullNextMarketPage(r)
  <2>1. mread[r] \in MarketRead
    BY DEF MarketTypeOK
  <2>2. Candidates(mread[r].upper, mread[r].at, mread[r].id) \in SUBSET Snapshots
    BY DEF Candidates
  <2> QED BY <1>2, <2>1, <2>2, MarketPageType
          DEF PullNextMarketPage, MarketTypeOK, marketVars
<1> QED BY <1>1, <1>2

\* Ending an attempt keeps the server's types.
LEMMA ForgetType ==
  ASSUME MarketTypeOK, NEW d \in Devices, Forget(d), UNCHANGED <<clock, marketVars>>
  PROVE  MarketTypeOK'
  BY DEF MarketTypeOK, Forget, marketVars, NoRead, Read, MarketRead, Devices, NoTime

\* Writing transactions keep the types.
LEMMA FenceWriterType ==
  ASSUME FenceTypeOK, clock \in Nat, NEW w \in Writers, WriterStep(w)
  PROVE  FenceTypeOK'
<1> USE DEF FenceTypeOK, NotWritten, NoTime
<1>1. CASE AcquireSyncWriterFence(w)
  BY <1>1 DEF AcquireSyncWriterFence
<1>2. ASSUME NEW i \in Items, Stamp(w, i) PROVE FenceTypeOK'
  BY <1>2 DEF Stamp, WriteTimeReady
<1>3. ASSUME NEW r \in Rows, WriteRow(w, r) PROVE FenceTypeOK'
  BY <1>2, <1>3 DEF WriteRow, Items
<1>4. ASSUME NEW s \in Snaps, InsertSnapshot(w, s) \/ DeleteSnapshot(w, s)
      PROVE FenceTypeOK'
  BY <1>2, <1>4 DEF InsertSnapshot, DeleteSnapshot, Items
<1>5. CASE CommitTx(w)
  BY <1>5 DEF CommitTx, EndTx
<1>6. CASE AbortTx(w)
  BY <1>6 DEF AbortTx, EndTx
<1> QED BY <1>1, <1>3, <1>4, <1>5, <1>6 DEF WriterStep

\* The initial state is well typed.
LEMMA TypeInit == Init => TypeOK
<1> SUFFICES ASSUME Init PROVE TypeOK
  OBVIOUS
<1>1. MarketTypeOK
  BY TruncMsNat, ClockAssumption
     DEF Init, MarketInit, MarketTypeOK, NoTx, Tx, MarketTx, NoRead, Read,
         MarketRead, NoTime
<1>2. FenceTypeOK
  BY DEF Init, FenceInit, FenceTypeOK, NotWritten, NoTime
<1>3. DeviceTypeOK
  BY DEF Init, MarketInit, DeviceInit, DeviceTypeOK, NoCursor, NotGot, NoTime, Phases, Devices, NoRead, Read
<1> QED BY <1>1, <1>2, <1>3 DEF TypeOK

\* Steps of the server keep the types.
LEMMA TypeServer == ASSUME TypeOK, ServerStep PROVE TypeOK'
<1> USE DEF TypeOK
<1>0. DeviceTypeOK'
  <2>1. mread' = mread
    BY DEF ServerStep, ClockStep, MarketTxStep, BeginMarketTx, WritePart, LockBarrier,
           IncompleteReturn, PublishComplete, CommitMarketTx, AbortMarketTx
  <2> QED BY <2>1 DEF ServerStep, deviceVars, DeviceTypeOK
<1>1. CASE ClockStep /\ UNCHANGED fenceVars
  BY <1>0, <1>1 DEF ClockStep, Tick, StepClockBack, marketVars, fenceVars,
     MarketTypeOK, FenceTypeOK
<1>2. ASSUME NEW p \in Publishers, MarketTxStep(p), UNCHANGED fenceVars
      PROVE TypeOK'
  <2>1. MarketTypeOK'
    BY <1>2, MarketTxType
  <2> QED BY <1>0, <1>2, <2>1 DEF fenceVars, FenceTypeOK
<1>3. ASSUME NEW w \in Writers, WriterStep(w), UNCHANGED mread
      PROVE TypeOK'
  <2>1. FenceTypeOK'
    BY <1>3, FenceWriterType DEF MarketTypeOK
  <2>2. UNCHANGED <<clock, marketVars>>
    BY <1>3 DEF WriterStep, AcquireSyncWriterFence, WriteRow, InsertSnapshot,
       DeleteSnapshot, Stamp, CommitTx, AbortTx, marketVars
  <2> QED BY <1>0, <1>3, <2>1, <2>2 DEF marketVars, MarketTypeOK
<1> QED BY <1>1, <1>2, <1>3 DEF ServerStep

\* Steps of a device keep the types.
LEMMA TypeDevice ==
  ASSUME TypeOK, NEW d \in Devices, DeviceStep(d) PROVE TypeOK'
<1> USE DEF TypeOK
<1>1. ASSUME NEW full \in BOOLEAN, StartPull(d, full) PROVE TypeOK'
  BY <1>1 DEF StartPull, serverVars, marketVars, fenceVars, MarketTypeOK,
     FenceTypeOK, DeviceTypeOK, Phases, NoTime
<1>2. CASE PullMarketPage(d)
  <2>1. from[d] \in Nat
    BY DEF DeviceTypeOK
  <2>2. MarketTypeOK'
    BY <1>2, <2>1, MarketReadType DEF PullMarketPage, Devices
  <2>3. \A e \in Devices \ {d} : mread'[e] = mread[e]
    <3>1. TAKE e \in Devices \ {d}
    <3>2. \E read, C : ReceiveMarketPage(d, read, C)
      BY <1>2 DEF PullMarketPage, PullFirstMarketPage, PullNextMarketPage
    <3> QED BY <3>2, MarketPageFrame DEF Devices
  <2> QED BY <1>2, <2>2, <2>3 DEF PullMarketPage, fenceVars, deviceVars, FenceTypeOK, DeviceTypeOK
<1>3. CASE SealPull(d)
  <2>1. mread[d].upper \in Nat
    BY DEF MarketTypeOK, MarketRead, Devices
  <2> QED BY <1>3, <2>1 DEF SealPull, SealSyncPull, marketVars, MarketTypeOK,
     FenceTypeOK, DeviceTypeOK, Phases, NoCursor, NotGot, NoTime
<1>4. ASSUME NEW t \in Streams, PullPage(d, t) PROVE TypeOK'
  <2> DEFINE rem == Remaining(t, from[d], upper[d], cursor[d])
  <2>1. PICK page \in SUBSET rem :
          /\ got' = [got EXCEPT ![d] =
               [i \in Items |-> IF i \in page THEN feed[i].image ELSE got[d][i]]]
          /\ IF Cardinality(rem) = Cardinality(page)
             THEN /\ todo' = [todo EXCEPT ![d] = @ \ {t}]
                  /\ stream' = [stream EXCEPT ![d] = "none"]
                  /\ cursor' = [cursor EXCEPT ![d] = NoCursor]
             ELSE \E x \in page :
                  /\ stream' = [stream EXCEPT ![d] = t]
                  /\ cursor' = [cursor EXCEPT ![d] = KeyOf(x)]
                  /\ UNCHANGED todo
    BY <1>4 DEF PullPage
  <2>2. \A x \in rem : KeyOf(x) \in [at : Nat, id : Nat]
    BY FenceAssumption DEF Remaining, KeyOf, FenceTypeOK, Items
  <2>3. got' \in [Devices -> [Items -> Nat]]
    BY <2>1 DEF DeviceTypeOK, FenceTypeOK
  <2>4. /\ todo' \in [Devices -> SUBSET Streams]
        /\ stream' \in [Devices -> Streams \cup {"none"}]
        /\ cursor' \in [Devices -> [at : Nat, id : Nat]]
        /\ \A e \in Devices \ {d} : todo'[e] = todo[e] /\ stream'[e] = stream[e]
        /\ stream'[d] \in todo'[d] \cup {"none"}
    <3>1. CASE Cardinality(rem) = Cardinality(page)
      <4>1. /\ todo' = [todo EXCEPT ![d] = todo[d] \ {t}]
            /\ stream' = [stream EXCEPT ![d] = "none"]
            /\ cursor' = [cursor EXCEPT ![d] = NoCursor]
        BY <2>1, <3>1
      <4>2. NoCursor \in [at : Nat, id : Nat]
        BY DEF NoCursor, NoTime
      <4> QED BY <4>1, <4>2 DEF DeviceTypeOK
    <3>2. CASE Cardinality(rem) # Cardinality(page)
      <4>1. PICK x \in page :
                  /\ stream' = [stream EXCEPT ![d] = t]
                  /\ cursor' = [cursor EXCEPT ![d] = KeyOf(x)]
                  /\ UNCHANGED todo
        BY <2>1, <3>2
      <4>2. t \in todo[d]
        BY <1>4 DEF PullPage, MayRead
      <4> QED BY <4>1, <4>2, <2>2 DEF DeviceTypeOK
    <3> QED BY <3>1, <3>2
  <2>5. DeviceTypeOK'
    BY <1>4, <2>3, <2>4 DEF PullPage, MayRead, DeviceTypeOK
  <2> QED BY <1>4, <2>5 DEF PullPage, serverVars, marketVars, fenceVars, MarketTypeOK, FenceTypeOK
<1>5. CASE ApplyPull(d)
  <2>1. \A i \in TableRows : Merged(d, i) \in Nat
    BY DEF Merged, DeviceTypeOK, TableRows, Items
  <2>2. mread[d].got \in SUBSET Snapshots
    BY DEF MarketTypeOK, MarketRead, Devices
  <2>3. DeviceTypeOK'
    <3>1. replica' \in [Devices -> [TableRows -> Nat]]
      BY <1>5, <2>1 DEF ApplyPull, DeviceTypeOK
    <3>2. rates' \in [Devices -> SUBSET Snapshots]
      BY <1>5, <2>2 DEF ApplyPull, DeviceTypeOK
    <3>3. phase' \in [Devices -> Phases] /\ phase'[d] = "applied"
          /\ \A e \in Devices \ {d} : phase'[e] = phase[e]
      BY <1>5 DEF ApplyPull, DeviceTypeOK, Phases
    <3>4. todo[d] = {} /\ stream[d] = "none"
      BY <1>5 DEF ApplyPull, DeviceTypeOK
    <3> QED BY <1>5, <3>1, <3>2, <3>3, <3>4 DEF ApplyPull, DeviceTypeOK
  <2> QED BY <1>5, <2>3 DEF ApplyPull, serverVars, marketVars, fenceVars, MarketTypeOK, FenceTypeOK
<1>6. ASSUME CheckpointPull(d) \/ FailPull(d) PROVE TypeOK'
  <2>1. MarketTypeOK'
    BY <1>6, ForgetType DEF CheckpointPull, FailPull, serverVars
  <2>2. FenceTypeOK'
    BY <1>6 DEF CheckpointPull, FailPull, serverVars, fenceVars, FenceTypeOK
  <2>3. DeviceTypeOK'
    <3>1. Forget(d) /\ UNCHANGED <<replica, rates>>
      BY <1>6 DEF CheckpointPull, FailPull
    <3>2. /\ phase' \in [Devices -> Phases]
          /\ phase'[d] = "idle"
          /\ \A e \in Devices \ {d} : phase'[e] = phase[e]
      BY <3>1 DEF Forget, DeviceTypeOK, Phases
    <3>3. last' \in [Devices -> Nat] /\ \A e \in Devices \ {d} : last'[e] = last[e]
      BY <1>6 DEF CheckpointPull, FailPull, DeviceTypeOK
    <3>4. /\ from' \in [Devices -> Nat] /\ upper' \in [Devices -> Nat]
          /\ from'[d] = NoTime
          /\ \A e \in Devices \ {d} : from'[e] = from[e]
      BY <3>1 DEF Forget, DeviceTypeOK, NoTime
    <3>5. /\ todo' \in [Devices -> SUBSET Streams]
          /\ stream' \in [Devices -> Streams \cup {"none"}]
          /\ todo'[d] = {} /\ stream'[d] = "none"
          /\ \A e \in Devices \ {d} : todo'[e] = todo[e] /\ stream'[e] = stream[e]
      BY <3>1 DEF Forget, DeviceTypeOK
    <3>6. cursor' \in [Devices -> [at : Nat, id : Nat]]
      BY <3>1 DEF Forget, DeviceTypeOK, NoCursor, NoTime
    <3>7. got' \in [Devices -> [Items -> Nat]]
      BY <3>1 DEF Forget, DeviceTypeOK, NotGot
    <3>8. mread'[d] = NoRead /\ \A e \in Devices \ {d} : mread'[e] = mread[e]
      BY <3>1 DEF Forget, MarketTypeOK, Devices
    <3> QED BY <3>1, <3>2, <3>3, <3>4, <3>5, <3>6, <3>7, <3>8 DEF DeviceTypeOK
  <2> QED BY <2>1, <2>2, <2>3
<1> QED BY <1>1, <1>2, <1>3, <1>4, <1>5, <1>6 DEF DeviceStep

\* Every step keeps the types.
LEMMA TypeNext == ASSUME TypeOK, [Next]_pullVars PROVE TypeOK'
<1>1. CASE UNCHANGED pullVars
  BY <1>1 DEF pullVars, serverVars, marketVars, fenceVars, deviceVars, TypeOK,
     MarketTypeOK, FenceTypeOK, DeviceTypeOK
<1> QED BY <1>1, TypeServer, TypeDevice DEF Next

\* Every variable of the server and of the devices stays in its type, an attempt
\* leaves nothing behind when it ends, and a transaction that shares no fence has
\* written nothing.
THEOREM TypeCorrect == Spec => []TypeOK
<1>1. TypeOK /\ [Next]_pullVars => TypeOK'
  BY TypeNext
<1> QED BY TypeInit, <1>1, PTL DEF Spec

-----------------------------------------------------------------------------
(* The inductive invariant, in parts. *)

\* What an open writer has read and stamped still holds: no seal can move the
\* watermark under its fence.
FenceInv ==
  /\ sealed <= market
  /\ \A w \in fence : floor[w] = sealed
  /\ \A w \in Writers, i \in Items :
       pending[w][i] # NoTime => pending[w][i] > sealed
  /\ \A i \in Items : feed[i].image > 0 => feed[i].at > NoTime

\* The same for the barrier of the publications: whoever has chosen a
\* publication time holds the barrier alone, above its watermark.
MarketInv ==
  /\ \A p, q \in mlock : p = q
  /\ \A p \in Publishers :
       /\ mtx[p].step # "idle" => mtx[p].snap \in Snapshots
       /\ mtx[p].step = "locked" => p \in mlock
       /\ mtx[p].pub # NoTime =>
            /\ p \in mlock
            /\ mtx[p].pub > market
            /\ Parts \subseteq SeenBy(p, mtx[p].snap)
  /\ \A s \in Snapshots : published[s] # NoTime => parts[s] = Parts

\* The watermarks that meet in a device, in their order.
Cut(d) ==
  /\ last[d] <= sealed
  /\ mread[d].upper <= market
  /\ mread[d].step # "idle" =>
       last[d] <= mread[d].upper /\ mread[d].start = from[d]
  /\ phase[d] \in {"pages", "applied"} =>
       /\ mread[d].step = "done"
       /\ upper[d] = mread[d].upper
       /\ upper[d] <= sealed

\* Row i is behind the cursor of device d.
ReadPast(d, i) ==
  \/ i[1] \notin todo[d]
  \/ stream[d] = i[1] /\ ~Beyond(i, cursor[d])

\* The pages received so far hold everything behind the cursor as it is now,
\* nothing older than the window, and no row whose deletion they could miss.
Window(d) ==
  /\ stream[d] = "none" => cursor[d] = NoCursor
  /\ \A i \in Items :
       /\ (/\ Visible(i)
           /\ from[d] < feed[i].at
           /\ feed[i].at <= upper[d]
           /\ ReadPast(d, i)) => got[d][i] = feed[i].image
       /\ got[d][i] > 0 => feed[i].image > 0 /\ feed[i].at > from[d]
  /\ \A s \in Snaps :
       (got[d][<<"snapshot", s>>] > 0 /\ feed[<<"journal", s>>].image > 0)
         => feed[<<"journal", s>>].at > upper[d]

\* The same for the pages of the market pull.
MarketWindow(d) ==
  mread[d].step # "idle" =>
    \A s \in Snapshots :
      (/\ mread[d].start < published[s]
       /\ published[s] <= mread[d].upper
       /\ mread[d].step = "done" \/ ~After(s, mread[d].at, mread[d].id))
        => s \in mread[d].got

\* A device never holds an image the server has not had, nor receives one older
\* than its own.
Images(d) ==
  \A r \in Rows :
    LET i == <<"ordinary", r>>
    IN /\ replica[d][i] <= feed[i].image
       /\ got[d][i] <= feed[i].image
       /\ got[d][i] > 0 => replica[d][i] <= got[d][i]

\* What is stored is complete up to the checkpoint, and once the pages are
\* applied up to the watermark the checkpoint is about to take.
DeviceInv(d) ==
  /\ Cut(d)
  /\ phase[d] \in {"pages", "applied"} => Window(d)
  /\ MarketWindow(d)
  /\ Images(d)
  /\ HoldsRows(d, last[d])
  /\ HoldsRates(d, last[d])
  /\ phase[d] = "applied" => HoldsRows(d, upper[d]) /\ HoldsRates(d, upper[d])

IInv ==
  /\ TypeOK
  /\ FenceInv
  /\ MarketInv
  /\ \A d \in Devices : DeviceInv(d)

-----------------------------------------------------------------------------
(* What a step may do to the server, whoever takes it. *)

\* Watermarks only rise, and whatever becomes visible is above them.
Grows ==
  /\ sealed <= sealed'
  /\ market <= market'
  /\ \A i \in Items :
       \/ feed'[i] = feed[i]
       \/ feed'[i].at > sealed /\ feed'[i].image = feed[i].image + 1
  /\ \A s \in Snapshots : published'[s] = published[s] \/ published'[s] > market

\* The invariant holds initially.
LEMMA InitInv == Init => IInv
<1> SUFFICES ASSUME Init PROVE IInv
  OBVIOUS
<1>1. TypeOK
  BY TypeInit
<1>2. FenceInv
  <2>1. /\ sealed = 0 /\ fence = {}
        /\ \A w \in Writers, i \in Items : pending[w][i] = 0
        /\ \A i \in Items : feed[i].image = 0
    BY DEF Init, FenceInit, NotWritten, NoTime
  <2> QED BY <1>1, <2>1 DEF FenceInv, NoTime, TypeOK, MarketTypeOK
<1>3. MarketInv
  BY DEF Init, MarketInit, MarketInv, NoTx, Tx, NoTime
<1>4. ASSUME NEW d \in Devices PROVE DeviceInv(d)
  <2>0. mread[d] = NoRead
    BY DEF Init, MarketInit, Devices
  <2>1. /\ phase[d] = "idle" /\ last[d] = 0 /\ mread[d].step = "idle"
        /\ mread[d].upper = 0
        /\ \A i \in TableRows : replica[d][i] = 0
        /\ \A i \in Items : got[d][i] = 0
        /\ \A i \in Items : feed[i].image = 0
        /\ \A s \in Snapshots : published[s] = 0
        /\ sealed = 0
    BY <1>4, <2>0 DEF Init, MarketInit, DeviceInit, FenceInit, NoRead, Read, NotGot, NoTime
  <2>2. \A r \in Rows : <<"ordinary", r>> \in TableRows /\ <<"ordinary", r>> \in Items
    BY DEF TableRows, Items
  <2>3. Images(d)
    <3> SUFFICES ASSUME NEW r \in Rows
                 PROVE  /\ replica[d][<<"ordinary", r>>] <= feed[<<"ordinary", r>>].image
                        /\ got[d][<<"ordinary", r>>] <= feed[<<"ordinary", r>>].image
                        /\ ~(got[d][<<"ordinary", r>>] > 0)
      BY DEF Images
    <3> QED BY <2>1, <2>2
  <2>4. Cut(d)
    BY <2>1, <1>1 DEF Cut, TypeOK, MarketTypeOK
  <2>5. HoldsRows(d, last[d]) /\ HoldsRates(d, last[d])
    BY <2>1 DEF HoldsRows, HoldsRates, Visible, NoTime
  <2> QED BY <2>1, <2>3, <2>4, <2>5 DEF DeviceInv, MarketWindow
<1> QED BY <1>1, <1>2, <1>3, <1>4 DEF IInv

\* A step of the server leaves the devices alone.
LEMMA ServerFrame == ASSUME ServerStep PROVE UNCHANGED <<mread, deviceVars>>
  BY DEF ServerStep, ClockStep, MarketTxStep, BeginMarketTx, WritePart, LockBarrier,
         IncompleteReturn, PublishComplete, CommitMarketTx, AbortMarketTx

\* A step of a device changes the server only by its seal and by the watermark
\* of its first market page.
LEMMA DeviceFrame ==
  ASSUME TypeOK, NEW d \in Devices, DeviceStep(d)
  PROVE  /\ UNCHANGED <<clock, mlock, parts, published, mtx, feed, fence, floor, pending>>
         /\ \/ UNCHANGED <<market, sealed>>
            \/ /\ UNCHANGED market
               /\ SealSyncPull(mread[d].upper)
            \/ /\ UNCHANGED sealed
               /\ mlock = {} /\ TruncMs(clock) >= market /\ market' = TruncMs(clock)
<1> USE DEF serverVars, marketVars, fenceVars
<1>1. CASE \E full \in BOOLEAN : StartPull(d, full)
  BY <1>1 DEF StartPull
<1>2. CASE PullMarketPage(d)
  BY <1>2 DEF PullMarketPage, PullFirstMarketPage, PullNextMarketPage
<1>3. CASE SealPull(d)
  BY <1>3 DEF SealPull, SealSyncPull
<1>4. CASE \E t \in Streams : PullPage(d, t)
  BY <1>4 DEF PullPage
<1>5. CASE ApplyPull(d)
  BY <1>5 DEF ApplyPull
<1>6. CASE CheckpointPull(d) \/ FailPull(d)
  BY <1>6 DEF CheckpointPull, FailPull
<1> QED BY <1>1, <1>2, <1>3, <1>4, <1>5, <1>6 DEF DeviceStep

\* Writers and seals keep the fence: a stamp taken under it stays above the
\* sealed watermark until its transaction ends (082, 085).
LEMMA FenceNext ==
  ASSUME IInv, TypeOK', [Next]_pullVars
  PROVE  FenceInv'
<1> USE DEF IInv, TypeOK
<1>0. /\ sealed \in Nat /\ market \in Nat
      /\ sealed' \in Nat /\ market' \in Nat
  BY DEF FenceTypeOK, MarketTypeOK
<1>1. ASSUME UNCHANGED fenceVars, market <= market' PROVE FenceInv'
  BY <1>0, <1>1 DEF FenceInv, fenceVars
<1>2. ASSUME NEW p \in Publishers, MarketTxStep(p) PROVE market <= market'
  <2>1. CASE CommitMarketTx(p)
    BY <2>1, <1>0 DEF CommitMarketTx, MarketInv, MarketTypeOK, MarketTx
  <2>2. CASE ~CommitMarketTx(p)
    <3>1. market' = market
      BY <1>2, <2>2 DEF MarketTxStep, BeginMarketTx, WritePart, LockBarrier,
         IncompleteReturn, PublishComplete, AbortMarketTx
    <3> QED BY <3>1, <1>0
  <2> QED BY <2>1, <2>2
<1>3. ASSUME NEW w \in Writers, WriterStep(w) PROVE FenceInv'
  <2> USE DEF FenceInv, FenceTypeOK, marketVars
  <2>1. CASE AcquireSyncWriterFence(w)
    BY <2>1 DEF AcquireSyncWriterFence
  <2>2. ASSUME NEW j \in Items, Stamp(w, j) PROVE FenceInv'
    <3>1. clock > sealed /\ clock \in Nat
      BY <2>2 DEF Stamp, WriteTimeReady, MarketTypeOK
    <3>2. \A v \in Writers, i \in Items :
            pending'[v][i] = IF v = w /\ i = j THEN clock ELSE pending[v][i]
      BY <2>2 DEF Stamp
    <3> QED BY <2>2, <3>1, <3>2 DEF Stamp
  <2>3. CASE \E r \in Rows : WriteRow(w, r)
    BY <2>2, <2>3 DEF WriteRow, Items
  <2>4. CASE \E s \in Snaps : InsertSnapshot(w, s) \/ DeleteSnapshot(w, s)
    BY <2>2, <2>4 DEF InsertSnapshot, DeleteSnapshot, Items
  <2>5. CASE CommitTx(w)
    <3>1. \A i \in Items :
            feed'[i] = IF pending[w][i] = NoTime THEN feed[i]
                       ELSE [image |-> feed[i].image + 1, at |-> pending[w][i]]
      BY <2>5 DEF CommitTx
    <3>2. \A i \in Items : feed'[i].image > 0 => feed'[i].at > NoTime
      BY <3>1 DEF NoTime
    <3>3. \A v \in Writers, i \in Items :
            pending'[v][i] # NoTime => pending'[v][i] = pending[v][i]
      BY <2>5 DEF CommitTx, EndTx, NotWritten
    <3>4. \A v \in fence' : v \in fence /\ floor'[v] = floor[v]
      BY <2>5 DEF CommitTx, EndTx
    <3> QED BY <2>5, <3>2, <3>3, <3>4 DEF CommitTx
  <2>6. CASE AbortTx(w)
    <3>1. \A v \in Writers, i \in Items :
            pending'[v][i] # NoTime => pending'[v][i] = pending[v][i]
      BY <2>6 DEF AbortTx, EndTx, NotWritten
    <3>2. \A v \in fence' : v \in fence /\ floor'[v] = floor[v]
      BY <2>6 DEF AbortTx, EndTx
    <3> QED BY <2>6, <3>1, <3>2 DEF AbortTx
  <2> QED BY <1>3, <2>1, <2>3, <2>4, <2>5, <2>6 DEF WriterStep
<1>4. CASE ServerStep
  <2>1. CASE ClockStep /\ UNCHANGED fenceVars
    BY <1>0, <1>1, <2>1 DEF ClockStep, marketVars
  <2> QED BY <1>1, <1>2, <1>3, <1>4, <2>1 DEF ServerStep
<1>5. ASSUME NEW d \in Devices, DeviceStep(d) PROVE FenceInv'
  <2>1. CASE UNCHANGED <<market, sealed>>
    BY <1>0, <1>1, <1>5, <2>1, DeviceFrame DEF fenceVars
  <2>2. CASE UNCHANGED market /\ SealSyncPull(mread[d].upper)
    <3>1. fence = {} /\ fence' = {}
      BY <2>2 DEF SealSyncPull, SealAccepts
    <3>2. \A w \in Writers, i \in Items : pending'[w][i] = NoTime
      BY <1>5, <3>1, DeviceFrame DEF FenceTypeOK, NotWritten
    <3>3. sealed' <= market'
      BY <2>2, <1>0 DEF SealSyncPull, SealAccepts, FenceInv
    <3> QED BY <1>5, <3>1, <3>2, <3>3, DeviceFrame DEF FenceInv
  <2>3. CASE UNCHANGED sealed /\ TruncMs(clock) >= market /\ market' = TruncMs(clock)
    BY <1>0, <1>1, <1>5, <2>3, DeviceFrame DEF fenceVars
  <2> QED BY <1>5, <2>1, <2>2, <2>3, DeviceFrame
<1>6. CASE UNCHANGED pullVars
  BY <1>0, <1>1, <1>6 DEF pullVars, serverVars, marketVars
<1> QED BY <1>4, <1>5, <1>6 DEF Next

\* Publishers and readers keep the publication barrier (072).
LEMMA PublicationNext ==
  ASSUME IInv, TypeOK', [Next]_pullVars
  PROVE  MarketInv'
<1> USE DEF IInv, TypeOK
<1>1. ASSUME UNCHANGED marketVars PROVE MarketInv'
  BY <1>1 DEF MarketInv, marketVars, SeenBy
<1>2. ASSUME NEW p \in Publishers, MarketTxStep(p) PROVE MarketInv'
  <2> USE DEF MarketInv, SeenBy
  <2>0. /\ mtx \in [Publishers -> MarketTx]
        /\ parts \in [Snapshots -> SUBSET Parts]
        /\ mtx[p].wrote \subseteq Parts
        /\ market \in Nat
        /\ mlock \subseteq Publishers
    BY DEF MarketTypeOK, MarketTx
  <2>1. ASSUME NEW s \in Snapshots, BeginMarketTx(p, s) PROVE MarketInv'
    <3>1. /\ mtx'[p].step = "open" /\ mtx'[p].pub = NoTime /\ mtx'[p].snap = s
          /\ \A q \in Publishers \ {p} : mtx'[q] = mtx[q]
      BY <2>0, <2>1 DEF BeginMarketTx, Tx
    <3>2. UNCHANGED <<market, mlock, parts, published>>
      BY <2>1 DEF BeginMarketTx
    <3> QED BY <3>1, <3>2
  <2>2. ASSUME NEW part \in Parts, WritePart(p, part) PROVE MarketInv'
    <3>1. /\ mtx'[p].step # "locked" /\ mtx'[p].pub = mtx[p].pub
          /\ mtx'[p].snap = mtx[p].snap /\ mtx[p].wrote \subseteq mtx'[p].wrote
          /\ \A q \in Publishers \ {p} : mtx'[q] = mtx[q]
      BY <2>0, <2>2 DEF WritePart, Tx
    <3>2. mtx[p].step = "open" /\ UNCHANGED <<market, mlock, parts, published>>
      BY <2>2 DEF WritePart
    <3> QED BY <3>1, <3>2
  <2>3. CASE LockBarrier(p)
    <3>1. /\ mtx'[p].pub = mtx[p].pub /\ mtx'[p].snap = mtx[p].snap
          /\ mtx'[p].wrote = mtx[p].wrote
          /\ \A q \in Publishers \ {p} : mtx'[q] = mtx[q]
      BY <2>0, <2>3 DEF LockBarrier, MarketTx
    <3>2. mtx[p].step = "trigger" /\ mlock' = {p} /\ mlock \subseteq {p} /\ UNCHANGED <<market, parts, published>>
      BY <2>3 DEF LockBarrier
    <3> QED BY <3>1, <3>2
  <2>4. CASE IncompleteReturn(p)
    <3>1. /\ mtx'[p].pub = mtx[p].pub /\ mtx'[p].snap = mtx[p].snap
          /\ mtx'[p].wrote = mtx[p].wrote /\ mtx'[p].step = "open"
          /\ \A q \in Publishers \ {p} : mtx'[q] = mtx[q]
      BY <2>0, <2>4 DEF IncompleteReturn, MarketTx
    <3>2. mtx[p].step = "locked" /\ UNCHANGED <<market, mlock, parts, published>>
      BY <2>4 DEF IncompleteReturn
    <3> QED BY <3>1, <3>2
  <2>5. CASE PublishComplete(p)
    <3>1. /\ mtx'[p].pub = TruncMs(clock) /\ mtx'[p].snap = mtx[p].snap
          /\ mtx'[p].wrote = mtx[p].wrote /\ mtx'[p].step = "open"
          /\ \A q \in Publishers \ {p} : mtx'[q] = mtx[q]
      BY <2>0, <2>5 DEF PublishComplete, Tx
    <3>2. mtx[p].step = "locked" /\ UNCHANGED <<market, mlock, parts, published>>
      BY <2>5 DEF PublishComplete
    <3>3. /\ p \in mlock /\ TruncMs(clock) > market
          /\ SeenBy(p, mtx[p].snap) = Parts
      BY <2>5 DEF PublishComplete
    <3> QED BY <3>1, <3>2, <3>3
  <2>6. CASE CommitMarketTx(p)
    <3>1. /\ mtx'[p].step = "idle" /\ mtx'[p].pub = NoTime
          /\ \A q \in Publishers \ {p} : mtx'[q] = mtx[q]
      BY <2>0, <2>6 DEF CommitMarketTx, NoTx, Tx
    <3>2. \A s \in Snapshots : parts[s] \subseteq parts'[s] /\ parts'[s] \subseteq Parts
      BY <2>0, <2>6 DEF CommitMarketTx, MarketTypeOK
    <3>3. mlock' = mlock \ {p}
      BY <2>6 DEF CommitMarketTx
    <3>4. \A q \in Publishers \ {p} : mtx[q].pub # NoTime => market' = market
      BY <2>6 DEF CommitMarketTx
    <3>5. \A q \in Publishers : mtx[q].pub # NoTime => mtx[q].snap \in Snapshots
      BY DEF MarketTypeOK
    <3>6. \A s \in Snapshots : published'[s] # NoTime => parts'[s] = Parts
      <4>1. CASE mtx[p].pub = NoTime
        BY <2>6, <3>2, <4>1 DEF CommitMarketTx
      <4>2. CASE mtx[p].pub # NoTime
        <5>1. \A s \in Snapshots : s # mtx[p].snap => published'[s] = published[s]
          BY <2>6, <4>2 DEF CommitMarketTx, MarketTypeOK
        <5>2. \A s \in Snapshots : s = mtx[p].snap => Parts \subseteq parts'[s]
          BY <2>0, <2>6, <4>2 DEF CommitMarketTx, MarketTypeOK
        <5> TAKE s \in Snapshots
        <5>3. CASE s = mtx[p].snap
          <6>1. parts'[s] \subseteq Parts /\ Parts \subseteq parts'[s]
            BY <3>2, <5>2, <5>3
          <6> HIDE DEF MarketInv, TypeOK, IInv
          <6> QED BY <6>1
        <5>4. CASE s # mtx[p].snap
          <6>1. published'[s] # NoTime => parts[s] = Parts
            BY <5>1, <5>4
          <6>2. parts[s] \subseteq parts'[s] /\ parts'[s] \subseteq Parts
            BY <3>2
          <6> HIDE DEF MarketInv, TypeOK, IInv
          <6> QED BY <6>1, <6>2
        <5> QED BY <5>3, <5>4
      <4> QED BY <4>1, <4>2
    <3>7. ASSUME NEW q \in Publishers
          PROVE  /\ mtx'[q].step # "idle" => mtx'[q].snap \in Snapshots
                 /\ mtx'[q].step = "locked" => q \in mlock'
                 /\ mtx'[q].pub # NoTime =>
                      /\ q \in mlock'
                      /\ mtx'[q].pub > market'
                      /\ Parts \subseteq SeenBy(q, mtx[q].snap)'
      <4>1. CASE q = p
        BY <3>1, <4>1
      <4>2. CASE q # p
        BY <3>1, <3>2, <3>3, <3>4, <3>5, <4>2
      <4> QED BY <4>1, <4>2
    <3>8. \A q, r \in mlock' : q = r
      BY <3>3
    <3> QED BY <3>6, <3>7, <3>8
  <2>7. CASE AbortMarketTx(p)
    <3>1. /\ mtx'[p].step = "idle" /\ mtx'[p].pub = NoTime
          /\ \A q \in Publishers \ {p} : mtx'[q] = mtx[q]
      BY <2>0, <2>7 DEF AbortMarketTx, NoTx, Tx
    <3>2. mlock' = mlock \ {p} /\ UNCHANGED <<market, parts, published>>
      BY <2>7 DEF AbortMarketTx
    <3> QED BY <3>1, <3>2
  <2> QED BY <1>2, <2>1, <2>2, <2>3, <2>4, <2>5, <2>6, <2>7 DEF MarketTxStep
<1>3. CASE ServerStep
  <2>1. CASE ClockStep
    BY <1>1, <2>1 DEF ClockStep
  <2>2. ASSUME NEW w \in Writers, WriterStep(w) PROVE UNCHANGED marketVars
    BY <2>2 DEF WriterStep, AcquireSyncWriterFence, WriteRow, InsertSnapshot,
       DeleteSnapshot, Stamp, CommitTx, AbortTx
  <2> QED BY <1>1, <1>2, <1>3, <2>1, <2>2 DEF ServerStep
<1>4. ASSUME NEW d \in Devices, DeviceStep(d) PROVE MarketInv'
  <2>1. CASE UNCHANGED market
    BY <1>1, <1>4, <2>1, DeviceFrame DEF marketVars
  <2>2. CASE mlock = {}
    <3>1. UNCHANGED <<mlock, parts, published, mtx>>
      BY <1>4, DeviceFrame
    <3> QED BY <2>2, <3>1 DEF MarketInv
  <2> QED BY <1>4, <2>1, <2>2, DeviceFrame
<1>5. CASE UNCHANGED pullVars
  BY <1>1, <1>5 DEF pullVars, serverVars
<1> QED BY <1>3, <1>4, <1>5 DEF Next

\* Every step only raises the watermarks and publishes above them.
LEMMA NextGrows ==
  ASSUME IInv, [Next]_pullVars
  PROVE  Grows
<1> USE DEF IInv, TypeOK
<1>0. sealed \in Nat /\ market \in Nat /\ clock \in Nat
  BY DEF FenceTypeOK, MarketTypeOK
<1>1. ASSUME UNCHANGED <<sealed, market, feed, published>> PROVE Grows
  BY <1>0, <1>1 DEF Grows
<1>2. ASSUME NEW p \in Publishers, MarketTxStep(p), UNCHANGED fenceVars PROVE Grows
  <2>1. CASE CommitMarketTx(p)
    <3>1. \A s \in Snapshots : published'[s] = published[s] \/ published'[s] > market
      BY <2>1 DEF CommitMarketTx, MarketInv, MarketTypeOK
    <3>2. market <= market'
      BY <1>0, <2>1 DEF CommitMarketTx, MarketInv, MarketTypeOK, MarketTx
    <3> QED BY <1>0, <1>2, <3>1, <3>2 DEF Grows, fenceVars
  <2>2. CASE ~CommitMarketTx(p)
    <3>1. UNCHANGED <<market, published>>
      BY <1>2, <2>2 DEF MarketTxStep, BeginMarketTx, WritePart, LockBarrier,
         IncompleteReturn, PublishComplete, AbortMarketTx
    <3> QED BY <1>1, <1>2, <3>1 DEF fenceVars
  <2> QED BY <2>1, <2>2
<1>3. ASSUME NEW w \in Writers, WriterStep(w) PROVE Grows
  <2>1. CASE CommitTx(w)
    <3>1. \A i \in Items :
            feed'[i] = IF pending[w][i] = NoTime THEN feed[i]
                       ELSE [image |-> feed[i].image + 1, at |-> pending[w][i]]
      BY <2>1 DEF CommitTx
    <3>2. \A i \in Items :
            \/ feed'[i] = feed[i]
            \/ feed'[i].at > sealed /\ feed'[i].image = feed[i].image + 1
      <4> TAKE i \in Items
      <4>1. CASE pending[w][i] = NoTime
        BY <3>1, <4>1
      <4>2. CASE pending[w][i] # NoTime
        <5>1. feed'[i] = [image |-> feed[i].image + 1, at |-> pending[w][i]]
          BY <3>1, <4>2
        <5> QED BY <4>2, <5>1 DEF FenceInv
      <4> QED BY <4>1, <4>2
    <3> QED BY <1>0, <2>1, <3>2 DEF CommitTx, Grows, marketVars
  <2>2. CASE ~CommitTx(w)
    BY <1>1, <1>3, <2>2 DEF WriterStep, AcquireSyncWriterFence, WriteRow, InsertSnapshot,
       DeleteSnapshot, Stamp, AbortTx, marketVars
  <2> QED BY <2>1, <2>2
<1>4. CASE ServerStep
  <2>1. CASE ClockStep /\ UNCHANGED fenceVars
    BY <1>1, <2>1 DEF ClockStep, marketVars, fenceVars
  <2> QED BY <1>2, <1>3, <1>4, <2>1 DEF ServerStep
<1>5. ASSUME NEW d \in Devices, DeviceStep(d) PROVE Grows
  <2>1. UNCHANGED <<feed, published>>
    BY <1>5, DeviceFrame
  <2>2. sealed <= sealed' /\ market <= market'
    <3>1. mread[d].upper \in Nat /\ TruncMs(clock) \in Nat
      BY <1>0, TruncMsNat DEF MarketTypeOK, MarketRead, Devices
    <3> QED BY <1>0, <1>5, <3>1, DeviceFrame DEF SealSyncPull
  <2> QED BY <2>1, <2>2 DEF Grows
<1>6. CASE UNCHANGED pullVars
  BY <1>1, <1>6 DEF pullVars, serverVars, marketVars, fenceVars
<1> QED BY <1>4, <1>5, <1>6 DEF Next

\* The three kinds of item.
LEMMA ItemShape ==
  /\ \A i \in Items : i[1] \in Streams
  /\ \A i \in Items : i[1] = "ordinary" => i \in TableRows /\ i = <<"ordinary", i[2]>>
  /\ \A i \in Items : i[1] = "snapshot" =>
       /\ i \in TableRows /\ i = <<"snapshot", i[2]>>
       /\ i[2] \in Snaps /\ <<"journal", i[2]>> \in Items
  /\ \A i \in Items : i[1] = "journal" =>
       /\ i = <<"journal", i[2]>> /\ i[2] \in Snaps
       /\ <<"snapshot", i[2]>> \in Items /\ <<"snapshot", i[2]>> \in TableRows
  /\ \A r \in Rows : <<"ordinary", r>> \in TableRows /\ <<"ordinary", r>> \in Items
  /\ \A s \in Snaps : <<"snapshot", s>> \in Items /\ <<"journal", s>> \in Items
  /\ TableRows \subseteq Items
  BY DEF Items, TableRows, Streams

\* A row that is visible at or below the sealed watermark was there before the
\* step, with the same image.
LEMMA OldVisible ==
  ASSUME TypeOK, TypeOK', Grows, NEW i \in Items, Visible(i)', feed'[i].at <= sealed
  PROVE  feed'[i] = feed[i] /\ Visible(i)
<1>1. /\ feed[i].image \in Nat /\ feed'[i].image \in Nat
      /\ feed[i].at \in Nat /\ feed'[i].at \in Nat /\ sealed \in Nat
  BY DEF TypeOK, FenceTypeOK
<1>2. feed'[i] = feed[i]
  BY <1>1 DEF Grows
<1>3. i[1] = "snapshot" => feed[<<"journal", i[2]>>].image = 0
  <2> SUFFICES ASSUME i[1] = "snapshot" PROVE feed[<<"journal", i[2]>>].image = 0
    OBVIOUS
  <2> DEFINE j == <<"journal", i[2]>>
  <2>1. j \in Items
    BY ItemShape
  <2>2. feed'[j].image = 0 /\ feed[j].image \in Nat
    BY <2>1 DEF Visible, TypeOK, FenceTypeOK
  <2> QED BY <2>1, <2>2 DEF Grows
<1> QED BY <1>2, <1>3 DEF Visible

\* What a device holds up to a sealed watermark no writer can outdate.
LEMMA HoldsRowsStays ==
  ASSUME TypeOK, TypeOK', Grows, NEW d \in Devices, NEW t \in Nat, t <= sealed,
         replica'[d] = replica[d], HoldsRows(d, t)
  PROVE  \A i \in Items : (Visible(i)' /\ feed'[i].at <= t) => DeliveredTo(d, i)'
<1> SUFFICES ASSUME NEW i \in Items, Visible(i)', feed'[i].at <= t
             PROVE  DeliveredTo(d, i)'
  OBVIOUS
<1>1. feed'[i].at \in Nat /\ sealed \in Nat
  BY DEF TypeOK, FenceTypeOK
<1>2. feed'[i] = feed[i] /\ Visible(i)
  BY <1>1, OldVisible
<1> QED BY <1>2 DEF HoldsRows, DeliveredTo

\* The same for market snapshots.
LEMMA HoldsRatesStays ==
  ASSUME TypeOK, TypeOK', Grows, NEW d \in Devices, NEW t \in Nat, t <= market,
         rates[d] \subseteq rates'[d], HoldsRates(d, t)
  PROVE  \A s \in Snapshots :
           (published'[s] # NoTime /\ published'[s] <= t) => s \in rates'[d]
<1>1. \A s \in Snapshots : published'[s] \in Nat
  BY DEF TypeOK, MarketTypeOK
<1>2. market \in Nat
  BY DEF TypeOK, MarketTypeOK
<1> QED BY <1>1, <1>2 DEF Grows, HoldsRates

\* A step that leaves a device's variables alone keeps its invariant, whatever
\* else it does on the server.
LEMMA SameDevice ==
  ASSUME IInv, TypeOK', FenceInv', Grows, NEW e \in Devices,
         phase'[e] = phase[e], last'[e] = last[e], from'[e] = from[e],
         upper'[e] = upper[e], todo'[e] = todo[e], stream'[e] = stream[e],
         cursor'[e] = cursor[e], got'[e] = got[e], replica'[e] = replica[e],
         rates'[e] = rates[e], mread'[e] = mread[e]
  PROVE  DeviceInv(e)'
<1>0. /\ sealed \in Nat /\ market \in Nat /\ sealed' \in Nat /\ market' \in Nat
      /\ last[e] \in Nat /\ upper[e] \in Nat /\ from[e] \in {0, last[e]}
      /\ mread[e].upper \in Nat /\ mread[e].start \in Nat /\ mread[e].at \in Nat
      /\ TypeOK /\ DeviceInv(e)
      /\ sealed <= market
      /\ last[e] <= sealed
      /\ phase[e] \in {"pages", "applied"} => upper[e] <= sealed
      /\ mread[e].upper <= market
  BY DEF IInv, DeviceInv, Cut, FenceInv, TypeOK, FenceTypeOK, MarketTypeOK,
         DeviceTypeOK, MarketRead, Devices, NoTime
<1>1. Cut(e)'
  <2>1. sealed <= sealed' /\ market <= market'
    BY DEF Grows
  <2> QED BY <1>0, <2>1 DEF DeviceInv, Cut
<1>2. ASSUME phase[e] \in {"pages", "applied"} PROVE Window(e)'
  <2>1. Window(e) /\ upper[e] <= sealed /\ from[e] <= sealed
    BY <1>0, <1>2 DEF DeviceInv
  <2>2. (stream[e] = "none" => cursor[e] = NoCursor)'
    BY <2>1 DEF Window
  <2>3. ASSUME NEW i \in Items,
               Visible(i)', from[e] < feed'[i].at, feed'[i].at <= upper[e],
               ReadPast(e, i)'
        PROVE  got'[e][i] = feed'[i].image
    <3>1. feed'[i] = feed[i] /\ Visible(i)
      BY <1>0, <2>1, <2>3, OldVisible DEF TypeOK, FenceTypeOK
    <3>2. ReadPast(e, i)
      BY <2>3, <3>1 DEF ReadPast, Beyond
    <3> QED BY <2>1, <2>3, <3>1, <3>2 DEF Window
  <2>4. ASSUME NEW i \in Items, got'[e][i] > 0
        PROVE  feed'[i].image > 0 /\ feed'[i].at > from[e]
    <3>1. feed[i].image > 0 /\ feed[i].at > from[e]
      BY <2>1, <2>4 DEF Window
    <3>2. /\ feed[i].image \in Nat /\ feed'[i].image \in Nat
          /\ feed[i].at \in Nat /\ feed'[i].at \in Nat
      BY <1>0 DEF TypeOK, FenceTypeOK
    <3> QED BY <1>0, <2>1, <3>1, <3>2 DEF Grows
  <2>5. ASSUME NEW s \in Snaps, got'[e][<<"snapshot", s>>] > 0,
               feed'[<<"journal", s>>].image > 0
        PROVE  feed'[<<"journal", s>>].at > upper[e]
    <3> DEFINE j == <<"journal", s>>
    <3>1. j \in Items
      BY ItemShape
    <3>2. feed[j].at \in Nat /\ feed'[j].at \in Nat
      BY <1>0, <3>1 DEF TypeOK, FenceTypeOK
    <3>3. CASE feed'[j] = feed[j]
      BY <2>1, <2>5, <3>3 DEF Window
    <3>4. CASE feed'[j].at > sealed
      BY <1>0, <2>1, <3>2, <3>4
    <3> QED BY <3>1, <3>3, <3>4 DEF Grows
  <2> QED BY <2>2, <2>3, <2>4, <2>5 DEF Window
<1>3. MarketWindow(e)'
  <2>1. \A s \in Snapshots : published'[s] \in Nat
    BY <1>0 DEF TypeOK, MarketTypeOK
  <2>2. \A s \in Snapshots : published'[s] <= mread[e].upper => published'[s] = published[s]
    BY <1>0, <2>1 DEF Grows
  <2>3. MarketWindow(e)
    BY <1>0 DEF DeviceInv
  <2> QED BY <2>2, <2>3 DEF MarketWindow, After
<1>4. Images(e)'
  <2> SUFFICES ASSUME NEW r \in Rows
               PROVE  /\ replica[e][<<"ordinary", r>>] <= feed'[<<"ordinary", r>>].image
                      /\ got[e][<<"ordinary", r>>] <= feed'[<<"ordinary", r>>].image
                      /\ got[e][<<"ordinary", r>>] > 0 =>
                           replica[e][<<"ordinary", r>>] <= got[e][<<"ordinary", r>>]
    BY DEF Images
  <2> DEFINE i == <<"ordinary", r>>
  <2>1. i \in Items /\ i \in TableRows
    BY ItemShape
  <2>2. /\ feed[i].image \in Nat /\ feed'[i].image \in Nat
        /\ replica[e][i] \in Nat /\ got[e][i] \in Nat
    BY <1>0, <2>1 DEF TypeOK, FenceTypeOK, DeviceTypeOK
  <2>3. /\ replica[e][i] <= feed[i].image
        /\ got[e][i] <= feed[i].image
        /\ got[e][i] > 0 => replica[e][i] <= got[e][i]
    BY <1>0 DEF DeviceInv, Images
  <2>4. feed[i].image <= feed'[i].image
    BY <2>1, <2>2 DEF Grows
  <2> QED BY <2>2, <2>3, <2>4
<1>5. HoldsRows(e, last[e])' /\ HoldsRates(e, last[e])'
  BY <1>0, HoldsRowsStays, HoldsRatesStays DEF DeviceInv, HoldsRows, HoldsRates
<1>6. ASSUME phase[e] = "applied"
      PROVE  HoldsRows(e, upper[e])' /\ HoldsRates(e, upper[e])'
  <2>1. upper[e] <= sealed /\ upper[e] <= market
    BY <1>0, <1>6
  <2>2. HoldsRows(e, upper[e]) /\ HoldsRates(e, upper[e])
    BY <1>0, <1>6 DEF DeviceInv
  <2> QED BY <1>0, <2>1, <2>2, HoldsRowsStays, HoldsRatesStays DEF HoldsRows, HoldsRates
<1> QED BY <1>1, <1>2, <1>3, <1>4, <1>5, <1>6 DEF DeviceInv

-----------------------------------------------------------------------------
(* What each step of a pull does for the device that takes it. *)

\* Starting a pull.
LEMMA StartStep ==
  ASSUME IInv, NEW d \in Devices, NEW full \in BOOLEAN, StartPull(d, full)
  PROVE  DeviceInv(d)'
<1>1. /\ phase[d] = "idle" /\ phase'[d] = "market"
      /\ UNCHANGED <<sealed, market, feed, published, mread, last, replica, rates, got>>
  BY DEF StartPull, serverVars, fenceVars, marketVars, IInv, TypeOK, DeviceTypeOK
<1>2. mread[d].step = "idle"
  BY <1>1 DEF IInv, TypeOK, DeviceTypeOK, NoRead, Read
<1>3. DeviceInv(d)
  BY DEF IInv
<1>4. Cut(d)'
  BY <1>1, <1>2, <1>3 DEF DeviceInv, Cut
<1>5. Images(d)' /\ MarketWindow(d)'
  BY <1>1, <1>2, <1>3 DEF DeviceInv, Images, MarketWindow
<1>6. HoldsRows(d, last[d])' /\ HoldsRates(d, last[d])'
  BY <1>1, <1>3 DEF DeviceInv, HoldsRows, HoldsRates, Visible, DeliveredTo
<1> QED BY <1>1, <1>4, <1>5, <1>6 DEF DeviceInv

\* A market page holds everything up to the new cursor.
LEMMA MarketPageGives ==
  ASSUME MarketTypeOK, NEW r \in Readers, NEW read \in MarketRead,
         NEW C \in SUBSET Snapshots, ReceiveMarketPage(r, read, C)
  PROVE  /\ mread'[r].step \in {"done", "paging"}
         /\ mread'[r].start = read.start /\ mread'[r].upper = read.upper
         /\ read.got \subseteq mread'[r].got
         /\ \A s \in C :
              (mread'[r].step = "done" \/ ~After(s, mread'[r].at, mread'[r].id))
                => s \in mread'[r].got
<1>1. PICK page \in SUBSET C :
        /\ IsMarketPage(page, C)
        /\ IF page = C
           THEN mread' = [mread EXCEPT ![r] =
                  Read("done", read.start, read.upper, read.at, read.id, read.got \cup page)]
           ELSE \E lst \in page :
                  mread' = [mread EXCEPT ![r] =
                         Read("paging", read.start, read.upper,
                              published[lst], lst, read.got \cup page)]
  BY DEF ReceiveMarketPage
<1>2. CASE page = C
  <2>1. mread'[r] = Read("done", read.start, read.upper, read.at, read.id, read.got \cup C)
    BY <1>1, <1>2 DEF MarketTypeOK
  <2> QED BY <2>1 DEF Read
<1>3. CASE page # C
  <2>1. PICK lst \in page :
          mread'[r] = Read("paging", read.start, read.upper,
                           published[lst], lst, read.got \cup page)
    BY <1>1, <1>3 DEF MarketTypeOK
  <2>2. \A s \in C \ page : After(s, published[lst], lst)
    BY <1>1 DEF IsMarketPage
  <2> QED BY <2>1, <2>2 DEF Read
<1> QED BY <1>2, <1>3

\* Receiving a market page, first or later.
LEMMA MarketPageStep ==
  ASSUME IInv, Grows, TypeOK', NEW d \in Devices, PullMarketPage(d)
  PROVE  DeviceInv(d)'
<1>0. /\ TypeOK /\ MarketTypeOK /\ DeviceInv(d) /\ d \in Readers
      /\ sealed \in Nat /\ market \in Nat /\ market' \in Nat /\ last[d] \in Nat
      /\ sealed <= market /\ last[d] <= sealed /\ market <= market'
  BY DEF IInv, TypeOK, MarketTypeOK, FenceTypeOK, DeviceTypeOK, FenceInv,
         DeviceInv, Cut, Grows, Devices
<1>1. /\ phase[d] = "market"
      /\ UNCHANGED <<sealed, feed, published, phase, last, from, replica, rates, got>>
  BY DEF PullMarketPage, PullFirstMarketPage, PullNextMarketPage, fenceVars,
         deviceVars, marketVars
<1>2. /\ mread'[d].step # "idle"
      /\ mread'[d].start = from[d]
      /\ mread'[d].upper <= market' /\ last[d] <= mread'[d].upper
      /\ MarketWindow(d)'
  <2>1. CASE PullFirstMarketPage(d, from[d])
    <3> DEFINE u == TruncMs(clock)
               read == Read("idle", from[d], u, NoTime, 0, {})
               C == {s \in Candidates(u, NoTime, 0) : published[s] > from[d]}
    <3>1. /\ u \in Nat /\ from[d] \in Nat
          /\ u >= market /\ market' = u
      BY <1>0, <2>1, TruncMsNat DEF PullFirstMarketPage, MarketTypeOK, TypeOK, DeviceTypeOK
    <3>2. read \in MarketRead
      BY <3>1 DEF Read, MarketRead, NoTime
    <3>3. C \in SUBSET Snapshots
      BY DEF Candidates
    <3>4. ReceiveMarketPage(d, read, C)
      BY <2>1 DEF PullFirstMarketPage
    <3>5. read.start = from[d] /\ read.upper = u
      BY DEF Read
    <3> HIDE DEF read
    <3>6. \A s \in Snapshots : (from[d] < published[s] /\ published[s] <= u) => s \in C
      <4> SUFFICES ASSUME NEW s \in Snapshots, from[d] < published[s], published[s] <= u
                   PROVE  s \in C
        OBVIOUS
      <4>1. published[s] \in Nat
        BY <1>0 DEF MarketTypeOK
      <4>2. published[s] # NoTime /\ published[s] > NoTime
        BY <3>1, <4>1 DEF NoTime
      <4>3. parts[s] = Parts
        BY <4>2 DEF IInv, MarketInv
      <4> QED BY <4>2, <4>3 DEF Candidates, After
    <3> HIDE DEF C
    <3>7. /\ mread'[d].step \in {"done", "paging"}
          /\ mread'[d].start = from[d] /\ mread'[d].upper = u
          /\ \A s \in C :
               (mread'[d].step = "done" \/ ~After(s, mread'[d].at, mread'[d].id))
                 => s \in mread'[d].got
      BY <1>0, <3>2, <3>3, <3>4, <3>5, MarketPageGives
    <3>8. MarketWindow(d)'
      BY <1>1, <3>6, <3>7 DEF MarketWindow, After
    <3> QED BY <1>0, <3>1, <3>7, <3>8
  <2>2. CASE PullNextMarketPage(d)
    <3> DEFINE read == mread[d]
               C == Candidates(read.upper, read.at, read.id)
    <3>1. read \in MarketRead /\ read.step # "idle" /\ read.start = from[d]
          /\ last[d] <= read.upper /\ read.upper <= market /\ read.upper \in Nat
      BY <1>0, <2>2 DEF PullNextMarketPage, MarketTypeOK, DeviceInv, Cut, MarketRead
    <3>2. C \in SUBSET Snapshots
      BY DEF Candidates
    <3>3. ReceiveMarketPage(d, read, C)
      BY <2>2 DEF PullNextMarketPage
    <3>4. ASSUME NEW s \in Snapshots, from[d] < published[s], published[s] <= read.upper
          PROVE  s \in C \/ s \in read.got
      <4>1. published[s] \in Nat /\ from[d] \in Nat
        BY <1>0 DEF MarketTypeOK, TypeOK, DeviceTypeOK
      <4>2. parts[s] = Parts /\ published[s] # NoTime
        BY <3>4, <4>1 DEF IInv, MarketInv, NoTime
      <4>3. CASE After(s, read.at, read.id)
        BY <3>4, <4>2, <4>3 DEF Candidates
      <4>4. CASE ~After(s, read.at, read.id)
        BY <1>0, <3>1, <3>4, <4>4 DEF DeviceInv, MarketWindow
      <4> QED BY <4>3, <4>4
    <3> HIDE DEF C
    <3>5. /\ mread'[d].step \in {"done", "paging"}
          /\ mread'[d].start = read.start /\ mread'[d].upper = read.upper
          /\ read.got \subseteq mread'[d].got
          /\ \A s \in C :
               (mread'[d].step = "done" \/ ~After(s, mread'[d].at, mread'[d].id))
                 => s \in mread'[d].got
      BY <1>0, <3>1, <3>2, <3>3, MarketPageGives
    <3>6. MarketWindow(d)'
      BY <1>1, <3>1, <3>4, <3>5 DEF MarketWindow, After
    <3> QED BY <1>0, <3>1, <3>5, <3>6
  <2> QED BY <2>1, <2>2 DEF PullMarketPage
<1>3. Cut(d)'
  BY <1>0, <1>1, <1>2 DEF Cut
<1>4. Images(d)'
  BY <1>0, <1>1 DEF DeviceInv, Images
<1>5. HoldsRows(d, last[d])' /\ HoldsRates(d, last[d])'
  BY <1>0, <1>1 DEF DeviceInv, HoldsRows, HoldsRates, Visible, DeliveredTo
<1> QED BY <1>1, <1>2, <1>3, <1>4, <1>5 DEF DeviceInv

\* The seal opens an empty window.
LEMMA SealStep ==
  ASSUME IInv, Grows, TypeOK', NEW d \in Devices, SealPull(d)
  PROVE  DeviceInv(d)'
<1>0. /\ TypeOK /\ DeviceInv(d)
      /\ sealed \in Nat /\ sealed' \in Nat /\ last[d] \in Nat /\ mread[d].upper \in Nat
      /\ sealed <= sealed' /\ last[d] <= sealed
  BY DEF IInv, TypeOK, MarketTypeOK, FenceTypeOK, DeviceTypeOK, DeviceInv, Cut,
         Grows, Devices, MarketRead
<1>1. /\ phase[d] = "market" /\ mread[d].step = "done"
      /\ phase'[d] = "pages" /\ upper'[d] = mread[d].upper
      /\ todo'[d] = Streams /\ cursor'[d] = NoCursor
      /\ \A i \in Items : got'[d][i] = 0
      /\ sealed' >= mread[d].upper
      /\ UNCHANGED <<market, feed, published, mread, last, from, stream, replica, rates>>
  BY <1>0 DEF SealPull, SealSyncPull, marketVars, NotGot, TypeOK, DeviceTypeOK
<1>2. stream[d] = "none"
  BY <1>1 DEF IInv, TypeOK, DeviceTypeOK
<1>3. Cut(d)'
  BY <1>0, <1>1 DEF DeviceInv, Cut
<1>4. Window(d)'
  <2>1. \A i \in Items : ~ReadPast(d, i)'
    BY <1>1, <1>2, ItemShape DEF ReadPast, Streams
  <2> QED BY <1>1, <2>1, ItemShape DEF Window
<1>5. Images(d)'
  <2> SUFFICES ASSUME NEW r \in Rows
               PROVE  /\ replica'[d][<<"ordinary", r>>] <= feed'[<<"ordinary", r>>].image
                      /\ got'[d][<<"ordinary", r>>] <= feed'[<<"ordinary", r>>].image
                      /\ ~(got'[d][<<"ordinary", r>>] > 0)
    BY DEF Images
  <2>1. replica[d][<<"ordinary", r>>] <= feed[<<"ordinary", r>>].image
    BY <1>0 DEF DeviceInv, Images
  <2>2. feed[<<"ordinary", r>>].image \in Nat
    BY <1>0, ItemShape DEF TypeOK, FenceTypeOK
  <2> QED BY <1>1, <2>1, <2>2, ItemShape
<1>6. MarketWindow(d)'
  BY <1>0, <1>1 DEF DeviceInv, MarketWindow, After
<1>7. HoldsRows(d, last[d])' /\ HoldsRates(d, last[d])'
  BY <1>0, <1>1 DEF DeviceInv, HoldsRows, HoldsRates, Visible, DeliveredTo
<1> QED BY <1>1, <1>3, <1>4, <1>5, <1>6, <1>7 DEF DeviceInv

\* What a device still has to read of a stream, if its page and the exact count
\* say nothing is left, is in that page.
LEMMA PageIsAll ==
  ASSUME NEW t, NEW lo, NEW hi, NEW key, NEW page \in SUBSET Remaining(t, lo, hi, key),
         Cardinality(Remaining(t, lo, hi, key)) = Cardinality(page)
  PROVE  page = Remaining(t, lo, hi, key)
<1>1. IsFiniteSet({"ordinary"}) /\ IsFiniteSet({"snapshot", "journal"})
  <2>1. {"snapshot", "journal"} = {"snapshot"} \cup {"journal"}
    OBVIOUS
  <2>2. IsFiniteSet({"ordinary"}) /\ IsFiniteSet({"snapshot"}) /\ IsFiniteSet({"journal"})
    BY FS_Singleton
  <2>3. IsFiniteSet({"snapshot"} \cup {"journal"})
    BY <2>2, FS_Union
  <2> QED BY <2>1, <2>2, <2>3
<1>2. IsFiniteSet({"ordinary"} \X Rows) /\ IsFiniteSet({"snapshot", "journal"} \X Snaps)
  BY <1>1, FS_Product, FenceAssumption
<1>3. IsFiniteSet(Items)
  BY <1>2, FS_Union DEF Items
<1>4. Remaining(t, lo, hi, key) \in SUBSET Items
  BY DEF Remaining
<1>5. IsFiniteSet(Remaining(t, lo, hi, key))
  BY <1>3, <1>4, FS_Subset
<1> QED BY <1>5, FS_Subset

\* Receiving a page of the journal or of a table.
LEMMA PageStep ==
  ASSUME IInv, TypeOK', NEW d \in Devices, NEW t \in Streams, PullPage(d, t)
  PROVE  DeviceInv(d)'
<1> DEFINE rem == Remaining(t, from[d], upper[d], cursor[d])
<1>0. /\ TypeOK /\ DeviceInv(d) /\ phase[d] = "pages" /\ Window(d)
      /\ from[d] \in Nat
      /\ \A i \in Items : feed[i].at \in Nat /\ feed[i].image \in Nat
      /\ t \in todo[d] /\ stream[d] \in {"none", t}
      /\ "journal" \in todo[d] => t = "journal"
  BY DEF IInv, DeviceInv, PullPage, MayRead, TypeOK, FenceTypeOK, DeviceTypeOK
<1>1. UNCHANGED <<sealed, market, feed, published, mread, phase, last, from, upper,
                  replica, rates>>
  BY DEF PullPage, serverVars, marketVars, fenceVars
<1>2. PICK page \in SUBSET rem :
        /\ IsPage(page, rem)
        /\ got' = [got EXCEPT ![d] =
             [i \in Items |-> IF i \in page THEN feed[i].image ELSE got[d][i]]]
        /\ IF Cardinality(rem) = Cardinality(page)
           THEN /\ todo' = [todo EXCEPT ![d] = @ \ {t}]
                /\ stream' = [stream EXCEPT ![d] = "none"]
                /\ cursor' = [cursor EXCEPT ![d] = NoCursor]
           ELSE \E x \in page :
                /\ stream' = [stream EXCEPT ![d] = t]
                /\ cursor' = [cursor EXCEPT ![d] = KeyOf(x)]
                /\ UNCHANGED todo
  BY DEF PullPage
<1>3. \A i \in Items : got'[d][i] = IF i \in page THEN feed[i].image ELSE got[d][i]
  BY <1>0, <1>2 DEF TypeOK, DeviceTypeOK
<1>4. \A i \in page : /\ i \in Items /\ i[1] = t /\ Visible(i)
                      /\ feed[i].at > from[d]
  BY DEF Remaining
<1>5. \A i \in Items : i \in rem /\ ReadPast(d, i)' => i \in page
  <2>1. CASE Cardinality(rem) = Cardinality(page)
    BY <2>1, PageIsAll
  <2>2. CASE Cardinality(rem) # Cardinality(page)
    <3>1. PICK x \in page :
                /\ stream' = [stream EXCEPT ![d] = t]
                /\ cursor' = [cursor EXCEPT ![d] = KeyOf(x)]
                /\ UNCHANGED todo
      BY <1>2, <2>2
    <3>2. t \in todo'[d] /\ cursor'[d] = KeyOf(x)
      BY <1>0, <3>1 DEF TypeOK, DeviceTypeOK
    <3>3. \A i \in rem \ page : Beyond(i, KeyOf(x))
      BY <1>2 DEF IsPage
    <3>4. \A i \in rem : i[1] = t
      BY DEF Remaining
    <3> QED BY <1>1, <3>2, <3>3, <3>4 DEF ReadPast, Beyond
  <2> QED BY <2>1, <2>2
<1>6. \A i \in Items : ReadPast(d, i)' => ReadPast(d, i) \/ i[1] = t
  <2>1. todo[d] \ {t} \subseteq todo'[d] /\ stream'[d] \in {"none", t}
    <3>1. CASE Cardinality(rem) = Cardinality(page)
      BY <1>0, <1>2, <3>1 DEF TypeOK, DeviceTypeOK
    <3>2. CASE Cardinality(rem) # Cardinality(page)
      BY <1>0, <1>2, <3>2 DEF TypeOK, DeviceTypeOK
    <3> QED BY <3>1, <3>2
  <2>2. ASSUME NEW i \in Items, ReadPast(d, i)', i[1] # t PROVE ReadPast(d, i)
    <3>1. i[1] \in Streams /\ i[1] # "none"
      BY ItemShape DEF Streams
    <3>2. i[1] \notin todo'[d]
      BY <2>1, <2>2, <3>1 DEF ReadPast
    <3> QED BY <2>1, <2>2, <3>2 DEF ReadPast
  <2> QED BY <2>2
<1>7. Window(d)'
  <2>1. (stream[d] = "none" => cursor[d] = NoCursor)'
    <3>1. CASE Cardinality(rem) = Cardinality(page)
      BY <1>0, <1>2, <3>1 DEF TypeOK, DeviceTypeOK
    <3>2. CASE Cardinality(rem) # Cardinality(page)
      <4>1. stream'[d] = t
        BY <1>0, <1>2, <3>2 DEF TypeOK, DeviceTypeOK
      <4> QED BY <4>1 DEF Streams
    <3> QED BY <3>1, <3>2
  <2>2. ASSUME NEW i \in Items, Visible(i), from[d] < feed[i].at,
               feed[i].at <= upper[d], ReadPast(d, i)'
        PROVE  got'[d][i] = feed[i].image
    <3>1. CASE i \in page
      BY <1>3, <3>1
    <3>2. CASE i \notin page /\ ReadPast(d, i)
      BY <1>0, <1>3, <2>2, <3>2 DEF Window
    <3>3. CASE i \notin page /\ ~ReadPast(d, i)
      <4>1. i[1] = t /\ i \notin rem
        BY <1>5, <1>6, <2>2, <3>3
      <4>2. ~Beyond(i, cursor[d])
        BY <2>2, <4>1 DEF Remaining
      <4>3. stream[d] = "none" => FALSE
        <5>1. ASSUME stream[d] = "none" PROVE FALSE
          <6>1. cursor[d] = NoCursor
            BY <1>0, <5>1 DEF Window
          <6>2. feed[i].at > 0
            BY <1>0, <2>2
          <6> QED BY <4>2, <6>1, <6>2 DEF Beyond, NoCursor, NoTime
        <5> QED BY <5>1
      <4> QED BY <1>0, <3>3, <4>1, <4>2, <4>3 DEF ReadPast
    <3> QED BY <3>1, <3>2, <3>3
  <2>3. ASSUME NEW i \in Items, got'[d][i] > 0
        PROVE  feed[i].image > 0 /\ feed[i].at > from[d]
    BY <1>0, <1>3, <1>4, <2>3 DEF Window, Visible
  <2>4. ASSUME NEW s \in Snaps, got'[d][<<"snapshot", s>>] > 0,
               feed[<<"journal", s>>].image > 0
        PROVE  feed[<<"journal", s>>].at > upper[d]
    <3> DEFINE i == <<"snapshot", s>>
    <3>0. i \in Items
      BY ItemShape
    <3>1. CASE i \in page
      BY <1>4, <2>4, <3>1 DEF Visible
    <3>2. CASE i \notin page
      BY <1>0, <1>3, <2>4, <3>0, <3>2 DEF Window
    <3> QED BY <3>1, <3>2
  <2> QED BY <1>1, <2>1, <2>2, <2>3, <2>4 DEF Window, Visible
<1>8. Cut(d)'
  BY <1>0, <1>1 DEF DeviceInv, Cut
<1>9. Images(d)'
  <2> SUFFICES ASSUME NEW r \in Rows
               PROVE  /\ replica[d][<<"ordinary", r>>] <= feed[<<"ordinary", r>>].image
                      /\ got'[d][<<"ordinary", r>>] <= feed[<<"ordinary", r>>].image
                      /\ got'[d][<<"ordinary", r>>] > 0 =>
                           replica[d][<<"ordinary", r>>] <= got'[d][<<"ordinary", r>>]
    BY <1>1 DEF Images
  <2>1. <<"ordinary", r>> \in Items
    BY ItemShape
  <2> QED BY <1>0, <1>3, <2>1 DEF DeviceInv, Images
<1>10. MarketWindow(d)'
  BY <1>0, <1>1 DEF DeviceInv, MarketWindow, After
<1>11. HoldsRows(d, last[d])' /\ HoldsRates(d, last[d])'
  BY <1>0, <1>1 DEF DeviceInv, HoldsRows, HoldsRates, Visible, DeliveredTo
<1> QED BY <1>0, <1>1, <1>7, <1>8, <1>9, <1>10, <1>11 DEF DeviceInv

\* Storing the pages completes the device up to the watermark.
LEMMA ApplyStep ==
  ASSUME IInv, TypeOK', NEW d \in Devices, ApplyPull(d)
  PROVE  DeviceInv(d)'
<1>0. /\ TypeOK /\ DeviceInv(d) /\ phase[d] = "pages" /\ Window(d)
      /\ todo[d] = {}
      /\ from[d] \in {0, last[d]} /\ upper[d] \in Nat /\ last[d] \in Nat
      /\ \A i \in Items : feed[i].at \in Nat /\ feed[i].image \in Nat
      /\ \A i \in Items : got[d][i] \in Nat
      /\ mread[d].step = "done" /\ mread[d].upper = upper[d] /\ mread[d].start = from[d]
      /\ last[d] <= upper[d]
  BY DEF IInv, DeviceInv, ApplyPull, TypeOK, FenceTypeOK, DeviceTypeOK, NoTime, Cut
<1>1. /\ UNCHANGED <<sealed, market, feed, published, mread, last, from, upper, todo,
                     stream, cursor, got>>
      /\ phase'[d] = "applied"
      /\ \A i \in TableRows : replica'[d][i] = Merged(d, i)
      /\ rates'[d] = rates[d] \cup mread[d].got
  BY <1>0 DEF ApplyPull, serverVars, marketVars, fenceVars, TypeOK, DeviceTypeOK
\* A visible row at or below the watermark is stored.
<1>2. ASSUME NEW i \in Items, Visible(i), feed[i].at <= upper[d]
      PROVE  DeliveredTo(d, i)'
  <2>1. CASE feed[i].at > from[d]
    <3>1. got[d][i] = feed[i].image
      BY <1>0, <1>2, <2>1 DEF Window, ReadPast
    <3>2. got[d][i] > 0
      BY <1>0, <1>2, <3>1 DEF Visible
    <3>3. CASE i[1] = "journal"
      <4>1. i = <<"journal", i[2]>> /\ <<"snapshot", i[2]>> \in TableRows
        BY <3>3, ItemShape
      <4>2. replica'[d][<<"snapshot", i[2]>>] = 0
        BY <1>1, <3>2, <4>1 DEF Merged
      <4> QED BY <3>3, <4>2 DEF DeliveredTo
    <3>4. CASE i[1] # "journal"
      <4>1. i \in TableRows
        BY <3>4, ItemShape DEF Streams
      <4>2. ~(i[1] = "snapshot" /\ got[d][<<"journal", i[2]>>] > 0)
        BY <1>0, <1>2, ItemShape DEF Window, Visible
      <4>3. Merged(d, i) = got[d][i]
        BY <3>2, <4>2 DEF Merged
      <4> QED BY <1>1, <3>1, <3>4, <4>1, <4>3 DEF DeliveredTo
    <3> QED BY <3>3, <3>4
  <2>2. CASE feed[i].at <= from[d]
    <3>1. DeliveredTo(d, i)
      BY <1>0, <1>2, <2>2 DEF DeviceInv, HoldsRows
    <3>2. ~(got[d][i] > 0)
      BY <1>0, <2>2 DEF Window
    <3>3. CASE i[1] = "journal"
      <4>1. /\ i = <<"journal", i[2]>> /\ <<"snapshot", i[2]>> \in TableRows
            /\ <<"snapshot", i[2]>> \in Items /\ i[2] \in Snaps
        BY <3>3, ItemShape
      <4>2. ~(got[d][<<"snapshot", i[2]>>] > 0)
        BY <1>0, <1>2, <4>1 DEF Window, Visible
      <4>3. Merged(d, <<"snapshot", i[2]>>) = 0
        BY <3>1, <3>3, <4>2 DEF Merged, DeliveredTo
      <4> QED BY <1>1, <3>3, <4>1, <4>3 DEF DeliveredTo
    <3>4. CASE i[1] # "journal"
      <4>1. i \in TableRows
        BY <3>4, ItemShape DEF Streams
      <4>2. ~(i[1] = "snapshot" /\ got[d][<<"journal", i[2]>>] > 0)
        BY <1>0, <1>2, ItemShape DEF Window, Visible
      <4>3. Merged(d, i) = replica[d][i]
        BY <3>2, <4>2 DEF Merged
      <4> QED BY <1>1, <3>1, <3>4, <4>1, <4>3 DEF DeliveredTo
    <3> QED BY <3>3, <3>4
  <2> QED BY <1>0, <2>1, <2>2
<1>3. ASSUME NEW s \in Snapshots, published[s] # NoTime, published[s] <= upper[d]
      PROVE  s \in rates'[d]
  <2>1. published[s] \in Nat
    BY <1>0 DEF TypeOK, MarketTypeOK
  <2>2. CASE published[s] > from[d]
    BY <1>0, <1>1, <1>3, <2>2 DEF DeviceInv, MarketWindow
  <2>3. CASE published[s] <= from[d]
    BY <1>0, <1>1, <1>3, <2>1, <2>3 DEF DeviceInv, HoldsRates, NoTime
  <2> QED BY <1>0, <2>1, <2>2, <2>3
<1>4. HoldsRows(d, upper[d])' /\ HoldsRates(d, upper[d])'
  BY <1>1, <1>2, <1>3 DEF HoldsRows, HoldsRates, Visible
<1>5. HoldsRows(d, last[d])' /\ HoldsRates(d, last[d])'
  <2>1. \A s \in Snapshots : published[s] \in Nat
    BY <1>0 DEF TypeOK, MarketTypeOK
  <2>2. \A i \in Items : feed[i].at <= last[d] => feed[i].at <= upper[d]
    BY <1>0
  <2>3. \A s \in Snapshots : published[s] <= last[d] => published[s] <= upper[d]
    BY <1>0, <2>1
  <2> QED BY <1>1, <1>2, <1>3, <2>2, <2>3 DEF HoldsRows, HoldsRates, Visible
<1>6. Cut(d)'
  BY <1>0, <1>1 DEF DeviceInv, Cut
<1>7. Window(d)'
  BY <1>0, <1>1 DEF Window, ReadPast, Visible, Beyond
<1>8. Images(d)'
  <2> SUFFICES ASSUME NEW r \in Rows
               PROVE  /\ replica'[d][<<"ordinary", r>>] <= feed[<<"ordinary", r>>].image
                      /\ got[d][<<"ordinary", r>>] <= feed[<<"ordinary", r>>].image
                      /\ got[d][<<"ordinary", r>>] > 0 =>
                           replica'[d][<<"ordinary", r>>] <= got[d][<<"ordinary", r>>]
    BY <1>1 DEF Images
  <2> DEFINE i == <<"ordinary", r>>
  <2>1. i \in Items /\ i \in TableRows /\ i[1] # "snapshot"
    BY ItemShape
  <2>2. replica'[d][i] = IF got[d][i] > 0 THEN got[d][i] ELSE replica[d][i]
    BY <1>1, <2>1 DEF Merged
  <2>3. got[d][i] <= feed[i].image /\ replica[d][i] <= feed[i].image
    BY <1>0 DEF DeviceInv, Images
  <2> QED BY <1>0, <2>1, <2>2, <2>3
<1>9. MarketWindow(d)'
  BY <1>0, <1>1 DEF DeviceInv, MarketWindow, After
<1> QED BY <1>1, <1>4, <1>5, <1>6, <1>7, <1>8, <1>9 DEF DeviceInv

\* The checkpoint takes the watermark; a failure forgets the attempt.
LEMMA EndStep ==
  ASSUME IInv, TypeOK', NEW d \in Devices, CheckpointPull(d) \/ FailPull(d)
  PROVE  DeviceInv(d)'
<1>0. /\ TypeOK /\ DeviceInv(d) /\ sealed \in Nat /\ market \in Nat
      /\ \A r \in Rows : feed[<<"ordinary", r>>].image \in Nat
  <2>1. \A r \in Rows : <<"ordinary", r>> \in Items
    BY ItemShape
  <2> QED BY <2>1 DEF IInv, TypeOK, FenceTypeOK, MarketTypeOK
<1>1. /\ UNCHANGED <<sealed, market, feed, published, replica, rates>>
      /\ Forget(d)
  BY DEF CheckpointPull, FailPull, serverVars, marketVars, fenceVars
<1>2. /\ phase'[d] = "idle"
      /\ mread'[d] = NoRead
      /\ \A i \in Items : got'[d][i] = 0
  BY <1>0, <1>1 DEF Forget, TypeOK, DeviceTypeOK, MarketTypeOK, NotGot, Devices
<1>3. mread'[d].step = "idle" /\ mread'[d].upper = 0
  BY <1>2 DEF NoRead, Read, NoTime
<1>4. Images(d)'
  <2> SUFFICES ASSUME NEW r \in Rows
               PROVE  /\ replica'[d][<<"ordinary", r>>] <= feed'[<<"ordinary", r>>].image
                      /\ got'[d][<<"ordinary", r>>] <= feed'[<<"ordinary", r>>].image
                      /\ ~(got'[d][<<"ordinary", r>>] > 0)
    BY DEF Images
  <2>1. replica[d][<<"ordinary", r>>] <= feed[<<"ordinary", r>>].image
    BY <1>0 DEF DeviceInv, Images
  <2> QED BY <1>0, <1>1, <1>2, <2>1, ItemShape
<1>5. CASE FailPull(d)
  <2>1. last' = last
    BY <1>5 DEF FailPull
  <2>2. Cut(d)'
    BY <1>0, <1>1, <1>2, <1>3, <2>1 DEF DeviceInv, Cut
  <2>3. HoldsRows(d, last[d])' /\ HoldsRates(d, last[d])'
    BY <1>0, <1>1, <2>1 DEF DeviceInv, HoldsRows, HoldsRates, Visible, DeliveredTo
  <2>4. Images(d)'
    BY <1>4
  <2> QED BY <1>2, <1>3, <2>2, <2>3, <2>4 DEF DeviceInv, MarketWindow
<1>6. CASE CheckpointPull(d)
  <2>1. phase[d] = "applied" /\ last'[d] = upper[d]
    BY <1>0, <1>6 DEF CheckpointPull, TypeOK, DeviceTypeOK
  <2>2. Cut(d)'
    BY <1>0, <1>1, <1>2, <1>3, <2>1 DEF DeviceInv, Cut
  <2>3. HoldsRows(d, upper[d]) /\ HoldsRates(d, upper[d])
    BY <1>0, <2>1 DEF DeviceInv
  <2>4. HoldsRows(d, last[d])' /\ HoldsRates(d, last[d])'
    BY <1>1, <2>1, <2>3 DEF HoldsRows, HoldsRates, Visible, DeliveredTo
  <2>5. Images(d)'
    BY <1>4
  <2> QED BY <1>2, <1>3, <2>2, <2>4, <2>5 DEF DeviceInv, MarketWindow
<1> QED BY <1>5, <1>6

-----------------------------------------------------------------------------
(* The invariant, and what follows from it. *)

\* A step of one device leaves the others' variables alone.
LEMMA OtherDevices ==
  ASSUME TypeOK, NEW d \in Devices, DeviceStep(d), NEW e \in Devices \ {d}
  PROVE  /\ phase'[e] = phase[e] /\ last'[e] = last[e] /\ from'[e] = from[e]
         /\ upper'[e] = upper[e] /\ todo'[e] = todo[e] /\ stream'[e] = stream[e]
         /\ cursor'[e] = cursor[e] /\ got'[e] = got[e] /\ replica'[e] = replica[e]
         /\ rates'[e] = rates[e] /\ mread'[e] = mread[e]
<1> USE DEF TypeOK, DeviceTypeOK
<1>1. ASSUME NEW full \in BOOLEAN, StartPull(d, full)
      PROVE  /\ phase'[e] = phase[e] /\ from'[e] = from[e]
             /\ UNCHANGED <<mread, last, upper, todo, stream, cursor, got, replica, rates>>
  BY <1>1 DEF StartPull
<1>2. CASE PullMarketPage(d)
  <2>1. \E read, C : ReceiveMarketPage(d, read, C)
    BY <1>2 DEF PullMarketPage, PullFirstMarketPage, PullNextMarketPage
  <2>2. mread'[e] = mread[e]
    BY <2>1, MarketPageFrame DEF Devices
  <2> QED BY <1>2, <2>2 DEF PullMarketPage, deviceVars
<1>3. CASE SealPull(d)
  BY <1>3 DEF SealPull
<1>4. ASSUME NEW t \in Streams, PullPage(d, t)
      PROVE  /\ todo'[e] = todo[e] /\ stream'[e] = stream[e]
             /\ cursor'[e] = cursor[e] /\ got'[e] = got[e]
             /\ UNCHANGED <<mread, phase, last, from, upper, replica, rates>>
  <2>1. PICK page :
          /\ got' = [got EXCEPT ![d] =
               [i \in Items |-> IF i \in page THEN feed[i].image ELSE got[d][i]]]
          /\ \/ /\ todo' = [todo EXCEPT ![d] = @ \ {t}]
                /\ stream' = [stream EXCEPT ![d] = "none"]
                /\ cursor' = [cursor EXCEPT ![d] = NoCursor]
             \/ \E x \in page :
                /\ stream' = [stream EXCEPT ![d] = t]
                /\ cursor' = [cursor EXCEPT ![d] = KeyOf(x)]
                /\ UNCHANGED todo
    BY <1>4 DEF PullPage
  <2>2. got'[e] = got[e] /\ todo'[e] = todo[e] /\ stream'[e] = stream[e]
        /\ cursor'[e] = cursor[e]
    BY <2>1
  <2> QED BY <1>4, <2>2 DEF PullPage
<1>5. CASE ApplyPull(d)
  BY <1>5 DEF ApplyPull
<1>6. CASE CheckpointPull(d) \/ FailPull(d)
  BY <1>6 DEF CheckpointPull, FailPull, Forget, MarketTypeOK, Devices
<1> QED BY <1>1, <1>2, <1>3, <1>4, <1>5, <1>6 DEF DeviceStep

\* The invariant is inductive.
LEMMA InvNext == ASSUME IInv, [Next]_pullVars PROVE IInv'
<1>1. TypeOK'
  BY TypeNext DEF IInv
<1>2. FenceInv' /\ MarketInv' /\ Grows
  BY <1>1, FenceNext, PublicationNext, NextGrows
<1>3. ASSUME UNCHANGED <<mread, deviceVars>>, NEW e \in Devices PROVE DeviceInv(e)'
  BY <1>1, <1>2, <1>3, SameDevice DEF deviceVars
<1>4. CASE ServerStep \/ UNCHANGED pullVars
  <2>1. UNCHANGED <<mread, deviceVars>>
    BY <1>4, ServerFrame DEF pullVars
  <2> QED BY <1>1, <1>2, <1>3, <2>1 DEF IInv
<1>5. ASSUME NEW d \in Devices, DeviceStep(d) PROVE IInv'
  <2>1. ASSUME NEW e \in Devices \ {d} PROVE DeviceInv(e)'
    <3>1. TypeOK
      BY DEF IInv
    <3> QED BY <1>1, <1>2, <1>5, <2>1, <3>1, OtherDevices, SameDevice
  <2>2. DeviceInv(d)'
    BY <1>1, <1>2, <1>5, StartStep, MarketPageStep, SealStep, PageStep,
       ApplyStep, EndStep DEF DeviceStep
  <2> QED BY <1>1, <1>2, <2>1, <2>2 DEF IInv
<1> QED BY <1>4, <1>5 DEF Next

\* The inductive invariant holds in every reachable state, for any number of
\* writers, publishers, devices, rows and snapshots and any page sizes.
THEOREM Invariance == Spec => []IInv
<1>1. IInv /\ [Next]_pullVars => IInv'
  BY InvNext
<1> QED BY InitInv, <1>1, PTL DEF Spec

\* pullChanges may checkpoint its upper watermark: no device ever has a
\* checkpoint that covers a change it has not received, whatever writers commit,
\* however attempts fail and wherever they are cut off.
THEOREM RowsNeverMissed == Spec => []NoMissedRow
<1>1. IInv => NoMissedRow
  BY DEF IInv, DeviceInv, NoMissedRow
<1> QED BY Invariance, <1>1, PTL

\* The market snapshots a checkpoint covers are on the device.
THEOREM RatesNeverMissed == Spec => []NoMissedRate
<1>1. IInv => NoMissedRate
  BY DEF IInv, DeviceInv, NoMissedRate
<1> QED BY Invariance, <1>1, PTL

\* seal_sync_pull_v1: nothing commits at or below a sealed watermark, because the
\* seal waits for the writers that share the fence and they stamp above it.
THEOREM StampsNeverLate == Spec => NoLateStamp
<1>1. IInv /\ [Next]_pullVars
        => [\A i \in Items : feed'[i] # feed[i] => feed'[i].at > sealed]_pullVars
  BY NextGrows DEF Grows
<1> QED BY Invariance, <1>1, PTL DEF Spec, NoLateStamp

\* publish_complete_market_rate_snapshot_v1: "every later publisher receives a
\* strictly greater time", also while the pulls of the devices move the barrier.
THEOREM PublicationsNeverLate == Spec => NoLatePublication
<1>1. IInv /\ [Next]_pullVars
        => [\A s \in Snapshots :
               published'[s] # published[s] => published'[s] > market]_vars
  BY NextGrows DEF Grows
<1> QED BY Invariance, <1>1, PTL DEF Spec, NoLatePublication

\* Neither a stepped-back server clock nor a full or repeated pull takes a device
\* back: its checkpoint never falls and a row never reverts to an older image.
THEOREM NeverBack == Spec => NoStepBack
<1> DEFINE Forward(e) ==
      /\ last'[e] >= last[e]
      /\ \A r \in Rows :
           replica'[e][<<"ordinary", r>>] >= replica[e][<<"ordinary", r>>]
<1>1. ASSUME IInv, Next, NEW e \in Devices PROVE Forward(e)
  <2>0. /\ TypeOK /\ DeviceInv(e) /\ last[e] \in Nat /\ upper[e] \in Nat
        /\ \A i \in TableRows : replica[e][i] \in Nat
        /\ \A i \in Items : got[e][i] \in Nat
    BY <1>1 DEF IInv, TypeOK, DeviceTypeOK
  <2>1. ASSUME last'[e] = last[e], replica'[e] = replica[e] PROVE Forward(e)
    BY <2>0, <2>1, ItemShape
  <2>2. CASE ServerStep
    BY <2>1, <2>2, ServerFrame DEF deviceVars
  <2>3. ASSUME NEW d \in Devices \ {e}, DeviceStep(d) PROVE Forward(e)
    BY <2>0, <2>1, <2>3, OtherDevices
  <2>4. CASE DeviceStep(e)
    <3>1. CASE ApplyPull(e)
      <4>1. last'[e] = last[e]
        BY <3>1 DEF ApplyPull
      <4>2. ASSUME NEW r \in Rows
            PROVE  replica'[e][<<"ordinary", r>>] >= replica[e][<<"ordinary", r>>]
        <5> DEFINE i == <<"ordinary", r>>
        <5>1. i \in Items /\ i \in TableRows /\ i[1] # "snapshot"
          BY ItemShape
        <5>2. replica'[e][i] = IF got[e][i] > 0 THEN got[e][i] ELSE replica[e][i]
          BY <2>0, <3>1, <5>1 DEF ApplyPull, Merged, TypeOK, DeviceTypeOK
        <5>3. got[e][i] > 0 => replica[e][i] <= got[e][i]
          BY <2>0 DEF DeviceInv, Images
        <5> QED BY <2>0, <5>1, <5>2, <5>3
      <4> QED BY <2>0, <4>1, <4>2
    <3>2. CASE CheckpointPull(e)
      <4>1. phase[e] = "applied" /\ last'[e] = upper[e] /\ replica' = replica
        BY <2>0, <3>2 DEF CheckpointPull, TypeOK, DeviceTypeOK
      <4>2. last[e] <= upper[e]
        BY <2>0, <4>1 DEF DeviceInv, Cut
      <4> QED BY <2>0, <4>1, <4>2, ItemShape
    <3>3. CASE ~ApplyPull(e) /\ ~CheckpointPull(e)
      <4>1. last' = last /\ replica' = replica
        BY <2>4, <3>3 DEF DeviceStep, StartPull, PullMarketPage, SealPull, PullPage,
           FailPull, deviceVars
      <4> QED BY <2>1, <4>1
    <3> QED BY <3>1, <3>2, <3>3
  <2> QED BY <1>1, <2>2, <2>3, <2>4 DEF Next
<1>2. IInv /\ [Next]_pullVars
        => [\A d \in Devices :
              /\ last'[d] >= last[d]
              /\ \A r \in Rows :
                   replica'[d][<<"ordinary", r>>] >= replica[d][<<"ordinary", r>>]]_pullVars
  BY <1>1
<1> QED BY Invariance, <1>2, PTL DEF Spec, NoStepBack

-----------------------------------------------------------------------------
(* Publication is not lost. *)

\* A transaction that wrote a part of an unpublished snapshot and left the
\* trigger without publishing it found it incomplete, and has kept the barrier
\* since: nobody else can commit a part meanwhile.
IncompleteInv ==
  \A p \in Publishers :
    (/\ mtx[p].step = "open" /\ mtx[p].wrote # {} /\ mtx[p].pub = NoTime
     /\ published[mtx[p].snap] = NoTime)
      => p \in mlock /\ SeenBy(p, mtx[p].snap) # Parts

PublicationInv == CompleteIsPublished /\ IncompleteInv

\* Nothing is written at first.
LEMMA PublicationInit == Init => PublicationInv
BY DEF Init, MarketInit, PublicationInv, CompleteIsPublished, IncompleteInv, NoTx, Tx, Parts

\* The barrier is held by at most one transaction, so the commit that could
\* complete the snapshot is the holder's own, which found it incomplete.
LEMMA PublicationInvNext ==
  ASSUME IInv, PublicationInv, [Next]_pullVars
  PROVE  PublicationInv'
<1> USE DEF PublicationInv
<1>0. TypeOK /\ MarketInv
  BY DEF IInv
<1>1. ASSUME UNCHANGED <<mlock, parts, published, mtx>> PROVE PublicationInv'
  BY <1>1 DEF CompleteIsPublished, IncompleteInv, SeenBy
<1>2. ASSUME NEW p \in Publishers, MarketTxStep(p) PROVE PublicationInv'
  <2>0. /\ mtx \in [Publishers -> MarketTx]
        /\ parts \in [Snapshots -> SUBSET Parts]
        /\ published \in [Snapshots -> Nat]
        /\ mtx[p].step # "idle" => mtx[p].snap \in Snapshots
        /\ \A q \in Publishers : mtx[q].step = "open" => mtx[q].snap \in Snapshots
        /\ \A q, r \in mlock : q = r
        /\ mlock \subseteq Publishers
    BY <1>0 DEF TypeOK, MarketTypeOK, MarketInv
  <2>1. CASE CommitMarketTx(p)
    <3> DEFINE s == mtx[p].snap
    <3>1. /\ mtx[p].step = "open" /\ s \in Snapshots
          /\ parts' = [parts EXCEPT ![s] = parts[s] \cup mtx[p].wrote]
          /\ published' = IF mtx[p].pub = NoTime THEN published
                          ELSE [published EXCEPT ![s] = mtx[p].pub]
          /\ mlock' = mlock \ {p}
          /\ mtx' = [mtx EXCEPT ![p] = NoTx]
      BY <2>0, <2>1 DEF CommitMarketTx
    <3> HIDE DEF s
    <3>2. /\ \A t \in Snapshots \ {s} : parts'[t] = parts[t] /\ published'[t] = published[t]
          /\ parts'[s] = parts[s] \cup mtx[p].wrote
          /\ published'[s] = IF mtx[p].pub = NoTime THEN published[s] ELSE mtx[p].pub
          /\ mtx'[p].step = "idle"
          /\ \A q \in Publishers \ {p} : mtx'[q] = mtx[q]
      BY <2>0, <3>1 DEF NoTx, Tx
    \* What p commits without publishing it is incomplete.
    <3>3. published'[s] = NoTime /\ mtx[p].wrote # {} => p \in mlock /\ parts'[s] # Parts
      BY <3>1, <3>2 DEF IncompleteInv, SeenBy, s
    <3>4. CompleteIsPublished'
      <4> SUFFICES ASSUME NEW t \in Snapshots, parts'[t] = Parts PROVE published'[t] # NoTime
        BY DEF CompleteIsPublished
      <4>1. CASE t # s
        BY <3>2, <4>1 DEF CompleteIsPublished
      <4>2. CASE t = s /\ mtx[p].wrote # {}
        BY <3>3, <4>2
      <4>3. CASE t = s /\ mtx[p].wrote = {}
        BY <3>2, <4>3 DEF CompleteIsPublished
      <4> QED BY <4>1, <4>2, <4>3
    <3>5. IncompleteInv'
      <4> SUFFICES ASSUME NEW q \in Publishers, mtx'[q].step = "open", mtx'[q].wrote # {},
                          mtx'[q].pub = NoTime, published'[mtx'[q].snap] = NoTime
                   PROVE  q \in mlock' /\ parts'[mtx'[q].snap] \cup mtx'[q].wrote # Parts
        BY DEF IncompleteInv, SeenBy
      <4>1. q # p /\ mtx'[q] = mtx[q] /\ mtx[q].snap \in Snapshots
        BY <2>0, <3>2
      <4>2. published[mtx[q].snap] = NoTime
        BY <3>2, <4>1
      <4>3. q \in mlock /\ parts[mtx[q].snap] \cup mtx[q].wrote # Parts
        BY <4>1, <4>2 DEF IncompleteInv, SeenBy
      <4>4. mtx[q].snap = s => mtx[p].wrote = {}
        BY <2>0, <3>3, <4>1, <4>3
      <4> QED BY <3>1, <3>2, <4>1, <4>3, <4>4
    <3> QED BY <3>4, <3>5
  <2>2. ASSUME NEW part \in Parts, WritePart(p, part) PROVE PublicationInv'
    <3>1. /\ mtx[p].step = "open" /\ UNCHANGED <<mlock, parts, published>>
          /\ mtx'[p].snap = mtx[p].snap /\ mtx'[p].pub = mtx[p].pub
          /\ mtx'[p].step = "open" => ~(published[mtx[p].snap] = NoTime /\ mtx[p].pub = NoTime)
          /\ \A q \in Publishers \ {p} : mtx'[q] = mtx[q]
      BY <2>0, <2>2 DEF WritePart, Tx
    <3> QED BY <3>1 DEF CompleteIsPublished, IncompleteInv, SeenBy
  <2>3. CASE LockBarrier(p)
    <3>1. /\ mlock \subseteq {p} /\ mlock' = {p} /\ UNCHANGED <<parts, published>>
          /\ mtx'[p].step = "locked"
          /\ \A q \in Publishers \ {p} : mtx'[q] = mtx[q]
      BY <2>0, <2>3 DEF LockBarrier, MarketTx
    <3> QED BY <3>1 DEF CompleteIsPublished, IncompleteInv, SeenBy
  <2>4. CASE IncompleteReturn(p)
    <3>1. /\ mtx[p].step = "locked" /\ UNCHANGED <<mlock, parts, published>>
          /\ mtx'[p].snap = mtx[p].snap /\ mtx'[p].wrote = mtx[p].wrote
          /\ SeenBy(p, mtx[p].snap) # Parts
          /\ \A q \in Publishers \ {p} : mtx'[q] = mtx[q]
      BY <2>0, <2>4 DEF IncompleteReturn, MarketTx
    <3>2. p \in mlock
      BY <1>0, <3>1 DEF MarketInv
    <3> QED BY <3>1, <3>2 DEF CompleteIsPublished, IncompleteInv, SeenBy
  <2>5. CASE PublishComplete(p)
    <3>1. /\ UNCHANGED <<mlock, parts, published>>
          /\ mtx'[p].pub = TruncMs(clock) /\ TruncMs(clock) > market
          /\ \A q \in Publishers \ {p} : mtx'[q] = mtx[q]
      BY <2>0, <2>5 DEF PublishComplete, Tx
    <3>2. mtx'[p].pub # NoTime
      BY <1>0, <3>1, TruncMsNat DEF TypeOK, MarketTypeOK, NoTime
    <3> QED BY <3>1, <3>2 DEF CompleteIsPublished, IncompleteInv, SeenBy
  <2>6. ASSUME NEW s \in Snapshots, BeginMarketTx(p, s) PROVE PublicationInv'
    <3>1. /\ UNCHANGED <<mlock, parts, published>> /\ mtx'[p].wrote = {}
          /\ \A q \in Publishers \ {p} : mtx'[q] = mtx[q]
      BY <2>0, <2>6 DEF BeginMarketTx, Tx
    <3> QED BY <3>1 DEF CompleteIsPublished, IncompleteInv, SeenBy
  <2>7. CASE AbortMarketTx(p)
    <3>1. /\ UNCHANGED <<parts, published>> /\ mtx'[p].wrote = {} /\ mlock' = mlock \ {p}
          /\ \A q \in Publishers \ {p} : mtx'[q] = mtx[q]
      BY <2>0, <2>7 DEF AbortMarketTx, NoTx, Tx
    <3> QED BY <3>1 DEF CompleteIsPublished, IncompleteInv, SeenBy
  <2> QED BY <1>2, <2>1, <2>2, <2>3, <2>4, <2>5, <2>6, <2>7 DEF MarketTxStep
<1>3. CASE ServerStep
  <2>1. CASE ClockStep
    BY <1>1, <2>1 DEF ClockStep, marketVars
  <2>2. ASSUME NEW w \in Writers, WriterStep(w) PROVE PublicationInv'
    BY <1>1, <2>2 DEF WriterStep, AcquireSyncWriterFence, WriteRow, InsertSnapshot,
       DeleteSnapshot, Stamp, CommitTx, AbortTx, marketVars
  <2> QED BY <1>2, <1>3, <2>1, <2>2 DEF ServerStep
<1>4. ASSUME NEW d \in Devices, DeviceStep(d) PROVE PublicationInv'
  BY <1>0, <1>1, <1>4, DeviceFrame
<1> QED BY <1>1, <1>3, <1>4 DEF Next, pullVars, serverVars, marketVars

\* Two transactions that each complete the other's half never leave a complete
\* snapshot unpublished (publish_complete_market_rate_snapshot_v1).
THEOREM PublicationNotLost == Spec => []CompleteIsPublished
<1>1. PublicationInv /\ IInv /\ [Next]_pullVars => PublicationInv'
  BY PublicationInvNext
<1>2. PublicationInv => CompleteIsPublished
  BY DEF PublicationInv
<1> QED BY PublicationInit, Invariance, <1>1, <1>2, PTL DEF Spec

\* The pages of a finished market pull hold every publication of its window, and
\* go on doing so (pull_market_rate_snapshots_page_v2).
THEOREM MarketCutFinal == Spec => []CutComplete
<1>1. IInv => CutComplete
  <2> SUFFICES ASSUME IInv, NEW d \in Devices, mread[d].step = "done"
               PROVE  \A s \in Snapshots :
                        (published[s] > mread[d].start /\ published[s] <= mread[d].upper)
                          => s \in mread[d].got
    BY DEF CutComplete, Devices
  <2>1. MarketWindow(d) /\ published \in [Snapshots -> Nat] /\ mread[d].start \in Nat
    BY DEF IInv, DeviceInv, TypeOK, MarketTypeOK, MarketRead, Devices
  <2> QED BY <2>1 DEF MarketWindow
<1> QED BY Invariance, <1>1, PTL

\* The types of the publication and its readers, while the pulls of the devices
\* drive them.
THEOREM MarketTypeCorrect == Spec => []MarketTypeOK
<1>1. TypeOK => MarketTypeOK
  BY DEF TypeOK
<1> QED BY TypeCorrect, <1>1, PTL

-----------------------------------------------------------------------------
(* The refinement of ChangeFeed. *)

\* What the change feed's variables stand for.
Content == [i \in TableRows |-> IF Visible(i) THEN feed[i].image ELSE 0]
BehindOn(d, i) ==
  \/ feed[i].at > last[d]
  \/ i[1] = "snapshot" /\ feed[<<"journal", i[2]>>].at > last[d]
Backlog == [d \in Devices |-> {i \in TableRows : BehindOn(d, i)}]

\* An item has a stamp only once it was committed.
StampInv == \A i \in Items : feed[i].at # NoTime => feed[i].image > 0

\* Only a commit stamps, and it counts an image too.
LEMMA StampNext ==
  ASSUME IInv, StampInv, [Next]_pullVars
  PROVE  StampInv'
<1>1. ASSUME UNCHANGED feed PROVE StampInv'
  BY <1>1 DEF StampInv
<1>2. ASSUME NEW w \in Writers, CommitTx(w) PROVE StampInv'
  <2>1. \A i \in Items : feed[i].image \in Nat
    BY DEF IInv, TypeOK, FenceTypeOK
  <2>2. \A i \in Items :
          feed'[i] = IF pending[w][i] = NoTime THEN feed[i]
                     ELSE [image |-> feed[i].image + 1, at |-> pending[w][i]]
    BY <1>2 DEF CommitTx
  <2>3. ASSUME NEW i \in Items, feed'[i].at # NoTime PROVE feed'[i].image > 0
    <3>1. CASE pending[w][i] = NoTime
      BY <2>2, <2>3, <3>1 DEF StampInv
    <3>2. CASE pending[w][i] # NoTime
      <4>1. feed'[i] = [image |-> feed[i].image + 1, at |-> pending[w][i]]
        BY <2>2, <3>2
      <4> QED BY <2>1, <4>1
    <3> QED BY <3>1, <3>2
  <2> QED BY <2>3 DEF StampInv
<1>3. CASE ServerStep /\ ~\E w \in Writers : CommitTx(w)
  <2>1. UNCHANGED feed
    BY <1>3 DEF ServerStep, ClockStep, fenceVars, WriterStep, AcquireSyncWriterFence, WriteRow,
       InsertSnapshot, DeleteSnapshot, Stamp, AbortTx
  <2> QED BY <1>1, <2>1
<1>4. ASSUME NEW d \in Devices, DeviceStep(d) PROVE StampInv'
  BY <1>1, <1>4, DeviceFrame DEF IInv
<1>5. CASE UNCHANGED pullVars
  BY <1>1, <1>5 DEF pullVars, serverVars, fenceVars
<1> QED BY <1>2, <1>3, <1>4, <1>5, <1>1 DEF Next, ServerStep

\* Nothing is there at first, here as in the change feed.
LEMMA FeedInit == Init => Feed!Init
<1> SUFFICES ASSUME Init PROVE Feed!Init
  OBVIOUS
<1>1. /\ \A i \in Items : feed[i].image = 0 /\ feed[i].at = 0
      /\ \A d \in Devices : last[d] = 0
      /\ replica = [d \in Devices |-> [i \in TableRows |-> 0]]
  BY DEF Init, FenceInit, DeviceInit, NoTime
<1>2. \A i \in TableRows : ~Visible(i)
  <2>1. TableRows \subseteq Items
    BY ItemShape
  <2> QED BY <1>1, <2>1 DEF Visible
<1>3. Content = [i \in TableRows |-> 0]
  BY <1>2 DEF Content
<1>4. ASSUME NEW d \in Devices, NEW i \in TableRows PROVE ~BehindOn(d, i)
  <2>1. i \in Items /\ (i[1] = "snapshot" => <<"journal", i[2]>> \in Items)
    BY ItemShape
  <2>2. last[d] = 0 /\ feed[i].at = 0 /\ (i[1] = "snapshot" => feed[<<"journal", i[2]>>].at = 0)
    BY <1>1, <2>1
  <2> QED BY <2>2 DEF BehindOn
<1>5. Backlog = [d \in Devices |-> {}]
  BY <1>4 DEF Backlog
<1> QED BY <1>1, <1>3, <1>5 DEF Feed!Init, Content, Backlog, BehindOn

\* The change feed sees nothing else.
LEMMA FeedStutter ==
  ASSUME UNCHANGED <<feed, last, replica>>
  PROVE  UNCHANGED Feed!feedVars
<1>1. Content' = Content /\ Backlog' = Backlog
  BY DEF Content, Backlog, BehindOn, Visible
<1> QED BY <1>1 DEF Feed!feedVars, Content, Backlog, BehindOn

\* A committing writer publishes the rows it stamped, and those whose deletion
\* it journalled.
LEMMA CommitPublishes ==
  ASSUME IInv, NEW w \in Writers, CommitTx(w), UNCHANGED deviceVars
  PROVE  \E S \in SUBSET TableRows : Feed!Publish(S)
<1> DEFINE J(i) == <<"journal", i[2]>>
           S == {i \in TableRows : \/ pending[w][i] # NoTime
                                   \/ i[1] = "snapshot" /\ pending[w][J(i)] # NoTime}
<1>0. /\ \A d \in Devices : last[d] \in Nat /\ last[d] <= sealed
      /\ sealed \in Nat
      /\ \A i \in Items : /\ pending[w][i] \in Nat
                          /\ feed[i].at \in Nat /\ feed[i].image \in Nat
                          /\ pending[w][i] # NoTime => pending[w][i] > sealed
  BY DEF IInv, DeviceInv, Cut, FenceInv, TypeOK, FenceTypeOK, DeviceTypeOK
<1>1. /\ \A i \in Items :
           feed'[i] = IF pending[w][i] = NoTime THEN feed[i]
                      ELSE [image |-> feed[i].image + 1, at |-> pending[w][i]]
      /\ UNCHANGED <<last, replica>>
  BY DEF CommitTx, deviceVars
<1>2. \A i \in TableRows : i \in Items /\ (i[1] = "snapshot" => J(i) \in Items)
  BY ItemShape
<1>8. ASSUME NEW i \in Items
      PROVE  /\ pending[w][i] = NoTime => feed'[i] = feed[i]
             /\ pending[w][i] # NoTime => feed'[i].at = pending[w][i]
             /\ feed'[i].image \in Nat
  <2>1. feed[i].image \in Nat
    BY <1>0
  <2>2. CASE pending[w][i] = NoTime
    BY <1>1, <2>1, <2>2
  <2>3. CASE pending[w][i] # NoTime
    <3>1. feed'[i] = [image |-> feed[i].image + 1, at |-> pending[w][i]]
      BY <1>1, <2>3
    <3> QED BY <2>1, <2>3, <3>1
  <2> QED BY <2>2, <2>3
<1>3. \A i \in TableRows \ S : Content'[i] = Content[i]
  <2> SUFFICES ASSUME NEW i \in TableRows \ S PROVE Content'[i] = Content[i]
    OBVIOUS
  <2>1. feed'[i] = feed[i] /\ (i[1] = "snapshot" => feed'[J(i)] = feed[J(i)])
    BY <1>1, <1>2
  <2>2. Visible(i)' <=> Visible(i)
    BY <2>1 DEF Visible
  <2> QED BY <2>1, <2>2 DEF Content
<1>4. Content' \in [TableRows -> Nat]
  <2>1. \A i \in TableRows : feed'[i].image \in Nat
    BY <1>2, <1>8
  <2> QED BY <2>1 DEF Content
<1>5. Backlog' = [d \in Devices |-> Backlog[d] \cup S]
  <2>1. ASSUME NEW d \in Devices, NEW i \in TableRows
        PROVE  BehindOn(d, i)' <=> BehindOn(d, i) \/ i \in S
    <3>1. /\ pending[w][i] = NoTime => feed'[i].at = feed[i].at
          /\ pending[w][i] # NoTime => feed'[i].at > last[d]
      <4>1. i \in Items /\ last[d] \in Nat /\ last[d] <= sealed /\ sealed \in Nat
            /\ pending[w][i] \in Nat /\ (pending[w][i] # NoTime => pending[w][i] > sealed)
        BY <1>0, <1>2
      <4> QED BY <1>8, <4>1
    <3>2. i[1] = "snapshot" =>
            /\ pending[w][J(i)] = NoTime => feed'[J(i)].at = feed[J(i)].at
            /\ pending[w][J(i)] # NoTime => feed'[J(i)].at > last[d]
      BY <1>0, <1>2, <1>8
    <3> QED BY <1>1, <3>1, <3>2 DEF BehindOn
  <2>2. \A d \in Devices : Backlog'[d] = Backlog[d] \cup S
    BY <2>1 DEF Backlog
  <2> QED BY <2>2 DEF Backlog
<1>6. S \in SUBSET TableRows
  OBVIOUS
<1> HIDE DEF S
<1>7. Feed!Publish(S)
  BY <1>1, <1>3, <1>4, <1>5 DEF Feed!Publish, Content, Backlog, BehindOn
<1> QED BY <1>6, <1>7 DEF Feed!Publish

\* Applying the pages changes only rows the device was behind on.
LEMMA ApplyReceives ==
  ASSUME IInv, NEW d \in Devices, ApplyPull(d)
  PROVE  Feed!Receive(d)
<1>0. /\ DeviceInv(d) /\ phase[d] = "pages" /\ Window(d) /\ todo[d] = {}
      /\ from[d] \in {0, last[d]} /\ upper[d] \in Nat /\ last[d] \in Nat
      /\ \A i \in Items : feed[i].at \in Nat /\ feed[i].image \in Nat /\ got[d][i] \in Nat
      /\ last[d] <= upper[d]
      /\ \A i \in TableRows : replica[d][i] \in Nat
      /\ replica \in [Devices -> [TableRows -> Nat]]
  BY DEF IInv, DeviceInv, ApplyPull, TypeOK, FenceTypeOK, DeviceTypeOK, NoTime, Cut
<1>1. /\ UNCHANGED <<feed, last>>
      /\ replica' = [replica EXCEPT ![d] = [i \in TableRows |-> Merged(d, i)]]
  BY DEF ApplyPull, serverVars, fenceVars
<1>2. replica'[d] = [i \in TableRows |-> Merged(d, i)]
  BY <1>0, <1>1
<1>3. replica' = [replica EXCEPT ![d] = replica'[d]]
  BY <1>1, <1>2
<1>4. replica'[d] \in [TableRows -> Nat]
  BY <1>0, <1>2, ItemShape DEF Merged
<1>5. ASSUME NEW i \in TableRows, ~BehindOn(d, i)
      PROVE  Merged(d, i) = replica[d][i]
  <2>0. i \in Items /\ (i[1] = "snapshot" =>
          /\ i = <<"snapshot", i[2]>> /\ <<"journal", i[2]>> \in Items /\ i[2] \in Snaps)
    BY ItemShape
  <2>1. feed[i].at <= last[d] /\ (i[1] = "snapshot" => feed[<<"journal", i[2]>>].at <= last[d])
    BY <1>0, <1>5, <2>0 DEF BehindOn
  <2>2. CASE i[1] = "snapshot" /\ got[d][<<"journal", i[2]>>] > 0
    <3>1. Visible(<<"journal", i[2]>>)
      BY <1>0, <2>0, <2>2 DEF Window, Visible
    <3>2. DeliveredTo(d, <<"journal", i[2]>>)
      BY <1>0, <2>0, <2>1, <2>2, <3>1 DEF DeviceInv, HoldsRows
    <3>3. replica[d][i] = 0
      BY <2>0, <2>2, <3>2 DEF DeliveredTo
    <3> QED BY <2>2, <3>3 DEF Merged
  <2>3. CASE ~(i[1] = "snapshot" /\ got[d][<<"journal", i[2]>>] > 0) /\ got[d][i] > 0
    <3>1. feed[i].image > 0 /\ feed[i].at > from[d]
      BY <1>0, <2>0, <2>3 DEF Window
    <3>2. Visible(i)
      <4> SUFFICES ASSUME i[1] = "snapshot", feed[<<"journal", i[2]>>].image # 0 PROVE FALSE
        BY <3>1 DEF Visible
      <4>1. feed[<<"journal", i[2]>>].at > upper[d]
        BY <1>0, <2>0, <2>3 DEF Window
      <4> QED BY <1>0, <2>0, <2>1, <4>1
    <3>3. got[d][i] = feed[i].image
      BY <1>0, <2>0, <2>1, <3>1, <3>2 DEF Window, ReadPast
    <3>4. DeliveredTo(d, i)
      BY <1>0, <2>0, <2>1, <3>2 DEF DeviceInv, HoldsRows
    <3>5. i[1] # "journal"
      BY DEF TableRows
    <3> QED BY <2>3, <3>3, <3>4, <3>5 DEF Merged, DeliveredTo
  <2>4. CASE ~(i[1] = "snapshot" /\ got[d][<<"journal", i[2]>>] > 0) /\ ~(got[d][i] > 0)
    BY <2>4 DEF Merged
  <2> QED BY <2>2, <2>3, <2>4
<1>6. \A i \in TableRows \ Backlog[d] : replica'[d][i] = replica[d][i]
  BY <1>2, <1>5 DEF Backlog
<1>7. Content' = Content /\ Backlog' = Backlog
  BY <1>1 DEF Content, Backlog, BehindOn, Visible
<1> QED BY <1>3, <1>4, <1>6, <1>7 DEF Feed!Receive, Content, Backlog, BehindOn

\* The checkpoint passes rows the device holds as the server does.
LEMMA CheckpointSettles ==
  ASSUME IInv, StampInv, NEW d \in Devices, CheckpointPull(d)
  PROVE  Feed!Settle(d)
<1>0. /\ DeviceInv(d) /\ last[d] \in Nat /\ upper[d] \in Nat /\ last[d] <= upper[d]
      /\ HoldsRows(d, upper[d])
      /\ last \in [Devices -> Nat]
      /\ \A i \in Items : feed[i].at \in Nat /\ feed[i].image \in Nat
  BY DEF IInv, DeviceInv, CheckpointPull, Cut, TypeOK, FenceTypeOK, DeviceTypeOK
<1>1. /\ UNCHANGED <<feed, replica>>
      /\ last' = [last EXCEPT ![d] = upper[d]]
  BY DEF CheckpointPull, serverVars, fenceVars
<1>2. last'[d] = upper[d] /\ \A e \in Devices \ {d} : last'[e] = last[e]
  BY <1>0, <1>1
<1> DEFINE S == Backlog[d] \ Backlog'[d]
<1>3. ASSUME NEW i \in S PROVE replica[d][i] = Content[i]
  <2>0. /\ i \in TableRows /\ i \in Items /\ i[1] # "journal"
        /\ i[1] = "snapshot" => /\ i = <<"snapshot", i[2]>> /\ <<"journal", i[2]>> \in Items
                                /\ i[2] \in Snaps
    BY ItemShape DEF Backlog, TableRows
  <2>1. BehindOn(d, i) /\ ~BehindOn(d, i)'
    BY DEF Backlog
  <2>2. feed[i].at <= upper[d] /\ (i[1] = "snapshot" => feed[<<"journal", i[2]>>].at <= upper[d])
    BY <1>0, <1>1, <1>2, <2>0, <2>1 DEF BehindOn
  <2>3. CASE Visible(i)
    BY <1>0, <2>0, <2>2, <2>3 DEF HoldsRows, DeliveredTo, Content
  <2>4. CASE ~Visible(i)
    \* It was committed once, so it is a snapshot row that was deleted.
    <3>1. i[1] = "snapshot" /\ feed[<<"journal", i[2]>>].image > 0
      BY <1>0, <2>0, <2>1, <2>4 DEF BehindOn, StampInv, Visible, NoTime
    <3>2. Visible(<<"journal", i[2]>>)
      BY <3>1 DEF Visible
    <3>3. DeliveredTo(d, <<"journal", i[2]>>)
      BY <1>0, <2>0, <2>2, <3>1, <3>2 DEF HoldsRows
    <3> QED BY <2>0, <2>4, <3>1, <3>3 DEF DeliveredTo, Content
  <2> QED BY <2>3, <2>4
<1>4. Content' = Content
  BY <1>1 DEF Content, Visible
<1>5. Backlog' = [Backlog EXCEPT ![d] = Backlog[d] \ S]
  <2>1. \A e \in Devices \ {d} : Backlog'[e] = Backlog[e]
    BY <1>1, <1>2 DEF Backlog, BehindOn
  <2>2. \A i \in TableRows : BehindOn(d, i)' => BehindOn(d, i)
    BY <1>0, <1>1, <1>2, ItemShape DEF BehindOn
  <2>3. Backlog'[d] = Backlog[d] \ S
    BY <2>2 DEF Backlog
  <2>4. Backlog' \in [Devices -> SUBSET TableRows] /\ Backlog \in [Devices -> SUBSET TableRows]
    BY DEF Backlog
  <2> HIDE DEF S
  <2> QED BY <2>1, <2>3, <2>4
<1>6. S \in SUBSET Backlog[d]
  OBVIOUS
<1> HIDE DEF S
<1> QED BY <1>1, <1>3, <1>4, <1>5, <1>6 DEF Feed!Settle, Content, Backlog, BehindOn

\* Every step is one of the change feed or none.
LEMMA FeedNext ==
  ASSUME IInv, StampInv, [Next]_pullVars
  PROVE  [Feed!Next]_Feed!feedVars
<1>1. ASSUME NEW w \in Writers, CommitTx(w), UNCHANGED deviceVars PROVE Feed!Next
  BY <1>1, CommitPublishes DEF Feed!Next
<1>2. CASE ServerStep /\ ~\E w \in Writers : CommitTx(w)
  <2>1. UNCHANGED <<feed, last, replica>>
    BY <1>2 DEF ServerStep, ClockStep, fenceVars, WriterStep, AcquireSyncWriterFence, WriteRow,
       InsertSnapshot, DeleteSnapshot, Stamp, AbortTx, deviceVars
  <2> QED BY <2>1, FeedStutter
<1>3. ASSUME NEW d \in Devices, DeviceStep(d) PROVE [Feed!Next]_Feed!feedVars
  <2>1. CASE ApplyPull(d)
    BY <2>1, ApplyReceives DEF Feed!Next
  <2>2. CASE CheckpointPull(d)
    BY <2>2, CheckpointSettles DEF Feed!Next
  <2>3. CASE ~ApplyPull(d) /\ ~CheckpointPull(d)
    <3>1. UNCHANGED feed
      BY <1>3, DeviceFrame DEF IInv
    <3>2. UNCHANGED <<last, replica>>
      BY <1>3, <2>3 DEF DeviceStep, StartPull, PullMarketPage, SealPull, PullPage, FailPull, deviceVars
    <3> QED BY <3>1, <3>2, FeedStutter
  <2> QED BY <2>1, <2>2, <2>3
<1>4. CASE UNCHANGED pullVars
  BY <1>4, FeedStutter DEF pullVars, serverVars, fenceVars, deviceVars
<1> QED BY <1>1, <1>2, <1>3, <1>4 DEF Next, ServerStep

\* The pull promises what ChangeFeed does: a change is in every device's backlog
\* until the device holds the row as the server has it.
THEOREM PullImplementsFeed == Spec => ImplementsChangeFeed
<1>1. Init => StampInv
  BY DEF Init, FenceInit, StampInv
<1>2. IInv /\ StampInv /\ [Next]_pullVars => StampInv'
  BY StampNext
<1>3. IInv /\ StampInv /\ [Next]_pullVars => [Feed!Next]_Feed!feedVars
  BY FeedNext
<1> QED BY FeedInit, Invariance, <1>1, <1>2, <1>3, PTL DEF Spec, ImplementsChangeFeed, Feed!Spec
=============================================================================
