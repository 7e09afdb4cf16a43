------------------------ MODULE OwnerAwareSync_proofs ------------------------
(***************************************************************************)
(* What holds of the owner-aware synchronization for any users, stamps and *)
(* edits: no edit is lost, a receipt means a recovered history, and a new  *)
(* owner of the checkpoint has no gap below it.                            *)
(***************************************************************************)
EXTENDS OwnerAwareSync, TLAPS

Before == {"prepare", "pull", "apply", "checkpoint", "collect", "upload", "ack", "mark"}
Applied == {"checkpoint", "collect", "upload", "ack", "mark", "marked", "recheck", "receipt",
            "receipted"}

\* What an attempt has read is in the past; a missing receipt makes it full.
AttemptInv ==
    /\ attempt.upper <= now /\ attempt.fetched <= now
    /\ attempt.historical => attempt.full

\* What an attempt has in hand on its way between the row here and on the server.
PushInv ==
    /\ attempt.step = "apply" => attempt.remote = uploaded[attempt.user]
    /\ attempt.step = "upload" => attempt.rows \subseteq dirty
    /\ attempt.step = "ack" => \A u \in attempt.rows : uploaded[u] = attempt.captured[u]

\* An attempt that will end in a receipt pulls the history, and leaves no
\* action group out of it.
RecoveryInv ==
    /\ attempt.step \notin {"idle", "receipted"} /\ attempt.historical =>
         attempt.user \notin receipts
    /\ attempt.step = "pull" /\ Recovering => action[attempt.user] # "sent"
    /\ attempt.step = "apply" => attempt.fetched > 0 \/ attempt.fetched = copy[attempt.user]
    /\ attempt.step = "apply" /\ Recovering => attempt.fetched > 0 /\ ~attempt.skipped
    /\ attempt.step \in Applied /\ Recovering =>
         copy[attempt.user] > 0 /\ attempt.user \notin withheld
    /\ attempt.step \in {"recheck", "receipt", "receipted"} => Recovering

\* A user who does not own the checkpoint pulls all there is below it.
WatermarkInv ==
    /\ attempt.step \in Before /\ owner # attempt.user => attempt.full
    /\ attempt.step = "apply" /\ attempt.full /\ changed[attempt.user] <= attempt.upper =>
         attempt.fetched = changed[attempt.user]
    /\ attempt.step = "checkpoint" /\ attempt.full /\ changed[attempt.user] <= attempt.upper =>
         copy[attempt.user] = changed[attempt.user]
    /\ attempt.step \in {"collect", "upload", "ack", "mark"} /\ attempt.full =>
         UpToDate(attempt.user)

OwnerInv ==
    /\ OwnerTypeOK /\ AttemptInv
    /\ NoLostEdit /\ PushInv
    /\ ReceiptMeansRecovered /\ RecoveryInv
    /\ WatermarkInv
-----------------------------------------------------------------------------
\* Without an attempt nothing was fetched.
LEMMA NoAttemptFacts ==
  /\ NoAttempt \in Attempts
  /\ NoAttempt.step = "idle" /\ NoAttempt.user = NoUser
  /\ NoAttempt.upper = 0 /\ NoAttempt.fetched = 0 /\ ~NoAttempt.historical /\ ~NoAttempt.full
BY OwnerAssumption DEF NoAttempt, Attempts, Steps

\* Where there is no attempt, nothing is in hand.
LEMMA NothingInHand ==
  ASSUME attempt' = NoAttempt, now' \in Nat
  PROVE  AttemptInv' /\ PushInv' /\ RecoveryInv' /\ WatermarkInv'
BY NoAttemptFacts DEF AttemptInv, PushInv, RecoveryInv, WatermarkInv, Before, Applied

\* An attempt that goes on keeps what it holds.
LEMMA Reached ==
  ASSUME attempt \in Attempts, NEW step \in Steps, attempt' = [attempt EXCEPT !.step = step]
  PROVE  /\ attempt' \in Attempts
         /\ attempt'.step = step
         /\ attempt'.user = attempt.user
         /\ attempt'.full = attempt.full
         /\ attempt'.historical = attempt.historical
         /\ attempt'.clean = attempt.clean
         /\ attempt'.upper = attempt.upper
         /\ attempt'.fetched = attempt.fetched
         /\ attempt'.remote = attempt.remote
         /\ attempt'.skipped = attempt.skipped
         /\ attempt'.captured = attempt.captured
         /\ attempt'.rows = attempt.rows
BY DEF Attempts

\* An attempt begins with nothing fetched.
LEMMA Begun ==
  ASSUME NEW user \in Users, NEW historical \in BOOLEAN, NEW full \in BOOLEAN,
         attempt' = [NoAttempt EXCEPT !.step = "prepare", !.user = user,
                                      !.historical = historical, !.full = full]
  PROVE  /\ attempt' \in Attempts
         /\ attempt'.step = "prepare" /\ attempt'.user = user
         /\ attempt'.historical = historical /\ attempt'.full = full
         /\ attempt'.upper = 0 /\ attempt'.fetched = 0
BY NoAttemptFacts DEF Attempts, Steps

\* The fields of an attempt.
LEMMA AttemptFacts ==
  ASSUME OwnerTypeOK
  PROVE  /\ attempt \in Attempts
         /\ attempt.step \in Steps
         /\ attempt.user \in Users \cup {NoUser}
         /\ attempt.full \in BOOLEAN /\ attempt.historical \in BOOLEAN /\ attempt.clean \in BOOLEAN
         /\ attempt.upper \in 0..MaxTime /\ attempt.fetched \in 0..MaxTime
         /\ attempt.remote \in 0..MaxEdits /\ attempt.skipped \in BOOLEAN
         /\ attempt.captured \in [Users -> 0..MaxEdits] /\ attempt.rows \subseteq Users
         /\ attempt.step # "idle" => attempt.user \in Users
         /\ attempt.step = "idle" => attempt.user = NoUser
BY OwnerAssumption DEF OwnerTypeOK, Attempts

\* The invariant holds at the start.
LEMMA OwnerInitInv == OwnerInit => OwnerInv
<1> SUFFICES ASSUME OwnerInit PROVE OwnerInv
  OBVIOUS
<1> USE OwnerAssumption DEF OwnerInit
<1>1. OwnerTypeOK
  BY NoAttemptFacts DEF OwnerTypeOK, ActionStates
<1>2. NoLostEdit /\ ReceiptMeansRecovered
  BY DEF NoLostEdit, ReceiptMeansRecovered
<1>3. AttemptInv /\ PushInv /\ RecoveryInv /\ WatermarkInv
  BY NoAttemptFacts DEF AttemptInv, PushInv, RecoveryInv, WatermarkInv, Before, Applied
<1> QED BY <1>1, <1>2, <1>3 DEF OwnerInv

-----------------------------------------------------------------------------
\* The world around the synchronization.
LEMMA SessionInv == OwnerInv /\ ChangeSession => OwnerInv'
<1> SUFFICES ASSUME OwnerInv, ChangeSession PROVE OwnerInv'
  OBVIOUS
<1> USE DEF ChangeSession, serverVars, keyVars, pulledVars, localVars
<1>1. signed' \in Users \cup {NoUser}
  OBVIOUS
<1>2. OwnerTypeOK'
  BY <1>1 DEF OwnerInv, OwnerTypeOK
<1> QED BY <1>2 DEF OwnerInv, AttemptInv, NoLostEdit, PushInv, ReceiptMeansRecovered, RecoveryInv,
               Recovering, WatermarkInv, UpToDate

\* Another device changes a user's data.
LEMMA RemoteInv ==
  ASSUME OwnerInv, NEW u \in Users, ChangeRemotely(u)
  PROVE  OwnerInv'
<1> USE DEF ChangeRemotely, keyVars, pulledVars, localVars
<1>1. now' = now + 1 /\ now' \in 1..MaxTime /\ now \in Nat /\ checkpoint \in 0..now
  BY OwnerAssumption DEF OwnerInv, OwnerTypeOK
<1>2. OwnerTypeOK'
  BY <1>1, OwnerAssumption DEF OwnerInv, OwnerTypeOK
<1>3. /\ changed \in [Users -> 1..now]
      /\ \A v \in Users : changed'[v] = IF v = u THEN now + 1 ELSE changed[v]
  BY DEF OwnerInv, OwnerTypeOK
<1>4. /\ attempt.upper \in Nat /\ attempt.upper <= now
      /\ attempt.fetched \in Nat /\ attempt.fetched <= now
  BY AttemptFacts DEF OwnerInv, AttemptInv
<1>5. attempt.step \in Before => attempt.user \in Users
  BY AttemptFacts DEF OwnerInv, Before
<1>6. WatermarkInv'
  BY <1>1, <1>3, <1>4, <1>5 DEF OwnerInv, WatermarkInv, UpToDate, Before
<1>7. AttemptInv'
  BY <1>1, <1>4 DEF OwnerInv, AttemptInv
<1> QED BY <1>2, <1>6, <1>7 DEF OwnerInv, NoLostEdit, PushInv, ReceiptMeansRecovered, RecoveryInv,
               Recovering

\* The user edits, or acts, on the phone.
LEMMA EditInv ==
  ASSUME OwnerInv, NEW u \in Users, EditLocally(u) \/ ActLocally(u)
  PROVE  OwnerInv'
<1> USE DEF EditLocally, ActLocally, serverVars, keyVars, pulledVars
<1>1. OwnerTypeOK'
  BY OwnerAssumption DEF OwnerInv, OwnerTypeOK, ActionStates
<1>2. NoLostEdit'
  BY DEF OwnerInv, OwnerTypeOK, NoLostEdit
<1>3. PushInv'
  BY DEF OwnerInv, PushInv
<1>4. RecoveryInv'
  <2>1. attempt.step = "pull" => attempt.user \in Users
    BY AttemptFacts DEF OwnerInv
  <2>2. action' = action \/ action' = [action EXCEPT ![u] = "pending"]
    OBVIOUS
  <2>3. attempt.step = "pull" /\ Recovering => action'[attempt.user] # "sent"
    BY <2>1, <2>2 DEF OwnerInv, OwnerTypeOK, RecoveryInv
  <2> QED BY <2>3 DEF OwnerInv, RecoveryInv, Recovering
<1> QED BY <1>1, <1>2, <1>3, <1>4
        DEF OwnerInv, AttemptInv, ReceiptMeansRecovered, WatermarkInv, UpToDate

-----------------------------------------------------------------------------
\* The steps of an attempt.
LEMMA BeginInv ==
  ASSUME OwnerInv, NEW force \in BOOLEAN, BeginSync(force)
  PROVE  OwnerInv'
<1> USE DEF BeginSync, serverVars, keyVars, pulledVars, localVars
<1>1. signed \in Users /\ signed # NoUser
  BY DEF OwnerInv, OwnerTypeOK
<1>2. PICK historical \in BOOLEAN, full \in BOOLEAN :
         /\ historical <=> signed \notin receipts
         /\ full <=> force \/ owner # signed \/ signed \notin receipts
         /\ attempt' = [NoAttempt EXCEPT !.step = "prepare", !.user = signed,
                                         !.historical = historical, !.full = full]
  <2>1. (signed \notin receipts) \in BOOLEAN
        /\ (force \/ owner # signed \/ signed \notin receipts) \in BOOLEAN
    OBVIOUS
  <2> QED BY <2>1, Zenon
<1>3. /\ attempt' \in Attempts
      /\ attempt'.step = "prepare" /\ attempt'.user = signed
      /\ attempt'.historical = historical /\ attempt'.full = full
      /\ attempt'.upper = 0 /\ attempt'.fetched = 0
  BY <1>1, <1>2, Begun
<1>4. OwnerTypeOK'
  BY <1>1, <1>3, OwnerAssumption DEF OwnerInv, OwnerTypeOK
<1>5. AttemptInv'
  BY <1>2, <1>3, NoAttemptFacts DEF OwnerInv, OwnerTypeOK, AttemptInv
<1>6. PushInv' /\ RecoveryInv' /\ WatermarkInv'
  BY <1>2, <1>3 DEF PushInv, RecoveryInv, WatermarkInv, Before, Applied
<1> QED BY <1>4, <1>5, <1>6 DEF OwnerInv, NoLostEdit, ReceiptMeansRecovered

\* What the other updates of an attempt make of it.
LEMMA Prepared ==
  ASSUME attempt \in Attempts, NEW clean \in BOOLEAN,
         attempt' = [attempt EXCEPT !.step = "pull", !.clean = clean]
  PROVE  /\ attempt' \in Attempts
         /\ attempt'.step = "pull" /\ attempt'.clean = clean
         /\ attempt'.user = attempt.user /\ attempt'.full = attempt.full
         /\ attempt'.historical = attempt.historical /\ attempt'.upper = attempt.upper
         /\ attempt'.fetched = attempt.fetched
BY DEF Attempts, Steps

\* The pull sets what was fetched, and up to when.
LEMMA Pulled ==
  ASSUME attempt \in Attempts, NEW upper \in 0..MaxTime, NEW fetched \in 0..MaxTime,
         NEW remote \in 0..MaxEdits, NEW skipped \in BOOLEAN,
         attempt' = [attempt EXCEPT !.step = "apply", !.upper = upper, !.fetched = fetched,
                                    !.remote = remote, !.skipped = skipped]
  PROVE  /\ attempt' \in Attempts
         /\ attempt'.step = "apply" /\ attempt'.upper = upper /\ attempt'.fetched = fetched
         /\ attempt'.remote = remote /\ attempt'.skipped = skipped
         /\ attempt'.user = attempt.user /\ attempt'.full = attempt.full
         /\ attempt'.historical = attempt.historical /\ attempt'.clean = attempt.clean
BY DEF Attempts, Steps

\* The collection sets what was captured.
LEMMA Collected ==
  ASSUME attempt \in Attempts, NEW captured \in [Users -> 0..MaxEdits], NEW rows \in SUBSET Users,
         attempt' = [attempt EXCEPT !.step = "upload", !.captured = captured, !.rows = rows]
  PROVE  /\ attempt' \in Attempts
         /\ attempt'.step = "upload" /\ attempt'.rows = rows
         /\ attempt'.user = attempt.user /\ attempt'.full = attempt.full
         /\ attempt'.historical = attempt.historical /\ attempt'.clean = attempt.clean
         /\ attempt'.upper = attempt.upper /\ attempt'.fetched = attempt.fetched
BY DEF Attempts, Steps

\* The upload sets the rows to acknowledge.
LEMMA Uploaded ==
  ASSUME attempt \in Attempts, NEW rows \in SUBSET Users,
         attempt' = [attempt EXCEPT !.step = "ack", !.rows = rows]
  PROVE  /\ attempt' \in Attempts
         /\ attempt'.step = "ack" /\ attempt'.rows = rows
         /\ attempt'.captured = attempt.captured
         /\ attempt'.user = attempt.user /\ attempt'.full = attempt.full
         /\ attempt'.historical = attempt.historical /\ attempt'.clean = attempt.clean
         /\ attempt'.upper = attempt.upper /\ attempt'.fetched = attempt.fetched
BY DEF Attempts, Steps

\* What is unresolved is looked at.
LEMMA PrepareInv == OwnerInv /\ Prepare => OwnerInv'
<1> SUFFICES ASSUME OwnerInv, Prepare PROVE OwnerInv'
  OBVIOUS
<1> USE DEF Prepare, serverVars, keyVars, pulledVars, localVars
<1>1. PICK clean \in BOOLEAN :
         /\ clean <=> (attempt.historical => ~Unresolved(attempt.user))
         /\ attempt' = [attempt EXCEPT !.step = "pull", !.clean = clean]
  <2>1. (attempt.historical => ~Unresolved(attempt.user)) \in BOOLEAN
    OBVIOUS
  <2> QED BY <2>1, Zenon
<1>2. /\ attempt' \in Attempts
      /\ attempt'.step = "pull" /\ attempt'.clean = clean
      /\ attempt'.user = attempt.user /\ attempt'.full = attempt.full
      /\ attempt'.historical = attempt.historical /\ attempt'.upper = attempt.upper
      /\ attempt'.fetched = attempt.fetched
  BY <1>1, Prepared, AttemptFacts DEF OwnerInv
<1>3. OwnerTypeOK'
  BY <1>2, AttemptFacts DEF OwnerInv, OwnerTypeOK
<1>4. AttemptInv' /\ PushInv'
  BY <1>2 DEF OwnerInv, AttemptInv, PushInv
<1>5. RecoveryInv'
  BY <1>1, <1>2 DEF OwnerInv, RecoveryInv, Recovering, Unresolved, Applied
<1>6. WatermarkInv'
  BY <1>2 DEF OwnerInv, WatermarkInv, Before
<1> QED BY <1>3, <1>4, <1>5, <1>6 DEF OwnerInv, NoLostEdit, ReceiptMeansRecovered

\* The pull is answered.
LEMMA PullInv == OwnerInv /\ Pull => OwnerInv'
<1> SUFFICES ASSUME OwnerInv, Pull PROVE OwnerInv'
  OBVIOUS
<1> USE DEF Pull, serverVars, keyVars, pulledVars, localVars
<1> DEFINE u == attempt.user
           from == IF attempt.full THEN 0 ELSE checkpoint
           fetched == IF changed[u] > from THEN changed[u] ELSE copy[u]
<1>1. /\ attempt \in Attempts /\ attempt.step = "pull" /\ u \in Users
      /\ now \in 1..MaxTime /\ changed[u] \in 1..now /\ copy[u] \in 0..now
      /\ uploaded[u] \in 0..MaxEdits
      /\ attempt.full \in BOOLEAN /\ checkpoint \in Nat
  BY AttemptFacts DEF OwnerInv, OwnerTypeOK
<1>2. /\ attempt.historical => attempt.full
      /\ attempt.historical => u \notin receipts
      /\ Recovering => action[u] # "sent"
      /\ owner # u => attempt.full
  BY <1>1 DEF OwnerInv, AttemptInv, RecoveryInv, WatermarkInv, Before
<1>3. PICK skipped \in BOOLEAN :
         /\ skipped <=> action[u] = "sent"
         /\ attempt' = [attempt EXCEPT !.step = "apply", !.upper = now, !.fetched = fetched,
                                       !.remote = uploaded[u], !.skipped = skipped]
  <2>1. (action[u] = "sent") \in BOOLEAN
    OBVIOUS
  <2> QED BY <2>1, Zenon
<1>4. /\ fetched \in 0..now
      /\ fetched > 0 \/ fetched = copy[u]
      /\ attempt.full => fetched = changed[u] /\ fetched > 0
  BY <1>1, OwnerAssumption
<1>5. fetched \in 0..MaxTime /\ now \in 0..MaxTime
  BY <1>1, <1>4, OwnerAssumption
<1> HIDE DEF from, fetched, Pull
<1>6. /\ attempt' \in Attempts
      /\ attempt'.step = "apply" /\ attempt'.upper = now /\ attempt'.fetched = fetched
      /\ attempt'.remote = uploaded[u] /\ attempt'.skipped = skipped
      /\ attempt'.user = u /\ attempt'.full = attempt.full
      /\ attempt'.historical = attempt.historical /\ attempt'.clean = attempt.clean
  BY <1>1, <1>3, <1>5, Pulled
<1>7. UNCHANGED <<signed, now, changed, uploaded, owner, receipts, checkpoint, copy, withheld,
                  version, dirty, action>>
  BY DEF Pull
<1> HIDE DEF u
<1>8. OwnerTypeOK'
  BY <1>1, <1>6, <1>7, OwnerAssumption DEF OwnerInv, OwnerTypeOK
<1>9. AttemptInv' /\ PushInv'
  BY <1>1, <1>2, <1>4, <1>6, <1>7 DEF AttemptInv, PushInv
<1>10. RecoveryInv'
  BY <1>2, <1>3, <1>4, <1>6, <1>7 DEF RecoveryInv, Recovering, Applied
<1>11. WatermarkInv'
  BY <1>2, <1>4, <1>6, <1>7 DEF WatermarkInv, Before
<1> QED BY <1>7, <1>8, <1>9, <1>10, <1>11 DEF OwnerInv, NoLostEdit, ReceiptMeansRecovered

\* What was fetched is applied.
LEMMA ApplyInv == OwnerInv /\ Apply => OwnerInv'
<1> SUFFICES ASSUME OwnerInv, Apply PROVE OwnerInv'
  OBVIOUS
<1> DEFINE u == attempt.user
<1>1. /\ attempt.step = "apply"
      /\ copy' = [copy EXCEPT ![u] = attempt.fetched]
      /\ version' = IF u \in dirty THEN version ELSE [version EXCEPT ![u] = attempt.remote]
      /\ withheld' = IF ~attempt.historical THEN withheld
                     ELSE IF attempt.skipped THEN withheld \cup {u} ELSE withheld \ {u}
      /\ attempt' = [attempt EXCEPT !.step = "checkpoint"]
      /\ UNCHANGED <<signed, now, changed, uploaded, owner, receipts, checkpoint, dirty, action>>
  BY DEF Apply, Reach, serverVars, keyVars
<1>2. /\ u \in Users /\ attempt.fetched \in 0..MaxTime /\ attempt.remote \in 0..MaxEdits
      /\ attempt \in Attempts /\ copy \in [Users -> 0..now]
      /\ version \in [Users -> 0..MaxEdits] /\ withheld \subseteq Users /\ receipts \subseteq Users
      /\ now \in 1..MaxTime
  BY <1>1, AttemptFacts DEF OwnerInv, OwnerTypeOK
<1>3. /\ attempt.historical => u \notin receipts
      /\ attempt.fetched > 0 \/ attempt.fetched = copy[u]
      /\ Recovering => attempt.fetched > 0 /\ ~attempt.skipped
      /\ owner # u => attempt.full
      /\ attempt.full /\ changed[u] <= attempt.upper => attempt.fetched = changed[u]
      /\ attempt.remote = uploaded[u]
      /\ attempt.fetched <= now
      /\ attempt.upper <= now
  BY <1>1 DEF OwnerInv, RecoveryInv, WatermarkInv, PushInv, AttemptInv, Before
<1>4. /\ attempt' \in Attempts /\ attempt'.step = "checkpoint"
      /\ attempt'.user = u /\ attempt'.full = attempt.full
      /\ attempt'.historical = attempt.historical /\ attempt'.clean = attempt.clean
      /\ attempt'.upper = attempt.upper /\ attempt'.fetched = attempt.fetched
  BY <1>1, <1>2, Reached DEF Steps
<1> HIDE DEF u
<1>5. OwnerTypeOK'
  <2>1. attempt.fetched \in 0..now
    BY <1>2, <1>3, OwnerAssumption
  <2>2. copy' \in [Users -> 0..now]
    BY <1>1, <1>2, <2>1
  <2>3. version' \in [Users -> 0..MaxEdits] /\ withheld' \subseteq Users
    BY <1>1, <1>2
  <2> QED BY <1>1, <1>2, <1>4, <2>2, <2>3, OwnerAssumption DEF OwnerInv, OwnerTypeOK
<1>6. AttemptInv' /\ PushInv'
  BY <1>1, <1>3, <1>4 DEF OwnerInv, AttemptInv, PushInv
<1>7. NoLostEdit'
  BY <1>1, <1>2, <1>3 DEF OwnerInv, NoLostEdit
<1>8. ReceiptMeansRecovered'
  BY <1>1, <1>2, <1>3 DEF OwnerInv, ReceiptMeansRecovered
<1>9. RecoveryInv'
  <2>1. Recovering => copy'[u] > 0 /\ u \notin withheld'
    BY <1>1, <1>2, <1>3 DEF Recovering
  <2> QED BY <1>1, <1>3, <1>4, <2>1 DEF RecoveryInv, Recovering, Applied
<1>10. WatermarkInv'
  BY <1>1, <1>2, <1>3, <1>4 DEF WatermarkInv, Before
<1> QED BY <1>5, <1>6, <1>7, <1>8, <1>9, <1>10 DEF OwnerInv

\* The checkpoint is stored.
LEMMA CheckpointInv == OwnerInv /\ Checkpoint => OwnerInv'
<1> SUFFICES ASSUME OwnerInv, Checkpoint PROVE OwnerInv'
  OBVIOUS
<1> DEFINE u == attempt.user
<1>1. /\ attempt.step = "checkpoint"
      /\ checkpoint' = attempt.upper
      /\ attempt' = [attempt EXCEPT !.step = "collect"]
      /\ UNCHANGED <<signed, now, changed, uploaded, owner, receipts, copy, withheld, version,
                     dirty, action>>
  BY DEF Checkpoint, Reach, serverVars, keyVars, localVars
<1>2. u \in Users /\ attempt \in Attempts /\ attempt.upper \in 0..MaxTime /\ now \in 1..MaxTime
  BY <1>1, AttemptFacts DEF OwnerInv, OwnerTypeOK
<1>3. /\ attempt' \in Attempts /\ attempt'.step = "collect"
      /\ attempt'.user = u /\ attempt'.full = attempt.full
      /\ attempt'.historical = attempt.historical /\ attempt'.clean = attempt.clean
      /\ attempt'.upper = attempt.upper /\ attempt'.fetched = attempt.fetched
  BY <1>1, <1>2, Reached DEF Steps
<1>4. OwnerTypeOK'
  <2>1. checkpoint' \in 0..now
    BY <1>1, <1>2, OwnerAssumption DEF OwnerInv, AttemptInv
  <2> QED BY <1>1, <1>2, <1>3, <2>1, OwnerAssumption DEF OwnerInv, OwnerTypeOK
<1>5. AttemptInv' /\ PushInv'
  BY <1>1, <1>3 DEF OwnerInv, AttemptInv, PushInv
<1>6. RecoveryInv'
  BY <1>1, <1>3 DEF OwnerInv, RecoveryInv, Recovering, Applied
<1>7. WatermarkInv'
  BY <1>1, <1>3 DEF OwnerInv, WatermarkInv, Before, UpToDate
<1> QED BY <1>1, <1>4, <1>5, <1>6, <1>7 DEF OwnerInv, NoLostEdit, ReceiptMeansRecovered

\* The local changes are collected.
LEMMA CollectInv == OwnerInv /\ Collect => OwnerInv'
<1> SUFFICES ASSUME OwnerInv, Collect PROVE OwnerInv'
  OBVIOUS
<1> DEFINE u == attempt.user
<1>1. /\ attempt.step = "collect"
      /\ attempt' = [attempt EXCEPT !.step = "upload", !.captured = version, !.rows = dirty]
      /\ UNCHANGED <<signed, now, changed, uploaded, owner, receipts, checkpoint, copy, withheld,
                     version, dirty, action>>
  BY DEF Collect, serverVars, keyVars, pulledVars, localVars
<1>2. /\ u \in Users /\ attempt \in Attempts
      /\ version \in [Users -> 0..MaxEdits] /\ dirty \in SUBSET Users
  BY <1>1, AttemptFacts DEF OwnerInv, OwnerTypeOK
<1>3. /\ attempt' \in Attempts /\ attempt'.step = "upload" /\ attempt'.rows = dirty
      /\ attempt'.user = u /\ attempt'.full = attempt.full
      /\ attempt'.historical = attempt.historical /\ attempt'.clean = attempt.clean
      /\ attempt'.upper = attempt.upper /\ attempt'.fetched = attempt.fetched
  BY <1>1, <1>2, Collected
<1>4. OwnerTypeOK'
  BY <1>1, <1>2, <1>3, OwnerAssumption DEF OwnerInv, OwnerTypeOK
<1>5. AttemptInv' /\ PushInv'
  BY <1>1, <1>3 DEF OwnerInv, AttemptInv, PushInv
<1>6. RecoveryInv'
  BY <1>1, <1>3 DEF OwnerInv, RecoveryInv, Recovering, Applied
<1>7. WatermarkInv'
  BY <1>1, <1>3 DEF OwnerInv, WatermarkInv, Before, UpToDate
<1> QED BY <1>1, <1>4, <1>5, <1>6, <1>7 DEF OwnerInv, NoLostEdit, ReceiptMeansRecovered

\* What is sent is marked as changed here, so no unmarked row is overtaken.
LEMMA SendKeeps ==
  ASSUME OwnerInv, attempt.step = "upload", Send, UNCHANGED <<version, dirty>>
  PROVE  /\ uploaded' \in [Users -> 0..MaxEdits]
         /\ NoLostEdit'
         /\ \A u \in Owned : uploaded'[u] = attempt.captured[u]
<1>1. /\ attempt.captured \in [Users -> 0..MaxEdits] /\ attempt.rows \subseteq Users
      /\ uploaded \in [Users -> 0..MaxEdits]
  BY AttemptFacts DEF OwnerInv, OwnerTypeOK
<1>2. Owned \subseteq dirty /\ Owned \subseteq Users
  BY <1>1 DEF OwnerInv, PushInv, Owned
<1>3. \A u \in Users : uploaded'[u] = IF u \in Owned THEN attempt.captured[u] ELSE uploaded[u]
  BY DEF Send
<1>4. uploaded' \in [Users -> 0..MaxEdits]
  BY <1>1 DEF Send
<1> QED BY <1>2, <1>3, <1>4 DEF OwnerInv, NoLostEdit

\* They are sent, and answered.
LEMMA UploadInv == OwnerInv /\ Upload => OwnerInv'
<1> SUFFICES ASSUME OwnerInv, Upload PROVE OwnerInv'
  OBVIOUS
<1> DEFINE u == attempt.user
<1>1. /\ attempt.step = "upload" /\ Send
      /\ action' = action \/ action' = [action EXCEPT ![u] = "settled"]
      /\ attempt' = [attempt EXCEPT !.step = "ack", !.rows = Owned]
      /\ UNCHANGED <<signed, now, changed, owner, receipts, checkpoint, copy, withheld,
                     version, dirty>>
  <2>1. PICK outcome \in {action[u]} \cup (IF Unresolved(u) THEN {"settled"} ELSE {}) :
          action' = [action EXCEPT ![u] = outcome]
    BY DEF Upload
  <2>2. action \in [Users -> ActionStates]
    BY DEF OwnerInv, OwnerTypeOK
  <2>3. action' = action \/ action' = [action EXCEPT ![u] = "settled"]
    BY <2>1, <2>2
  <2> QED BY <2>3 DEF Upload, keyVars, pulledVars
<1>2. /\ u \in Users /\ attempt \in Attempts /\ Owned \in SUBSET Users
      /\ action \in [Users -> ActionStates]
  BY <1>1, AttemptFacts DEF OwnerInv, OwnerTypeOK, Owned
<1>3. /\ attempt' \in Attempts /\ attempt'.step = "ack" /\ attempt'.rows = Owned
      /\ attempt'.captured = attempt.captured
      /\ attempt'.user = u /\ attempt'.full = attempt.full
      /\ attempt'.historical = attempt.historical /\ attempt'.clean = attempt.clean
      /\ attempt'.upper = attempt.upper /\ attempt'.fetched = attempt.fetched
  BY <1>1, <1>2, Uploaded
<1>4. /\ uploaded' \in [Users -> 0..MaxEdits] /\ NoLostEdit'
      /\ \A v \in Owned : uploaded'[v] = attempt.captured[v]
  BY <1>1, SendKeeps
<1>5. action' \in [Users -> ActionStates]
  BY <1>1, <1>2 DEF ActionStates
<1>6. OwnerTypeOK'
  BY <1>1, <1>2, <1>3, <1>4, <1>5, OwnerAssumption DEF OwnerInv, OwnerTypeOK
<1>7. AttemptInv' /\ PushInv'
  BY <1>1, <1>3, <1>4 DEF OwnerInv, AttemptInv, PushInv
<1>8. RecoveryInv'
  BY <1>1, <1>3 DEF OwnerInv, RecoveryInv, Recovering, Applied
<1>9. WatermarkInv'
  BY <1>1, <1>3 DEF OwnerInv, WatermarkInv, Before, UpToDate
<1> QED BY <1>1, <1>4, <1>6, <1>7, <1>8, <1>9 DEF OwnerInv, ReceiptMeansRecovered

\* They are marked as synced, where they are as captured.
LEMMA AckInv == OwnerInv /\ Ack => OwnerInv'
<1> SUFFICES ASSUME OwnerInv, Ack PROVE OwnerInv'
  OBVIOUS
<1> DEFINE u == attempt.user
<1>1. /\ attempt.step = "ack" /\ dirty' = dirty \ Acked
      /\ attempt' = [attempt EXCEPT !.step = "mark"]
      /\ UNCHANGED <<signed, now, changed, uploaded, owner, receipts, checkpoint, copy, withheld,
                     version, action>>
  BY DEF Ack, Reach, serverVars, keyVars, pulledVars
<1>2. u \in Users /\ attempt \in Attempts
  BY <1>1, AttemptFacts DEF OwnerInv
<1>3. /\ attempt' \in Attempts /\ attempt'.step = "mark"
      /\ attempt'.user = u /\ attempt'.full = attempt.full
      /\ attempt'.historical = attempt.historical /\ attempt'.clean = attempt.clean
      /\ attempt'.upper = attempt.upper /\ attempt'.fetched = attempt.fetched
  BY <1>1, <1>2, Reached DEF Steps
<1>4. OwnerTypeOK'
  BY <1>1, <1>2, <1>3, OwnerAssumption DEF OwnerInv, OwnerTypeOK
<1>5. NoLostEdit'
  BY <1>1 DEF OwnerInv, NoLostEdit, PushInv, Acked
<1>6. AttemptInv' /\ PushInv'
  BY <1>1, <1>3 DEF OwnerInv, AttemptInv, PushInv
<1>7. RecoveryInv'
  BY <1>1, <1>3 DEF OwnerInv, RecoveryInv, Recovering, Applied
<1>8. WatermarkInv'
  BY <1>1, <1>3 DEF OwnerInv, WatermarkInv, Before, UpToDate
<1> QED BY <1>1, <1>4, <1>5, <1>6, <1>7, <1>8 DEF OwnerInv, ReceiptMeansRecovered

\* The owner is recorded.
LEMMA MarkOwnerInv == OwnerInv /\ MarkOwner => OwnerInv'
<1> SUFFICES ASSUME OwnerInv, MarkOwner PROVE OwnerInv'
  OBVIOUS
<1> DEFINE u == attempt.user
<1>1. /\ attempt.step = "mark" /\ owner' = u
      /\ attempt' = [attempt EXCEPT !.step = "marked"]
      /\ UNCHANGED <<signed, now, changed, uploaded, receipts, checkpoint, copy, withheld,
                     version, dirty, action>>
  BY DEF MarkOwner, Reach, serverVars, pulledVars, localVars
<1>2. u \in Users /\ attempt \in Attempts
  BY <1>1, AttemptFacts DEF OwnerInv
<1>3. /\ attempt' \in Attempts /\ attempt'.step = "marked"
      /\ attempt'.user = u /\ attempt'.full = attempt.full
      /\ attempt'.historical = attempt.historical /\ attempt'.clean = attempt.clean
      /\ attempt'.upper = attempt.upper /\ attempt'.fetched = attempt.fetched
  BY <1>1, <1>2, Reached DEF Steps
<1>4. OwnerTypeOK'
  BY <1>1, <1>2, <1>3, OwnerAssumption DEF OwnerInv, OwnerTypeOK
<1>5. AttemptInv' /\ PushInv' /\ WatermarkInv'
  BY <1>1, <1>3 DEF OwnerInv, AttemptInv, PushInv, WatermarkInv, Before
<1>6. RecoveryInv'
  BY <1>1, <1>3 DEF OwnerInv, RecoveryInv, Recovering, Applied
<1> QED BY <1>1, <1>4, <1>5, <1>6 DEF OwnerInv, NoLostEdit, ReceiptMeansRecovered

\* Once the owner is recorded only the receipt is at stake.
LEMMA RecoveryStepInv == OwnerInv /\ (EndMarked \/ Recheck) => OwnerInv'
<1> SUFFICES ASSUME OwnerInv, EndMarked \/ Recheck PROVE OwnerInv'
  OBVIOUS
<1> DEFINE u == attempt.user
<1>1. UNCHANGED <<signed, now, changed, uploaded, owner, receipts, checkpoint, copy, withheld,
                  version, dirty, action>>
  BY DEF EndMarked, Recheck, serverVars, keyVars, pulledVars, localVars
<1>2. attempt.step \in {"marked", "recheck"} /\ u \in Users /\ attempt \in Attempts
      /\ now \in 1..MaxTime
  BY AttemptFacts DEF OwnerInv, OwnerTypeOK, EndMarked, Recheck
<1>3. CASE attempt' = NoAttempt
  <2>1. OwnerTypeOK'
    BY <1>1, <1>3, NoAttemptFacts DEF OwnerInv, OwnerTypeOK
  <2>2. now' \in Nat
    BY <1>1, <1>2, OwnerAssumption
  <2> QED BY <1>1, <1>3, <2>1, <2>2, NothingInHand DEF OwnerInv, NoLostEdit, ReceiptMeansRecovered
<1>4. CASE Recovering /\ \E step \in {"recheck", "receipt"} : attempt' = [attempt EXCEPT !.step = step]
  <2>1. PICK step \in {"recheck", "receipt"} : attempt' = [attempt EXCEPT !.step = step]
    BY <1>4
  <2>2. /\ attempt' \in Attempts /\ attempt'.step = step
        /\ attempt'.user = u /\ attempt'.full = attempt.full
        /\ attempt'.historical = attempt.historical /\ attempt'.clean = attempt.clean
        /\ attempt'.upper = attempt.upper /\ attempt'.fetched = attempt.fetched
    BY <1>2, <2>1, Reached DEF Steps
  <2>3. OwnerTypeOK'
    BY <1>1, <1>2, <2>1, <2>2, OwnerAssumption DEF OwnerInv, OwnerTypeOK
  <2>4. AttemptInv' /\ PushInv' /\ WatermarkInv'
    BY <1>1, <2>1, <2>2 DEF OwnerInv, AttemptInv, PushInv, WatermarkInv, Before
  <2>5. RecoveryInv'
    BY <1>1, <1>2, <1>4, <2>1, <2>2 DEF OwnerInv, RecoveryInv, Recovering, Applied
  <2> QED BY <1>1, <2>3, <2>4, <2>5 DEF OwnerInv, NoLostEdit, ReceiptMeansRecovered
<1>5. Recovering \/ attempt' = NoAttempt
  BY DEF EndMarked, Recheck, OwnerInv, RecoveryInv
<1>6. attempt' = NoAttempt \/ \E step \in {"recheck", "receipt"} : attempt' = [attempt EXCEPT !.step = step]
  BY DEF EndMarked, Recheck, Reach
<1> QED BY <1>3, <1>4, <1>5, <1>6

\* The receipt is recorded, or the attempt ends.
LEMMA ReceiptInv == OwnerInv /\ (MarkComplete \/ FinishSync) => OwnerInv'
<1> SUFFICES ASSUME OwnerInv, MarkComplete \/ FinishSync PROVE OwnerInv'
  OBVIOUS
<1> DEFINE u == attempt.user
<1>1. /\ UNCHANGED <<signed, now, changed, uploaded, owner, checkpoint, copy, withheld, version,
                     dirty, action>>
      /\ u \in Users /\ attempt \in Attempts /\ now \in 1..MaxTime /\ receipts \subseteq Users
  BY AttemptFacts DEF OwnerInv, OwnerTypeOK, MarkComplete, FinishSync, serverVars, pulledVars, localVars
<1>2. CASE MarkComplete
  <2>1. /\ attempt.step = "receipt" /\ receipts' = receipts \cup {u}
        /\ attempt' = [attempt EXCEPT !.step = "receipted"]
    BY <1>2 DEF MarkComplete, Reach
  <2>2. /\ attempt' \in Attempts /\ attempt'.step = "receipted"
        /\ attempt'.user = u /\ attempt'.full = attempt.full
        /\ attempt'.historical = attempt.historical /\ attempt'.clean = attempt.clean
        /\ attempt'.upper = attempt.upper /\ attempt'.fetched = attempt.fetched
    BY <1>1, <2>1, Reached DEF Steps
  <2>3. OwnerTypeOK'
    BY <1>1, <2>1, <2>2, OwnerAssumption DEF OwnerInv, OwnerTypeOK
  <2>4. copy[u] > 0 /\ u \notin withheld
    BY <2>1 DEF OwnerInv, RecoveryInv, Applied
  <2>5. ReceiptMeansRecovered'
    BY <1>1, <2>1, <2>4 DEF OwnerInv, ReceiptMeansRecovered
  <2>6. AttemptInv' /\ PushInv' /\ WatermarkInv'
    BY <1>1, <2>2 DEF OwnerInv, AttemptInv, PushInv, WatermarkInv, Before
  <2>7. RecoveryInv'
    BY <1>1, <2>1, <2>2, <2>4 DEF OwnerInv, RecoveryInv, Recovering, Applied
  <2> QED BY <1>1, <2>3, <2>5, <2>6, <2>7 DEF OwnerInv, NoLostEdit
<1>3. CASE FinishSync
  <2>1. attempt' = NoAttempt /\ receipts' \subseteq receipts
    BY <1>3 DEF FinishSync
  <2>2. OwnerTypeOK'
    BY <1>1, <2>1, NoAttemptFacts DEF OwnerInv, OwnerTypeOK
  <2>3. ReceiptMeansRecovered'
    BY <1>1, <2>1 DEF OwnerInv, ReceiptMeansRecovered
  <2>4. now' \in Nat
    BY <1>1, OwnerAssumption
  <2> QED BY <1>1, <2>1, <2>2, <2>3, <2>4, NothingInHand DEF OwnerInv, NoLostEdit
<1> QED BY <1>2, <1>3

\* However an attempt ends, what was stored stays.
LEMMA EndInv == OwnerInv /\ (UploadAnswerLost \/ LoseScope \/ Abandon) => OwnerInv'
<1> SUFFICES ASSUME OwnerInv, UploadAnswerLost \/ LoseScope \/ Abandon PROVE OwnerInv'
  OBVIOUS
<1>1. /\ attempt' = NoAttempt
      /\ UNCHANGED <<signed, now, changed, owner, receipts, checkpoint, copy, withheld, version, dirty>>
  BY DEF UploadAnswerLost, LoseScope, Abandon, serverVars, keyVars, pulledVars, localVars
<1>2. now \in 1..MaxTime /\ action \in [Users -> ActionStates]
  BY DEF OwnerInv, OwnerTypeOK
<1>3. uploaded' \in [Users -> 0..MaxEdits] /\ NoLostEdit' /\ action' \in [Users -> ActionStates]
  <2>1. CASE UploadAnswerLost
    <3>1. attempt.step = "upload" /\ Send
      BY <2>1 DEF UploadAnswerLost
    <3>2. action' \in [Users -> ActionStates]
      BY <1>2, <2>1 DEF UploadAnswerLost, ActionStates
    <3> QED BY <1>1, <3>1, <3>2, SendKeeps
  <2>2. CASE UNCHANGED <<uploaded, action>>
    BY <1>1, <1>2, <2>2 DEF OwnerInv, OwnerTypeOK, NoLostEdit
  <2> QED BY <2>1, <2>2 DEF LoseScope, Abandon, serverVars, localVars
<1>4. OwnerTypeOK'
  BY <1>1, <1>3, NoAttemptFacts DEF OwnerInv, OwnerTypeOK
<1>5. now' \in Nat
  BY <1>1, <1>2, OwnerAssumption
<1> QED BY <1>1, <1>3, <1>4, <1>5, NothingInHand DEF OwnerInv, ReceiptMeansRecovered

-----------------------------------------------------------------------------
\* Every step keeps the invariant.
LEMMA OwnerNextInv == OwnerInv /\ [OwnerNext]_vars => OwnerInv'
<1> SUFFICES ASSUME OwnerInv, [OwnerNext]_vars PROVE OwnerInv'
  OBVIOUS
<1>1. CASE ChangeSession
  BY <1>1, SessionInv
<1>2. CASE Outside
  BY <1>2, RemoteInv, EditInv DEF Outside
<1>3. CASE Begin
  BY <1>3, BeginInv DEF Begin
<1>4. CASE Step
  BY <1>4, PrepareInv, PullInv, ApplyInv, CheckpointInv, CollectInv, UploadInv, AckInv,
     MarkOwnerInv, RecoveryStepInv, ReceiptInv DEF Step
<1>5. CASE UploadAnswerLost \/ LoseScope \/ Abandon
  BY <1>5, EndInv
<1>6. CASE UNCHANGED vars
  BY <1>6 DEF vars, serverVars, keyVars, pulledVars, localVars, OwnerInv, OwnerTypeOK, AttemptInv,
              NoLostEdit, PushInv, ReceiptMeansRecovered, RecoveryInv, Recovering, WatermarkInv,
              UpToDate
<1> QED BY <1>1, <1>2, <1>3, <1>4, <1>5, <1>6 DEF OwnerNext

\* The orchestration's inductive invariant holds in every state.
LEMMA OwnerInvariance == OwnerSpec => []OwnerInv
BY OwnerInitInv, OwnerNextInv, PTL DEF OwnerSpec

\* Types, and that no attempt runs without a user
\* (createProtectedHistoricalSync).
THEOREM OwnerTypeCorrect == OwnerSpec => []OwnerTypeOK
<1>1. OwnerInv => OwnerTypeOK
  BY DEF OwnerInv
<1> QED BY <1>1, OwnerInvariance, PTL

\* A row of the local database that is not marked as changed is on the server as
\* it is here, for every user of the phone (push-ownership-service.ts, and
\* WatermelonDB's acknowledgement of a push).
THEOREM EditsNeverLost == OwnerSpec => []NoLostEdit
<1>1. OwnerInv => NoLostEdit
  BY DEF OwnerInv
<1> QED BY <1>1, OwnerInvariance, PTL

\* The receipt is only for a user whose whole history was applied without
\* leaving an action group out (protected-historical-sync.ts).
THEOREM ReceiptsEarned == OwnerSpec => []ReceiptMeansRecovered
<1>1. OwnerInv => ReceiptMeansRecovered
  BY DEF OwnerInv
<1> QED BY <1>1, OwnerInvariance, PTL

\* A step that hands the checkpoint to another owner leaves the new one without a
\* gap below it (sync.ts, the owner-aware full pull).
THEOREM NewOwnersUpToDate == OwnerSpec => NewOwnerUpToDate
<1>1. OwnerInv /\ [OwnerNext]_vars => [owner' # owner => UpToDate(owner')]_vars
  <2> SUFFICES ASSUME OwnerInv, OwnerNext, owner' # owner PROVE UpToDate(owner')
    OBVIOUS
  <2>1. CASE MarkOwner
    BY <2>1 DEF MarkOwner, OwnerInv, WatermarkInv, Before
  <2>2. CASE ~MarkOwner
    BY <2>2 DEF OwnerNext, ChangeSession, Outside, ChangeRemotely, EditLocally, ActLocally, Begin,
       BeginSync, Step, Prepare, Pull, Apply, Checkpoint, Collect, Upload, Ack, EndMarked, Recheck,
       MarkComplete, FinishSync, UploadAnswerLost, LoseScope, Abandon, keyVars
  <2> QED BY <2>1, <2>2
<1> QED BY <1>1, OwnerInvariance, PTL DEF OwnerSpec, NewOwnerUpToDate
=============================================================================
