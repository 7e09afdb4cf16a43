--------------------------- MODULE OwnerAwareSync ---------------------------
(***************************************************************************)
(* One phone, several users: the orchestration of a synchronization by     *)
(* createProtectedHistoricalSync (protected-historical-sync.ts) around     *)
(* WatermelonDB's synchronize() and the guards sync.ts installs in it.     *)
(*                                                                         *)
(* The database and its one checkpoint are shared by every user of the     *)
(* phone; the auth session may change between any two steps; an attempt    *)
(* may fail or the app be killed between any two steps, and what was       *)
(* written by then stays.  How a pull reads a complete window is the       *)
(* subject of SyncPull; here a pull is one step.                           *)
(***************************************************************************)
EXTENDS Naturals, FiniteSets

CONSTANTS
    Users,       \* the users who sign in on this phone
    NoUser,      \* no session, or no recorded sync owner
    Actors,      \* the users who start a financial action (a bound)
    MaxTime,     \* bound on the server's stamps
    MaxEdits     \* bound on the edits each user makes on this phone

ASSUME OwnerAssumption ==
    /\ NoUser \notin Users /\ Actors \subseteq Users
    /\ MaxTime \in Nat \ {0} /\ MaxEdits \in Nat

VARIABLES
    signed,      \* the user of the auth session
    now,         \* the last stamp the server gave out
    changed,     \* changed[u]: stamp of the last change another device made to u's data
    uploaded,    \* uploaded[u]: the version of u's row on the server
    owner,       \* OWNER_LOCAL_KEY, the recorded sync owner
    receipts,    \* users with a historical recovery receipt
    checkpoint,  \* WatermelonDB's lastPulledAt, 0 before the first pull
    copy,        \* copy[u]: the last change of u's data in the local database
    version,     \* version[u]: the local version of u's row
    dirty,       \* users whose row has local changes
    action,      \* action[u]: u's local financial action group
    withheld,    \* users whose last recovery pull left an action group out (history)
    attempt      \* the synchronization in flight

serverVars == <<now, changed, uploaded>>
keyVars == <<owner, receipts>>
pulledVars == <<checkpoint, copy, withheld>>
localVars == <<version, dirty, action>>
vars == <<signed, serverVars, keyVars, pulledVars, localVars, attempt>>

\* "pending": unresolved, unknown to the server; "sent": the server accepted
\* it and the answer was lost; "settled": its outcome is recorded locally.
ActionStates == {"none", "pending", "sent", "settled"}
Unresolved(u) == action[u] \in {"pending", "sent"}

Steps == {"idle", "prepare", "pull", "apply", "checkpoint", "collect", "upload",
          "ack", "mark", "marked", "recheck", "receipt", "receipted"}

\* full: the pull ignores the checkpoint; historical: the receipt was missing;
\* clean: no action group was unresolved at the start; upper, fetched, remote,
\* skipped: the pull's watermark, rows and left-out groups; captured: the
\* changed rows the push collected.
Attempts == [step : Steps, user : Users \cup {NoUser},
             full : BOOLEAN, historical : BOOLEAN, clean : BOOLEAN,
             upper : 0..MaxTime, fetched : 0..MaxTime, remote : 0..MaxEdits,
             skipped : BOOLEAN, captured : [Users -> 0..MaxEdits], rows : SUBSET Users]

NoAttempt == [step |-> "idle", user |-> NoUser, full |-> FALSE, historical |-> FALSE,
              clean |-> FALSE, upper |-> 0, fetched |-> 0, remote |-> 0,
              skipped |-> FALSE, captured |-> [u \in Users |-> 0], rows |-> {}]

\* A fresh install, or an app upgraded from a release that recorded no
\* receipt, whose signed-in user synced up to the checkpoint.
OwnerInit ==
    /\ now = 1
    /\ changed = [u \in Users |-> 1]
    /\ \/ owner = NoUser /\ checkpoint = 0
       \/ owner \in Users /\ checkpoint = 1
    /\ signed = owner
    /\ receipts = {} /\ withheld = {}
    /\ copy = [u \in Users |-> 0]
    /\ uploaded = [u \in Users |-> 0]
    /\ version = [u \in Users |-> 0]
    /\ dirty = {}
    /\ action = [u \in Users |-> "none"]
    /\ attempt = NoAttempt

\* assertExpectedSyncUser: the session is still the attempt's user.
Asserted == signed = attempt.user

Reach(step) == attempt' = [attempt EXCEPT !.step = step]

-----------------------------------------------------------------------------
\* The world around the synchronization.

\* The session begins or ends, whatever the synchronization is doing.
ChangeSession ==
    /\ signed' \in IF signed = NoUser THEN Users ELSE {NoUser}
    /\ UNCHANGED <<serverVars, keyVars, pulledVars, localVars, attempt>>

\* Another device of u changes u's data.
ChangeRemotely(u) ==
    /\ now < MaxTime
    /\ now' = now + 1
    /\ changed' = [changed EXCEPT ![u] = now + 1]
    /\ UNCHANGED <<signed, uploaded, keyVars, pulledVars, localVars, attempt>>

\* Local writes queue behind the writer that applies a pull and moves the
\* checkpoint.
WriterFree == attempt.step # "checkpoint"

\* The signed-in user edits the row.
EditLocally(u) ==
    /\ signed = u /\ WriterFree
    /\ version[u] < MaxEdits
    /\ version' = [version EXCEPT ![u] = @ + 1]
    /\ dirty' = dirty \cup {u}
    /\ UNCHANGED <<signed, serverVars, keyVars, pulledVars, action, attempt>>

\* The signed-in user starts a financial action.
ActLocally(u) ==
    /\ signed = u /\ u \in Actors /\ WriterFree
    /\ action[u] = "none"
    /\ action' = [action EXCEPT ![u] = "pending"]
    /\ UNCHANGED <<signed, serverVars, keyVars, pulledVars, version, dirty, attempt>>

-----------------------------------------------------------------------------
\* The steps of an attempt.

\* (mutant) Whoever owns the checkpoint.
BeginSyncAnyOwner(force) ==
    /\ attempt.step = "idle" /\ signed # NoUser
    /\ attempt' = [NoAttempt EXCEPT
                     !.step = "prepare", !.user = signed,
                     !.historical = signed \notin receipts,
                     !.full = force \/ signed \notin receipts]
    /\ UNCHANGED <<signed, serverVars, keyVars, pulledVars, localVars>>

\* (mutant) One receipt for all the users.
BeginSyncSharedReceipt(force) ==
    /\ attempt.step = "idle" /\ signed # NoUser
    /\ attempt' = [NoAttempt EXCEPT
                     !.step = "prepare", !.user = signed,
                     !.historical = receipts = {},
                     !.full = force \/ owner # signed \/ receipts = {}]
    /\ UNCHANGED <<signed, serverVars, keyVars, pulledVars, localVars>>

\* A new attempt of the signed-in user; while one is in flight, callers join it.
BeginSync(force) ==
    /\ attempt.step = "idle"
    /\ signed # NoUser
    /\ attempt' = [NoAttempt EXCEPT
                     !.step = "prepare", !.user = signed,
                     !.historical = signed \notin receipts,
                     !.full = force \/ owner # signed \/ signed \notin receipts]
    /\ UNCHANGED <<signed, serverVars, keyVars, pulledVars, localVars>>

\* (mutant) Only what is unresolved at the end counts.
PrepareUnchecked ==
    /\ attempt.step = "prepare" /\ Asserted
    /\ attempt' = [attempt EXCEPT !.step = "pull", !.clean = TRUE]
    /\ UNCHANGED <<signed, serverVars, keyVars, pulledVars, localVars>>

\* Unresolved evidence is captured before the pull.
Prepare ==
    /\ attempt.step = "prepare" /\ Asserted
    /\ attempt' = [attempt EXCEPT !.step = "pull",
                     !.clean = attempt.historical => ~Unresolved(attempt.user)]
    /\ UNCHANGED <<signed, serverVars, keyVars, pulledVars, localVars>>

\* Every row of the user in the window from the checkpoint (or from nothing)
\* to the watermark; an accepted group still unresolved here is left out.
Pull ==
    /\ attempt.step = "pull" /\ Asserted
    /\ LET u == attempt.user
           from == IF attempt.full THEN 0 ELSE checkpoint
       IN attempt' = [attempt EXCEPT
                        !.step = "apply", !.upper = now,
                        !.fetched = IF changed[u] > from THEN changed[u] ELSE copy[u],
                        !.remote = uploaded[u],
                        !.skipped = action[u] = "sent"]
    /\ UNCHANGED <<signed, serverVars, keyVars, pulledVars, localVars>>

\* The writer applies the rows; a row with local changes keeps them.
Apply ==
    /\ attempt.step = "apply" /\ Asserted
    /\ LET u == attempt.user
       IN /\ copy' = [copy EXCEPT ![u] = attempt.fetched]
          /\ version' = IF u \in dirty THEN version
                        ELSE [version EXCEPT ![u] = attempt.remote]
          /\ withheld' = IF ~attempt.historical THEN withheld
                         ELSE IF attempt.skipped THEN withheld \cup {u}
                         ELSE withheld \ {u}
    /\ Reach("checkpoint")
    /\ UNCHANGED <<signed, serverVars, keyVars, checkpoint, dirty, action>>

\* (mutant) The checkpoint is taken from the clock.
CheckpointAtClock ==
    /\ attempt.step = "checkpoint" /\ Asserted
    /\ checkpoint' = now + 1
    /\ Reach("collect")
    /\ UNCHANGED <<signed, serverVars, keyVars, copy, withheld, localVars>>

\* The same writer stores the pull's timestamp.
Checkpoint ==
    /\ attempt.step = "checkpoint" /\ Asserted
    /\ checkpoint' = attempt.upper
    /\ Reach("collect")
    /\ UNCHANGED <<signed, serverVars, keyVars, copy, withheld, localVars>>

\* fetchLocalChanges: every changed row of the database, whoever owns it.
Collect ==
    /\ attempt.step = "collect"
    /\ attempt' = [attempt EXCEPT !.step = "upload",
                     !.captured = version, !.rows = dirty]
    /\ UNCHANGED <<signed, serverVars, keyVars, pulledVars, localVars>>

\* The push sends what the user owns.  An action group may stay blocked.
Owned == attempt.rows \cap {attempt.user}

Send ==
    uploaded' = [u \in Users |->
                   IF u \in Owned THEN attempt.captured[u] ELSE uploaded[u]]

\* (mutant) A row of another user stops the push.
UploadOwnOnly ==
    /\ attempt.step = "upload" /\ Asserted
    /\ attempt.rows = Owned
    /\ Send
    /\ attempt' = [attempt EXCEPT !.step = "ack"]
    /\ UNCHANGED <<signed, now, changed, keyVars, pulledVars, localVars>>

Upload ==
    /\ attempt.step = "upload" /\ Asserted
    /\ Send
    /\ \E outcome \in {action[attempt.user]}
                        \cup (IF Unresolved(attempt.user) THEN {"settled"} ELSE {}) :
          action' = [action EXCEPT ![attempt.user] = outcome]
    /\ attempt' = [attempt EXCEPT !.step = "ack", !.rows = Owned]
    /\ UNCHANGED <<signed, now, changed, keyVars, pulledVars, version, dirty>>

\* The server did it and the answer was lost: the attempt fails.
UploadAnswerLost ==
    /\ attempt.step = "upload" /\ Asserted
    /\ Send
    /\ action' = IF action[attempt.user] = "pending"
                 THEN [action EXCEPT ![attempt.user] = "sent"] ELSE action
    /\ attempt' = NoAttempt
    /\ UNCHANGED <<signed, now, changed, keyVars, pulledVars, version, dirty>>

\* (mutant) Rejected rows are acknowledged too.
AckedRejected == {u \in Users : version[u] = attempt.captured[u]}

\* Rows that were sent and have not changed since they were captured.
Acked == {u \in attempt.rows : version[u] = attempt.captured[u]}

Ack ==
    /\ attempt.step = "ack" /\ Asserted
    /\ dirty' = dirty \ Acked
    /\ Reach("mark")
    /\ UNCHANGED <<signed, serverVars, keyVars, pulledVars, version, action>>

\* The owner is recorded once synchronize() is over.
MarkOwner ==
    /\ attempt.step = "mark" /\ Asserted
    /\ owner' = attempt.user
    /\ Reach("marked")
    /\ UNCHANGED <<signed, serverVars, receipts, pulledVars, localVars>>

\* Only an attempt that started with a missing receipt and no unresolved
\* evidence goes on to the receipt.
Recovering == attempt.historical /\ attempt.clean

EndMarked ==
    /\ attempt.step = "marked" /\ Asserted
    /\ IF Recovering THEN Reach("recheck") ELSE attempt' = NoAttempt
    /\ UNCHANGED <<signed, serverVars, keyVars, pulledVars, localVars>>

\* Unresolved work created meanwhile withholds the receipt too.
Recheck ==
    /\ attempt.step = "recheck" /\ Asserted
    /\ IF Unresolved(attempt.user) THEN attempt' = NoAttempt ELSE Reach("receipt")
    /\ UNCHANGED <<signed, serverVars, keyVars, pulledVars, localVars>>

MarkComplete ==
    /\ attempt.step = "receipt"
    /\ receipts' = receipts \cup {attempt.user}
    /\ Reach("receipted")
    /\ UNCHANGED <<signed, serverVars, owner, pulledVars, localVars>>

\* The receipt stays only if the session is still the user's.
FinishSync ==
    /\ attempt.step = "receipted"
    /\ receipts' = IF Asserted THEN receipts ELSE receipts \ {attempt.user}
    /\ attempt' = NoAttempt
    /\ UNCHANGED <<signed, serverVars, owner, pulledVars, localVars>>

\* The next assertion finds another session: the attempt ends.
LoseScope ==
    /\ attempt.step \notin {"idle", "collect", "receipt", "receipted"}
    /\ ~Asserted
    /\ attempt' = NoAttempt
    /\ UNCHANGED <<signed, serverVars, keyVars, pulledVars, localVars>>

\* A network or database error, or the app is killed: the attempt is gone and
\* everything stored stays.
Abandon ==
    /\ attempt.step # "idle"
    /\ attempt' = NoAttempt
    /\ UNCHANGED <<signed, serverVars, keyVars, pulledVars, localVars>>

-----------------------------------------------------------------------------
Outside == \E u \in Users : ChangeRemotely(u) \/ EditLocally(u) \/ ActLocally(u)

Begin == \E force \in BOOLEAN : BeginSync(force)

Step == \/ Prepare \/ Pull \/ Apply \/ Checkpoint \/ Collect \/ Upload \/ Ack
        \/ MarkOwner \/ EndMarked \/ Recheck \/ MarkComplete \/ FinishSync

OwnerNext == \/ ChangeSession \/ Outside \/ Begin \/ Step
             \/ UploadAnswerLost \/ LoseScope \/ Abandon

OwnerSpec == OwnerInit /\ [][OwnerNext]_vars

\* Timers call sync() again and again (SyncProvider), an attempt runs on, and
\* an assertion that fails throws.
OwnerFairSpec == OwnerSpec /\ WF_vars(Begin) /\ WF_vars(Step) /\ WF_vars(LoseScope)
-----------------------------------------------------------------------------
\* Properties.

\* Types, and that no attempt runs without a user.
OwnerTypeOK ==
    /\ signed \in Users \cup {NoUser} /\ owner \in Users \cup {NoUser}
    /\ now \in 1..MaxTime /\ checkpoint \in 0..now
    /\ changed \in [Users -> 1..now] /\ copy \in [Users -> 0..now]
    /\ version \in [Users -> 0..MaxEdits] /\ uploaded \in [Users -> 0..MaxEdits]
    /\ receipts \subseteq Users /\ dirty \subseteq Users /\ withheld \subseteq Users
    /\ action \in [Users -> ActionStates]
    /\ attempt \in Attempts
    /\ attempt.step = "idle" <=> attempt.user = NoUser

\* A row that is not marked as changed is on the server as it is here: neither
\* a push scoped to another user, nor an acknowledgement that raced an edit,
\* nor an applied pull loses an edit (push-ownership-service.ts).
NoLostEdit == \A u \in Users : u \notin dirty => version[u] = uploaded[u]

\* Whoever holds a receipt has had a pull of the whole history applied, with
\* no action group left out of it.
ReceiptMeansRecovered == \A u \in receipts : copy[u] > 0 /\ u \notin withheld

\* The phone holds u's data up to the shared checkpoint.
UpToDate(u) == changed[u] <= checkpoint => copy[u] = changed[u]

\* When the recorded owner changes hands, the new owner inherits no gap from
\* the checkpoint that the other users' pulls have moved.
NewOwnerUpToDate == [][owner' # owner => UpToDate(owner')]_vars

\* As the record of the owner-watermark change has it, a user never inherits
\* a watermark another user's pull advanced: an attempt that records its
\* owner has delivered the owner's data up to the checkpoint.
OwnerMarkedUpToDate == attempt.step = "marked" => UpToDate(attempt.user)

\* An attempt that is over did all it had to.
Through == \/ attempt.step = "marked" /\ ~Recovering
           \/ attempt.step = "recheck" /\ Unresolved(attempt.user)
           \/ attempt.step = "receipted"

\* From some point on u stays signed in and no attempt fails.
Undisturbed(u) ==
    /\ <>[](signed = u)
    /\ <>[][attempt.step # "idle" /\ attempt'.step = "idle" => Through]_vars

\* A user who stays signed in and edits finitely often has all the edits on the
\* server in the end, whatever other users left pending in the same database.
EditsReachServer == \A u \in Users : Undisturbed(u) => <>[](u \notin dirty)

\* A user who stays signed in and whose actions settle gets the receipt, so
\* that pulls are no longer full for ever.
ReceiptInTheEnd ==
    \A u \in Users :
        Undisturbed(u) /\ <>[]~Unresolved(u) => <>[](u \in receipts)
=============================================================================
