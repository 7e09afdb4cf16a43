-------------------------- MODULE FinancialActions --------------------------
(***************************************************************************)
(* Financial actions of one user on one account: a device applies an       *)
(* action to its own balance at once, pushes it later with the revision it *)
(* was made at, and the server accepts it at that revision, refuses it as  *)
(* stale or rejects it (apply_account_financial_action_v1, branch C).  A   *)
(* refused action is compensated by installing the balance the refusal     *)
(* carries.  Calls may be lost, answered too late or processed long after  *)
(* the device gave them up, and the app may be killed at any step.         *)
(*                                                                         *)
(* A balance is kept as the number of times it contains each action's      *)
(* amount.  Neither the account nor what an action refers to is deleted,   *)
(* so every refusal is recorded by the server.                             *)
(***************************************************************************)
EXTENDS Naturals, FiniteSets

CONSTANTS
    Devices,
    Actions,    \* action ids
    MaxFaults,  \* bound on failed calls and kills
    None        \* no device, no outcome

ASSUME FinancialAssumption ==
    /\ IsFiniteSet(Actions) /\ MaxFaults \in Nat
    /\ None \notin Devices /\ None \notin Actions

VARIABLES
    bank,     \* the server's account: balance and financial_revision
    root,     \* root[a]: outcome and canonical account the server stored for a
    books,    \* books[r]: the server's balance at revision r (history)
    calls,    \* calls of the RPC the server has not processed
    answer,   \* answer[d]: what it answered to the call d waits for
    acct,     \* acct[d]: the account on d
    dirty,    \* dirty[d]: it has changes the sync has not marked as synced
    seen,     \* seen[d]: the server's revision at d's last pull
    act,      \* act[a]: the action group on its device
    sync,     \* sync[d]: where d's synchronization is
    faults

serverVars == <<bank, root, books>>
rpcVars == <<calls, answer>>
deviceVars == <<acct, dirty, seen, act>>
financialVars == <<serverVars, rpcVars, deviceVars, sync, faults>>

Zero == [balance |-> [a \in Actions |-> 0], revision |-> 0]
Unmade == [state |-> "none", device |-> None, expects |-> 0, tries |-> 0, canonical |-> Zero]
Undecided == [outcome |-> "none", canonical |-> Zero]
NoSync == [phase |-> "idle", todo |-> {}, action |-> None, touched |-> FALSE]

FinancialInit ==
    /\ bank = Zero /\ books = [r \in {0} |-> Zero.balance]
    /\ root = [a \in Actions |-> Undecided]
    /\ calls = {} /\ answer = [d \in Devices |-> Undecided]
    /\ acct = [d \in Devices |-> Zero] /\ dirty = [d \in Devices |-> FALSE]
    /\ seen = [d \in Devices |-> 0]
    /\ act = [a \in Actions |-> Unmade]
    /\ sync = [d \in Devices |-> NoSync] /\ faults = 0

Plus(account, a) ==
    [balance |-> [account.balance EXCEPT ![a] = @ + 1], revision |-> account.revision + 1]

Unsettled == {"local_complete", "sync_pending", "sync_failed", "rejected_compensating"}
Phase(d, phase) == sync[d].phase = phase
Current(d) == sync[d].action
CallOf(a) == [action |-> a, try |-> act[a].tries]
Goto(d, phase) == sync' = [sync EXCEPT ![d].phase = phase]
Handled(d) ==   \* the current action is done with, in this push
    sync' = [sync EXCEPT ![d].phase = "push", ![d].todo = @ \ {Current(d)}]
SetState(a, state) == act' = [act EXCEPT ![a].state = state]

\* commitFinancialActionGroupLocally(): the action and its effect on the balance
\* in one batch, at the revision the account has on the device.
CommitLocally(d) ==
    /\ \E a \in Actions :
        /\ act[a].state = "none"
        /\ a = CHOOSE b \in Actions : act[b].state = "none"
        /\ act' = [act EXCEPT ![a] = [Unmade EXCEPT !.state = "local_complete",
                                          !.device = d, !.expects = acct[d].revision]]
        /\ acct' = [acct EXCEPT ![d] = Plus(@, a)]
    /\ dirty' = [dirty EXCEPT ![d] = TRUE]
    /\ sync' = [sync EXCEPT ![d].touched = @ \/ ~Phase(d, "idle")]
    /\ UNCHANGED <<serverVars, rpcVars, seen, faults>>

\* Faulty variant: only the balance of a changed account is kept.
PullRevision(d) ==
    /\ Phase(d, "idle")
    /\ acct' = [acct EXCEPT ![d] =
         IF dirty[d] THEN [bank EXCEPT !.balance = acct[d].balance] ELSE bank]
    /\ seen' = [seen EXCEPT ![d] = bank.revision]
    /\ Goto(d, "pulled")
    /\ UNCHANGED <<serverVars, rpcVars, dirty, act, faults>>

\* pullChanges() and its application: what the device changed is kept, and the
\* watermark moves past the server's change nevertheless.
Pull(d) ==
    /\ Phase(d, "idle")
    /\ acct' = IF dirty[d] \/ seen[d] = bank.revision
               THEN acct ELSE [acct EXCEPT ![d] = bank]
    /\ seen' = [seen EXCEPT ![d] = bank.revision]
    /\ Goto(d, "pulled")
    /\ UNCHANGED <<serverVars, rpcVars, dirty, act, faults>>

\* Faulty variant: an action whose call was interrupted is left out.
CollectUnsent(d) ==
    /\ Phase(d, "pulled")
    /\ sync' = [sync EXCEPT ![d] = [NoSync EXCEPT !.phase = "push",
         !.todo = {a \in Actions : act[a].device = d
                                   /\ act[a].state \in Unsettled \ {"sync_pending"}}]]
    /\ UNCHANGED <<serverVars, rpcVars, deviceVars, faults>>

\* collectAccountFinancialActionPushBundles()
Collect(d) ==
    /\ Phase(d, "pulled")
    /\ sync' = [sync EXCEPT ![d] = [NoSync EXCEPT !.phase = "push",
         !.todo = {a \in Actions : act[a].device = d /\ act[a].state \in Unsettled}]]
    /\ UNCHANGED <<serverVars, rpcVars, deviceVars, faults>>

\* orderBundlesByAccountRevision()
First(d) == {a \in sync[d].todo : \A b \in sync[d].todo : act[a].expects <= act[b].expects}

\* coordinatePush(): the action is marked sync_pending and the RPC is called.
Send(d) ==
    /\ Phase(d, "push")
    /\ \E a \in First(d) :
        /\ act[a].state # "rejected_compensating"
        /\ act' = [act EXCEPT ![a].state = "sync_pending", ![a].tries = @ + 1]
        /\ calls' = calls \cup {[action |-> a, try |-> act[a].tries + 1]}
        /\ sync' = [sync EXCEPT ![d].phase = "wait", ![d].action = a]
    /\ answer' = [answer EXCEPT ![d] = Undecided]
    /\ UNCHANGED <<serverVars, acct, dirty, seen, faults>>

\* Faulty variant: rejected after the balance was written, without a savepoint.
DecideInPlace(a) ==
    /\ bank' = IF bank.revision = act[a].expects THEN Plus(bank, a) ELSE bank
    /\ \E outcome \in IF bank.revision = act[a].expects THEN {"accepted", "rejected"} ELSE {"stale"} :
        root' = [root EXCEPT ![a] = [outcome |-> outcome, canonical |-> bank']]
    /\ books' = [r \in 0..bank'.revision |->
                   IF r = bank'.revision THEN bank'.balance ELSE books[r]]

\* What the RPC finds for an action that has no outcome yet: it is stale, or the
\* domain rejects it and the savepoint is rolled back, or it is applied.
Decide(a) ==
    \E outcome \in IF bank.revision = act[a].expects THEN {"accepted", "rejected"} ELSE {"stale"} :
        /\ bank' = IF outcome = "accepted" THEN Plus(bank, a) ELSE bank
        /\ root' = [root EXCEPT ![a] = [outcome |-> outcome, canonical |-> bank']]
        /\ books' = [r \in 0..bank'.revision |->
                       IF r = bank'.revision THEN bank'.balance ELSE books[r]]

Answer(call) ==
    LET d == act[call.action].device
    IN  /\ calls' = calls \ {call}
        /\ answer' = IF Phase(d, "wait") /\ call = CallOf(Current(d))
                     THEN [answer EXCEPT ![d] = root'[call.action]] ELSE answer
        /\ UNCHANGED <<deviceVars, sync, faults>>

\* Faulty variant: a repeated call is decided again.
ApplyAgain(call) == call \in calls /\ Decide(call.action) /\ Answer(call)

\* apply_account_financial_action_v1(), under the owner's lock: a call that was
\* processed before is answered with the outcome stored then.
Apply(call) ==
    /\ call \in calls
    /\ IF root[call.action].outcome = "none" THEN Decide(call.action) ELSE UNCHANGED serverVars
    /\ Answer(call)

\* recordFinancialActionGroupServerOutcome(); a refusal goes on to reconcile.
Receive(d) ==
    LET a == Current(d)
    IN  /\ Phase(d, "wait") /\ answer[d].outcome # "none"
        /\ act' = [act EXCEPT
             ![a].state = IF answer[d].outcome = "accepted" THEN "accepted" ELSE "rejected_compensating",
             ![a].canonical = answer[d].canonical]
        /\ IF answer[d].outcome = "accepted" THEN Handled(d) ELSE Goto(d, "refused")
        /\ UNCHANGED <<serverVars, rpcVars, acct, dirty, seen, faults>>

\* invokeAccountFinancialActionRpc() throws: markFinancialActionGroupSyncFailed(),
\* and the push is given up, with what it had yet to mark as synced.
CallFails(d) ==
    /\ Phase(d, "wait") /\ faults < MaxFaults
    /\ faults' = faults + 1
    /\ SetState(Current(d), "sync_failed")
    /\ sync' = [sync EXCEPT ![d] = NoSync]
    /\ UNCHANGED <<serverVars, rpcVars, acct, dirty, seen>>

\* An action that was refused in an earlier push is reconciled in this one.
RetryReconcile(d) ==
    /\ Phase(d, "push")
    /\ \E a \in First(d) :
        /\ act[a].state = "rejected_compensating"
        /\ sync' = [sync EXCEPT ![d].phase = "refused", ![d].action = a]
    /\ UNCHANGED <<serverVars, rpcVars, deviceVars, faults>>

\* loadReconciliationBundle(): the account as it is before the installation.
LoadBundle(d) ==
    /\ Phase(d, "refused")
    /\ sync' = [sync EXCEPT ![d].phase = "loaded", ![d].touched = FALSE]
    /\ UNCHANGED <<serverVars, rpcVars, deviceVars, faults>>

\* installCanonicalSnapshotAtomically(), or its refusal because the account is
\* no longer the one that was loaded: then the action is recovered later.  The
\* account differs from what was collected either way.
Install(d) ==
    LET a == Current(d)
    IN  /\ Phase(d, "loaded")
        /\ IF sync[d].touched
           THEN UNCHANGED <<acct, dirty, act>>
           ELSE /\ acct' = [acct EXCEPT ![d] = act[a].canonical]
                /\ dirty' = [dirty EXCEPT ![d] = TRUE]
                /\ SetState(a, "reconciled")
        /\ sync' = [sync EXCEPT ![d].phase = "push", ![d].todo = @ \ {a}, ![d].touched = TRUE]
        /\ UNCHANGED <<serverVars, rpcVars, seen, faults>>

\* The captured rows are marked as synced, except an account changed since.
Finish(d) ==
    /\ Phase(d, "push") /\ sync[d].todo = {}
    /\ dirty' = [dirty EXCEPT ![d] = @ /\ sync[d].touched]
    /\ sync' = [sync EXCEPT ![d] = NoSync]
    /\ UNCHANGED <<serverVars, rpcVars, acct, seen, act, faults>>

\* The app is killed, or the session ends: what was written stays.
Kill(d) ==
    /\ ~Phase(d, "idle") /\ faults < MaxFaults
    /\ faults' = faults + 1
    /\ sync' = [sync EXCEPT ![d] = NoSync]
    /\ UNCHANGED <<serverVars, rpcVars, deviceVars>>

DeviceStep(d) ==
    \/ Pull(d) \/ Collect(d) \/ Send(d) \/ Receive(d) \/ RetryReconcile(d)
    \/ LoadBundle(d) \/ Install(d) \/ Finish(d)

FinancialNext ==
    \/ \E d \in Devices : CommitLocally(d) \/ DeviceStep(d) \/ CallFails(d) \/ Kill(d)
    \/ \E call \in calls : Apply(call)

FinancialSpec == FinancialInit /\ [][FinancialNext]_financialVars

\* The app synchronizes again and again, and a call the device waits for is
\* answered unless it fails; one it gave up may never be processed.
Awaited(d) == \E call \in calls : Phase(d, "wait") /\ call = CallOf(Current(d)) /\ Apply(call)
FairFinancialSpec ==
    FinancialSpec /\ \A d \in Devices : WF_financialVars(DeviceStep(d)) /\ WF_financialVars(Awaited(d))

-----------------------------------------------------------------------------
FinancialTypeOK ==
    /\ bank \in [balance : [Actions -> Nat], revision : Nat]
    /\ \A a \in Actions : act[a].device \in Devices \cup {None}

AcceptedActions == {a \in Actions : root[a].outcome = "accepted"}

\* The server's balance is the sum of the actions it says it accepted, each of
\* them once, whatever calls were repeated, late or rejected half way, and its
\* revision counts them.
BooksBalance ==
    /\ \A a \in Actions : bank.balance[a] = IF a \in AcceptedActions THEN 1 ELSE 0
    /\ bank.revision = Cardinality(AcceptedActions)

\* "No false sync success or duplicate compensation": an action is accepted on
\* its device only if the server accepted it, and it is compensated only if the
\* server did not and, its outcome being stored, never will.
NoFalseOutcome ==
    \A a \in Actions :
        /\ act[a].state = "accepted" => root[a].outcome = "accepted"
        /\ act[a].state \in {"rejected_compensating", "reconciled"} =>
             root[a].outcome \in {"stale", "rejected"}

\* A device with nothing left to settle shows a balance the server really had,
\* at the revision the device will send with its next action: what it kept
\* through pulls, refusals and kills contains no effect that did not happen.
\* (It may be an older one: a pull that finds local changes is not repeated.)
BalanceWasTrue ==
    \A d \in Devices :
        (\A a \in Actions : act[a].device = d => act[a].state \notin Unsettled) =>
            acct[d].revision \in DOMAIN books /\ acct[d].balance = books[acct[d].revision]

\* An action made on a device is accepted or compensated in the end.
EveryActionEnds ==
    \A a \in Actions :
        act[a].state # "none" ~> act[a].state \in {"accepted", "reconciled"}
=============================================================================
