----------------------- MODULE FinancialActions_proofs -----------------------
(***************************************************************************)
(* What holds of the actions for any devices and actions and any number of *)
(* failures: the server's books balance, a device's view of an outcome is  *)
(* the server's, and the balance a device shows is one the server had.     *)
(***************************************************************************)
EXTENDS FinancialActions, FiniteSetTheorems, TLAPS

Accounts == [balance : [Actions -> Nat], revision : Nat]
States == Unsettled \cup {"none", "accepted", "reconciled"}
Refused == {"stale", "rejected"}
Outcomes == [outcome : {"none", "accepted"} \cup Refused, canonical : Accounts]
Groups == [state : States, device : Devices \cup {None}, expects : Nat, tries : Nat,
           canonical : Accounts]
SyncStates == [phase : {"idle", "pulled", "push", "wait", "refused", "loaded"},
               todo : SUBSET Actions, action : Actions \cup {None}, touched : BOOLEAN]
OfDevice(d) == {a \in Actions : act[a].device = d}

ServerTypeOK ==
    /\ bank \in Accounts
    /\ root \in [Actions -> Outcomes]
    /\ calls \subseteq [action : Actions, try : Nat]

DeviceTypeOK ==
    /\ act \in [Actions -> Groups]
    /\ acct \in [Devices -> Accounts]
    /\ answer \in [Devices -> Outcomes]
    /\ sync \in [Devices -> SyncStates]

\* A device works on its own actions: the one in hand, and those to do.
OwnWork ==
    /\ \A a \in Actions : act[a].state = "none" => act[a].device = None
    /\ \A d \in Devices :
        /\ sync[d].todo \subseteq OfDevice(d)
        /\ sync[d].phase \in {"wait", "refused", "loaded"} => sync[d].action \in OfDevice(d)

\* The answer a device has is the outcome the server stored, for good.
AnswerIsRoot ==
    \A d \in Devices : sync[d].phase = "wait" /\ answer[d].outcome # "none" =>
        answer[d] = root[sync[d].action]

\* What is being reconciled was refused.
Compensates ==
    \A d \in Devices : sync[d].phase \in {"refused", "loaded"} =>
        act[sync[d].action].state = "rejected_compensating"

FinancialInv ==
    /\ ServerTypeOK /\ DeviceTypeOK /\ BooksBalance
    /\ OwnWork /\ AnswerIsRoot /\ Compensates /\ NoFalseOutcome

\* The invariant holds at the start.
LEMMA FinancialInitInv == FinancialInit => FinancialInv
<1> USE DEF SyncStates, Groups, Outcomes
<1> SUFFICES ASSUME FinancialInit PROVE FinancialInv
  OBVIOUS
<1> USE FinancialAssumption DEF FinancialInit
<1>1. Zero \in Accounts
  BY DEF Zero, Accounts
<1>2. ServerTypeOK
  BY <1>1 DEF ServerTypeOK, Undecided
<1>3. DeviceTypeOK
  BY <1>1 DEF DeviceTypeOK, Undecided, Unmade, NoSync, States
<1>4. BooksBalance
  <2>1. AcceptedActions = {}
    BY DEF AcceptedActions, Undecided
  <2> QED BY <2>1, FS_EmptySet DEF BooksBalance, Zero
<1>5. OwnWork /\ AnswerIsRoot /\ Compensates /\ NoFalseOutcome
  BY DEF OwnWork, AnswerIsRoot, Compensates, NoFalseOutcome, Unmade, NoSync
<1> QED BY <1>2, <1>3, <1>4, <1>5 DEF FinancialInv

-----------------------------------------------------------------------------
\* A decision is about an action without an outcome, and gives it one.
LEMMA DecideBalances ==
  ASSUME FinancialInv, NEW a \in Actions, root[a].outcome = "none", Decide(a)
  PROVE  /\ bank' \in Accounts
         /\ root' \in [Actions -> Outcomes]
         /\ root'[a].outcome # "none" /\ \A b \in Actions \ {a} : root'[b] = root[b]
         /\ BooksBalance'
<1> USE DEF SyncStates, Groups, Outcomes
<1> USE FinancialAssumption DEF FinancialInv, ServerTypeOK
<1>1. PICK outcome \in {"accepted", "rejected", "stale"} :
         /\ bank' = IF outcome = "accepted" THEN Plus(bank, a) ELSE bank
         /\ root' = [root EXCEPT ![a] = [outcome |-> outcome, canonical |-> bank']]
  BY DEF Decide
<1>2. bank.balance \in [Actions -> Nat] /\ bank.revision \in Nat
  BY DEF Accounts
<1>3. bank' \in Accounts
  BY <1>1, <1>2 DEF Plus, Accounts
<1>4. /\ root' \in [Actions -> Outcomes]
      /\ root'[a].outcome = outcome /\ \A b \in Actions \ {a} : root'[b] = root[b]
  BY <1>1, <1>3 DEF Refused
<1>5. BooksBalance'
  <2>1. a \notin AcceptedActions /\ bank.balance[a] = 0
    BY DEF AcceptedActions, BooksBalance
  <2>2. CASE outcome = "accepted"
    <3>1. AcceptedActions' = AcceptedActions \cup {a}
      BY <1>4, <2>2 DEF AcceptedActions
    <3>2. IsFiniteSet(AcceptedActions)
      BY FS_Subset DEF AcceptedActions
    <3>3. Cardinality(AcceptedActions') = Cardinality(AcceptedActions) + 1
      BY <2>1, <3>1, <3>2, FS_AddElement
    <3>4. bank' = [balance |-> [bank.balance EXCEPT ![a] = 1], revision |-> bank.revision + 1]
      BY <1>1, <1>2, <2>1, <2>2 DEF Plus
    <3>5. \A b \in Actions : bank'.balance[b] = IF b \in AcceptedActions' THEN 1 ELSE 0
      BY <1>2, <3>1, <3>4 DEF BooksBalance
    <3> QED BY <3>3, <3>4, <3>5 DEF BooksBalance
  <2>3. CASE outcome # "accepted"
    <3>1. AcceptedActions' = AcceptedActions
      BY <1>4, <2>1, <2>3 DEF AcceptedActions
    <3>2. bank' = bank
      BY <1>1, <2>3
    <3> QED BY <3>1, <3>2 DEF BooksBalance
  <2> QED BY <2>2, <2>3
<1> QED BY <1>3, <1>4, <1>5

\* The server's step (091:700): a first decision, a replay or a refusal.
LEMMA ApplyInv ==
  ASSUME FinancialInv, NEW call \in calls, Apply(call)
  PROVE  FinancialInv'
<1> USE DEF SyncStates, Groups, Outcomes
<1> DEFINE a == call.action
           d == act[a].device
<1>1. a \in Actions /\ root \in [Actions -> Outcomes]
  BY DEF FinancialInv, ServerTypeOK
<1> HIDE DEF a
<1>2. /\ UNCHANGED <<acct, dirty, seen, act, sync>>
      /\ calls' = calls \ {call}
      /\ answer' = IF sync[d].phase = "wait" /\ call = CallOf(sync[d].action)
                   THEN [answer EXCEPT ![d] = root'[a]] ELSE answer
  BY DEF Apply, Answer, deviceVars, Phase, Current, a
<1>3. /\ bank' \in Accounts
      /\ root' \in [Actions -> Outcomes]
      /\ \A b \in Actions : root[b].outcome # "none" => root'[b] = root[b]
      /\ BooksBalance'
  <2>1. CASE root[a].outcome = "none"
    <3>1. Decide(a)
      BY <2>1 DEF Apply, a
    <3> QED BY <1>1, <2>1, <3>1, DecideBalances
  <2>2. CASE root[a].outcome # "none"
    <3>1. UNCHANGED <<bank, root>>
      BY <2>2 DEF Apply, serverVars, a
    <3> QED BY <1>1, <3>1 DEF FinancialInv, ServerTypeOK, BooksBalance, AcceptedActions
  <2> QED BY <2>1, <2>2
<1>4. ServerTypeOK'
  BY <1>2, <1>3 DEF FinancialInv, ServerTypeOK
<1>5. DeviceTypeOK'
  <2>1. answer' \in [Devices -> Outcomes]
    BY <1>1, <1>2, <1>3 DEF FinancialInv, DeviceTypeOK
  <2> QED BY <1>2, <2>1 DEF FinancialInv, DeviceTypeOK
<1>6. OwnWork' /\ Compensates'
  BY <1>2 DEF FinancialInv, OwnWork, Compensates, OfDevice
<1>7. AnswerIsRoot'
  <2> SUFFICES ASSUME NEW e \in Devices, sync[e].phase = "wait", answer'[e].outcome # "none"
               PROVE  answer'[e] = root'[sync[e].action]
    BY <1>2 DEF AnswerIsRoot
  <2>1. sync[e].action \in Actions
    BY DEF FinancialInv, OwnWork, OfDevice
  <2>2. CASE answer'[e] = answer[e]
    BY <1>3, <2>1, <2>2 DEF FinancialInv, AnswerIsRoot
  <2>3. CASE answer'[e] # answer[e]
    <3>1. e = d /\ call = CallOf(sync[d].action) /\ answer'[e] = root'[a]
      BY <1>2, <2>3 DEF FinancialInv, DeviceTypeOK
    <3>2. a = sync[e].action
      BY <3>1 DEF CallOf, a
    <3> QED BY <3>1, <3>2
  <2> QED BY <2>2, <2>3
<1>8. NoFalseOutcome'
  BY <1>2, <1>3 DEF FinancialInv, NoFalseOutcome
<1> QED BY <1>3, <1>4, <1>5, <1>6, <1>7, <1>8 DEF FinancialInv

-----------------------------------------------------------------------------
\* What an update of a synchronization or of a group leaves as it was.
LEMMA SyncMoves ==
  ASSUME sync \in [Devices -> SyncStates], NEW d \in Devices, NEW s \in SyncStates,
         sync' = [sync EXCEPT ![d] = s]
  PROVE  /\ sync' \in [Devices -> SyncStates]
         /\ sync'[d] = s
         /\ \A e \in Devices \ {d} : sync'[e] = sync[e]
OBVIOUS

\* An outcome written to a group leaves the other groups.
LEMMA Answered ==
  ASSUME act \in [Actions -> Groups], NEW a \in Actions,
         NEW state \in States, NEW canonical \in Accounts,
         act' = [act EXCEPT ![a].state = state, ![a].canonical = canonical]
  PROVE  /\ act' \in [Actions -> Groups]
         /\ act'[a].state = state /\ act'[a].device = act[a].device
         /\ \A b \in Actions \ {a} : act'[b] = act[b]
BY DEF Groups

\* A state written to a group leaves the other groups.
LEMMA Settled ==
  ASSUME act \in [Actions -> Groups], NEW a \in Actions, NEW state \in States,
         act' = [act EXCEPT ![a].state = state]
  PROVE  /\ act' \in [Actions -> Groups]
         /\ act'[a].state = state /\ act'[a].device = act[a].device
         /\ \A b \in Actions \ {a} : act'[b] = act[b]
BY DEF Groups

-----------------------------------------------------------------------------
\* What a device's own step may do: it leaves the server's records alone and
\* other devices' work, and keeps its own in order.
OwnStep(d) ==
    /\ UNCHANGED <<bank, root>>
    /\ calls' \subseteq [action : Actions, try : Nat]
    /\ DeviceTypeOK'
    /\ \A e \in Devices \ {d} : sync'[e] = sync[e] /\ answer'[e] = answer[e]
    /\ \A a \in Actions :
        /\ act'[a] = act[a] \/ act[a].device = d \/ (act[a].state = "none" /\ act'[a].device = d)
        /\ act[a].state # "none" => act'[a].device = act[a].device /\ act'[a].state # "none"
        /\ act'[a].state # "none" \/ act'[a] = act[a]
        /\ act'[a].state = act[a].state \/ act'[a].state \in Unsettled \ {"rejected_compensating"}
             \/ (act'[a].state = "accepted" /\ root[a].outcome = "accepted")
             \/ (act'[a].state \in {"rejected_compensating", "reconciled"} /\ root[a].outcome \in Refused)
    /\ sync'[d].todo \subseteq OfDevice(d)
    /\ sync'[d].phase \in {"wait", "refused", "loaded"} => sync'[d].action \in OfDevice(d)
    /\ sync'[d].phase = "wait" /\ answer'[d].outcome # "none" => answer'[d] = root[sync'[d].action]
    /\ sync'[d].phase \in {"refused", "loaded"} =>
         act'[sync'[d].action].state = "rejected_compensating"

\* Whatever a device does with its own actions keeps the invariant.
LEMMA OwnStepInv ==
  ASSUME FinancialInv, NEW d \in Devices, OwnStep(d)
  PROVE  FinancialInv'
<1> USE FinancialAssumption
<1>1. ServerTypeOK' /\ DeviceTypeOK' /\ BooksBalance'
  BY DEF FinancialInv, OwnStep, ServerTypeOK, BooksBalance, AcceptedActions
<1>2. \A a \in Actions : act[a].state = "none" => act[a].device = None
  BY DEF FinancialInv, OwnWork
<1>3. \A e \in Devices, a \in Actions : a \in OfDevice(e) =>
         act[a].state # "none" /\ a \in OfDevice(e)' /\ (e # d => act'[a] = act[a])
  BY <1>2 DEF OwnStep, OfDevice
<1>4. OwnWork'
  <2>1. \A a \in Actions : act'[a].state = "none" => act'[a].device = None
    BY <1>2 DEF OwnStep
  <2>2. ASSUME NEW e \in Devices
        PROVE  /\ sync'[e].todo \subseteq OfDevice(e)'
               /\ sync'[e].phase \in {"wait", "refused", "loaded"} => sync'[e].action \in OfDevice(e)'
    <3>1. /\ sync'[e].todo \subseteq OfDevice(e)
          /\ sync'[e].phase \in {"wait", "refused", "loaded"} => sync'[e].action \in OfDevice(e)
      BY DEF FinancialInv, OwnWork, OwnStep
    <3>2. OfDevice(e) \subseteq Actions
      BY DEF OfDevice
    <3> QED BY <1>3, <3>1, <3>2
  <2> QED BY <2>1, <2>2 DEF OwnWork
<1>5. AnswerIsRoot'
  BY DEF FinancialInv, OwnStep, AnswerIsRoot
<1>6. Compensates'
  <2> SUFFICES ASSUME NEW e \in Devices, e # d, sync[e].phase \in {"refused", "loaded"}
               PROVE  act'[sync[e].action].state = "rejected_compensating"
    BY DEF OwnStep, Compensates
  <2>1. sync[e].action \in OfDevice(e) /\ sync[e].action \in Actions
    BY DEF FinancialInv, OwnWork, OfDevice
  <2>2. act[sync[e].action].state = "rejected_compensating"
    BY DEF FinancialInv, Compensates
  <2> QED BY <1>3, <2>1, <2>2
<1>7. NoFalseOutcome'
  BY DEF FinancialInv, OwnStep, NoFalseOutcome, Unsettled, Refused
<1> QED BY <1>1, <1>4, <1>5, <1>6, <1>7 DEF FinancialInv

\* The parts of the invariant a device's step starts from.
LEMMA DeviceFacts ==
  ASSUME FinancialInv, NEW d \in Devices
  PROVE  /\ act \in [Actions -> Groups]
         /\ acct \in [Devices -> Accounts] /\ bank \in Accounts
         /\ answer \in [Devices -> Outcomes]
         /\ sync \in [Devices -> SyncStates]
         /\ calls \subseteq [action : Actions, try : Nat]
         /\ sync[d].todo \subseteq OfDevice(d)
         /\ sync[d].phase \in {"wait", "refused", "loaded"} => sync[d].action \in OfDevice(d)
         /\ sync[d].phase = "wait" /\ answer[d].outcome # "none" => answer[d] = root[sync[d].action]
         /\ sync[d].phase \in {"refused", "loaded"} =>
              act[sync[d].action].state = "rejected_compensating"
BY DEF FinancialInv, ServerTypeOK, DeviceTypeOK, OwnWork, AnswerIsRoot, Compensates

\* An action is committed on its device.
LEMMA CommitStep ==
  ASSUME FinancialInv, NEW d \in Devices, CommitLocally(d)
  PROVE  OwnStep(d)
<1> USE DEF SyncStates, Groups, Outcomes
<1> USE FinancialAssumption
<1>1. PICK a \in Actions :
         /\ act[a].state = "none"
         /\ act' = [act EXCEPT ![a] = [Unmade EXCEPT !.state = "local_complete",
                                          !.device = d, !.expects = acct[d].revision]]
         /\ acct' = [acct EXCEPT ![d] = Plus(@, a)]
  BY DEF CommitLocally
<1>2. /\ UNCHANGED <<bank, root, calls, answer>>
      /\ sync' = [sync EXCEPT ![d].touched = @ \/ ~Phase(d, "idle")]
  BY DEF CommitLocally, serverVars, rpcVars
<1>3. acct[d].revision \in Nat /\ Plus(acct[d], a) \in Accounts /\ Zero \in Accounts
  BY DeviceFacts DEF Accounts, Plus, Zero
<1>4. act'[a] = [state |-> "local_complete", device |-> d, expects |-> acct[d].revision,
                 tries |-> 0, canonical |-> Zero]
  BY <1>1, DeviceFacts DEF Unmade
<1>5. \A b \in Actions \ {a} : act'[b] = act[b]
  BY <1>1, DeviceFacts
<1>6. /\ sync'[d].phase = sync[d].phase /\ sync'[d].todo = sync[d].todo /\ sync'[d].action = sync[d].action
      /\ \A e \in Devices \ {d} : sync'[e] = sync[e]
  BY <1>2, DeviceFacts
<1>7. DeviceTypeOK'
  <2>1. act' \in [Actions -> Groups]
    BY <1>1, <1>3, <1>4, DeviceFacts DEF States, Unsettled, Unmade
  <2>2. acct' \in [Devices -> Accounts]
    BY <1>1, <1>3, DeviceFacts
  <2>3. sync' \in [Devices -> SyncStates]
    <3>1. PICK t \in BOOLEAN : sync' = [sync EXCEPT ![d].touched = t]
      <4>1. (sync[d].touched \/ ~Phase(d, "idle")) \in BOOLEAN
        OBVIOUS
      <4> QED BY <1>2, <4>1, Zenon
    <3> QED BY <3>1, DeviceFacts
  <2> QED BY <1>2, <2>1, <2>2, <2>3, DeviceFacts DEF DeviceTypeOK
<1>8. sync[d].phase \in {"refused", "loaded"} => sync[d].action # a /\ sync[d].action \in Actions
  BY <1>1, DeviceFacts DEF OfDevice
<1>9. act'[a].state \in Unsettled \ {"rejected_compensating"} /\ act'[a].state # "none"
  BY <1>4 DEF Unsettled
<1> QED BY <1>1, <1>2, <1>4, <1>5, <1>6, <1>7, <1>8, <1>9, DeviceFacts DEF OwnStep

\* A pull, and the collection of what is to be sent.
LEMMA ReadStep ==
  ASSUME FinancialInv, NEW d \in Devices, Pull(d) \/ Collect(d)
  PROVE  OwnStep(d)
<1>1. CASE Pull(d)
  <2>1. /\ UNCHANGED <<bank, root, calls, answer, act>>
        /\ sync' = [sync EXCEPT ![d].phase = "pulled"]
        /\ acct' = acct \/ acct' = [acct EXCEPT ![d] = bank]
    BY <1>1 DEF Pull, serverVars, rpcVars, Goto
  <2>2. DeviceTypeOK'
    <3>1. sync' \in [Devices -> SyncStates]
      BY <2>1, DeviceFacts DEF SyncStates
    <3>2. acct' \in [Devices -> Accounts]
      BY <2>1, DeviceFacts
    <3> QED BY <2>1, <3>1, <3>2, DeviceFacts DEF DeviceTypeOK
  <2> QED BY <2>1, <2>2, DeviceFacts DEF OwnStep, SyncStates
<1>2. CASE Collect(d)
  <2> DEFINE todo == {a \in Actions : act[a].device = d /\ act[a].state \in Unsettled}
  <2>1. /\ UNCHANGED <<bank, root, calls, answer, act, acct>>
        /\ sync' = [sync EXCEPT ![d] = [NoSync EXCEPT !.phase = "push", !.todo = todo]]
    BY <1>2 DEF Collect, serverVars, rpcVars, deviceVars
  <2>2. todo \subseteq OfDevice(d) /\ todo \in SUBSET Actions
    BY DEF OfDevice
  <2> HIDE DEF todo
  <2> DEFINE new == [NoSync EXCEPT !.phase = "push", !.todo = todo]
  <2>3. new \in SyncStates /\ new.phase = "push" /\ new.todo = todo
    BY <2>2 DEF NoSync, SyncStates
  <2> HIDE DEF new
  <2>4. /\ sync' \in [Devices -> SyncStates]
        /\ sync'[d].phase = "push" /\ sync'[d].todo \subseteq OfDevice(d)
        /\ \A e \in Devices \ {d} : sync'[e] = sync[e]
    <3>1. sync \in [Devices -> SyncStates] /\ sync' = [sync EXCEPT ![d] = new]
      BY <2>1, DeviceFacts DEF new
    <3> QED BY <2>2, <2>3, <3>1, SyncMoves
  <2>5. DeviceTypeOK'
    BY <2>1, <2>4, DeviceFacts DEF DeviceTypeOK
  <2> QED BY <2>1, <2>4, <2>5, DeviceFacts DEF OwnStep
<1> QED BY <1>1, <1>2

\* A group is marked as pending and sent.
LEMMA SendStep ==
  ASSUME FinancialInv, NEW d \in Devices, Send(d)
  PROVE  OwnStep(d)
<1> USE DEF SyncStates, Groups, Outcomes
<1>1. PICK a \in First(d) :
         /\ act' = [act EXCEPT ![a].state = "sync_pending", ![a].tries = @ + 1]
         /\ calls' = calls \cup {[action |-> a, try |-> act[a].tries + 1]}
         /\ sync' = [sync EXCEPT ![d].phase = "wait", ![d].action = a]
  BY DEF Send
<1>2. /\ UNCHANGED <<bank, root, acct>>
      /\ answer' = [answer EXCEPT ![d] = Undecided]
  BY DEF Send, serverVars
<1>3. a \in OfDevice(d) /\ a \in Actions /\ act[a].device = d
  BY DeviceFacts DEF First, OfDevice
<1>4. Undecided \in Outcomes
  BY DEF Undecided, Zero, Accounts
<1>5. /\ act'[a].state = "sync_pending" /\ act'[a].device = d
      /\ \A b \in Actions \ {a} : act'[b] = act[b]
  BY <1>1, <1>3, DeviceFacts
<1>6. act' \in [Actions -> Groups]
  BY <1>1, <1>3, DeviceFacts DEF States, Unsettled
<1>7. DeviceTypeOK'
  BY <1>1, <1>2, <1>3, <1>4, <1>6, DeviceFacts DEF DeviceTypeOK
<1>8. calls' \subseteq [action : Actions, try : Nat]
  BY <1>1, <1>3, DeviceFacts
<1>9. /\ sync'[d].phase = "wait" /\ sync'[d].todo = sync[d].todo /\ sync'[d].action = a
      /\ \A e \in Devices \ {d} : sync'[e] = sync[e] /\ answer'[e] = answer[e]
      /\ answer'[d].outcome = "none"
  BY <1>1, <1>2, DeviceFacts DEF Undecided
<1>10. "sync_pending" \in Unsettled \ {"rejected_compensating"} /\ "sync_pending" # "none"
  BY DEF Unsettled
<1> QED BY <1>2, <1>3, <1>5, <1>7, <1>8, <1>9, <1>10, DeviceFacts DEF OwnStep

\* An answer is stored in its group.
LEMMA ReceiveStep ==
  ASSUME FinancialInv, NEW d \in Devices, Receive(d)
  PROVE  OwnStep(d)
<1> DEFINE a == sync[d].action
           state == IF answer[d].outcome = "accepted" THEN "accepted" ELSE "rejected_compensating"
<1>1. /\ sync[d].phase = "wait" /\ answer[d].outcome # "none"
      /\ act' = [act EXCEPT ![a].state = state, ![a].canonical = answer[d].canonical]
      /\ \/ /\ answer[d].outcome = "accepted"
            /\ sync' = [sync EXCEPT ![d].phase = "push", ![d].todo = @ \ {a}]
         \/ /\ answer[d].outcome # "accepted"
            /\ sync' = [sync EXCEPT ![d].phase = "refused"]
      /\ UNCHANGED <<bank, root, calls, answer, acct>>
  BY DEF Receive, Phase, Current, Handled, Goto, serverVars, rpcVars
<1>2. a \in OfDevice(d) /\ a \in Actions /\ act[a].device = d /\ answer[d] = root[a]
  BY <1>1, DeviceFacts DEF OfDevice
<1>3. answer[d].outcome \in {"accepted"} \cup Refused /\ answer[d].canonical \in Accounts
  BY <1>1, DeviceFacts DEF Outcomes
<1>4. sync \in [Devices -> SyncStates] /\ act \in [Actions -> Groups]
  BY DeviceFacts
<1>5. /\ sync' \in [Devices -> SyncStates]
      /\ sync'[d].todo \subseteq sync[d].todo /\ sync'[d].action = a
      /\ sync'[d].phase \in {"push", "refused"}
      /\ sync'[d].phase = "refused" => state = "rejected_compensating"
      /\ \A e \in Devices \ {d} : sync'[e] = sync[e]
  <2>1. CASE /\ answer[d].outcome = "accepted"
             /\ sync' = [sync EXCEPT ![d].phase = "push", ![d].todo = @ \ {a}]
    BY <1>4, <2>1 DEF SyncStates
  <2>2. CASE answer[d].outcome # "accepted" /\ sync' = [sync EXCEPT ![d].phase = "refused"]
    BY <1>4, <2>2 DEF SyncStates
  <2> QED BY <1>1, <2>1, <2>2
<1>6. state \in States \ {"none"}
  BY DEF States, Unsettled
<1>7. \/ state = "accepted" /\ root[a].outcome = "accepted"
      \/ state = "rejected_compensating" /\ root[a].outcome \in Refused
  BY <1>2, <1>3
<1>8. act' = [act EXCEPT ![a].state = state, ![a].canonical = answer[d].canonical]
  BY <1>1
<1> HIDE DEF state, a
<1>9. /\ act' \in [Actions -> Groups]
      /\ act'[a].state = state /\ act'[a].device = act[a].device
      /\ \A b \in Actions \ {a} : act'[b] = act[b]
  BY <1>2, <1>3, <1>4, <1>6, <1>8, Answered
<1>10. DeviceTypeOK'
  BY <1>1, <1>5, <1>9, DeviceFacts DEF DeviceTypeOK
<1>11. sync'[d].todo \subseteq OfDevice(d)
  BY <1>5, DeviceFacts
<1> QED BY <1>1, <1>2, <1>5, <1>6, <1>7, <1>9, <1>10, <1>11, DeviceFacts DEF OwnStep

\* A refusal is loaded to be compensated, now or after a restart.
LEMMA ReconcileStep ==
  ASSUME FinancialInv, NEW d \in Devices, RetryReconcile(d) \/ LoadBundle(d)
  PROVE  OwnStep(d)
<1>1. UNCHANGED <<bank, root, calls, answer, act, acct>>
  BY DEF RetryReconcile, LoadBundle, serverVars, rpcVars, deviceVars
<1>2. /\ sync' \in [Devices -> SyncStates]
      /\ sync'[d].phase # "wait" /\ sync'[d].todo = sync[d].todo
      /\ sync'[d].action \in OfDevice(d)
      /\ act[sync'[d].action].state = "rejected_compensating"
      /\ \A e \in Devices \ {d} : sync'[e] = sync[e]
  <2>1. sync \in [Devices -> SyncStates]
    BY DeviceFacts
  <2>2. CASE RetryReconcile(d)
    <3>1. PICK a \in First(d) :
             /\ act[a].state = "rejected_compensating"
             /\ sync' = [sync EXCEPT ![d].phase = "refused", ![d].action = a]
      BY <2>2 DEF RetryReconcile
    <3>2. a \in OfDevice(d) /\ a \in Actions
      BY DeviceFacts DEF First, OfDevice
    <3> QED BY <2>1, <3>1, <3>2 DEF SyncStates
  <2>3. CASE LoadBundle(d)
    <3>1. /\ sync[d].phase = "refused"
          /\ sync' = [sync EXCEPT ![d].phase = "loaded", ![d].touched = FALSE]
      BY <2>3 DEF LoadBundle, Phase
    <3>2. sync[d].action \in OfDevice(d) /\ act[sync[d].action].state = "rejected_compensating"
      BY <3>1, DeviceFacts
    <3> QED BY <2>1, <3>1, <3>2 DEF SyncStates
  <2> QED BY <2>2, <2>3
<1>3. DeviceTypeOK'
  BY <1>1, <1>2, DeviceFacts DEF DeviceTypeOK
<1> QED BY <1>1, <1>2, <1>3, DeviceFacts DEF OwnStep

\* The snapshot of a refusal is installed.
LEMMA InstallStep ==
  ASSUME FinancialInv, NEW d \in Devices, Install(d)
  PROVE  OwnStep(d)
<1> DEFINE a == sync[d].action
<1>1. /\ sync[d].phase = "loaded"
      /\ \/ UNCHANGED <<acct, act>>
         \/ /\ acct' = [acct EXCEPT ![d] = act[a].canonical]
            /\ act' = [act EXCEPT ![a].state = "reconciled"]
      /\ sync' = [sync EXCEPT ![d].phase = "push", ![d].todo = @ \ {a}, ![d].touched = TRUE]
      /\ UNCHANGED <<bank, root, calls, answer>>
  BY DEF Install, Phase, Current, SetState, serverVars, rpcVars
<1>2. /\ a \in OfDevice(d) /\ a \in Actions /\ act[a].device = d
      /\ act[a].state = "rejected_compensating"
  BY <1>1, DeviceFacts DEF OfDevice
<1>3. /\ sync \in [Devices -> SyncStates] /\ act \in [Actions -> Groups]
      /\ act[a].canonical \in Accounts
  BY <1>2, DeviceFacts DEF Groups
<1>4. root[a].outcome \in Refused
  BY <1>2 DEF FinancialInv, NoFalseOutcome, Refused
<1>5. /\ sync' \in [Devices -> SyncStates]
      /\ sync'[d].phase = "push" /\ sync'[d].todo \subseteq sync[d].todo
      /\ \A e \in Devices \ {d} : sync'[e] = sync[e]
  <2>1. sync' = [sync EXCEPT ![d].phase = "push", ![d].todo = @ \ {a}, ![d].touched = TRUE]
    BY <1>1
  <2> HIDE DEF a
  <2> QED BY <1>3, <2>1 DEF SyncStates
<1> HIDE DEF a
<1>6. /\ act' \in [Actions -> Groups]
      /\ act'[a].state \in {"rejected_compensating", "reconciled"} /\ act'[a].device = d
      /\ \A b \in Actions \ {a} : act'[b] = act[b]
  <2>1. CASE UNCHANGED <<acct, act>>
    BY <1>2, <1>3, <2>1
  <2>2. CASE act' = [act EXCEPT ![a].state = "reconciled"]
    <3>1. "reconciled" \in States
      BY DEF States
    <3> QED BY <1>2, <1>3, <2>2, <3>1, Settled
  <2> QED BY <1>1, <2>1, <2>2
<1>7. acct' \in [Devices -> Accounts]
  BY <1>1, <1>3, DeviceFacts
<1>8. DeviceTypeOK'
  BY <1>1, <1>5, <1>6, <1>7, DeviceFacts DEF DeviceTypeOK
<1>9. sync'[d].todo \subseteq OfDevice(d)
  BY <1>5, DeviceFacts
<1>10. \A b \in Actions :
         /\ act'[b] = act[b] \/ act[b].device = d
         /\ act'[b].device = act[b].device
         /\ act[b].state # "none" => act'[b].state # "none"
         /\ act'[b].state # "none" \/ act'[b] = act[b]
         /\ \/ act'[b].state = act[b].state
            \/ act'[b].state \in {"rejected_compensating", "reconciled"} /\ root[b].outcome \in Refused
  BY <1>2, <1>4, <1>6
<1> QED BY <1>1, <1>5, <1>8, <1>9, <1>10, DeviceFacts DEF OwnStep

\* The synchronization ends, with the action in hand failed or not.
LEMMA EndStep ==
  ASSUME FinancialInv, NEW d \in Devices, Finish(d) \/ CallFails(d) \/ Kill(d)
  PROVE  OwnStep(d)
<1>1. /\ UNCHANGED <<bank, root, calls, answer, acct>>
      /\ sync' = [sync EXCEPT ![d] = NoSync]
      /\ \/ act' = act
         \/ sync[d].phase = "wait" /\ act' = [act EXCEPT ![sync[d].action].state = "sync_failed"]
  BY DEF Finish, CallFails, Kill, Phase, Current, SetState, serverVars, rpcVars, deviceVars
<1>2. /\ sync' \in [Devices -> SyncStates]
      /\ sync'[d].phase = "idle" /\ sync'[d].todo = {}
      /\ \A e \in Devices \ {d} : sync'[e] = sync[e]
  <2>1. NoSync \in SyncStates /\ NoSync.phase = "idle" /\ NoSync.todo = {}
    BY DEF NoSync, SyncStates
  <2>2. sync \in [Devices -> SyncStates]
    BY DeviceFacts
  <2> QED BY <1>1, <2>1, <2>2, SyncMoves
<1>3. /\ act' \in [Actions -> Groups]
      /\ \A b \in Actions :
           /\ act'[b] = act[b] \/ act[b].device = d
           /\ act'[b].device = act[b].device
           /\ act[b].state # "none" => act'[b].state # "none"
           /\ act'[b].state # "none" \/ act'[b] = act[b]
           /\ act'[b].state = act[b].state \/ act'[b].state = "sync_failed"
  <2>1. CASE act' = act
    BY <2>1, DeviceFacts
  <2>2. CASE sync[d].phase = "wait" /\ act' = [act EXCEPT ![sync[d].action].state = "sync_failed"]
    <3>1. sync[d].action \in Actions /\ act[sync[d].action].device = d
      BY <2>2, DeviceFacts DEF OfDevice
    <3>2. "sync_failed" \in States /\ act \in [Actions -> Groups]
      BY DeviceFacts DEF States, Unsettled
    <3>3. /\ act' \in [Actions -> Groups]
          /\ act'[sync[d].action].state = "sync_failed"
          /\ act'[sync[d].action].device = d
          /\ \A b \in Actions \ {sync[d].action} : act'[b] = act[b]
      BY <2>2, <3>1, <3>2, Settled
    <3> QED BY <3>1, <3>3
  <2> QED BY <1>1, <2>1, <2>2
<1>4. DeviceTypeOK'
  BY <1>1, <1>2, <1>3, DeviceFacts DEF DeviceTypeOK
<1>5. "sync_failed" \in Unsettled \ {"rejected_compensating"}
  BY DEF Unsettled
<1> QED BY <1>1, <1>2, <1>3, <1>4, <1>5, DeviceFacts DEF OwnStep

-----------------------------------------------------------------------------
\* Every step keeps the invariant.
LEMMA FinancialNextInv == FinancialInv /\ [FinancialNext]_financialVars => FinancialInv'
<1> SUFFICES ASSUME FinancialInv, [FinancialNext]_financialVars
             PROVE  FinancialInv'
  OBVIOUS
<1>1. ASSUME NEW call \in calls, Apply(call) PROVE FinancialInv'
  BY <1>1, ApplyInv
<1>2. ASSUME NEW d \in Devices, CommitLocally(d) \/ DeviceStep(d) \/ CallFails(d) \/ Kill(d)
      PROVE  FinancialInv'
  <2>1. OwnStep(d)
    BY <1>2, CommitStep, ReadStep, SendStep, ReceiveStep, ReconcileStep, InstallStep, EndStep
       DEF DeviceStep
  <2> QED BY <2>1, OwnStepInv
<1>3. CASE UNCHANGED financialVars
  BY <1>3 DEF financialVars, serverVars, rpcVars, deviceVars, FinancialInv, ServerTypeOK,
              DeviceTypeOK, BooksBalance, AcceptedActions, OwnWork, OfDevice, AnswerIsRoot,
              Compensates, NoFalseOutcome
<1> QED BY <1>1, <1>2, <1>3 DEF FinancialNext

\* The server's books balance: what is in the account is what was accepted,
\* each action once, however often its call was sent, lost or answered late
\* (apply_account_financial_action_v1).
THEOREM BooksAlwaysBalance == FinancialSpec => []BooksBalance
<1>1. FinancialInv => BooksBalance
  BY DEF FinancialInv
<1> QED BY <1>1, FinancialInitInv, FinancialNextInv, PTL DEF FinancialSpec

\* No device takes an action for accepted that the server did not accept, and
\* none compensates one that it accepted or will accept
\* (recordFinancialActionGroupServerOutcome, installCanonicalSnapshotAtomically).
THEOREM OutcomesAreTrue == FinancialSpec => []NoFalseOutcome
<1>1. FinancialInv => NoFalseOutcome
  BY DEF FinancialInv
<1> QED BY <1>1, FinancialInitInv, FinancialNextInv, PTL DEF FinancialSpec

-----------------------------------------------------------------------------
(***************************************************************************)
(* The balances.  What the server had at a revision is what it accepted    *)
(* below it, and a device shows one of these balances with its own actions *)
(* since then on top.  When none of them is left to settle, all of them    *)
(* were accepted (what is refused is taken off by installing the balance   *)
(* of the refusal), and then they are what the server accepted in between: *)
(* it accepts one action per revision, at the revision it was made at.     *)
(***************************************************************************)
WasTrue(account) ==
    account.revision \in 0..bank.revision /\ account.balance = books[account.revision]

\* What was called or decided was made.
MadeFirst ==
    /\ \A a \in Actions : root[a].outcome # "none" => act[a].state # "none"
    /\ \A call \in calls : act[call.action].state # "none"

\* The books hold the accepted actions by the revision they were made at.
BooksTrue ==
    /\ books \in [0..bank.revision -> [Actions -> Nat]]
    /\ \A r \in 0..bank.revision, a \in Actions :
         books[r][a] = IF a \in AcceptedActions /\ act[a].expects < r THEN 1 ELSE 0

\* The server accepts one action at a revision.
OneByOne ==
    /\ \A a \in AcceptedActions : act[a].expects < bank.revision
    /\ \A a, b \in AcceptedActions : act[a].expects = act[b].expects => a = b

\* The balance an outcome carries, and the one a refused action will install.
SnapshotsTrue ==
    \A a \in Actions :
        /\ root[a].outcome # "none" => WasTrue(root[a].canonical)
        /\ act[a].state = "rejected_compensating" => act[a].canonical = root[a].canonical

\* The device shows the server's balance at revision base with the actions of
\* mine on top, one for each revision since.
OnTop(d, base, mine) ==
    /\ base <= acct[d].revision
    /\ \A a \in mine :
         /\ act[a].device = d /\ act[a].state \notin {"none", "reconciled"}
         /\ base <= act[a].expects /\ act[a].expects < acct[d].revision
    /\ \A r \in Nat : base <= r /\ r < acct[d].revision => \E a \in mine : act[a].expects = r
    /\ \A a \in Actions : acct[d].balance[a] = books[base][a] + (IF a \in mine THEN 1 ELSE 0)

AccountsOnTop ==
    \A d \in Devices : \E base \in 0..bank.revision, mine \in SUBSET Actions : OnTop(d, base, mine)

BooksInv == MadeFirst /\ BooksTrue /\ OneByOne /\ SnapshotsTrue /\ AccountsOnTop

\* With all of its actions settled, a device shows a balance of the books.
LEMMA SettledIsTrue == FinancialInv /\ BooksInv => BalanceWasTrue
<1> SUFFICES ASSUME FinancialInv, BooksInv, NEW d \in Devices,
                    \A a \in Actions : act[a].device = d => act[a].state \notin Unsettled
             PROVE  acct[d].revision \in DOMAIN books /\ acct[d].balance = books[acct[d].revision]
  BY DEF BalanceWasTrue
<1>1. PICK base \in 0..bank.revision, mine \in SUBSET Actions : OnTop(d, base, mine)
  BY DEF BooksInv, AccountsOnTop
<1>2. /\ acct[d] \in Accounts /\ bank.revision \in Nat /\ act \in [Actions -> Groups]
      /\ books \in [0..bank.revision -> [Actions -> Nat]]
  BY DEF FinancialInv, DeviceTypeOK, ServerTypeOK, Accounts, BooksInv, BooksTrue
<1>3. acct[d].revision \in Nat /\ acct[d].balance \in [Actions -> Nat]
  BY <1>2 DEF Accounts
<1>4. \A a \in Actions : act[a].expects \in Nat /\ act[a].state \in States
  BY <1>2 DEF Groups
<1>5. ASSUME NEW a \in mine PROVE a \in AcceptedActions
  <2>1. act[a].state = "accepted"
    BY <1>1, <1>4 DEF OnTop, States
  <2> QED BY <2>1 DEF FinancialInv, NoFalseOutcome, AcceptedActions
<1>6. acct[d].revision <= bank.revision
  <2>1. CASE acct[d].revision = base
    BY <2>1
  <2>2. CASE base < acct[d].revision
    <3> DEFINE r == acct[d].revision - 1
    <3>1. r \in Nat /\ base <= r /\ r < acct[d].revision
      BY <1>3, <2>2
    <3>2. PICK a \in mine : act[a].expects = r
      BY <1>1, <3>1 DEF OnTop
    <3>3. r < bank.revision
      BY <1>5, <3>2 DEF BooksInv, OneByOne
    <3> QED BY <1>2, <1>3, <3>3
  <2> QED BY <1>1, <1>3, <2>1, <2>2 DEF OnTop
<1>7. ASSUME NEW a \in Actions PROVE acct[d].balance[a] = books[acct[d].revision][a]
  <2> DEFINE rev == acct[d].revision
  <2>1. acct[d].balance[a] = books[base][a] + (IF a \in mine THEN 1 ELSE 0)
    BY <1>1 DEF OnTop
  <2>2. books[base][a] = IF a \in AcceptedActions /\ act[a].expects < base THEN 1 ELSE 0
    BY DEF BooksInv, BooksTrue
  <2>3. books[rev][a] = IF a \in AcceptedActions /\ act[a].expects < rev THEN 1 ELSE 0
    BY <1>2, <1>3, <1>6 DEF BooksInv, BooksTrue
  <2>4. a \in mine => a \in AcceptedActions /\ base <= act[a].expects /\ act[a].expects < rev
    BY <1>1, <1>5 DEF OnTop
  <2>5. ASSUME a \in AcceptedActions, base <= act[a].expects, act[a].expects < rev PROVE a \in mine
    <3>1. PICK b \in mine : act[b].expects = act[a].expects
      BY <1>1, <1>4, <2>5 DEF OnTop
    <3>2. b \in AcceptedActions
      BY <1>5
    <3> QED BY <2>5, <3>1, <3>2 DEF BooksInv, OneByOne
  <2>6. base <= rev
    BY <1>1 DEF OnTop
  <2> QED BY <1>2, <1>3, <1>4, <2>1, <2>2, <2>3, <2>4, <2>5, <2>6
<1>8. acct[d].revision \in 0..bank.revision
  BY <1>2, <1>3, <1>6
<1>9. books[acct[d].revision] \in [Actions -> Nat]
  BY <1>2, <1>8
<1> QED BY <1>2, <1>3, <1>7, <1>8, <1>9

\* The books hold at the start.
LEMMA BooksInitInv == FinancialInit => BooksInv
<1> SUFFICES ASSUME FinancialInit PROVE BooksInv
  OBVIOUS
<1> USE DEF FinancialInit
<1>1. /\ bank.revision = 0 /\ AcceptedActions = {}
      /\ books = [r \in {0} |-> [a \in Actions |-> 0]]
      /\ \A a \in Actions : root[a].outcome = "none" /\ act[a].state = "none"
  BY DEF Zero, AcceptedActions, Undecided, Unmade
<1>2. 0..bank.revision = {0}
  BY <1>1
<1>3. MadeFirst /\ OneByOne /\ SnapshotsTrue
  BY <1>1 DEF MadeFirst, OneByOne, SnapshotsTrue
<1>4. BooksTrue
  BY <1>1, <1>2 DEF BooksTrue
<1>5. ASSUME NEW d \in Devices PROVE OnTop(d, 0, {})
  BY <1>1 DEF OnTop, Zero
<1> QED BY <1>2, <1>3, <1>4, <1>5 DEF BooksInv, AccountsOnTop

-----------------------------------------------------------------------------
\* The server's balance is the last of its books.
LEMMA BankIsTrue == FinancialInv /\ BooksInv => WasTrue(bank)
<1> SUFFICES ASSUME FinancialInv, BooksInv PROVE WasTrue(bank)
  OBVIOUS
<1>1. /\ bank.revision \in Nat /\ bank.balance \in [Actions -> Nat]
      /\ books[bank.revision] \in [Actions -> Nat]
  BY DEF FinancialInv, ServerTypeOK, Accounts, BooksInv, BooksTrue
<1>2. ASSUME NEW a \in Actions PROVE bank.balance[a] = books[bank.revision][a]
  <2>1. bank.balance[a] = IF a \in AcceptedActions THEN 1 ELSE 0
    BY DEF FinancialInv, BooksBalance
  <2>2. books[bank.revision][a] = IF a \in AcceptedActions /\ act[a].expects < bank.revision THEN 1 ELSE 0
    BY <1>1 DEF BooksInv, BooksTrue
  <2>3. a \in AcceptedActions => act[a].expects < bank.revision
    BY DEF BooksInv, OneByOne
  <2> QED BY <2>1, <2>2, <2>3
<1> QED BY <1>1, <1>2 DEF WasTrue

\* A device that has installed a balance of the books shows nothing on top.
LEMMA TrueOnTop ==
  ASSUME NEW d \in Devices, acct'[d] \in Accounts, WasTrue(acct[d])', BooksTrue'
  PROVE  \E base \in 0..bank'.revision, mine \in SUBSET Actions : OnTop(d, base, mine)'
<1>1. acct'[d].revision \in 0..bank'.revision /\ acct'[d].revision \in Nat
  BY DEF WasTrue, Accounts
<1>2. books'[acct'[d].revision] \in [Actions -> Nat]
  BY <1>1 DEF BooksTrue
<1>3. OnTop(d, acct[d].revision, {})'
  BY <1>1, <1>2 DEF OnTop, WasTrue
<1> QED BY <1>1, <1>3

\* A call that is decided now writes a page of the books, or leaves them.
LEMMA DecideBooks ==
  ASSUME FinancialInv, BooksInv, NEW a \in Actions, root[a].outcome = "none", Decide(a),
         act' = act, act[a].state # "none", FinancialInv'
  PROVE  /\ BooksTrue' /\ OneByOne'
         /\ bank'.revision \in Nat /\ bank.revision <= bank'.revision
         /\ \A r \in 0..bank.revision : books'[r] = books[r]
         /\ root'[a].canonical = bank'
         /\ \A b \in Actions \ {a} : root'[b] = root[b]
<1>1. PICK outcome \in {"accepted", "rejected", "stale"} :
         /\ outcome = "accepted" => bank.revision = act[a].expects
         /\ bank' = IF outcome = "accepted" THEN Plus(bank, a) ELSE bank
         /\ root' = [root EXCEPT ![a] = [outcome |-> outcome, canonical |-> bank']]
         /\ books' = [r \in 0..bank'.revision |->
                        IF r = bank'.revision THEN bank'.balance ELSE books[r]]
  BY DEF Decide
<1>2. /\ bank.revision \in Nat /\ bank'.revision \in Nat
      /\ bank'.balance \in [Actions -> Nat] /\ root \in [Actions -> Outcomes]
      /\ books \in [0..bank.revision -> [Actions -> Nat]]
  BY DEF FinancialInv, ServerTypeOK, Accounts, BooksInv, BooksTrue
<1>3. /\ root'[a].canonical = bank' /\ root'[a].outcome = outcome
      /\ \A b \in Actions \ {a} : root'[b] = root[b]
  BY <1>1, <1>2
<1>4. WasTrue(bank)
  BY BankIsTrue
<1>5. \A b \in Actions : bank'.balance[b] = IF b \in AcceptedActions' THEN 1 ELSE 0
  BY DEF FinancialInv, BooksBalance
<1>6. \A b \in Actions : act[b].expects \in Nat
  BY DEF FinancialInv, DeviceTypeOK, Groups
<1>7. CASE outcome = "accepted"
  <2>1. bank'.revision = bank.revision + 1 /\ act[a].expects = bank.revision
    BY <1>1, <1>7 DEF Plus
  <2>2. AcceptedActions' = AcceptedActions \cup {a} /\ a \notin AcceptedActions
    BY <1>3, <1>7 DEF AcceptedActions
  <2>3. \A r \in 0..bank.revision : books'[r] = books[r]
    BY <1>1, <1>2, <2>1
  <2>4. books'[bank'.revision] = bank'.balance
    BY <1>1, <1>2
  <2>5. OneByOne'
    <3>1. ASSUME NEW b \in AcceptedActions
          PROVE  b \in Actions /\ act[b].expects \in Nat /\ act[b].expects < bank.revision
      BY <1>6 DEF BooksInv, OneByOne, AcceptedActions
    <3>2. \A b \in AcceptedActions' : act'[b].expects < bank'.revision
      BY <1>2, <2>1, <2>2, <3>1
    <3>3. ASSUME NEW b \in AcceptedActions', NEW c \in AcceptedActions', act'[b].expects = act'[c].expects
          PROVE  b = c
      BY <1>2, <2>1, <2>2, <3>1, <3>3 DEF BooksInv, OneByOne
    <3> QED BY <3>2, <3>3 DEF OneByOne
  <2>6. books' \in [0..bank'.revision -> [Actions -> Nat]]
    BY <1>1, <1>2, <2>1
  <2>7. ASSUME NEW r \in 0..bank'.revision, NEW b \in Actions
        PROVE  books'[r][b] = IF b \in AcceptedActions' /\ act[b].expects < r THEN 1 ELSE 0
    <3>1. CASE r = bank'.revision
      <4>1. b \in AcceptedActions' => act[b].expects < bank'.revision
        BY <2>5 DEF OneByOne
      <4> QED BY <1>5, <2>4, <3>1, <4>1
    <3>2. CASE r # bank'.revision
      <4>1. r \in 0..bank.revision /\ r <= bank.revision
        BY <1>2, <2>1, <3>2
      <4>2. books'[r][b] = IF b \in AcceptedActions /\ act[b].expects < r THEN 1 ELSE 0
        BY <2>3, <4>1 DEF BooksInv, BooksTrue
      <4> QED BY <1>2, <1>6, <2>1, <2>2, <4>1, <4>2
    <3> QED BY <3>1, <3>2
  <2>8. BooksTrue'
    BY <2>6, <2>7 DEF BooksTrue
  <2> QED BY <1>2, <1>3, <2>1, <2>3, <2>5, <2>8
<1>8. CASE outcome # "accepted"
  <2>1. bank' = bank
    BY <1>1, <1>8
  <2>2. AcceptedActions' = AcceptedActions
    BY <1>3, <1>8 DEF AcceptedActions
  <2>3. books' = books
    BY <1>1, <1>2, <1>4, <2>1 DEF WasTrue
  <2>4. BooksTrue' /\ OneByOne'
    BY <2>1, <2>2, <2>3 DEF BooksInv, BooksTrue, OneByOne
  <2> QED BY <1>2, <1>3, <2>1, <2>3, <2>4
<1> QED BY <1>7, <1>8

\* The server's step keeps the books.
LEMMA ApplyBooks ==
  ASSUME FinancialInv, BooksInv, NEW call \in calls, Apply(call), FinancialInv'
  PROVE  BooksInv'
<1> DEFINE a == call.action
<1>1. /\ UNCHANGED <<acct, act>> /\ calls' = calls \ {call}
  BY DEF Apply, Answer, deviceVars
<1>2. a \in Actions /\ act[a].state # "none"
  BY DEF FinancialInv, ServerTypeOK, BooksInv, MadeFirst
<1>3. /\ BooksTrue' /\ OneByOne'
      /\ bank'.revision \in Nat /\ bank.revision \in Nat /\ bank.revision <= bank'.revision
      /\ \A r \in 0..bank.revision : books'[r] = books[r]
      /\ \A b \in Actions : root'[b] = root[b] \/ (b = a /\ root[a].outcome = "none" /\ root'[a].canonical = bank')
  <2>1. CASE root[a].outcome = "none"
    <3>1. Decide(a)
      BY <2>1 DEF Apply
    <3>2. bank.revision \in Nat
      BY DEF FinancialInv, ServerTypeOK, Accounts
    <3> QED BY <1>1, <1>2, <2>1, <3>1, <3>2, DecideBooks
  <2>2. CASE root[a].outcome # "none"
    <3>1. UNCHANGED <<bank, root, books>>
      BY <2>2 DEF Apply, serverVars
    <3> QED BY <1>1, <3>1 DEF FinancialInv, ServerTypeOK, Accounts, BooksInv, BooksTrue, OneByOne, AcceptedActions
  <2> QED BY <2>1, <2>2
<1> HIDE DEF a
<1>4. MadeFirst'
  BY <1>1, <1>2, <1>3 DEF BooksInv, MadeFirst
<1>5. \A account : WasTrue(account) => WasTrue(account)'
  BY <1>3 DEF WasTrue
<1>6. SnapshotsTrue'
  <2>1. ASSUME NEW b \in Actions, root'[b].outcome # "none" PROVE WasTrue(root[b].canonical)'
    <3>1. CASE root'[b] = root[b]
      <4>1. WasTrue(root[b].canonical)
        BY <2>1, <3>1 DEF BooksInv, SnapshotsTrue
      <4> QED BY <1>3, <3>1, <4>1 DEF WasTrue
    <3>2. CASE root'[b].canonical = bank'
      <4>1. /\ bank' \in Accounts /\ bank'.revision \in 0..bank'.revision
        BY <1>3 DEF FinancialInv, ServerTypeOK
      <4>2. books'[bank'.revision] = bank'.balance
        <5>1. /\ books'[bank'.revision] \in [Actions -> Nat] /\ bank'.balance \in [Actions -> Nat]
          BY <1>3, <4>1 DEF BooksTrue, Accounts
        <5>2. ASSUME NEW c \in Actions PROVE books'[bank'.revision][c] = bank'.balance[c]
          BY <1>1, <1>3, <4>1 DEF BooksTrue, OneByOne, FinancialInv, BooksBalance
        <5> QED BY <5>1, <5>2
      <4> QED BY <3>2, <4>1, <4>2 DEF WasTrue
    <3> QED BY <1>3, <3>1, <3>2
  <2>2. ASSUME NEW b \in Actions, act[b].state = "rejected_compensating"
        PROVE  act[b].canonical = root'[b].canonical
    <3>1. root[b].outcome # "none" /\ act[b].canonical = root[b].canonical
      BY <2>2 DEF FinancialInv, NoFalseOutcome, BooksInv, SnapshotsTrue
    <3> QED BY <1>3, <3>1
  <2> QED BY <1>1, <2>1, <2>2 DEF SnapshotsTrue
<1>7. AccountsOnTop'
  <2> SUFFICES ASSUME NEW d \in Devices
               PROVE  \E base \in 0..bank'.revision, mine \in SUBSET Actions : OnTop(d, base, mine)'
    BY DEF AccountsOnTop
  <2>1. PICK base \in 0..bank.revision, mine \in SUBSET Actions : OnTop(d, base, mine)
    BY DEF BooksInv, AccountsOnTop
  <2>2. OnTop(d, base, mine)'
    BY <1>1, <1>3, <2>1 DEF OnTop
  <2>3. base \in 0..bank'.revision
    BY <1>3
  <2> QED BY <2>2, <2>3
<1> QED BY <1>3, <1>4, <1>6, <1>7 DEF BooksInv

-----------------------------------------------------------------------------
\* What a step of a device's synchronization does to the balances: actions
\* keep the revision they were made at, a refused one takes the outcome's
\* balance, and what is taken off the account leaves a balance the server had.
Settles(d) ==
    /\ UNCHANGED <<bank, root, books>>
    /\ \A a \in Actions :
        /\ act'[a].expects = act[a].expects /\ act'[a].device = act[a].device
        /\ act[a].state # "none" => act'[a].state # "none"
        /\ act'[a].state = "rejected_compensating" => act'[a].canonical = root[a].canonical
        /\ act'[a].state = "reconciled" => act[a].state = "reconciled" \/ act[a].device = d
    /\ \A call \in calls' : call \in calls \/ (call.action \in Actions /\ act[call.action].state # "none")
    /\ \A e \in Devices \ {d} : acct'[e] = acct[e]
    /\ \/ /\ acct'[d] = acct[d]
          /\ \A a \in Actions : act'[a].state = "reconciled" => act[a].state = "reconciled"
       \/ WasTrue(acct'[d])

\* A device that settles keeps the books.
LEMMA SettlesBooks ==
  ASSUME FinancialInv, BooksInv, FinancialInv', NEW d \in Devices, Settles(d)
  PROVE  BooksInv'
<1>1. UNCHANGED <<bank, root, books>> /\ AcceptedActions' = AcceptedActions
  BY DEF Settles, AcceptedActions
<1>2. \A a \in Actions : act'[a].expects = act[a].expects /\ act'[a].device = act[a].device
  BY DEF Settles
<1>3. BooksTrue'
  BY <1>1, <1>2 DEF BooksInv, BooksTrue
<1>4. OneByOne'
  BY <1>1, <1>2 DEF BooksInv, OneByOne, AcceptedActions
<1>5. MadeFirst'
  <2>1. \A call \in calls : call.action \in Actions
    BY DEF FinancialInv, ServerTypeOK
  <2> QED BY <1>1, <2>1 DEF Settles, BooksInv, MadeFirst
<1>6. SnapshotsTrue'
  BY <1>1 DEF Settles, BooksInv, SnapshotsTrue, WasTrue
<1>7. ASSUME NEW e \in Devices
      PROVE  \E base \in 0..bank'.revision, mine \in SUBSET Actions : OnTop(e, base, mine)'
  <2>1. CASE e = d /\ WasTrue(acct'[d])
    <3>1. acct'[e] \in Accounts /\ bank'.revision \in Nat
      BY DEF FinancialInv, DeviceTypeOK, ServerTypeOK, Accounts
    <3>2. WasTrue(acct[e])'
      BY <1>1, <2>1 DEF WasTrue
    <3> QED BY <1>3, <3>1, <3>2, TrueOnTop
  <2>2. CASE /\ acct'[e] = acct[e]
             /\ \A a \in Actions : act[a].device = e /\ act'[a].state = "reconciled" => act[a].state = "reconciled"
    <3>1. PICK base \in 0..bank.revision, mine \in SUBSET Actions : OnTop(e, base, mine)
      BY DEF BooksInv, AccountsOnTop
    <3>2. \A a \in mine : a \in Actions /\ (act[a].state # "none" => act'[a].state # "none")
      BY DEF Settles
    <3>3. OnTop(e, base, mine)'
      BY <1>1, <1>2, <2>2, <3>1, <3>2 DEF OnTop
    <3> QED BY <1>1, <3>3
  <2>3. CASE e # d
    <3>1. acct'[e] = acct[e]
      BY <2>3 DEF Settles
    <3>2. \A a \in Actions : act[a].device = e /\ act'[a].state = "reconciled" => act[a].state = "reconciled"
      BY <2>3 DEF Settles
    <3> QED BY <2>2, <3>1, <3>2
  <2> QED BY <2>1, <2>2, <2>3 DEF Settles
<1>8. AccountsOnTop'
  BY <1>7 DEF AccountsOnTop
<1> QED BY <1>3, <1>4, <1>5, <1>6, <1>8 DEF BooksInv

\* A new action is one more on top of its account.
LEMMA CommitBooks ==
  ASSUME FinancialInv, BooksInv, FinancialInv', NEW d \in Devices, CommitLocally(d)
  PROVE  BooksInv'
<1>1. PICK a \in Actions :
         /\ act[a].state = "none"
         /\ act' = [act EXCEPT ![a] = [Unmade EXCEPT !.state = "local_complete",
                                          !.device = d, !.expects = acct[d].revision]]
         /\ acct' = [acct EXCEPT ![d] = Plus(@, a)]
         /\ UNCHANGED <<bank, root, books, calls>>
  BY DEF CommitLocally, serverVars, rpcVars
<1>2. act \in [Actions -> Groups] /\ acct \in [Devices -> Accounts] /\ bank.revision \in Nat
  BY DEF FinancialInv, DeviceTypeOK, ServerTypeOK, Accounts
<1>3. /\ act'[a].state = "local_complete" /\ act'[a].device = d /\ act'[a].expects = acct[d].revision
      /\ \A b \in Actions \ {a} : act'[b] = act[b]
  BY <1>1, <1>2 DEF Unmade
<1>4. root[a].outcome = "none" /\ AcceptedActions' = AcceptedActions /\ a \notin AcceptedActions
  BY <1>1 DEF BooksInv, MadeFirst, AcceptedActions
<1>5. MadeFirst'
  <2>1. \A call \in calls : call.action \in Actions /\ call.action # a
    BY <1>1 DEF FinancialInv, ServerTypeOK, BooksInv, MadeFirst
  <2> QED BY <1>1, <1>3, <2>1 DEF BooksInv, MadeFirst
<1>6. BooksTrue'
  BY <1>1, <1>3, <1>4 DEF BooksInv, BooksTrue
<1>7. OneByOne'
  BY <1>1, <1>3, <1>4 DEF BooksInv, OneByOne, AcceptedActions
<1>8. SnapshotsTrue'
  BY <1>1, <1>3 DEF BooksInv, SnapshotsTrue, WasTrue
<1>9. ASSUME NEW e \in Devices
      PROVE  \E base \in 0..bank'.revision, mine \in SUBSET Actions : OnTop(e, base, mine)'
  <2>1. PICK base \in 0..bank.revision, mine \in SUBSET Actions : OnTop(e, base, mine)
    BY DEF BooksInv, AccountsOnTop
  <2>2. a \notin mine
    BY <1>1, <2>1 DEF OnTop
  <2>3. CASE e # d
    <3>1. acct'[e] = acct[e] /\ \A b \in mine : act'[b] = act[b]
      BY <1>1, <1>2, <1>3, <2>2, <2>3
    <3>2. OnTop(e, base, mine)'
      BY <1>1, <2>1, <3>1 DEF OnTop
    <3> QED BY <1>1, <3>2
  <2>4. CASE e = d
    <3> DEFINE rev == acct[d].revision
               all == mine \cup {a}
    <3>1. rev \in Nat /\ acct[d].balance \in [Actions -> Nat]
      BY <1>2 DEF Accounts
    <3>2. /\ acct'[d].revision = rev + 1
          /\ acct'[d].balance = [acct[d].balance EXCEPT ![a] = @ + 1]
      BY <1>1, <1>2 DEF Plus
    <3>3. base \in Nat /\ base <= rev
      BY <1>2, <2>1, <2>4 DEF OnTop
    <3>4. ASSUME NEW b \in all
          PROVE  /\ act'[b].device = d /\ act'[b].state \notin {"none", "reconciled"}
                 /\ base <= act'[b].expects /\ act'[b].expects < rev + 1
      <4>1. CASE b = a
        BY <1>3, <3>1, <3>3, <4>1
      <4>2. CASE b \in mine
        <5>1. act'[b] = act[b] /\ act[b].expects \in Nat
          BY <1>2, <1>3, <2>2, <4>2 DEF Groups
        <5> QED BY <2>1, <2>4, <3>1, <4>2, <5>1 DEF OnTop
      <4> QED BY <4>1, <4>2
    <3>5. ASSUME NEW r \in Nat, base <= r, r < rev + 1 PROVE \E b \in all : act'[b].expects = r
      <4>1. CASE r = rev
        BY <1>3, <4>1
      <4>2. CASE r < rev
        <5>1. PICK b \in mine : act[b].expects = r
          BY <2>1, <2>4, <3>5, <4>2 DEF OnTop
        <5> QED BY <1>3, <2>2, <5>1
      <4> QED BY <3>1, <3>5, <4>1, <4>2
    <3>6. ASSUME NEW b \in Actions
          PROVE  acct'[d].balance[b] = books[base][b] + (IF b \in all THEN 1 ELSE 0)
      <4>1. acct[d].balance[b] = books[base][b] + (IF b \in mine THEN 1 ELSE 0)
        BY <2>1, <2>4 DEF OnTop
      <4>2. books[base][b] \in Nat
        BY DEF BooksInv, BooksTrue
      <4> QED BY <2>2, <3>1, <3>2, <4>1, <4>2
    <3>7. base <= rev + 1
      BY <3>1, <3>3
    <3>8. OnTop(d, base, all)'
      BY <1>1, <3>2, <3>4, <3>5, <3>6, <3>7 DEF OnTop
    <3>9. all \in SUBSET Actions
      OBVIOUS
    <3> QED BY <1>1, <2>4, <3>8, <3>9
  <2> QED BY <2>3, <2>4
<1>10. AccountsOnTop'
  BY <1>9 DEF AccountsOnTop
<1> QED BY <1>5, <1>6, <1>7, <1>8, <1>10 DEF BooksInv

\* Every other step of a device settles.
LEMMA PullSettles ==
  ASSUME FinancialInv, BooksInv, NEW d \in Devices, Pull(d)
  PROVE  Settles(d)
<1>1. /\ UNCHANGED <<bank, root, books, calls, act>>
      /\ acct' = acct \/ acct' = [acct EXCEPT ![d] = bank]
  BY DEF Pull, serverVars, rpcVars
<1>2. WasTrue(bank)
  BY BankIsTrue
<1>3. acct \in [Devices -> Accounts]
  BY DEF FinancialInv, DeviceTypeOK
<1> QED BY <1>1, <1>2, <1>3 DEF Settles, BooksInv, SnapshotsTrue

\* What is sent was on top of the account and still is.
LEMMA SendSettles ==
  ASSUME FinancialInv, BooksInv, NEW d \in Devices, Send(d)
  PROVE  Settles(d)
<1>1. PICK a \in First(d) :
         /\ act' = [act EXCEPT ![a].state = "sync_pending", ![a].tries = @ + 1]
         /\ calls' = calls \cup {[action |-> a, try |-> act[a].tries + 1]}
         /\ UNCHANGED <<bank, root, books, acct>>
  BY DEF Send, serverVars
<1>2. a \in Actions /\ act[a].device = d /\ d # None
  BY DeviceFacts, FinancialAssumption DEF First, OfDevice
<1>3. act[a].state # "none" /\ act \in [Actions -> Groups]
  BY <1>2 DEF FinancialInv, OwnWork, DeviceTypeOK
<1>4. /\ act'[a].state = "sync_pending" /\ act'[a].device = act[a].device
      /\ act'[a].expects = act[a].expects
      /\ \A b \in Actions \ {a} : act'[b] = act[b]
  BY <1>1, <1>2, <1>3 DEF Groups
<1> QED BY <1>1, <1>2, <1>3, <1>4 DEF Settles, BooksInv, SnapshotsTrue

\* What is answered is in the books, or refused.
LEMMA ReceiveSettles ==
  ASSUME FinancialInv, BooksInv, NEW d \in Devices, Receive(d)
  PROVE  Settles(d)
<1> DEFINE a == sync[d].action
           state == IF answer[d].outcome = "accepted" THEN "accepted" ELSE "rejected_compensating"
<1>1. /\ sync[d].phase = "wait" /\ answer[d].outcome # "none"
      /\ act' = [act EXCEPT ![a].state = state, ![a].canonical = answer[d].canonical]
      /\ UNCHANGED <<bank, root, books, calls, acct>>
  BY DEF Receive, Phase, Current, serverVars, rpcVars
<1>2. a \in Actions /\ answer[d] = root[a] /\ act \in [Actions -> Groups]
  BY <1>1, DeviceFacts DEF OfDevice
<1>3. state \in {"accepted", "rejected_compensating"}
  OBVIOUS
<1> HIDE DEF state, a
<1>4. /\ act'[a].state = state /\ act'[a].device = act[a].device
      /\ act'[a].expects = act[a].expects /\ act'[a].canonical = root[a].canonical
      /\ \A b \in Actions \ {a} : act'[b] = act[b]
  BY <1>1, <1>2 DEF Groups
<1> QED BY <1>1, <1>2, <1>3, <1>4 DEF Settles, BooksInv, SnapshotsTrue

\* The snapshot of a refusal is of the books.
LEMMA InstallSettles ==
  ASSUME FinancialInv, BooksInv, NEW d \in Devices, Install(d)
  PROVE  Settles(d)
<1> DEFINE a == sync[d].action
<1>1. /\ sync[d].phase = "loaded"
      /\ \/ UNCHANGED <<acct, act>>
         \/ /\ acct' = [acct EXCEPT ![d] = act[a].canonical]
            /\ act' = [act EXCEPT ![a].state = "reconciled"]
      /\ UNCHANGED <<bank, root, books, calls>>
  BY DEF Install, Phase, Current, SetState, serverVars, rpcVars
<1>2. /\ a \in Actions /\ act[a].device = d /\ act[a].state = "rejected_compensating"
      /\ act \in [Actions -> Groups] /\ acct \in [Devices -> Accounts]
  BY <1>1, DeviceFacts DEF OfDevice
<1>3. WasTrue(act[a].canonical)
  BY <1>2 DEF FinancialInv, NoFalseOutcome, BooksInv, SnapshotsTrue
<1> HIDE DEF a
<1>4. CASE UNCHANGED <<acct, act>>
  BY <1>1, <1>4 DEF Settles, BooksInv, SnapshotsTrue
<1>5. CASE /\ acct' = [acct EXCEPT ![d] = act[a].canonical]
           /\ act' = [act EXCEPT ![a].state = "reconciled"]
  <2>1. /\ act'[a].state = "reconciled" /\ act'[a].device = act[a].device
        /\ act'[a].expects = act[a].expects
        /\ \A b \in Actions \ {a} : act'[b] = act[b]
    BY <1>2, <1>5 DEF Groups
  <2>2. /\ acct'[d] = act[a].canonical /\ \A e \in Devices \ {d} : acct'[e] = acct[e]
    BY <1>2, <1>5
  <2> QED BY <1>1, <1>2, <1>3, <2>1, <2>2 DEF Settles, BooksInv, SnapshotsTrue
<1> QED BY <1>1, <1>4, <1>5

\* The other steps change neither account nor groups.
LEMMA QuietSettles ==
  ASSUME FinancialInv, BooksInv, NEW d \in Devices,
         Collect(d) \/ RetryReconcile(d) \/ LoadBundle(d) \/ Finish(d) \/ CallFails(d) \/ Kill(d)
  PROVE  Settles(d)
<1>1. /\ UNCHANGED <<bank, root, books, calls, acct>>
      /\ \/ act' = act
         \/ sync[d].phase = "wait" /\ act' = [act EXCEPT ![sync[d].action].state = "sync_failed"]
  BY DEF Collect, RetryReconcile, LoadBundle, Finish, CallFails, Kill, Phase, Current, SetState,
         serverVars, rpcVars, deviceVars
<1>2. CASE act' = act
  BY <1>1, <1>2 DEF Settles, BooksInv, SnapshotsTrue
<1>3. CASE sync[d].phase = "wait" /\ act' = [act EXCEPT ![sync[d].action].state = "sync_failed"]
  <2>1. sync[d].action \in Actions /\ act \in [Actions -> Groups]
    BY <1>3, DeviceFacts DEF OfDevice
  <2>2. /\ act'[sync[d].action].state = "sync_failed"
        /\ act'[sync[d].action].device = act[sync[d].action].device
        /\ act'[sync[d].action].expects = act[sync[d].action].expects
        /\ \A b \in Actions \ {sync[d].action} : act'[b] = act[b]
    BY <1>3, <2>1 DEF Groups
  <2> QED BY <1>1, <2>1, <2>2 DEF Settles, BooksInv, SnapshotsTrue
<1> QED BY <1>1, <1>2, <1>3

\* Every step keeps the books.
LEMMA BooksNextInv ==
  FinancialInv /\ FinancialInv' /\ BooksInv /\ [FinancialNext]_financialVars => BooksInv'
<1> SUFFICES ASSUME FinancialInv, FinancialInv', BooksInv, [FinancialNext]_financialVars
             PROVE  BooksInv'
  OBVIOUS
<1>1. ASSUME NEW call \in calls, Apply(call) PROVE BooksInv'
  BY <1>1, ApplyBooks
<1>2. ASSUME NEW d \in Devices, CommitLocally(d) PROVE BooksInv'
  BY <1>2, CommitBooks
<1>3. ASSUME NEW d \in Devices, DeviceStep(d) \/ CallFails(d) \/ Kill(d) PROVE BooksInv'
  <2>1. Settles(d)
    BY <1>3, PullSettles, SendSettles, ReceiveSettles, InstallSettles, QuietSettles DEF DeviceStep
  <2> QED BY <2>1, SettlesBooks
<1>4. CASE UNCHANGED financialVars
  <2>1. UNCHANGED <<bank, root, books, calls, acct, act>> /\ AcceptedActions' = AcceptedActions
    BY <1>4 DEF financialVars, serverVars, rpcVars, deviceVars, AcceptedActions
  <2>2. MadeFirst' /\ BooksTrue' /\ OneByOne' /\ SnapshotsTrue'
    BY <2>1 DEF BooksInv, MadeFirst, BooksTrue, OneByOne, SnapshotsTrue, WasTrue
  <2>3. AccountsOnTop'
    BY <2>1 DEF BooksInv, AccountsOnTop, OnTop
  <2> QED BY <2>2, <2>3 DEF BooksInv
<1> QED BY <1>1, <1>2, <1>3, <1>4 DEF FinancialNext

\* A device with nothing left to settle shows a balance the server had, at the
\* revision the next action will be sent with, whatever was pulled over local
\* changes, refused, installed late or cut off (installCanonicalSnapshotAtomically).
THEOREM BalancesWereTrue == FinancialSpec => []BalanceWasTrue
<1>1. FinancialInit => FinancialInv /\ BooksInv
  BY FinancialInitInv, BooksInitInv
<1>2. FinancialInv /\ BooksInv /\ [FinancialNext]_financialVars => (FinancialInv /\ BooksInv)'
  BY FinancialNextInv, BooksNextInv
<1>3. FinancialInv /\ BooksInv => BalanceWasTrue
  BY SettledIsTrue
<1> QED BY <1>1, <1>2, <1>3, PTL DEF FinancialSpec
=============================================================================
