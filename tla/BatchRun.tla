------------------------------ MODULE BatchRun ------------------------------
(***************************************************************************)
(* What a bounded concurrent run promises its caller, without workers,     *)
(* cursors or pumps: every item handed to it goes once from waiting        *)
(* through active to one outcome, at most Limit of them are active, a      *)
(* closed run starts nothing, and the caller gets the answer when nothing  *)
(* is active any more, with every item accounted for.                      *)
(***************************************************************************)
EXTENDS Naturals, FiniteSets

CONSTANTS Items, Limit

VARIABLES
    status,    \* status[i], the life of an item
    closed,    \* no item may be started any more
    answered   \* the caller has its answer

runVars == <<status, closed, answered>>

With(s) == {i \in Items : status[i] = s}
Finished == {"completed", "failed", "cancelled"}
Lives == {"unknown", "waiting", "active"} \cup Finished

RunInit ==
    /\ status \in [Items -> {"unknown", "waiting", "active"}]
    /\ Cardinality(With("active")) <= Limit
    /\ closed \in BOOLEAN
    /\ closed => With("active") = {}
    /\ answered = (With("active") = {})

\* What a step may do to one item: it arrives, is started, or ends.
Moves ==
    {<<"unknown", "waiting">>, <<"unknown", "active">>, <<"waiting", "active">>}
        \cup {"active"} \X Finished

Started(i) == status[i] # "active" /\ status'[i] = "active"

\* Items arrive, are started or end: not beyond the limit, none started in a
\* closed run, and the answer is given with nothing active and, unless the run
\* was closed, with nothing waiting.
Advance ==
    /\ ~answered
    /\ status' \in [Items -> Lives]
    /\ \A i \in Items : status'[i] = status[i] \/ <<status[i], status'[i]>> \in Moves
    /\ closed => \A i \in Items : ~Started(i)
    /\ Cardinality(With("active")') <= Limit
    /\ UNCHANGED closed
    /\ answered' = (With("active")' = {})
    /\ answered' => closed \/ With("waiting")' = {}

Close == closed' = TRUE /\ UNCHANGED <<status, answered>>

RunNext == Advance \/ Close

RunSpec == RunInit /\ [][RunNext]_runVars
=============================================================================
