----------------------------- MODULE ChangeFeed -----------------------------
(***************************************************************************)
(* What the pull side of the synchronization promises, without clocks,     *)
(* watermarks, locks or pages: every change of a row enters the backlog of *)
(* every device, and leaves a device's backlog only when the device holds  *)
(* the row as the server has it.                                           *)
(***************************************************************************)
EXTENDS Naturals

CONSTANTS
  Keys,      \* rows a device can receive
  Devices

VARIABLES
  content,   \* the server's image of each row (0: the row does not exist)
  copy,      \* each device's image of each row
  backlog    \* rows each device has still to receive

feedVars == <<content, copy, backlog>>

Init ==
  /\ content = [k \in Keys |-> 0]
  /\ copy = [d \in Devices |-> [k \in Keys |-> 0]]
  /\ backlog = [d \in Devices |-> {}]

\* A transaction changes the rows of S at once.
Publish(S) ==
  /\ \A k \in Keys \ S : content'[k] = content[k]
  /\ content' \in [Keys -> Nat]
  /\ backlog' = [d \in Devices |-> backlog[d] \cup S]
  /\ UNCHANGED copy

\* A device takes over images of rows it is behind on; they need not be the
\* latest, and the rows stay in its backlog.
Receive(d) ==
  /\ copy' = [copy EXCEPT ![d] = copy'[d]]
  /\ copy'[d] \in [Keys -> Nat]
  /\ \A k \in Keys \ backlog[d] : copy'[d][k] = copy[d][k]
  /\ UNCHANGED <<content, backlog>>

\* A device is done with rows it holds as the server does.
Settle(d) ==
  /\ \E S \in SUBSET backlog[d] :
       /\ \A k \in S : copy[d][k] = content[k]
       /\ backlog' = [backlog EXCEPT ![d] = @ \ S]
  /\ UNCHANGED <<content, copy>>

Next ==
  \/ \E S \in SUBSET Keys : Publish(S)
  \/ \E d \in Devices : Receive(d) \/ Settle(d)

Spec == Init /\ [][Next]_feedVars

\* A device is up to date on everything outside its backlog.
UpToDate ==
  \A d \in Devices, k \in Keys : k \notin backlog[d] => copy[d][k] = content[k]
=============================================================================
