---------------------------- MODULE ResendLimiter ----------------------------
(***************************************************************************)
(* The limiter of verification mails: the row of one e-mail address in     *)
(* migration 081, whose functions are one step each under the lock of the  *)
(* address, and the handlers of email-verification-resend that reserve a   *)
(* resend, send the mail and finalize or release the reservation.  A call  *)
(* reads the clock before it waits for the lock.                           *)
(***************************************************************************)
EXTENDS Naturals, FiniteSets

CONSTANTS
    Handlers,
    Cooldown, WindowLength, MaxResends, Lease,
    MaxWait,              \* the longest a call waits for the lock
    MaxSend,              \* the longest a mail takes to leave once it was admitted
    MaxTime, MaxSignUps, MaxIds,  \* bounds on clock, original mails, reservations
    NoRow                 \* the address has no row yet

ASSUME ResendAssumption ==
    /\ {Cooldown, WindowLength, MaxResends, Lease, MaxTime, MaxSignUps, MaxIds} \subseteq Nat \ {0}
    /\ MaxWait \in Nat /\ MaxSend \in Nat
    /\ NoRow \notin [window : Nat, last : Nat, count : Nat, id : Nat, reserved : Nat]

\* A mail has left before the cooldown of its reservation may end (two minutes
\* in the code, which trusts the provider and the lock to be faster).
ASSUME PromptAssumption == MaxWait + MaxSend < Cooldown

VARIABLES
    now,      \* clock_timestamp()
    sentAt,   \* auth.users: confirmation_sent_at of the original mail, 0 when
              \* nothing is pending; the functions use it only to write a new row
    row,      \* email_verification_resend_limits; 0 stands for a null
    handler,  \* handler[h]: its step, its reservation and since when
    signUps,  \* original mails so far
    lastId,   \* the last reservation id given
    mails,    \* resent mails: when, under which reservation and window (history)
    denied    \* mails that left although the call that sent them returned an error (history)

vars == <<now, sentAt, row, handler, signUps, lastId, mails, denied>>

Idle == [step |-> "idle", id |-> 0, since |-> 0]
NewRow == [window |-> sentAt, last |-> sentAt, count |-> 0, id |-> 0, reserved |-> 0]

ResendInit ==
    /\ now = 1 /\ sentAt = 0
    /\ row = NoRow
    /\ handler = [h \in Handlers |-> Idle]
    /\ signUps = 0 /\ lastId = 0 /\ mails = {} /\ denied = {}

\* Time passes; a mail that was admitted leaves within MaxSend.
Tick ==
    /\ now < MaxTime
    /\ \A h \in Handlers : handler[h].step = "admitted" => now < handler[h].since + MaxSend
    /\ now' = now + 1
    /\ UNCHANGED <<sentAt, row, handler, signUps, lastId, mails, denied>>

\* Supabase Auth sends the original mail; a later sign-up of an address that is
\* still unconfirmed, or free again, sends another.
SignUp ==
    /\ signUps < MaxSignUps
    /\ signUps' = signUps + 1
    /\ sentAt' = now
    /\ UNCHANGED <<now, row, handler, lastId, mails, denied>>

Confirm == sentAt # 0 /\ sentAt' = 0 /\ UNCHANGED <<now, row, handler, signUps, lastId, mails, denied>>

\* email_verification_register_initial_send(): an existing row is kept.
RegisterInitial ==
    /\ sentAt # 0 /\ row = NoRow
    /\ row' = NewRow
    /\ UNCHANGED <<now, sentAt, handler, signUps, lastId, mails, denied>>

\* Faulty variant: the slot of a lost reservation is handed back.
RecoveredFree(r, seen) ==
    IF r.id # 0 /\ r.reserved + Lease <= seen
    THEN [r EXCEPT !.id = 0, !.reserved = 0] ELSE r

\* A reservation whose lease ended may have sent its mail: its slot is consumed.
Recovered(r, seen) ==
    IF r.id # 0 /\ r.reserved + Lease <= seen
    THEN [r EXCEPT !.count = IF @ < MaxResends THEN @ + 1 ELSE MaxResends,
                   !.last = r.reserved, !.id = 0, !.reserved = 0]
    ELSE r

\* Faulty variant: a window rolls over before reservation and cooldown are seen.
RolledOverFirst(r, seen) ==
    IF r.window + WindowLength <= seen
    THEN [r EXCEPT !.window = seen, !.last = 0, !.count = 0, !.id = 0, !.reserved = 0] ELSE r

Cooling(r, seen) == r.last # 0 /\ r.last + Cooldown > seen

RolledOver(r, seen) ==
    IF r.id = 0 /\ ~Cooling(r, seen) /\ r.window + WindowLength <= seen
    THEN [r EXCEPT !.window = seen, !.last = 0, !.count = 0] ELSE r

\* Busy, cooling down or at the limit, the resend is refused.
Accepts(r, seen) == r.id = 0 /\ ~Cooling(r, seen) /\ r.count < MaxResends

\* email_verification_reserve_resend(); the answer may be lost.
Reserve(h) ==
    /\ handler[h] = Idle /\ sentAt # 0 /\ lastId < MaxIds
    /\ \E seen \in {t \in 1..now : t + MaxWait >= now} :
        LET r == RolledOver(Recovered(IF row = NoRow THEN NewRow ELSE row, seen), seen)
        IN  IF Accepts(r, seen)
            THEN /\ lastId' = lastId + 1
                 /\ row' = [r EXCEPT !.id = lastId + 1, !.reserved = seen]
                 /\ \/ handler' = [handler EXCEPT ![h] =
                              [step |-> "admitted", id |-> lastId + 1, since |-> now]]
                    \/ UNCHANGED handler
            ELSE row' = r /\ UNCHANGED <<lastId, handler>>
    /\ UNCHANGED <<now, sentAt, signUps, mails, denied>>

Mail(h) == [at |-> now, id |-> handler[h].id, window |-> row.window]

\* The mail leaves, or the provider refuses it.  An error says neither: resend()
\* also returns one when the answer to a mail that left is late, lost or a 5xx.
Send(h) ==
    /\ handler[h].step = "admitted"
    /\ \/ /\ mails' = mails \cup {Mail(h)}
          /\ handler' = [handler EXCEPT ![h].step = "sent"]
          /\ UNCHANGED denied
       \/ /\ denied' \in {denied, denied \cup {Mail(h)}}
          /\ handler' = [handler EXCEPT ![h].step = "failed"]
          /\ UNCHANGED mails
    /\ UNCHANGED <<now, sentAt, row, signUps, lastId>>

Matches(h) == row.id = handler[h].id

Freed(h) == IF Matches(h) THEN [row EXCEPT !.id = 0, !.reserved = 0] ELSE row

\* Faulty variant: the cooldown is not restarted.
FinalizedAsIs(h) ==
    IF Matches(h) /\ row.count < 3 THEN [Freed(h) EXCEPT !.count = @ + 1] ELSE row

Finalized(h) ==
    IF Matches(h) /\ row.count < 3 THEN [Freed(h) EXCEPT !.count = @ + 1, !.last = now] ELSE row

End(h, r) ==
    /\ row' = r
    /\ handler' = [handler EXCEPT ![h] = Idle]
    /\ UNCHANGED <<now, sentAt, signUps, lastId, mails, denied>>

FinalizeResend(h) == handler[h].step = "sent" /\ End(h, Finalized(h))
ReleaseResend(h) == handler[h].step = "failed" /\ End(h, Freed(h))
\* The function dies, or a call of its fails: nothing else is done.
Kill(h) == handler[h].step # "idle" /\ End(h, row)

ResendNext ==
    \/ Tick \/ SignUp \/ Confirm \/ RegisterInitial
    \/ \E h \in Handlers :
        Reserve(h) \/ Send(h) \/ FinalizeResend(h) \/ ReleaseResend(h) \/ Kill(h)

ResendSpec == ResendInit /\ [][ResendNext]_vars

-----------------------------------------------------------------------------
Rows == [window : 1..MaxTime, last : 0..MaxTime, count : 0..MaxResends, id : 0..lastId,
         reserved : 0..MaxTime]

\* Includes the checks of the table: the count, and a reservation with its time.
ResendTypeOK ==
    /\ now \in 1..MaxTime /\ sentAt \in 0..now
    /\ row # NoRow => row \in Rows /\ (row.id = 0 <=> row.reserved = 0)
    /\ \A h \in Handlers : /\ handler[h].step \in {"idle", "admitted", "sent", "failed"}
                           /\ handler[h].id \in 0..lastId /\ handler[h].since \in 0..now

\* What the accounting does promise is about the mails of which no error was
\* returned; whether the function heard of the success, died or lost the
\* answer of the database does not matter.  Of these a window holds at most
\* MaxResends, those that left while another window was current included.
WindowLimited ==
    \A m \in mails :
        Cardinality({n \in mails : n.at \in m.window..(m.window + WindowLength - 1)}) <= MaxResends

\* Concurrent resends do not exceed the limit: every mail of the current window
\* of which no error was returned has a slot, or is the one the live
\* reservation stands for.
NoUncountedMail ==
    row # NoRow =>
        Cardinality({m \in mails : m.window = row.window})
            <= row.count + (IF row.id # 0 THEN 1 ELSE 0)

\* What is left of the cooldown when functions die: two mails of which no error
\* was returned are apart by the cooldown, less the time between the clock a
\* reservation read and its mail.
MailsSpaced ==
    \A m, n \in mails : m.id < n.id => n.at >= m.at + Cooldown - (MaxWait + MaxSend)

\* FR-010 as it is written, for every mail that left: the window that begins
\* with the original mail holds at most MaxResends resent ones.  An error gives
\* the slot back whatever became of the mail.
EveryMailLimited ==
    row # NoRow => Cardinality({m \in mails \cup denied : m.window = row.window}) <= MaxResends
=============================================================================
