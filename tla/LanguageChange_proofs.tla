------------------------- MODULE LanguageChange_proofs -------------------------
(***************************************************************************)
(* What holds of the language coordinator for any accounts and languages,  *)
(* and however often accounts change and languages are asked for: what is  *)
(* shown as ready is in use, and no reload overtakes a selection.          *)
(***************************************************************************)
EXTENDS LanguageChange, TLAPS

Phases == {"resolving", "applying", "restarting", "ready", "error"}
Errors == {"none", "persistence-failed", "translation-failed", "direction-failed",
           "restart-incomplete"}
Steps == {"queued", "persist", "override", "translate", "read", "clear", "write", "reload"}
SnapSet == [phase : Phases, scope : Scopes \cup {None}, language : Languages \cup {None},
            error : Errors]
RequestSet == [scope : Scopes, language : Languages, explicit : BOOLEAN, current : BOOLEAN,
               step : Steps]

\* Requests wait behind the first one; what was asked for before a request that
\* went stale is stale, and so is what nobody selected and was asked for before a
\* selection.
QueueOK(q) ==
    /\ q \in Seq(RequestSet)
    /\ \A i \in 1..Len(q) : i > 1 => q[i].step = "queued"
    /\ \A i, j \in 1..Len(q) : i < j =>
        /\ q[i].current => q[j].current
        /\ q[j].explicit /\ q[j].current /\ q[i].current => q[i].explicit

TypesInv ==
    /\ session \in Scopes /\ pref \in [Scopes -> Languages]
    /\ forced \in BOOLEAN /\ rtl \in BOOLEAN /\ snap \in SnapSet /\ text \in Languages

\* What is ready was finished, and what a current request has done still holds.
Done(r) ==
    /\ r.step # "queued" => snap.phase # "ready"
    /\ r.current /\ r.step \in {"read", "clear", "write", "reload"} =>
         text = r.language /\ forced = (r.language \in Rtl)
    /\ r.current /\ r.step = "clear" => rtl = (r.language \in Rtl)

LanguageInv ==
    /\ TypesInv /\ QueueOK(queue) /\ ReadyIsApplied
    /\ Len(queue) > 0 => Done(queue[1])

-----------------------------------------------------------------------------
(***************************************************************************)
(* What becomes of the queue.                                              *)
(***************************************************************************)
LEMMA RequestFields ==
  ASSUME NEW r \in RequestSet
  PROVE  /\ r.scope \in Scopes /\ r.language \in Languages /\ r.explicit \in BOOLEAN
         /\ r.current \in BOOLEAN /\ r.step \in Steps
BY DEF RequestSet

\* A request that turns stale, one that takes a step.
LEMMA StaleRequest ==
  ASSUME NEW r \in RequestSet
  PROVE  /\ [r EXCEPT !.current = FALSE] \in RequestSet
         /\ [r EXCEPT !.current = FALSE].current = FALSE
         /\ [r EXCEPT !.current = FALSE].step = r.step
BY DEF RequestSet

\* A request that takes a step keeps its other fields.
LEMMA StepRequest ==
  ASSUME NEW r \in RequestSet, NEW step \in Steps
  PROVE  /\ [r EXCEPT !.step = step] \in RequestSet
         /\ [r EXCEPT !.step = step].step = step
         /\ [r EXCEPT !.step = step].current = r.current
         /\ [r EXCEPT !.step = step].explicit = r.explicit
         /\ [r EXCEPT !.step = step].language = r.language
         /\ [r EXCEPT !.step = step].scope = r.scope
BY DEF RequestSet

\* A queue whose requests all turn stale is a queue.
LEMMA StaledOK ==
  ASSUME QueueOK(queue)
  PROVE  /\ QueueOK(Staled) /\ Len(Staled) = Len(queue)
         /\ \A i \in 1..Len(queue) : Staled[i].current = FALSE /\ Staled[i].step = queue[i].step
<1>1. queue \in Seq(RequestSet) /\ DOMAIN queue = 1..Len(queue) /\ Len(queue) \in Nat
  BY DEF QueueOK
<1>2. \A i \in 1..Len(queue) : queue[i] \in RequestSet
  BY <1>1
<1>3. \A i \in 1..Len(queue) : Staled[i] = [queue[i] EXCEPT !.current = FALSE]
  BY <1>1 DEF Staled
<1>4. \A i \in 1..Len(queue) :
        Staled[i] \in RequestSet /\ Staled[i].current = FALSE /\ Staled[i].step = queue[i].step
  <2>1. ASSUME NEW i \in 1..Len(queue)
        PROVE  Staled[i] \in RequestSet /\ Staled[i].current = FALSE /\ Staled[i].step = queue[i].step
    <3>1. PICK r \in RequestSet : r = queue[i]
      BY <1>2
    <3>2. Staled[i] = [r EXCEPT !.current = FALSE]
      BY <1>3, <3>1
    <3> QED BY <3>1, <3>2, StaleRequest
  <2> QED BY <2>1
<1>5. Staled \in Seq(RequestSet) /\ Len(Staled) = Len(queue)
  <2>1. Staled = [i \in 1..Len(queue) |-> Staled[i]]
    BY <1>1 DEF Staled
  <2>2. PICK s : s = Staled
    OBVIOUS
  <2>3. s \in [1..Len(queue) -> RequestSet]
    BY <1>4, <2>1, <2>2
  <2>4. s \in Seq(RequestSet) /\ Len(s) = Len(queue)
    BY <1>1, <2>3
  <2> QED BY <2>2, <2>4
<1>6. QueueOK(Staled)
  BY <1>4, <1>5 DEF QueueOK
<1> QED BY <1>4, <1>5, <1>6

\* What follows the first request is a queue that has not begun.
LEMMA TailOK ==
  ASSUME NEW q, QueueOK(q), Len(q) > 0
  PROVE  /\ QueueOK(Tail(q)) /\ Len(Tail(q)) = Len(q) - 1
         /\ \A i \in 1..Len(Tail(q)) : Tail(q)[i] = q[i + 1] /\ Tail(q)[i].step = "queued"
<1>1. q \in Seq(RequestSet) /\ Len(q) \in Nat
  BY DEF QueueOK
<1>2. Tail(q) \in Seq(RequestSet) /\ Len(Tail(q)) = Len(q) - 1
  BY <1>1
<1>3. \A i \in 1..Len(Tail(q)) : Tail(q)[i] = q[i + 1] /\ i + 1 \in 1..Len(q) /\ i + 1 > 1
  BY <1>1, <1>2
<1>4. \A i \in 1..Len(Tail(q)) : Tail(q)[i].step = "queued"
  BY <1>3 DEF QueueOK
<1>5. QueueOK(Tail(q))
  <2>1. ASSUME NEW i \in 1..Len(Tail(q)), NEW j \in 1..Len(Tail(q)), i < j
        PROVE  /\ Tail(q)[i].current => Tail(q)[j].current
               /\ Tail(q)[j].explicit /\ Tail(q)[j].current /\ Tail(q)[i].current =>
                    Tail(q)[i].explicit
    <3>1. i + 1 < j + 1 /\ i + 1 \in 1..Len(q) /\ j + 1 \in 1..Len(q)
      BY <1>3, <2>1
    <3> QED BY <1>3, <3>1 DEF QueueOK
  <2> QED BY <1>2, <1>4, <2>1 DEF QueueOK
<1> QED BY <1>2, <1>3, <1>4, <1>5

\* A queue stays one when its first request takes a step.
LEMMA StepOK ==
  ASSUME NEW q, QueueOK(q), NEW p \in Seq(RequestSet), Len(p) = Len(q), NEW r, p[1] = r,
         r.current = q[1].current, r.explicit = q[1].explicit,
         \A i \in 1..Len(q) : i > 1 => p[i] = q[i]
  PROVE  QueueOK(p)
<1>1. \A i \in 1..Len(p) : i > 1 => p[i].step = "queued"
  BY DEF QueueOK
<1>2. \A i \in 1..Len(p) : p[i].current = q[i].current /\ p[i].explicit = q[i].explicit
  OBVIOUS
<1>3. ASSUME NEW i \in 1..Len(p), NEW j \in 1..Len(p), i < j
      PROVE  /\ p[i].current => p[j].current
             /\ p[j].explicit /\ p[j].current /\ p[i].current => p[i].explicit
  BY <1>2, <1>3 DEF QueueOK
<1> QED BY <1>1, <1>3 DEF QueueOK

\* A request is appended when it is not a selection, or nothing current before it
\* is anything else.
LEMMA AppendOK ==
  ASSUME NEW q, QueueOK(q), NEW r \in RequestSet, r.current = TRUE, r.step = "queued",
         r.explicit => \A i \in 1..Len(q) : q[i].current => q[i].explicit
  PROVE  /\ QueueOK(Append(q, r)) /\ Len(Append(q, r)) = Len(q) + 1
         /\ \A i \in 1..Len(q) : Append(q, r)[i] = q[i]
         /\ Append(q, r)[Len(q) + 1] = r
<1>1. q \in Seq(RequestSet) /\ Len(q) \in Nat
  BY DEF QueueOK
<1>2. PICK p : p = Append(q, r)
  OBVIOUS
<1>3. /\ p \in Seq(RequestSet) /\ Len(p) = Len(q) + 1 /\ p[Len(q) + 1] = r
      /\ \A i \in 1..Len(q) : p[i] = q[i]
  BY <1>1, <1>2
<1>4. ASSUME NEW i \in 1..Len(p), i > 1 PROVE p[i].step = "queued"
  <2>1. CASE i \in 1..Len(q)
    BY <1>3, <1>4, <2>1 DEF QueueOK
  <2>2. CASE i = Len(q) + 1
    BY <1>3, <2>2
  <2> QED BY <1>1, <1>3, <2>1, <2>2
<1>5. ASSUME NEW i \in 1..Len(p), NEW j \in 1..Len(p), i < j
      PROVE  /\ p[i].current => p[j].current
             /\ p[j].explicit /\ p[j].current /\ p[i].current => p[i].explicit
  <2>1. i \in 1..Len(q) /\ p[i] = q[i]
    BY <1>1, <1>3, <1>5
  <2>2. CASE j \in 1..Len(q)
    BY <1>3, <1>5, <2>1, <2>2 DEF QueueOK
  <2>3. CASE j = Len(q) + 1
    BY <1>3, <2>1, <2>3
  <2> QED BY <1>1, <1>3, <2>2, <2>3
<1>6. QueueOK(p)
  BY <1>3, <1>4, <1>5 DEF QueueOK
<1> QED BY <1>2, <1>3, <1>6

-----------------------------------------------------------------------------
(***************************************************************************)
(* The parts that steps are made of.                                       *)
(***************************************************************************)
LEMMA LanguageFacts ==
  ASSUME LanguageInv
  PROVE  /\ TypesInv /\ QueueOK(queue) /\ ReadyIsApplied
         /\ queue \in Seq(RequestSet) /\ Len(queue) \in Nat /\ DOMAIN queue = 1..Len(queue)
         /\ session \in Scopes /\ pref \in [Scopes -> Languages]
         /\ forced \in BOOLEAN /\ rtl \in BOOLEAN /\ snap \in SnapSet /\ text \in Languages
         /\ snap.phase \in Phases /\ snap.scope \in Scopes \cup {None}
         /\ snap.language \in Languages \cup {None} /\ snap.error \in Errors
BY DEF LanguageInv, TypesInv, QueueOK, SnapSet

\* The request that runs.
LEMMA JobFacts ==
  ASSUME LanguageInv, NEW step, Running(step)
  PROVE  /\ Len(queue) > 0 /\ Job = queue[1] /\ queue[1] \in RequestSet /\ queue[1].step = step
         /\ queue[1].language \in Languages /\ queue[1].scope \in Scopes
         /\ queue[1].current \in BOOLEAN /\ queue[1].explicit \in BOOLEAN
         /\ Done(queue[1])
         /\ step # "queued" => snap.phase # "ready"
<1>1. queue # <<>> /\ Head(queue).step = step
  BY DEF Running, Job
<1>2. Len(queue) > 0 /\ Job = queue[1] /\ queue[1] \in RequestSet
  BY <1>1, LanguageFacts DEF Job
<1>3. Done(queue[1])
  BY <1>2 DEF LanguageInv
<1> QED BY <1>1, <1>2, <1>3, RequestFields DEF Done, Job

\* What is published is a snapshot.
LEMMA SnapTyped ==
  ASSUME NEW phase \in Phases, NEW scope \in Scopes \cup {None},
         NEW language \in Languages \cup {None}, NEW error \in Errors
  PROVE  /\ Snap(phase, scope, language, error) \in SnapSet
         /\ Snap(phase, scope, language, error).phase = phase
         /\ Snap(phase, scope, language, error).language = language
BY DEF Snap, SnapSet

\* A request ends; the next one has not begun.
LEMMA FinishInv ==
  ASSUME LanguageInv, Len(queue) > 0, queue' = Tail(queue), TypesInv', ReadyIsApplied'
  PROVE  LanguageInv'
<1>1. QueueOK(queue)
  BY LanguageFacts
<1>2. /\ QueueOK(Tail(queue))
      /\ \A i \in 1..Len(Tail(queue)) : Tail(queue)[i].step = "queued"
  BY <1>1, TailOK
<1>3. QueueOK(queue)' /\ \A i \in 1..Len(queue') : queue'[i].step = "queued"
  BY <1>2 DEF QueueOK
<1>4. Len(queue') > 0 => Done(queue[1])'
  <2>1. Len(queue') \in Nat
    BY <1>3 DEF QueueOK
  <2>2. Len(queue') > 0 => queue'[1].step = "queued"
    BY <1>3, <2>1
  <2>3. queue'[1].step = "queued" => Done(queue[1])'
    BY DEF Done
  <2> QED BY <2>2, <2>3
<1> QED BY <1>3, <1>4 DEF LanguageInv

\* The request that runs takes a step.
LEMMA AdvanceInv ==
  ASSUME LanguageInv, Len(queue) > 0, NEW step \in Steps, queue' = [queue EXCEPT ![1].step = step],
         TypesInv', snap'.phase # "ready",
         queue[1].current /\ step \in {"read", "clear", "write", "reload"} =>
           text' = queue[1].language /\ forced' = (queue[1].language \in Rtl),
         queue[1].current /\ step = "clear" => rtl' = (queue[1].language \in Rtl)
  PROVE  LanguageInv'
<1>1. QueueOK(queue)
  BY LanguageFacts
<1>2. PICK r : r = [queue[1] EXCEPT !.step = step]
  OBVIOUS
<1>3. PICK p : p = [queue EXCEPT ![1] = r]
  OBVIOUS
<1>4. queue' = p
  BY <1>2, <1>3
<1>7. queue \in Seq(RequestSet) /\ Len(queue) \in Nat /\ 1 \in 1..Len(queue) /\ queue[1] \in RequestSet
  BY LanguageFacts
<1>8. r \in RequestSet /\ r.step = step /\ r.current = queue[1].current /\ r.explicit = queue[1].explicit
      /\ r.language = queue[1].language
  BY <1>2, <1>7, StepRequest
<1>9. /\ p \in Seq(RequestSet) /\ Len(p) = Len(queue) /\ p[1] = r
      /\ \A i \in 1..Len(queue) : i > 1 => p[i] = queue[i]
  BY <1>3, <1>7, <1>8
<1>10. QueueOK(p)
  BY <1>1, <1>8, <1>9, StepOK
<1>5. QueueOK(queue)'
  BY <1>4, <1>10 DEF QueueOK
<1>6. Done(queue[1])'
  BY <1>4, <1>8, <1>9 DEF Done
<1>11. ReadyIsApplied'
  BY DEF ReadyIsApplied
<1> QED BY <1>5, <1>6, <1>11 DEF LanguageInv

\* A stale request ends without a word.
LEMMA StaleInv ==
  ASSUME LanguageInv, Len(queue) > 0, EndStale, TypesInv',
         snap.phase # "ready" \/ UNCHANGED <<text, rtl, forced>>
  PROVE  LanguageInv'
<1>1. queue' = Tail(queue) /\ snap' = snap
  BY DEF EndStale, Finish
<1>2. ReadyIsApplied'
  BY <1>1, LanguageFacts DEF ReadyIsApplied
<1> QED BY <1>1, <1>2, FinishInv

\* A request fails, and the snapshot says so.
LEMMA FailInv ==
  ASSUME LanguageInv, NEW step, Running(step), step # "queued", NEW code \in Errors, Fail(code),
         UNCHANGED <<session, pref, forced, rtl, text>>
  PROVE  LanguageInv'
<1>1. /\ Len(queue) > 0 /\ Job = queue[1] /\ queue[1].language \in Languages
      /\ queue[1].current \in BOOLEAN /\ snap.phase # "ready"
  BY JobFacts
<1>2. CASE EndStale
  <2>1. TypesInv'
    BY <1>2, LanguageFacts DEF EndStale, TypesInv
  <2> QED BY <1>1, <1>2, <2>1, StaleInv
<1>3. CASE queue' = Tail(queue) /\ snap' = Snap("error", snap.scope, Job.language, code)
  <2>1. "error" \in Phases
    BY DEF Phases
  <2>2. snap' \in SnapSet /\ snap'.phase = "error"
    BY <1>1, <1>3, <2>1, LanguageFacts, SnapTyped
  <2>3. TypesInv' /\ ReadyIsApplied'
    BY <2>2, LanguageFacts DEF TypesInv, ReadyIsApplied
  <2> QED BY <1>1, <1>3, <2>3, FinishInv
<1> QED BY <1>2, <1>3 DEF Fail, Publish, Finish

\* A request is asked for.
LEMMA ApplyInv ==
  ASSUME LanguageInv, snap.scope \in Scopes, NEW language \in Languages, NEW explicit \in BOOLEAN,
         Apply(language, explicit),
         UNCHANGED <<session, pref, forced, rtl, snap, text>>
  PROVE  LanguageInv'
<1>1. TypesInv' /\ ReadyIsApplied'
  BY LanguageFacts DEF TypesInv, ReadyIsApplied
<1>2. CASE queue' = queue
  <2>1. QueueOK(queue)'
    BY <1>2, LanguageFacts DEF QueueOK
  <2> QED BY <1>1, <1>2, <2>1 DEF LanguageInv, Done
<1>3. CASE ~IsActive(language, explicit)
  <2>1. PICK r : r = Request(language, explicit)
    OBVIOUS
  <2>2. r \in RequestSet /\ r.current = TRUE /\ r.step = "queued" /\ r.explicit = explicit
    BY <2>1 DEF Request, RequestSet, Steps
  <2>3. PICK q : q = IF Preempts(explicit) THEN Staled ELSE queue
    OBVIOUS
  <2>4. queue' = Append(q, r)
    BY <1>3, <2>1, <2>3 DEF Apply
  <2>5. QueueOK(queue) /\ Len(queue) \in Nat /\ DOMAIN queue = 1..Len(queue)
    BY LanguageFacts
  <2>6. /\ QueueOK(q) /\ Len(q) = Len(queue)
        /\ Len(queue) > 0 => /\ q[1].step = queue[1].step
                             /\ q[1] = queue[1] \/ q[1].current = FALSE
    <3>1. CASE Preempts(explicit)
      <4>1. q = Staled
        BY <2>3, <3>1
      <4>2. /\ QueueOK(Staled) /\ Len(Staled) = Len(queue)
            /\ \A i \in 1..Len(queue) : Staled[i].current = FALSE /\ Staled[i].step = queue[i].step
        BY <2>5, StaledOK
      <4>3. Len(queue) > 0 => 1 \in 1..Len(queue)
        BY <2>5
      <4> QED BY <4>1, <4>2, <4>3
    <3>2. CASE ~Preempts(explicit)
      BY <2>3, <2>5, <3>2
    <3> QED BY <3>1, <3>2
  <2>7. explicit => \A i \in 1..Len(q) : q[i].current => q[i].explicit
    <3>1. CASE Preempts(explicit)
      BY <2>3, <2>5, <2>6, <3>1, StaledOK
    <3>2. CASE ~Preempts(explicit) /\ explicit
      <4>1. SUFFICES ASSUME NEW i \in 1..Len(queue), queue[i].current PROVE queue[i].explicit
        BY <2>3, <3>2
      <4>2. queue # <<>> /\ Len(queue) \in 1..Len(queue)
        BY <2>5
      <4>3. queue[Len(queue)].current
        BY <2>5, <4>1, <4>2 DEF QueueOK
      <4>4. Last(queue) = queue[Len(queue)]
        BY DEF Last
      <4>5. queue[Len(queue)].explicit
        BY <3>2, <4>2, <4>3, <4>4 DEF Preempts
      <4> QED BY <2>5, <4>1, <4>2, <4>3, <4>5 DEF QueueOK
    <3> QED BY <3>1, <3>2
  <2>8. /\ QueueOK(Append(q, r)) /\ Len(Append(q, r)) = Len(q) + 1
        /\ \A i \in 1..Len(q) : Append(q, r)[i] = q[i]
        /\ Append(q, r)[Len(q) + 1] = r
    BY <2>2, <2>6, <2>7, AppendOK
  <2>9. QueueOK(queue)'
    BY <2>4, <2>8 DEF QueueOK
  <2>10. Done(queue[1])'
    <3>1. CASE Len(queue) > 0
      <4>1. queue'[1] = q[1] /\ Done(queue[1])
        BY <2>4, <2>5, <2>6, <2>8, <3>1 DEF LanguageInv
      <4> QED BY <2>6, <3>1, <4>1 DEF Done
    <3>2. CASE Len(queue) = 0
      <4>1. queue'[1] = r
        BY <2>4, <2>6, <2>8, <3>2
      <4> QED BY <2>2, <4>1 DEF Done
    <3> QED BY <2>5, <3>1, <3>2
  <2> QED BY <1>1, <2>9, <2>10 DEF LanguageInv
<1> QED BY <1>2, <1>3 DEF Apply

-----------------------------------------------------------------------------
(***************************************************************************)
(* The actions.                                                            *)
(***************************************************************************)
LEMMA WantedFacts ==
  ASSUME LanguageInv, snap.scope = session
  PROVE  Wanted \in Languages /\ snap.scope \in Scopes
BY LanguageFacts DEF Wanted

\* The runtime starts anew.
LEMMA BootInv == ASSUME LanguageInv, Boot PROVE LanguageInv'
<1>1. /\ rtl' \in {forced, rtl} /\ snap' = Unresolved(None) /\ text' \in Languages /\ queue' = <<>>
      /\ UNCHANGED <<session, pref, forced>>
  BY DEF Boot
<1>2. "resolving" \in Phases /\ "none" \in Errors
  BY DEF Phases, Errors
<1>3. snap' \in SnapSet /\ snap'.phase = "resolving"
  BY <1>1, <1>2, SnapTyped DEF Unresolved
<1>4. TypesInv' /\ ReadyIsApplied'
  BY <1>1, <1>3, LanguageFacts DEF TypesInv, ReadyIsApplied
<1>5. queue' \in Seq(RequestSet) /\ Len(queue') = 0
  BY <1>1
<1>6. QueueOK(queue)'
  BY <1>5 DEF QueueOK
<1> QED BY <1>4, <1>5, <1>6 DEF LanguageInv

\* The session's scope is set.
LEMMA SetScopeInv == ASSUME LanguageInv, SetScope PROVE LanguageInv'
<1>1. /\ snap' = Unresolved(session) /\ queue' = Staled
      /\ UNCHANGED <<session, pref, forced, rtl, text>>
  BY DEF SetScope, device
<1>2. "resolving" \in Phases /\ "none" \in Errors
  BY DEF Phases, Errors
<1>3. snap' \in SnapSet /\ snap'.phase = "resolving"
  <2>1. session \in Scopes \cup {None} /\ None \in Languages \cup {None}
    BY LanguageFacts
  <2>2. snap' = Snap("resolving", session, None, "none")
    BY <1>1 DEF Unresolved
  <2> QED BY <1>2, <2>1, <2>2, SnapTyped
<1>4. TypesInv' /\ ReadyIsApplied'
  BY <1>1, <1>3, LanguageFacts DEF TypesInv, ReadyIsApplied
<1>5. /\ QueueOK(Staled) /\ Len(Staled) = Len(queue) /\ Len(queue) \in Nat
      /\ \A i \in 1..Len(queue) : Staled[i].current = FALSE
  BY LanguageFacts, StaledOK
<1>6. QueueOK(queue)'
  BY <1>1, <1>5 DEF QueueOK
<1>7. Len(queue') > 0 => Done(queue[1])'
  <2>1. Len(queue') > 0 => queue'[1].current = FALSE
    BY <1>1, <1>5
  <2>2. queue'[1].current = FALSE => Done(queue[1])'
    BY <1>3 DEF Done
  <2> QED BY <2>1, <2>2
<1> QED BY <1>4, <1>6, <1>7 DEF LanguageInv

\* What users and other devices do, beside selecting a language.
LEMMA OutsideInv ==
  ASSUME LanguageInv, session' \in Scopes, pref' \in [Scopes -> Languages],
         UNCHANGED <<forced, rtl, snap, text, queue>>
  PROVE  LanguageInv'
<1>1. TypesInv' /\ ReadyIsApplied'
  BY LanguageFacts DEF TypesInv, ReadyIsApplied
<1>2. QueueOK(queue)'
  BY LanguageFacts DEF QueueOK
<1>3. Len(queue') > 0 => Done(queue[1])'
  BY DEF LanguageInv, Done
<1> QED BY <1>1, <1>2, <1>3 DEF LanguageInv

\* The timer of a reload fires.
LEMMA TimerInv == ASSUME LanguageInv, TimerFires PROVE LanguageInv'
<1>1. /\ snap' = [snap EXCEPT !.phase = "error", !.error = "restart-incomplete"]
      /\ UNCHANGED <<session, pref, forced, rtl, text>>
      /\ IF Running("reload") THEN Finish ELSE UNCHANGED queue
  BY DEF TimerFires, device
<1>2. snap' \in SnapSet /\ snap'.phase = "error"
  BY <1>1, LanguageFacts DEF SnapSet, Phases, Errors
<1>3. TypesInv' /\ ReadyIsApplied'
  BY <1>1, <1>2, LanguageFacts DEF TypesInv, ReadyIsApplied
<1>4. CASE Running("reload")
  <2>1. queue' = Tail(queue)
    BY <1>1, <1>4 DEF Finish
  <2> QED BY <1>3, <1>4, <2>1, JobFacts, FinishInv
<1>5. CASE UNCHANGED queue
  <2>1. QueueOK(queue)'
    BY <1>5, LanguageFacts DEF QueueOK
  <2>2. Len(queue') > 0 => Done(queue[1])'
    BY <1>1, <1>2, <1>5 DEF LanguageInv, Done
  <2> QED BY <1>3, <2>1, <2>2 DEF LanguageInv
<1> QED BY <1>1, <1>4, <1>5

\* A reload returns without having restarted the app.
LEMMA ReloadInv == ASSUME LanguageInv, ReloadReturns PROVE LanguageInv'
<1>1. /\ Running("reload") /\ UNCHANGED <<session, pref, forced, rtl, text>>
      /\ (Finish /\ UNCHANGED snap) \/ Fail("direction-failed")
  BY DEF ReloadReturns, device
<1>2. CASE Finish /\ UNCHANGED snap
  <2>1. TypesInv' /\ ReadyIsApplied'
    BY <1>1, <1>2, LanguageFacts DEF TypesInv, ReadyIsApplied
  <2> QED BY <1>1, <1>2, <2>1, JobFacts, FinishInv DEF Finish
<1>3. CASE Fail("direction-failed")
  BY <1>1, <1>3, FailInv DEF Errors
<1> QED BY <1>1, <1>2, <1>3

\* A request goes on, and publishes at most that it does.
LEMMA StepInv ==
  ASSUME LanguageInv, NEW from, Running(from), NEW to \in Steps, Step(to),
         pref' \in [Scopes -> Languages],
         text' \in Languages, forced' \in BOOLEAN, UNCHANGED <<session, rtl>>,
         \/ snap' = snap /\ from # "queued"
         \/ \E phase \in Phases \ {"ready"} : Publish(phase, "none"),
         queue[1].current /\ to \in {"read", "clear", "write", "reload"} =>
           text' = queue[1].language /\ forced' = (queue[1].language \in Rtl),
         queue[1].current /\ to = "clear" => rtl' = (queue[1].language \in Rtl)
  PROVE  LanguageInv'
<1>1. /\ Len(queue) > 0 /\ Job = queue[1] /\ queue[1].language \in Languages
      /\ from # "queued" => snap.phase # "ready"
  BY JobFacts
<1>2. snap' \in SnapSet /\ snap'.phase # "ready"
  <2>1. CASE snap' = snap /\ from # "queued"
    BY <1>1, <2>1, LanguageFacts
  <2>2. ASSUME NEW phase \in Phases, phase # "ready", Publish(phase, "none")
        PROVE  snap' \in SnapSet /\ snap'.phase # "ready"
    <3>1. "none" \in Errors
      BY DEF Errors
    <3> QED BY <1>1, <2>2, <3>1, LanguageFacts, SnapTyped DEF Publish
  <2> QED BY <2>1, <2>2
<1>3. TypesInv'
  BY <1>2, LanguageFacts DEF TypesInv
<1>4. queue' = [queue EXCEPT ![1].step = to]
  BY DEF Step
<1> QED BY <1>1, <1>2, <1>3, <1>4, AdvanceInv

\* A request is ready: what it stands for is in use.
LEMMA ReadyInv ==
  ASSUME LanguageInv, NEW from, Running(from), Finish, Publish("ready", "none"),
         text = Job.language, forced = (Job.language \in Rtl), Fits,
         UNCHANGED <<session, pref, forced, rtl, text>>
  PROVE  LanguageInv'
<1>1. Len(queue) > 0 /\ Job = queue[1] /\ queue[1].language \in Languages
  BY JobFacts
<1>2. "ready" \in Phases /\ "none" \in Errors
  BY DEF Phases, Errors
<1>3. snap' \in SnapSet /\ snap'.language = queue[1].language
  <2>1. queue[1].language \in Languages \cup {None} /\ snap.scope \in Scopes \cup {None}
    BY <1>1, LanguageFacts
  <2>2. snap' = Snap("ready", snap.scope, queue[1].language, "none")
    BY <1>1 DEF Publish
  <2> QED BY <1>2, <2>1, <2>2, SnapTyped
<1>4. TypesInv' /\ ReadyIsApplied'
  BY <1>1, <1>3, LanguageFacts DEF TypesInv, ReadyIsApplied, Fits
<1> QED BY <1>1, <1>4, FinishInv DEF Finish

\* The first request begins, or is stale.
LEMMA StartInv == ASSUME LanguageInv, Start PROVE LanguageInv'
<1>1. Running("queued") /\ UNCHANGED <<session, pref, forced, rtl, text>>
  BY DEF Start, device
<1>2. CASE EndStale
  <2>1. TypesInv'
    BY <1>1, <1>2, LanguageFacts DEF EndStale, TypesInv
  <2> QED BY <1>1, <1>2, <2>1, JobFacts, StaleInv
<1>3. ASSUME NEW to \in {"persist", "translate"}, Publish("applying", "none"), Step(to) PROVE LanguageInv'
  <2>1. to \in Steps /\ "applying" \in Phases \ {"ready"}
    BY DEF Steps, Phases
  <2>2. \E phase \in Phases \ {"ready"} : Publish(phase, "none")
    BY <1>3, <2>1
  <2>3. to \notin {"read", "clear", "write", "reload"}
    OBVIOUS
  <2> QED BY <1>1, <1>3, <2>1, <2>2, <2>3, LanguageFacts, StepInv
<1>4. EndStale \/ (Publish("applying", "none") /\ Step(IF Job.explicit THEN "persist" ELSE "translate"))
  BY DEF Start
<1> QED BY <1>2, <1>3, <1>4

\* A selection is stored, in the profile or as the override of the device.
LEMMA PersistInv == ASSUME LanguageInv, PersistProfile \/ PersistOverride PROVE LanguageInv'
<1>1. PICK from \in {"persist", "override"} : Running(from)
  BY DEF PersistProfile, PersistOverride
<1>2. UNCHANGED <<session, forced, rtl, text>> /\ from # "queued"
  BY DEF PersistProfile, PersistOverride
<1>3. /\ Len(queue) > 0 /\ Job = queue[1] /\ queue[1].language \in Languages /\ queue[1].scope \in Scopes
      /\ snap.phase # "ready"
  BY <1>1, <1>2, JobFacts
<1>4. Public \in Scopes
  BY DEF Scopes
<1>5. CASE pref' \in [Scopes -> Languages] /\ EndStale
  <2>1. TypesInv'
    BY <1>2, <1>5, LanguageFacts DEF EndStale, TypesInv
  <2> QED BY <1>3, <1>5, <2>1, StaleInv
<1>6. ASSUME pref' \in [Scopes -> Languages], NEW to \in {"translate", "override"}, Step(to), snap' = snap
      PROVE  LanguageInv'
  <2>1. to \in Steps /\ to \notin {"read", "clear", "write", "reload"}
    BY DEF Steps
  <2> QED BY <1>1, <1>2, <1>6, <2>1, LanguageFacts, StepInv
<1>7. CASE Fail("persistence-failed") /\ UNCHANGED pref
  BY <1>1, <1>2, <1>7, FailInv DEF Errors
<1>8. CASE PersistProfile
  <2>1. CASE EndStale /\ UNCHANGED pref
    BY <1>5, <2>1, LanguageFacts
  <2>2. CASE /\ pref' = [pref EXCEPT ![Job.scope] = Job.language]
             /\ Step(IF Job.scope = Public THEN "translate" ELSE "override") /\ snap' = snap
    <3>1. pref' \in [Scopes -> Languages]
      BY <1>3, <2>2, LanguageFacts
    <3> QED BY <1>6, <2>2, <3>1
  <2> QED BY <1>7, <1>8, <2>1, <2>2 DEF PersistProfile
<1>9. CASE PersistOverride
  <2>1. CASE pref' = [pref EXCEPT ![Public] = Job.language]
               /\ (EndStale \/ (Step("translate") /\ snap' = snap))
    <3>1. pref' \in [Scopes -> Languages]
      BY <1>3, <1>4, <2>1, LanguageFacts
    <3> QED BY <1>5, <1>6, <2>1, <3>1
  <2> QED BY <1>7, <1>9, <2>1 DEF PersistOverride
<1> QED BY <1>8, <1>9

\* Texts and layout direction are changed.
LEMMA TranslateInv == ASSUME LanguageInv, Translate PROVE LanguageInv'
<1>1. Running("translate") /\ UNCHANGED <<session, pref, rtl>>
  BY DEF Translate
<1>2. Len(queue) > 0 /\ Job = queue[1] /\ queue[1].language \in Languages /\ snap.phase # "ready"
  BY <1>1, JobFacts
<1>3. CASE text' = Job.language /\ EndStale /\ UNCHANGED forced
  <2>1. TypesInv'
    BY <1>1, <1>2, <1>3, LanguageFacts DEF EndStale, TypesInv
  <2> QED BY <1>2, <1>3, <2>1, StaleInv
<1>4. CASE text' = Job.language /\ forced' = (Job.language \in Rtl) /\ Step("read") /\ snap' = snap
  <2>1. "read" \in Steps /\ forced' \in BOOLEAN /\ text' \in Languages
    BY <1>2, <1>4 DEF Steps
  <2>2. text' = queue[1].language /\ forced' = (queue[1].language \in Rtl)
    BY <1>2, <1>4
  <2> QED BY <1>1, <1>4, <2>1, <2>2, LanguageFacts, StepInv
<1>5. CASE Fail("translation-failed") /\ UNCHANGED <<text, forced>>
  BY <1>1, <1>5, FailInv DEF Errors
<1> QED BY <1>3, <1>4, <1>5 DEF Translate

\* What a current request that was translated knows.
LEMMA TranslatedFacts ==
  ASSUME LanguageInv, NEW from \in {"read", "clear", "write", "reload"}, Running(from), Job.current
  PROVE  /\ text = Job.language /\ forced = (Job.language \in Rtl)
         /\ from = "clear" => Fits
BY JobFacts DEF Done, Fits

\* The marker is read: ready, a reload to ask for, or given up.
LEMMA ReadInv == ASSUME LanguageInv, ReadMarker PROVE LanguageInv'
<1>1. Running("read") /\ UNCHANGED <<session, pref, forced, rtl, text>>
  BY DEF ReadMarker, device
<1>2. Len(queue) > 0 /\ Job = queue[1] /\ snap.phase # "ready"
  BY <1>1, JobFacts
<1>3. CASE EndStale
  <2>1. TypesInv'
    BY <1>1, <1>3, LanguageFacts DEF EndStale, TypesInv
  <2> QED BY <1>2, <1>3, <2>1, StaleInv
<1>4. CASE Job.current /\ Fits /\ Step("clear") /\ UNCHANGED snap
  <2>1. text = Job.language /\ forced = (Job.language \in Rtl) /\ rtl = (Job.language \in Rtl)
    BY <1>1, <1>4, TranslatedFacts DEF Fits
  <2>2. "clear" \in Steps
    BY DEF Steps
  <2> QED BY <1>1, <1>2, <1>4, <2>1, <2>2, LanguageFacts, StepInv
<1>5. CASE Job.current /\ Fits /\ Publish("ready", "none") /\ Finish
  <2>1. text = Job.language /\ forced = (Job.language \in Rtl)
    BY <1>1, <1>5, TranslatedFacts
  <2> QED BY <1>1, <1>5, <2>1, ReadyInv
<1>6. CASE Job.current /\ Step("write") /\ UNCHANGED snap
  <2>1. text = Job.language /\ forced = (Job.language \in Rtl)
    BY <1>1, <1>6, TranslatedFacts
  <2>2. "write" \in Steps
    BY DEF Steps
  <2> QED BY <1>1, <1>2, <1>6, <2>1, <2>2, LanguageFacts, StepInv
<1>7. CASE Fail("restart-incomplete") \/ Fail("direction-failed")
  <2>1. "restart-incomplete" \in Errors /\ "direction-failed" \in Errors
    BY DEF Errors
  <2> QED BY <1>1, <1>7, <2>1, FailInv
<1> QED BY <1>3, <1>4, <1>5, <1>6, <1>7 DEF ReadMarker

\* The marker is cleared: ready.
LEMMA ClearInv == ASSUME LanguageInv, ClearMarker PROVE LanguageInv'
<1>1. Running("clear") /\ UNCHANGED <<session, pref, forced, rtl, text>>
  BY DEF ClearMarker
<1>2. Len(queue) > 0 /\ snap.phase # "ready"
  BY <1>1, JobFacts
<1>3. CASE EndStale
  <2>1. TypesInv'
    BY <1>1, <1>3, LanguageFacts DEF EndStale, TypesInv
  <2> QED BY <1>2, <1>3, <2>1, StaleInv
<1>4. CASE Job.current /\ Publish("ready", "none") /\ Finish
  <2>1. text = Job.language /\ forced = (Job.language \in Rtl) /\ Fits
    BY <1>1, <1>4, TranslatedFacts
  <2> QED BY <1>1, <1>4, <2>1, ReadyInv
<1>5. CASE Fail("direction-failed")
  BY <1>1, <1>5, FailInv DEF Errors
<1> QED BY <1>3, <1>4, <1>5 DEF ClearMarker

\* The marker is written: the reload is asked for.
LEMMA WriteInv == ASSUME LanguageInv, WriteMarker PROVE LanguageInv'
<1>1. Running("write") /\ UNCHANGED <<session, pref, forced, rtl, text>>
  BY DEF WriteMarker
<1>2. Len(queue) > 0 /\ Job = queue[1] /\ snap.phase # "ready"
  BY <1>1, JobFacts
<1>3. CASE EndStale
  <2>1. TypesInv'
    BY <1>1, <1>3, LanguageFacts DEF EndStale, TypesInv
  <2> QED BY <1>2, <1>3, <2>1, StaleInv
<1>4. CASE Job.current /\ Publish("restarting", "none") /\ Step("reload")
  <2>1. text = Job.language /\ forced = (Job.language \in Rtl)
    BY <1>1, <1>4, TranslatedFacts
  <2>2. "reload" \in Steps /\ "restarting" \in Phases \ {"ready"}
    BY DEF Steps, Phases
  <2>3. \E phase \in Phases \ {"ready"} : Publish(phase, "none")
    BY <1>4, <2>2
  <2> QED BY <1>1, <1>2, <1>4, <2>1, <2>2, <2>3, LanguageFacts, StepInv
<1>5. CASE Fail("direction-failed")
  BY <1>1, <1>5, FailInv DEF Errors
<1> QED BY <1>3, <1>4, <1>5 DEF WriteMarker

\* The wait for a reload is cancelled.
LEMMA CancelInv == ASSUME LanguageInv, CancelWait PROVE LanguageInv'
<1>1. Running("reload") /\ EndStale /\ UNCHANGED <<session, pref, forced, rtl, text>>
  BY DEF CancelWait, device
<1>2. TypesInv'
  BY <1>1, LanguageFacts DEF EndStale, TypesInv
<1> QED BY <1>1, <1>2, JobFacts, StaleInv

-----------------------------------------------------------------------------
(***************************************************************************)
(* The invariant, and what it says of the languages.                       *)
(***************************************************************************)
LEMMA LanguageStart == LanguageInit => LanguageInv
<1> SUFFICES ASSUME LanguageInit PROVE LanguageInv
  OBVIOUS
<1>1. /\ session \in Scopes /\ pref \in [Scopes -> Languages] /\ rtl \in BOOLEAN /\ forced = rtl
      /\ snap = Unresolved(None) /\ text \in Languages /\ queue = <<>>
  BY DEF LanguageInit
<1>2. "resolving" \in Phases /\ "none" \in Errors
  BY DEF Phases, Errors
<1>3. snap \in SnapSet /\ snap.phase = "resolving"
  <2>1. None \in Scopes \cup {None} /\ None \in Languages \cup {None}
    OBVIOUS
  <2>2. snap = Snap("resolving", None, None, "none")
    BY <1>1 DEF Unresolved
  <2> QED BY <1>2, <2>1, <2>2, SnapTyped
<1>4. TypesInv /\ ReadyIsApplied
  BY <1>1, <1>3 DEF TypesInv, ReadyIsApplied
<1>5. queue \in Seq(RequestSet) /\ Len(queue) = 0
  BY <1>1
<1> QED BY <1>4, <1>5 DEF LanguageInv, QueueOK

\* Every step keeps the invariant.
LEMMA LanguageSteps == LanguageInv /\ [LanguageNext]_vars => LanguageInv'
<1> SUFFICES ASSUME LanguageInv, [LanguageNext]_vars PROVE LanguageInv'
  OBVIOUS
<1>1. CASE SetScope
  BY <1>1, SetScopeInv
<1>2. CASE Reconcile
  <2>1. Apply(Wanted, FALSE) /\ snap.scope = session /\ UNCHANGED <<session, pref, forced, rtl, snap, text>>
    BY <1>2 DEF Reconcile, device
  <2> QED BY <2>1, WantedFacts, ApplyInv
<1>3. CASE Await
  BY <1>3, StartInv, PersistInv, TranslateInv, ReadInv, ClearInv, WriteInv, CancelInv DEF Await
<1>4. CASE ReloadReturns
  BY <1>4, ReloadInv
<1>5. CASE TimerFires
  BY <1>5, TimerInv
<1>6. CASE Restart \/ KillApp
  BY <1>6, BootInv DEF Restart, KillApp
<1>7. ASSUME NEW language \in Languages, Select(language) PROVE LanguageInv'
  <2>1. /\ Apply(language, TRUE) /\ snap.scope = session
        /\ UNCHANGED <<session, pref, forced, rtl, snap, text>>
    BY <1>7 DEF Select, device
  <2>2. snap.scope \in Scopes
    BY <2>1, LanguageFacts
  <2> QED BY <2>1, <2>2, ApplyInv
<1>8. CASE ChangeSession
  <2>1. session' \in Scopes /\ UNCHANGED <<pref, forced, rtl, snap, text, queue>>
    BY <1>8 DEF ChangeSession, runtime
  <2> QED BY <2>1, LanguageFacts, OutsideInv
<1>9. CASE PullPreference
  <2>1. PICK user \in Users, language \in Languages : pref' = [pref EXCEPT ![user] = language]
    BY <1>9 DEF PullPreference
  <2>2. UNCHANGED <<session, forced, rtl, snap, text, queue>>
    BY <1>9 DEF PullPreference, runtime
  <2>3. pref' \in [Scopes -> Languages]
    BY <2>1, LanguageFacts
  <2> QED BY <2>2, <2>3, LanguageFacts, OutsideInv
<1>10. CASE UNCHANGED vars
  <2>1. UNCHANGED <<session, pref, forced, rtl, snap, text, queue>>
    BY <1>10 DEF vars, device, runtime
  <2> QED BY <2>1, LanguageFacts, OutsideInv
<1> QED BY <1>1, <1>2, <1>3, <1>4, <1>5, <1>6, <1>7, <1>8, <1>9, <1>10 DEF LanguageNext

\* The coordinator's inductive invariant holds in every state.
LEMMA LanguageAlways == LanguageSpec => []LanguageInv
<1> QED BY LanguageStart, LanguageSteps, PTL DEF LanguageSpec

\* What is shown as ready is in use: the translations, the direction of this
\* boot and the one asked for, whatever ran before or still runs.
THEOREM WhatIsReadyIsInUse == LanguageSpec => []ReadyIsApplied
<1>1. LanguageInv => ReadyIsApplied
  BY DEF LanguageInv
<1> QED BY <1>1, LanguageAlways, PTL

\* Turning stale, a request keeps its step.
LEMMA HeadOfStaled ==
  ASSUME LanguageInv, Len(queue) > 0, NEW q, q = Staled
  PROVE  q \in Seq(RequestSet) /\ Len(q) = Len(queue) /\ q[1].step = queue[1].step
<1>1. QueueOK(queue) /\ 1 \in 1..Len(queue)
  BY LanguageFacts
<1>2. /\ QueueOK(Staled) /\ Len(Staled) = Len(queue)
      /\ \A i \in 1..Len(queue) : Staled[i].current = FALSE /\ Staled[i].step = queue[i].step
  BY <1>1, StaledOK
<1>3. QueueOK(q) /\ Len(q) = Len(queue) /\ q[1].step = queue[1].step
  BY <1>1, <1>2
<1> QED BY <1>3 DEF QueueOK

\* The first request keeps its step when another is asked for.
LEMMA HeadAfterApply ==
  ASSUME LanguageInv, Len(queue) > 0, snap.scope \in Scopes, NEW language \in Languages,
         NEW explicit \in BOOLEAN, Apply(language, explicit)
  PROVE  Head(queue').step = queue[1].step
<1>1. queue \in Seq(RequestSet) /\ Len(queue) \in Nat /\ QueueOK(queue)
  BY LanguageFacts
<1>2. CASE queue' = queue
  BY <1>1, <1>2
<1>3. CASE ~IsActive(language, explicit)
  <2>1. PICK r \in RequestSet : r = Request(language, explicit)
    <3>1. Request(language, explicit) \in RequestSet
      BY DEF Request, RequestSet, Steps
    <3> QED BY <3>1
  <2>2. CASE Preempts(explicit)
    <3>1. PICK q : q = Staled
      OBVIOUS
    <3>2. q \in Seq(RequestSet) /\ Len(q) = Len(queue) /\ q[1].step = queue[1].step
      BY <3>1, HeadOfStaled
    <3>3. queue' = Append(q, r)
      BY <1>3, <2>1, <2>2, <3>1 DEF Apply
    <3> QED BY <1>1, <3>2, <3>3
  <2>3. CASE ~Preempts(explicit)
    <3>1. queue' = Append(queue, r)
      BY <1>3, <2>1, <2>3 DEF Apply
    <3> QED BY <1>1, <3>1
  <2> QED BY <2>2, <2>3
<1> QED BY <1>2, <1>3 DEF Apply

\* The request that follows one that ends has not begun.
LEMMA HeadAfterTail ==
  ASSUME LanguageInv, Len(queue) > 0, queue' = Tail(queue), queue' # <<>>
  PROVE  Head(queue').step = "queued"
<1>1. QueueOK(queue) /\ Len(queue) \in Nat
  BY LanguageFacts
<1>2. PICK q : q = Tail(queue)
  OBVIOUS
<1>3. q \in Seq(RequestSet) /\ \A i \in 1..Len(q) : q[i].step = "queued"
  BY <1>1, <1>2, TailOK DEF QueueOK
<1>4. Len(q) > 0 /\ Head(q) = q[1] /\ 1 \in 1..Len(q)
  BY <1>2, <1>3
<1> QED BY <1>2, <1>3, <1>4

\* A reload is asked for by the write of a marker, for a request that is current.
LEMMA ReloadsAreWritten ==
  ASSUME LanguageInv, [LanguageNext]_vars, Reloads
  PROVE  Job.current /\ queue' = [queue EXCEPT ![1].step = "reload"]
<1>1. Running("write") /\ queue' # <<>> /\ Head(queue').step = "reload"
  BY DEF Reloads
<1>2. Len(queue) > 0 /\ Job = queue[1] /\ queue[1].step = "write"
  BY <1>1, JobFacts
<1>3. queue' # Tail(queue)
  BY <1>1, <1>2, HeadAfterTail
<1>4. queue' # queue /\ Head(queue) = queue[1]
  BY <1>1, <1>2, LanguageFacts
<1>5. queue' # Staled
  <2>1. PICK q : q = Staled
    OBVIOUS
  <2>2. q \in Seq(RequestSet) /\ Len(q) = Len(queue) /\ q[1].step = queue[1].step
    BY <1>2, <2>1, HeadOfStaled
  <2>3. Head(q).step = "write"
    BY <1>2, <2>2
  <2> QED BY <1>1, <2>1, <2>3
<1>6. \A step : Running(step) => step = "write"
  BY <1>1 DEF Running
<1>7. CASE SetScope
  BY <1>5, <1>7 DEF SetScope
<1>8. CASE Reconcile
  <2>1. Apply(Wanted, FALSE) /\ snap.scope = session
    BY <1>8 DEF Reconcile
  <2> QED BY <1>1, <1>2, <2>1, WantedFacts, HeadAfterApply
<1>9. ASSUME NEW language \in Languages, Select(language) PROVE FALSE
  <2>1. Apply(language, TRUE) /\ snap.scope \in Scopes
    BY <1>9, LanguageFacts DEF Select
  <2> QED BY <1>1, <1>2, <2>1, HeadAfterApply
<1>10. CASE WriteMarker
  <2>1. Job.current /\ Step("reload")
    BY <1>3, <1>10 DEF WriteMarker, EndStale, Fail, Finish
  <2> QED BY <2>1 DEF Step
<1>11. CASE Start \/ PersistProfile \/ PersistOverride \/ Translate \/ ReadMarker \/ ClearMarker
            \/ CancelWait \/ ReloadReturns
  BY <1>6, <1>11 DEF Start, PersistProfile, PersistOverride, Translate, ReadMarker, ClearMarker,
                     CancelWait, ReloadReturns
<1>12. CASE TimerFires
  BY <1>4, <1>6, <1>12 DEF TimerFires
<1>13. CASE Restart \/ KillApp
  BY <1>1, <1>13 DEF Restart, KillApp, Boot
<1>14. CASE ChangeSession \/ PullPreference \/ UNCHANGED vars
  BY <1>4, <1>14 DEF ChangeSession, PullPreference, vars, runtime
<1> QED BY <1>7, <1>8, <1>9, <1>10, <1>11, <1>12, <1>13, <1>14 DEF LanguageNext, Await

\* No reload that nobody selected is asked for while a selection waits to be
\* stored: the selection would have made the request stale.
THEOREM SelectionsAreStoredFirst == LanguageSpec => PersistFirst
<1>1. LanguageInv /\ [LanguageNext]_vars =>
        [Reloads /\ ~Job.explicit =>
           \A i \in DOMAIN queue' : ~(queue'[i].explicit /\ queue'[i].current)]_vars
  <2> SUFFICES ASSUME LanguageInv, [LanguageNext]_vars, Reloads, ~Job.explicit,
                      NEW i \in DOMAIN queue', queue'[i].explicit, queue'[i].current
               PROVE  FALSE
    OBVIOUS
  <2>1. Job.current /\ queue' = [queue EXCEPT ![1].step = "reload"]
    BY ReloadsAreWritten
  <2>2. /\ Len(queue) > 0 /\ Job = queue[1] /\ queue[1].current /\ ~queue[1].explicit
        /\ queue[1] \in RequestSet
    BY <2>1, JobFacts DEF Reloads
  <2>3. DOMAIN queue = 1..Len(queue) /\ QueueOK(queue) /\ Len(queue) \in Nat
    BY LanguageFacts
  <2>4. CASE i = 1
    <3>1. queue'[1] = [queue[1] EXCEPT !.step = "reload"]
      BY <2>1, <2>2, <2>3
    <3>2. "reload" \in Steps
      BY DEF Steps
    <3>3. queue'[1].explicit = queue[1].explicit
      BY <2>2, <3>1, <3>2, StepRequest
    <3> QED BY <2>2, <2>4, <3>3
  <2>5. CASE i # 1
    <3>1. i \in 1..Len(queue) /\ queue'[i] = queue[i]
      BY <2>1, <2>3, <2>5
    <3>2. 1 \in 1..Len(queue) /\ 1 < i
      BY <2>3, <2>5, <3>1
    <3>3. queue[1].explicit
      BY <2>2, <2>3, <3>1, <3>2 DEF QueueOK
    <3> QED BY <2>2, <3>3
  <2> QED BY <2>4, <2>5
<1> QED BY <1>1, LanguageAlways, PTL DEF LanguageSpec, PersistFirst
=============================================================================
