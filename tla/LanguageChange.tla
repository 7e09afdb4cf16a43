--------------------------- MODULE LanguageChange ---------------------------
(***************************************************************************)
(* The language coordinator of the app: requests to apply a language run   *)
(* one after another, each persisting, translating, turning the layout     *)
(* and, when the direction of this boot does not fit, reloading the app.   *)
(* A marker kept across reloads ends a loop of automatic ones.  A request  *)
(* is given up when the account changes or the user selects a language.    *)
(***************************************************************************)
EXTENDS Naturals, Sequences, SequencesExt, FiniteSets

CONSTANTS
    Users, Public,   \* the scopes: an account, or nobody signed in
    Languages, Rtl,  \* Rtl: the languages written from right to left
    None,            \* no scope, no language, no marker
    MaxInputs        \* bounds what users and other devices do

ASSUME LanguageAssumption ==
    /\ Public \notin Users /\ Rtl \subseteq Languages /\ MaxInputs \in Nat
    /\ None \notin Users \cup {Public} \cup Languages

Scopes == Users \cup {Public}

VARIABLES
    session,  \* who is signed in; survives a reload, as the next four do
    pref,     \* pref[u]: the language of the profile, pref[Public]: the override
    marker,   \* the stored restart attempt
    forced,   \* I18nManager.forceRTL: the direction asked for from the next boot
    rtl,      \* I18nManager.isRTL: the direction of this boot
    snap,     \* snapshot: phase, scope, language, error
    text,     \* the language of i18n
    queue,    \* the requests not yet finished; the first one is running
    timer,    \* restartTimer is set
    native,   \* a reload was asked for and may still happen
    inputs

device == <<session, pref, marker, forced, rtl>>
runtime == <<snap, text, queue, timer, native>>
vars == <<device, runtime, inputs>>

Target(scope, language) == [scope |-> scope, language |-> language]
Snap(phase, scope, language, error) ==
    [phase |-> phase, scope |-> scope, language |-> language, error |-> error]
Unresolved(scope) == Snap("resolving", scope, None, "none")

LanguageInit ==
    /\ session \in Scopes /\ pref \in [Scopes -> Languages]
    /\ marker = None /\ rtl \in BOOLEAN /\ forced = rtl
    /\ snap = Unresolved(None) /\ text \in Languages
    /\ queue = <<>> /\ timer = FALSE /\ native = FALSE
    /\ inputs = 0

-----------------------------------------------------------------------------
\* Every request asked before becomes stale: generation is incremented.
Staled == [i \in DOMAIN queue |-> [queue[i] EXCEPT !.current = FALSE]]

\* The request `active` stands for: the last one, while it is current.
IsActive(language, explicit) ==
    /\ queue # <<>> /\ Last(queue).current
    /\ Last(queue).language = language
    /\ explicit => Last(queue).explicit
Preempts(explicit) ==
    explicit /\ queue # <<>> /\ Last(queue).current /\ ~Last(queue).explicit

Request(language, explicit) ==
    [scope |-> snap.scope, language |-> language, explicit |-> explicit,
     current |-> TRUE, step |-> "queued"]

\* Faulty variant: a selection waits behind what runs already.
ApplyPolitely(language, explicit) ==
    IF IsActive(language, explicit) THEN UNCHANGED <<queue, timer>>
    ELSE /\ queue' = Append(queue, Request(language, explicit))
         /\ UNCHANGED timer

\* apply()
Apply(language, explicit) ==
    IF IsActive(language, explicit) THEN UNCHANGED <<queue, timer>>
    ELSE /\ queue' = Append(IF Preempts(explicit) THEN Staled ELSE queue,
                            Request(language, explicit))
         /\ timer' = (timer /\ ~Preempts(explicit))

\* useLanguageScope() follows the session: setScope()
SetScope ==
    /\ snap.scope # session
    /\ snap' = Unresolved(session)
    /\ queue' = Staled /\ timer' = FALSE
    /\ UNCHANGED <<device, text, native, inputs>>

\* The language the startup hooks ask for: beyond an account it is what was
\* applied last.
Wanted == IF snap.scope = Public /\ snap.language # None THEN snap.language ELSE pref[snap.scope]

\* useLanguageReconciliation()
Reconcile ==
    /\ snap.scope = session
    /\ snap.phase \notin {"applying", "restarting"}
    /\ snap.phase \in {"error", "ready"} => snap.language # Wanted
    /\ Apply(Wanted, FALSE)
    /\ UNCHANGED <<device, snap, text, native, inputs>>

Job == Head(queue)
Running(step) == queue # <<>> /\ Job.step = step
Aim == Target(Job.scope, Job.language)
Publish(phase, error) == snap' = Snap(phase, snap.scope, Job.language, error)
Finish == queue' = Tail(queue)
Step(step) == queue' = [queue EXCEPT ![1].step = step]

\* A stale request ends at the next check, whatever its call returned.
EndStale == ~Job.current /\ Finish /\ UNCHANGED <<snap, timer>>

\* A call fails: the catch of perform().
Fail(code) ==
    IF Job.current THEN Publish("error", code) /\ timer' = FALSE /\ Finish ELSE EndStale

\* perform() begins.
Start ==
    /\ Running("queued")
    /\ IF Job.current
       THEN /\ Publish("applying", "none") /\ timer' = FALSE
            /\ Step(IF Job.explicit THEN "persist" ELSE "translate")
       ELSE EndStale
    /\ UNCHANGED <<device, text, native, inputs>>

\* setPreferredLanguage(): the profile, then the override of the device; a
\* stale request writes no profile.
PersistProfile ==
    /\ Running("persist")
    /\ \/ EndStale /\ UNCHANGED pref
       \/ /\ Job.current
          /\ pref' = [pref EXCEPT ![Job.scope] = Job.language]
          /\ Step(IF Job.scope = Public THEN "translate" ELSE "override")
          /\ UNCHANGED <<snap, timer>>
       \/ Fail("persistence-failed") /\ UNCHANGED pref
    /\ UNCHANGED <<session, marker, forced, rtl, text, native, inputs>>

PersistOverride ==
    /\ Running("override")
    /\ \/ /\ pref' = [pref EXCEPT ![Public] = Job.language]
          /\ EndStale \/ (Job.current /\ Step("translate") /\ UNCHANGED <<snap, timer>>)
       \/ Fail("persistence-failed") /\ UNCHANGED pref
    /\ UNCHANGED <<session, marker, forced, rtl, text, native, inputs>>

\* The translations change, then the direction of the next boot.
Translate ==
    /\ Running("translate")
    /\ \/ /\ text' = Job.language
          /\ \/ EndStale /\ UNCHANGED forced
             \/ /\ Job.current
                /\ forced' = (Job.language \in Rtl)
                /\ Step("read") /\ UNCHANGED <<snap, timer>>
       \/ Fail("translation-failed") /\ UNCHANGED <<text, forced>>
    /\ UNCHANGED <<session, pref, marker, rtl, native, inputs>>

\* Faulty variant: the translations in use are taken for the direction in use.
FitsText == text = Job.language

\* needsLayoutReload()
Fits == rtl = (Job.language \in Rtl)

\* Faulty variant: what the marker says does not matter.
ReadMarkerHopeful ==
    /\ Running("read")
    /\ IF ~Job.current THEN EndStale
       ELSE IF Fits THEN Publish("ready", "none") /\ Finish /\ UNCHANGED timer
       ELSE Step("write") /\ UNCHANGED <<snap, timer>>
    /\ UNCHANGED <<device, text, native, inputs>>

\* readMarker(): done, or a reload for this very target did not help.
ReadMarker ==
    /\ Running("read")
    /\ \/ EndStale
       \/ /\ Job.current /\ Fits
          /\ IF marker = Aim THEN Step("clear") /\ UNCHANGED snap
             ELSE Publish("ready", "none") /\ Finish
          /\ UNCHANGED timer
       \/ /\ Job.current /\ ~Fits
          /\ IF marker = Aim /\ ~Job.explicit THEN Fail("restart-incomplete")
             ELSE Step("write") /\ UNCHANGED <<snap, timer>>
       \/ Fail("direction-failed")
    /\ UNCHANGED <<device, text, native, inputs>>

ClearMarker ==
    /\ Running("clear")
    /\ \/ /\ marker' = None
          /\ EndStale \/ (Job.current /\ Publish("ready", "none") /\ Finish /\ UNCHANGED timer)
       \/ Fail("direction-failed") /\ UNCHANGED marker
    /\ UNCHANGED <<session, pref, forced, rtl, text, native, inputs>>

\* writeMarker(), then reload() under the timer: the request waits for either.
WriteMarker ==
    /\ Running("write")
    /\ \/ /\ marker' = Aim
          /\ \/ EndStale /\ UNCHANGED native
             \/ /\ Job.current /\ Publish("restarting", "none")
                /\ Step("reload") /\ timer' = TRUE /\ native' = TRUE
       \/ /\ Fail("direction-failed")
          /\ UNCHANGED <<marker, native>>
    /\ UNCHANGED <<session, pref, forced, rtl, text, inputs>>

\* reload() returns although the app goes on, or is refused.
ReloadReturns ==
    /\ Running("reload") /\ native
    /\ native' = FALSE
    /\ (Finish /\ UNCHANGED <<snap, timer>>) \/ Fail("direction-failed")
    /\ UNCHANGED <<device, text, inputs>>

\* cancelRestartWait: a newer generation ends the wait, not the reload.
CancelWait ==
    /\ Running("reload") /\ EndStale
    /\ UNCHANGED <<device, text, native, inputs>>

\* Faulty variant: the timer matters only while its request waits.
TimerFiresWaiting ==
    /\ timer
    /\ timer' = FALSE
    /\ IF Running("reload")
       THEN snap' = [snap EXCEPT !.phase = "error", !.error = "restart-incomplete"] /\ Finish
       ELSE UNCHANGED <<snap, queue>>
    /\ UNCHANGED <<device, text, native, inputs>>

\* restartTimer fires and ends the wait; the request may have ended before.
TimerFires ==
    /\ timer
    /\ snap' = [snap EXCEPT !.phase = "error", !.error = "restart-incomplete"]
    /\ timer' = FALSE
    /\ IF Running("reload") THEN Finish ELSE UNCHANGED queue
    /\ UNCHANGED <<device, text, native, inputs>>

\* The runtime starts anew; the platform may not heed the direction asked for.
Boot ==
    /\ rtl' \in {forced, rtl}
    /\ snap' = Unresolved(None) /\ text' \in Languages
    /\ queue' = <<>> /\ timer' = FALSE /\ native' = FALSE
    /\ UNCHANGED <<session, pref, marker, forced>>

Restart == native /\ Boot /\ UNCHANGED inputs

-----------------------------------------------------------------------------
Input == inputs < MaxInputs /\ inputs' = inputs + 1

\* The flag with which a screen refuses a second selection while its first is
\* under way is its own: a screen opened meanwhile offers another one.
Select(language) ==
    /\ Input
    /\ snap.scope = session
    /\ Apply(language, TRUE)
    /\ UNCHANGED <<device, snap, text, native>>

ChangeSession ==
    /\ Input
    /\ session' \in Scopes \ {session}
    /\ UNCHANGED <<pref, marker, forced, rtl, runtime>>

\* Another device's choice is pulled.
PullPreference ==
    /\ Input
    /\ \E user \in Users, language \in Languages : pref' = [pref EXCEPT ![user] = language]
    /\ UNCHANGED <<session, marker, forced, rtl, runtime>>

KillApp == Input /\ Boot

Await ==
    \/ Start \/ PersistProfile \/ PersistOverride \/ Translate
    \/ ReadMarker \/ ClearMarker \/ WriteMarker \/ CancelWait

LanguageNext ==
    \/ SetScope \/ Reconcile \/ Await \/ ReloadReturns \/ TimerFires \/ Restart
    \/ \E language \in Languages : Select(language)
    \/ ChangeSession \/ PullPreference \/ KillApp

\* Effects run, awaited calls settle and timers fire; a reload may never happen.
LanguageSpec ==
    LanguageInit /\ [][LanguageNext]_vars
      /\ WF_vars(SetScope) /\ WF_vars(Reconcile) /\ WF_vars(Await) /\ WF_vars(TimerFires)

-----------------------------------------------------------------------------
\* "English must settle into LTR and Arabic into RTL before normal content is
\* usable": what is ready is in use, whatever ran before or still runs.
ReadyIsApplied ==
    snap.phase = "ready" =>
        /\ text = snap.language
        /\ rtl = (snap.language \in Rtl) /\ forced = rtl

Reloads == Running("write") /\ queue' # <<>> /\ Head(queue').step = "reload"

\* "Persist explicit selection before reload": no reload that nobody selected is
\* asked for while a selection waits to be stored, also when selections, startup
\* requests and stale ones have queued up behind each other.
PersistFirst ==
    [][Reloads /\ ~Job.explicit =>
         \A i \in DOMAIN queue' : ~(queue'[i].explicit /\ queue'[i].current)]_vars

Settled ==
    /\ snap.scope = session
    /\ snap.phase \in {"ready", "error"}
    /\ snap.language = Wanted

\* Left alone, the app settles on the language wanted, or says that it failed;
\* so it does not reload for ever ("No native restart loop").
SettlesInTheEnd == <>[]Settled
=============================================================================
