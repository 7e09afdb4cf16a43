----------------------------- MODULE SmsChunkRun -----------------------------
(***************************************************************************)
(* The concurrent SMS parse (runConcurrentChunks of                        *)
(* ai-sms-parser-service.ts): the candidates are cut into chunks, the      *)
(* worker pool of BatchQueue runs one request per chunk, and the answers   *)
(* are folded into one aggregate.  A chunk that is too large, or larger    *)
(* than what is left of the rolling quota, is split and its halves listed; *)
(* an exhausted quota stops the run, a lost session or consent aborts it.  *)
(* What the server does with a request is the subject of SmsAiLedger; here *)
(* it may answer anything.  A candidate is its place in the scan.          *)
(***************************************************************************)
EXTENDS BatchQueue, Sequences

CONSTANTS
    Candidates,  \* the number of candidates
    ChunkSize    \* CLIENT_CHUNK_SIZE

ASSUME ChunkAssumption ==
    /\ Candidates \in Nat \ {0} /\ ChunkSize \in Nat \ {0}
    /\ InitialItems = (Candidates + ChunkSize - 1) \div ChunkSize
    /\ MaxItems >= 2 * Candidates - InitialItems

VARIABLES
    work,        \* work[i]: the candidates of chunk i
    pending,     \* session.pendingWork: chunks whose process has not begun
    phase,       \* phase[i]: where the process of chunk i is
    resolved, oversized, unresolved,  \* the aggregate's candidates
    done, total, \* chunksCompleted, totalChunks
    emitting,    \* the chunks on session.emitChain, in order
    calling,     \* onProgress of the first of them is being awaited
    emitFailure, \* session.emitFailure # null
    answer       \* what parseSmsWithAiCore came to

aggregateVars == <<resolved, oversized, unresolved, done, total>>
emitVars == <<emitting, calling, emitFailure>>
sessionVars == <<work, pending, phase, aggregateVars, emitVars, answer>>
chunkVars == <<queueVars, sessionVars>>

Messages == 1..Candidates
InPhase(p) == {i \in Items : phase[i] = p}
WorkOf(S) == UNION {work[i] : i \in S}

InitialChunk(i) == {c \in Messages : (c - 1) \div ChunkSize = i - 1}

\* splitWork(): the first ceil(n / 2) candidates, and the others.
Left(W) == {c \in W : 2 * Cardinality({d \in W : d < c}) < Cardinality(W)}

ChunkInit ==
    /\ QueueInit
    /\ work = [i \in Items |-> IF i <= InitialItems THEN InitialChunk(i) ELSE {}]
    /\ pending = (1..InitialItems) \ running
    /\ phase = [i \in Items |-> IF i \in running THEN "request" ELSE "idle"]
    /\ resolved = {} /\ oversized = {} /\ unresolved = {}
    /\ done = 0 /\ total = InitialItems
    /\ emitting = <<>> /\ calling = FALSE /\ emitFailure = FALSE
    /\ answer = "none"

\* The chunks a step launches begin at once: pendingWork.delete, beginChunk,
\* and the request goes out; chunk i moves on to p.
Moved(i, p, new) ==
    /\ pending' = (pending \cup new) \ running'
    /\ phase' = [j \in Items |-> IF j = i THEN p
                                 ELSE IF j \in running' \ running THEN "request"
                                 ELSE phase[j]]

\* The halves are listed and the chunk's own process resolves.
Halved(i) ==
    /\ Cardinality(work[i]) > 1
    /\ Enqueue(i, 2)
    /\ work' = [work EXCEPT ![listed + 1] = Left(work[i]),
                            ![listed + 2] = work[i] \ Left(work[i])]
    /\ Moved(i, "return", {listed + 1, listed + 2})
    /\ UNCHANGED <<resolved, oversized, unresolved, done, emitVars, answer>>

\* Faulty variant: the total does not grow with a split.
SplitWorkUncounted(i) == Halved(i) /\ total' = total

\* enqueueSplit(): the process of the chunk then resolves without a progress.
SplitWork(i) == Halved(i) /\ total' = total + 1

\* handleConcurrentOutcome() once the aggregate has the chunk's outcome: the
\* progress joins the chain, or a failed chain stops and aborts the run.
Report(i) ==
    /\ done' = done + 1
    /\ total' = total
    /\ Moved(i, IF emitFailure THEN "throw" ELSE "emit", {})
    /\ emitting' = IF emitFailure THEN emitting ELSE Append(emitting, i)
    /\ UNCHANGED <<calling, emitFailure, work, answer>>

KeepRunning == IF emitFailure THEN StopAndAbort ELSE UNCHANGED queueVars

\* applyChunkResolution(): the candidates of bad are appended as unresolved.
\* Once the signal is aborted only an unexpected failure still gets here.
Resolve(i, bad) ==
    /\ bad \subseteq work[i]
    /\ aborted => bad = work[i]
    /\ resolved' = resolved \cup (work[i] \ bad)
    /\ unresolved' = unresolved \cup bad
    /\ oversized' = oversized
    /\ KeepRunning
    /\ Report(i)

Oversized(i) ==
    /\ ~aborted
    /\ Cardinality(work[i]) = 1
    /\ oversized' = oversized \cup work[i]
    /\ UNCHANGED <<resolved, unresolved>>
    /\ KeepRunning
    /\ Report(i)

\* Faulty variant: the run is not stopped.
TerminalCapacityRunning(i) ==
    /\ ~aborted
    /\ unresolved' = unresolved \cup work[i] \cup WorkOf(pending)
    /\ UNCHANGED <<resolved, oversized>>
    /\ KeepRunning
    /\ Report(i)

\* A capacity refusal that splitting cannot help: stop(), then
\* applyTerminalCapacity() over this chunk and everything still pending.
TerminalCapacity(i) ==
    /\ ~aborted
    /\ unresolved' = unresolved \cup work[i] \cup WorkOf(pending)
    /\ UNCHANGED <<resolved, oversized>>
    /\ IF emitFailure THEN StopAndAbort ELSE Stop(i)
    /\ Report(i)

\* An abort, a lost consent or another user: stop, abort the siblings, rethrow.
ControlFlow(i) ==
    /\ StopAndAbort
    /\ \E p \in {"throw", "abort"} : Moved(i, p, {})
    /\ UNCHANGED <<work, aggregateVars, emitVars, answer>>

\* The request of chunk i is answered, refused, or fails.
Respond(i) ==
    /\ phase[i] = "request"
    /\ \/ ~aborted /\ SplitWork(i)
       \/ \E bad \in SUBSET work[i] : Resolve(i, bad)
       \/ Oversized(i)
       \/ TerminalCapacity(i)
       \/ ControlFlow(i)

\* The next link of the chain calls onProgress, unless the run was aborted.
CallProgress ==
    /\ emitting # <<>> /\ ~calling /\ ~aborted
    /\ calling' = TRUE
    /\ UNCHANGED <<queueVars, work, pending, phase, aggregateVars, emitting, emitFailure, answer>>

\* The first link ends, and the emission its chunk waits for.
EndProgress ==
    /\ emitting # <<>>
    /\ calling \/ aborted
    /\ emitting' = Tail(emitting)
    /\ calling' = FALSE
    /\ phase' = [phase EXCEPT ![Head(emitting)] = "return"]
    /\ UNCHANGED <<queueVars, work, pending, aggregateVars, emitFailure, answer>>

\* Faulty variant: the links behind the one that rejects are forgotten.
FailProgressAlone ==
    /\ calling
    /\ phase' = [phase EXCEPT ![Head(emitting)] = "throw"]
    /\ emitting' = <<>> /\ calling' = FALSE /\ emitFailure' = TRUE
    /\ StopAndAbort
    /\ UNCHANGED <<work, pending, aggregateVars, answer>>

\* onProgress rejects, or the session changed: every link behind it rejects too.
FailProgress ==
    /\ calling
    /\ phase' = [i \in Items |-> IF phase[i] = "emit" THEN "throw" ELSE phase[i]]
    /\ emitting' = <<>> /\ calling' = FALSE /\ emitFailure' = TRUE
    /\ StopAndAbort
    /\ UNCHANGED <<work, pending, aggregateVars, answer>>

HowEnded(i) ==
    CASE phase[i] = "return" -> "completed"
      [] phase[i] = "throw" -> "failed"
      [] phase[i] = "abort" -> "cancelled"

EndChunk(i) ==
    /\ phase[i] \in {"return", "throw", "abort"}
    /\ EndItem(i, HowEnded(i))
    /\ Moved(i, "idle", {})
    /\ UNCHANGED <<work, aggregateVars, emitVars, answer>>

\* The caller aborts the scan.
CancelScan == Abort /\ answer = "none" /\ UNCHANGED sessionVars

\* Faulty variant: what never ran is left out of the result.
FinalizeForgetting ==
    /\ settled /\ answer = "none"
    /\ unresolved' = unresolved
    /\ answer' = IF failed = {} /\ ~emitFailure /\ cancelled = {} /\ ~aborted
                 THEN "result" ELSE "error"
    /\ UNCHANGED <<queueVars, work, pending, phase, resolved, oversized, done, total, emitVars>>

\* The end of runConcurrentChunks: what never ran is unresolved, then
\* finalizeFromQueue().
Finalize ==
    /\ settled /\ answer = "none"
    /\ unresolved' = IF ~aborted /\ cancelled = {}
                     THEN unresolved \cup WorkOf(NotRun) ELSE unresolved
    /\ answer' = IF failed = {} /\ ~emitFailure /\ cancelled = {} /\ ~aborted
                 THEN "result" ELSE "error"
    /\ UNCHANGED <<queueVars, work, pending, phase, resolved, oversized, done, total, emitVars>>

ChunkNext ==
    \/ \E i \in Items : Respond(i) \/ EndChunk(i)
    \/ CallProgress \/ EndProgress \/ FailProgress \/ CancelScan \/ Finalize

\* A request is answered, fails or is aborted in the end, and so is a progress
\* callback; the rest is the event loop's.
ChunkFairness ==
    /\ \A i \in Items :
        /\ WF_chunkVars(Respond(i))
        /\ WF_chunkVars(EndChunk(i))
    /\ WF_chunkVars(CallProgress) /\ WF_chunkVars(EndProgress)
    /\ WF_chunkVars(Finalize)

ChunkSpec == ChunkInit /\ [][ChunkNext]_chunkVars /\ ChunkFairness

-----------------------------------------------------------------------------
\* "every refused-branch candidate unresolved exactly once": a parse that
\* returns accounts for each candidate, once, however splits, capacity stops
\* and ends of sibling chunks interleave.
EveryCandidateOnce ==
    answer = "result" =>
        /\ resolved \cup oversized \cup unresolved = Messages
        /\ resolved \cap oversized = {}
        /\ unresolved \cap (resolved \cup oversized) = {}

\* No candidate is paid for twice: it is in one request at a time, and in none
\* once it was answered or was given up to the quota.
NoCandidateTwice ==
    \A i \in InPhase("request") :
        /\ \A j \in InPhase("request") \ {i} : work[i] \cap work[j] = {}
        /\ work[i] \cap (resolved \cup oversized \cup unresolved) = {}

\* The progress a user sees never exceeds its total, and a parse that nothing
\* stopped ends at it.
ProgressAddsUp ==
    /\ done <= total
    /\ (answer = "result" /\ ~stopped) => done = total

\* The parse ends, with a result or an error.
ParseEnds == <>(answer # "none")
=============================================================================
