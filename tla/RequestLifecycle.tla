-------------------------- MODULE RequestLifecycle --------------------------
(***************************************************************************)
(* One idempotency key from arrival to its settled ledger row: the         *)
(* idempotency middleware and its ledger (request_idempotency.py), the     *)
(* attempt loop (_execute in main.py), admission around a dispatch         *)
(* (main_live.py) and the lifecycle wrapper that keeps the row in step     *)
(* with the upstream call and the stream body (stream_lifecycle.py).       *)
(*                                                                         *)
(* All calls carry the same key and body.  A step ends where the code      *)
(* awaits.  Upstream answers, timeouts, cancellations and failing local    *)
(* writes are chosen nondeterministically.  What an attempt takes is kept  *)
(* per call: an in-flight mark, a quota reservation, an admission lease.   *)
(***************************************************************************)
EXTENDS Integers, FiniteSets

CONSTANTS Call,         \* HTTP calls with this key
          MaxAttempts,  \* max_candidate_attempts
          Threshold,    \* failure_threshold of the circuit breaker
          MaxCrashes,   \* bound on process crashes
          CancelPoints  \* awaits at which a cancellation may arrive

ASSUME LifecycleAssumption ==
    /\ MaxAttempts \in Nat /\ Threshold \in Nat \ {0} /\ MaxCrashes \in Nat
    /\ CancelPoints \subseteq {"execute", "body", "headers", "finalize"}

VARIABLES
    row,        \* state of the key's row in the ledger, or "absent"
    pc, attempts, stream, terminal, fin, started,  \* local state of a call
    lease, inflight, quota,                        \* what a call has taken
    failures,   \* consecutive failures the circuit breaker counts
    crashes,
    forwarded,  \* history: calls let past the ledger since the row was new
    evidence,   \* history: was an upstream seen to finish the row's work?
    mishap      \* history: what else went wrong in a call: a local step, or its
                \* stream was dropped where nothing cleans up

locals == <<attempts, stream, terminal, fin, started>>
taken == <<lease, inflight, quota>>
history == <<forwarded, evidence, mishap>>
vars == <<row, pc, locals, taken, failures, crashes, history>>

Settled == {"completed", "possibly_accepted", "failed"}
Over == {"new", "refused", "done", "lost"}

TypeOK ==
    /\ row \in {"absent", "in_progress", "upstream_started"} \cup Settled
    /\ pc \in [Call -> Over \cup {"loop", "deciding", "admission", "fenced",
                  "sent", "attempt_failed", "recording", "headers", "streaming",
                  "refunding", "closing", "respond_ok", "respond_error", "raised"}]
    /\ attempts \in [Call -> 0..MaxAttempts]
    /\ stream \in [Call -> BOOLEAN] /\ started \in [Call -> BOOLEAN]
    /\ terminal \in [Call -> {"none", "completed", "failed"}]
    /\ fin \in [Call -> {"none", "completed", "incomplete", "failed",
                         "cancelled", "closed"}]
    /\ lease \in [Call -> BOOLEAN]
    /\ inflight \in [Call -> Int] /\ quota \in [Call -> Int]
    /\ failures \in 0..Threshold
    /\ crashes \in 0..MaxCrashes
    /\ forwarded \subseteq Call
    /\ evidence \in {"none", "finished", "refuted"}
    /\ mishap \in [Call -> {"none", "local", "dropped"}]

Init ==
    /\ row = "absent"
    /\ pc = [c \in Call |-> "new"]
    /\ attempts = [c \in Call |-> 0]
    /\ stream \in [Call -> BOOLEAN]
    /\ started = [c \in Call |-> FALSE]
    /\ terminal = [c \in Call |-> "none"]
    /\ fin = [c \in Call |-> "none"]
    /\ lease = [c \in Call |-> FALSE]
    /\ inflight = [c \in Call |-> 0]
    /\ quota = [c \in Call |-> 0]
    /\ failures = 0
    /\ crashes = 0
    /\ forwarded = {}
    /\ evidence = "none"
    /\ mishap = [c \in Call |-> "none"]

-----------------------------------------------------------------------------
Go(c, p) == pc' = [pc EXCEPT ![c] = p]
At(c, p) == pc[c] = p
Add(f, c, n) == [f EXCEPT ![c] = @ + n]

\* The row after RequestIdempotencyLedger.transition asks for state "to".
Transition(from, to) ==
    IF \/ from = "absent"
       \/ from = "completed"
       \/ from = "possibly_accepted" /\ to \in {"failed", "cancelled"}
    THEN from ELSE to

\* CircuitBreakerManager.record_failure; at the threshold the circuit is open.
Charge == failures' = IF failures < Threshold THEN failures + 1 ELSE failures

\* The cooldown of an open circuit passes (allowed forgets its failures), or
\* an operator resets it.
CircuitCloses ==
    /\ failures = Threshold
    /\ failures' = 0
    /\ UNCHANGED <<row, pc, locals, taken, crashes, history>>

-----------------------------------------------------------------------------
\* Mutant: a row that ended in failure lets the next call through.
Reserve_RetriesFailed(c) ==
    /\ At(c, "new")
    /\ row \in {"absent", "failed"}
    /\ row' = "in_progress"
    /\ forwarded' = forwarded \cup {c}
    /\ Go(c, "loop")
    /\ UNCHANGED <<locals, taken, failures, crashes, evidence, mishap>>

\* reserve inserts the row, and the call goes on to the router.
Reserve(c) ==
    /\ At(c, "new")
    /\ row = "absent"
    /\ row' = "in_progress"
    /\ forwarded' = forwarded \cup {c}
    /\ Go(c, "loop")
    /\ UNCHANGED <<locals, taken, failures, crashes, evidence, mishap>>

\* reserve finds the row: 409, the call is not forwarded.
Duplicate(c) ==
    /\ At(c, "new")
    /\ row # "absent"
    /\ Go(c, "refused")
    /\ UNCHANGED <<row, locals, taken, failures, crashes, history>>

\* The row's time to live is over and the next reserve deletes it.  It is
\* longer than any request (a day against a deadline of minutes).
Expire ==
    /\ row # "absent"
    /\ \A c \in Call : pc[c] \in Over
    /\ row' = "absent"
    /\ forwarded' = {} /\ evidence' = "none"
    /\ UNCHANGED <<pc, locals, taken, failures, crashes, mishap>>

-----------------------------------------------------------------------------
\* The next candidate is not allowed, its circuit is open or its quota is used
\* up: it counts as an attempt and the loop goes on.
SkipCandidate(c) ==
    /\ At(c, "loop")
    /\ attempts[c] < MaxAttempts
    /\ attempts' = Add(attempts, c, 1)
    /\ UNCHANGED <<row, pc, stream, terminal, fin, started, taken, failures,
                   crashes, history>>

\* Mutant: a candidate that is tried is not counted.
TakeCandidate_Uncounted(c) ==
    /\ At(c, "loop")
    /\ attempts[c] < MaxAttempts
    /\ failures < Threshold
    /\ quota' = Add(quota, c, 1)
    /\ Go(c, "deciding")
    /\ UNCHANGED <<row, locals, lease, inflight, failures, crashes, history>>

\* The next candidate's circuit is closed and its quota is reserved.
TakeCandidate(c) ==
    /\ At(c, "loop")
    /\ attempts[c] < MaxAttempts
    /\ failures < Threshold
    /\ attempts' = Add(attempts, c, 1)
    /\ quota' = Add(quota, c, 1)
    /\ Go(c, "deciding")
    /\ UNCHANGED <<row, stream, terminal, fin, started, lease, inflight,
                   failures, crashes, history>>

\* No candidate is left, or the deadline or the attempt limit is reached: 503
\* or 504.
GiveUp(c) ==
    /\ At(c, "loop")
    /\ Go(c, "respond_error")
    /\ UNCHANGED <<row, locals, taken, failures, crashes, history>>

\* The decision event is in the outbox: mark the owner busy, note in the row
\* that the upstream is being called, and wait for admission.
Dispatch(c) ==
    /\ At(c, "deciding")
    /\ inflight' = Add(inflight, c, 1)
    /\ row' = Transition(row, "upstream_started")
    /\ Go(c, "admission")
    /\ UNCHANGED <<locals, lease, quota, failures, crashes, history>>

\* The decision event cannot be stored; nothing catches that.
DecisionEventFails(c) ==
    /\ At(c, "deciding")
    /\ mishap' = [mishap EXCEPT ![c] = "local"]
    /\ Go(c, "raised")
    /\ UNCHANGED <<row, locals, taken, failures, crashes,
                   forwarded, evidence>>

\* The gate grants a lease.
Admit(c) ==
    /\ At(c, "admission")
    /\ lease' = [lease EXCEPT ![c] = TRUE]
    /\ Go(c, "fenced")
    /\ UNCHANGED <<row, locals, inflight, quota, failures, crashes, history>>

\* The claim is current and a path is reachable: the request goes upstream.
Send(c) ==
    /\ At(c, "fenced")
    /\ Go(c, "sent")
    /\ UNCHANGED <<row, locals, taken, failures, crashes, history>>

\* The attempt ends in an exception: any lease is released on the way out and
\* the lifecycle wrapper asks for row state "to".
AttemptEnds(c, to) ==
    /\ lease' = [lease EXCEPT ![c] = FALSE]
    /\ row' = Transition(row, to)
    /\ Go(c, "attempt_failed")
    /\ UNCHANGED <<locals, inflight, quota, failures, crashes,
                   forwarded, evidence, mishap>>

\* An error with an HTTP status: the gate refused (429, 503), no access path
\* answers (503), or the upstream rejected the request.
Rejected(c) ==
    /\ pc[c] \in {"admission", "fenced", "sent"}
    /\ AttemptEnds(c, "in_progress")

\* The projection is stale or the claim fence refuses: an exception that is
\* not a provider error.  The wrapper of a plain dispatch calls that possibly
\* accepted, the wrapper of a stream leaves the row alone.
NotAuthorized(c) ==
    /\ pc[c] \in {"admission", "fenced"}
    /\ AttemptEnds(c, IF stream[c] THEN row ELSE "possibly_accepted")

\* The transport failed without a status, or the attempt timed out.
FateUnknown(c) ==
    /\ pc[c] \in {"admission", "fenced", "sent"}
    /\ AttemptEnds(c, "possibly_accepted")

\* The handlers of a failed attempt: end the in-flight mark, refund the
\* quota, charge the circuit, record the usage.
FailAttempt(c) ==
    /\ At(c, "attempt_failed")
    /\ inflight' = Add(inflight, c, -1)
    /\ quota' = Add(quota, c, -1)
    /\ Charge
    /\ Go(c, "loop")
    /\ UNCHANGED <<row, locals, lease, crashes, history>>

\* The same, but the usage record cannot be written and the handler raises.
FailAttemptRaises(c) ==
    /\ At(c, "attempt_failed")
    /\ inflight' = Add(inflight, c, -1)
    /\ quota' = Add(quota, c, -1)
    /\ Charge
    /\ Go(c, "raised")
    /\ UNCHANGED <<row, locals, lease, crashes, history>>

-----------------------------------------------------------------------------
\* A plain request succeeds: lease released, in-flight mark ended, circuit
\* closed.
Succeed(c) ==
    /\ At(c, "sent") /\ ~stream[c]
    /\ lease' = [lease EXCEPT ![c] = FALSE]
    /\ inflight' = Add(inflight, c, -1)
    /\ failures' = 0
    /\ evidence' = "finished"
    /\ Go(c, "recording")
    /\ UNCHANGED <<row, locals, quota, crashes, forwarded, mishap>>

RecordUsage(c) ==
    /\ At(c, "recording")
    /\ Go(c, "respond_ok")
    /\ UNCHANGED <<row, locals, taken, failures, crashes, history>>

\* The usage record cannot be written: the attempt's exception handler runs
\* after all, and the loop goes on to another candidate.
RecordUsageFails(c) ==
    /\ At(c, "recording")
    /\ mishap' = [mishap EXCEPT ![c] = "local"]
    /\ Go(c, "attempt_failed")
    /\ UNCHANGED <<row, locals, taken, failures, crashes,
                   forwarded, evidence>>

\* dispatch_stream: the wrapper's own in-flight mark, which lasts until finalize.
StreamMark(marks, c) == Add(marks, c, 1)

\* A stream is established: the wrapper's in-flight mark begins, the loop's
\* ends, and the lease stays with the body.
StreamHeaders(c) ==
    /\ At(c, "sent") /\ stream[c]
    /\ inflight' = Add(StreamMark(inflight, c), c, -1)
    /\ failures' = 0
    /\ Go(c, "headers")
    /\ UNCHANGED <<row, locals, lease, quota, crashes, history>>

StartBody(c) ==
    /\ At(c, "headers")
    /\ started' = [started EXCEPT ![c] = TRUE]
    /\ Go(c, "streaming")
    /\ UNCHANGED <<row, attempts, stream, terminal, fin, taken, failures,
                   crashes, history>>

\* Mutant: a later [DONE] hides an earlier failure.
TerminalAfter_LastWins(old, seen) == seen

\* StreamUsageCollector: a failure event is not overridden by a later [DONE].
TerminalAfter(old, seen) == IF old = "failed" THEN "failed" ELSE seen

\* A terminal marker arrives in the stream, in a line that is ended: what finish()
\* finds in a last line without an end comes after body has chosen the status.
Marker(c, seen) ==
    /\ At(c, "streaming")
    /\ terminal' = [terminal EXCEPT ![c] = TerminalAfter(@, seen)]
    /\ terminal[c] # seen
    /\ evidence' = IF seen = "failed" \/ evidence = "refuted"
                   THEN "refuted" ELSE "finished"
    /\ UNCHANGED <<row, pc, attempts, stream, fin, started, taken, failures,
                   crashes, forwarded, mishap>>

\* finalize, up to its first await.
Finalize(c, status) ==
    /\ fin' = [fin EXCEPT ![c] = status]
    /\ inflight' = Add(inflight, c, -1)
    /\ \/ /\ status = "completed"
          /\ failures' = 0
          /\ row' = Transition(row, "completed")
          /\ Go(c, "closing")
       \/ /\ status # "completed"
          /\ Go(c, "refunding")
          /\ UNCHANGED <<failures, row>>
    /\ UNCHANGED <<attempts, stream, terminal, started, quota, crashes,
                   forwarded, evidence, mishap>>

\* What a clean end of the provider's stream means.
EndStatus(c) == IF terminal[c] = "completed" THEN "completed" ELSE "incomplete"

\* The provider's stream ends; the inner generator releases the lease first.
BodyEnds(c) ==
    /\ At(c, "streaming")
    /\ lease' = [lease EXCEPT ![c] = FALSE]
    /\ Finalize(c, EndStatus(c))

\* The provider's stream breaks.
BodyBreaks(c) ==
    /\ At(c, "streaming")
    /\ lease' = [lease EXCEPT ![c] = FALSE]
    /\ Finalize(c, "failed")

\* The client goes away while the body awaits the provider.
BodyCancelled(c) ==
    /\ "body" \in CancelPoints
    /\ At(c, "streaming")
    /\ lease' = [lease EXCEPT ![c] = FALSE]
    /\ Finalize(c, "cancelled")

\* The client goes away while a chunk is being sent: the generator is closed
\* where it yielded, and the inner generator, which holds the lease, after it.
BodyClosed(c) ==
    /\ "body" \in CancelPoints
    /\ At(c, "streaming")
    /\ Finalize(c, "closed")
    /\ UNCHANGED lease

\* Mutant: the refund is forgotten.
Refund_Forgotten(c) ==
    /\ At(c, "refunding")
    /\ row' = Transition(row, "possibly_accepted")
    /\ Go(c, "closing")
    /\ UNCHANGED <<locals, taken, failures, crashes, history>>

\* finalize of a stream that did not complete: refund, charge the circuit if
\* the body raised (closing it raises GeneratorExit), settle the row.
Refund(c) ==
    /\ At(c, "refunding")
    /\ quota' = Add(quota, c, -1)
    /\ IF fin[c] \in {"failed", "closed"} THEN Charge ELSE UNCHANGED failures
    /\ row' = Transition(row, "possibly_accepted")
    /\ Go(c, "closing")
    /\ UNCHANGED <<locals, lease, inflight, crashes, history>>

\* A cancellation, or a further one, reaches finalize at its first await: the
\* rest of it is skipped.  The thread that refunds may have begun, and then ends
\* its work; the server may swallow the cancellation with the response.
FinalizeCancelled(c) ==
    /\ "finalize" \in CancelPoints
    /\ At(c, "refunding") /\ fin[c] # "closed"
    /\ mishap' = [mishap EXCEPT ![c] = "dropped"]
    /\ quota' \in {quota, Add(quota, c, -1)}
    /\ \E p \in {"raised", "done"} : Go(c, p)
    /\ UNCHANGED <<row, locals, lease, inflight, failures, crashes, forwarded, evidence>>

\* Usage and lifecycle event are recorded and the body is over.
CloseBody(c) ==
    /\ At(c, "closing")
    /\ lease' = [lease EXCEPT ![c] = FALSE]
    /\ CASE fin[c] \in {"completed", "incomplete"} -> Go(c, "respond_ok")
         [] fin[c] = "failed" -> Go(c, "raised")
         [] fin[c] = "cancelled" -> \E p \in {"raised", "done"} : Go(c, p)
         [] fin[c] = "closed" -> Go(c, "done")
    /\ UNCHANGED <<row, locals, inflight, quota, failures, crashes, history>>

\* Usage or lifecycle event cannot be recorded: the body raises.
CloseBodyRaises(c) ==
    /\ At(c, "closing")
    /\ lease' = [lease EXCEPT ![c] = FALSE]
    /\ Go(c, IF fin[c] = "closed" THEN "done" ELSE "raised")
    /\ UNCHANGED <<row, locals, inflight, quota, failures, crashes, history>>

-----------------------------------------------------------------------------
\* Mutant: the final message of an error settles nothing.
RowAfterResponse_ErrorIgnored(r, ok) == IF ok THEN Transition(r, "completed") ELSE r

\* tracked_send: the row after the last message of a response.
RowAfterResponse(r, ok) ==
    CASE r \in {"completed", "possibly_accepted"} -> r
      [] OTHER -> Transition(r, IF ok THEN "completed"
                                ELSE IF r = "upstream_started"
                                THEN "possibly_accepted" ELSE "failed")

Respond(c, ok) ==
    /\ At(c, IF ok THEN "respond_ok" ELSE "respond_error")
    /\ row' = RowAfterResponse(row, ok)
    /\ Go(c, "done")
    /\ UNCHANGED <<locals, taken, failures, crashes, history>>

\* The response is interrupted before its last message.
RespondBreaks(c) ==
    /\ pc[c] \in {"respond_ok", "respond_error"}
    /\ started' = [started EXCEPT ![c] = TRUE]
    /\ Go(c, "raised")
    /\ UNCHANGED <<row, attempts, stream, terminal, fin, taken, failures,
                   crashes, history>>

\* The middleware's exception handler.
HandleRaise(c) ==
    /\ At(c, "raised")
    /\ row' = Transition(row, IF started[c] \/ row = "upstream_started"
                              THEN "possibly_accepted" ELSE "failed")
    /\ Go(c, "done")
    /\ UNCHANGED <<locals, taken, failures, crashes, history>>

\* The call's task is cancelled while _execute awaits.  A dispatch under way
\* releases its lease and settles the row; nothing ends the in-flight mark or
\* refunds the quota.
CancelExecute(c) ==
    /\ "execute" \in CancelPoints
    /\ pc[c] \in {"loop", "deciding", "admission", "fenced", "sent",
                  "attempt_failed", "recording"}
    /\ lease' = [lease EXCEPT ![c] = FALSE]
    /\ row' = IF pc[c] \in {"admission", "fenced", "sent"}
              THEN Transition(row, "possibly_accepted") ELSE row
    /\ mishap' = [mishap EXCEPT ![c] = "local"]
    /\ Go(c, "raised")
    /\ UNCHANGED <<locals, inflight, quota, failures, crashes, forwarded, evidence>>

\* The client goes away, or the task is cancelled, between a stream's headers
\* and its first chunk: the body, which owns the lease, was never started, so
\* its finally clause never runs.  The server may swallow the cancellation.
CancelHeaders(c) ==
    /\ "headers" \in CancelPoints
    /\ At(c, "headers")
    /\ mishap' = [mishap EXCEPT ![c] = "dropped"]
    /\ \E p \in {"raised", "done"} : Go(c, p)
    /\ UNCHANGED <<row, locals, taken, failures, crashes, forwarded, evidence>>

\* The process dies: what it kept in memory is gone, the row is durable.
Crash ==
    /\ crashes < MaxCrashes
    /\ crashes' = crashes + 1
    /\ pc' = [c \in Call |-> IF pc[c] \in Over THEN pc[c] ELSE "lost"]
    /\ lease' = [c \in Call |-> FALSE]
    /\ inflight' = [c \in Call |-> 0]
    /\ quota' = [c \in Call |-> 0]
    /\ failures' = 0
    /\ mishap' = [c \in Call |-> IF pc[c] = "new" \/ mishap[c] = "dropped"
                                  THEN mishap[c] ELSE "local"]
    /\ UNCHANGED <<row, locals, forwarded, evidence>>

\* What a call does of itself, given that the upstream, the gate and the
\* provider's stream answer.
Proceed(c) ==
    \/ Reserve(c) \/ Duplicate(c)
    \/ SkipCandidate(c) \/ TakeCandidate(c) \/ GiveUp(c)
    \/ Dispatch(c) \/ DecisionEventFails(c)
    \/ Admit(c) \/ Send(c)
    \/ Rejected(c) \/ NotAuthorized(c) \/ FateUnknown(c)
    \/ FailAttempt(c) \/ FailAttemptRaises(c)
    \/ Succeed(c) \/ RecordUsage(c) \/ RecordUsageFails(c)
    \/ StreamHeaders(c) \/ StartBody(c)
    \/ BodyEnds(c) \/ BodyBreaks(c)
    \/ Refund(c) \/ CloseBody(c) \/ CloseBodyRaises(c)
    \/ Respond(c, TRUE) \/ Respond(c, FALSE) \/ RespondBreaks(c) \/ HandleRaise(c)

Next ==
    \/ \E c \in Call :
         \/ Proceed(c)
         \/ \E seen \in {"completed", "failed"} : Marker(c, seen)
         \/ BodyCancelled(c) \/ BodyClosed(c) \/ FinalizeCancelled(c)
         \/ CancelExecute(c) \/ CancelHeaders(c)
    \/ CircuitCloses
    \/ Expire
    \/ Crash

Spec == Init /\ [][Next]_vars

\* Every await of a call is bounded: attempts and queue waits have timeouts,
\* the provider client has read timeouts, local writes return or raise.
FairSpec == Spec /\ \A c \in Call : WF_vars(Proceed(c))

-----------------------------------------------------------------------------
\* Until its row expires a key is forwarded once, whatever became of the
\* first call, a crash included (reserve; the middleware's 409).
ForwardedOnce == Cardinality(forwarded) <= 1

\* A completed row means that an upstream was seen to finish: a plain
\* response, or a stream with a terminal marker and no failure event.  Neither
\* a clean end of the stream nor a 200 is enough (body, tracked_send).
CompletedIsEvidenced == row = "completed" => evidence = "finished"

\* A call that is over holds no admission lease and, if it was forwarded, has
\* settled its row, however it ended, unless its stream was dropped where
\* nothing cleans up (tracked_send, the handler of the middleware, finalize).
SettledWhenDone == \A c \in Call :
    pc[c] \in Over /\ mishap[c] # "dropped" =>
        /\ ~lease[c]
        /\ c \in forwarded /\ pc[c] = "done" => row \in Settled

\* Without a crash, a cancelled loop or a failing local write, the marks a
\* call set are gone when it is over, and it is charged quota for finished
\* work only, and for that it is charged once.
BooksBalanced == \A c \in forwarded :
    (pc[c] = "done" /\ mishap[c] = "none") =>
        /\ inflight[c] = 0
        /\ quota[c] = 0 \/ (quota[c] = 1 /\ evidence = "finished")
        /\ row = "completed" => quota[c] = 1

\* A forwarded call comes to an end.
CallEnds == \A c \in Call : pc[c] = "loop" ~> pc[c] \in Over
=============================================================================
