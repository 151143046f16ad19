----------------------- MODULE RequestLifecycle_proofs -----------------------
(***************************************************************************)
(* Proofs about one idempotency key: for any number of calls, attempts and *)
(* crashes it is forwarded once, its row tells the truth about the         *)
(* upstream, and a call that is over has settled its row and its books.    *)
(***************************************************************************)
EXTENDS RequestLifecycle, FiniteSetTheorems, TLAPS

\* One call at a time is between reserve and its end, and the row is there as
\* long as it is.
KeyOK ==
    /\ row = "absent" => forwarded = {} /\ evidence = "none"
    /\ \A c, d \in forwarded : c = d
    /\ \A c \in Call : pc[c] \notin Over => c \in forwarded
    /\ CompletedIsEvidenced

\* What a call holds, whether it was forwarded or not.
HeldOK(c) ==
    /\ lease[c] => \/ mishap[c] = "dropped"
                   \/ pc[c] \in {"fenced", "sent", "headers", "streaming",
                                 "refunding", "closing"}
    /\ mishap[c] = "dropped" => pc[c] \in {"raised", "done", "lost"}
    /\ pc[c] = "new" => /\ c \notin forwarded /\ terminal[c] = "none"
                        /\ inflight[c] = 0 /\ quota[c] = 0

\* What the row and the evidence are at each place of the forwarded call.
RowOK(c) ==
    /\ terminal[c] = "completed" => evidence = "finished"
    /\ evidence = "refuted" => terminal[c] = "failed"
    /\ pc[c] \in {"loop", "deciding", "admission", "fenced", "sent", "attempt_failed",
                  "recording", "headers", "streaming", "refunding", "respond_error"}
          => row # "completed"
    /\ pc[c] = "recording" => evidence = "finished"
    /\ pc[c] = "refunding" => fin[c] \notin {"none", "completed"}
    /\ pc[c] = "closing" => fin[c] # "none" /\ row \in {"completed", "possibly_accepted"}
    /\ pc[c] = "respond_ok" =>
          evidence = "finished" \/ row \in {"completed", "possibly_accepted"}
    /\ pc[c] = "done" /\ mishap[c] # "dropped" => row \in Settled

\* What a call in which nothing else went wrong has taken at each place.
BooksOK(c) == mishap[c] = "none" =>
    /\ inflight[c] = IF pc[c] \in {"admission", "fenced", "sent", "attempt_failed",
                                   "headers", "streaming"} THEN 1 ELSE 0
    /\ pc[c] \in {"loop", "respond_error"} => quota[c] = 0
    /\ pc[c] \in {"deciding", "admission", "fenced", "sent", "attempt_failed",
                  "recording", "headers", "streaming", "refunding"} => quota[c] = 1
    /\ pc[c] = "closing" => \/ quota[c] = 0 /\ row = "possibly_accepted"
                            \/ quota[c] = 1 /\ evidence = "finished"
    /\ pc[c] = "respond_ok" => \/ quota[c] = 0 /\ row = "possibly_accepted"
                               \/ quota[c] = 1 /\ evidence = "finished"
    /\ pc[c] \in {"raised", "done"} => \/ quota[c] = 0 /\ row # "completed"
                                       \/ quota[c] = 1 /\ evidence = "finished"

CallsOK ==
    /\ \A c \in Call : HeldOK(c)
    /\ \A c \in forwarded : RowOK(c) /\ BooksOK(c)

IInv == TypeOK /\ KeyOK /\ CallsOK

-----------------------------------------------------------------------------
Row == {"absent", "in_progress", "upstream_started"} \cup Settled
Place == Over \cup {"loop", "deciding", "admission", "fenced", "sent",
            "attempt_failed", "recording", "headers", "streaming", "refunding",
            "closing", "respond_ok", "respond_error", "raised"}

\* What transition makes of a row: nothing of one that is absent or completed,
\* and never "completed" unless that is what it was asked for.
LEMMA TransitionFacts ==
    ASSUME NEW r \in Row, NEW to \in Row \ {"absent"}
    PROVE  /\ Transition(r, to) \in Row
           /\ r # "absent" => Transition(r, to) # "absent"
           /\ r = "completed" => Transition(r, to) = "completed"
           /\ r # "completed" /\ to # "completed" => Transition(r, to) # "completed"
           /\ r # "absent" /\ to \in Settled => Transition(r, to) \in Settled
           /\ r \notin {"absent", "completed"} /\ to = "possibly_accepted" =>
                 Transition(r, to) = "possibly_accepted"
           /\ r # "absent" /\ to = "completed" => Transition(r, to) = "completed"
BY DEF Transition, Row, Settled

\* The same of the last message of a response.
LEMMA ResponseFacts ==
    ASSUME NEW r \in Row, r # "absent", NEW ok \in BOOLEAN
    PROVE  /\ RowAfterResponse(r, ok) \in Settled
           /\ r \in {"completed", "possibly_accepted"} => RowAfterResponse(r, ok) = r
           /\ ~ok /\ r # "completed" => RowAfterResponse(r, ok) # "completed"
<1>1. CASE r \in {"completed", "possibly_accepted"}
  BY <1>1 DEF RowAfterResponse, Settled
<1>2. CASE r \notin {"completed", "possibly_accepted"}
  <2>1. RowAfterResponse(r, ok) =
           Transition(r, IF ok THEN "completed"
                         ELSE IF r = "upstream_started" THEN "possibly_accepted" ELSE "failed")
    BY <1>2 DEF RowAfterResponse
  <2>2. CASE ok
    BY <1>2, <2>1, <2>2, TransitionFacts DEF Row, Settled
  <2>3. CASE ~ok
    BY <1>2, <2>1, <2>3, TransitionFacts DEF Row, Settled
  <2> QED BY <2>2, <2>3
<1> QED BY <1>1, <1>2

-----------------------------------------------------------------------------
\* A body that is being closed has been finalized.
LEMMA ClosingFinal == ASSUME IInv, NEW c \in Call, pc[c] = "closing"
                      PROVE  fin[c] \in {"completed", "incomplete", "failed", "cancelled", "closed"}
<1>1. c \in forwarded /\ fin[c] # "none"
  BY DEF IInv, KeyOK, CallsOK, RowOK, Over
<1> QED BY <1>1 DEF IInv, TypeOK

\* Where a body that is over goes on.
LEMMA CloseGoes == ASSUME IInv, NEW c \in Call, CloseBody(c)
                   PROVE  \/ Go(c, "respond_ok") /\ fin[c] \in {"completed", "incomplete"}
                          \/ Go(c, "raised")
                          \/ Go(c, "done")
<1>1. pc[c] = "closing"
  BY DEF CloseBody, At
<1>2. fin[c] \in {"completed", "incomplete", "failed", "cancelled", "closed"}
  BY <1>1, ClosingFinal
<1> QED BY <1>2 DEF CloseBody

LEMMA TypeStep == ASSUME IInv, [Next]_vars PROVE TypeOK'
<1> TypeOK
  BY DEF IInv
<1> USE LifecycleAssumption DEF TypeOK, Go, At, Add, locals, taken, history, Settled, Over
<1>1. ASSUME NEW c \in Call, Proceed(c) PROVE TypeOK'
  <2>1. CASE Reserve(c)
    BY <2>1 DEF Reserve
  <2>2. CASE Duplicate(c)
    BY <2>2 DEF Duplicate
  <2>3. CASE SkipCandidate(c)
    BY <2>3 DEF SkipCandidate
  <2>4. CASE TakeCandidate(c)
    BY <2>4 DEF TakeCandidate
  <2>5. CASE GiveUp(c)
    BY <2>5 DEF GiveUp
  <2>6. CASE Dispatch(c)
    BY <2>6 DEF Dispatch, Transition
  <2>7. CASE DecisionEventFails(c)
    BY <2>7 DEF DecisionEventFails
  <2>8. CASE Admit(c)
    BY <2>8 DEF Admit
  <2>9. CASE Send(c)
    BY <2>9 DEF Send
  <2>10. CASE Rejected(c)
    BY <2>10 DEF Rejected, AttemptEnds, Transition
  <2>11. CASE NotAuthorized(c)
    BY <2>11 DEF NotAuthorized, AttemptEnds, Transition
  <2>12. CASE FateUnknown(c)
    BY <2>12 DEF FateUnknown, AttemptEnds, Transition
  <2>13. CASE FailAttempt(c)
    BY <2>13 DEF FailAttempt, Charge
  <2>14. CASE FailAttemptRaises(c)
    BY <2>14 DEF FailAttemptRaises, Charge
  <2>15. CASE Succeed(c)
    BY <2>15 DEF Succeed
  <2>16. CASE RecordUsage(c)
    BY <2>16 DEF RecordUsage
  <2>17. CASE RecordUsageFails(c)
    BY <2>17 DEF RecordUsageFails
  <2>18. CASE StreamHeaders(c)
    BY <2>18 DEF StreamHeaders, StreamMark
  <2>19. CASE StartBody(c)
    BY <2>19 DEF StartBody
  <2>20. CASE BodyEnds(c)
    BY <2>20 DEF BodyEnds, Finalize, EndStatus, Transition
  <2>21. CASE BodyBreaks(c)
    BY <2>21 DEF BodyBreaks, Finalize, Transition
  <2>22. CASE Refund(c)
    BY <2>22 DEF Refund, Charge, Transition
  <2>23. CASE CloseBody(c)
    <3>1. \E p \in {"respond_ok", "raised", "done"} : Go(c, p)
      BY <2>23, CloseGoes
    <3>2. /\ lease' = [lease EXCEPT ![c] = FALSE]
          /\ UNCHANGED <<row, locals, inflight, quota, failures, crashes, history>>
      BY <2>23 DEF CloseBody
    <3> QED BY <3>1, <3>2
  <2>24. CASE CloseBodyRaises(c)
    BY <2>24 DEF CloseBodyRaises
  <2>25. CASE Respond(c, TRUE)
    BY <2>25 DEF Respond, RowAfterResponse, Transition
  <2>26. CASE Respond(c, FALSE)
    BY <2>26 DEF Respond, RowAfterResponse, Transition
  <2>27. CASE RespondBreaks(c)
    BY <2>27 DEF RespondBreaks
  <2>28. CASE HandleRaise(c)
    BY <2>28 DEF HandleRaise, Transition
  <2> QED
    BY <1>1, <2>1, <2>2, <2>3, <2>4, <2>5, <2>6, <2>7, <2>8, <2>9, <2>10, <2>11, <2>12,
       <2>13, <2>14, <2>15, <2>16, <2>17, <2>18, <2>19, <2>20, <2>21, <2>22, <2>23, <2>24,
       <2>25, <2>26, <2>27, <2>28 DEF Proceed
<1>2. ASSUME NEW c \in Call, NEW seen \in {"completed", "failed"}, Marker(c, seen) PROVE TypeOK'
  BY <1>2 DEF Marker, TerminalAfter
<1>3. ASSUME NEW c \in Call, BodyCancelled(c) \/ BodyClosed(c) PROVE TypeOK'
  <2>1. CASE BodyCancelled(c)
    BY <2>1 DEF BodyCancelled, Finalize
  <2>2. CASE BodyClosed(c)
    BY <2>2 DEF BodyClosed, Finalize
  <2> QED BY <1>3, <2>1, <2>2
<1>4. ASSUME NEW c \in Call, FinalizeCancelled(c) PROVE TypeOK'
  BY <1>4 DEF FinalizeCancelled
<1>5. ASSUME NEW c \in Call, CancelExecute(c) PROVE TypeOK'
  BY <1>5 DEF CancelExecute, Transition
<1>6. ASSUME NEW c \in Call, CancelHeaders(c) PROVE TypeOK'
  BY <1>6 DEF CancelHeaders
<1>7. ASSUME CircuitCloses PROVE TypeOK'
  BY <1>7 DEF CircuitCloses
<1>8. ASSUME Expire PROVE TypeOK'
  BY <1>8 DEF Expire
<1>9. ASSUME Crash PROVE TypeOK'
  BY <1>9 DEF Crash
<1>10. ASSUME UNCHANGED vars PROVE TypeOK'
  BY <1>10 DEF vars
<1> QED BY <1>1, <1>2, <1>3, <1>4, <1>5, <1>6, <1>7, <1>8, <1>9, <1>10 DEF Next

-----------------------------------------------------------------------------
\* What a step of call c may do: nothing to another call or to what was
\* forwarded, and its own place has its own row, books and leases.
Sound(c) ==
    /\ forwarded' = forwarded /\ row' # "absent"
    /\ \A d \in Call \ {c} :
          /\ pc'[d] = pc[d] /\ mishap'[d] = mishap[d] /\ lease'[d] = lease[d]
          /\ terminal'[d] = terminal[d]
          /\ inflight'[d] = inflight[d] /\ quota'[d] = quota[d]
    /\ CompletedIsEvidenced'
    /\ HeldOK(c)' /\ RowOK(c)' /\ BooksOK(c)'

\* A sound step of a call under way is all the invariant needs: no other call
\* has been forwarded.
LEMMA SoundStep ==
    ASSUME IInv, TypeOK', NEW c \in Call, pc[c] \notin Over, Sound(c)
    PROVE  IInv'
<1>1. c \in forwarded /\ forwarded' = {c}
  BY DEF IInv, KeyOK, Sound
<1>2. KeyOK'
  BY <1>1 DEF IInv, KeyOK, Sound
<1>3. \A d \in Call \ {c} : HeldOK(d)'
  BY DEF IInv, CallsOK, HeldOK, Sound
<1>4. CallsOK'
  BY <1>1, <1>3 DEF CallsOK, Sound
<1> QED BY <1>2, <1>4 DEF IInv

\* What is known of a call under way.
Known(c) ==
    /\ TypeOK /\ c \in forwarded /\ row \in Row \ {"absent"}
    /\ CompletedIsEvidenced /\ HeldOK(c) /\ RowOK(c) /\ BooksOK(c)

LEMMA CallKnown ==
    ASSUME IInv, NEW c \in Call, pc[c] \notin Over
    PROVE  Known(c)
BY DEF IInv, TypeOK, KeyOK, CallsOK, Known, Row

\* The steps of the attempt loop.
LEMMA AttemptSteps ==
    ASSUME NEW c \in Call, Known(c),
           \/ SkipCandidate(c) \/ TakeCandidate(c) \/ GiveUp(c) \/ DecisionEventFails(c)
           \/ Dispatch(c) \/ Admit(c) \/ Send(c) \/ Rejected(c)
           \/ NotAuthorized(c) \/ FateUnknown(c) \/ FailAttempt(c) \/ FailAttemptRaises(c)
           \/ Succeed(c) \/ RecordUsage(c) \/ RecordUsageFails(c) \/ CancelExecute(c)
    PROVE  Sound(c)
<1> USE DEF Known, Sound, HeldOK, RowOK, BooksOK, CompletedIsEvidenced, TypeOK, Go, At, Add,
            locals, taken, history
<1>1. CASE SkipCandidate(c)
  BY <1>1 DEF SkipCandidate
<1>2. CASE TakeCandidate(c)
  BY <1>2 DEF TakeCandidate
<1>3. CASE GiveUp(c)
  BY <1>3 DEF GiveUp
<1>4. CASE DecisionEventFails(c)
  BY <1>4 DEF DecisionEventFails
<1>5. CASE Dispatch(c)
  BY <1>5, TransitionFacts DEF Dispatch, Row
<1>6. CASE Admit(c)
  BY <1>6 DEF Admit
<1>7. CASE Send(c)
  BY <1>7 DEF Send
<1>8. CASE Rejected(c)
  BY <1>8, TransitionFacts DEF Rejected, AttemptEnds, Row
<1>9. CASE NotAuthorized(c)
  BY <1>9, TransitionFacts DEF NotAuthorized, AttemptEnds, Row, Settled
<1>10. CASE FateUnknown(c)
  BY <1>10, TransitionFacts DEF FateUnknown, AttemptEnds, Row, Settled
<1>11. CASE FailAttempt(c)
  BY <1>11 DEF FailAttempt
<1>12. CASE FailAttemptRaises(c)
  BY <1>12 DEF FailAttemptRaises
<1>13. CASE Succeed(c)
  BY <1>13 DEF Succeed
<1>14. CASE RecordUsage(c)
  BY <1>14 DEF RecordUsage
<1>15. CASE RecordUsageFails(c)
  BY <1>15 DEF RecordUsageFails
<1>16. CASE CancelExecute(c)
  BY <1>16, TransitionFacts DEF CancelExecute, Row, Settled
<1> QED BY <1>1, <1>2, <1>3, <1>4, <1>5, <1>6, <1>7, <1>8, <1>9, <1>10, <1>11, <1>12, <1>13, <1>14, <1>15, <1>16

\* The steps of a stream, from its headers to its end.
LEMMA BodySteps ==
    ASSUME NEW c \in Call, Known(c),
           \/ StreamHeaders(c) \/ StartBody(c) \/ CancelHeaders(c) \/ (\E seen \in {"completed", "failed"} : Marker(c, seen))
           \/ BodyEnds(c) \/ BodyBreaks(c) \/ BodyCancelled(c) \/ BodyClosed(c)
           \/ Refund(c) \/ FinalizeCancelled(c) \/ CloseBodyRaises(c)
    PROVE  Sound(c)
<1> USE DEF Known, Sound, HeldOK, RowOK, BooksOK, CompletedIsEvidenced, TypeOK, Go, At, Add,
            locals, taken, history
<1>1. CASE StreamHeaders(c)
  BY <1>1 DEF StreamHeaders, StreamMark
<1>2. CASE StartBody(c)
  BY <1>2 DEF StartBody
<1>3. CASE CancelHeaders(c)
  BY <1>3 DEF CancelHeaders
<1>4. CASE (\E seen \in {"completed", "failed"} : Marker(c, seen))
  BY <1>4 DEF Marker, TerminalAfter
<1>5. CASE BodyEnds(c)
  BY <1>5, TransitionFacts DEF BodyEnds, Finalize, EndStatus, Row, Settled
<1>6. CASE BodyBreaks(c)
  BY <1>6 DEF BodyBreaks, Finalize
<1>7. CASE BodyCancelled(c)
  BY <1>7 DEF BodyCancelled, Finalize
<1>8. CASE BodyClosed(c)
  BY <1>8 DEF BodyClosed, Finalize
<1>9. CASE Refund(c)
  BY <1>9, TransitionFacts DEF Refund, Row, Settled
<1>10. CASE FinalizeCancelled(c)
  BY <1>10 DEF FinalizeCancelled
<1>11. CASE CloseBodyRaises(c)
  BY <1>11 DEF CloseBodyRaises, Settled
<1> QED BY <1>1, <1>2, <1>3, <1>4, <1>5, <1>6, <1>7, <1>8, <1>9, <1>10, <1>11

\* The ends of a call.
LEMMA EndSteps ==
    ASSUME NEW c \in Call, Known(c),
           \/ Respond(c, TRUE) \/ Respond(c, FALSE) \/ RespondBreaks(c) \/ HandleRaise(c)
    PROVE  Sound(c)
<1> USE DEF Known, Sound, HeldOK, RowOK, BooksOK, CompletedIsEvidenced, TypeOK, Go, At, Add,
            locals, taken, history
<1>1. CASE Respond(c, TRUE)
  BY <1>1, ResponseFacts DEF Respond, Settled
<1>2. CASE Respond(c, FALSE)
  BY <1>2, ResponseFacts DEF Respond, Settled
<1>3. CASE RespondBreaks(c)
  BY <1>3 DEF RespondBreaks
<1>4. CASE HandleRaise(c)
  BY <1>4, TransitionFacts DEF HandleRaise, Row, Settled
<1> QED BY <1>1, <1>2, <1>3, <1>4

LEMMA CloseStep ==
    ASSUME IInv, NEW c \in Call, CloseBody(c)
    PROVE  Sound(c)
<1>1. pc[c] = "closing" /\ Known(c)
  BY CallKnown DEF CloseBody, At, Over
<1>2. \E p \in {"respond_ok", "raised", "done"} : Go(c, p)
  BY CloseGoes
<1>3. /\ lease' = [lease EXCEPT ![c] = FALSE]
      /\ UNCHANGED <<row, locals, inflight, quota, failures, crashes, history>>
  BY DEF CloseBody
<1> QED
  BY <1>1, <1>2, <1>3 DEF Known, Sound, HeldOK, RowOK, BooksOK, CompletedIsEvidenced, TypeOK,
                          Go, locals, history, Settled

\* A call that is being forwarded is the only one: the row was absent.
LEMMA ReserveStep ==
    ASSUME IInv, TypeOK', NEW c \in Call, Reserve(c)
    PROVE  IInv'
<1>1. /\ pc[c] = "new" /\ forwarded = {} /\ evidence = "none" /\ HeldOK(c)
      /\ row' = "in_progress" /\ forwarded' = {c} /\ pc' = [pc EXCEPT ![c] = "loop"]
      /\ UNCHANGED <<terminal, fin, lease, inflight, quota, evidence, mishap>>
  BY DEF IInv, KeyOK, CallsOK, Reserve, At, Go, locals, taken
<1>2. pc'[c] = "loop" /\ \A d \in Call \ {c} : pc'[d] = pc[d]
  BY <1>1 DEF IInv, TypeOK
<1>3. KeyOK'
  BY <1>1, <1>2 DEF IInv, KeyOK, CompletedIsEvidenced
<1>4. \A d \in Call : HeldOK(d)'
  BY <1>1, <1>2 DEF IInv, CallsOK, HeldOK
<1>5. RowOK(c)' /\ BooksOK(c)'
  BY <1>1, <1>2 DEF RowOK, BooksOK, HeldOK
<1> QED BY <1>1, <1>3, <1>4, <1>5 DEF IInv, CallsOK

\* A call that is refused was never forwarded.
LEMMA DuplicateStep ==
    ASSUME IInv, TypeOK', NEW c \in Call, Duplicate(c)
    PROVE  IInv'
<1>1. /\ pc[c] = "new" /\ c \notin forwarded /\ pc' = [pc EXCEPT ![c] = "refused"]
      /\ UNCHANGED <<row, terminal, fin, lease, inflight, quota, forwarded, evidence, mishap>>
  BY DEF IInv, CallsOK, HeldOK, Duplicate, At, Go, locals, taken, history
<1>2. pc'[c] = "refused" /\ \A d \in Call \ {c} : pc'[d] = pc[d]
  BY <1>1 DEF IInv, TypeOK
<1>3. KeyOK'
  BY <1>1, <1>2 DEF IInv, KeyOK, CompletedIsEvidenced, Over
<1>4. \A d \in Call : HeldOK(d)'
  BY <1>1, <1>2 DEF IInv, CallsOK, HeldOK
<1>5. \A d \in forwarded : RowOK(d)' /\ BooksOK(d)'
  <2> TAKE d \in forwarded
  <2>1. d \in Call /\ d # c /\ RowOK(d) /\ BooksOK(d)
    BY <1>1 DEF IInv, TypeOK, CallsOK
  <2> QED BY <1>1, <1>2, <2>1 DEF RowOK, BooksOK
<1> QED BY <1>1, <1>3, <1>4, <1>5 DEF IInv, CallsOK

\* The row outlives the calls, so nobody is under way when it expires.
LEMMA ExpireStep == ASSUME IInv, TypeOK', Expire PROVE IInv'
<1>1. /\ \A c \in Call : pc[c] \in Over
      /\ row' = "absent" /\ forwarded' = {} /\ evidence' = "none"
      /\ UNCHANGED <<pc, terminal, lease, inflight, quota, mishap>>
  BY DEF Expire, locals, taken
<1>2. KeyOK'
  BY <1>1 DEF KeyOK, CompletedIsEvidenced
<1>3. \A c \in Call : HeldOK(c)'
  BY <1>1 DEF IInv, CallsOK, HeldOK
<1> QED BY <1>1, <1>2, <1>3 DEF IInv, CallsOK

\* A crash keeps the row, what was forwarded and what was seen of the upstream.
LEMMA CrashStep == ASSUME IInv, TypeOK', Crash PROVE IInv'
<1>1. /\ \A c \in Call :
            /\ pc'[c] = IF pc[c] \in Over THEN pc[c] ELSE "lost"
            /\ mishap'[c] = IF pc[c] = "new" \/ mishap[c] = "dropped" THEN mishap[c] ELSE "local"
            /\ ~lease'[c] /\ inflight'[c] = 0 /\ quota'[c] = 0
      /\ UNCHANGED <<row, terminal, fin, forwarded, evidence>>
  BY DEF Crash, locals
<1>2. KeyOK'
  BY <1>1 DEF IInv, KeyOK, CompletedIsEvidenced, Over
<1>3. \A c \in Call : HeldOK(c)'
  BY <1>1 DEF IInv, CallsOK, HeldOK, Over
<1>4. \A c \in forwarded : RowOK(c)' /\ BooksOK(c)'
  <2> TAKE c \in forwarded
  <2>1. c \in Call /\ HeldOK(c) /\ RowOK(c) /\ pc[c] # "new"
    BY DEF IInv, TypeOK, CallsOK, HeldOK
  <2>2. RowOK(c)'
    BY <1>1, <2>1 DEF RowOK, Over
  <2>3. BooksOK(c)'
    BY <1>1, <2>1 DEF BooksOK
  <2> QED BY <2>2, <2>3
<1> QED BY <1>1, <1>2, <1>3, <1>4 DEF IInv, CallsOK

-----------------------------------------------------------------------------
\* The invariant holds throughout.
LEMMA InvariantHolds == Spec => []IInv
<1>1. Init => IInv
  <2> SUFFICES ASSUME Init PROVE IInv
    OBVIOUS
  <2>1. TypeOK
    BY LifecycleAssumption DEF Init, TypeOK, Over
  <2>2. KeyOK
    BY DEF Init, KeyOK, CompletedIsEvidenced, Over
  <2>3. CallsOK
    BY DEF Init, CallsOK, HeldOK
  <2> QED BY <2>1, <2>2, <2>3 DEF IInv
<1>2. IInv /\ [Next]_vars => IInv'
  <2> SUFFICES ASSUME IInv, [Next]_vars PROVE IInv'
    OBVIOUS
  <2>1. TypeOK'
    BY TypeStep
  <2>2. ASSUME NEW c \in Call, Proceed(c) PROVE IInv'
    <3>1. CASE Reserve(c)
      BY <2>1, <3>1, ReserveStep
    <3>2. CASE Duplicate(c)
      BY <2>1, <3>2, DuplicateStep
    <3>3. CASE ~Reserve(c) /\ ~Duplicate(c)
      <4>1. pc[c] \notin Over
        BY <2>2, <3>3 DEF Proceed, Over, At, SkipCandidate, TakeCandidate, GiveUp, Dispatch,
           DecisionEventFails, Admit, Send, Rejected, NotAuthorized, FateUnknown, FailAttempt,
           FailAttemptRaises, Succeed, RecordUsage, RecordUsageFails, StreamHeaders, StartBody,
           BodyEnds, BodyBreaks, Refund, CloseBody, CloseBodyRaises, Respond, RespondBreaks,
           HandleRaise
      <4>2. Known(c)
        BY <4>1, CallKnown
      <4>3. Sound(c)
        BY <2>2, <3>3, <4>2, AttemptSteps, BodySteps, EndSteps, CloseStep DEF Proceed
      <4> QED BY <2>1, <4>1, <4>3, SoundStep
    <3> QED BY <3>1, <3>2, <3>3
  <2>3. ASSUME NEW c \in Call,
               \/ \E seen \in {"completed", "failed"} : Marker(c, seen)
               \/ BodyCancelled(c) \/ BodyClosed(c) \/ FinalizeCancelled(c)
               \/ CancelExecute(c) \/ CancelHeaders(c)
        PROVE  IInv'
    <3>1. pc[c] \notin Over
      BY <2>3 DEF Over, At, Marker, BodyCancelled, BodyClosed, FinalizeCancelled,
                  CancelExecute, CancelHeaders
    <3>2. Known(c)
      BY <3>1, CallKnown
    <3>3. Sound(c)
      BY <2>3, <3>2, AttemptSteps, BodySteps
    <3> QED BY <2>1, <3>1, <3>3, SoundStep
  <2>4. ASSUME CircuitCloses \/ UNCHANGED vars PROVE IInv'
    <3>1. UNCHANGED <<row, pc, locals, taken, history>>
      BY <2>4 DEF CircuitCloses, vars
    <3>2. KeyOK'
      BY <3>1 DEF IInv, KeyOK, CompletedIsEvidenced, history
    <3>3. CallsOK'
      BY <3>1 DEF IInv, CallsOK, HeldOK, RowOK, BooksOK, locals, taken, history
    <3> QED BY <2>1, <3>2, <3>3 DEF IInv
  <2> QED BY <2>1, <2>2, <2>3, <2>4, ExpireStep, CrashStep DEF Next
<1> QED BY <1>1, <1>2, PTL DEF Spec

\* Row, calls and what they hold keep their types, for any calls and bounds.
THEOREM TypeCorrect == Spec => []TypeOK
<1>1. IInv => TypeOK
  BY DEF IInv
<1> QED BY <1>1, InvariantHolds, PTL

\* However many calls come with a key, and however the first one ends, one of
\* them is forwarded until the row expires (reserve).
THEOREM KeyForwardedOnce == Spec => []ForwardedOnce
<1>1. IInv => ForwardedOnce
  <2> SUFFICES ASSUME IInv PROVE Cardinality(forwarded) <= 1
    BY DEF ForwardedOnce
  <2>1. CASE forwarded = {}
    BY <2>1, FS_EmptySet
  <2>2. CASE forwarded # {}
    <3>1. PICK c \in forwarded : forwarded = {c}
      BY <2>2 DEF IInv, KeyOK
    <3> QED BY <3>1, FS_Singleton
  <2> QED BY <2>1, <2>2
<1> QED BY <1>1, InvariantHolds, PTL

\* The row is completed only when an upstream was seen to finish: neither a clean
\* end of a stream nor a 200 is enough (body, tracked_send).
THEOREM CompletionIsEvidenced == Spec => []CompletedIsEvidenced
<1>1. IInv => CompletedIsEvidenced
  BY DEF IInv, KeyOK
<1> QED BY <1>1, InvariantHolds, PTL

\* A call that is over holds no lease and has settled its row, whatever failed or
\* was cancelled on the way, unless its stream was dropped where nothing cleans
\* up (tracked_send, finalize, the middleware's handler).
THEOREM CallsSettle == Spec => []SettledWhenDone
<1>1. IInv => SettledWhenDone
  BY DEF IInv, CallsOK, HeldOK, RowOK, SettledWhenDone, Over
<1> QED BY <1>1, InvariantHolds, PTL

\* Without a crash, a cancelled loop or a failing local write a call leaves no mark
\* behind and pays for finished work, once (_execute, finalize).
THEOREM BooksBalance == Spec => []BooksBalanced
<1>1. IInv => BooksBalanced
  <2> SUFFICES ASSUME IInv, NEW c \in forwarded, pc[c] = "done", mishap[c] = "none"
               PROVE  /\ inflight[c] = 0
                      /\ quota[c] = 0 \/ (quota[c] = 1 /\ evidence = "finished")
                      /\ row = "completed" => quota[c] = 1
    BY DEF BooksBalanced
  <2>1. BooksOK(c)
    BY DEF IInv, CallsOK
  <2> QED BY <2>1 DEF BooksOK
<1> QED BY <1>1, InvariantHolds, PTL
=============================================================================
