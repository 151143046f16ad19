------------------------ MODULE ExecutorAuth_proofs ------------------------
(***************************************************************************)
(* Proofs about the authority of a dispatch: for any requests, tokens,     *)
(* budgets and expiries, a token's budget holds in the life of a process,  *)
(* a claim lost in the queue never uses the model, and a path given out    *)
(* answered a probe less than its lifetime ago.                            *)
(***************************************************************************)
EXTENDS ExecutorAuth, TLAPS

\* The choice kept is not valid for longer than the lifetime of the answer that
\* it stands for, and every probe in hand began in the past.
PathOK ==
    /\ choice.url # 0 =>
          /\ answered[choice.url] >= 0
          /\ choice.expires_at <= answered[choice.url] + TTL
    /\ \A r \in Request : probing[r].now <= clock

\* At most one request is between the two readings of the clock.
OneChecked == \A r, s \in Request : pc[r] = "checked" /\ pc[s] = "checked" => r = s

\* Until a token expires its record is exact and within the budget.  After that
\* one request more may come on top: the one that is checked already.
Charged ==
    /\ \A t \in Token :
          /\ exp[t] > clock => records[t] = admitted[t] /\ admitted[t] <= maxAttempts[t]
          /\ admitted[t] <= maxAttempts[t] + 1
    /\ \A r \in Request :
          pc[r] = "checked" => admitted[tokenOf[r]] <= maxAttempts[tokenOf[r]]

\* AssistX is asked after the slot was granted, and a claim does not come back.
FenceOK == \A r \in Request :
    /\ pc[r] \in {"new", "checked", "app", "queued"} => reply[r] = "none"
    /\ pc[r] = "asking" /\ claim[tokenOf[r]] = "held" => heldAt[r] = "held"
    /\ reply[r] = "held" => heldAt[r] = "held"
    /\ pc[r] \in {"fenced", "sent"} => reply[r] = "held"

IInv == TypeOK /\ PathOK /\ OneChecked /\ Charged /\ FenceOK

\* What PathRecentlyAnswered says of one step.
PathStepOK == \A r \in Request : path[r] # path'[r] =>
    /\ answered'[path'[r]] >= 0
    /\ clock - answered'[path'[r]] < TTL

-----------------------------------------------------------------------------
\* The urls are numbered from 1.
LEMMA FirstUrl == 1 \in Url /\ Url \subseteq Nat /\ 0 \notin Url
BY PathAssumption DEF Url

\* A fresh choice that is taken from the cache answered in time.
LEMMA CacheStep ==
    ASSUME PathTypeOK, PathOK, NEW r \in Request, TakeCached(r), UNCHANGED clock
    PROVE  PathTypeOK' /\ PathOK' /\ PathStepOK
<1> USE PathAssumption, FirstUrl
<1>1. PathTypeOK'
  BY DEF TakeCached, Move, PathTypeOK
<1>2. PathOK'
  BY DEF TakeCached, PathOK
<1>3. /\ choice.url \in Url /\ choice.expires_at \in Nat /\ clock \in Nat
      /\ answered[choice.url] \in Int
  <2>1. choice.url \in Url /\ choice.expires_at \in Nat
    BY DEF TakeCached, Cached, PathTypeOK
  <2>2. answered[choice.url] \in -1..MaxTime /\ clock \in 0..MaxTime
    BY <2>1 DEF PathTypeOK
  <2> QED BY <2>1, <2>2
<1>4. answered[choice.url] >= 0 /\ clock - answered[choice.url] < TTL
  BY <1>3 DEF TakeCached, Cached, PathOK
<1>5. PathStepOK
  BY <1>4 DEF TakeCached, PathStepOK, PathTypeOK
<1> QED BY <1>1, <1>2, <1>5

\* A step of a call that keeps the choice and hands out no path.
LEMMA NoPathStep ==
    ASSUME PathTypeOK, PathOK, NEW r \in Request, UNCHANGED clock,
           StartProbing(r) \/ AwaitLock(r) \/ ProbeFails(r) \/ CancelSelect(r)
    PROVE  PathTypeOK' /\ PathOK' /\ PathStepOK
<1> USE PathAssumption, FirstUrl
<1>1. UNCHANGED <<choice, path, answered>>
  BY DEF StartProbing, AwaitLock, ProbeFails, CancelSelect
<1>2. clock \in Nat /\ clock \in 0..MaxTime /\ 0 \in 0..MaxTime
  BY DEF PathTypeOK
<1>3. /\ probing' \in [Request -> [url : Url, now : 0..MaxTime]]
      /\ \A q \in Request : probing'[q].now <= clock
  <2>1. CASE StartProbing(r)
    <3>1. probing' = [probing EXCEPT ![r] = [url |-> 1, now |-> clock]]
      BY <2>1 DEF StartProbing
    <3> QED BY <3>1, <1>2 DEF PathTypeOK, PathOK
  <2>2. CASE AwaitLock(r)
    BY <2>2 DEF AwaitLock, PathTypeOK, PathOK
  <2>3. CASE ProbeFails(r) /\ probing' = [probing EXCEPT ![r].url = probing[r].url + 1]
                           /\ probing[r].url < Len(urls)
    <3>1. probing[r] \in [url : Url, now : 0..MaxTime] /\ probing[r].url + 1 \in Url
      <4>1. probing[r] \in [url : Url, now : 0..MaxTime] /\ probing[r].url \in Url
        BY DEF PathTypeOK
      <4> QED BY <2>3, <4>1 DEF Url
    <3> QED BY <2>3, <3>1 DEF PathTypeOK, PathOK
  <2>4. CASE StopProbing(r)
    BY <2>4, <1>2 DEF StopProbing, NoProbe, PathTypeOK, PathOK
  <2> QED BY <2>1, <2>2, <2>3, <2>4 DEF ProbeFails, CancelSelect
<1>4. holder' \in Request \cup {None}
  BY DEF StartProbing, AwaitLock, ProbeFails, CancelSelect, Release, PathTypeOK
<1>5. sel' \in [Request -> {"idle", "waiting", "probing", "chosen", "unreachable", "gone"}]
  BY DEF StartProbing, AwaitLock, ProbeFails, CancelSelect, Move, PathTypeOK
<1>6. PathTypeOK'
  BY <1>1, <1>3, <1>4, <1>5 DEF PathTypeOK
<1>7. PathOK' /\ PathStepOK
  BY <1>1, <1>3 DEF PathOK, PathStepOK
<1> QED BY <1>6, <1>7

\* A url that answers is chosen for what is left of the lifetime.
LEMMA AnswerStep ==
    ASSUME PathTypeOK, PathOK, NEW r \in Request, ProbeAnswers(r), UNCHANGED clock
    PROVE  PathTypeOK' /\ PathOK' /\ PathStepOK
<1> USE PathAssumption, FirstUrl
<1> DEFINE u == probing[r].url
           n == probing[r].now
<1>1. u \in Url /\ n \in Nat /\ n <= clock /\ clock \in Nat /\ clock \in -1..MaxTime
  BY DEF PathTypeOK, PathOK
<1>2. /\ choice' = [url |-> u, expires_at |-> n + TTL]
      /\ path' = [path EXCEPT ![r] = u]
      /\ answered' = [answered EXCEPT ![u] = clock]
      /\ sel' = [sel EXCEPT ![r] = "chosen"] /\ holder' = None
      /\ probing' = [probing EXCEPT ![r] = [url |-> 1, now |-> 0]]
  BY DEF ProbeAnswers, Move, Release, StopProbing, NoProbe
<1> HIDE DEF u, n
<1>3. answered'[u] = clock
  BY <1>1, <1>2 DEF PathTypeOK
<1>4. PathTypeOK'
  <2>1. choice' \in [url : Url \cup {0}, expires_at : Nat]
    BY <1>1, <1>2
  <2>2. probing' \in [Request -> [url : Url, now : 0..MaxTime]]
    BY <1>2 DEF PathTypeOK
  <2>3. path' \in [Request -> Url \cup {0}] /\ answered' \in [Url -> -1..MaxTime]
    BY <1>1, <1>2 DEF PathTypeOK
  <2> QED BY <1>2, <2>1, <2>2, <2>3 DEF PathTypeOK
<1>5. PathOK'
  BY <1>1, <1>2, <1>3 DEF PathOK, PathTypeOK
<1>6. PathStepOK
  BY <1>1, <1>2, <1>3 DEF PathStepOK, PathTypeOK
<1> QED BY <1>4, <1>5, <1>6

-----------------------------------------------------------------------------
\* The steps of the middleware and the fence leave the paths alone.
Elsewhere(r) ==
    \/ Check(r) \/ acquire(r) \/ AskForSlot(r) \/ Granted(r)
    \/ AssistxAnswers(r) \/ FenceAnswered(r) \/ Dispatch(r)

\* Every step keeps the choice of a path sound, and gives out sound paths only.
LEMMA PathStep ==
    ASSUME TypeOK, PathOK, [Next]_vars
    PROVE  PathTypeOK' /\ PathOK' /\ [PathStepOK]_<<clock, pathVars>>
<1> USE PathAssumption
<1>0. PathTypeOK
  BY DEF TypeOK
<1>1. ASSUME NEW r \in Request, SelectPath(r)
      PROVE  PathTypeOK' /\ PathOK' /\ PathStepOK
  BY <1>0, <1>1, CacheStep, NoPathStep, AnswerStep
  DEF SelectPath, select, SelectStep, Enter
<1>2. ASSUME UNCHANGED <<clock, pathVars>>
      PROVE  PathTypeOK' /\ PathOK' /\ [PathStepOK]_<<clock, pathVars>>
  BY <1>0, <1>2 DEF pathVars, PathTypeOK, PathOK
<1>3. CASE Tick
  <2>1. clock \in Nat /\ clock' \in 0..MaxTime /\ clock <= clock' /\ UNCHANGED pathVars
    BY <1>0, <1>3 DEF Tick, PathTypeOK
  <2>2. PathTypeOK' /\ PathStepOK
    BY <1>0, <2>1 DEF pathVars, PathTypeOK, PathStepOK
  <2>3. \A r \in Request : probing'[r].now <= clock'
    <3> TAKE r \in Request
    <3>1. probing[r].now \in Nat /\ probing[r].now <= clock
      BY <1>0 DEF PathTypeOK, PathOK
    <3> QED BY <2>1, <3>1 DEF pathVars, PathTypeOK
  <2> QED BY <2>1, <2>2, <2>3 DEF pathVars, PathOK
<1>4. ASSUME NEW r \in Request, Elsewhere(r) PROVE UNCHANGED <<clock, pathVars>>
  BY <1>4 DEF Elsewhere, Check, acquire, AskForSlot, Granted, AssistxAnswers, FenceAnswered, Dispatch
<1>5. CASE Projection \/ UNCHANGED vars \/ \E t \in Token : LoseClaim(t)
  BY <1>2, <1>5 DEF Projection, vars, LoseClaim
<1> QED BY <1>1, <1>2, <1>3, <1>4, <1>5 DEF Next, Proceed, Elsewhere

-----------------------------------------------------------------------------
AuthTypeOK ==
    /\ pc \in [Request -> {"new", "checked", "app", "queued", "leased", "asking",
                           "fenced", "sent", "refused"}]
    /\ strict \in BOOLEAN
    /\ records \in [Token -> Nat]
    /\ proj \in [own : BOOLEAN, fresh : BOOLEAN]
    /\ claim \in [Token -> {"held", "lost"}]
    /\ reply \in [Request -> {"none", "held", "lost"}]
    /\ admitted \in [Token -> Nat]
    /\ heldAt \in [Request -> {"none", "held", "lost"}]

AuthInv == AuthTypeOK /\ OneChecked /\ Charged /\ FenceOK

\* A request that is past the charge moves on without touching the ledger.
LEMMA MovesOn ==
    ASSUME AuthInv, NEW r \in Request,
           NEW p \in {"queued", "asking", "fenced", "sent", "refused"},
           pc' = [pc EXCEPT ![r] = p],
           UNCHANGED <<clock, strict, records, proj, claim, reply, admitted>>,
           heldAt' \in [Request -> {"none", "held", "lost"}],
           \A q \in Request \ {r} : heldAt'[q] = heldAt[q],
           p = "queued" => reply[r] = "none",
           p = "asking" /\ claim[tokenOf[r]] = "held" => heldAt'[r] = "held",
           p \in {"fenced", "sent"} => reply[r] = "held",
           reply[r] = "held" => heldAt'[r] = "held"
    PROVE  AuthInv'
<1>1. AuthTypeOK'
  BY DEF AuthInv, AuthTypeOK
<1>2. OneChecked' /\ Charged'
  BY DEF AuthInv, AuthTypeOK, OneChecked, Charged
<1>3. FenceOK'
  BY DEF AuthInv, AuthTypeOK, FenceOK
<1> QED BY <1>1, <1>2, <1>3 DEF AuthInv

\* The charge: the ledger is exact until the token expires, and the one request
\* that finds its record gone is the last.
LEMMA AcquireStep ==
    ASSUME PathTypeOK, AuthInv, NEW r \in Request, acquire(r) PROVE AuthInv'
<1> DEFINE t == tokenOf[r]
<1> USE AuthAssumption
<1>1. t \in Token /\ clock \in Int /\ exp \in [Token -> Nat] /\ maxAttempts \in [Token -> Nat]
  BY DEF PathTypeOK
<1>2. /\ pc[r] = "checked"
      /\ UNCHANGED <<clock, strict, proj, claim, reply, heldAt>>
      /\ \/ /\ Kept[t] < maxAttempts[t]
            /\ records' = [Kept EXCEPT ![t] = @ + 1]
            /\ admitted' = [admitted EXCEPT ![t] = @ + 1]
            /\ pc' = [pc EXCEPT ![r] = "app"]
         \/ /\ records' = Kept /\ UNCHANGED admitted
            /\ pc' = [pc EXCEPT ![r] = "refused"]
  BY DEF acquire, Goto
<1>3. Kept \in [Token -> Nat] /\ \A s \in Token : exp[s] > clock => Kept[s] = records[s]
  BY DEF Kept, AuthInv, AuthTypeOK
<1> HIDE DEF t
<1>4. AuthTypeOK'
  BY <1>1, <1>2, <1>3 DEF AuthInv, AuthTypeOK
<1>5. OneChecked' /\ FenceOK'
  BY <1>2 DEF AuthInv, AuthTypeOK, OneChecked, FenceOK
<1>6. \A q \in Request : pc'[q] # "checked"
  BY <1>2 DEF AuthInv, AuthTypeOK, OneChecked
<1>7. \A s \in Token : exp[s] > clock => records'[s] = admitted'[s] /\ admitted'[s] <= maxAttempts[s]
  <2> SUFFICES ASSUME NEW s \in Token, exp[s] > clock
               PROVE  records'[s] = admitted'[s] /\ admitted'[s] <= maxAttempts[s]
    OBVIOUS
  <2>1. /\ records[s] = admitted[s] /\ admitted[s] <= maxAttempts[s]
        /\ admitted[s] \in Nat /\ maxAttempts[s] \in Nat /\ Kept[s] = records[s]
    BY <1>1, <1>3 DEF AuthInv, AuthTypeOK, Charged
  <2> QED BY <1>1, <1>2, <1>3, <2>1 DEF AuthInv, AuthTypeOK
<1>8. \A s \in Token : admitted'[s] <= maxAttempts[s] + 1
  <2> SUFFICES ASSUME NEW s \in Token PROVE admitted'[s] <= maxAttempts[s] + 1
    OBVIOUS
  <2>1. /\ admitted[s] <= maxAttempts[s] + 1 /\ admitted[s] \in Nat /\ maxAttempts[s] \in Nat
        /\ s = t => admitted[s] <= maxAttempts[s]
    BY <1>1, <1>2 DEF AuthInv, AuthTypeOK, Charged, t
  <2> QED BY <1>1, <1>2, <2>1 DEF AuthInv, AuthTypeOK
<1>9. Charged'
  BY <1>2, <1>6, <1>7, <1>8 DEF Charged
<1> QED BY <1>4, <1>5, <1>9 DEF AuthInv

\* Every step keeps the ledger exact and the answers of AssistX honest.
LEMMA AuthStep == ASSUME PathTypeOK, AuthInv, [Next]_vars PROVE AuthInv'
<1> USE AuthAssumption
<1>1. ASSUME NEW r \in Request, Check(r) PROVE AuthInv'
  <2>1. /\ pc[r] = "new" /\ Idle
        /\ UNCHANGED <<clock, strict, records, proj, claim, reply, admitted, heldAt>>
    BY <1>1 DEF Check
  <2>2. PICK p \in {"checked", "refused"} :
          /\ pc' = [pc EXCEPT ![r] = p]
          /\ p = "checked" => exp[tokenOf[r]] > clock
    BY <1>1 DEF Check, Goto, Accepted, Signed
  <2>3. AuthTypeOK'
    BY <2>1, <2>2 DEF AuthInv, AuthTypeOK
  <2>4. OneChecked' /\ FenceOK'
    BY <2>1, <2>2 DEF Idle, AuthInv, AuthTypeOK, OneChecked, FenceOK
  <2>5. Charged'
    BY <2>1, <2>2 DEF AuthInv, AuthTypeOK, Charged
  <2> QED BY <2>3, <2>4, <2>5 DEF AuthInv
<1>2. ASSUME NEW r \in Request, AskForSlot(r) PROVE AuthInv'
  <2>1. PICK p \in {"queued", "refused"} : pc' = [pc EXCEPT ![r] = p]
    BY <1>2 DEF AskForSlot, Goto
  <2> QED BY <1>2, <2>1, MovesOn DEF AskForSlot, AuthInv, AuthTypeOK, FenceOK
<1>3. ASSUME NEW r \in Request, Granted(r) PROVE AuthInv'
  <2>1. PICK p \in {"asking", "refused"} : pc' = [pc EXCEPT ![r] = p]
    BY <1>3 DEF Granted, Goto
  <2>2. pc[r] = "queued" /\ heldAt' = [heldAt EXCEPT ![r] = claim[tokenOf[r]]]
    BY <1>3 DEF Granted
  <2>3. reply[r] = "none" /\ claim[tokenOf[r]] \in {"held", "lost"}
    BY <2>2 DEF AuthInv, AuthTypeOK, FenceOK
  <2>4. /\ heldAt' \in [Request -> {"none", "held", "lost"}]
        /\ heldAt'[r] = claim[tokenOf[r]]
        /\ \A q \in Request \ {r} : heldAt'[q] = heldAt[q]
    BY <2>2, <2>3 DEF AuthInv, AuthTypeOK
  <2>5. UNCHANGED <<clock, strict, records, proj, claim, reply, admitted>>
    BY <1>3 DEF Granted
  <2>6. CASE p = "asking"
    BY <2>1, <2>3, <2>4, <2>5, <2>6, MovesOn
  <2>7. CASE p = "refused"
    BY <2>1, <2>3, <2>4, <2>5, <2>7, MovesOn
  <2> QED BY <2>6, <2>7
<1>4. ASSUME NEW r \in Request, AssistxAnswers(r) PROVE AuthInv'
  <2>1. /\ pc[r] = "asking" /\ reply' = [reply EXCEPT ![r] = claim[tokenOf[r]]]
        /\ UNCHANGED <<clock, pc, strict, records, proj, claim, admitted, heldAt>>
    BY <1>4 DEF AssistxAnswers
  <2>2. AuthTypeOK' /\ OneChecked' /\ Charged'
    BY <2>1 DEF AuthInv, AuthTypeOK, OneChecked, Charged
  <2>3. FenceOK'
    BY <2>1 DEF AuthInv, AuthTypeOK, FenceOK
  <2> QED BY <2>2, <2>3 DEF AuthInv
<1>5. ASSUME NEW r \in Request, FenceAnswered(r) PROVE AuthInv'
  <2>1. PICK p \in {"fenced", "refused"} :
          pc' = [pc EXCEPT ![r] = p] /\ (p = "fenced" => reply[r] = "held")
    BY <1>5 DEF FenceAnswered, Goto
  <2> QED BY <1>5, <2>1, MovesOn DEF FenceAnswered, AuthInv, AuthTypeOK, FenceOK
<1>6. ASSUME NEW r \in Request, Dispatch(r) PROVE AuthInv'
  <2>1. PICK p \in {"sent", "refused"} : pc' = [pc EXCEPT ![r] = p]
    BY <1>6 DEF Dispatch, Goto
  <2> QED BY <1>6, <2>1, MovesOn DEF Dispatch, AuthInv, AuthTypeOK, FenceOK
<1>7. CASE UNCHANGED <<clock, authVars>>
  BY <1>7 DEF authVars, AuthInv, AuthTypeOK, OneChecked, Charged, FenceOK
<1>8. CASE Tick
  <2>1. clock \in Nat /\ clock' = clock + 1 /\ UNCHANGED authVars
    BY <1>8 DEF Tick, PathTypeOK
  <2>2. \A t \in Token : exp[t] > clock' => exp[t] > clock
    BY <2>1
  <2> QED BY <2>1, <2>2 DEF authVars, AuthInv, AuthTypeOK, OneChecked, Charged, FenceOK
<1>9. CASE Projection
  <2>1. /\ proj' \in [own : BOOLEAN, fresh : BOOLEAN]
        /\ UNCHANGED <<clock, pc, strict, records, claim, reply, admitted, heldAt>>
    <3>1. proj \in [own : BOOLEAN, fresh : BOOLEAN]
      BY DEF AuthInv, AuthTypeOK
    <3>2. PICK o \in BOOLEAN, f \in BOOLEAN : proj = [own |-> o, fresh |-> f]
      BY <3>1
    <3>3. \/ proj' = [own |-> FALSE, fresh |-> TRUE]
          \/ proj' = [own |-> o, fresh |-> TRUE]
          \/ proj' = [own |-> o, fresh |-> FALSE]
      <4>1. CASE f = TRUE
        BY <1>9, <3>2, <4>1 DEF Projection
      <4>2. CASE f = FALSE
        BY <1>9, <3>2, <4>2 DEF Projection
      <4> QED BY <4>1, <4>2
    <3>4. \A p, r \in BOOLEAN : [own |-> p, fresh |-> r] \in [own : BOOLEAN, fresh : BOOLEAN]
      OBVIOUS
    <3>5. proj' \in [own : BOOLEAN, fresh : BOOLEAN]
      <4>1. TRUE \in BOOLEAN /\ FALSE \in BOOLEAN
        OBVIOUS
      <4> QED BY <3>3, <3>4, <4>1, Zenon
    <3> QED BY <1>9, <3>5 DEF Projection
  <2> QED BY <2>1 DEF AuthInv, AuthTypeOK, OneChecked, Charged, FenceOK
<1>10. ASSUME NEW t \in Token, LoseClaim(t) PROVE AuthInv'
  BY <1>10 DEF LoseClaim, AuthInv, AuthTypeOK, OneChecked, Charged, FenceOK
<1> QED
  BY <1>1, <1>2, <1>3, <1>4, <1>5, <1>6, <1>7, <1>8, <1>9, <1>10, AcquireStep
  DEF Next, Proceed, SelectPath, vars

-----------------------------------------------------------------------------
\* The two halves of the invariant are preserved together.
LEMMA InvariantHolds == Spec => []IInv
<1>1. TypeOK <=> PathTypeOK /\ AuthTypeOK
  BY DEF TypeOK, AuthTypeOK
<1>2. Init => IInv
  <2> SUFFICES ASSUME Init PROVE IInv
    OBVIOUS
  <2>1. PathTypeOK
    <3>1. 1 \in Url /\ 0 \in 0..MaxTime /\ -1 \in -1..MaxTime
      BY FirstUrl, PathAssumption
    <3>2. choice \in [url : Url \cup {0}, expires_at : Nat]
      BY DEF Init, PathInit
    <3>3. probing \in [Request -> [url : Url, now : 0..MaxTime]]
      BY <3>1 DEF Init, PathInit
    <3> QED BY <3>1, <3>2, <3>3 DEF Init, PathInit, PathTypeOK
  <2>2. PathOK
    BY PathAssumption DEF Init, PathInit, PathOK
  <2>3. AuthTypeOK /\ OneChecked /\ FenceOK
    BY AuthAssumption DEF Init, AuthTypeOK, OneChecked, FenceOK
  <2>4. Charged
    BY AuthAssumption DEF Init, PathInit, Charged
  <2> QED BY <1>1, <2>1, <2>2, <2>3, <2>4 DEF IInv
<1>3. IInv /\ [Next]_vars => IInv'
  <2> SUFFICES ASSUME IInv, [Next]_vars PROVE IInv'
    OBVIOUS
  <2>1. PathTypeOK' /\ PathOK'
    BY PathStep DEF IInv
  <2>2. AuthInv'
    BY <1>1, AuthStep DEF IInv, AuthInv
  <2>3. TypeOK'
    BY <2>1, <2>2 DEF AuthInv, TypeOK, AuthTypeOK
  <2> QED BY <2>1, <2>2, <2>3 DEF IInv, AuthInv
<1> QED BY <1>2, <1>3, PTL DEF Spec

\* The variables of the middleware, the fence and the path selector keep their
\* types, for any requests, tokens and urls.
THEOREM TypeCorrect == Spec => []TypeOK
<1>1. IInv => TypeOK
  BY DEF IInv
<1> QED BY <1>1, InvariantHolds, PTL

\* In the life of a process a token admits no more than its budget, and one
\* request on top after it has expired (_AttemptLedger.acquire).
THEOREM BudgetKept == Spec => []BudgetHolds
<1>1. IInv => BudgetHolds
  <2> SUFFICES ASSUME IInv, NEW t \in Token
               PROVE  admitted[t] <= maxAttempts[t] + (IF clock >= exp[t] THEN 1 ELSE 0)
    BY DEF BudgetHolds
  <2>1. clock \in Int /\ exp[t] \in Int /\ admitted[t] \in Nat /\ maxAttempts[t] \in Nat
    BY AuthAssumption, PathAssumption DEF IInv, TypeOK, PathTypeOK
  <2> QED BY <2>1 DEF IInv, Charged
<1> QED BY <1>1, InvariantHolds, PTL

\* Nothing is sent for a claim that was lost when the wait for a slot was over
\* (assert_executor_claim_current).
THEOREM NothingSentWithoutClaim == Spec => []SentWithClaim
<1>1. IInv => SentWithClaim
  BY DEF IInv, FenceOK, SentWithClaim
<1> QED BY <1>1, InvariantHolds, PTL

\* Every path given out answered a probe less than its lifetime ago, however
\* long the probes before it took (select in access_paths.py).
THEOREM PathsAnswered == Spec => PathRecentlyAnswered
<1>1. IInv /\ [Next]_vars =>
        [\A r \in Request : path[r] # path'[r] =>
            /\ answered'[path'[r]] >= 0
            /\ clock - answered'[path'[r]] < TTL]_<<clock, pathVars>>
  BY PathStep DEF IInv, PathStepOK
<1> QED BY <1>1, InvariantHolds, PTL DEF Spec, PathRecentlyAnswered
=============================================================================
