---------------------------- MODULE ExecutorAuth ----------------------------
(***************************************************************************)
(* Who may use a model.  A request carries a token signed by AssistX for   *)
(* one claim.  The middleware (executor_auth.py) checks it and charges its *)
(* attempt budget; after the wait for a slot the claim fence               *)
(* (claim_fence.py) asks AssistX whether the claim is still held, and only *)
(* then is a path chosen and the request sent (_admitted_dispatch in       *)
(* main_live.py).  AssistX is external.                                    *)
(*                                                                         *)
(* The middleware does not await between the check of the token and the    *)
(* charge, but the clock is read twice: `now` is the reading of the check. *)
(* What the checks find in a request's content is an input.                *)
(***************************************************************************)
EXTENDS AccessPaths, FiniteSets

CONSTANTS Token,
          tokenOf,     \* [Request -> Token]
          exp,         \* [Token -> Nat], the expiry
          maxAttempts  \* [Token -> Nat], the budget

ASSUME AuthAssumption ==
    /\ tokenOf \in [Request -> Token]
    /\ exp \in [Token -> Nat]
    /\ maxAttempts \in [Token -> Nat \ {0}]

VARIABLES
    pc,       \* [Request -> where it is]
    strict,   \* owner_binding_required
    records,  \* _AttemptLedger: [Token -> count, 0 is no record]
    proj,     \* the generation in force: the tokens' own, or another; fresh or not
    claim,    \* AssistX: [Token -> "held", or "lost" to expiry, revocation, another]
    reply,    \* [Request -> what AssistX answered the fence]
    admitted, \* history: [Token -> requests the middleware let through]
    heldAt    \* history: [Request -> the claim when the slot was granted]

authVars == <<pc, strict, records, proj, claim, reply, admitted, heldAt>>
vars == <<clock, pathVars, authVars>>

TypeOK ==
    /\ PathTypeOK
    /\ pc \in [Request -> {"new", "checked", "app", "queued", "leased", "asking",
                           "fenced", "sent", "refused"}]
    /\ strict \in BOOLEAN
    /\ records \in [Token -> Nat]
    /\ proj \in [own : BOOLEAN, fresh : BOOLEAN]
    /\ claim \in [Token -> {"held", "lost"}]
    /\ reply \in [Request -> {"none", "held", "lost"}]
    /\ admitted \in [Token -> Nat]
    /\ heldAt \in [Request -> {"none", "held", "lost"}]

Init ==
    /\ PathInit
    /\ pc = [r \in Request |-> "new"]
    /\ strict \in BOOLEAN
    /\ records = [t \in Token |-> 0]
    /\ proj = [own |-> TRUE, fresh |-> TRUE]
    /\ claim = [t \in Token |-> "held"]
    /\ reply = [r \in Request |-> "none"]
    /\ admitted = [t \in Token |-> 0]
    /\ heldAt = [r \in Request |-> "none"]

-----------------------------------------------------------------------------
Goto(r, l) == pc' = [pc EXCEPT ![r] = l]

\* No task runs while another is between the two readings of the clock.
Idle == \A r \in Request : pc[r] # "checked"

\* The generation in force is fresh and the one the token was issued for.
Current == proj.own /\ proj.fresh

\* What the content of a request can be found to be.
Content == [signed : BOOLEAN, owned : BOOLEAN, scoped : BOOLEAN]

\* decode_executor_token: header, signature and claims are in order, and in time.
Signed(r, c) == c.signed /\ exp[tokenOf[r]] > clock

\* bound_principal: asked for in strict mode only.
Bound(c) == strict => c.owned

\* Model, input and output are within what the token allows; no service identity.
Scoped(c) == c.scoped

Accepted(r, c) == Signed(r, c) /\ Bound(c) /\ Scoped(c) /\ Current

\* __call__ up to the charge.  The strict mode refuses whatever passes.
Check(r) ==
    /\ pc[r] = "new" /\ Idle
    /\ \E c \in Content :
          Goto(r, IF Accepted(r, c) /\ ~strict THEN "checked" ELSE "refused")
    /\ UNCHANGED <<clock, pathVars, strict, records, proj, claim, reply, admitted, heldAt>>

\* What the ledger still knows: expired records are dropped first.
Kept == [t \in Token |-> IF exp[t] > clock THEN records[t] ELSE 0]

\* Mutant: the budget is compared after the count is taken.
acquire_OffByOne(r) ==
    LET t == tokenOf[r] IN
    /\ pc[r] = "checked"
    /\ \/ /\ Kept[t] <= maxAttempts[t]
          /\ records' = [Kept EXCEPT ![t] = @ + 1]
          /\ admitted' = [admitted EXCEPT ![t] = @ + 1]
          /\ Goto(r, "app")
       \/ /\ Kept[t] > maxAttempts[t]
          /\ records' = Kept
          /\ Goto(r, "refused")
          /\ UNCHANGED admitted
    /\ UNCHANGED <<clock, pathVars, strict, proj, claim, reply, heldAt>>

\* _AttemptLedger.acquire with its own reading of the clock; then the application.
acquire(r) ==
    LET t == tokenOf[r] IN
    /\ pc[r] = "checked"
    /\ \/ /\ Kept[t] < maxAttempts[t]
          /\ records' = [Kept EXCEPT ![t] = @ + 1]
          /\ admitted' = [admitted EXCEPT ![t] = @ + 1]
          /\ Goto(r, "app")
       \/ /\ Kept[t] >= maxAttempts[t]
          /\ records' = Kept
          /\ Goto(r, "refused")
          /\ UNCHANGED admitted
    /\ UNCHANGED <<clock, pathVars, strict, proj, claim, reply, heldAt>>

\* _admitted_dispatch: assert_current_fresh, then the wait for a slot.
AskForSlot(r) ==
    /\ pc[r] = "app" /\ Idle
    /\ Goto(r, IF proj.fresh THEN "queued" ELSE "refused")
    /\ UNCHANGED <<clock, pathVars, strict, records, proj, claim, reply, admitted, heldAt>>

\* The slot is granted; the fence looks at the projection and asks AssistX.
Granted(r) ==
    /\ pc[r] = "queued" /\ Idle
    /\ heldAt' = [heldAt EXCEPT ![r] = claim[tokenOf[r]]]
    /\ Goto(r, IF Current THEN "asking" ELSE "refused")
    /\ UNCHANGED <<clock, pathVars, strict, records, proj, claim, reply, admitted>>

\* AssistX answers from what it knows when it is asked.
AssistxAnswers(r) ==
    /\ pc[r] = "asking" /\ reply[r] = "none"
    /\ reply' = [reply EXCEPT ![r] = claim[tokenOf[r]]]
    /\ UNCHANGED <<clock, pathVars, pc, strict, records, proj, claim, admitted, heldAt>>

\* Mutant: an answer that did not arrive is taken for a confirmation.
FenceAnswered_FailOpen(r) ==
    /\ pc[r] = "asking" /\ Idle
    /\ Goto(r, IF reply[r] # "lost" THEN "fenced" ELSE "refused")
    /\ UNCHANGED <<clock, pathVars, strict, records, proj, claim, reply, admitted, heldAt>>

\* assert_executor_claim_current after its await: a lost or unusable answer, an
\* inactive or different claim, a lapsed lease all refuse.
FenceAnswered(r) ==
    /\ pc[r] = "asking" /\ Idle
    /\ Goto(r, IF reply[r] = "held" THEN "fenced" ELSE "refused")
    /\ UNCHANGED <<clock, pathVars, strict, records, proj, claim, reply, admitted, heldAt>>

\* _select_provider up to its first await, and every step after.
SelectPath(r) ==
    /\ pc[r] = "fenced" /\ Idle
    /\ select(r) \/ SelectStep(r) \/ CancelSelect(r)
    /\ UNCHANGED <<clock, authVars>>

\* The path is there, or there is none; the slot is given back by finally.
Dispatch(r) ==
    /\ pc[r] = "fenced" /\ Idle
    /\ sel[r] \in {"chosen", "unreachable", "gone"}
    /\ Goto(r, IF sel[r] = "chosen" THEN "sent" ELSE "refused")
    /\ UNCHANGED <<clock, pathVars, strict, records, proj, claim, reply, admitted, heldAt>>

\* Environment: time, a new generation, its lease, AssistX.
Tick ==
    /\ clock < MaxTime
    /\ clock' = clock + 1
    /\ UNCHANGED <<pathVars, authVars>>

Projection ==
    /\ Idle
    /\ \/ proj' = [own |-> FALSE, fresh |-> TRUE]
       \/ proj.own /\ proj' = [proj EXCEPT !.fresh = ~@]
    /\ UNCHANGED <<clock, pathVars, pc, strict, records, claim, reply, admitted, heldAt>>

LoseClaim(t) ==
    /\ claim[t] = "held"
    /\ claim' = [claim EXCEPT ![t] = "lost"]
    /\ UNCHANGED <<clock, pathVars, pc, strict, records, proj, reply, admitted, heldAt>>

Proceed(r) ==
    \/ Check(r) \/ acquire(r) \/ AskForSlot(r) \/ Granted(r)
    \/ AssistxAnswers(r) \/ FenceAnswered(r) \/ SelectPath(r) \/ Dispatch(r)

Next ==
    \/ \E r \in Request : Proceed(r)
    \/ \E t \in Token : LoseClaim(t)
    \/ Tick \/ Projection

Spec == Init /\ [][Next]_vars

\* A task that can run does; a probe and a question to AssistX have a timeout.
Fairness ==
    WF_vars(\E r \in Request : \/ acquire(r)
                               \/ Idle /\ SelectStep(r) /\ UNCHANGED <<clock, authVars>>)

FairSpec == Spec /\ Fairness

-----------------------------------------------------------------------------
\* In the life of a process a token admits no more requests than its budget.  The
\* one request that was checked in the last second of the token may find the
\* record gone and come on top (_AttemptLedger.acquire).
BudgetHolds ==
    \A t \in Token :
        admitted[t] <= maxAttempts[t] + (IF clock >= exp[t] THEN 1 ELSE 0)

\* A request reaches a provider only if its claim was still held when the wait for
\* a slot was over: a claim lost in the queue never uses the model, even when
\* AssistX cannot be reached (assert_executor_claim_current).
SentWithClaim == \A r \in Request : pc[r] = "sent" => heldAt[r] = "held"
=============================================================================
