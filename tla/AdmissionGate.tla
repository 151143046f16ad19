--------------------------- MODULE AdmissionGate ---------------------------
(***************************************************************************)
(* Admission control for physical model runtimes (admission.py).  One gate *)
(* per runtime instance: a number of parallel slots, a bounded priority    *)
(* queue of waiters, a timeout on the wait.                                *)
(*                                                                         *)
(* The code runs on one asyncio loop and never awaits while it holds a     *)
(* gate's lock, so every critical section is one step.  What does          *)
(* interleave is the gap between a release that resolves a waiter's future *)
(* and the moment the waiter's task runs again: its timeout or its         *)
(* cancellation can get there first.                                       *)
(*                                                                         *)
(* A waiter's sequence number is not kept: numbers are handed out in the   *)
(* order in which waiters are appended, so the position in the list orders *)
(* waiters as the number does.                                             *)
(***************************************************************************)
EXTENDS Integers, Sequences, FiniteSets, SequencesExt

CONSTANTS Task,            \* request tasks; a finished task may ask again
          Runtime,         \* physical runtime instances with a gate
          NoRuntime,       \* where a task without a request is
          Priority,        \* the priorities requests use
          parallel_slots,  \* [Runtime -> Int]; 0 for an unresolved provider
          queue_limit      \* [Runtime -> Int]

\* The order in which a freed slot is offered (_PRIORITY_RANK).
PriorityRank ==
    [critical |-> 0, repo_critical |-> 1, interactive |-> 2,
     local_only |-> 3, batch |-> 4, background |-> 5]

ASSUME AdmissionAssumption ==
    /\ IsFiniteSet(Task)
    /\ NoRuntime \notin Runtime
    /\ Priority \subseteq DOMAIN PriorityRank
    /\ parallel_slots \in [Runtime -> Int]
    /\ queue_limit \in [Runtime -> Int]

VARIABLES active,    \* [Runtime -> Nat], slots in use according to the gate
          waiters,   \* [Runtime -> Seq(Task)], the list _waiters
          future,    \* state of the future a task last waited on
          priority,  \* priority of a task's request
          at,        \* the runtime of a task's request
          pc         \* where the task is; "refused" if its last request got no lease

vars == <<active, waiters, future, priority, at, pc>>

TypeOK ==
    /\ active \in [Runtime -> Nat]
    /\ waiters \in [Runtime -> Seq(Task)]
    /\ future \in [Task -> {"none", "pending", "lease", "cancelled"}]
    /\ priority \in [Task -> Priority \cup {"none"}]
    /\ at \in [Task -> Runtime \cup {NoRuntime}]
    /\ pc \in [Task -> {"idle", "refused", "waiting", "holding"}]
    /\ \A t \in Task : at[t] \in Runtime <=> pc[t] \in {"waiting", "holding"}

Init ==
    /\ active = [r \in Runtime |-> 0]
    /\ waiters = [r \in Runtime |-> <<>>]
    /\ future = [t \in Task |-> "none"]
    /\ priority = [t \in Task |-> "none"]
    /\ at = [t \in Task |-> NoRuntime]
    /\ pc = [t \in Task |-> "idle"]

-----------------------------------------------------------------------------
\* The positions of waiters that still wait for an answer (_next_waiter, live).
Live(r) == {i \in DOMAIN waiters[r] : future[waiters[r][i]] = "pending"}

\* Mutant: among equals the newest waiter goes first.
SortsBefore_NewestFirst(r, i, j) ==
    LET rank(k) == PriorityRank[priority[waiters[r][k]]]
    IN  rank(i) < rank(j) \/ (rank(i) = rank(j) /\ i > j)

\* Waiter i of runtime r is served before waiter j (_QueuedWaiter.sort_key).
SortsBefore(r, i, j) ==
    LET rank(k) == PriorityRank[priority[waiters[r][k]]]
    IN  rank(i) < rank(j) \/ (rank(i) = rank(j) /\ i < j)

\* Mutant: arrival order only, priorities ignored.
IsNextWaiter_Fifo(r, i) == i \in Live(r) /\ \A j \in Live(r) : i <= j

IsNextWaiter(r, i) ==
    /\ i \in Live(r)
    /\ \A j \in Live(r) \ {i} : SortsBefore(r, i, j)

\* _remove_waiter: a task that is not in the list leaves it as it is.
RemoveWaiter(r, t) ==
    \E i \in DOMAIN waiters[r] :
        /\ waiters[r][i] = t
        /\ waiters' = [waiters EXCEPT ![r] = RemoveAt(@, i)]

\* Mutant: the slot is freed and the queue waits for the next arrival.
GiveBackSlot_NoHandOver(r) ==
    /\ active' = [active EXCEPT ![r] = @ - 1]
    /\ UNCHANGED <<waiters, future>>

\* The lease of runtime r goes back to its gate, which passes the slot on to
\* the next waiter or, with no live waiter, forgets the list and frees it.
GiveBackSlot(r) ==
    IF active[r] <= 0
    THEN UNCHANGED <<active, waiters, future>>
    ELSE IF Live(r) = {}
    THEN /\ active' = [active EXCEPT ![r] = @ - 1]
         /\ waiters' = [waiters EXCEPT ![r] = <<>>]
         /\ UNCHANGED future
    ELSE \E i \in DOMAIN waiters[r] :
         /\ IsNextWaiter(r, i)
         /\ waiters' = [waiters EXCEPT ![r] = RemoveAt(@, i)]
         /\ future' = [future EXCEPT ![waiters[r][i]] = "lease"]
         /\ UNCHANGED active

Move(t, p) == pc' = [pc EXCEPT ![t] = p]

\* The request ends, and what the task knew of it goes out of scope.
Leave(t, p) ==
    /\ Move(t, p)
    /\ priority' = [priority EXCEPT ![t] = "none"]
    /\ at' = [at EXCEPT ![t] = NoRuntime]

\* The task starts a new request.
Begin(t) == pc[t] \in {"idle", "refused"}

Ask(t, r, p) ==
    /\ Begin(t)
    /\ priority' = [priority EXCEPT ![t] = p]
    /\ at' = [at EXCEPT ![t] = r]

-----------------------------------------------------------------------------
\* acquire: the runtime has no slots, or no identity to have slots under.
RejectUnavailable(t, r) ==
    /\ Begin(t)
    /\ parallel_slots[r] <= 0
    /\ Leave(t, "refused")
    /\ UNCHANGED <<active, waiters, future>>

\* Mutant: off by one.
MayEnterAtOnce_OneMore(r) == active[r] <= parallel_slots[r] /\ waiters[r] = <<>>

MayEnterAtOnce(r) == active[r] < parallel_slots[r] /\ waiters[r] = <<>>

\* acquire: a slot is free and nobody waits for it.
AcquireAtOnce(t, r, p) ==
    /\ Ask(t, r, p)
    /\ parallel_slots[r] > 0
    /\ MayEnterAtOnce(r)
    /\ active' = [active EXCEPT ![r] = @ + 1]
    /\ Move(t, "holding")
    /\ UNCHANGED <<waiters, future>>

QueueFull(r) == queue_limit[r] <= 0 \/ Len(waiters[r]) >= queue_limit[r]

\* acquire: no slot, and no place in the queue.
RejectQueueFull(t, r) ==
    /\ Begin(t)
    /\ parallel_slots[r] > 0
    /\ ~MayEnterAtOnce(r)
    /\ QueueFull(r)
    /\ Leave(t, "refused")
    /\ UNCHANGED <<active, waiters, future>>

\* acquire: the request joins the queue and awaits its future.
Enqueue(t, r, p) ==
    /\ Ask(t, r, p)
    /\ parallel_slots[r] > 0
    /\ ~MayEnterAtOnce(r)
    /\ ~QueueFull(r)
    /\ waiters' = [waiters EXCEPT ![r] = Append(@, t)]
    /\ future' = [future EXCEPT ![t] = "pending"]
    /\ Move(t, "waiting")
    /\ UNCHANGED active

\* The task runs after its future was resolved and returns with the lease.
Wake(t) ==
    /\ pc[t] = "waiting" /\ future[t] = "lease"
    /\ Move(t, "holding")
    /\ UNCHANGED <<active, waiters, future, priority, at>>

\* The wait timed out, but the future was resolved first: the lease counts.
\* (future.done() also covers a cancelled future, which QueueExact excludes.)
TimeoutGranted(t) ==
    /\ pc[t] = "waiting" /\ future[t] = "lease"
    /\ Move(t, "holding")
    /\ UNCHANGED <<active, waiters, future, priority, at>>

\* Mutant: the waiter stays in the list.
TimeoutQueued_LeftInList(t) ==
    /\ pc[t] = "waiting" /\ future[t] = "pending"
    /\ Leave(t, "refused")
    /\ UNCHANGED <<active, waiters, future>>

\* The wait timed out with the request still queued.
TimeoutQueued(t) ==
    /\ pc[t] = "waiting" /\ future[t] = "pending"
    /\ RemoveWaiter(at[t], t)
    /\ future' = [future EXCEPT ![t] = "cancelled"]
    /\ Leave(t, "refused")
    /\ UNCHANGED active

\* Mutant: the cancelled task drops the lease it was given.
CancelGranted_Dropped(t) ==
    /\ pc[t] = "waiting" /\ future[t] = "lease"
    /\ Leave(t, "refused")
    /\ UNCHANGED <<active, waiters, future>>

\* The task is cancelled after its future was resolved: the unused lease is
\* released, which may resolve the next waiter's future.
CancelGranted(t) ==
    /\ pc[t] = "waiting" /\ future[t] = "lease"
    /\ GiveBackSlot(at[t])
    /\ Leave(t, "refused")

\* The task is cancelled with the request still queued.
CancelQueued(t) ==
    /\ pc[t] = "waiting" /\ future[t] = "pending"
    /\ RemoveWaiter(at[t], t)
    /\ future' = [future EXCEPT ![t] = "cancelled"]
    /\ Leave(t, "refused")
    /\ UNCHANGED active

\* RuntimeAdmissionLease.release at the end of a dispatch or of a stream body.
\* The lease's _released flag is pc[t] # "holding": a second call does nothing.
Release(t) ==
    /\ pc[t] = "holding"
    /\ GiveBackSlot(at[t])
    /\ Leave(t, "idle")

Next == \E t \in Task :
    \/ \E r \in Runtime :
          \/ RejectUnavailable(t, r)
          \/ RejectQueueFull(t, r)
          \/ \E p \in Priority : AcquireAtOnce(t, r, p) \/ Enqueue(t, r, p)
    \/ Wake(t)
    \/ TimeoutGranted(t)
    \/ TimeoutQueued(t)
    \/ CancelGranted(t)
    \/ CancelQueued(t)
    \/ Release(t)

Spec == Init /\ [][Next]_vars

\* A resolved future wakes its task, and a lease ends: attempts have a timeout
\* and a stream body ends or is closed.  Timeouts of the wait itself are not
\* assumed to fire.
FairSpec == Spec /\ \A t \in Task : WF_vars(Wake(t)) /\ WF_vars(Release(t))

-----------------------------------------------------------------------------
\* The requests that own a slot of r: the holders, and the waiters whose
\* future was resolved and who have not run yet.
Owners(r) == {t \in Task : /\ at[t] = r
                           /\ \/ pc[t] = "holding"
                              \/ pc[t] = "waiting" /\ future[t] = "lease"}

\* The requests that queue at r.
Queued(r) == {t \in Task : /\ at[t] = r
                           /\ pc[t] = "waiting" /\ future[t] = "pending"}

\* No slot is lost and none is used twice: whatever races with a grant, the
\* gate's counter is the number of leases out, within the runtime's slots
\* (_RuntimeGate.acquire and release).
SlotAccounting == \A r \in Runtime :
    /\ active[r] = Cardinality(Owners(r))
    /\ Owners(r) # {} => active[r] <= parallel_slots[r]

ListExact(r) ==
    /\ \A i \in DOMAIN waiters[r] : waiters[r][i] \in Queued(r)
    /\ \A i, j \in DOMAIN waiters[r] : waiters[r][i] = waiters[r][j] => i = j
    /\ \A t \in Queued(r) : \E i \in DOMAIN waiters[r] : waiters[r][i] = t
    /\ waiters[r] # <<>> => Len(waiters[r]) <= queue_limit[r]

\* The list holds every queued request once and nothing else, within its
\* limit, and a request awaits only a future that is pending or resolved:
\* the timeout and the cancellation of a wait leave no entry behind that
\* could swallow a slot (_remove_waiter, _next_waiter).
QueueExact ==
    /\ \A r \in Runtime : ListExact(r)
    /\ \A t \in Task : pc[t] = "waiting" => future[t] \in {"pending", "lease"}

\* No request waits while a slot is free (release hands the slot over).
WorkConserving == \A r \in Runtime :
    waiters[r] # <<>> => active[r] = parallel_slots[r]

\* Whoever becomes an owner, nobody who queued before it and ranks at least
\* as high is left behind, and an arrival never gets past the queue: the
\* comment on release, "avoids a race where a later request could bypass the
\* existing queue between release and wake-up".
OvertakesNobody(r) == \A t \in Owners(r)' \ Owners(r) :
    \A u \in Queued(r) \cap Queued(r)' :
        \E i, j \in DOMAIN waiters[r] :
            /\ waiters[r][i] = t /\ waiters[r][j] = u
            /\ SortsBefore(r, i, j)

NoOvertaking == [][\A r \in Runtime : OvertakesNobody(r)]_vars

\* A request of the highest rank in use is never starved by the others: as
\* leases end it gets out of the queue, even if its wait never times out.
TopPriorityServed == \A t \in Task :
    (/\ pc[t] = "waiting"
     /\ \A p \in Priority : PriorityRank[priority[t]] <= PriorityRank[p])
        ~> pc[t] # "waiting"

\* The gate implements the pool of slots.
Pool == INSTANCE SlotPool WITH owners <- [r \in Runtime |-> Owners(r)]
PoolSpec == Pool!Spec
=============================================================================
