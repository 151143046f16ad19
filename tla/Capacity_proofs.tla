-------------------------- MODULE Capacity_proofs ---------------------------
(***************************************************************************)
(* Proofs about how capacity is shared out.  The admission gate: for any   *)
(* finite set of requests, any runtimes and any slot counts and queue      *)
(* limits, slots are accounted for exactly, the queue is exact and no      *)
(* request waits beside a free slot.  The quota managers: for any          *)
(* requests, estimates, limits and windows, the counters hold what was     *)
(* reserved and not given back.  The load balancer: for any calls, plans   *)
(* and owners, no load is counted that no call accounts for.               *)
(***************************************************************************)
EXTENDS AdmissionGate, RedisQuota, LoadBalancer,
        FiniteSetTheorems, SequenceTheorems, WellFoundedInduction, TLAPS

\* Taking one entry out of a list keeps the others, in order.
LEMMA RemoveAtFacts ==
    ASSUME NEW S, NEW s \in Seq(S), NEW i \in DOMAIN s
    PROVE  /\ RemoveAt(s, i) \in Seq(S)
           /\ Len(RemoveAt(s, i)) = Len(s) - 1
           /\ \A j \in 1..(Len(s) - 1) :
                RemoveAt(s, i)[j] = IF j < i THEN s[j] ELSE s[j + 1]
<1>1. i \in 1..Len(s) /\ Len(s) \in Nat
  OBVIOUS
<1> DEFINE a == SubSeq(s, 1, i - 1)
           b == SubSeq(s, i + 1, Len(s))
<1>2. a \in Seq(S) /\ Len(a) = i - 1 /\ \A j \in 1..(i-1) : a[j] = s[j]
  BY <1>1
<1>3. /\ b \in Seq(S) /\ Len(b) = Len(s) - i
      /\ \A j \in 1..(Len(s) - i) : b[j] = s[i + j]
  BY <1>1
<1>4. RemoveAt(s, i) = a \o b
  BY DEF RemoveAt
<1> HIDE DEF a, b
<1>5. a \o b \in Seq(S) /\ Len(a \o b) = Len(s) - 1
  BY <1>1, <1>2, <1>3, ConcatProperties
<1>6. \A j \in 1..(Len(s) - 1) :
        (a \o b)[j] = IF j < i THEN s[j] ELSE s[j + 1]
  <2> TAKE j \in 1..(Len(s) - 1)
  <2>1. CASE j < i
    BY <2>1, <1>1, <1>2, <1>3
  <2>2. CASE ~(j < i)
    <3>1. (a \o b)[j] = b[j - (i - 1)]
      <4>1. j \in 1..Len(a) + Len(b) /\ ~(j <= Len(a))
        BY <2>2, <1>1, <1>2, <1>3
      <4>2. (a \o b)[j] = b[j - Len(a)]
        BY <4>1, <1>2, <1>3, ConcatProperties
      <4> QED BY <4>2, <1>2
    <3>2. b[j - (i - 1)] = s[i + (j - (i - 1))]
      BY <2>2, <1>1, <1>3
    <3> QED BY <3>1, <3>2, <2>2, <1>1
  <2> QED BY <2>1, <2>2
<1> QED BY <1>4, <1>5, <1>6

-----------------------------------------------------------------------------
\* The types hold, and exactly the tasks with a request are at a runtime.
LEMMA TypeInitial == Init => TypeOK
BY AdmissionAssumption DEF Init, TypeOK

\* A slot that is given back leaves counters, lists and futures of their types.
LEMMA GiveBackSlotType ==
    ASSUME TypeOK, NEW r \in Runtime, GiveBackSlot(r)
    PROVE  /\ active' \in [Runtime -> Nat]
           /\ waiters' \in [Runtime -> Seq(Task)]
           /\ future' \in [Task -> {"none", "pending", "lease", "cancelled"}]
<1> USE DEF TypeOK
<1>1. CASE active[r] <= 0
  BY <1>1 DEF GiveBackSlot
<1>2. CASE ~(active[r] <= 0) /\ Live(r) = {}
  <2>1. active[r] - 1 \in Nat
    BY <1>2
  <2>2. /\ active' = [active EXCEPT ![r] = @ - 1]
        /\ waiters' = [waiters EXCEPT ![r] = <<>>]
        /\ UNCHANGED future
    BY <1>2, SMT DEF GiveBackSlot
  <2>3. active' \in [Runtime -> Nat]
    BY <2>1, <2>2
  <2>4. waiters' \in [Runtime -> Seq(Task)]
    BY <2>2
  <2> QED BY <2>2, <2>3, <2>4
<1>3. CASE ~(active[r] <= 0) /\ Live(r) # {}
  <2>1. PICK i \in DOMAIN waiters[r] :
          /\ waiters' = [waiters EXCEPT ![r] = RemoveAt(@, i)]
          /\ future' = [future EXCEPT ![waiters[r][i]] = "lease"]
          /\ UNCHANGED active
    BY <1>3 DEF GiveBackSlot
  <2>2. RemoveAt(waiters[r], i) \in Seq(Task)
    BY RemoveAtFacts
  <2> QED BY <2>1, <2>2
<1> QED BY <1>1, <1>2, <1>3

\* Taking a waiter out of a list leaves lists of tasks.
LEMMA RemoveWaiterType ==
    ASSUME TypeOK, NEW r \in Runtime, NEW t \in Task, RemoveWaiter(r, t)
    PROVE  waiters' \in [Runtime -> Seq(Task)]
<1>1. PICK i \in DOMAIN waiters[r] :
        waiters' = [waiters EXCEPT ![r] = RemoveAt(@, i)]
  BY DEF RemoveWaiter
<1>2. RemoveAt(waiters[r], i) \in Seq(Task)
  BY RemoveAtFacts DEF TypeOK
<1> QED BY <1>1, <1>2 DEF TypeOK

\* Every action of the gates preserves the types.
LEMMA TypeStep == TypeOK /\ [Next]_vars => TypeOK'
<1> SUFFICES ASSUME TypeOK, [Next]_vars PROVE TypeOK'
  OBVIOUS
<1> USE AdmissionAssumption
<1>1. ASSUME NEW t \in Task, NEW r \in Runtime, RejectUnavailable(t, r)
      PROVE  TypeOK'
  BY <1>1 DEF RejectUnavailable, Begin, Leave, Move, TypeOK
<1>2. ASSUME NEW t \in Task, NEW r \in Runtime, RejectQueueFull(t, r)
      PROVE  TypeOK'
  BY <1>2 DEF RejectQueueFull, Begin, Leave, Move, TypeOK
<1>3. ASSUME NEW t \in Task, NEW r \in Runtime, NEW p \in Priority,
             AcquireAtOnce(t, r, p)
      PROVE  TypeOK'
  BY <1>3 DEF AcquireAtOnce, Ask, Begin, Move, TypeOK
<1>4. ASSUME NEW t \in Task, NEW r \in Runtime, NEW p \in Priority,
             Enqueue(t, r, p)
      PROVE  TypeOK'
  BY <1>4 DEF Enqueue, Ask, Begin, Move, TypeOK
<1>5. ASSUME NEW t \in Task, Wake(t) \/ TimeoutGranted(t) PROVE TypeOK'
  BY <1>5 DEF Wake, TimeoutGranted, Move, TypeOK
<1>6. ASSUME NEW t \in Task, TimeoutQueued(t) \/ CancelQueued(t) PROVE TypeOK'
  <2>1. at[t] \in Runtime /\ RemoveWaiter(at[t], t)
    BY <1>6 DEF TimeoutQueued, CancelQueued, TypeOK
  <2>2. waiters' \in [Runtime -> Seq(Task)]
    BY <2>1, RemoveWaiterType
  <2> QED
    BY <1>6, <2>2 DEF TimeoutQueued, CancelQueued, Leave, Move, TypeOK
<1>7. ASSUME NEW t \in Task, CancelGranted(t) \/ Release(t) PROVE TypeOK'
  <2>1. at[t] \in Runtime /\ GiveBackSlot(at[t])
    BY <1>7 DEF CancelGranted, Release, TypeOK
  <2>2. /\ active' \in [Runtime -> Nat]
        /\ waiters' \in [Runtime -> Seq(Task)]
        /\ future' \in [Task -> {"none", "pending", "lease", "cancelled"}]
    BY <2>1, GiveBackSlotType
  <2>3. Leave(t, "refused") \/ Leave(t, "idle")
    BY <1>7 DEF CancelGranted, Release
  <2>4. PICK p \in {"refused", "idle"} :
          /\ pc' = [pc EXCEPT ![t] = p]
          /\ priority' = [priority EXCEPT ![t] = "none"]
          /\ at' = [at EXCEPT ![t] = NoRuntime]
    BY <2>3 DEF Leave, Move
  <2>5. /\ priority' \in [Task -> Priority \cup {"none"}]
        /\ at' \in [Task -> Runtime \cup {NoRuntime}]
        /\ pc' \in [Task -> {"idle", "refused", "waiting", "holding"}]
        /\ \A u \in Task : at'[u] \in Runtime <=> pc'[u] \in {"waiting", "holding"}
    BY <2>4 DEF TypeOK
  <2> QED
    BY <2>2, <2>5 DEF TypeOK
<1>8. CASE UNCHANGED vars
  BY <1>8 DEF vars, TypeOK
<1> QED
  BY <1>1, <1>2, <1>3, <1>4, <1>5, <1>6, <1>7, <1>8 DEF Next

\* Counters, lists and futures keep their types, and a task is at a runtime
\* exactly while it waits there or holds a lease.
THEOREM TypeCorrect == Spec => []TypeOK
BY TypeInitial, TypeStep, PTL DEF Spec

-----------------------------------------------------------------------------
(***************************************************************************)
(* Slot accounting is inductive only together with the exactness of the    *)
(* queue (a handed-over slot must reach a task that awaits it) and with    *)
(* work conservation (a request joins the queue only beside a full gate).  *)
(***************************************************************************)
GateOK(r) ==
    /\ ListExact(r)
    /\ active[r] = Cardinality(Owners(r))
    /\ Owners(r) # {} => active[r] <= parallel_slots[r]
    /\ waiters[r] # <<>> => active[r] = parallel_slots[r]

AwaitsLive == \A t \in Task : pc[t] = "waiting" => future[t] \in {"pending", "lease"}

IInv == TypeOK /\ AwaitsLive /\ \A r \in Runtime : GateOK(r)

\* Finitely many requests own slots.
LEMMA OwnersFinite ==
    ASSUME NEW r
    PROVE  IsFiniteSet(Owners(r)) /\ Cardinality(Owners(r)) \in Nat
BY AdmissionAssumption, FS_Subset, FS_CardinalityType DEF Owners

\* The inductive invariant holds of gates that nobody has used.
LEMMA InitialInvariant == Init => IInv
<1> SUFFICES ASSUME Init PROVE IInv
  OBVIOUS
<1>1. TypeOK
  BY TypeInitial
<1>2. ASSUME NEW r \in Runtime PROVE GateOK(r)
  <2>1. Owners(r) = {} /\ Queued(r) = {}
    BY DEF Init, Owners, Queued
  <2>2. active[r] = 0 /\ waiters[r] = <<>>
    BY DEF Init
  <2> QED BY <2>1, <2>2, FS_EmptySet DEF GateOK, ListExact
<1> QED BY <1>1, <1>2 DEF Init, AwaitsLive, IInv

\* A gate whose counter, list and requests are left alone stays correct.
LEMMA Undisturbed ==
    ASSUME NEW r \in Runtime, GateOK(r),
           active'[r] = active[r], waiters'[r] = waiters[r],
           Owners(r)' = Owners(r), Queued(r)' = Queued(r)
    PROVE  GateOK(r)'
BY DEF GateOK, ListExact

\* The list stays exact when a waiter leaves it and its queue together.
LEMMA ListShrinks ==
    ASSUME TypeOK, NEW r \in Runtime, ListExact(r), NEW i \in DOMAIN waiters[r],
           waiters' = [waiters EXCEPT ![r] = RemoveAt(@, i)],
           Queued(r)' = Queued(r) \ {waiters[r][i]}
    PROVE  ListExact(r)'
<1> DEFINE w == waiters[r]
           v == RemoveAt(w, i)
<1>1. w \in Seq(Task) /\ i \in 1..Len(w) /\ Len(w) \in Nat
  BY DEF TypeOK
<1>2. waiters'[r] = v
  BY DEF TypeOK
<1>3. /\ v \in Seq(Task) /\ Len(v) = Len(w) - 1
      /\ \A j \in 1..(Len(w) - 1) : v[j] = IF j < i THEN w[j] ELSE w[j + 1]
  BY <1>1, RemoveAtFacts
<1> DEFINE old(j) == IF j < i THEN j ELSE j + 1
<1> HIDE DEF v, w
<1>4. DOMAIN v = 1..(Len(w) - 1) /\ DOMAIN w = 1..Len(w)
  BY <1>1, <1>3
<1>5. \A j \in DOMAIN v : v[j] = w[old(j)] /\ old(j) \in DOMAIN w /\ old(j) # i
  BY <1>1, <1>3, <1>4
<1>6. \A j, k \in DOMAIN v : old(j) = old(k) => j = k
  BY <1>1, <1>4
<1>7. \A k \in DOMAIN w : k # i => \E j \in DOMAIN v : old(j) = k
  <2> TAKE k \in DOMAIN w
  <2> HAVE k # i
  <2> DEFINE j == IF k < i THEN k ELSE k - 1
  <2>1. j \in DOMAIN v /\ old(j) = k
    BY <1>1, <1>4
  <2> QED BY <2>1
<1> HIDE DEF old
<1>8. /\ \A k \in DOMAIN w : w[k] \in Queued(r)
      /\ \A j, k \in DOMAIN w : w[j] = w[k] => j = k
      /\ \A t \in Queued(r) : \E k \in DOMAIN w : w[k] = t
      /\ w # <<>> => Len(w) <= queue_limit[r]
      /\ Queued(r)' = Queued(r) \ {w[i]}
      /\ i \in DOMAIN w
  BY DEF ListExact, w
<1>9. \A j \in DOMAIN v : v[j] \in Queued(r)'
  BY <1>5, <1>8
<1>10. \A j, k \in DOMAIN v : v[j] = v[k] => j = k
  BY <1>5, <1>6, <1>8
<1>11. \A t \in Queued(r)' : \E j \in DOMAIN v : v[j] = t
  BY <1>5, <1>7, <1>8
<1>12. v # <<>> => Len(v) <= queue_limit[r]
  BY <1>1, <1>3, <1>4, <1>8, AdmissionAssumption
<1> QED BY <1>2, <1>9, <1>10, <1>11, <1>12 DEF ListExact

\* The list stays exact when a request joins it and its queue together.
LEMMA ListGrows ==
    ASSUME TypeOK, NEW r \in Runtime, ListExact(r), NEW t \in Task, ~QueueFull(r),
           t \notin Queued(r),
           waiters' = [waiters EXCEPT ![r] = Append(@, t)],
           Queued(r)' = Queued(r) \cup {t}
    PROVE  ListExact(r)'
<1> DEFINE w == waiters[r]
           v == Append(w, t)
<1>1. w \in Seq(Task) /\ Len(w) \in Nat /\ DOMAIN w = 1..Len(w)
  BY DEF TypeOK
<1>2. waiters'[r] = v
  BY DEF TypeOK
<1>3. /\ v \in Seq(Task) /\ Len(v) = Len(w) + 1 /\ DOMAIN v = 1..(Len(w) + 1)
      /\ \A j \in DOMAIN w : v[j] = w[j]
      /\ v[Len(w) + 1] = t
  BY <1>1
<1>4. /\ \A k \in DOMAIN w : w[k] \in Queued(r)
      /\ \A j, k \in DOMAIN w : w[j] = w[k] => j = k
      /\ \A u \in Queued(r) : \E k \in DOMAIN w : w[k] = u
  BY DEF ListExact
<1> HIDE DEF v, w
<1>5. \A j \in DOMAIN v : v[j] \in Queued(r)'
  BY <1>1, <1>3, <1>4
<1>6. \A j, k \in DOMAIN v : v[j] = v[k] => j = k
  BY <1>1, <1>3, <1>4
<1>7. \A u \in Queued(r)' : \E j \in DOMAIN v : v[j] = u
  BY <1>1, <1>3, <1>4
<1>8. Len(v) <= queue_limit[r]
  <2>1. queue_limit[r] \in Int /\ ~(Len(w) >= queue_limit[r])
    BY AdmissionAssumption DEF QueueFull, w
  <2> QED BY <1>1, <1>3, <2>1
<1>9. PICK x : x = waiters'[r]
  OBVIOUS
<1>10. /\ \A j \in DOMAIN x : x[j] \in Queued(r)'
       /\ \A j, k \in DOMAIN x : x[j] = x[k] => j = k
       /\ \A u \in Queued(r)' : \E j \in DOMAIN x : x[j] = u
       /\ Len(x) <= queue_limit[r]
  BY ONLY <1>2, <1>5, <1>6, <1>7, <1>8, <1>9
<1> QED BY <1>9, <1>10 DEF ListExact

-----------------------------------------------------------------------------
\* Requests that are refused, and waiters that run with their lease, change
\* who owns and who queues nowhere.
LEMMA QuietStep ==
    ASSUME IInv, NEW t \in Task,
           \/ \E r \in Runtime : RejectUnavailable(t, r) \/ RejectQueueFull(t, r)
           \/ Wake(t)
           \/ TimeoutGranted(t)
    PROVE  AwaitsLive' /\ \A r \in Runtime : GateOK(r)'
<1>1. UNCHANGED <<active, waiters, future>>
  BY DEF RejectUnavailable, RejectQueueFull, Wake, TimeoutGranted
<1>2. CASE \E r \in Runtime : RejectUnavailable(t, r) \/ RejectQueueFull(t, r)
  <2>1. PICK p \in {"refused"} :
          /\ pc[t] \notin {"waiting", "holding"}
          /\ pc' = [pc EXCEPT ![t] = p]
          /\ at' = [at EXCEPT ![t] = NoRuntime]
    BY <1>2 DEF RejectUnavailable, RejectQueueFull, Begin, Leave, Move
  <2>2. ASSUME NEW r \in Runtime
        PROVE  Owners(r)' = Owners(r) /\ Queued(r)' = Queued(r)
    BY <1>1, <2>1 DEF Owners, Queued, IInv, TypeOK
  <2>3. AwaitsLive'
    BY <1>1, <2>1 DEF AwaitsLive, IInv, TypeOK
  <2> QED BY <1>1, <2>2, <2>3, Undisturbed DEF IInv
<1>3. CASE Wake(t) \/ TimeoutGranted(t)
  <2>1. /\ pc[t] = "waiting" /\ future[t] = "lease"
        /\ pc' = [pc EXCEPT ![t] = "holding"]
        /\ at' = at
    BY <1>3 DEF Wake, TimeoutGranted, Move
  <2>2. ASSUME NEW r \in Runtime
        PROVE  Owners(r)' = Owners(r) /\ Queued(r)' = Queued(r)
    BY <1>1, <2>1 DEF Owners, Queued, IInv, TypeOK
  <2>3. AwaitsLive'
    BY <1>1, <2>1 DEF AwaitsLive, IInv, TypeOK
  <2> QED BY <1>1, <2>2, <2>3, Undisturbed DEF IInv
<1> QED BY <1>2, <1>3

\* A request that enters at once takes a slot that was free.
LEMMA AcquireStep ==
    ASSUME IInv, NEW t \in Task, NEW r \in Runtime, NEW p \in Priority,
           AcquireAtOnce(t, r, p)
    PROVE  AwaitsLive' /\ \A q \in Runtime : GateOK(q)'
<1>1. /\ pc[t] \notin {"waiting", "holding"}
      /\ pc' = [pc EXCEPT ![t] = "holding"]
      /\ at' = [at EXCEPT ![t] = r]
      /\ active[r] < parallel_slots[r] /\ waiters[r] = <<>>
      /\ active' = [active EXCEPT ![r] = @ + 1]
      /\ UNCHANGED <<waiters, future>>
  BY DEF AcquireAtOnce, Ask, Begin, Move, MayEnterAtOnce
<1>2. /\ Owners(r)' = Owners(r) \cup {t} /\ t \notin Owners(r)
      /\ Queued(r)' = Queued(r)
  BY <1>1 DEF Owners, Queued, IInv, TypeOK
<1>3. ASSUME NEW q \in Runtime, q # r PROVE GateOK(q)'
  <2>1. Owners(q)' = Owners(q) /\ Queued(q)' = Queued(q)
    BY <1>1, <1>3 DEF Owners, Queued, IInv, TypeOK
  <2>2. active'[q] = active[q] /\ waiters'[q] = waiters[q]
    BY <1>1, <1>3 DEF IInv, TypeOK
  <2> QED BY <2>1, <2>2, Undisturbed DEF IInv
<1>4. GateOK(r)'
  <2>1. ListExact(r)'
    BY <1>1, <1>2 DEF IInv, GateOK, ListExact
  <2>2. Cardinality(Owners(r)') = Cardinality(Owners(r)) + 1
    BY <1>2, OwnersFinite, FS_AddElement
  <2>3. active'[r] = active[r] + 1 /\ active[r] \in Nat /\ waiters'[r] = <<>>
    BY <1>1 DEF IInv, TypeOK
  <2>4. active'[r] = Cardinality(Owners(r)')
    BY <2>2, <2>3 DEF IInv, GateOK
  <2>5. active'[r] <= parallel_slots[r]
    BY <1>1, <2>3, AdmissionAssumption
  <2> QED BY <2>1, <2>3, <2>4, <2>5 DEF GateOK
<1>5. AwaitsLive'
  BY <1>1 DEF AwaitsLive, IInv, TypeOK
<1> QED BY <1>3, <1>4, <1>5

\* A request that joins the queue finds all slots taken.
LEMMA EnqueueStep ==
    ASSUME IInv, NEW t \in Task, NEW r \in Runtime, NEW p \in Priority,
           Enqueue(t, r, p)
    PROVE  AwaitsLive' /\ \A q \in Runtime : GateOK(q)'
<1>1. /\ pc[t] \notin {"waiting", "holding"}
      /\ pc' = [pc EXCEPT ![t] = "waiting"]
      /\ at' = [at EXCEPT ![t] = r]
      /\ future' = [future EXCEPT ![t] = "pending"]
      /\ parallel_slots[r] > 0
      /\ ~(active[r] < parallel_slots[r]) \/ waiters[r] # <<>>
      /\ ~QueueFull(r)
      /\ waiters' = [waiters EXCEPT ![r] = Append(@, t)]
      /\ active' = active
  BY DEF Enqueue, Ask, Begin, Move, MayEnterAtOnce
<1>2. /\ Owners(r)' = Owners(r)
      /\ Queued(r)' = Queued(r) \cup {t} /\ t \notin Queued(r)
  BY <1>1 DEF Owners, Queued, IInv, TypeOK
<1>3. ASSUME NEW q \in Runtime, q # r PROVE GateOK(q)'
  <2>1. Owners(q)' = Owners(q) /\ Queued(q)' = Queued(q)
    BY <1>1, <1>3 DEF Owners, Queued, IInv, TypeOK
  <2>2. active'[q] = active[q] /\ waiters'[q] = waiters[q]
    BY <1>1, <1>3 DEF IInv, TypeOK
  <2> QED BY <2>1, <2>2, Undisturbed DEF IInv
<1>4. GateOK(r)'
  <2>1. ListExact(r)'
    BY <1>1, <1>2, ListGrows DEF IInv, GateOK
  <2>2. active[r] = parallel_slots[r]
    <3>1. CASE waiters[r] # <<>>
      BY <3>1 DEF IInv, GateOK
    <3>2. CASE ~(active[r] < parallel_slots[r])
      <4>1. active[r] \in Nat /\ parallel_slots[r] \in Int
        BY AdmissionAssumption DEF IInv, TypeOK
      <4>2. active[r] # 0 /\ active[r] >= parallel_slots[r]
        BY <1>1, <3>2, <4>1
      <4>3. Owners(r) # {} /\ (Owners(r) # {} => active[r] <= parallel_slots[r])
        BY <4>2, FS_EmptySet DEF IInv, GateOK
      <4> QED BY <4>1, <4>2, <4>3
    <3> QED BY <1>1, <3>1, <3>2
  <2> QED BY <1>1, <1>2, <2>1, <2>2 DEF IInv, GateOK
<1>5. AwaitsLive'
  BY <1>1 DEF AwaitsLive, IInv, TypeOK
<1> QED BY <1>3, <1>4, <1>5

\* A queued request that times out or is cancelled takes its entry along.
LEMMA LeaveQueueStep ==
    ASSUME IInv, NEW t \in Task, TimeoutQueued(t) \/ CancelQueued(t)
    PROVE  AwaitsLive' /\ \A q \in Runtime : GateOK(q)'
<1>0. pc[t] = "waiting" /\ at[t] \in Runtime
  BY DEF TimeoutQueued, CancelQueued, IInv, TypeOK
<1>1. PICK r \in Runtime, p \in {"refused"} :
        /\ r = at[t]
        /\ pc[t] = "waiting" /\ future[t] = "pending"
        /\ RemoveWaiter(r, t)
        /\ future' = [future EXCEPT ![t] = "cancelled"]
        /\ pc' = [pc EXCEPT ![t] = p]
        /\ at' = [at EXCEPT ![t] = NoRuntime]
        /\ active' = active
  BY <1>0 DEF TimeoutQueued, CancelQueued, Leave, Move
<1>2. r \in Runtime /\ r # NoRuntime
  BY <1>1, AdmissionAssumption DEF IInv, TypeOK
<1>3. PICK i \in DOMAIN waiters[r] :
        waiters[r][i] = t /\ waiters' = [waiters EXCEPT ![r] = RemoveAt(@, i)]
  BY <1>1 DEF RemoveWaiter
<1>4. Owners(r)' = Owners(r) /\ Queued(r)' = Queued(r) \ {t}
  BY <1>1, <1>2 DEF Owners, Queued, IInv, TypeOK
<1>5. ASSUME NEW q \in Runtime, q # r PROVE GateOK(q)'
  <2>1. Owners(q)' = Owners(q) /\ Queued(q)' = Queued(q)
    BY <1>1, <1>2, <1>5, AdmissionAssumption DEF Owners, Queued, IInv, TypeOK
  <2>2. active'[q] = active[q] /\ waiters'[q] = waiters[q]
    BY <1>1, <1>2, <1>3, <1>5 DEF IInv, TypeOK
  <2> QED BY <2>1, <2>2, Undisturbed DEF IInv
<1>6. GateOK(r)'
  <2>1. ListExact(r)'
    BY <1>2, <1>3, <1>4, ListShrinks DEF IInv, GateOK
  <2>2. waiters[r] # <<>>
    BY <1>2, <1>3 DEF IInv, TypeOK
  <2> QED BY <1>1, <1>2, <1>4, <2>1, <2>2 DEF IInv, GateOK
<1>7. AwaitsLive'
  BY <1>1 DEF AwaitsLive, IInv, TypeOK
<1> QED BY <1>5, <1>6, <1>7

\* A lease comes back: its slot goes to the next waiter or becomes free.
LEMMA GiveBackStep ==
    ASSUME IInv, NEW t \in Task, CancelGranted(t) \/ Release(t)
    PROVE  AwaitsLive' /\ \A q \in Runtime : GateOK(q)'
<1>0. pc[t] \in {"waiting", "holding"} /\ at[t] \in Runtime
  BY DEF CancelGranted, Release, IInv, TypeOK
<1>1. PICK r \in Runtime, p \in {"idle", "refused"} :
        /\ r = at[t]
        /\ \/ pc[t] = "holding"
           \/ pc[t] = "waiting" /\ future[t] = "lease"
        /\ GiveBackSlot(r)
        /\ pc' = [pc EXCEPT ![t] = p]
        /\ at' = [at EXCEPT ![t] = NoRuntime]
  <2>1. CASE CancelGranted(t)
    BY <1>0, <2>1 DEF CancelGranted, Leave, Move
  <2>2. CASE Release(t)
    BY <1>0, <2>2 DEF Release, Leave, Move
  <2> QED BY <2>1, <2>2
<1>2. r \in Runtime /\ r # NoRuntime
  BY <1>1, AdmissionAssumption DEF IInv, TypeOK
<1>3. t \in Owners(r)
  BY <1>1 DEF Owners
<1>4. active[r] = Cardinality(Owners(r)) /\ active[r] \in Nat /\ ~(active[r] <= 0)
  <2>1. Cardinality(Owners(r)) # 0
    BY <1>3, OwnersFinite, FS_EmptySet
  <2> QED BY <1>2, <2>1 DEF IInv, GateOK, TypeOK
<1>5. CASE Live(r) = {}
  <2>1. /\ active' = [active EXCEPT ![r] = @ - 1]
        /\ waiters' = [waiters EXCEPT ![r] = <<>>]
        /\ future' = future
    BY <1>1, <1>4, <1>5 DEF GiveBackSlot
  <2>2. waiters[r] = <<>>
    <3>1. DOMAIN waiters[r] = {}
      BY <1>2, <1>5 DEF Live, IInv, GateOK, ListExact, Queued
    <3>2. waiters[r] \in Seq(Task)
      BY <1>2 DEF IInv, TypeOK
    <3>3. Len(waiters[r]) = 0
      <4>1. Len(waiters[r]) \in Nat /\ DOMAIN waiters[r] = 1..Len(waiters[r])
        BY <3>2
      <4>2. \A n \in Nat : n # 0 => 1 \in 1..n
        OBVIOUS
      <4> QED BY <3>1, <4>1, <4>2
    <3> QED BY <3>2, <3>3
  <2>3. waiters' = waiters
    BY <1>2, <2>1, <2>2 DEF IInv, TypeOK
  <2>4. Owners(r)' = Owners(r) \ {t} /\ Queued(r)' = Queued(r)
    BY <1>1, <1>2, <2>1 DEF Owners, Queued, IInv, TypeOK
  <2>5. ASSUME NEW q \in Runtime, q # r PROVE GateOK(q)'
    <3>1. Owners(q)' = Owners(q) /\ Queued(q)' = Queued(q)
      BY <1>1, <1>2, <2>1, <2>5, AdmissionAssumption DEF Owners, Queued, IInv, TypeOK
    <3>2. active'[q] = active[q] /\ waiters'[q] = waiters[q]
      BY <1>2, <2>1, <2>3, <2>5 DEF IInv, TypeOK
    <3> QED BY <3>1, <3>2, Undisturbed DEF IInv
  <2>6. GateOK(r)'
    <3>1. ListExact(r)'
      BY <1>2, <2>3, <2>4 DEF IInv, GateOK, ListExact
    <3>2. Cardinality(Owners(r)') = Cardinality(Owners(r)) - 1
      BY <1>3, <2>4, OwnersFinite, FS_RemoveElement
    <3>3. active'[r] = active[r] - 1
      BY <1>2, <2>1 DEF IInv, TypeOK
    <3>4. active[r] <= parallel_slots[r]
      BY <1>2, <1>3 DEF IInv, GateOK
    <3>5. active'[r] <= parallel_slots[r]
      BY <1>2, <1>4, <3>3, <3>4, AdmissionAssumption
    <3>6. active'[r] = Cardinality(Owners(r)')
      BY <1>4, <3>2, <3>3
    <3> QED BY <2>2, <2>3, <3>1, <3>5, <3>6 DEF GateOK
  <2>7. AwaitsLive'
    BY <1>1, <2>1 DEF AwaitsLive, IInv, TypeOK
  <2> QED BY <2>5, <2>6, <2>7
<1>6. CASE Live(r) # {}
  <2>1. PICK i \in DOMAIN waiters[r] :
          /\ waiters' = [waiters EXCEPT ![r] = RemoveAt(@, i)]
          /\ future' = [future EXCEPT ![waiters[r][i]] = "lease"]
          /\ active' = active
    BY <1>1, <1>4, <1>6 DEF GiveBackSlot
  <2>u. PICK u \in Task : u = waiters[r][i]
    BY <1>2, <2>1 DEF IInv, TypeOK
  <2>2. u \in Queued(r) /\ u \in Task /\ u # t /\ u \notin Owners(r)
    <3>1. u \in Queued(r)
      BY <1>2, <2>1, <2>u DEF IInv, GateOK, ListExact
    <3> QED BY <1>1, <3>1 DEF Queued, Owners
  <2>3. /\ Owners(r)' = (Owners(r) \ {t}) \cup {u}
        /\ Queued(r)' = Queued(r) \ {u}
    BY <1>1, <1>2, <1>3, <2>1, <2>2, <2>u DEF Owners, Queued, IInv, TypeOK
  <2>4. ASSUME NEW q \in Runtime, q # r PROVE GateOK(q)'
    <3>1. Owners(q)' = Owners(q) /\ Queued(q)' = Queued(q)
      BY <1>1, <1>2, <2>1, <2>2, <2>4, <2>u, AdmissionAssumption
         DEF Owners, Queued, IInv, TypeOK
    <3>2. active'[q] = active[q] /\ waiters'[q] = waiters[q]
      BY <1>2, <2>1, <2>4 DEF IInv, TypeOK
    <3> QED BY <3>1, <3>2, Undisturbed DEF IInv
  <2>5. GateOK(r)'
    <3>1. ListExact(r)'
      BY <1>2, <2>1, <2>3, <2>u, ListShrinks DEF IInv, GateOK
    <3>2. Cardinality(Owners(r) \ {t}) = Cardinality(Owners(r)) - 1
          /\ IsFiniteSet(Owners(r) \ {t})
      BY <1>3, OwnersFinite, FS_RemoveElement
    <3>3. Cardinality(Owners(r)') = Cardinality(Owners(r))
      <4>1. u \notin Owners(r) \ {t}
        BY <2>2
      <4>2. Cardinality((Owners(r) \ {t}) \cup {u}) = Cardinality(Owners(r) \ {t}) + 1
        BY <3>2, <4>1, FS_AddElement
      <4> QED BY <2>3, <3>2, <4>2, OwnersFinite
    <3>4. waiters[r] # <<>>
      BY <1>2, <2>1 DEF IInv, TypeOK
    <3> QED BY <1>2, <1>4, <2>1, <3>1, <3>3, <3>4, AdmissionAssumption
            DEF IInv, GateOK
  <2>6. AwaitsLive'
    BY <1>1, <2>1, <2>2, <2>u DEF AwaitsLive, IInv, TypeOK
  <2> QED BY <2>4, <2>5, <2>6
<1> QED BY <1>5, <1>6

\* Every action of the gates preserves the inductive invariant.
LEMMA InvariantStep == IInv /\ [Next]_vars => IInv'
<1> SUFFICES ASSUME IInv, [Next]_vars PROVE IInv'
  OBVIOUS
<1>1. TypeOK'
  BY TypeStep DEF IInv
<1>2. CASE UNCHANGED vars
  <2>1. ASSUME NEW r \in Runtime PROVE GateOK(r)'
    <3>1. Owners(r)' = Owners(r) /\ Queued(r)' = Queued(r)
      BY <1>2 DEF vars, Owners, Queued
    <3> QED BY <1>2, <3>1, Undisturbed DEF vars, IInv
  <2> QED BY <1>1, <1>2, <2>1 DEF vars, IInv, AwaitsLive
<1>3. CASE Next
  <2>1. AwaitsLive' /\ \A r \in Runtime : GateOK(r)'
    BY <1>3, QuietStep, AcquireStep, EnqueueStep, LeaveQueueStep, GiveBackStep
       DEF Next
  <2> QED BY <1>1, <2>1 DEF IInv
<1> QED BY <1>2, <1>3

\* The inductive invariant holds in every reachable state.
LEMMA InvariantHolds == Spec => []IInv
BY InitialInvariant, InvariantStep, PTL DEF Spec

\* However requests, grants, timeouts, cancellations and releases interleave,
\* a gate's counter is the number of leases out and stays within its slots.
THEOREM SlotsAccounted == Spec => []SlotAccounting
<1>1. IInv => SlotAccounting
  BY DEF IInv, GateOK, SlotAccounting
<1> QED BY <1>1, InvariantHolds, PTL

\* The list of waiters is exactly the set of requests that wait for a slot.
THEOREM QueueIsExact == Spec => []QueueExact
<1>1. IInv => QueueExact
  BY DEF IInv, GateOK, QueueExact, AwaitsLive
<1> QED BY <1>1, InvariantHolds, PTL

\* No request waits beside a free slot.
THEOREM GateWorkConserving == Spec => []WorkConserving
<1>1. IInv => WorkConserving
  BY DEF IInv, GateOK, WorkConserving
<1> QED BY <1>1, InvariantHolds, PTL

-----------------------------------------------------------------------------
(***************************************************************************)
(* What a step does to the ownership of slots.  It is all that the         *)
(* refinement of the pool and the order of service depend on.              *)
(***************************************************************************)
\* A request that owned nothing got a free slot beside an empty queue.
GivenOut(r, t) ==
    /\ \A s \in Runtime : t \notin Owners(s)
    /\ active[r] < parallel_slots[r] /\ waiters[r] = <<>>
    /\ \A s \in Runtime : Owners(s)' = IF s = r THEN Owners(s) \cup {t} ELSE Owners(s)

\* An owner gave its slot back.
GivenBack(r, t) ==
    /\ t \in Owners(r)
    /\ \A s \in Runtime : Owners(s)' = IF s = r THEN Owners(s) \ {t} ELSE Owners(s)

\* An owner's slot went to waiter i of the list, the next in order.
HandedOver(r, t, i) ==
    LET u == waiters[r][i] IN
    /\ t \in Owners(r)
    /\ i \in DOMAIN waiters[r] /\ IsNextWaiter(r, i)
    /\ u \in Task /\ \A s \in Runtime : u \notin Owners(s)
    /\ \A s \in Runtime :
          Owners(s)' = IF s = r THEN (Owners(s) \ {t}) \cup {u} ELSE Owners(s)

\* A lease that comes back is handed over, or its slot is free again.
LEMMA LeaseComesBack ==
    ASSUME IInv, NEW t \in Task, CancelGranted(t) \/ Release(t)
    PROVE  \E r \in Runtime :
              GivenBack(r, t) \/ \E i \in DOMAIN waiters[r] : HandedOver(r, t, i)
<1>0. pc[t] \in {"waiting", "holding"} /\ at[t] \in Runtime
  BY DEF CancelGranted, Release, IInv, TypeOK
<1>1. PICK r \in Runtime, p \in {"idle", "refused"} :
        /\ r = at[t]
        /\ \/ pc[t] = "holding"
           \/ pc[t] = "waiting" /\ future[t] = "lease"
        /\ GiveBackSlot(r)
        /\ pc' = [pc EXCEPT ![t] = p]
        /\ at' = [at EXCEPT ![t] = NoRuntime]
  <2>1. CASE CancelGranted(t)
    BY <1>0, <2>1 DEF CancelGranted, Leave, Move
  <2>2. CASE Release(t)
    BY <1>0, <2>2 DEF Release, Leave, Move
  <2> QED BY <2>1, <2>2
<1>2. t \in Owners(r) /\ r # NoRuntime
  BY <1>1, AdmissionAssumption DEF Owners
<1>3. ~(active[r] <= 0)
  <2>1. Cardinality(Owners(r)) # 0 /\ Cardinality(Owners(r)) \in Nat
    BY <1>2, OwnersFinite, FS_EmptySet
  <2> QED BY <2>1 DEF IInv, GateOK
<1>4. CASE Live(r) = {}
  <2>1. future' = future
    BY <1>1, <1>3, <1>4 DEF GiveBackSlot
  <2>2. \A s \in Runtime : Owners(s)' = IF s = r THEN Owners(s) \ {t} ELSE Owners(s)
    BY <1>1, <1>2, <2>1, AdmissionAssumption DEF Owners, IInv, TypeOK
  <2> QED BY <1>2, <2>2 DEF GivenBack
<1>5. CASE Live(r) # {}
  <2>1. PICK i \in DOMAIN waiters[r] :
          IsNextWaiter(r, i) /\ future' = [future EXCEPT ![waiters[r][i]] = "lease"]
    BY <1>1, <1>3, <1>5 DEF GiveBackSlot
  <2> DEFINE u == waiters[r][i]
  <2>2. u \in Queued(r)
    BY <2>1 DEF IInv, GateOK, ListExact
  <2>3. u \in Task /\ at[u] = r /\ pc[u] = "waiting" /\ future[u] = "pending" /\ u # t
    BY <1>1, <2>2 DEF Queued
  <2>4. future' = [future EXCEPT ![u] = "lease"]
    BY <2>1
  <2> HIDE DEF u
  <2>5. \A s \in Runtime : u \notin Owners(s)
    BY <2>3 DEF Owners
  <2>6. \A s \in Runtime :
          Owners(s)' = IF s = r THEN (Owners(s) \ {t}) \cup {u} ELSE Owners(s)
    BY <1>1, <1>2, <2>3, <2>4, AdmissionAssumption DEF Owners, IInv, TypeOK
  <2>7. HandedOver(r, t, i)
    BY <1>2, <2>1, <2>3, <2>5, <2>6 DEF HandedOver, u
  <2> QED BY <2>7
<1> QED BY <1>4, <1>5

\* A step leaves the ownership of slots alone or moves one slot.
LEMMA SlotsMove ==
    ASSUME IInv, [Next]_vars
    PROVE  \/ \A s \in Runtime : Owners(s)' = Owners(s)
           \/ \E r \in Runtime, t \in Task :
                 \/ GivenOut(r, t)
                 \/ GivenBack(r, t)
                 \/ \E i \in DOMAIN waiters[r] : HandedOver(r, t, i)
<1>1. ASSUME NEW t \in Task, NEW r \in Runtime,
             RejectUnavailable(t, r) \/ RejectQueueFull(t, r)
      PROVE  \A s \in Runtime : Owners(s)' = Owners(s)
  <2>1. /\ pc[t] \in {"idle", "refused"} /\ future' = future
        /\ pc' = [pc EXCEPT ![t] = "refused"]
        /\ at' = [at EXCEPT ![t] = NoRuntime]
    BY <1>1 DEF RejectUnavailable, RejectQueueFull, Begin, Leave, Move
  <2> QED BY <2>1, AdmissionAssumption DEF Owners, IInv, TypeOK
<1>2. ASSUME NEW t \in Task, NEW r \in Runtime, NEW p \in Priority, AcquireAtOnce(t, r, p)
      PROVE  GivenOut(r, t)
  <2>1. /\ pc[t] \in {"idle", "refused"}
        /\ pc' = [pc EXCEPT ![t] = "holding"]
        /\ at' = [at EXCEPT ![t] = r]
        /\ active[r] < parallel_slots[r] /\ waiters[r] = <<>>
        /\ future' = future
    BY <1>2 DEF AcquireAtOnce, Ask, Begin, Move, MayEnterAtOnce
  <2>2. \A s \in Runtime : t \notin Owners(s)
    BY <2>1 DEF Owners
  <2>3. \A s \in Runtime : Owners(s)' = IF s = r THEN Owners(s) \cup {t} ELSE Owners(s)
    BY <2>1 DEF Owners, IInv, TypeOK
  <2> QED BY <2>1, <2>2, <2>3 DEF GivenOut
<1>3. ASSUME NEW t \in Task, NEW r \in Runtime, NEW p \in Priority, Enqueue(t, r, p)
      PROVE  \A s \in Runtime : Owners(s)' = Owners(s)
  <2>1. /\ pc[t] \in {"idle", "refused"}
        /\ pc' = [pc EXCEPT ![t] = "waiting"]
        /\ at' = [at EXCEPT ![t] = r]
        /\ future' = [future EXCEPT ![t] = "pending"]
    BY <1>3 DEF Enqueue, Ask, Begin, Move
  <2> QED BY <2>1 DEF Owners, IInv, TypeOK
<1>4. ASSUME NEW t \in Task, Wake(t) \/ TimeoutGranted(t)
      PROVE  \A s \in Runtime : Owners(s)' = Owners(s)
  BY <1>4 DEF Wake, TimeoutGranted, Move, Owners, IInv, TypeOK
<1>5. ASSUME NEW t \in Task, TimeoutQueued(t) \/ CancelQueued(t)
      PROVE  \A s \in Runtime : Owners(s)' = Owners(s)
  <2>1. /\ pc[t] = "waiting" /\ future[t] = "pending"
        /\ pc' = [pc EXCEPT ![t] = "refused"]
        /\ at' = [at EXCEPT ![t] = NoRuntime]
        /\ future' = [future EXCEPT ![t] = "cancelled"]
    BY <1>5 DEF TimeoutQueued, CancelQueued, Leave, Move
  <2> QED BY <2>1, AdmissionAssumption DEF Owners, IInv, TypeOK
<1>6. CASE UNCHANGED vars
  BY <1>6 DEF vars, Owners
<1> QED
  BY <1>1, <1>2, <1>3, <1>4, <1>5, <1>6, LeaseComesBack DEF Next

\* Whoever gets a slot, nobody who queued before it and ranks at least as high
\* is left behind, and no arrival gets past the queue.
THEOREM NobodyOvertaken == Spec => NoOvertaking
<1>1. IInv /\ IInv' /\ [Next]_vars => [\A r \in Runtime : OvertakesNobody(r)]_vars
  <2> SUFFICES ASSUME IInv, IInv', [Next]_vars, NEW r \in Runtime,
                      NEW t \in Owners(r)' \ Owners(r),
                      NEW u \in Queued(r) \cap Queued(r)'
               PROVE  \E i, j \in DOMAIN waiters[r] :
                         /\ waiters[r][i] = t /\ waiters[r][j] = u
                         /\ SortsBefore(r, i, j)
    BY DEF OvertakesNobody
  <2>1. PICK j \in DOMAIN waiters[r] : waiters[r][j] = u
    BY DEF IInv, GateOK, ListExact
  <2>2. PICK s \in Runtime, o \in Task :
          GivenOut(s, o) \/ GivenBack(s, o) \/ \E i \in DOMAIN waiters[s] : HandedOver(s, o, i)
    BY SlotsMove
  <2>3. ~GivenOut(s, o)
    <3> SUFFICES ASSUME GivenOut(s, o) PROVE FALSE
      OBVIOUS
    <3>1. s = r
      BY DEF GivenOut
    <3>2. waiters[r] = <<>>
      BY <3>1 DEF GivenOut
    <3> QED BY <2>1, <3>2
  <2>4. ~GivenBack(s, o)
    BY DEF GivenBack
  <2>5. PICK i \in DOMAIN waiters[s] : HandedOver(s, o, i)
    BY <2>2, <2>3, <2>4
  <2>6. s = r /\ waiters[r][i] = t /\ IsNextWaiter(r, i)
    BY <2>5 DEF HandedOver
  <2>7. u # t
    BY DEF Owners, Queued
  <2>8. j \in Live(r) /\ j # i
    BY <2>1, <2>6, <2>7 DEF Live, Queued
  <2> QED BY <2>1, <2>5, <2>6, <2>8 DEF IsNextWaiter
<1> QED BY <1>1, InvariantHolds, PTL DEF Spec, NoOvertaking

\* The pool counts the owners as the gate does.
LEMMA PoolCounts == ASSUME NEW S PROVE Pool!Cardinality(S) = Cardinality(S)
BY DEF Pool!Cardinality, Cardinality

\* The gate implements the pool of slots: each of its steps gives out a free
\* slot, takes one back, hands one over or leaves the pool alone.
THEOREM ImplementsPool == Spec => PoolSpec
<1> DEFINE pool == [r \in Runtime |-> Owners(r)]
<1>1. Init => Pool!Init
  BY DEF Init, Owners, Pool!Init
<1>2. IInv /\ [Next]_vars => [Pool!Next]_pool
  <2> SUFFICES ASSUME IInv, [Next]_vars PROVE [Pool!Next]_pool
    OBVIOUS
  <2>1. CASE \A s \in Runtime : Owners(s)' = Owners(s)
    BY <2>1
  <2>2. ASSUME NEW r \in Runtime, NEW t \in Task, GivenOut(r, t) PROVE Pool!Next
    <3>1. Cardinality(Owners(r)) < parallel_slots[r]
      BY <2>2 DEF GivenOut, IInv, GateOK
    <3>2. pool' = [pool EXCEPT ![r] = @ \cup {t}]
      BY <2>2 DEF GivenOut
    <3>3. Cardinality(pool[r]) < parallel_slots[r] /\ \A s \in Runtime : t \notin pool[s]
      BY <2>2, <3>1 DEF GivenOut
    <3>4. Pool!Grant(r, t)
      BY <3>2, <3>3, PoolCounts DEF Pool!Grant
    <3> QED BY <3>4 DEF Pool!Next
  <2>3. ASSUME NEW r \in Runtime, NEW t \in Task, GivenBack(r, t) PROVE Pool!Next
    <3>1. pool' = [pool EXCEPT ![r] = @ \ {t}]
      BY <2>3 DEF GivenBack
    <3>2. Pool!Return(r, t)
      BY <2>3, <3>1 DEF Pool!Return, GivenBack
    <3> QED BY <3>2 DEF Pool!Next
  <2>4. ASSUME NEW r \in Runtime, NEW t \in Task, NEW i \in DOMAIN waiters[r],
               HandedOver(r, t, i)
        PROVE  Pool!Next
    <3>1. PICK u \in Task : u = waiters[r][i]
      BY <2>4 DEF HandedOver
    <3>2. pool' = [pool EXCEPT ![r] = (@ \ {t}) \cup {u}]
      BY <2>4, <3>1 DEF HandedOver
    <3>3. Pool!HandOver(r, t, u)
      BY <2>4, <3>1, <3>2 DEF Pool!HandOver, HandedOver
    <3> QED BY <3>3 DEF Pool!Next
  <2> QED BY <2>1, <2>2, <2>3, <2>4, SlotsMove
<1> QED BY <1>1, <1>2, InvariantHolds, PTL DEF Spec, PoolSpec, Pool!Spec

-----------------------------------------------------------------------------
\* The quota managers.

\* A non-empty set of natural numbers has a least element.
LEMMA LeastNat ==
    ASSUME NEW T \in SUBSET Nat, T # {}
    PROVE  \E i \in T : \A j \in T : i <= j
<1> DEFINE R == {p \in Nat \X Nat : p[1] < p[2]}
<1>1. IsWellFoundedOn(R, Nat)
  BY NatLessThanWellFounded DEF OpToRel
<1>2. \A i, j \in Nat : <<j, i>> \in R <=> j < i
  OBVIOUS
<1> HIDE DEF R
<1>3. PICK i \in T : \A j \in T : ~(<<j, i>> \in R)
  BY <1>1, WFMin
<1>4. \A j \in T : ~(j < i)
  BY <1>2, <1>3
<1>5. \A j \in T : i <= j
  BY <1>4
<1> QED BY <1>5

\* Induction, for a set given as a set.
LEMMA NatSetInduction ==
    ASSUME NEW S, 0 \in S, \A n \in Nat : n \in S => n + 1 \in S
    PROVE  Nat \subseteq S
<1> SUFFICES ASSUME Nat \ S # {} PROVE FALSE
  OBVIOUS
<1> DEFINE T == Nat \ S
<1>1. PICK i \in T : \A j \in T : i <= j
  <2> T \in SUBSET Nat /\ T # {}
    OBVIOUS
  <2> HIDE DEF T
  <2> QED BY LeastNat
<1>2. i \in Nat /\ i # 0
  BY <1>1
<1>3. i - 1 \in Nat /\ i - 1 \notin T
  BY <1>1, <1>2
<1>4. (i - 1) + 1 \in S
  BY <1>3
<1> QED BY <1>1, <1>2, <1>4

\* Induction over the subsets of a finite set by their size.
LEMMA BySize ==
    ASSUME NEW U, IsFiniteSet(U), NEW G,
           \A s \in SUBSET U :
              (\A t \in SUBSET U : Cardinality(t) < Cardinality(s) => t \in G) => s \in G
    PROVE  SUBSET U \subseteq G
<1> SUFFICES ASSUME NEW u \in SUBSET U, u \notin G PROVE FALSE
  OBVIOUS
<1> DEFINE T == {Cardinality(s) : s \in (SUBSET U) \ G}
<1>1. \A s \in SUBSET U : Cardinality(s) \in Nat
  BY FS_Subset, FS_CardinalityType
<1>2. T \in SUBSET Nat /\ T # {}
  BY <1>1
<1>3. PICK n \in T : \A m \in T : n <= m
  <2> HIDE DEF T
  <2> QED BY <1>2, LeastNat
<1>4. PICK s \in (SUBSET U) \ G : n = Cardinality(s)
  BY <1>3
<1>5. ASSUME NEW t \in SUBSET U, Cardinality(t) < Cardinality(s) PROVE t \in G
  <2>1. Cardinality(t) \in Nat /\ Cardinality(s) \in Nat
    BY <1>1
  <2>2. t \notin G => Cardinality(t) \in T
    OBVIOUS
  <2> HIDE DEF T
  <2>3. t \notin G => Cardinality(s) <= Cardinality(t)
    BY <1>3, <1>4, <2>2
  <2> QED BY <1>5, <2>1, <2>3
<1> QED BY <1>4, <1>5

-----------------------------------------------------------------------------
\* The element a sum takes next, and the equation its partial sums satisfy.
Taken(s) == CHOOSE x \in s : TRUE

SumEq(f, R, d) ==
    f = [s \in SUBSET R |-> IF s = {} THEN 0
                            ELSE amount[Taken(s)][d] + f[s \ {Taken(s)}]]

\* The sum of a set is its amounts added up one element at a time.
LEMMA TotalDef ==
    ASSUME NEW R, NEW d
    PROVE  Total(R, d) = (CHOOSE f : SumEq(f, R, d))[R]
BY DEF Total, MapThenSumSet, MapThenFoldSet, SumEq, Taken

\* Taking an element out of a finite set gives a smaller set.
LEMMA Smaller ==
    ASSUME NEW s, IsFiniteSet(s), NEW x \in s
    PROVE  /\ IsFiniteSet(s \ {x}) /\ Cardinality(s) \in Nat
           /\ Cardinality(s \ {x}) = Cardinality(s) - 1
BY FS_RemoveElement, FS_CardinalityType

\* Partial sums of the subsets with at most n elements.
UpTo(R, n) == {s \in SUBSET R : Cardinality(s) <= n}
PartialSums(R, d, n) ==
    \E g \in [UpTo(R, n) -> Nat] :
        \A s \in UpTo(R, n) :
            g[s] = IF s = {} THEN 0 ELSE amount[Taken(s)][d] + g[s \ {Taken(s)}]

\* Amounts over a finite set have sums of all its subsets.
LEMMA SumsExist ==
    ASSUME NEW R \in SUBSET Request, NEW d \in Dimension
    PROVE  \E f \in [SUBSET R -> Nat] : SumEq(f, R, d)
<1>0. IsFiniteSet(R) /\ \A s \in SUBSET R : IsFiniteSet(s) /\ Cardinality(s) \in Nat
  <2>1. IsFiniteSet(R)
    BY QuotaAssumption, FS_Subset
  <2> QED BY <2>1, FS_Subset, FS_CardinalityType
<1>1. \A s \in SUBSET R : s # {} =>
         Taken(s) \in s /\ amount[Taken(s)][d] \in Nat
  BY QuotaAssumption DEF Taken
<1>2. PartialSums(R, d, 0)
  <2>1. \A s \in UpTo(R, 0) : s = {}
    BY <1>0, FS_EmptySet DEF UpTo
  <2>2. [s \in UpTo(R, 0) |-> 0] \in [UpTo(R, 0) -> Nat]
    OBVIOUS
  <2> QED BY <2>1, <2>2 DEF PartialSums
<1>3. ASSUME NEW n \in Nat, PartialSums(R, d, n) PROVE PartialSums(R, d, n + 1)
  <2>1. PICK g \in [UpTo(R, n) -> Nat] :
           \A s \in UpTo(R, n) :
              g[s] = IF s = {} THEN 0 ELSE amount[Taken(s)][d] + g[s \ {Taken(s)}]
    BY <1>3 DEF PartialSums
  <2> DEFINE h == [s \in UpTo(R, n + 1) |->
                     IF s = {} THEN 0 ELSE amount[Taken(s)][d] + g[s \ {Taken(s)}]]
  <2>2. ASSUME NEW s \in UpTo(R, n + 1), s # {} PROVE s \ {Taken(s)} \in UpTo(R, n)
    <3>1. s \in SUBSET R /\ Taken(s) \in s /\ IsFiniteSet(s) /\ Cardinality(s) <= n + 1
      BY <2>2, <1>0, <1>1 DEF UpTo
    <3>2. Cardinality(s \ {Taken(s)}) = Cardinality(s) - 1 /\ Cardinality(s) \in Nat
      BY <3>1, Smaller
    <3> QED BY <3>1, <3>2 DEF UpTo
  <2>3. h \in [UpTo(R, n + 1) -> Nat]
    <3>1. ASSUME NEW s \in UpTo(R, n + 1), s # {}
          PROVE  amount[Taken(s)][d] + g[s \ {Taken(s)}] \in Nat
      <4>1. g[s \ {Taken(s)}] \in Nat
        BY <3>1, <2>2
      <4>2. amount[Taken(s)][d] \in Nat
        BY <3>1, <1>1 DEF UpTo
      <4> QED BY <4>1, <4>2
    <3> QED BY <3>1
  <2>4. \A t \in UpTo(R, n) : t \in UpTo(R, n + 1) /\ h[t] = g[t]
    <3>1. \A t \in UpTo(R, n) : t \in UpTo(R, n + 1)
      BY <1>0 DEF UpTo
    <3> QED BY <2>1, <3>1
  <2>5. \A s \in UpTo(R, n + 1) :
           h[s] = IF s = {} THEN 0 ELSE amount[Taken(s)][d] + h[s \ {Taken(s)}]
    BY <2>2, <2>4
  <2> HIDE DEF h
  <2> QED BY <2>3, <2>5 DEF PartialSums
<1>4. Nat \subseteq {n \in Nat : PartialSums(R, d, n)}
  <2> DEFINE S == {n \in Nat : PartialSums(R, d, n)}
  <2>1. 0 \in S /\ \A n \in Nat : n \in S => n + 1 \in S
    BY <1>2, <1>3
  <2> HIDE DEF S
  <2>2. Nat \subseteq S
    BY <2>1, NatSetInduction
  <2> QED BY <2>2 DEF S
<1>5. Cardinality(R) \in Nat /\ UpTo(R, Cardinality(R)) = SUBSET R
  <2>1. \A s \in SUBSET R : Cardinality(s) <= Cardinality(R)
    BY <1>0, FS_Subset
  <2> QED BY <1>0, <2>1 DEF UpTo
<1>6. PartialSums(R, d, Cardinality(R))
  BY <1>4, <1>5
<1>7. PICK g \in [SUBSET R -> Nat] :
         \A s \in SUBSET R :
            g[s] = IF s = {} THEN 0 ELSE amount[Taken(s)][d] + g[s \ {Taken(s)}]
  BY <1>5, <1>6 DEF PartialSums
<1> QED BY <1>7 DEF SumEq

\* The sums over the subsets of a set are those of any larger set.
LEMMA SumsAgree ==
    ASSUME NEW R \in SUBSET Request, NEW d \in Dimension, NEW f, NEW g,
           SumEq(f, Request, d), SumEq(g, R, d)
    PROVE  f[R] = g[R]
<1> DEFINE G == {s \in SUBSET R : f[s] = g[s]}
<1>0. IsFiniteSet(R) /\ \A s \in SUBSET R : IsFiniteSet(s) /\ Cardinality(s) \in Nat
  <2>1. IsFiniteSet(R)
    BY QuotaAssumption, FS_Subset
  <2> QED BY <2>1, FS_Subset, FS_CardinalityType
<1>1. ASSUME NEW s \in SUBSET R,
             \A t \in SUBSET R : Cardinality(t) < Cardinality(s) => t \in G
      PROVE  s \in G
  <2>1. /\ f[s] = IF s = {} THEN 0 ELSE amount[Taken(s)][d] + f[s \ {Taken(s)}]
        /\ g[s] = IF s = {} THEN 0 ELSE amount[Taken(s)][d] + g[s \ {Taken(s)}]
    BY DEF SumEq
  <2>2. CASE s = {}
    BY <2>1, <2>2
  <2>3. CASE s # {}
    <3>1. Taken(s) \in s
      BY <2>3 DEF Taken
    <3>2. Cardinality(s \ {Taken(s)}) < Cardinality(s)
      BY <3>1, <1>0, Smaller
    <3>3. f[s \ {Taken(s)}] = g[s \ {Taken(s)}]
      BY <3>2, <1>1
    <3> QED BY <2>1, <2>3, <3>3
  <2> QED BY <2>2, <2>3
<1>2. SUBSET R \subseteq G
  <2> HIDE DEF G
  <2> QED BY <1>0, <1>1, BySize
<1> QED BY <1>2

\* The sum of a set is what any of its elements adds to the sum of the others.
LEMMA SumTakes ==
    ASSUME NEW d \in Dimension, NEW f \in [SUBSET Request -> Nat], SumEq(f, Request, d)
    PROVE  \A s \in SUBSET Request : \A x \in s : f[s] = amount[x][d] + f[s \ {x}]
<1> DEFINE G == {s \in SUBSET Request : \A x \in s : f[s] = amount[x][d] + f[s \ {x}]}
<1>0. IsFiniteSet(Request) /\ \A s \in SUBSET Request : IsFiniteSet(s) /\ Cardinality(s) \in Nat
  BY QuotaAssumption, FS_Subset, FS_CardinalityType
<1>1. \A x \in Request : amount[x][d] \in Nat
  BY QuotaAssumption
<1>2. ASSUME NEW s \in SUBSET Request,
             \A t \in SUBSET Request : Cardinality(t) < Cardinality(s) => t \in G
      PROVE  s \in G
  <2> SUFFICES ASSUME NEW x \in s PROVE f[s] = amount[x][d] + f[s \ {x}]
    OBVIOUS
  <2> DEFINE y == Taken(s)
  <2>1. y \in s
    BY DEF Taken
  <2>2. f[s] = amount[y][d] + f[s \ {y}]
    BY DEF SumEq
  <2> HIDE DEF y
  <2>3. CASE x = y
    BY <2>2, <2>3
  <2>4. CASE x # y
    <3>1. Cardinality(s \ {y}) < Cardinality(s) /\ Cardinality(s \ {x}) < Cardinality(s)
      BY <2>1, <1>0, Smaller
    <3>2. f[s \ {y}] = amount[x][d] + f[(s \ {y}) \ {x}]
      BY <3>1, <1>2, <2>4
    <3>3. f[s \ {x}] = amount[y][d] + f[(s \ {x}) \ {y}]
      BY <3>1, <1>2, <2>1, <2>4
    <3>4. (s \ {x}) \ {y} = (s \ {y}) \ {x}
      OBVIOUS
    <3>5. f[(s \ {x}) \ {y}] \in Nat /\ amount[x][d] \in Nat /\ amount[y][d] \in Nat
      BY <1>1, <2>1
    <3> DEFINE z == f[(s \ {y}) \ {x}]
    <3>6. /\ f[s] = amount[y][d] + (amount[x][d] + z)
          /\ f[s \ {x}] = amount[y][d] + z
          /\ z \in Nat
      BY <2>2, <3>2, <3>3, <3>4, <3>5
    <3> HIDE DEF z
    <3> QED BY <3>5, <3>6
  <2> QED BY <2>3, <2>4
<1>3. SUBSET Request \subseteq G
  <2> HIDE DEF G
  <2> QED BY <1>0, <1>2, BySize
<1> QED BY <1>3

\* The laws of Total: nothing for no request, and for one more request its
\* estimate.
LEMMA TotalFacts ==
    ASSUME NEW d \in Dimension
    PROVE  /\ Total({}, d) = 0
           /\ \A R \in SUBSET Request : Total(R, d) \in Nat
           /\ \A R \in SUBSET Request : \A x \in R :
                 Total(R, d) = amount[x][d] + Total(R \ {x}, d)
<1>1. PICK f \in [SUBSET Request -> Nat] : SumEq(f, Request, d)
  BY SumsExist
<1>2. ASSUME NEW R \in SUBSET Request PROVE Total(R, d) = f[R]
  <2>1. \E g : SumEq(g, R, d)
    BY SumsExist
  <2>2. SumEq(CHOOSE g : SumEq(g, R, d), R, d)
    BY <2>1
  <2> QED BY <1>1, <2>2, SumsAgree, TotalDef
<1>3. f[{}] = 0
  BY <1>1 DEF SumEq
<1>4. \A s \in SUBSET Request : \A x \in s : f[s] = amount[x][d] + f[s \ {x}]
  BY <1>1, SumTakes
<1> QED BY <1>1, <1>2, <1>3, <1>4

-----------------------------------------------------------------------------
\* What an operation of RedisQuota can have read.
Reading == [step : {"idle", "read"}, version : Nat,
            used : [Dimension -> Nat], due : SUBSET Windowed]

\* What an operation has read is what the keys say, as long as nobody has
\* written to them: only more windows can have ended.
ReadsHold ==
    /\ backend = "memory" => \A r \in Request : ~Operating(r)
    /\ \A r \in Request :
          /\ op[r].version <= version
          /\ (Operating(r) /\ Unchanged(r)) =>
                 op[r].used = used /\ op[r].due \subseteq due

QuotaTypes ==
    /\ QuotaTypeOK
    /\ version \in Nat /\ op \in [Request -> Reading]

QuotaInv == QuotaTypes /\ CountsExactly /\ ReadsHold

\* A request is charged: the sums of the charged requests grow by its estimate.
LEMMA ChargeAdds ==
    ASSUME QuotaTypeOK, NEW r \in Request, phase[r] = "new",
           phase' = [phase EXCEPT ![r] = "reserved"],
           born' = [born EXCEPT ![r] = window], UNCHANGED window,
           NEW d \in Dimension
    PROVE  /\ Total(Charged', d) = Total(Charged, d) + amount[r][d]
           /\ Total(ChargedNow(d)', d) = Total(ChargedNow(d), d) + amount[r][d]
           /\ Total(Charged, d) \in Nat /\ Total(ChargedNow(d), d) \in Nat
           /\ amount[r][d] \in Nat
<1>1. /\ r \notin Charged /\ Charged' = Charged \cup {r}
      /\ Charged \in SUBSET Request /\ Charged' \in SUBSET Request
  BY DEF QuotaTypeOK, Charged
<1>2. /\ born'[r][d] = window'[d]
      /\ \A x \in Request \ {r} : born'[x] = born[x]
      /\ window' = window
  BY DEF QuotaTypeOK
<1>3. /\ r \notin ChargedNow(d) /\ ChargedNow(d)' = ChargedNow(d) \cup {r}
      /\ ChargedNow(d) \in SUBSET Request /\ ChargedNow(d)' \in SUBSET Request
  BY <1>1, <1>2 DEF ChargedNow
<1>4. Charged' \ {r} = Charged /\ ChargedNow(d)' \ {r} = ChargedNow(d)
  BY <1>1, <1>3
<1>5. /\ Total(Charged', d) = amount[r][d] + Total(Charged' \ {r}, d)
      /\ Total(ChargedNow(d)', d) = amount[r][d] + Total(ChargedNow(d)' \ {r}, d)
      /\ Total(Charged, d) \in Nat /\ Total(ChargedNow(d), d) \in Nat
  BY <1>1, <1>3, TotalFacts
<1>6. amount[r][d] \in Nat
  BY QuotaAssumption
<1>7. /\ Total(Charged' \ {r}, d) = Total(Charged, d)
      /\ Total(ChargedNow(d)' \ {r}, d) = Total(ChargedNow(d), d)
  BY <1>4
<1> QED BY <1>5, <1>6, <1>7

\* A request is refunded: they shrink by it.
LEMMA RefundTakes ==
    ASSUME QuotaTypeOK, NEW r \in Request, phase[r] = "reserved",
           phase' = [phase EXCEPT ![r] = "refunded"], UNCHANGED <<window, born>>,
           NEW d \in Dimension
    PROVE  /\ Total(Charged, d) = Total(Charged', d) + amount[r][d]
           /\ \/ Total(ChargedNow(d), d) = Total(ChargedNow(d)', d) + amount[r][d]
              \/ Total(ChargedNow(d), d) = Total(ChargedNow(d)', d)
           /\ Total(Charged', d) \in Nat /\ Total(ChargedNow(d)', d) \in Nat
           /\ amount[r][d] \in Nat
<1>1. /\ r \in Charged /\ Charged' = Charged \ {r}
      /\ Charged \in SUBSET Request /\ Charged' \in SUBSET Request
  BY DEF QuotaTypeOK, Charged
<1>2. /\ ChargedNow(d)' = ChargedNow(d) \ {r}
      /\ ChargedNow(d) \in SUBSET Request /\ ChargedNow(d)' \in SUBSET Request
  BY <1>1 DEF ChargedNow
<1>3. /\ Total(Charged, d) = amount[r][d] + Total(Charged', d)
      /\ r \in ChargedNow(d) =>
            Total(ChargedNow(d), d) = amount[r][d] + Total(ChargedNow(d)', d)
      /\ r \notin ChargedNow(d) => ChargedNow(d)' = ChargedNow(d)
      /\ Total(Charged', d) \in Nat /\ Total(ChargedNow(d)', d) \in Nat
  BY <1>1, <1>2, TotalFacts
<1>4. amount[r][d] \in Nat
  BY QuotaAssumption
<1>5. CASE r \in ChargedNow(d)
  BY <1>3, <1>4, <1>5
<1>6. CASE r \notin ChargedNow(d)
  <2>1. Total(ChargedNow(d)', d) = Total(ChargedNow(d), d)
    BY <1>3, <1>6
  <2> QED BY <1>3, <1>4, <2>1
<1> QED BY <1>5, <1>6

\* A step that charges and refunds nobody in the window leaves the sums alone.
LEMMA SameSums ==
    ASSUME UNCHANGED <<window, born>>, Charged' = Charged, NEW d \in Dimension
    PROVE  Charged' = Charged /\ ChargedNow(d)' = ChargedNow(d)
BY DEF ChargedNow

\* The counters of a reservation that was made on what they say, a part of the
\* ended windows noticed.
LEMMA ReserveCounts ==
    ASSUME QuotaTypeOK, CountsExactly, NEW r \in Request, phase[r] = "new",
           NEW noticed \in SUBSET due,
           \A d \in Dimension :
              (IF d \in noticed THEN 0 ELSE used[d]) + amount[r][d] <= limit[d],
           used' = [d \in Dimension |->
                      (IF d \in noticed THEN 0 ELSE used[d]) + amount[r][d]],
           due' = due \ noticed,
           phase' = [phase EXCEPT ![r] = "reserved"],
           born' = [born EXCEPT ![r] = window], UNCHANGED window
    PROVE  CountsExactly' /\ QuotaTypeOK'
<1>1. ASSUME NEW d \in Dimension
      PROVE  /\ used'[d] <= limit[d]
             /\ d \notin Windowed => used'[d] = Total(Charged', d)
             /\ d \in Windowed \ due' => used'[d] <= Total(ChargedNow(d)', d)
  <2>1. /\ Total(Charged', d) = Total(Charged, d) + amount[r][d]
        /\ Total(ChargedNow(d)', d) = Total(ChargedNow(d), d) + amount[r][d]
        /\ Total(Charged, d) \in Nat /\ Total(ChargedNow(d), d) \in Nat
        /\ amount[r][d] \in Nat
    BY ChargeAdds
  <2>2. used'[d] = (IF d \in noticed THEN 0 ELSE used[d]) + amount[r][d]
    OBVIOUS
  <2>3. /\ used[d] \in Nat /\ due \subseteq Windowed
        /\ d \notin Windowed => used[d] = Total(Charged, d)
        /\ d \in Windowed \ due => used[d] <= Total(ChargedNow(d), d)
    BY DEF QuotaTypeOK, CountsExactly
  <2>4. used'[d] <= limit[d]
    BY <2>2
  <2>5. d \notin Windowed => used'[d] = Total(Charged', d)
    BY <2>1, <2>2, <2>3
  <2>6. d \in Windowed \ due' => used'[d] <= Total(ChargedNow(d)', d)
    BY <2>1, <2>2, <2>3
  <2> QED BY <2>4, <2>5, <2>6
<1>2. CountsExactly'
  BY <1>1 DEF CountsExactly
<1>3. used' \in [Dimension -> Nat]
  <2>1. \A d \in Dimension : used[d] \in Nat /\ amount[r][d] \in Nat
    BY QuotaAssumption DEF QuotaTypeOK
  <2>2. \A d \in Dimension : (IF d \in noticed THEN 0 ELSE used[d]) + amount[r][d] \in Nat
    BY <2>1
  <2> QED BY <2>2
<1>4. /\ due' \subseteq Windowed
      /\ phase' \in [Request -> {"new", "refused", "reserved", "kept", "refunded"}]
      /\ born' \in [Request -> [Dimension -> 0..MaxWindows]]
      /\ window' \in [Dimension -> 0..MaxWindows]
  BY DEF QuotaTypeOK
<1> QED BY <1>2, <1>3, <1>4 DEF QuotaTypeOK

\* The counters of a refund, likewise.
LEMMA ReleaseCounts ==
    ASSUME QuotaTypeOK, CountsExactly, NEW r \in Request, phase[r] = "reserved",
           NEW noticed \in SUBSET due,
           used' = [d \in Dimension |->
                      Less(IF d \in noticed THEN 0 ELSE used[d], amount[r][d])],
           due' = due \ noticed,
           phase' = [phase EXCEPT ![r] = "refunded"], UNCHANGED <<window, born>>
    PROVE  CountsExactly' /\ QuotaTypeOK'
<1>1. ASSUME NEW d \in Dimension
      PROVE  /\ used'[d] <= limit[d] /\ used'[d] \in Nat
             /\ d \notin Windowed => used'[d] = Total(Charged', d)
             /\ d \in Windowed \ due' => used'[d] <= Total(ChargedNow(d)', d)
  <2>1. /\ Total(Charged, d) = Total(Charged', d) + amount[r][d]
        /\ \/ Total(ChargedNow(d), d) = Total(ChargedNow(d)', d) + amount[r][d]
           \/ Total(ChargedNow(d), d) = Total(ChargedNow(d)', d)
        /\ Total(Charged', d) \in Nat /\ Total(ChargedNow(d)', d) \in Nat
        /\ amount[r][d] \in Nat
    BY RefundTakes
  <2> DEFINE v == IF d \in noticed THEN 0 ELSE used[d]
             a == amount[r][d]
  <2>2. used'[d] = Less(v, a)
    OBVIOUS
  <2>3. /\ used[d] \in Nat /\ due \subseteq Windowed /\ limit[d] \in Nat
        /\ used[d] <= limit[d]
        /\ d \notin Windowed => used[d] = Total(Charged, d)
        /\ d \in Windowed \ due => used[d] <= Total(ChargedNow(d), d)
    BY QuotaAssumption DEF QuotaTypeOK, CountsExactly
  <2>7. /\ v \in Nat /\ v <= used[d] /\ a \in Nat
        /\ d \in noticed => v = 0
        /\ d \notin noticed => v = used[d]
    BY <2>1, <2>3
  <2> HIDE DEF v, a
  <2>8. /\ Less(v, a) \in Nat /\ Less(v, a) <= v /\ (v = 0 => Less(v, a) = 0)
        /\ \A n \in Nat : v <= n + a => Less(v, a) <= n
        /\ \A n \in Nat : v = n + a => Less(v, a) = n
    BY <2>7 DEF Less
  <2>4. used'[d] <= limit[d] /\ used'[d] \in Nat
    BY <2>2, <2>3, <2>7, <2>8
  <2>5. d \notin Windowed => used'[d] = Total(Charged', d)
    <3>1. d \notin Windowed => v = used[d]
      BY <2>3, <2>7
    <3>2. d \notin Windowed => v = Total(Charged', d) + a
      BY <2>1, <2>3, <3>1 DEF a
    <3> QED BY <2>1, <2>2, <2>8, <3>2
  <2>6. d \in Windowed \ due' => used'[d] <= Total(ChargedNow(d)', d)
    <3>1. CASE d \in noticed
      BY <2>1, <2>2, <2>7, <2>8, <3>1
    <3>2. CASE d \in Windowed \ due
      <4>1. v <= Total(ChargedNow(d), d)
        BY <2>3, <2>7, <3>2
      <4>2. v <= Total(ChargedNow(d)', d) + a
        BY <2>1, <2>7, <4>1 DEF a
      <4> QED BY <2>1, <2>2, <2>8, <4>2
    <3> QED BY <3>1, <3>2
  <2> QED BY <2>4, <2>5, <2>6
<1>2. CountsExactly'
  BY <1>1 DEF CountsExactly
<1>3. used' \in [Dimension -> Nat]
  BY <1>1
<1> QED BY <1>2, <1>3 DEF QuotaTypeOK

\* A step that leaves the charged requests alone may notice ended windows.
LEMMA NoticeCounts ==
    ASSUME QuotaTypeOK, CountsExactly, Charged' = Charged, UNCHANGED <<window, born>>,
           NEW noticed \in SUBSET due, due' = due \ noticed,
           used' = [d \in Dimension |-> IF d \in noticed THEN 0 ELSE used[d]]
    PROVE  CountsExactly' /\ used' \in [Dimension -> Nat] /\ due' \subseteq Windowed
<1>1. ASSUME NEW d \in Dimension
      PROVE  /\ used'[d] <= limit[d] /\ used'[d] \in Nat
             /\ d \notin Windowed => used'[d] = Total(Charged', d)
             /\ d \in Windowed \ due' => used'[d] <= Total(ChargedNow(d)', d)
  <2>1. Charged' = Charged /\ ChargedNow(d)' = ChargedNow(d)
    BY SameSums
  <2>2. Charged \in SUBSET Request /\ ChargedNow(d) \in SUBSET Request
    BY DEF Charged, ChargedNow
  <2>3. Total(Charged, d) \in Nat /\ Total(ChargedNow(d), d) \in Nat
    BY <2>2, TotalFacts
  <2>4. /\ used[d] \in Nat /\ due \subseteq Windowed /\ limit[d] \in Nat
        /\ used[d] <= limit[d]
        /\ d \notin Windowed => used[d] = Total(Charged, d)
        /\ d \in Windowed \ due => used[d] <= Total(ChargedNow(d), d)
    BY QuotaAssumption DEF QuotaTypeOK, CountsExactly
  <2>5. used'[d] = IF d \in noticed THEN 0 ELSE used[d]
    OBVIOUS
  <2> QED BY <2>1, <2>3, <2>4, <2>5
<1>2. CountsExactly'
  BY <1>1 DEF CountsExactly
<1>3. used' \in [Dimension -> Nat] /\ due' \subseteq Windowed
  BY <1>1 DEF QuotaTypeOK
<1> QED BY <1>2, <1>3

\* The clock passes a reset time: the counter is not looked at before it starts
\* again.
LEMMA WindowCounts ==
    ASSUME QuotaTypeOK, CountsExactly, NEW w \in Dimension, WindowEnds(w)
    PROVE  CountsExactly' /\ QuotaTypeOK'
<1>1. /\ w \in Windowed /\ window[w] < MaxWindows /\ window' = [window EXCEPT ![w] = @ + 1]
      /\ due' = due \cup {w} /\ UNCHANGED <<used, phase, born>>
  BY DEF WindowEnds
<1>2. Charged' = Charged
  BY <1>1 DEF Charged
<1>3. \A d \in Dimension \ {w} : ChargedNow(d)' = ChargedNow(d)
  BY <1>1, <1>2 DEF ChargedNow, QuotaTypeOK
<1>4. CountsExactly'
  BY <1>1, <1>2, <1>3 DEF CountsExactly
<1>5. window' \in [Dimension -> 0..MaxWindows]
  BY <1>1, QuotaAssumption DEF QuotaTypeOK
<1> QED BY <1>1, <1>4, <1>5 DEF QuotaTypeOK

\* The steps of the in-memory manager.
LEMMA MemoryStep ==
    ASSUME QuotaTypeOK, CountsExactly, QuotaNext
    PROVE  CountsExactly' /\ QuotaTypeOK'
<1>1. ASSUME NEW r \in Request, reserve(r) PROVE CountsExactly' /\ QuotaTypeOK'
  <2>1. /\ due \in SUBSET due
        /\ \A d \in Dimension :
              (IF d \in due THEN 0 ELSE used[d]) + amount[r][d] <= limit[d]
        /\ used' = [d \in Dimension |->
                      (IF d \in due THEN 0 ELSE used[d]) + amount[r][d]]
        /\ due' = due \ due /\ phase[r] = "new"
        /\ phase' = [phase EXCEPT ![r] = "reserved"]
        /\ born' = [born EXCEPT ![r] = window] /\ UNCHANGED window
    BY <1>1 DEF reserve, Fits, Current, Phase
  <2> QED BY <2>1, ReserveCounts
<1>2. ASSUME NEW r \in Request, refuse(r) PROVE CountsExactly' /\ QuotaTypeOK'
  <2>1. PICK seen \in SUBSET due :
           /\ due' = due \ seen
           /\ used' = [d \in Dimension |-> IF d \in seen THEN 0 ELSE used[d]]
    BY <1>2 DEF refuse
  <2>2. /\ UNCHANGED <<window, born>> /\ phase[r] = "new"
        /\ phase' = [phase EXCEPT ![r] = "refused"]
    BY <1>2 DEF refuse, Phase
  <2>3. Charged' = Charged
    BY <2>2 DEF Charged, QuotaTypeOK
  <2>4. CountsExactly' /\ used' \in [Dimension -> Nat] /\ due' \subseteq Windowed
    BY <2>1, <2>2, <2>3, NoticeCounts
  <2> QED BY <2>2, <2>4 DEF QuotaTypeOK
<1>3. ASSUME NEW r \in Request, keep(r) PROVE CountsExactly' /\ QuotaTypeOK'
  <2>1. /\ UNCHANGED <<used, due, window, born>> /\ phase[r] = "reserved"
        /\ phase' = [phase EXCEPT ![r] = "kept"]
    BY <1>3 DEF keep, Phase
  <2>2. Charged' = Charged
    BY <2>1 DEF Charged, QuotaTypeOK
  <2>3. \A d \in Dimension : ChargedNow(d)' = ChargedNow(d)
    BY <2>1, <2>2, SameSums
  <2>4. CountsExactly'
    BY <2>1, <2>2, <2>3 DEF CountsExactly
  <2> QED BY <2>1, <2>4 DEF QuotaTypeOK
<1>4. ASSUME NEW r \in Request, release(r) PROVE CountsExactly' /\ QuotaTypeOK'
  <2>1. /\ {} \in SUBSET due
        /\ used' = [d \in Dimension |->
                      Less(IF d \in {} THEN 0 ELSE used[d], amount[r][d])]
        /\ due' = due \ {} /\ phase[r] = "reserved"
        /\ phase' = [phase EXCEPT ![r] = "refunded"] /\ UNCHANGED <<window, born>>
    BY <1>4 DEF release, Phase
  <2> QED BY <2>1, ReleaseCounts
<1> QED BY <1>1, <1>2, <1>3, <1>4, WindowCounts DEF QuotaNext

-----------------------------------------------------------------------------
\* What a transaction that goes through has read.
LEMMA CommittedRead ==
    ASSUME QuotaInv, NEW r \in Request, Operating(r), Unchanged(r)
    PROVE  /\ op[r].due \in SUBSET due
           /\ \A d \in Dimension :
                 Read(r, d) = IF d \in op[r].due THEN 0 ELSE used[d]
BY DEF QuotaInv, ReadsHold, Read

\* Only more windows can end while an operation is on its way.
LEMMA ReadsKept ==
    ASSUME QuotaInv, \A x \in Request : op'[x] = op[x] \/ op'[x] = Idle,
           \/ version' = version + 1
           \/ version' = version /\ used' = used /\ due \subseteq due',
           UNCHANGED backend
    PROVE  ReadsHold'
<1>1. version \in Nat /\ \A x \in Request : op[x].version \in Nat /\ op[x].version <= version
  BY DEF QuotaInv, ReadsHold, QuotaTypes, Reading
<1>2. Idle.step = "idle" /\ Idle.version = 0
  BY DEF Idle
<1>3. \A x \in Request : op'[x].version <= version'
  BY <1>1, <1>2
<1>4. \A x \in Request : Operating(x)' => Operating(x) /\ op'[x] = op[x]
  BY <1>2 DEF Operating
<1>5. ASSUME NEW x \in Request, Operating(x)', Unchanged(x)'
      PROVE  op'[x].used = used' /\ op'[x].due \subseteq due'
  <2>1. Operating(x) /\ op'[x] = op[x] /\ op[x].version = version'
    BY <1>4, <1>5 DEF Unchanged
  <2>2. version' = version /\ used' = used /\ due \subseteq due'
    BY <2>1, <1>1
  <2> QED BY <2>1, <2>2 DEF QuotaInv, ReadsHold, Unchanged
<1>6. backend' = "memory" => \A x \in Request : ~Operating(x)'
  BY <1>4 DEF QuotaInv, ReadsHold
<1> QED BY <1>3, <1>5, <1>6 DEF ReadsHold

\* The steps of the Redis manager.
LEMMA RedisStep ==
    ASSUME QuotaInv, RedisNext, backend = "redis", UNCHANGED backend
    PROVE  QuotaInv'
<1>0. QuotaTypeOK /\ CountsExactly /\ op \in [Request -> Reading] /\ version \in Nat
  BY DEF QuotaInv, QuotaTypes
<1>00. Idle \in Reading
  BY DEF Idle, Reading
<1>1. ASSUME NEW r \in Request, Watch(r) PROVE QuotaInv'
  <2>1. /\ UNCHANGED <<used, due, phase, window, born, version>>
        /\ op' = [op EXCEPT ![r] = [step |-> "read", version |-> version,
                                    used |-> used, due |-> due]]
    BY <1>1 DEF Watch, quotaVars
  <2>2. [step |-> "read", version |-> version, used |-> used, due |-> due] \in Reading
    BY <1>0 DEF Reading, QuotaTypeOK
  <2>3. QuotaTypes'
    BY <1>0, <2>1, <2>2 DEF QuotaTypes, QuotaTypeOK
  <2>4. Charged' = Charged /\ \A d \in Dimension : ChargedNow(d)' = ChargedNow(d)
    BY <2>1 DEF Charged, ChargedNow
  <2>5. CountsExactly'
    BY <1>0, <2>1, <2>4 DEF CountsExactly
  <2>6. \A x \in Request \ {r} : op'[x] = op[x]
    BY <1>0, <2>1
  <2>7. op'[r] = [step |-> "read", version |-> version, used |-> used, due |-> due]
    BY <1>0, <2>1
  <2>8. /\ op'[r].version = version' /\ op'[r].used = used' /\ op'[r].due = due'
    BY <2>1, <2>7
  <2>9. ReadsHold'
    BY <1>0, <2>1, <2>6, <2>8 DEF QuotaInv, ReadsHold, Operating, Unchanged
  <2> QED BY <2>3, <2>5, <2>9 DEF QuotaInv
<1>2. ASSUME NEW r \in Request, CommitReserve(r) PROVE QuotaInv'
  <2>1. Operating(r) /\ Unchanged(r)
    BY <1>2 DEF CommitReserve
  <2>2. /\ op[r].due \in SUBSET due
        /\ \A d \in Dimension : Read(r, d) = IF d \in op[r].due THEN 0 ELSE used[d]
    BY <2>1, CommittedRead
  <2>3. /\ \A d \in Dimension :
              (IF d \in op[r].due THEN 0 ELSE used[d]) + amount[r][d] <= limit[d]
        /\ used' = [d \in Dimension |->
                      (IF d \in op[r].due THEN 0 ELSE used[d]) + amount[r][d]]
        /\ due' = due \ op[r].due /\ phase[r] = "new"
        /\ phase' = [phase EXCEPT ![r] = "reserved"]
        /\ born' = [born EXCEPT ![r] = window] /\ UNCHANGED window
    BY <1>2, <2>2 DEF CommitReserve, ReadFits, Phase
  <2>4. CountsExactly' /\ QuotaTypeOK'
    BY <1>0, <2>2, <2>3, ReserveCounts
  <2>5. op' = [op EXCEPT ![r] = Idle] /\ version' = version + 1
    BY <1>2 DEF CommitReserve, Finish, Written
  <2>6. QuotaTypes'
    BY <1>0, <1>00, <2>4, <2>5 DEF QuotaTypes
  <2>7. ReadsHold'
    BY <1>0, <2>5, ReadsKept
  <2> QED BY <2>4, <2>6, <2>7 DEF QuotaInv
<1>3. ASSUME NEW r \in Request, RefuseRead(r) PROVE QuotaInv'
  <2>1. /\ UNCHANGED <<used, due, window, born, version>> /\ phase[r] = "new"
        /\ phase' = [phase EXCEPT ![r] = "refused"] /\ op' = [op EXCEPT ![r] = Idle]
    BY <1>3 DEF RefuseRead, Phase, Finish
  <2>2. Charged' = Charged
    BY <1>0, <2>1 DEF Charged, QuotaTypeOK
  <2>3. \A d \in Dimension : ChargedNow(d)' = ChargedNow(d)
    BY <2>1, <2>2, SameSums
  <2>4. CountsExactly'
    BY <1>0, <2>1, <2>2, <2>3 DEF CountsExactly
  <2>5. QuotaTypes'
    BY <1>0, <1>00, <2>1 DEF QuotaTypes, QuotaTypeOK
  <2>6. ReadsHold'
    BY <1>0, <2>1, ReadsKept
  <2> QED BY <2>4, <2>5, <2>6 DEF QuotaInv
<1>4. ASSUME NEW r \in Request, CommitRelease(r) PROVE QuotaInv'
  <2>1. Operating(r) /\ Unchanged(r)
    BY <1>4 DEF CommitRelease
  <2>2. /\ op[r].due \in SUBSET due
        /\ \A d \in Dimension : Read(r, d) = IF d \in op[r].due THEN 0 ELSE used[d]
    BY <2>1, CommittedRead
  <2>3. /\ used' = [d \in Dimension |->
                      Less(IF d \in op[r].due THEN 0 ELSE used[d], amount[r][d])]
        /\ due' = due \ op[r].due /\ phase[r] = "reserved"
        /\ phase' = [phase EXCEPT ![r] = "refunded"] /\ UNCHANGED <<window, born>>
    BY <1>4, <2>2 DEF CommitRelease, Phase
  <2>4. CountsExactly' /\ QuotaTypeOK'
    BY <1>0, <2>2, <2>3, ReleaseCounts
  <2>5. op' = [op EXCEPT ![r] = Idle] /\ version' = version + 1
    BY <1>4 DEF CommitRelease, Finish, Written
  <2>6. QuotaTypes'
    BY <1>0, <1>00, <2>4, <2>5 DEF QuotaTypes
  <2>7. ReadsHold'
    BY <1>0, <2>5, ReadsKept
  <2> QED BY <2>4, <2>6, <2>7 DEF QuotaInv
<1>5. ASSUME NEW r \in Request, Retry(r) PROVE QuotaInv'
  <2>1. /\ UNCHANGED <<used, due, phase, window, born, version>>
        /\ op' = [op EXCEPT ![r] = Idle]
    BY <1>5 DEF Retry, Finish, quotaVars
  <2>2. Charged' = Charged /\ \A d \in Dimension : ChargedNow(d)' = ChargedNow(d)
    BY <2>1 DEF Charged, ChargedNow
  <2>3. CountsExactly'
    BY <1>0, <2>1, <2>2 DEF CountsExactly
  <2>4. QuotaTypes'
    BY <1>0, <1>00, <2>1 DEF QuotaTypes, QuotaTypeOK
  <2>5. ReadsHold'
    BY <1>0, <2>1, ReadsKept
  <2> QED BY <2>3, <2>4, <2>5 DEF QuotaInv
<1>6. ASSUME NEW r \in Request, RedisKeep(r) PROVE QuotaInv'
  <2>1. keep(r) /\ UNCHANGED <<version, op>>
    BY <1>6 DEF RedisKeep
  <2>2. CountsExactly' /\ QuotaTypeOK'
    BY <1>0, <2>1, MemoryStep DEF QuotaNext
  <2>3. used' = used /\ due' = due
    BY <2>1 DEF keep
  <2>4. ReadsHold'
    BY <2>1, <2>3, ReadsKept
  <2> QED BY <1>0, <2>1, <2>2, <2>4 DEF QuotaInv, QuotaTypes
<1>7. ASSUME NEW d \in Dimension, RedisWindowEnds(d) PROVE QuotaInv'
  <2>1. WindowEnds(d) /\ UNCHANGED <<version, op>>
    BY <1>7 DEF RedisWindowEnds
  <2>2. CountsExactly' /\ QuotaTypeOK'
    BY <1>0, <2>1, WindowCounts
  <2>3. used' = used /\ due \subseteq due'
    BY <2>1 DEF WindowEnds
  <2>4. ReadsHold'
    BY <2>1, <2>3, ReadsKept
  <2> QED BY <1>0, <2>1, <2>2, <2>4 DEF QuotaInv, QuotaTypes
<1> QED BY <1>1, <1>2, <1>3, <1>4, <1>5, <1>6, <1>7 DEF RedisNext, Operate

\* Every step of the memory manager and of the Redis workers keeps the counts.
LEMMA QuotaStep == QuotaInv /\ [AllNext]_allVars => QuotaInv'
<1> SUFFICES ASSUME QuotaInv, [AllNext]_allVars PROVE QuotaInv'
  OBVIOUS
<1>0. QuotaTypeOK /\ CountsExactly /\ op \in [Request -> Reading] /\ version \in Nat
  BY DEF QuotaInv, QuotaTypes
<1>1. CASE backend = "memory" /\ QuotaNext /\ UNCHANGED redis /\ UNCHANGED backend
  <2>1. CountsExactly' /\ QuotaTypeOK'
    BY <1>0, <1>1, MemoryStep
  <2>2. version' = version /\ op' = op /\ backend' = "memory"
    BY <1>1 DEF redis
  <2>3. ReadsHold'
    BY <1>1, <2>2 DEF QuotaInv, ReadsHold, Operating
  <2> QED BY <1>0, <2>1, <2>2, <2>3 DEF QuotaInv, QuotaTypes
<1>2. CASE backend = "redis" /\ RedisNext /\ UNCHANGED backend
  BY <1>2, RedisStep
<1>3. CASE UNCHANGED allVars
  <2>1. UNCHANGED <<used, due, phase, window, born, version, op, backend>>
    BY <1>3 DEF allVars, quotaVars, redis
  <2>2. Charged' = Charged /\ \A d \in Dimension : ChargedNow(d)' = ChargedNow(d)
    BY <2>1 DEF Charged, ChargedNow
  <2>3. CountsExactly'
    BY <1>0, <2>1, <2>2 DEF CountsExactly
  <2>4. ReadsHold'
    BY <2>1 DEF QuotaInv, ReadsHold, Operating, Unchanged
  <2> QED BY <1>0, <2>1, <2>3, <2>4 DEF QuotaInv, QuotaTypes, QuotaTypeOK
<1> QED BY <1>1, <1>2, <1>3 DEF AllNext

\* Nothing is counted at the start.
LEMMA QuotaInitially == AllInit => QuotaInv
<1> SUFFICES ASSUME AllInit PROVE QuotaInv
  OBVIOUS
<1>1. /\ used = [d \in Dimension |-> 0] /\ due = {}
      /\ phase = [r \in Request |-> "new"]
      /\ window = [d \in Dimension |-> 0]
      /\ born = [r \in Request |-> [d \in Dimension |-> 0]]
      /\ version = 0 /\ op = [r \in Request |-> Idle]
  BY DEF AllInit, QuotaInit
<1>2. QuotaTypes
  BY <1>1, QuotaAssumption DEF QuotaTypes, QuotaTypeOK, Reading, Idle
<1>3. Charged = {} /\ \A d \in Dimension : ChargedNow(d) = {}
  BY <1>1 DEF Charged, ChargedNow
<1>4. \A d \in Dimension : Total({}, d) = 0 /\ limit[d] \in Nat
  BY TotalFacts, QuotaAssumption
<1>5. CountsExactly
  BY <1>1, <1>3, <1>4 DEF CountsExactly
<1>6. ReadsHold
  BY <1>1 DEF ReadsHold, Operating, Idle
<1> QED BY <1>2, <1>5, <1>6 DEF QuotaInv

\* For any requests, estimates, limits and windows, in memory and in Redis with
\* any number of processes, a counter without a window counts exactly the
\* reservations that stand, one with a window never more than was reserved in
\* it, and none passes its limit.
THEOREM QuotaCounts == AllSpec => []CountsExactly
<1>1. QuotaInv => CountsExactly
  BY DEF QuotaInv
<1> QED BY <1>1, QuotaInitially, QuotaStep, PTL DEF AllSpec

\* The state of the quota managers keeps its shape: in particular a refund
\* never takes a counter below zero.
THEOREM QuotaTypeCorrect == AllSpec => []QuotaTypeOK
<1>1. QuotaInv => QuotaTypeOK
  BY DEF QuotaInv, QuotaTypes
<1> QED BY <1>1, QuotaInitially, QuotaStep, PTL DEF AllSpec

-----------------------------------------------------------------------------
\* The load balancer.

\* A call reserves before it has a stage to come to, tries one candidate at a
\* time, and no stage of its plan is empty.
BalancerShape ==
    /\ inflight \in [Owner -> Nat] /\ planned \in [Owner -> Nat]
    /\ progress \in [Call -> {"new", "stage", "next", "trying", "done", "cancelled"}]
    /\ stages \in [Call -> Seq(Plans)]
    /\ tries \in [Call -> Seq(Owner)]
    /\ trying \in [Call -> Seq(Owner)]
    /\ \A q \in Call :
          /\ Len(stages[q]) <= MaxStages
          /\ progress[q] = "new" => stages[q] = <<>>
          /\ progress[q] \in {"new", "stage", "next"} => trying[q] = <<>>
          /\ progress[q] = "trying" => \E o \in Owner : trying[q] = <<o>>

BalancerInv == BalancerShape /\ MarksAccountedFor

\* A stage is a non-empty sequence of owners.
LEMMA PlanFacts ==
    ASSUME NEW p \in Plans
    PROVE  p \in Seq(Owner) /\ p # <<>> /\ p[1] \in Owner
<1>1. PICK n \in 1..Cardinality(Owner) : p \in [1..n -> Owner]
  BY DEF Plans
<1>2. Cardinality(Owner) \in Nat
  BY FS_CardinalityType, BalancerAssumption
<1>3. n \in Nat /\ n >= 1
  BY <1>1, <1>2
<1> QED BY <1>1, <1>3

\* Taking an element out of a finite set leaves one element less.
LEMMA RemoveOne ==
    ASSUME NEW S, IsFiniteSet(S), NEW x
    PROVE  /\ IsFiniteSet(S \ {x})
           /\ x \in S => Cardinality(S \ {x}) = Cardinality(S) - 1
           /\ x \notin S => S \ {x} = S
<1>1. x \notin S => S \ {x} = S
  OBVIOUS
<1> QED BY <1>1, FS_RemoveElement

\* The sets the marks are counted against are finite.
LEMMA MarksFinite ==
    ASSUME NEW o
    PROVE  /\ IsFiniteSet(Reserved(o)) /\ Cardinality(Reserved(o)) \in Nat
           /\ IsFiniteSet(Attempts(o)) /\ Cardinality(Attempts(o)) \in Nat
<1>1. IsFiniteSet(Call \ ExactModel) /\ IsFiniteSet(1..MaxStages)
  BY BalancerAssumption, FS_Subset, FS_Interval, 1 \in Int, MaxStages \in Int
<1>2. IsFiniteSet((Call \ ExactModel) \X (1..MaxStages))
  BY <1>1, FS_Product
<1>3. Reserved(o) \subseteq (Call \ ExactModel) \X (1..MaxStages)
  BY DEF Reserved
<1>4. Attempts(o) \subseteq Call
  BY DEF Attempts
<1> QED BY <1>2, <1>3, <1>4, FS_Subset, FS_CardinalityType, BalancerAssumption

\* mark_planned_end and mark_inflight_end take at most one mark away, and from
\* one owner only.
LEMMA DownFacts ==
    ASSUME NEW f \in [Owner -> Nat], NEW o \in Owner
    PROVE  /\ Down(f, o) \in [Owner -> Nat]
           /\ \A p \in Owner : Down(f, o)[p] <= f[p]
           /\ \A p \in Owner \ {o} : Down(f, o)[p] = f[p]
           /\ \A n \in Nat : f[o] <= n + 1 => Down(f, o)[o] <= n
BY DEF Down

\* A plan's reservations are those of its stages.
LEMMA PlanReserves ==
    ASSUME BalancerInv, NEW q \in Call, Plan(q), NEW o \in Owner
    PROVE  planned'[o] <= Cardinality(Reserved(o)')
<1>0. PICK n \in 1..MaxStages : \E p \in [1..n -> Plans] :
         /\ stages' = [stages EXCEPT ![q] = p]
         /\ planned' = [x \in Owner |-> planned[x] + Tops(p)[x]]
  BY DEF Plan
<1>1. PICK p \in [1..n -> Plans] :
         /\ stages' = [stages EXCEPT ![q] = p]
         /\ planned' = [x \in Owner |-> planned[x] + Tops(p)[x]]
  BY <1>0
<1> DEFINE T == {i \in 1..n : p[i][1] = o}
           A == {q} \X T
<1>2. n \in Nat /\ n >= 1 /\ n <= MaxStages /\ DOMAIN p = 1..n
  BY <1>1, BalancerAssumption
<1>3. Tops(p)[o] = Cardinality(T)
  BY <1>2 DEF Tops
<1>4. IsFiniteSet(T) /\ Cardinality(T) \in Nat
  <2>1. T \subseteq 1..n /\ IsFiniteSet(1..n)
    BY <1>2, FS_Interval
  <2> HIDE DEF T
  <2> QED BY <2>1, FS_Subset, FS_CardinalityType
<1>5. IsFiniteSet(A) /\ Cardinality(A) = Cardinality(T)
  <2>1. IsFiniteSet({q}) /\ Cardinality({q}) = 1
    BY FS_Singleton
  <2> HIDE DEF T
  <2>2. IsFiniteSet({q} \X T) /\ Cardinality({q} \X T) = 1 * Cardinality(T)
    BY <2>1, <1>4, FS_Product
  <2> QED BY <2>2, <1>4
<1>6. stages[q] = <<>> /\ q \notin ExactModel /\ stages \in [Call -> Seq(Plans)]
  BY DEF BalancerInv, BalancerShape, Plan
<1>7. Reserved(o) \cap A = {}
  BY <1>6 DEF Reserved
<1>8. Reserved(o) \cup A \subseteq Reserved(o)'
  <2>1. ASSUME NEW x \in Reserved(o) PROVE x \in Reserved(o)'
    <3>1. /\ x \in (Call \ ExactModel) \X (1..MaxStages)
          /\ x[2] \in DOMAIN stages[x[1]] /\ stages[x[1]][x[2]][1] = o
      BY DEF Reserved
    <3>2. x[1] # q
      BY <3>1, <1>6
    <3>3. stages'[x[1]] = stages[x[1]]
      BY <3>1, <3>2, <1>1, <1>6
    <3> QED BY <3>1, <3>3 DEF Reserved
  <2>2. ASSUME NEW x \in A PROVE x \in Reserved(o)'
    <3>1. x[1] = q /\ x[2] \in 1..n /\ p[x[2]][1] = o /\ x = <<x[1], x[2]>>
      OBVIOUS
    <3>2. stages'[q] = p
      BY <1>1, <1>6
    <3>3. x \in (Call \ ExactModel) \X (1..MaxStages)
      BY <3>1, <1>6, <1>2, BalancerAssumption
    <3> QED BY <3>1, <3>2, <3>3, <1>2 DEF Reserved
  <2> QED BY <2>1, <2>2
<1>9. IsFiniteSet(Reserved(o)') /\ Cardinality(Reserved(o)') \in Nat
  <2>1. Reserved(o)' \subseteq (Call \ ExactModel) \X (1..MaxStages)
    BY DEF Reserved
  <2>2. IsFiniteSet(Call \ ExactModel) /\ IsFiniteSet(1..MaxStages)
    BY BalancerAssumption, FS_Subset, FS_Interval, 1 \in Int, MaxStages \in Int
  <2> QED BY <2>1, <2>2, FS_Product, FS_Subset, FS_CardinalityType
<1>10. /\ IsFiniteSet(Reserved(o) \cup A)
       /\ Cardinality(Reserved(o) \cup A) = Cardinality(Reserved(o)) + Cardinality(A)
  <2>1. Cardinality(Reserved(o) \cap A) = 0
    BY <1>7, FS_EmptySet
  <2> HIDE DEF A
  <2>2. IsFiniteSet(A) /\ Cardinality(A) \in Nat
    BY <1>4, <1>5 DEF A
  <2>3. IsFiniteSet(Reserved(o)) /\ Cardinality(Reserved(o)) \in Nat
    BY MarksFinite
  <2>4. /\ IsFiniteSet(Reserved(o) \cup A)
        /\ Cardinality(Reserved(o) \cup A) =
              Cardinality(Reserved(o)) + Cardinality(A) - Cardinality(Reserved(o) \cap A)
    BY <2>2, <2>3, FS_Union
  <2> QED BY <2>1, <2>2, <2>3, <2>4
<1>11. Cardinality(Reserved(o)) + Cardinality(T) <= Cardinality(Reserved(o)')
  BY <1>5, <1>8, <1>9, <1>10, FS_Subset
<1>12. planned[o] <= Cardinality(Reserved(o)) /\ planned[o] \in Nat
  BY DEF BalancerInv, BalancerShape, MarksAccountedFor
<1>13. planned'[o] = planned[o] + Cardinality(T)
  BY <1>1, <1>3
<1> HIDE DEF T
<1> QED BY <1>4, <1>9, <1>11, <1>12, <1>13, MarksFinite

\* Coming to a stage takes its reservation, and only that one, out of those
\* that stand.
LEMMA StageReserves ==
    ASSUME BalancerInv, NEW q \in Call, StartStage(q), NEW o \in Owner
    PROVE  planned'[o] <= Cardinality(Reserved(o)')
<1> DEFINE top == Head(stages[q])[1]
           A == Reserved(o) \ {<<q, 1>>}
           B == Reserved(o)'
           f == [x \in A |-> IF x[1] = q THEN <<q, x[2] - 1>> ELSE x]
<1>1. /\ stages \in [Call -> Seq(Plans)] /\ stages[q] # <<>> /\ planned \in [Owner -> Nat]
      /\ planned' = Down(planned, top)
      /\ stages' = [stages EXCEPT ![q] = Tail(stages[q])]
  BY DEF BalancerInv, BalancerShape, StartStage
<1>2. /\ stages[q] \in Seq(Plans) /\ Len(stages[q]) \in Nat /\ Len(stages[q]) >= 1
      /\ Head(stages[q]) = stages[q][1] /\ stages[q][1] \in Plans
      /\ stages'[q] = Tail(stages[q])
      /\ DOMAIN stages[q] = 1..Len(stages[q])
      /\ DOMAIN stages'[q] = 1..(Len(stages[q]) - 1)
      /\ \A i \in 1..(Len(stages[q]) - 1) : stages'[q][i] = stages[q][i + 1]
  BY <1>1
<1>3. top \in Owner /\ top = stages[q][1][1]
  BY <1>2, PlanFacts
<1>4. \A x \in A : /\ x \in (Call \ ExactModel) \X (1..MaxStages)
                   /\ x = <<x[1], x[2]>> /\ x[1] \in Call \ ExactModel
                   /\ x[2] \in Nat /\ x[2] <= MaxStages /\ x[2] >= 1
                   /\ x[2] \in DOMAIN stages[x[1]] /\ stages[x[1]][x[2]][1] = o
                   /\ x[1] = q => x[2] # 1
  BY BalancerAssumption DEF Reserved
<1>5. ASSUME NEW x \in A PROVE f[x] \in B
  <2>1. CASE x[1] = q
    <3>1. x[2] - 1 \in 1..(Len(stages[q]) - 1)
      BY <1>2, <1>4, <2>1
    <3>2. f[x] = <<q, x[2] - 1>>
      BY <2>1
    <3>3. stages'[q][x[2] - 1] = stages[q][x[2]]
      BY <3>1, <1>2, <1>4
    <3>4. <<q, x[2] - 1>> \in (Call \ ExactModel) \X (1..MaxStages)
      BY <1>4, <2>1, <3>1, <1>2, BalancerAssumption
    <3> QED BY <3>1, <3>2, <3>3, <3>4, <1>2, <1>4, <2>1 DEF Reserved
  <2>2. CASE x[1] # q
    <3>1. stages'[x[1]] = stages[x[1]]
      BY <1>1, <1>4, <2>2
    <3>2. f[x] = x
      BY <2>2
    <3> QED BY <3>1, <3>2, <1>4 DEF Reserved
  <2> QED BY <2>1, <2>2
<1>6. \A x, y \in A : f[x] = f[y] => x = y
  <2> SUFFICES ASSUME NEW x \in A, NEW y \in A, f[x] = f[y] PROVE x = y
    OBVIOUS
  <2>0. f[x] = (IF x[1] = q THEN <<q, x[2] - 1>> ELSE x) /\ f[y] = (IF y[1] = q THEN <<q, y[2] - 1>> ELSE y)
    OBVIOUS
  <2>1. x = <<x[1], x[2]>> /\ y = <<y[1], y[2]>> /\ x[2] \in Nat /\ y[2] \in Nat
    BY <1>4
  <2> HIDE DEF f, A
  <2>2. CASE x[1] = q /\ y[1] = q
    <3>1. <<q, x[2] - 1>> = <<q, y[2] - 1>>
      BY <2>0, <2>2
    <3>2. x[2] - 1 = y[2] - 1
      BY <3>1
    <3> QED BY <3>2, <2>1, <2>2
  <2>3. CASE x[1] # q /\ y[1] # q
    BY <2>0, <2>3
  <2>4. CASE x[1] = q /\ y[1] # q
    <3>1. y = <<q, x[2] - 1>>
      BY <2>0, <2>4
    <3>2. y[1] = q
      BY <3>1
    <3> QED BY <3>2, <2>4
  <2>5. CASE x[1] # q /\ y[1] = q
    <3>1. x = <<q, y[2] - 1>>
      BY <2>0, <2>5
    <3>2. x[1] = q
      BY <3>1
    <3> QED BY <3>2, <2>5
  <2> QED BY <2>2, <2>3, <2>4, <2>5
<1>7. IsFiniteSet(B) /\ Cardinality(B) \in Nat
  <2>1. B \subseteq (Call \ ExactModel) \X (1..MaxStages)
    BY DEF Reserved
  <2>2. IsFiniteSet(Call \ ExactModel) /\ IsFiniteSet(1..MaxStages)
    BY BalancerAssumption, FS_Subset, FS_Interval, 1 \in Int, MaxStages \in Int
  <2> HIDE DEF B
  <2> QED BY <2>1, <2>2, FS_Product, FS_Subset, FS_CardinalityType
<1>8. IsFiniteSet(A) /\ Cardinality(A) \in Nat /\ Cardinality(A) <= Cardinality(B)
  <2>1. f \in [A -> B]
    BY <1>5
  <2>2. f \in Injection(A, B)
    BY <2>1, <1>6 DEF Injection, IsInjective
  <2> HIDE DEF f
  <2> QED BY <2>2, <1>7, FS_Injection, FS_CardinalityType
<1>9. /\ <<q, 1>> \notin Reserved(o) => A = Reserved(o)
      /\ <<q, 1>> \in Reserved(o) => Cardinality(A) = Cardinality(Reserved(o)) - 1
  <2>1. IsFiniteSet(Reserved(o))
    BY MarksFinite
  <2> QED BY <2>1, RemoveOne
<1>10. planned[o] <= Cardinality(Reserved(o)) /\ planned[o] \in Nat
  BY DEF BalancerInv, BalancerShape, MarksAccountedFor
<1>11. <<q, 1>> \in Reserved(o) => o = top
  BY <1>2, <1>3 DEF Reserved
<1>12. /\ Down(planned, top)[o] <= planned[o]
       /\ o = top => \A n \in Nat : planned[o] <= n + 1 => Down(planned, top)[o] <= n
       /\ Down(planned, top)[o] \in Nat
  BY <1>1, <1>3, DownFacts
<1> HIDE DEF A, B, f, top
<1>13. CASE <<q, 1>> \in Reserved(o)
  <2>1. planned[o] <= Cardinality(A) + 1
    BY <1>8, <1>9, <1>10, <1>13, MarksFinite
  <2>2. planned'[o] <= Cardinality(A)
    BY <2>1, <1>1, <1>8, <1>11, <1>12, <1>13
  <2> QED BY <2>2, <1>1, <1>7, <1>8, <1>12 DEF B
<1>14. CASE <<q, 1>> \notin Reserved(o)
  BY <1>1, <1>7, <1>8, <1>9, <1>10, <1>12, <1>14 DEF B
<1> QED BY <1>13, <1>14

\* An attempt begins on an owner: its in-flight mark is that of the call.
LEMMA TryMarks ==
    ASSUME BalancerInv, NEW q \in Call, Try(q), NEW o \in Owner
    PROVE  inflight'[o] <= Cardinality(Attempts(o)')
<1> DEFINE h == Head(tries[q])
<1>1. /\ inflight \in [Owner -> Nat] /\ inflight' = [inflight EXCEPT ![h] = @ + 1]
      /\ trying \in [Call -> Seq(Owner)] /\ trying[q] = <<>>
      /\ trying' = [trying EXCEPT ![q] = <<h>>]
      /\ tries[q] \in Seq(Owner) /\ tries[q] # <<>>
  BY DEF BalancerInv, BalancerShape, Try
<1>0. h \in Owner
  BY <1>1
<1>5. inflight[o] <= Cardinality(Attempts(o))
  BY DEF BalancerInv, MarksAccountedFor
<1>2. IsFiniteSet(Attempts(o)) /\ Cardinality(Attempts(o)) \in Nat
  BY MarksFinite
<1> HIDE DEF h
<1>6. /\ \A x \in Call \ {q} : trying'[x] = trying[x]
      /\ trying'[q] = <<h>> /\ trying[q] # <<o>>
  BY <1>1
<1>3. CASE o = h
  <2>1. Attempts(o)' = Attempts(o) \cup {q} /\ q \notin Attempts(o)
    BY <1>6, <1>3 DEF Attempts
  <2>2. Cardinality(Attempts(o)') = Cardinality(Attempts(o)) + 1
    BY <1>2, <2>1, FS_AddElement
  <2> QED BY <1>0, <1>1, <1>2, <1>3, <1>5, <2>2
<1>4. CASE o # h
  <2>2. trying'[q] # <<o>>
    BY <1>6, <1>4
  <2>1. Attempts(o)' = Attempts(o)
    BY <1>6, <2>2 DEF Attempts
  <2> QED BY <1>0, <1>1, <1>4, <1>5, <2>1
<1> QED BY <1>3, <1>4

\* An attempt ends: its mark goes, and of the other owners none.
LEMMA EndMarks ==
    ASSUME BalancerInv, NEW q \in Call, progress[q] = "trying",
           \/ inflight' = Down(inflight, trying[q][1])
           \/ inflight' = Down(Down(inflight, trying[q][1]), trying[q][1]),
           trying' = [trying EXCEPT ![q] = <<>>]
    PROVE  /\ inflight' \in [Owner -> Nat]
           /\ \A o \in Owner : inflight'[o] <= Cardinality(Attempts(o)')
<1>1. PICK p \in Owner : trying[q] = <<p>>
  BY DEF BalancerInv, BalancerShape
<1>2. /\ inflight \in [Owner -> Nat] /\ trying \in [Call -> Seq(Owner)]
      /\ \A o \in Owner : inflight[o] <= Cardinality(Attempts(o))
  BY DEF BalancerInv, BalancerShape, MarksAccountedFor
<1> DEFINE once == Down(inflight, p)
<1>3. /\ once \in [Owner -> Nat]
      /\ \A o \in Owner : once[o] <= inflight[o]
      /\ \A n \in Nat : inflight[p] <= n + 1 => once[p] <= n
  BY <1>2, DownFacts
<1> HIDE DEF once
<1>4. Down(once, p) \in [Owner -> Nat] /\ \A o \in Owner : Down(once, p)[o] <= once[o]
  BY <1>3, DownFacts
<1>5. /\ inflight' \in [Owner -> Nat]
      /\ \A o \in Owner : inflight'[o] <= once[o]
  <2>1. inflight' = once \/ inflight' = Down(once, p)
    BY <1>1 DEF once
  <2> QED BY <2>1, <1>3, <1>4
<1>6. ASSUME NEW o \in Owner PROVE inflight'[o] <= Cardinality(Attempts(o)')
  <2>1. IsFiniteSet(Attempts(o)) /\ Cardinality(Attempts(o)) \in Nat
    BY MarksFinite
  <2>2. CASE o = p
    <3>1. Attempts(o)' = Attempts(o) \ {q} /\ q \in Attempts(o)
      BY <1>1, <1>2, <2>2 DEF Attempts
    <3>2. /\ IsFiniteSet(Attempts(o) \ {q})
          /\ Cardinality(Attempts(o) \ {q}) = Cardinality(Attempts(o)) - 1
      BY <2>1, <3>1, RemoveOne
    <3>5. /\ Cardinality(Attempts(o)') = Cardinality(Attempts(o)) - 1
          /\ Cardinality(Attempts(o)') \in Nat
      BY <3>1, <3>2, FS_CardinalityType
    <3>3. inflight[p] <= Cardinality(Attempts(o)') + 1
      BY <1>2, <2>1, <2>2, <3>5
    <3>4. once[p] <= Cardinality(Attempts(o)')
      BY <1>3, <3>5, <3>3
    <3> QED BY <3>5, <3>4, <1>3, <1>5, <2>2
  <2>3. CASE o # p
    <3>2. \A x \in Call \ {q} : trying'[x] = trying[x]
      BY <1>2
    <3>3. trying[q] # <<o>> /\ trying'[q] # <<o>>
      BY <1>1, <1>2, <2>3
    <3>1. Attempts(o)' = Attempts(o)
      BY <3>2, <3>3 DEF Attempts
    <3> QED BY <3>1, <1>2, <1>3, <1>5, <2>1
  <2> QED BY <2>2, <2>3
<1> QED BY <1>5, <1>6

\* What is left of a sequence of plans, or of owners, is one.
LEMMA TailFacts ==
    ASSUME NEW S, NEW s \in Seq(S), s # <<>>
    PROVE  Tail(s) \in Seq(S) /\ Len(Tail(s)) <= Len(s) /\ Head(s) \in S
OBVIOUS

\* The marks nobody touches are counted against the same sets.
LEMMA SameMarks ==
    ASSUME BalancerInv
    PROVE  /\ (UNCHANGED <<planned, stages>>) =>
                 \A o \in Owner : planned'[o] <= Cardinality(Reserved(o)')
           /\ (UNCHANGED <<inflight, trying>>) =>
                 \A o \in Owner : inflight'[o] <= Cardinality(Attempts(o)')
<1>1. (UNCHANGED stages) => \A o \in Owner : Reserved(o)' = Reserved(o)
  BY DEF Reserved
<1>2. (UNCHANGED trying) => \A o \in Owner : Attempts(o)' = Attempts(o)
  BY DEF Attempts
<1>3. \A o \in Owner : /\ planned[o] <= Cardinality(Reserved(o))
                       /\ inflight[o] <= Cardinality(Attempts(o))
  BY DEF BalancerInv, BalancerShape, MarksAccountedFor
<1> QED BY <1>1, <1>2, <1>3

\* The shape is kept by every step.
LEMMA ShapeStep ==
    ASSUME BalancerInv, BalancerNext
    PROVE  BalancerShape'
<1>0. BalancerShape
  BY DEF BalancerInv
<1> PICK q \in Call :
    \/ Plan(q) \/ PlanExact(q)
    \/ StartStage(q) \/ Try(q) \/ Skip(q)
    \/ \E ok \in BOOLEAN : TryEnds(q, ok)
    \/ UsageFails(q) \/ Cancel(q)
    \/ StageExhausted(q) \/ GiveUp(q)
  BY DEF BalancerNext
<1>1. CASE Plan(q)
  <2>1. PICK n \in 1..MaxStages : \E p \in [1..n -> Plans] :
           /\ stages' = [stages EXCEPT ![q] = p]
           /\ planned' = [x \in Owner |-> planned[x] + Tops(p)[x]]
    BY <1>1 DEF Plan
  <2>2. PICK p \in [1..n -> Plans] :
           /\ stages' = [stages EXCEPT ![q] = p]
           /\ planned' = [x \in Owner |-> planned[x] + Tops(p)[x]]
    BY <2>1
  <2>3. n \in Nat /\ n <= MaxStages /\ p \in Seq(Plans) /\ Len(p) = n
    BY <2>2, BalancerAssumption
  <2>4. \A x \in Owner : Tops(p)[x] \in Nat
    <3> TAKE x \in Owner
    <3> DEFINE T == {i \in DOMAIN p : p[i][1] = x}
    <3>1. IsFiniteSet(1..n) /\ T \subseteq 1..n
      BY <2>2, <2>3, FS_Interval
    <3>2. Tops(p)[x] = Cardinality(T)
      BY DEF Tops
    <3> HIDE DEF T
    <3> QED BY <3>1, <3>2, FS_Subset, FS_CardinalityType
  <2>5. planned' \in [Owner -> Nat]
    BY <2>2, <2>4, <1>0 DEF BalancerShape
  <2>6. stages' \in [Call -> Seq(Plans)] /\ \A x \in Call : Len(stages'[x]) <= MaxStages
    BY <2>2, <2>3, <1>0 DEF BalancerShape
  <2>7. /\ UNCHANGED <<inflight, tries, trying>> /\ progress[q] = "new"
        /\ progress' = [progress EXCEPT ![q] = "stage"]
    BY <1>1 DEF Plan
  <2>8. \A x \in Call \ {q} : stages'[x] = stages[x]
    BY <2>2, <1>0 DEF BalancerShape
  <2> QED BY <2>5, <2>6, <2>7, <2>8, <1>0 DEF BalancerShape
<1>2. CASE PlanExact(q)
  <2>1. PICK o \in Owner : stages' = [stages EXCEPT ![q] = <<<<o>>>>]
    BY <1>2 DEF PlanExact
  <2>2. <<o>> \in Plans
    <3>1. Cardinality(Owner) \in Nat /\ Cardinality(Owner) # 0
      BY BalancerAssumption, FS_CardinalityType, FS_EmptySet
    <3>2. <<o>> \in [1..1 -> Owner] /\ 1 \in 1..Cardinality(Owner)
      BY <3>1
    <3> QED BY <3>2 DEF Plans
  <2>3. <<<<o>>>> \in Seq(Plans) /\ Len(<<<<o>>>>) = 1 /\ 1 <= MaxStages
    BY <2>2, BalancerAssumption
  <2>4. stages' \in [Call -> Seq(Plans)] /\ \A x \in Call : Len(stages'[x]) <= MaxStages
    BY <2>1, <2>3, <1>0 DEF BalancerShape
  <2>5. \A x \in Call \ {q} : stages'[x] = stages[x]
    BY <2>1, <1>0 DEF BalancerShape
  <2>6. /\ UNCHANGED <<inflight, planned, tries, trying>> /\ progress[q] = "new"
        /\ progress' = [progress EXCEPT ![q] = "stage"]
    BY <1>2 DEF PlanExact
  <2> QED BY <2>4, <2>5, <2>6, <1>0 DEF BalancerShape
<1>3. CASE StartStage(q)
  <2>1. /\ stages[q] \in Seq(Plans) /\ stages[q] # <<>>
        /\ stages \in [Call -> Seq(Plans)] /\ planned \in [Owner -> Nat]
        /\ tries \in [Call -> Seq(Owner)]
    BY <1>0, <1>3 DEF BalancerShape, StartStage
  <2>2. /\ Tail(stages[q]) \in Seq(Plans) /\ Len(Tail(stages[q])) <= Len(stages[q])
        /\ Head(stages[q]) \in Plans
    BY <2>1, TailFacts
  <2>3. Head(stages[q]) \in Seq(Owner) /\ Head(stages[q])[1] \in Owner
    BY <2>2, PlanFacts
  <2>4. planned' \in [Owner -> Nat]
    BY <2>1, <2>3, <1>3, DownFacts DEF StartStage
  <2>5. /\ stages' \in [Call -> Seq(Plans)]
        /\ \A x \in Call \ {q} : stages'[x] = stages[x]
        /\ stages'[q] = Tail(stages[q])
    BY <2>1, <2>2, <1>3 DEF StartStage
  <2>6. Len(stages'[q]) <= MaxStages
    BY <2>1, <2>2, <2>5, <1>0, BalancerAssumption DEF BalancerShape
  <2>7. tries' \in [Call -> Seq(Owner)]
    BY <2>1, <2>3, <1>3 DEF StartStage
  <2>8. /\ UNCHANGED <<inflight, trying>> /\ progress[q] = "stage"
        /\ progress' = [progress EXCEPT ![q] = "next"]
    BY <1>3 DEF StartStage
  <2> QED BY <2>4, <2>5, <2>6, <2>7, <2>8, <1>0 DEF BalancerShape
<1>4. CASE Try(q)
  <2>1. tries[q] \in Seq(Owner) /\ tries[q] # <<>>
    BY <1>0, <1>4 DEF BalancerShape, Try
  <2>2. Tail(tries[q]) \in Seq(Owner) /\ Head(tries[q]) \in Owner
    BY <2>1
  <2>8. /\ UNCHANGED <<planned, stages>>
        /\ inflight' = [inflight EXCEPT ![Head(tries[q])] = @ + 1]
    BY <1>4 DEF Try
  <2>9. inflight \in [Owner -> Nat]
    BY <1>0 DEF BalancerShape
  <2>5. inflight' \in [Owner -> Nat]
    BY <2>2, <2>8, <2>9
  <2>6. tries' \in [Call -> Seq(Owner)]
    BY <1>0, <1>4, <2>2 DEF BalancerShape, Try
  <2>7. <<Head(tries[q])>> \in Seq(Owner)
    BY <2>2
  <2>3. trying' \in [Call -> Seq(Owner)]
    BY <1>0, <1>4, <2>7 DEF BalancerShape, Try
  <2>4. /\ progress[q] = "next" /\ progress' = [progress EXCEPT ![q] = "trying"]
        /\ trying'[q] = <<Head(tries[q])>>
        /\ \A x \in Call \ {q} : trying'[x] = trying[x]
    BY <1>0, <1>4 DEF BalancerShape, Try
  <2> QED BY <1>0, <2>2, <2>3, <2>4, <2>5, <2>6, <2>8 DEF BalancerShape
<1>5. CASE Skip(q)
  <2>1. tries[q] \in Seq(Owner) /\ tries[q] # <<>>
    BY <1>0, <1>5 DEF BalancerShape, Skip
  <2>2. Tail(tries[q]) \in Seq(Owner)
    BY <2>1
  <2> QED BY <1>0, <1>5, <2>2 DEF BalancerShape, Skip
<1>6. CASE UsageFails(q) \/ \E ok \in BOOLEAN : TryEnds(q, ok)
  <2>1. inflight' \in [Owner -> Nat]
    BY <1>6, EndMarks DEF UsageFails, TryEnds
  <2>2. /\ UNCHANGED <<planned, stages, tries>> /\ progress[q] = "trying"
        /\ trying' = [trying EXCEPT ![q] = <<>>]
        /\ \E x \in {"done", "next"} : progress' = [progress EXCEPT ![q] = x]
    BY <1>6 DEF UsageFails, TryEnds
  <2> QED BY <1>0, <2>1, <2>2 DEF BalancerShape
<1>7. CASE Cancel(q)
  BY <1>0, <1>7 DEF BalancerShape, Cancel
<1>8. CASE StageExhausted(q)
  BY <1>0, <1>8 DEF BalancerShape, StageExhausted
<1>9. CASE GiveUp(q)
  BY <1>0, <1>9 DEF BalancerShape, GiveUp
<1> QED BY <1>1, <1>2, <1>3, <1>4, <1>5, <1>6, <1>7, <1>8, <1>9

\* No call has reserved at the start.
LEMMA BalancerInitially == BalancerInit => BalancerInv
<1> SUFFICES ASSUME BalancerInit PROVE BalancerInv
  OBVIOUS
<1>1. BalancerShape
  BY BalancerAssumption DEF BalancerInit, BalancerShape
<1>2. \A o \in Owner : /\ Cardinality(Reserved(o)) \in Nat
                       /\ Cardinality(Attempts(o)) \in Nat
  BY MarksFinite
<1>3. \A o \in Owner : planned[o] = 0 /\ inflight[o] = 0
  BY DEF BalancerInit
<1>4. MarksAccountedFor
  BY <1>2, <1>3 DEF MarksAccountedFor
<1> QED BY <1>1, <1>4 DEF BalancerInv

\* Every step of a call keeps what is counted within what calls account for.
LEMMA BalancerStep ==
    ASSUME BalancerInv, [BalancerNext]_balancerVars
    PROVE  BalancerInv'
<1>1. CASE UNCHANGED balancerVars
  <2>1. BalancerShape'
    BY <1>1 DEF BalancerInv, BalancerShape, balancerVars
  <2>2. \A o \in Owner : Reserved(o)' = Reserved(o)
    BY <1>1 DEF Reserved, balancerVars
  <2>3. \A o \in Owner : Attempts(o)' = Attempts(o)
    BY <1>1 DEF Attempts, balancerVars
  <2> QED BY <1>1, <2>1, <2>2, <2>3 DEF BalancerInv, MarksAccountedFor, balancerVars
<1>2. CASE BalancerNext
  <2>1. BalancerShape'
    BY <1>2, ShapeStep
  <2>2. PICK q \in Call :
      \/ Plan(q) \/ PlanExact(q)
      \/ StartStage(q) \/ Try(q) \/ Skip(q)
      \/ \E ok \in BOOLEAN : TryEnds(q, ok)
      \/ UsageFails(q) \/ Cancel(q)
      \/ StageExhausted(q) \/ GiveUp(q)
    BY <1>2 DEF BalancerNext
  <2>3. \A o \in Owner : planned'[o] <= Cardinality(Reserved(o)')
    <3>1. CASE Plan(q)
      BY <3>1, PlanReserves
    <3>2. CASE StartStage(q)
      BY <3>2, StageReserves
    <3>3. CASE PlanExact(q)
      <4>1. stages \in [Call -> Seq(Plans)] /\ q \in ExactModel
        BY <3>3 DEF BalancerInv, BalancerShape, PlanExact
      <4>2. \A x \in Call \ ExactModel : stages'[x] = stages[x]
        BY <3>3, <4>1 DEF PlanExact
      <4>3. ASSUME NEW o \in Owner PROVE Reserved(o)' = Reserved(o)
        <5>1. \A x \in (Call \ ExactModel) \X (1..MaxStages) : stages'[x[1]] = stages[x[1]]
          BY <4>2
        <5> QED BY <5>1 DEF Reserved
      <4>4. UNCHANGED planned
        BY <3>3 DEF PlanExact
      <4> QED BY <4>3, <4>4 DEF BalancerInv, MarksAccountedFor
    <3>4. CASE ~Plan(q) /\ ~StartStage(q) /\ ~PlanExact(q)
      <4>1. UNCHANGED <<planned, stages>>
        BY <2>2, <3>4 DEF Try, Skip, TryEnds, UsageFails, Cancel, StageExhausted, GiveUp
      <4> QED BY <4>1, SameMarks
    <3> QED BY <3>1, <3>2, <3>3, <3>4
  <2>4. \A o \in Owner : inflight'[o] <= Cardinality(Attempts(o)')
    <3>1. CASE Try(q)
      BY <3>1, TryMarks
    <3>2. CASE UsageFails(q) \/ \E ok \in BOOLEAN : TryEnds(q, ok)
      BY <3>2, EndMarks DEF UsageFails, TryEnds
    <3>3. CASE ~Try(q) /\ ~UsageFails(q) /\ ~\E ok \in BOOLEAN : TryEnds(q, ok)
      <4>1. UNCHANGED <<inflight, trying>>
        BY <2>2, <3>3 DEF Plan, PlanExact, StartStage, Skip, Cancel, StageExhausted, GiveUp
      <4> QED BY <4>1, SameMarks
    <3> QED BY <3>1, <3>2, <3>3
  <2> QED BY <2>1, <2>3, <2>4 DEF BalancerInv, MarksAccountedFor
<1> QED BY <1>1, <1>2

\* For any number of requests, owners and stages, a mark on a node is that of a
\* stage its request has not come to, or of an attempt in progress or cancelled,
\* whoever releases what in _execute.
THEOREM MarksAreAccountedFor == BalancerSpec => []MarksAccountedFor
<1>1. BalancerInit => BalancerInv
  BY BalancerInitially
<1>2. BalancerInv /\ [BalancerNext]_balancerVars => BalancerInv'
  BY BalancerStep
<1>3. BalancerInv => MarksAccountedFor
  BY DEF BalancerInv
<1> QED BY <1>1, <1>2, <1>3, PTL DEF BalancerSpec
=============================================================================
