---------------------------- MODULE EventOutbox ----------------------------
(***************************************************************************)
(* The durable event outbox (event_outbox.py) and the dispatcher that      *)
(* posts its events to the AssistX sink (event_dispatcher.py), driven by   *)
(* the background loop of main.py and by operator requests                 *)
(* (service_routes.py).  The sink is external: it may accept an event,     *)
(* refuse it, or leave the dispatcher without an answer.                   *)
(*                                                                         *)
(* Rows are numbered by the table's autoincrement id, which is also the    *)
(* order of created_at.  A cycle posts the events of its batch one by one  *)
(* under the dispatch lock, and marks each one after its answer.           *)
(***************************************************************************)
EXTENDS Integers, Sequences, FiniteSets, SequencesExt

CONSTANTS Key,          \* idempotency keys of the events
          Cycle,        \* tasks that dispatch a batch
          Scheduled,    \* the background loop, one of them
          max_attempts,
          limit,        \* size of a batch
          MaxRows,      \* bound on inserts
          MaxMarks,     \* bound on marks made by an operator
          MaxLapses     \* bound on crashes and aborted cycles

ASSUME OutboxAssumption ==
    /\ Scheduled \in Cycle
    /\ max_attempts \in Nat /\ limit \in Nat \ {0}
    /\ MaxRows \in Nat /\ MaxMarks \in Nat /\ MaxLapses \in Nat

Id == 1..MaxRows
Active == {"pending", "retry"}
Terminal == {"delivered", "dead_letter"}

VARIABLES
    key, status, attempts,  \* the table; a row never inserted is "unused"
    last,       \* the highest id given out
    lock,       \* outbox_dispatch_lock: its holder, then those that wait
    pc,         \* where a cycle is
    batch,      \* the rows a cycle has yet to post
    seen,       \* the attempts a cycle read with its batch
    accepted,   \* the keys the sink has taken
    posts,      \* history: how often a row was posted
    verdict,    \* history: the worst answer of the sink to a row
    marked,     \* history: rows an operator has marked
    marks, lapses

table == <<key, status, attempts, last>>
cycles == <<lock, pc, batch, seen>>
vars == <<table, cycles, accepted, posts, verdict, marked, marks, lapses>>

TypeOK ==
    /\ key \in [Id -> Key]
    /\ status \in [Id -> Active \cup Terminal \cup {"unused", "pruned"}]
    /\ attempts \in [Id -> Nat]
    /\ last \in 0..MaxRows
    /\ lock \in Seq(Cycle)
    /\ pc \in [Cycle -> {"idle", "waiting", "ready", "posting"}]
    /\ batch \in [Cycle -> SUBSET Id]
    /\ seen \in [Cycle -> [Id -> Nat]]
    /\ accepted \subseteq Key
    /\ posts \in [Id -> Nat]
    /\ verdict \in [Id -> {"none", "transient", "definitive"}]
    /\ marked \subseteq Id
    /\ marks \in 0..MaxMarks /\ lapses \in 0..MaxLapses

Init ==
    /\ key \in [Id -> Key]
    /\ status = [i \in Id |-> "unused"]
    /\ attempts = [i \in Id |-> 0]
    /\ last = 0
    /\ lock = <<>>
    /\ pc = [c \in Cycle |-> "idle"]
    /\ batch = [c \in Cycle |-> {}]
    /\ seen = [c \in Cycle |-> [i \in Id |-> 0]]
    /\ accepted = {}
    /\ posts = [i \in Id |-> 0]
    /\ verdict = [i \in Id |-> "none"]
    /\ marked = {}
    /\ marks = 0 /\ lapses = 0

-----------------------------------------------------------------------------
InTable(i) == status[i] \in Active \cup Terminal
Backlog == {i \in Id : status[i] \in Active}
First(S) == CHOOSE i \in S : \A j \in S : i <= j
Go(c, p) == pc' = [pc EXCEPT ![c] = p]

\* INSERT OR IGNORE: a key that is in the table is not inserted again.  The
\* key of the next row was fixed by Init, for every choice.
enqueue ==
    /\ last < MaxRows
    /\ \A i \in Id : InTable(i) => key[i] # key[last + 1]
    /\ last' = last + 1
    /\ status' = [status EXCEPT ![last + 1] = "pending"]
    /\ UNCHANGED <<key, attempts, cycles, accepted, posts, verdict, marked, marks, lapses>>

\* ORDER BY created_at, id LIMIT: the oldest of the active rows.
pending(S) == {i \in S : Cardinality({j \in S : j < i}) < limit}

\* UPDATE ... WHERE event_id: nothing happens to a row that is gone.
mark_delivered(i) ==
    /\ status' = [status EXCEPT ![i] = IF InTable(i) THEN "delivered" ELSE @]
    /\ UNCHANGED <<key, attempts, last>>

mark_failed(i, retry) ==
    /\ status' = [status EXCEPT ![i] =
                     IF ~InTable(i) THEN @ ELSE IF retry THEN "retry" ELSE "dead_letter"]
    /\ attempts' = [attempts EXCEPT ![i] = IF InTable(i) THEN @ + 1 ELSE @]
    /\ UNCHANGED <<key, last>>

Prunable == {i \in Id : status[i] \in Terminal}

\* The operator names how many rows of each kind stay.  Which ones they are
\* depends on when they were updated: any choice is allowed here.
prune_terminal ==
    \E gone \in SUBSET Prunable \ {{}} :
       /\ status' = [i \in Id |-> IF i \in gone THEN "pruned" ELSE status[i]]
       /\ UNCHANGED <<key, attempts, last, cycles, accepted, posts, verdict,
                      marked, marks, lapses>>

-----------------------------------------------------------------------------
\* Mutant: the background loop counts pending rows only.
AskLock_PendingOnly(c) ==
    /\ pc[c] = "idle"
    /\ c = Scheduled => \E i \in Id : status[i] = "pending"
    /\ lock' = Append(lock, c)
    /\ Go(c, "waiting")
    /\ UNCHANGED <<table, batch, seen, accepted, posts, verdict, marked, marks, lapses>>

\* A cycle asks for the dispatch lock; the background loop does so when there
\* is a backlog.
AskLock(c) ==
    /\ pc[c] = "idle"
    /\ c = Scheduled => Backlog # {}
    /\ lock' = Append(lock, c)
    /\ Go(c, "waiting")
    /\ UNCHANGED <<table, batch, seen, accepted, posts, verdict, marked, marks, lapses>>

\* Mutant: the batch is read without waiting for the lock.
HoldsLock_Ignored(c) == TRUE

\* asyncio.Lock serves its waiters in order.
HoldsLock(c) == lock # <<>> /\ Head(lock) = c

ReadBatch(c) ==
    /\ pc[c] = "waiting"
    /\ HoldsLock(c)
    /\ batch' = [batch EXCEPT ![c] = pending(Backlog)]
    /\ seen' = [seen EXCEPT ![c] =
                   [i \in Id |-> IF i \in pending(Backlog) THEN attempts[i] ELSE 0]]
    /\ Go(c, "ready")
    /\ UNCHANGED <<table, lock, accepted, posts, verdict, marked, marks, lapses>>

Post(c) ==
    /\ pc[c] = "ready" /\ batch[c] # {}
    /\ posts' = [posts EXCEPT ![First(batch[c])] = @ + 1]
    /\ Go(c, "posting")
    /\ UNCHANGED <<table, lock, batch, seen, accepted, verdict, marked, marks, lapses>>

\* The rest of the batch goes on after the answer to its first event.
Answered(c) ==
    /\ pc[c] = "posting"
    /\ batch' = [batch EXCEPT ![c] = @ \ {First(@)}]
    /\ seen' = [seen EXCEPT ![c][First(batch[c])] = 0]
    /\ Go(c, "ready")
    /\ UNCHANGED <<lock, marked, marks, lapses>>

\* 2xx, or 409 from a sink that has the event already.
Delivered(c) == LET i == First(batch[c]) IN
    /\ Answered(c)
    /\ accepted' = accepted \cup {key[i]}
    /\ mark_delivered(i)
    /\ UNCHANGED <<posts, verdict>>

\* Mutant: a transport failure is retried for ever.
TransportRetry_Forever(n) == TRUE

\* The attempts read with the batch decide whether there is another one.
TransportRetry(n) == n + 1 < max_attempts

\* No answer: the sink may have taken the event or not.
TransportFails(c) == LET i == First(batch[c]) IN
    /\ Answered(c)
    /\ accepted' \in {accepted, accepted \cup {key[i]}}
    /\ mark_failed(i, TransportRetry(seen[c][i]))
    /\ UNCHANGED <<posts, verdict>>

\* Mutant: the cap is one attempt too low.
StatusRetry_OneLess(kind, n) == kind = "transient" /\ n + 2 < max_attempts

StatusRetry(kind, n) == kind = "transient" /\ n + 1 < max_attempts

\* The sink answers with an error, one that is worth a retry (408, 425, 429,
\* 5xx: the event may have been taken all the same) or a definitive one.
Refused(c, kind) == LET i == First(batch[c]) IN
    /\ Answered(c)
    /\ accepted' \in IF kind = "transient" THEN {accepted, accepted \cup {key[i]}}
                     ELSE {accepted}
    /\ mark_failed(i, StatusRetry(kind, seen[c][i]))
    /\ verdict' = [verdict EXCEPT ![i] = IF @ = "definitive" THEN @ ELSE kind]
    /\ UNCHANGED posts

\* Leaving the lock, whether the cycle holds it or waits for it.
Unlock(c) ==
    \E k \in DOMAIN lock : lock[k] = c /\ lock' = RemoveAt(lock, k)

Forget(c) ==
    /\ batch' = [batch EXCEPT ![c] = {}]
    /\ seen' = [seen EXCEPT ![c] = [i \in Id |-> 0]]
    /\ Go(c, "idle")

EndCycle(c) ==
    /\ pc[c] = "ready" /\ batch[c] = {}
    /\ Unlock(c)
    /\ Forget(c)
    /\ UNCHANGED <<table, accepted, posts, verdict, marked, marks, lapses>>

\* A cycle is cancelled, or a mark cannot be written: the event that is being
\* posted keeps its state whatever the sink does with it.
AbortCycle(c) ==
    /\ lapses < MaxLapses
    /\ pc[c] # "idle"
    /\ lapses' = lapses + 1
    /\ Unlock(c)
    /\ Forget(c)
    /\ accepted' \in IF pc[c] = "posting"
                     THEN {accepted, accepted \cup {key[First(batch[c])]}} ELSE {accepted}
    /\ UNCHANGED <<table, posts, verdict, marked, marks>>

\* The process dies.  The table is durable.
Crash ==
    /\ lapses < MaxLapses
    /\ lapses' = lapses + 1
    /\ lock' = <<>>
    /\ pc' = [c \in Cycle |-> "idle"]
    /\ batch' = [c \in Cycle |-> {}]
    /\ seen' = [c \in Cycle |-> [i \in Id |-> 0]]
    /\ \E taken \in SUBSET {key[First(batch[c])] : c \in {d \in Cycle : pc[d] = "posting"}} :
          accepted' = accepted \cup taken
    /\ UNCHANGED <<table, posts, verdict, marked, marks>>

\* The operator's endpoints, at any time.
OperatorMarks(i) ==
    /\ marks < MaxMarks
    /\ InTable(i)
    /\ marks' = marks + 1
    /\ marked' = marked \cup {i}
    /\ \/ mark_delivered(i)
       \/ \E retry \in BOOLEAN : mark_failed(i, retry)
    /\ UNCHANGED <<cycles, accepted, posts, verdict, lapses>>

-----------------------------------------------------------------------------
Answer(c) ==
    \/ Delivered(c)
    \/ TransportFails(c)
    \/ \E kind \in {"transient", "definitive"} : Refused(c, kind)

Work(c) == ReadBatch(c) \/ Post(c) \/ Answer(c) \/ EndCycle(c)

Next ==
    \/ enqueue
    \/ prune_terminal
    \/ \E c \in Cycle : AskLock(c) \/ Work(c) \/ AbortCycle(c)
    \/ \E i \in Id : OperatorMarks(i)
    \/ Crash

Spec == Init /\ [][Next]_vars

\* A cycle goes on: the post has a timeout and local writes return or raise.
\* The background loop never ends.  An operator need not do anything.
FairSpec ==
    /\ Spec
    /\ WF_vars(AskLock(Scheduled))
    /\ \A c \in Cycle : WF_vars(Work(c))

-----------------------------------------------------------------------------
\* Unless an operator decided otherwise: a row says delivered only if the sink
\* has the event, and the router gives an event up only after the sink has
\* refused it for good or it was posted max_attempts times.  No crash, abort
\* or pruning loses an event on the way (_dispatch_one, prune_terminal).
NothingLost == \A i \in 1..last \ marked :
    LET Taken == key[i] \in accepted
        GivenUp == verdict[i] = "definitive" \/ posts[i] >= max_attempts
    IN  CASE status[i] = "delivered" -> Taken
          [] status[i] = "dead_letter" -> GivenUp
          [] status[i] = "pruned" -> Taken \/ GivenUp
          [] OTHER -> status[i] \in Active

\* A row is posted at most max_attempts times, and once more for every crash,
\* aborted cycle or operator's mark: two cycles at a time do not spend an
\* attempt twice (the dispatch lock; the attempt cap in _dispatch_one).
PostsBounded == \A i \in Id : max_attempts > 0 =>
    posts[i] <= max_attempts + lapses + marks

\* The dispatcher never takes back that an event was delivered: no answer to
\* an older post of the same event comes after the one that settled it.
DeliveredIsFinal ==
    [][\A i \in Id \ marked' :
          status[i] = "delivered" => status'[i] \in {"delivered", "pruned"}]_vars

\* Every event is settled in the end, however long the sink is away: rows
\* that only fail do not fill the batch for ever.
EventSettles == \A i \in Id : status[i] \in Active ~> status[i] \notin Active
=============================================================================
