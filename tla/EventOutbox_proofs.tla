------------------------- MODULE EventOutbox_proofs -------------------------
(***************************************************************************)
(* Proofs about the outbox: for any rows, cycles, batch sizes, crashes and *)
(* operators' marks, the dispatcher loses no event, takes back no          *)
(* delivery and spends no attempt twice.                                   *)
(***************************************************************************)
EXTENDS EventOutbox, SequenceTheorems, WellFoundedInduction, TLAPS

Working(c) == pc[c] \in {"ready", "posting"}

\* The lock lists the cycles that are not idle, once each, and only the first
\* of them works on a batch.
LockOK ==
    /\ \A k, l \in DOMAIN lock : lock[k] = lock[l] => k = l
    /\ \A c \in Cycle : pc[c] # "idle" <=> \E k \in DOMAIN lock : lock[k] = c
    /\ \A c \in Cycle : Working(c) => lock # <<>> /\ lock[1] = c
    /\ \A c \in Cycle : ~Working(c) => batch[c] = {}
    /\ \A c \in Cycle : pc[c] = "posting" => batch[c] # {}

\* Row i is out with the sink.
Posting(c, i) == pc[c] = "posting" /\ First(batch[c]) = i
Out(i) == \E c \in Cycle : Posting(c, i)

\* Rows are given out in the order of their ids; one that is not given out yet
\* is in no batch and was never posted.
RowsGivenOut ==
    /\ \A i \in Id : status[i] = "unused" <=> i > last
    /\ \A i \in Id : status[i] = "unused" => posts[i] = 0
    /\ \A c \in Cycle : \A i \in batch[c] : status[i] # "unused"

\* A row no operator has touched: every attempt in the table was a post, what it
\* says of the sink is so, and what a cycle knows of it is still so.
Untouched(i) ==
    /\ attempts[i] + (IF Out(i) THEN 1 ELSE 0) <= posts[i]
    /\ status[i] = "delivered" => key[i] \in accepted
    /\ status[i] = "dead_letter" => verdict[i] = "definitive" \/ posts[i] >= max_attempts
    /\ status[i] = "pruned" =>
          \/ key[i] \in accepted
          \/ verdict[i] = "definitive" \/ posts[i] >= max_attempts
    /\ \A c \in Cycle : i \in batch[c] => status[i] \in Active /\ seen[c][i] = attempts[i]

\* The posts that may have led to another attempt.
Retried(n) == IF n < max_attempts THEN n ELSE max_attempts - 1

\* Marks and lapses each pay for one post; so does the post that settled the row,
\* or that is under way.  A cycle decides from the attempts it has read, which
\* are no more than those in the table.
Spent(i) ==
    /\ posts[i] <= Retried(attempts[i]) + marks + lapses
                   + (IF Out(i) \/ status[i] \in Terminal \cup {"pruned"} THEN 1 ELSE 0)
    /\ \A c \in Cycle : i \in batch[c] =>
          /\ seen[c][i] <= attempts[i]
          /\ posts[i] <= Retried(seen[c][i]) + marks + lapses
                         + (IF Posting(c, i) THEN 1 ELSE 0)

RowsOK ==
    /\ RowsGivenOut
    /\ \A i \in Id \ marked : Untouched(i)
    /\ max_attempts > 0 => \A i \in Id : Spent(i)

IInv == TypeOK /\ LockOK /\ RowsOK

-----------------------------------------------------------------------------
\* A batch that is not empty has a first row.
LEMMA FirstIn == ASSUME NEW S \in SUBSET Id, S # {} PROVE First(S) \in S /\ First(S) \in Id
<1>1. S \subseteq Nat
  BY OutboxAssumption DEF Id
<1> DEFINE R == {p \in Nat \X Nat : p[1] < p[2]}
<1>2. IsWellFoundedOn(R, Nat)
  BY NatLessThanWellFounded DEF OpToRel
<1>3. \A i, j \in Nat : <<j, i>> \in R <=> j < i
  OBVIOUS
<1> HIDE DEF R
<1>4. PICK i \in S : \A j \in S : ~(<<j, i>> \in R)
  BY <1>1, <1>2, WFMin
<1>5. \A j \in S : ~(j < i)
  BY <1>1, <1>3, <1>4
<1>6. \A j \in S : i <= j
  BY <1>1, <1>5
<1> QED BY <1>6 DEF First

\* Taking one entry out of the lock keeps the others in order.
LEMMA RemoveAtFacts ==
    ASSUME NEW S, NEW s \in Seq(S), NEW i \in DOMAIN s
    PROVE  /\ RemoveAt(s, i) \in Seq(S)
           /\ Len(RemoveAt(s, i)) = Len(s) - 1
           /\ \A j \in 1..(Len(s) - 1) :
                RemoveAt(s, i)[j] = IF j < i THEN s[j] ELSE s[j + 1]
<1>1. i \in 1..Len(s) /\ Len(s) \in Nat
  OBVIOUS
<1> DEFINE a == SubSeq(s, 1, i - 1)
           b == SubSeq(s, i + 1, Len(s))
<1>2. a \in Seq(S) /\ Len(a) = i - 1 /\ \A j \in 1..(i-1) : a[j] = s[j]
  BY <1>1
<1>3. /\ b \in Seq(S) /\ Len(b) = Len(s) - i
      /\ \A j \in 1..(Len(s) - i) : b[j] = s[i + j]
  BY <1>1
<1>4. RemoveAt(s, i) = a \o b
  BY DEF RemoveAt
<1> HIDE DEF a, b
<1>5. a \o b \in Seq(S) /\ Len(a \o b) = Len(s) - 1
  BY <1>1, <1>2, <1>3, ConcatProperties
<1>6. \A j \in 1..(Len(s) - 1) :
        (a \o b)[j] = IF j < i THEN s[j] ELSE s[j + 1]
  <2> TAKE j \in 1..(Len(s) - 1)
  <2>1. CASE j < i
    BY <2>1, <1>1, <1>2, <1>3
  <2>2. CASE ~(j < i)
    <3>1. (a \o b)[j] = b[j - (i - 1)]
      <4>1. j \in 1..Len(a) + Len(b) /\ ~(j <= Len(a))
        BY <2>2, <1>1, <1>2, <1>3
      <4>2. (a \o b)[j] = b[j - Len(a)]
        BY <4>1, <1>2, <1>3, ConcatProperties
      <4> QED BY <4>2, <1>2
    <3>2. b[j - (i - 1)] = s[i + (j - (i - 1))]
      BY <2>2, <1>1, <1>3
    <3> QED BY <3>1, <3>2, <2>2, <1>1
  <2> QED BY <2>1, <2>2
<1> QED BY <1>4, <1>5, <1>6

\* A cycle that unlocks leaves the other ones in the lock, in order.
LEMMA UnlockFacts ==
    ASSUME TypeOK, LockOK, NEW c \in Cycle, Unlock(c)
    PROVE  /\ lock' \in Seq(Cycle)
           /\ \A k, l \in DOMAIN lock' : lock'[k] = lock'[l] => k = l
           /\ \A d \in Cycle : (\E k \in DOMAIN lock' : lock'[k] = d)
                                  <=> d # c /\ \E k \in DOMAIN lock : lock[k] = d
           /\ lock # <<>> /\ lock[1] # c => lock' # <<>> /\ lock'[1] = lock[1]
<1>1. PICK i \in DOMAIN lock : lock[i] = c /\ lock' = RemoveAt(lock, i)
  BY DEF Unlock
<1> DEFINE n == Len(lock)
           old(j) == IF j < i THEN j ELSE j + 1
<1>2. lock \in Seq(Cycle) /\ n \in Nat /\ DOMAIN lock = 1..n /\ i \in 1..n
  BY DEF TypeOK
<1>3. /\ lock' \in Seq(Cycle) /\ DOMAIN lock' = 1..(n - 1)
      /\ \A j \in 1..(n - 1) : lock'[j] = lock[old(j)]
  <2>1. /\ lock' \in Seq(Cycle) /\ Len(lock') = n - 1
        /\ \A j \in 1..(n - 1) : lock'[j] = IF j < i THEN lock[j] ELSE lock[j + 1]
    BY <1>1, <1>2, RemoveAtFacts
  <2>2. DOMAIN lock' = 1..(n - 1)
    BY <2>1
  <2> QED BY <2>1, <2>2
<1> HIDE DEF n
<1>4. \A j \in 1..(n - 1) : old(j) \in 1..n /\ old(j) # i
  BY <1>2
<1>5. \A j, k \in 1..(n - 1) : old(j) = old(k) => j = k
  BY <1>2
<1>6. \A k \in 1..n : k # i => \E j \in 1..(n - 1) : old(j) = k
  <2> TAKE k \in 1..n
  <2> HAVE k # i
  <2> DEFINE j == IF k < i THEN k ELSE k - 1
  <2>1. j \in 1..(n - 1) /\ old(j) = k
    BY <1>2
  <2> QED BY <2>1
<1>7. lock # <<>> /\ lock[1] # c => lock' # <<>> /\ lock'[1] = lock[1]
  <2> SUFFICES ASSUME lock[1] # c PROVE lock' # <<>> /\ lock'[1] = lock[1]
    OBVIOUS
  <2>1. i # 1 /\ 1 \in 1..(n - 1) /\ old(1) = 1
    BY <1>1, <1>2
  <2>2. 1 \in DOMAIN lock'
    BY <1>3, <2>1
  <2>3. lock' # <<>>
    BY <2>2
  <2> QED BY <1>3, <2>1, <2>3
<1> HIDE DEF old
<1>8. \A k, l \in DOMAIN lock' : lock'[k] = lock'[l] => k = l
  BY <1>2, <1>3, <1>4, <1>5 DEF LockOK
<1>9. \A d \in Cycle : (\E k \in DOMAIN lock' : lock'[k] = d)
                          <=> d # c /\ \E k \in DOMAIN lock : lock[k] = d
  <2> TAKE d \in Cycle
  <2>1. ASSUME NEW k \in DOMAIN lock', lock'[k] = d
        PROVE  d # c /\ \E l \in DOMAIN lock : lock[l] = d
    <3>1. old(k) \in DOMAIN lock /\ old(k) # i /\ lock[old(k)] = d
      BY <1>2, <1>3, <1>4, <2>1
    <3> QED BY <1>1, <3>1 DEF LockOK
  <2>2. ASSUME d # c, NEW k \in DOMAIN lock, lock[k] = d
        PROVE  \E l \in DOMAIN lock' : lock'[l] = d
    <3>1. PICK l \in 1..(n - 1) : old(l) = k
      BY <1>1, <1>2, <1>6, <2>2
    <3> QED BY <1>3, <2>2, <3>1
  <2> QED BY <2>1, <2>2
<1> QED BY <1>3, <1>7, <1>8, <1>9

-----------------------------------------------------------------------------
\* One cycle works at a time.
LEMMA Alone ==
    ASSUME LockOK, NEW c \in Cycle, NEW d \in Cycle, Working(c), d # c
    PROVE  ~Working(d) /\ batch[d] = {} /\ \A i : ~Posting(d, i)
BY DEF LockOK, Working, Posting

\* What an answer finds: the row at the head of the batch, out with the sink.
LEMMA AnswerFinds ==
    ASSUME TypeOK, LockOK, NEW c \in Cycle, pc[c] = "posting"
    PROVE  First(batch[c]) \in batch[c] /\ First(batch[c]) \in Id
<1>1. batch[c] \in SUBSET Id /\ batch[c] # {}
  BY DEF TypeOK, LockOK
<1> QED BY <1>1, FirstIn

\* What an answer with a given outcome does to row i: a row that is gone stays
\* so, and the attempts the cycle has read decide whether there is another one.
Outcome(c, i, st) ==
    /\ status' = [status EXCEPT ![i] = IF InTable(i) THEN st ELSE @]
    /\ st = "delivered" => key[i] \in accepted' /\ attempts' = attempts
    /\ st # "delivered" =>
          attempts' = [attempts EXCEPT ![i] = IF InTable(i) THEN @ + 1 ELSE @]
    /\ st = "retry" => seen[c][i] + 1 < max_attempts
    /\ st = "dead_letter" => seen[c][i] + 1 >= max_attempts \/ verdict'[i] = "definitive"

\* What every answer does.
AnswerEffect(c, i) ==
    /\ pc[c] = "posting" /\ pc' = [pc EXCEPT ![c] = "ready"]
    /\ batch' = [batch EXCEPT ![c] = @ \ {i}]
    /\ seen' = [seen EXCEPT ![c][i] = 0]
    /\ UNCHANGED <<key, last, lock, posts, marked, marks, lapses>>
    /\ accepted \subseteq accepted' /\ accepted' \subseteq accepted \cup {key[i]}
    /\ \E st \in {"delivered", "retry", "dead_letter"} : Outcome(c, i, st)
    /\ \E kind \in {"none", "transient", "definitive"} :
          verdict' = [verdict EXCEPT ![i] = IF @ = "definitive" THEN @ ELSE kind]

\* Delivered, TransportFails and Refused are answers in this sense.
LEMMA AnswerDoes ==
    ASSUME TypeOK, NEW c \in Cycle, NEW i \in Id, i = First(batch[c]), Answer(c)
    PROVE  AnswerEffect(c, i)
<1> USE DEF AnswerEffect
<1>0. seen[c][i] \in Nat /\ max_attempts \in Nat
  BY OutboxAssumption DEF TypeOK
<1>1. UNCHANGED verdict => \E kind \in {"none", "transient", "definitive"} :
         verdict' = [verdict EXCEPT ![i] = IF @ = "definitive" THEN @ ELSE kind]
  BY DEF TypeOK
<1>2. CASE Delivered(c)
  <2>1. Outcome(c, i, "delivered")
    BY <1>2 DEF Delivered, mark_delivered, Outcome
  <2> QED BY <1>1, <1>2, <2>1 DEF Delivered, Answered, mark_delivered, Go
<1>3. CASE TransportFails(c)
  <2>1. mark_failed(i, seen[c][i] + 1 < max_attempts)
    BY <1>3 DEF TransportFails, TransportRetry
  <2>2. Outcome(c, i, "retry") \/ Outcome(c, i, "dead_letter")
    <3>1. CASE seen[c][i] + 1 < max_attempts
      BY <2>1, <3>1 DEF mark_failed, Outcome
    <3>2. CASE ~(seen[c][i] + 1 < max_attempts)
      <4>1. seen[c][i] + 1 >= max_attempts
        BY <1>0, <3>2
      <4> QED BY <2>1, <3>2, <4>1 DEF mark_failed, Outcome
    <3> QED BY <3>1, <3>2
  <2>3. accepted \subseteq accepted' /\ accepted' \subseteq accepted \cup {key[i]}
    BY <1>3 DEF TransportFails
  <2> QED BY <1>1, <1>3, <2>1, <2>2, <2>3 DEF TransportFails, Answered, mark_failed, Go
<1>4. ASSUME NEW kind \in {"transient", "definitive"}, Refused(c, kind)
      PROVE  AnswerEffect(c, i)
  <2>1. /\ mark_failed(i, kind = "transient" /\ seen[c][i] + 1 < max_attempts)
        /\ verdict' = [verdict EXCEPT ![i] = IF @ = "definitive" THEN @ ELSE kind]
    BY <1>4 DEF Refused, StatusRetry
  <2>2. kind = "definitive" => verdict'[i] = "definitive"
    BY <2>1 DEF TypeOK
  <2>3. Outcome(c, i, "retry") \/ Outcome(c, i, "dead_letter")
    <3>1. CASE kind = "transient" /\ seen[c][i] + 1 < max_attempts
      BY <2>1, <3>1 DEF mark_failed, Outcome
    <3>2. CASE ~(kind = "transient" /\ seen[c][i] + 1 < max_attempts)
      <4>1. seen[c][i] + 1 >= max_attempts \/ verdict'[i] = "definitive"
        BY <1>0, <2>2, <3>2
      <4> QED BY <2>1, <3>2, <4>1 DEF mark_failed, Outcome
    <3> QED BY <3>1, <3>2
  <2>4. accepted \subseteq accepted' /\ accepted' \subseteq accepted \cup {key[i]}
    BY <1>4 DEF Refused
  <2> QED BY <1>4, <2>1, <2>3, <2>4 DEF Refused, Answered, mark_failed, Go
<1> QED BY <1>2, <1>3, <1>4 DEF Answer

-----------------------------------------------------------------------------
\* Every action preserves the types.
LEMMA TypeStep == ASSUME TypeOK, LockOK, [Next]_vars PROVE TypeOK'
<1> USE OutboxAssumption DEF TypeOK
<1>1. CASE enqueue
  <2>1. last + 1 \in Id /\ last' \in 0..MaxRows
    BY <1>1 DEF enqueue, Id
  <2> QED BY <1>1, <2>1 DEF enqueue, cycles, Active
<1>2. CASE prune_terminal
  BY <1>2 DEF prune_terminal, cycles
<1>3. ASSUME NEW c \in Cycle, AskLock(c) PROVE TypeOK'
  BY <1>3 DEF AskLock, Go, table
<1>4. ASSUME NEW c \in Cycle, ReadBatch(c) PROVE TypeOK'
  <2>1. pending(Backlog) \subseteq Id
    BY DEF pending, Backlog
  <2>2. seen' \in [Cycle -> [Id -> Nat]]
    BY <1>4 DEF ReadBatch
  <2> QED BY <1>4, <2>1, <2>2 DEF ReadBatch, Go, table
<1>5. ASSUME NEW c \in Cycle, Post(c) PROVE TypeOK'
  <2>1. First(batch[c]) \in Id
    BY <1>5, FirstIn DEF Post
  <2> QED BY <1>5, <2>1 DEF Post, Go, table
<1>6. ASSUME NEW c \in Cycle, Answer(c) PROVE TypeOK'
  <2>1. PICK i \in Id : i = First(batch[c])
    BY <1>6, AnswerFinds DEF Answer, Delivered, TransportFails, Refused, Answered
  <2>2. AnswerEffect(c, i)
    BY <1>6, <2>1, AnswerDoes
  <2>3. PICK st \in {"delivered", "retry", "dead_letter"} : Outcome(c, i, st)
    BY <2>2 DEF AnswerEffect
  <2>4. attempts' \in [Id -> Nat]
    <3>1. \/ attempts' = attempts
          \/ attempts' = [attempts EXCEPT ![i] = IF InTable(i) THEN @ + 1 ELSE @]
      BY <2>3 DEF Outcome
    <3>2. attempts[i] \in Nat /\ attempts[i] + 1 \in Nat
      OBVIOUS
    <3>3. CASE InTable(i)
      BY <3>1, <3>2, <3>3
    <3>4. CASE ~InTable(i)
      BY <3>1, <3>2, <3>4
    <3> QED BY <3>3, <3>4
  <2>5. status' \in [Id -> Active \cup Terminal \cup {"unused", "pruned"}]
    BY <2>3 DEF Outcome, Active, Terminal
  <2>6. verdict' \in [Id -> {"none", "transient", "definitive"}]
    BY <2>2 DEF AnswerEffect
  <2>7. accepted' \subseteq Key
    BY <2>2 DEF AnswerEffect
  <2>8. seen' \in [Cycle -> [Id -> Nat]]
    BY <2>2 DEF AnswerEffect
  <2> QED BY <2>2, <2>4, <2>5, <2>6, <2>7, <2>8 DEF AnswerEffect
<1>7. ASSUME NEW c \in Cycle, EndCycle(c) PROVE TypeOK'
  <2>1. lock' \in Seq(Cycle)
    BY <1>7, UnlockFacts DEF EndCycle
  <2> QED BY <1>7, <2>1 DEF EndCycle, Forget, Go, table
<1>8. ASSUME NEW c \in Cycle, AbortCycle(c) PROVE TypeOK'
  <2>1. lock' \in Seq(Cycle)
    BY <1>8, UnlockFacts DEF AbortCycle
  <2>2. accepted' \subseteq Key
    BY <1>8, AnswerFinds DEF AbortCycle
  <2> QED BY <1>8, <2>1, <2>2 DEF AbortCycle, Forget, Go, table
<1>9. CASE Crash
  <2>1. \A c \in Cycle : pc[c] = "posting" => key[First(batch[c])] \in Key
    BY AnswerFinds
  <2>2. accepted' \subseteq Key
    <3>1. PICK taken \in SUBSET {key[First(batch[c])] : c \in {d \in Cycle : pc[d] = "posting"}} :
            accepted' = accepted \cup taken
      BY <1>9 DEF Crash
    <3>2. {key[First(batch[c])] : c \in {d \in Cycle : pc[d] = "posting"}} \subseteq Key
      BY <2>1
    <3>3. taken \subseteq Key
      BY <3>1, <3>2
    <3> QED BY <3>1, <3>3
  <2> QED BY <1>9, <2>2 DEF Crash, table
<1>10. ASSUME NEW i \in Id, OperatorMarks(i) PROVE TypeOK'
  <2>1. /\ status' \in [Id -> Active \cup Terminal \cup {"unused", "pruned"}]
        /\ attempts' \in [Id -> Nat] /\ UNCHANGED <<key, last>>
    <3>1. CASE mark_delivered(i)
      BY <3>1 DEF mark_delivered, Active, Terminal
    <3>2. ASSUME NEW retry \in BOOLEAN, mark_failed(i, retry)
                 PROVE  /\ status' \in [Id -> Active \cup Terminal \cup {"unused", "pruned"}]
                        /\ attempts' \in [Id -> Nat] /\ UNCHANGED <<key, last>>
      <4>1. status' \in [Id -> Active \cup Terminal \cup {"unused", "pruned"}]
        BY <3>2 DEF mark_failed, Active, Terminal
      <4>2. attempts' \in [Id -> Nat]
        BY <3>2 DEF mark_failed
      <4> QED BY <3>2, <4>1, <4>2 DEF mark_failed
    <3> QED BY <1>10, <3>1, <3>2 DEF OperatorMarks
  <2> QED BY <1>10, <2>1 DEF OperatorMarks, cycles
<1>11. CASE UNCHANGED vars
  BY <1>11 DEF vars, table, cycles
<1> QED
  BY <1>1, <1>2, <1>3, <1>4, <1>5, <1>6, <1>7, <1>8, <1>9, <1>10, <1>11 DEF Next, Work

\* Every action keeps the dispatch lock to one working cycle.
LEMMA LockStep == ASSUME TypeOK, LockOK, [Next]_vars PROVE LockOK'
<1> USE OutboxAssumption DEF TypeOK
<1>1. ASSUME UNCHANGED cycles PROVE LockOK'
  BY <1>1 DEF cycles, LockOK, Working
<1>2. ASSUME NEW c \in Cycle, AskLock(c) PROVE LockOK'
  <2>1. pc[c] = "idle" /\ pc' = [pc EXCEPT ![c] = "waiting"] /\ batch' = batch
    BY <1>2 DEF AskLock, Go
  <2>2. lock' = Append(lock, c) /\ lock \in Seq(Cycle) /\ Len(lock) \in Nat
    BY <1>2 DEF AskLock
  <2>3. /\ DOMAIN lock = 1..Len(lock) /\ DOMAIN lock' = 1..(Len(lock) + 1)
        /\ \A k \in DOMAIN lock : lock'[k] = lock[k]
        /\ lock'[Len(lock) + 1] = c
        /\ lock' # <<>>
    <3>1. lock' \in Seq(Cycle) /\ Len(lock') = Len(lock) + 1
      BY <2>2
    <3>2. lock' # <<>>
      <4>1. Len(lock') # 0
        BY <2>2, <3>1
      <4> QED BY <4>1
    <3> QED BY <2>2, <3>1, <3>2
  <2>4. \A k \in DOMAIN lock : lock[k] # c
    BY <2>1 DEF LockOK
  <2>5. \A k, l \in DOMAIN lock' : lock'[k] = lock'[l] => k = l
    BY <2>2, <2>3, <2>4 DEF LockOK
  <2>6. \A d \in Cycle : pc'[d] # "idle" <=> \E k \in DOMAIN lock' : lock'[k] = d
    <3> TAKE d \in Cycle
    <3>1. CASE d = c
      <4>1. Len(lock) + 1 \in DOMAIN lock'
        BY <2>2, <2>3
      <4> QED BY <2>1, <2>3, <3>1, <4>1
    <3>2. CASE d # c
      <4>1. pc'[d] = pc[d]
        BY <2>1, <3>2
      <4>2. \A k \in DOMAIN lock' : k \in DOMAIN lock \/ lock'[k] = c
        BY <2>2, <2>3
      <4>3. DOMAIN lock \subseteq DOMAIN lock'
        BY <2>2, <2>3
      <4> QED BY <2>3, <3>2, <4>1, <4>2, <4>3 DEF LockOK
    <3> QED BY <3>1, <3>2
  <2>7. \A d \in Cycle : Working(d)' => lock'[1] = d
    <3> SUFFICES ASSUME NEW d \in Cycle, Working(d)' PROVE lock'[1] = d
      OBVIOUS
    <3>1. Working(d)
      BY <2>1 DEF Working
    <3>2. lock # <<>> /\ lock[1] = d
      BY <3>1 DEF LockOK
    <3>3. 1 \in DOMAIN lock
      BY <2>2, <3>2
    <3> QED BY <2>3, <3>2, <3>3
  <2> QED BY <2>1, <2>3, <2>5, <2>6, <2>7 DEF LockOK, Working
<1>3. ASSUME NEW c \in Cycle, ReadBatch(c) PROVE LockOK'
  <2>1. /\ pc[c] = "waiting" /\ pc' = [pc EXCEPT ![c] = "ready"] /\ UNCHANGED lock
        /\ lock # <<>> /\ lock[1] = c
        /\ \A d \in Cycle \ {c} : batch'[d] = batch[d]
    BY <1>3 DEF ReadBatch, Go, HoldsLock
  <2> QED BY <2>1 DEF LockOK, Working
<1>4. ASSUME NEW c \in Cycle, Post(c) PROVE LockOK'
  BY <1>4 DEF Post, Go, LockOK, Working
<1>5. ASSUME NEW c \in Cycle, Answer(c) PROVE LockOK'
  <2>1. /\ pc[c] = "posting" /\ pc' = [pc EXCEPT ![c] = "ready"] /\ UNCHANGED lock
        /\ \A d \in Cycle \ {c} : batch'[d] = batch[d]
    BY <1>5 DEF Answer, Delivered, TransportFails, Refused, Answered, Go
  <2> QED BY <2>1 DEF LockOK, Working
<1>6. ASSUME NEW c \in Cycle, EndCycle(c) \/ AbortCycle(c) PROVE LockOK'
  <2>1. /\ Unlock(c) /\ pc[c] # "idle" /\ pc' = [pc EXCEPT ![c] = "idle"]
        /\ batch' = [batch EXCEPT ![c] = {}]
    BY <1>6 DEF EndCycle, AbortCycle, Forget, Go
  <2>2. /\ \A k, l \in DOMAIN lock' : lock'[k] = lock'[l] => k = l
        /\ \A d \in Cycle : (\E k \in DOMAIN lock' : lock'[k] = d)
                               <=> d # c /\ \E k \in DOMAIN lock : lock[k] = d
        /\ lock # <<>> /\ lock[1] # c => lock' # <<>> /\ lock'[1] = lock[1]
    BY <2>1, UnlockFacts
  <2>3. \A d \in Cycle : pc'[d] # "idle" <=> \E k \in DOMAIN lock' : lock'[k] = d
    BY <2>1, <2>2 DEF LockOK
  <2>4. \A d \in Cycle : Working(d)' => lock' # <<>> /\ lock'[1] = d
    BY <2>1, <2>2 DEF LockOK, Working
  <2>5. \A d \in Cycle : /\ ~Working(d)' => batch'[d] = {}
                         /\ pc'[d] = "posting" => batch'[d] # {}
    BY <2>1 DEF LockOK, Working
  <2> QED BY <2>2, <2>3, <2>4, <2>5 DEF LockOK
<1>7. CASE Crash
  BY <1>7 DEF Crash, LockOK, Working
<1>8. CASE enqueue \/ prune_terminal \/ UNCHANGED vars \/ \E i \in Id : OperatorMarks(i)
  BY <1>1, <1>8 DEF enqueue, prune_terminal, vars, OperatorMarks
<1> QED
  BY <1>2, <1>3, <1>4, <1>5, <1>6, <1>7, <1>8 DEF Next, Work

-----------------------------------------------------------------------------
\* The retried posts grow with the attempts, and stay below the cap.
LEMMA RetriedFacts ==
    ASSUME max_attempts > 0, NEW m \in Nat, NEW n \in Nat, m <= n
    PROVE  /\ Retried(m) \in Nat /\ Retried(n) \in Nat
           /\ Retried(m) <= Retried(n) /\ Retried(n) <= max_attempts - 1 /\ Retried(n) <= n
           /\ n + 1 < max_attempts => Retried(n) = n /\ Retried(n + 1) = n + 1
BY OutboxAssumption DEF Retried

\* What the arithmetic of a row is about.
LEMMA RowNumbers ==
    ASSUME TypeOK, NEW i \in Id
    PROVE  /\ attempts[i] \in Nat /\ posts[i] \in Nat /\ marks \in Nat /\ lapses \in Nat
           /\ max_attempts \in Nat /\ \A c \in Cycle : seen[c][i] \in Nat
BY OutboxAssumption DEF TypeOK

\* Cycles that forget their batch, with a lapse for the row that is out, leave
\* the rows in order; so do cycles that only wait or end.
LEMMA CyclesForget ==
    ASSUME TypeOK, TypeOK', RowsOK, UNCHANGED <<table, posts, verdict, marked, marks>>,
           accepted \subseteq accepted', lapses <= lapses',
           \A d \in Cycle :
              \/ /\ batch'[d] = batch[d] /\ seen'[d] = seen[d]
                 /\ pc'[d] = "posting" <=> pc[d] = "posting"
              \/ /\ batch'[d] = {} /\ pc'[d] = "idle"
                 /\ pc[d] = "posting" => lapses + 1 <= lapses'
    PROVE  RowsOK'
<1>1. \A d \in Cycle : \A i \in Id : Posting(d, i)' => Posting(d, i)
  BY DEF Posting
<1>2. \A i \in Id : Out(i)' => Out(i)
  BY <1>1 DEF Out
<1>3. \A i \in Id : Out(i) /\ ~Out(i)' => lapses + 1 <= lapses'
  BY DEF Out, Posting
<1>4. \A d \in Cycle : \A i \in batch'[d] :
        i \in batch[d] /\ seen'[d][i] = seen[d][i] /\ (Posting(d, i)' <=> Posting(d, i))
  BY DEF Posting
<1>5. UNCHANGED <<status, attempts, key, last>>
  BY DEF table
<1>6. RowsGivenOut'
  BY <1>4, <1>5 DEF RowsOK, RowsGivenOut
<1>7. ASSUME NEW i \in Id \ marked, Untouched(i) PROVE Untouched(i)'
  BY <1>2, <1>4, <1>5, <1>7, RowNumbers DEF Untouched
<1>8. ASSUME NEW i \in Id, max_attempts > 0, Spent(i) PROVE Spent(i)'
  <2>1. /\ attempts[i] \in Nat /\ posts[i] \in Nat /\ marks \in Nat /\ lapses \in Nat
        /\ lapses' \in Nat /\ \A c \in Cycle : seen[c][i] \in Nat
    BY RowNumbers DEF TypeOK
  <2>2. Retried(attempts[i]) \in Nat /\ \A c \in Cycle : Retried(seen[c][i]) \in Nat
    BY <1>8, <2>1, RetriedFacts
  <2>3. posts'[i] <= Retried(attempts'[i]) + marks' + lapses'
                     + (IF Out(i)' \/ status'[i] \in Terminal \cup {"pruned"} THEN 1 ELSE 0)
    <3> DEFINE settled == status[i] \in Terminal \cup {"pruned"}
    <3>1. posts[i] <= Retried(attempts[i]) + marks + lapses
                      + (IF Out(i) \/ settled THEN 1 ELSE 0)
      BY <1>8 DEF Spent
    <3> HIDE DEF settled
    <3>2. posts[i] <= Retried(attempts[i]) + marks + lapses'
                      + (IF Out(i)' \/ settled THEN 1 ELSE 0)
      BY <1>2, <1>3, <2>1, <2>2, <3>1
    <3> QED BY <1>5, <3>2 DEF settled
  <2>4. ASSUME NEW c \in Cycle, i \in batch'[c]
        PROVE  /\ seen'[c][i] <= attempts'[i]
               /\ posts'[i] <= Retried(seen'[c][i]) + marks' + lapses'
                               + (IF Posting(c, i)' THEN 1 ELSE 0)
    <3>1. i \in batch[c] /\ seen'[c][i] = seen[c][i] /\ (Posting(c, i)' <=> Posting(c, i))
      BY <1>4, <2>4
    <3>2. /\ seen[c][i] <= attempts[i]
          /\ posts[i] <= Retried(seen[c][i]) + marks + lapses + (IF Posting(c, i) THEN 1 ELSE 0)
      BY <1>8, <3>1 DEF Spent
    <3>3. posts[i] <= Retried(seen[c][i]) + marks + lapses' + (IF Posting(c, i)' THEN 1 ELSE 0)
      BY <2>1, <2>2, <3>1, <3>2
    <3> QED BY <1>5, <3>1, <3>2, <3>3
  <2> QED BY <2>3, <2>4 DEF Spent
<1> QED BY <1>6, <1>7, <1>8 DEF RowsOK

\* A new row takes the next id; a settled row may be pruned.
LEMMA TableStep ==
    ASSUME TypeOK, TypeOK', LockOK, RowsOK, enqueue \/ prune_terminal
    PROVE  RowsOK'
<1>1. UNCHANGED <<key, attempts, cycles, accepted, posts, verdict, marked, marks, lapses>>
  BY DEF enqueue, prune_terminal
<1>2. \A i \in Id : /\ Out(i)' <=> Out(i)
                    /\ \A c \in Cycle : Posting(c, i)' <=> Posting(c, i)
  BY <1>1 DEF Out, Posting, cycles
<1>3. ASSUME NEW i \in Id PROVE \/ status'[i] = status[i]
                                \/ status[i] = "unused" /\ status'[i] = "pending"
                                \/ status[i] \in Terminal /\ status'[i] = "pruned"
  <2>1. CASE enqueue
    <3>1. last \in Nat /\ last + 1 \in Id
      BY <2>1, OutboxAssumption DEF enqueue, TypeOK, Id
    <3>2. status[last + 1] = "unused"
      BY <3>1 DEF RowsOK, RowsGivenOut
    <3> QED BY <2>1, <3>2 DEF enqueue, TypeOK
  <2>2. CASE prune_terminal
    BY <2>2 DEF prune_terminal, Prunable
  <2> QED BY <2>1, <2>2
<1>4. RowsGivenOut'
  <2>1. CASE enqueue
    <3>1. last \in Nat /\ last + 1 \in Id /\ last' = last + 1
      BY <2>1, OutboxAssumption DEF enqueue, TypeOK, Id
    <3>2. status' = [status EXCEPT ![last + 1] = "pending"]
      BY <2>1 DEF enqueue
    <3>3. \A i \in Id : status'[i] = "unused" <=> i > last'
      BY <3>1, <3>2, OutboxAssumption DEF RowsOK, RowsGivenOut, TypeOK, Id
    <3> QED BY <1>1, <1>3, <3>3 DEF RowsOK, RowsGivenOut, cycles, TypeOK
  <2>2. CASE prune_terminal
    <3>1. \A i \in Id : status'[i] = "unused" <=> status[i] = "unused"
      BY <1>3, <2>2 DEF prune_terminal, Prunable, Terminal
    <3> QED BY <1>1, <2>2, <3>1 DEF RowsOK, RowsGivenOut, prune_terminal, cycles, TypeOK
  <2> QED BY <2>1, <2>2
<1>5. ASSUME NEW i \in Id \ marked, Untouched(i) PROVE Untouched(i)'
  <2>1. \A c \in Cycle : i \in batch[c] => status'[i] \in Active /\ status'[i] = status[i]
    BY <1>3, <1>5 DEF Untouched, Active, Terminal
  <2>2. /\ status'[i] = "delivered" => status[i] = "delivered"
        /\ status'[i] = "dead_letter" => status[i] = "dead_letter"
        /\ status'[i] = "pruned" => status[i] \in {"pruned", "delivered", "dead_letter"}
    BY <1>3 DEF Terminal
  <2> QED BY <1>1, <1>2, <1>5, <2>1, <2>2 DEF Untouched, cycles
<1>6. ASSUME NEW i \in Id, Spent(i) PROVE Spent(i)'
  <2>1. status'[i] \in Terminal \cup {"pruned"} <=> status[i] \in Terminal \cup {"pruned"}
    BY <1>3 DEF Terminal
  <2> QED BY <1>1, <1>2, <1>6, <2>1 DEF Spent, cycles
<1> QED BY <1>1, <1>4, <1>5, <1>6 DEF RowsOK

\* A cycle that has come to the head of the lock reads active rows, none of
\* which is out, and the attempts they have.
LEMMA ReadStep ==
    ASSUME TypeOK, LockOK, RowsOK, NEW c \in Cycle, ReadBatch(c)
    PROVE  RowsOK'
<1>1. /\ pc[c] = "waiting" /\ pc' = [pc EXCEPT ![c] = "ready"]
      /\ batch' = [batch EXCEPT ![c] = pending(Backlog)]
      /\ seen' = [seen EXCEPT ![c] =
                     [i \in Id |-> IF i \in pending(Backlog) THEN attempts[i] ELSE 0]]
      /\ lock # <<>> /\ lock[1] = c
      /\ UNCHANGED <<key, status, attempts, last, accepted, posts, verdict, marked, marks, lapses>>
  BY DEF ReadBatch, HoldsLock, Go, table
<1>2. \A i \in pending(Backlog) : i \in Id /\ status[i] \in Active
  BY DEF pending, Backlog
<1>3. \A d \in Cycle : ~Working(d) /\ batch[d] = {}
  BY <1>1 DEF LockOK, Working
<1>4. \A d \in Cycle : d # c => batch'[d] = {}
  BY <1>1, <1>3 DEF TypeOK
<1>5. \A i \in batch'[c] : i \in Id /\ status[i] \in Active /\ seen'[c][i] = attempts[i]
  BY <1>1, <1>2 DEF TypeOK
<1>6. \A i \in Id : ~Out(i) /\ ~Out(i)' /\ \A d \in Cycle : ~Posting(d, i)'
  BY <1>1, <1>3 DEF Out, Posting, Working, TypeOK
<1>7. RowsGivenOut'
  BY <1>1, <1>4, <1>5 DEF RowsOK, RowsGivenOut, Active
<1>8. ASSUME NEW i \in Id \ marked, Untouched(i) PROVE Untouched(i)'
  BY <1>1, <1>4, <1>5, <1>6, <1>8 DEF Untouched
<1>9. ASSUME NEW i \in Id, Spent(i) PROVE Spent(i)'
  <2>1. posts[i] <= Retried(attempts[i]) + marks + lapses
                    + (IF status[i] \in Terminal \cup {"pruned"} THEN 1 ELSE 0)
    BY <1>6, <1>9 DEF Spent
  <2>2. ASSUME NEW d \in Cycle, i \in batch'[d]
        PROVE  /\ seen'[d][i] = attempts[i]
               /\ posts[i] <= Retried(attempts[i]) + marks + lapses + 0
    <3>1. d = c
      BY <1>4, <2>2
    <3>2. status[i] \in Active /\ seen'[d][i] = attempts[i]
      BY <1>5, <2>2, <3>1
    <3>3. status[i] \notin Terminal \cup {"pruned"}
      BY <3>2 DEF Active, Terminal
    <3> QED BY <2>1, <3>2, <3>3
  <2>3. attempts[i] \in Nat
    BY DEF TypeOK
  <2> QED BY <1>1, <1>6, <2>1, <2>2, <2>3 DEF Spent
<1> QED BY <1>1, <1>7, <1>8, <1>9 DEF RowsOK

\* The first row of a batch goes out.
LEMMA PostStep ==
    ASSUME TypeOK, LockOK, RowsOK, NEW c \in Cycle, Post(c)
    PROVE  RowsOK'
<1>1. PICK i \in Id : i = First(batch[c]) /\ i \in batch[c]
  BY FirstIn DEF Post, TypeOK
<1>2. /\ pc[c] = "ready" /\ pc' = [pc EXCEPT ![c] = "posting"]
      /\ posts' = [posts EXCEPT ![i] = @ + 1]
      /\ UNCHANGED <<key, status, attempts, last, batch, seen, accepted, verdict,
                     marked, marks, lapses>>
  BY <1>1 DEF Post, Go, table
<1>3. \A d \in Cycle : d # c => batch[d] = {} /\ ~Working(d)
  BY <1>2, Alone DEF Working
<1>4. \A j \in Id : ~Out(j) /\ \A d \in Cycle : ~Posting(d, j)
  BY <1>2, <1>3 DEF Out, Posting, Working
<1>5. \A j \in Id : \A d \in Cycle : Posting(d, j)' <=> d = c /\ j = i
  BY <1>1, <1>2, <1>3 DEF Posting, Working, TypeOK
<1>6. \A j \in Id : Out(j)' <=> j = i
  BY <1>5 DEF Out
<1>7. \A j \in Id : posts[j] \in Nat /\ posts'[j] = IF j = i THEN posts[j] + 1 ELSE posts[j]
  BY <1>2 DEF TypeOK
<1>8. RowsGivenOut'
  <2>1. status[i] # "unused"
    BY <1>1 DEF RowsOK, RowsGivenOut
  <2> QED BY <1>2, <1>7, <2>1 DEF RowsOK, RowsGivenOut, TypeOK
<1>9. ASSUME NEW j \in Id \ marked, Untouched(j) PROVE Untouched(j)'
  <2>1. attempts[j] \in Nat /\ max_attempts \in Nat
    BY RowNumbers
  <2>2. posts'[j] >= posts[j] /\ attempts[j] + (IF j = i THEN 1 ELSE 0) <= posts'[j]
    BY <1>4, <1>7, <1>9, <2>1 DEF Untouched
  <2>3. posts[j] >= max_attempts => posts'[j] >= max_attempts
    BY <1>7, <2>1, <2>2
  <2> QED BY <1>2, <1>6, <1>9, <2>2, <2>3 DEF Untouched
<1>10. ASSUME NEW j \in Id, max_attempts > 0, Spent(j) PROVE Spent(j)'
  <2>1. /\ attempts[j] \in Nat /\ posts[j] \in Nat /\ marks \in Nat /\ lapses \in Nat
        /\ \A d \in Cycle : seen[d][j] \in Nat
    BY RowNumbers
  <2>2. ASSUME NEW d \in Cycle, j \in batch[d]
        PROVE  /\ d = c /\ seen[d][j] <= attempts[j]
               /\ posts'[j] <= Retried(seen[d][j]) + marks + lapses + (IF j = i THEN 1 ELSE 0)
               /\ Retried(seen[d][j]) \in Nat /\ Retried(attempts[j]) \in Nat
               /\ Retried(seen[d][j]) <= Retried(attempts[j])
    <3>1. d = c
      BY <1>3, <2>2
    <3>2. seen[d][j] <= attempts[j] /\ posts[j] <= Retried(seen[d][j]) + marks + lapses + 0
      BY <1>4, <1>10, <2>2 DEF Spent
    <3>3. /\ Retried(seen[d][j]) \in Nat /\ Retried(attempts[j]) \in Nat
          /\ Retried(seen[d][j]) <= Retried(attempts[j])
      BY <1>10, <2>1, <3>2, RetriedFacts
    <3> QED BY <1>7, <2>1, <3>1, <3>2, <3>3
  <2>3. posts'[j] <= Retried(attempts[j]) + marks + lapses
                     + (IF j = i \/ status[j] \in Terminal \cup {"pruned"} THEN 1 ELSE 0)
    <3>1. CASE j = i
      BY <1>1, <1>7, <2>1, <2>2, <3>1
    <3>2. CASE j # i
      BY <1>4, <1>7, <1>10, <3>2 DEF Spent
    <3> QED BY <3>1, <3>2
  <2> QED BY <1>2, <1>5, <1>6, <2>2, <2>3 DEF Spent
<1> QED BY <1>2, <1>8, <1>9, <1>10 DEF RowsOK

\* An answer settles the row that is out, or pays for its next attempt.
LEMMA AnswerStep ==
    ASSUME TypeOK, TypeOK', LockOK, RowsOK, NEW c \in Cycle, Answer(c)
    PROVE  RowsOK'
<1>0. pc[c] = "posting"
  BY DEF Answer, Delivered, TransportFails, Refused, Answered
<1>1. PICK i \in Id : i = First(batch[c]) /\ i \in batch[c]
  BY <1>0, AnswerFinds
<1>2. AnswerEffect(c, i)
  BY <1>1, AnswerDoes
<1>3. PICK st \in {"delivered", "retry", "dead_letter"} : Outcome(c, i, st)
  BY <1>2 DEF AnswerEffect
<1>4. /\ UNCHANGED <<key, last, posts, marked, marks, lapses>>
      /\ pc' = [pc EXCEPT ![c] = "ready"] /\ accepted \subseteq accepted'
  BY <1>2 DEF AnswerEffect
<1>5. \A d \in Cycle : d # c => batch[d] = {} /\ ~Working(d)
  BY <1>0, Alone DEF Working
<1>6. \A d \in Cycle : d # c => batch'[d] = {} /\ pc'[d] = pc[d]
  BY <1>2, <1>5 DEF AnswerEffect, TypeOK
<1>7. \A j \in batch'[c] : j \in batch[c] /\ j # i /\ seen'[c][j] = seen[c][j]
  BY <1>2 DEF AnswerEffect, TypeOK
<1>8. \A j \in Id : ~Out(j)' /\ \A d \in Cycle : ~Posting(d, j)'
  BY <1>4, <1>5, <1>6 DEF Out, Posting, Working, TypeOK
<1>9. Out(i) /\ Posting(c, i)
  BY <1>0, <1>1 DEF Out, Posting
<1>10. \A j \in Id \ {i} : ~Out(j) /\ ~Posting(c, j)
  BY <1>1, <1>5 DEF Out, Posting, Working
<1>11. \A j \in Id \ {i} : status'[j] = status[j] /\ attempts'[j] = attempts[j] /\ verdict'[j] = verdict[j]
  BY <1>2, <1>3 DEF AnswerEffect, Outcome, TypeOK
<1>12. /\ InTable(i) => status'[i] = st
       /\ ~InTable(i) => status'[i] = status[i] /\ attempts'[i] = attempts[i]
       /\ st = "delivered" => attempts'[i] = attempts[i]
       /\ InTable(i) /\ st # "delivered" => attempts'[i] = attempts[i] + 1
       /\ verdict[i] = "definitive" => verdict'[i] = "definitive"
  BY <1>2, <1>3 DEF AnswerEffect, Outcome, TypeOK
<1>13. /\ st = "delivered" => key[i] \in accepted'
       /\ st = "retry" => seen[c][i] + 1 < max_attempts
       /\ st = "dead_letter" => seen[c][i] + 1 >= max_attempts \/ verdict'[i] = "definitive"
  BY <1>3 DEF Outcome
<1>14. status[i] # "unused" /\ status'[i] # "unused"
  BY <1>1, <1>12 DEF RowsOK, RowsGivenOut
<1>15. RowsGivenOut'
  <2>1. \A j \in Id : status'[j] = "unused" <=> status[j] = "unused"
    BY <1>11, <1>14
  <2>2. \A d \in Cycle : \A j \in batch'[d] : j \in Id /\ j \in batch[d]
    BY <1>6, <1>7 DEF TypeOK
  <2>3. last' = last /\ posts' = posts
    BY <1>4
  <2> QED BY <2>1, <2>2, <2>3 DEF RowsOK, RowsGivenOut
<1>16. ASSUME NEW j \in Id \ marked, Untouched(j) PROVE Untouched(j)'
  <2>1. CASE j # i
    <3>1. \A d \in Cycle : j \in batch'[d] => d = c /\ j \in batch[c] /\ seen'[c][j] = seen[c][j]
      BY <1>6, <1>7
    <3>2. attempts[j] + 0 <= posts[j]
      BY <1>10, <1>16, <2>1 DEF Untouched
    <3> QED BY <1>4, <1>8, <1>11, <1>16, <2>1, <3>1, <3>2 DEF Untouched
  <2>2. CASE j = i
    <3>1. status[i] \in Active /\ seen[c][i] = attempts[i] /\ attempts[i] + 1 <= posts[i]
      BY <1>1, <1>9, <1>16, <2>2 DEF Untouched
    <3>2. InTable(i) /\ status'[i] = st
      BY <1>12, <3>1 DEF InTable
    <3>3. attempts[i] \in Nat /\ posts[i] \in Nat /\ max_attempts \in Nat
      BY RowNumbers
    <3>4. attempts'[i] + 0 <= posts[i]
      BY <1>12, <3>1, <3>2, <3>3
    <3>5. st = "dead_letter" => verdict'[i] = "definitive" \/ posts[i] >= max_attempts
      BY <1>13, <3>1, <3>3
    <3>6. \A d \in Cycle : i \notin batch'[d]
      BY <1>6, <1>7
    <3> QED BY <1>4, <1>8, <1>13, <2>2, <3>2, <3>4, <3>5, <3>6 DEF Untouched
  <2> QED BY <2>1, <2>2
<1>17. ASSUME NEW j \in Id, max_attempts > 0, Spent(j) PROVE Spent(j)'
  <2>0. /\ attempts[j] \in Nat /\ attempts'[j] \in Nat /\ posts[j] \in Nat
        /\ marks \in Nat /\ lapses \in Nat /\ max_attempts \in Nat /\ seen[c][j] \in Nat
    BY RowNumbers DEF TypeOK
  <2>1. CASE j # i
    <3>1. \A d \in Cycle : j \in batch'[d] => d = c /\ j \in batch[c] /\ seen'[c][j] = seen[c][j]
      BY <1>6, <1>7
    <3> QED BY <1>4, <1>8, <1>10, <1>11, <1>17, <2>1, <3>1 DEF Spent
  <2>2. CASE j = i
    <3>1. seen[c][i] <= attempts[i] /\ posts[i] <= Retried(seen[c][i]) + marks + lapses + 1
      BY <1>1, <1>9, <1>17, <2>2 DEF Spent
    <3>2. /\ Retried(seen[c][i]) \in Nat /\ Retried(attempts'[i]) \in Nat
          /\ Retried(seen[c][i]) <= Retried(attempts'[i])
      <4>1. seen[c][i] <= attempts'[i]
        BY <1>12, <2>0, <2>2, <3>1
      <4> QED BY <1>17, <2>0, <2>2, <4>1, RetriedFacts
    <3>3. CASE status'[i] \in Terminal \cup {"pruned"}
      <4>1. posts[i] <= Retried(attempts'[i]) + marks + lapses + 1
        BY <2>0, <2>2, <3>1, <3>2
      <4>2. \A d \in Cycle : i \notin batch'[d]
        BY <1>6, <1>7
      <4> QED BY <1>4, <2>2, <3>3, <4>1, <4>2 DEF Spent
    <3>4. CASE status'[i] \notin Terminal \cup {"pruned"}
      <4>1. InTable(i) /\ st = "retry"
        <5>1. status[i] \in Active \cup Terminal \cup {"unused", "pruned"}
          BY DEF TypeOK
        <5> QED BY <1>12, <1>14, <3>4, <5>1 DEF InTable, Active, Terminal
      <4>2. seen[c][i] + 1 < max_attempts /\ seen[c][i] + 1 <= attempts'[i]
        BY <1>12, <1>13, <2>0, <2>2, <3>1, <4>1
      <4>3. Retried(seen[c][i]) = seen[c][i] /\ Retried(seen[c][i] + 1) = seen[c][i] + 1
        BY <1>17, <2>0, <2>2, <4>2, RetriedFacts
      <4>4. Retried(seen[c][i] + 1) <= Retried(attempts'[i])
        BY <1>17, <2>0, <2>2, <4>2, RetriedFacts
      <4>5. posts[i] <= Retried(attempts'[i]) + marks + lapses + 0
        BY <2>0, <2>2, <3>1, <3>2, <4>3, <4>4
      <4>6. \A d \in Cycle : i \notin batch'[d]
        BY <1>6, <1>7
      <4> QED BY <1>4, <1>8, <2>2, <3>4, <4>5, <4>6 DEF Spent
    <3> QED BY <3>3, <3>4
  <2> QED BY <2>1, <2>2
<1> QED BY <1>4, <1>15, <1>16, <1>17 DEF RowsOK

\* An operator's mark pays for the post it may lead to.
LEMMA MarkStep ==
    ASSUME TypeOK, TypeOK', LockOK, RowsOK, NEW i \in Id, OperatorMarks(i)
    PROVE  RowsOK'
<1>1. /\ InTable(i) /\ marks' = marks + 1 /\ marked' = marked \cup {i}
      /\ UNCHANGED <<key, last, cycles, accepted, posts, verdict, lapses>>
  BY DEF OperatorMarks, mark_delivered, mark_failed
<1>2. \A j \in Id \ {i} : status'[j] = status[j] /\ attempts'[j] = attempts[j]
  BY DEF OperatorMarks, mark_delivered, mark_failed, TypeOK
<1>3. /\ status'[i] \in Active \cup Terminal
      /\ attempts'[i] = attempts[i] \/ attempts'[i] = attempts[i] + 1
  <2>1. CASE mark_delivered(i)
    BY <1>1, <2>1 DEF mark_delivered, TypeOK, Terminal
  <2>2. ASSUME NEW retry \in BOOLEAN, mark_failed(i, retry)
        PROVE  /\ status'[i] \in Active \cup Terminal
               /\ attempts'[i] = attempts[i] \/ attempts'[i] = attempts[i] + 1
    BY <1>1, <2>2 DEF mark_failed, TypeOK, Active, Terminal
  <2> QED BY <2>1, <2>2 DEF OperatorMarks
<1>4. \A j \in Id : /\ Out(j)' <=> Out(j)
                    /\ \A c \in Cycle : Posting(c, j)' <=> Posting(c, j)
  BY <1>1 DEF Out, Posting, cycles
<1>5. RowsGivenOut'
  <2>1. status[i] # "unused" /\ status'[i] # "unused"
    BY <1>1, <1>3 DEF InTable, Active, Terminal
  <2>2. \A j \in Id : status'[j] = "unused" <=> status[j] = "unused"
    BY <1>2, <2>1
  <2>3. last' = last /\ posts' = posts /\ batch' = batch
    BY <1>1 DEF cycles
  <2>4. \A c \in Cycle : batch[c] \subseteq Id
    BY DEF TypeOK
  <2> QED BY <2>2, <2>3, <2>4 DEF RowsOK, RowsGivenOut
<1>6. ASSUME NEW j \in Id \ marked', Untouched(j) PROVE Untouched(j)'
  <2>1. j # i /\ status'[j] = status[j] /\ attempts'[j] = attempts[j]
    BY <1>1, <1>2, <1>6
  <2>2. /\ UNCHANGED <<key, accepted, posts, verdict, batch, seen>>
        /\ Out(j)' <=> Out(j)
    BY <1>1, <1>4 DEF cycles
  <2> QED BY <1>6, <2>1, <2>2 DEF Untouched
<1>7. ASSUME NEW j \in Id, max_attempts > 0, Spent(j) PROVE Spent(j)'
  <2>1. /\ attempts[j] \in Nat /\ attempts'[j] \in Nat /\ posts[j] \in Nat
        /\ marks \in Nat /\ lapses \in Nat /\ \A c \in Cycle : seen[c][j] \in Nat
    BY RowNumbers DEF TypeOK
  <2>2. attempts[j] <= attempts'[j]
    BY <1>2, <1>3, <2>1
  <2>3. /\ Retried(attempts[j]) \in Nat /\ Retried(attempts'[j]) \in Nat
        /\ Retried(attempts[j]) <= Retried(attempts'[j])
    BY <1>7, <2>1, <2>2, RetriedFacts
  <2>4. \A c \in Cycle : Retried(seen[c][j]) \in Nat
    BY <1>7, <2>1, RetriedFacts
  <2>5. posts[j] <= Retried(attempts[j]) + marks + lapses + 1
    BY <1>7, <2>1, <2>3 DEF Spent
  <2>6. posts[j] <= Retried(attempts'[j]) + (marks + 1) + lapses + 0
    BY <2>1, <2>3, <2>5
  <2>7. posts[j] <= Retried(attempts'[j]) + (marks + 1) + lapses
                    + (IF Out(j)' \/ status'[j] \in Terminal \cup {"pruned"} THEN 1 ELSE 0)
    BY <2>1, <2>3, <2>6
  <2>8. ASSUME NEW c \in Cycle, j \in batch[c]
        PROVE  /\ seen[c][j] <= attempts'[j]
               /\ posts[j] <= Retried(seen[c][j]) + (marks + 1) + lapses
                              + (IF Posting(c, j)' THEN 1 ELSE 0)
    <3>1. /\ seen[c][j] <= attempts[j]
          /\ posts[j] <= Retried(seen[c][j]) + marks + lapses + (IF Posting(c, j) THEN 1 ELSE 0)
      BY <1>7, <2>8 DEF Spent
    <3> QED BY <1>4, <2>1, <2>2, <2>4, <3>1
  <2> QED BY <1>1, <2>7, <2>8 DEF Spent, cycles
<1> QED BY <1>1, <1>5, <1>6, <1>7 DEF RowsOK

-----------------------------------------------------------------------------
\* The invariant holds throughout.
LEMMA InvariantHolds == Spec => []IInv
<1>1. Init => IInv
  <2> SUFFICES ASSUME Init PROVE IInv
    OBVIOUS
  <2>1. TypeOK
    BY OutboxAssumption DEF Init, TypeOK
  <2>2. LockOK
    BY DEF Init, LockOK, Working
  <2>3. \A i \in Id : ~Out(i) /\ \A c \in Cycle : batch[c] = {}
    BY DEF Init, Out, Posting
  <2>4. RowsGivenOut
    BY OutboxAssumption DEF Init, RowsGivenOut, Id
  <2>5. \A i \in Id : Untouched(i)
    BY <2>3 DEF Init, Untouched
  <2>6. ASSUME NEW i \in Id, max_attempts > 0 PROVE Spent(i)
    <3>1. Retried(0) \in Nat
      BY <2>6, RetriedFacts
    <3> QED BY <2>3, <3>1 DEF Init, Spent, Terminal
  <2> QED BY <2>1, <2>2, <2>4, <2>5, <2>6 DEF IInv, RowsOK
<1>2. IInv /\ [Next]_vars => IInv'
  <2> SUFFICES ASSUME IInv, [Next]_vars PROVE IInv'
    OBVIOUS
  <2>1. TypeOK' /\ LockOK' /\ TypeOK /\ LockOK /\ RowsOK
    BY TypeStep, LockStep DEF IInv
  <2>2. ASSUME NEW c \in Cycle, AskLock(c) PROVE RowsOK'
    <3>1. \A d \in Cycle : pc'[d] = "posting" <=> pc[d] = "posting"
      BY <2>1, <2>2 DEF AskLock, Go, TypeOK
    <3>2. lapses <= lapses'
      BY <2>1, <2>2, OutboxAssumption DEF AskLock, TypeOK
    <3> QED BY <2>1, <2>2, <3>1, <3>2, CyclesForget DEF AskLock
  <2>3. ASSUME NEW c \in Cycle, EndCycle(c) \/ AbortCycle(c) PROVE RowsOK'
    <3>1. lapses \in Nat
      BY <2>1, OutboxAssumption DEF TypeOK
    <3>2. /\ lapses <= lapses' /\ (pc[c] = "posting" => lapses + 1 <= lapses')
          /\ accepted \subseteq accepted'
      BY <2>3, <3>1 DEF EndCycle, AbortCycle
    <3>3. UNCHANGED <<table, posts, verdict, marked, marks>> /\ Forget(c)
      BY <2>3 DEF EndCycle, AbortCycle
    <3>4. /\ batch'[c] = {} /\ pc'[c] = "idle"
          /\ \A d \in Cycle \ {c} : batch'[d] = batch[d] /\ seen'[d] = seen[d] /\ pc'[d] = pc[d]
      BY <2>1, <3>3 DEF Forget, Go, TypeOK
    <3> QED BY <2>1, <3>2, <3>3, <3>4, CyclesForget
  <2>4. ASSUME Crash PROVE RowsOK'
    <3>1. lapses \in Nat /\ lapses' = lapses + 1 /\ accepted \subseteq accepted'
      BY <2>1, <2>4, OutboxAssumption DEF Crash, TypeOK
    <3>2. lapses <= lapses' /\ lapses + 1 <= lapses'
      BY <3>1
    <3> QED BY <2>1, <2>4, <3>1, <3>2, CyclesForget DEF Crash
  <2>5. ASSUME UNCHANGED vars PROVE RowsOK'
    <3>1. lapses <= lapses'
      BY <2>1, <2>5, OutboxAssumption DEF vars, TypeOK
    <3> QED BY <2>1, <2>5, <3>1, CyclesForget DEF vars, cycles
  <2>6. RowsOK'
    BY <2>1, <2>2, <2>3, <2>4, <2>5, TableStep, ReadStep, PostStep, AnswerStep, MarkStep
    DEF Next, Work
  <2> QED BY <2>1, <2>6 DEF IInv
<1> QED BY <1>1, <1>2, PTL DEF Spec

\* Table, lock and cycles keep their types, for any rows, cycles and bounds.
THEOREM TypeCorrect == Spec => []TypeOK
<1>1. IInv => TypeOK
  BY DEF IInv
<1> QED BY <1>1, InvariantHolds, PTL

\* No crash, abort, retry or pruning loses an event or claims a delivery that did
\* not happen, unless an operator marked the row (_dispatch_one, prune_terminal).
THEOREM NoEventLost == Spec => []NothingLost
<1>1. IInv => NothingLost
  <2> SUFFICES ASSUME IInv, NEW i \in 1..last \ marked
               PROVE  LET Taken == key[i] \in accepted
                          GivenUp == verdict[i] = "definitive" \/ posts[i] >= max_attempts
                      IN  CASE status[i] = "delivered" -> Taken
                            [] status[i] = "dead_letter" -> GivenUp
                            [] status[i] = "pruned" -> Taken \/ GivenUp
                            [] OTHER -> status[i] \in Active
    BY DEF NothingLost
  <2>0. MaxRows \in Nat /\ last \in Nat /\ last <= MaxRows
    BY OutboxAssumption DEF IInv, TypeOK
  <2>1. i \in Id /\ i \notin marked /\ ~(i > last)
    BY <2>0 DEF Id
  <2>2. status[i] \in Active \cup {"delivered", "dead_letter", "pruned"}
    BY <2>1 DEF IInv, TypeOK, RowsOK, RowsGivenOut, Terminal
  <2>3. Untouched(i)
    BY <2>1 DEF IInv, RowsOK
  <2>4. CASE status[i] = "delivered"
    BY <2>3, <2>4 DEF Untouched
  <2>5. CASE status[i] = "dead_letter"
    BY <2>3, <2>5 DEF Untouched
  <2>6. CASE status[i] = "pruned"
    BY <2>3, <2>6 DEF Untouched
  <2>7. CASE status[i] \in Active
    BY <2>7 DEF Active
  <2> QED BY <2>2, <2>4, <2>5, <2>6, <2>7
<1> QED BY <1>1, InvariantHolds, PTL

\* A row is posted max_attempts times, and once more for every lapse or mark:
\* cycles that overlap never spend an attempt twice (outbox_dispatch_lock).
THEOREM AttemptsBounded == Spec => []PostsBounded
<1>1. IInv => PostsBounded
  <2> SUFFICES ASSUME IInv, NEW i \in Id, max_attempts > 0
               PROVE  posts[i] <= max_attempts + lapses + marks
    BY DEF PostsBounded
  <2>1. /\ attempts[i] \in Nat /\ posts[i] \in Nat /\ marks \in Nat /\ lapses \in Nat
        /\ max_attempts \in Nat
    BY RowNumbers DEF IInv
  <2>2. Retried(attempts[i]) \in Nat /\ Retried(attempts[i]) <= max_attempts - 1
    BY <2>1, RetriedFacts
  <2>3. posts[i] <= Retried(attempts[i]) + marks + lapses + 1
    BY <2>1, <2>2 DEF IInv, RowsOK, Spent
  <2> QED BY <2>1, <2>2, <2>3
<1> QED BY <1>1, InvariantHolds, PTL

\* No step of the dispatcher takes back a delivery.
THEOREM DeliveryIsFinal == Spec => DeliveredIsFinal
<1>1. IInv /\ [Next]_vars =>
        [\A i \in Id \ marked' :
            status[i] = "delivered" => status'[i] \in {"delivered", "pruned"}]_vars
  <2> SUFFICES ASSUME IInv, Next, NEW j \in Id \ marked', status[j] = "delivered"
               PROVE  status'[j] \in {"delivered", "pruned"}
    OBVIOUS
  <2>1. ASSUME NEW c \in Cycle, Answer(c) PROVE status'[j] = status[j]
    <3>0. pc[c] = "posting"
      BY <2>1 DEF Answer, Delivered, TransportFails, Refused, Answered
    <3>1. PICK i \in Id : i = First(batch[c]) /\ i \in batch[c]
      BY <3>0, AnswerFinds DEF IInv
    <3>2. AnswerEffect(c, i)
      BY <2>1, <3>1, AnswerDoes DEF IInv
    <3>3. marked' = marked /\ \A k \in Id \ {i} : status'[k] = status[k]
      BY <3>2 DEF AnswerEffect, Outcome, IInv, TypeOK
    <3>4. j # i
      BY <3>1, <3>3 DEF IInv, RowsOK, Untouched, Active
    <3> QED BY <3>3, <3>4
  <2>2. ASSUME NEW i \in Id, OperatorMarks(i) PROVE status'[j] = status[j]
    BY <2>2 DEF OperatorMarks, mark_delivered, mark_failed, IInv, TypeOK
  <2>3. CASE enqueue
    <3>1. last + 1 \in Id /\ last + 1 > last
      BY <2>3, OutboxAssumption DEF enqueue, IInv, TypeOK, Id
    <3>2. status[last + 1] = "unused"
      BY <3>1 DEF IInv, RowsOK, RowsGivenOut
    <3> QED BY <2>3, <3>2 DEF enqueue, IInv, TypeOK
  <2>4. CASE prune_terminal
    BY <2>4 DEF prune_terminal
  <2>5. ASSUME NEW c \in Cycle,
               AskLock(c) \/ ReadBatch(c) \/ Post(c) \/ EndCycle(c) \/ AbortCycle(c)
        PROVE  status'[j] = status[j]
    BY <2>5 DEF AskLock, ReadBatch, Post, EndCycle, AbortCycle, table
  <2>6. CASE Crash
    BY <2>6 DEF Crash, table
  <2> QED BY <2>1, <2>2, <2>3, <2>4, <2>5, <2>6 DEF Next, Work
<1> QED BY <1>1, InvariantHolds, PTL DEF Spec, DeliveredIsFinal
=============================================================================
