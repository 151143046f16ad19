----------------------------- MODULE RedisQuota -----------------------------
(***************************************************************************)
(* The quota manager that keeps its counters in Redis (RedisQuotaManager   *)
(* in quota.py), shared by router processes.  An operation watches the     *)
(* keys, reads them, computes, and writes in a transaction that fails if a *)
(* watched key has changed; then it starts again.  Redis is external: its  *)
(* WATCH/MULTI/EXEC is modelled by a version of the keys.                  *)
(***************************************************************************)
EXTENDS QuotaManager

VARIABLES
    backend,  \* which manager build_quota_manager has chosen
    version,  \* changes with every write to the keys
    op        \* [Request -> what the request's operation has read]

redis == <<version, op>>
allVars == <<quotaVars, redis, backend>>

Idle == [step |-> "idle", version |-> 0, used |-> [d \in Dimension |-> 0], due |-> {}]

AllInit ==
    /\ QuotaInit
    /\ backend \in {"memory", "redis"}
    /\ version = 0 /\ op = [r \in Request |-> Idle]

Operating(r) == op[r].step # "idle"

\* WATCH and HGETALL: reserve and release alike.  Whether a window is over is
\* decided by the clock after the read.
Watch(r) ==
    /\ ~Operating(r)
    /\ phase[r] \in {"new", "reserved"}
    /\ op' = [op EXCEPT ![r] = [step |-> "read", version |-> version,
                                used |-> used, due |-> due]]
    /\ UNCHANGED <<quotaVars, version>>

Finish(r) == op' = [op EXCEPT ![r] = Idle]

\* EXEC succeeds only if no watched key was written since WATCH.
Unchanged(r) == op[r].version = version

Read(r, d) == IF d \in op[r].due THEN 0 ELSE op[r].used[d]

ReadFits(r) == \A d \in Dimension : Read(r, d) + amount[r][d] <= limit[d]

\* The keys are written: the next transaction that watches them fails.
Written == version' = version + 1

\* Mutant: the reservation is written without having watched the keys.
CommitReserve_Unwatched(r) ==
    /\ Operating(r) /\ phase[r] = "new"
    /\ ReadFits(r)
    /\ used' = [d \in Dimension |-> Read(r, d) + amount[r][d]]
    /\ due' = due \ op[r].due
    /\ born' = [born EXCEPT ![r] = window]
    /\ Phase(r, "reserved")
    /\ Written
    /\ Finish(r)
    /\ UNCHANGED window

CommitReserve(r) ==
    /\ Operating(r) /\ phase[r] = "new"
    /\ ReadFits(r)
    /\ Unchanged(r)
    /\ used' = [d \in Dimension |-> Read(r, d) + amount[r][d]]
    /\ due' = due \ op[r].due
    /\ born' = [born EXCEPT ![r] = window]
    /\ Phase(r, "reserved")
    /\ Written
    /\ Finish(r)
    /\ UNCHANGED window

\* There is no room in what was read; nothing is written.
RefuseRead(r) ==
    /\ Operating(r) /\ phase[r] = "new"
    /\ ~ReadFits(r)
    /\ Phase(r, "refused")
    /\ Finish(r)
    /\ UNCHANGED <<used, due, window, born, version>>

CommitRelease(r) ==
    /\ Operating(r) /\ phase[r] = "reserved"
    /\ Unchanged(r)
    /\ used' = [d \in Dimension |-> Less(Read(r, d), amount[r][d])]
    /\ due' = due \ op[r].due
    /\ Phase(r, "refunded")
    /\ Written
    /\ Finish(r)
    /\ UNCHANGED <<window, born>>

\* WatchError: start again.
Retry(r) ==
    /\ Operating(r)
    /\ ~Unchanged(r)
    /\ Finish(r)
    /\ UNCHANGED <<quotaVars, version>>

RedisKeep(r) == ~Operating(r) /\ keep(r) /\ UNCHANGED <<version, op>>
RedisWindowEnds(d) == WindowEnds(d) /\ UNCHANGED <<version, op>>

Operate(r) == Watch(r) \/ CommitReserve(r) \/ RefuseRead(r) \/ CommitRelease(r) \/ Retry(r)

RedisNext ==
    \/ \E r \in Request : Operate(r) \/ RedisKeep(r)
    \/ \E d \in Dimension : RedisWindowEnds(d)

AllNext ==
    /\ \/ backend = "memory" /\ QuotaNext /\ UNCHANGED redis
       \/ backend = "redis" /\ RedisNext
    /\ UNCHANGED backend

AllSpec == AllInit /\ [][AllNext]_allVars
=============================================================================
