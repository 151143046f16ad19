---------------------------- MODULE AccessPaths ----------------------------
(***************************************************************************)
(* The choice of a network path to one physical runtime                    *)
(* (RuntimeAccessPathSelector in access_paths.py).  The approved urls are  *)
(* probed in order under a lock; the first that answers is kept for TTL    *)
(* and shared by everybody.  A probe is an await: others come and wait for *)
(* the lock, time passes, callers are cancelled.  Runtimes share nothing,  *)
(* so one is enough.  Whether a url answers a probe is up to the network.  *)
(***************************************************************************)
EXTENDS Integers, Sequences

CONSTANTS Request,
          urls,      \* the approved urls in order
          TTL,       \* cache_ttl_seconds
          MaxTime    \* bound on the clock

ASSUME PathAssumption ==
    /\ Len(urls) \in Nat \ {0}
    /\ TTL \in Nat \ {0}
    /\ MaxTime \in Nat

VARIABLES
    clock,   \* time.monotonic
    choice,  \* the cached AccessPathChoice: [url, expires_at], url = 0 is none
    holder,  \* who holds the lock
    sel,     \* [Request -> where its call of select is]
    probing, \* [Request -> the url it is about to probe and the time it began]
    path,    \* [Request -> the url it was given, 0 is none]
    answered \* history: [url -> when it last answered a probe, -1 is never]

pathVars == <<choice, holder, sel, probing, path, answered>>

Url == 1..Len(urls)
None == "none"

PathTypeOK ==
    /\ clock \in 0..MaxTime
    /\ choice \in [url : Url \cup {0}, expires_at : Nat]
    /\ holder \in Request \cup {None}
    /\ sel \in [Request -> {"idle", "waiting", "probing", "chosen", "unreachable", "gone"}]
    /\ probing \in [Request -> [url : Url, now : 0..MaxTime]]
    /\ path \in [Request -> Url \cup {0}]
    /\ answered \in [Url -> -1..MaxTime]

PathInit ==
    /\ clock = 0
    /\ choice = [url |-> 0, expires_at |-> 0]
    /\ holder = None
    /\ sel = [r \in Request |-> "idle"]
    /\ probing = [r \in Request |-> [url |-> 1, now |-> 0]]
    /\ path = [r \in Request |-> 0]
    /\ answered = [u \in Url |-> -1]

-----------------------------------------------------------------------------
Move(r, s) == sel' = [sel EXCEPT ![r] = s]

\* A call that is not probing has no place in the list of urls.
NoProbe == [url |-> 1, now |-> 0]
StopProbing(r) == probing' = [probing EXCEPT ![r] = NoProbe]

\* cached.expires_at > now
Cached == choice.url # 0 /\ choice.expires_at > clock

TakeCached(r) ==
    /\ Cached
    /\ path' = [path EXCEPT ![r] = choice.url]
    /\ Move(r, "chosen")
    /\ UNCHANGED <<choice, holder, probing, answered>>

\* The lock is taken and the first url is probed.
StartProbing(r) ==
    /\ holder = None
    /\ holder' = r
    /\ probing' = [probing EXCEPT ![r] = [url |-> 1, now |-> clock]]
    /\ Move(r, "probing")
    /\ UNCHANGED <<choice, path, answered>>

AwaitLock(r) ==
    /\ holder # None
    /\ Move(r, "waiting")
    /\ UNCHANGED <<choice, holder, probing, path, answered>>

\* select up to its first await: a fresh choice, the lock, or the wait for it.
select(r) ==
    /\ sel[r] = "idle"
    /\ \/ TakeCached(r)
       \/ ~Cached /\ (StartProbing(r) \/ AwaitLock(r))

\* The lock has come to a waiter, who looks at the cache again.
Enter(r) ==
    /\ sel[r] = "waiting"
    /\ holder = None
    /\ TakeCached(r) \/ (~Cached /\ StartProbing(r))

Release == holder' = None

\* Mutant: the choice stays valid beyond its lifetime.
ProbeAnswers_Late(r) ==
    LET u == probing[r].url IN
    /\ sel[r] = "probing"
    /\ choice' = [url |-> u, expires_at |-> clock + TTL + 1]
    /\ path' = [path EXCEPT ![r] = u]
    /\ answered' = [answered EXCEPT ![u] = clock]
    /\ Move(r, "chosen")
    /\ Release
    /\ StopProbing(r)

\* The url answers below 500.  The validity counts from before the probes.
ProbeAnswers(r) ==
    LET u == probing[r].url IN
    /\ sel[r] = "probing"
    /\ choice' = [url |-> u, expires_at |-> probing[r].now + TTL]
    /\ path' = [path EXCEPT ![r] = u]
    /\ answered' = [answered EXCEPT ![u] = clock]
    /\ Move(r, "chosen")
    /\ Release
    /\ StopProbing(r)

\* The url does not answer: the next one, or a retryable ProviderError.
ProbeFails(r) ==
    LET u == probing[r].url IN
    /\ sel[r] = "probing"
    /\ \/ /\ u < Len(urls)
          /\ probing' = [probing EXCEPT ![r].url = u + 1]
          /\ UNCHANGED <<sel, holder>>
       \/ /\ u = Len(urls)
          /\ Move(r, "unreachable")
          /\ Release
          /\ StopProbing(r)
    /\ UNCHANGED <<choice, path, answered>>

\* Mutant: the lock is not given back on cancellation.
CancelSelect_KeepsLock(r) ==
    /\ sel[r] \in {"waiting", "probing"}
    /\ Move(r, "gone")
    /\ UNCHANGED <<choice, holder, probing, path, answered>>

\* The caller is cancelled at one of the two awaits; async with gives the lock back.
CancelSelect(r) ==
    /\ sel[r] \in {"waiting", "probing"}
    /\ Move(r, "gone")
    /\ holder' = IF holder = r THEN None ELSE holder
    /\ StopProbing(r)
    /\ UNCHANGED <<choice, path, answered>>

SelectStep(r) == Enter(r) \/ ProbeAnswers(r) \/ ProbeFails(r)

-----------------------------------------------------------------------------
\* A request is sent only over a url that answered a probe less than the cache
\* lifetime ago, however long the probes before it took (expires_at in select).
PathRecentlyAnswered ==
    [][\A r \in Request : path[r] # path'[r] =>
          /\ answered'[path'[r]] >= 0
          /\ clock - answered'[path'[r]] < TTL]_<<clock, pathVars>>

\* Nobody waits for a path for ever, whoever is cancelled while holding the lock.
InSelect == {r \in Request : sel[r] \in {"waiting", "probing"}}
SelectEnds == InSelect # {} ~> InSelect = {}
=============================================================================
