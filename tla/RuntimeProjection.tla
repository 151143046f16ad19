------------------------- MODULE RuntimeProjection -------------------------
(***************************************************************************)
(* Replacing the router's runtime state by signed generations from AssistX *)
(* (runtime_projection.py, runtime_projection_v2.py) while requests are in *)
(* flight (main_live.py, claim_fence.py).  The routing context that is     *)
(* replaced with it belongs to ContextSignals.                             *)
(*                                                                         *)
(* apply awaits twice: while it prepares a generation, and after it has    *)
(* swapped it in.  Poller and operators may apply at the same time.  Every *)
(* generation has gates of its own; one physical runtime is modelled, that *)
(* all providers of a document share.  Which documents arrive is up to the *)
(* publisher; their signatures are taken to be right.                      *)
(***************************************************************************)
EXTENDS Integers, FiniteSets

CONSTANTS Applier, Request,
          Content,         \* what a projection document may say
          Declares,        \* the providers it declares
          RetiredLimit,    \* replaced generations the manager looks at, 16
          MaxGen           \* bound on generations

ASSUME ProjectionAssumption ==
    /\ MaxGen \in Nat
    /\ RetiredLimit \in Nat \ {0}
    /\ IsFiniteSet(Request)
    /\ \A x \in Content : \A d \in Declares[x] :
          d.enabled \in BOOLEAN /\ d.local \in BOOLEAN /\ d.resolved \in BOOLEAN /\ d.slots \in Int

VARIABLES
    current,    \* generation in force, 0 if there is none
    checksum,   \* the checksum kept for it: of the v1 or the v2 document
    fresh,      \* has its lease time left?
    retired,    \* generations kept for their leases
    apc, doc,   \* where a call of apply is, and its document
    rpc, claim, gate,  \* a request, its token's generation, its gate's
    installed   \* the content each generation has come into force with

manager == <<current, checksum, fresh, retired, installed>>
applying == <<apc, doc>>
requests == <<rpc, claim, gate>>
vars == <<manager, applying, requests>>

Gen == 1..MaxGen
NoDoc == [gen |-> 0, content |-> "none"]
Nothing == [kind |-> "none", content |-> "none"]
Checksum(kind, x) == [kind |-> kind, content |-> x]
Inside == {"queued", "holding", "fenced", "sent"}

TypeOK ==
    /\ current \in 0..MaxGen
    /\ checksum \in {Nothing} \cup [kind : {"v1", "v2"}, content : Content]
    /\ fresh \in BOOLEAN
    /\ retired \subseteq Gen
    /\ apc \in [Applier -> {"idle", "preparing", "swapped"}]
    /\ doc \in [Applier -> {NoDoc} \cup [gen : Gen, content : Content]]
    /\ rpc \in [Request -> {"away", "arrived"} \cup Inside]
    /\ claim \in [Request -> 0..MaxGen]
    /\ gate \in [Request -> 0..MaxGen]
    /\ installed \in [Gen -> Content \cup {"none"}]

\* The bootstrap state: no generation, a registry without capacity.
Init ==
    /\ current = 0
    /\ checksum = Nothing
    /\ fresh = FALSE
    /\ retired = {}
    /\ apc = [a \in Applier |-> "idle"]
    /\ doc = [a \in Applier |-> NoDoc]
    /\ rpc = [q \in Request |-> "away"]
    /\ claim = [q \in Request |-> 0]
    /\ gate = [q \in Request |-> 0]
    /\ installed = [g \in Gen |-> "none"]

-----------------------------------------------------------------------------
ApplierAt(a, p) == apc[a] = p
ApplierGoes(a, p) == apc' = [apc EXCEPT ![a] = p]
ApplierDone(a) == ApplierGoes(a, "idle") /\ doc' = [doc EXCEPT ![a] = NoDoc]

\* A generation follows the one in force by exactly one; any may be the first.
Follows(g) == current = 0 \/ g = current + 1

\* The lease time of a document: it may have run out since it was validated.
LeaseTime == fresh' \in BOOLEAN

Enabled(x) == {d \in Declares[x] : d.enabled}

\* validate_projection_document, but for signatures and times: providers have
\* names of their own, and the enabled ones, of which there are some, are local,
\* fully identified, agree on the capacity of the runtime and share no model
\* instance.
Valid(x) ==
    /\ Enabled(x) # {}
    /\ \A d, e \in Declares[x] : d.name = e.name => d = e
    /\ \A d \in Enabled(x) : d.local /\ d.resolved /\ d.slots > 0
    /\ \A d, e \in Enabled(x) : d.slots = e.slots /\ (d # e => d.model # e.model)

\* parallel_slots of the gate built for a document.
Slots(x) == (CHOOSE d \in Enabled(x) : TRUE).slots

RefuseInvalid(a, x) ==
    /\ ApplierAt(a, "idle")
    /\ ~Valid(x)
    /\ UNCHANGED <<manager, applying, requests>>

\* A document of the next generation passes the first checks, and apply awaits
\* the routing context for it.
Prepare(a, g, x) ==
    /\ ApplierAt(a, "idle")
    /\ Valid(x)
    /\ Follows(g)
    /\ doc' = [doc EXCEPT ![a] = [gen |-> g, content |-> x]]
    /\ ApplierGoes(a, "preparing")
    /\ UNCHANGED <<manager, requests>>

\* A document of the generation in force renews its lease.
Renew(a, g, x) ==
    /\ ApplierAt(a, "idle")
    /\ Valid(x)
    /\ current # 0 /\ g = current
    /\ checksum = Checksum("v2", x)
    /\ LeaseTime
    /\ UNCHANGED <<current, checksum, retired, installed,
                   applying, requests>>

\* A rollback, a conflict or a gap.
RefuseAtOnce(a, g, x) ==
    /\ ApplierAt(a, "idle")
    /\ Valid(x)
    /\ current # 0
    /\ ~Follows(g)
    /\ ~(g = current /\ checksum = Checksum("v2", x))
    /\ UNCHANGED <<manager, applying, requests>>

\* The context cannot be loaded, or the gates cannot be built.
PrepareFails(a) ==
    /\ ApplierAt(a, "preparing")
    /\ ApplierDone(a)
    /\ UNCHANGED <<manager, requests>>

Busy(g) == \E q \in Request : rpc[q] \in Inside /\ gate[q] = g

\* Mutant: the list is cut at the wrong end.
Newest_Oldest(G) == {g \in G : Cardinality({h \in G : h < g}) < RetiredLimit}

\* retired[-16:]: generations are retired in order.
Newest(G) == {g \in G : Cardinality({h \in G : h > g}) < RetiredLimit}

\* _prune_retired: the list is cut first, busy or not; then idle ones go.
Pruned(G) == {g \in Newest(G) : Busy(g)}

\* Mutant: the checks are not repeated after the await.
Swap_Unchecked(a) ==
    /\ ApplierAt(a, "preparing")
    /\ doc[a].gen # current
    /\ retired' = Pruned(retired \cup {current})
    /\ current' = doc[a].gen
    /\ checksum' = Checksum("v1", doc[a].content)
    /\ installed' = [installed EXCEPT ![doc[a].gen] = doc[a].content]
    /\ LeaseTime
    /\ ApplierGoes(a, "swapped")
    /\ UNCHANGED <<doc, requests>>

\* The checks are repeated, the generation in force is retired and everything
\* is replaced in one step.  The checksum is that of the converted document.
Swap(a) ==
    /\ ApplierAt(a, "preparing")
    /\ Follows(doc[a].gen)
    /\ retired' = Pruned(retired \cup ({current} \ {0}))
    /\ current' = doc[a].gen
    /\ checksum' = Checksum("v1", doc[a].content)
    /\ installed' = [installed EXCEPT ![doc[a].gen] = doc[a].content]
    /\ LeaseTime
    /\ ApplierGoes(a, "swapped")
    /\ UNCHANGED <<doc, requests>>

\* The generation came into force while this call was preparing it, and the
\* checksum is still that of the converted document: a renewal.
SwapRenews(a) ==
    /\ ApplierAt(a, "preparing")
    /\ current # 0 /\ doc[a].gen = current
    /\ checksum = Checksum("v1", doc[a].content)
    /\ checksum' = Checksum("v2", doc[a].content)
    /\ LeaseTime
    /\ ApplierDone(a)
    /\ UNCHANGED <<current, retired, installed, requests>>

SwapRefused(a) ==
    /\ ApplierAt(a, "preparing")
    /\ ~Follows(doc[a].gen)
    /\ ~(doc[a].gen = current /\ checksum = Checksum("v1", doc[a].content))
    /\ ApplierDone(a)
    /\ UNCHANGED <<manager, requests>>

\* Mutant: the checksum goes to whatever generation is in force by now.
StillInForce_Assumed(a) == TRUE

StillInForce(a) == current = doc[a].gen

V2Checksum(a) == Checksum("v2", doc[a].content)

\* After the snapshot is saved: the v2 checksum and lease replace the v1 ones.
Postlude(a) ==
    /\ ApplierAt(a, "swapped")
    /\ \/ /\ StillInForce(a)
          /\ checksum' = V2Checksum(a)
          /\ LeaseTime
       \/ /\ ~StillInForce(a)
          /\ UNCHANGED <<checksum, fresh>>
    /\ ApplierDone(a)
    /\ UNCHANGED <<current, retired, installed, requests>>

\* An operator looks at the status, which prunes.
status ==
    /\ retired' = Pruned(retired)
    /\ UNCHANGED <<current, checksum, fresh, installed,
                   applying, requests>>

LeaseExpires ==
    /\ fresh
    /\ fresh' = FALSE
    /\ UNCHANGED <<current, checksum, retired, installed,
                   applying, requests>>

-----------------------------------------------------------------------------
Active(g) == Cardinality({q \in Request : rpc[q] \in Inside \ {"queued"} /\ gate[q] = g})
Waiting(g) == \E q \in Request : rpc[q] = "queued" /\ gate[q] = g
RequestGoes(q, p) == rpc' = [rpc EXCEPT ![q] = p]
Authorized(q) == current # 0 /\ fresh /\ claim[q] = current

\* The executor's token is checked: it names the generation in force.
Arrive(q) ==
    /\ rpc[q] = "away"
    /\ current # 0 /\ fresh
    /\ claim' = [claim EXCEPT ![q] = current]
    /\ RequestGoes(q, "arrived")
    /\ UNCHANGED <<manager, applying, gate>>

\* A request enters the gate of the generation in force, if it is fresh.
Enter(q) ==
    /\ rpc[q] = "arrived"
    /\ current # 0 /\ fresh
    /\ gate' = [gate EXCEPT ![q] = current]
    /\ RequestGoes(q, IF Active(current) < Slots(installed[current]) /\ ~Waiting(current)
                      THEN "holding" ELSE "queued")
    /\ UNCHANGED <<manager, applying, claim>>

\* A slot of the gate it waits at comes free.
Granted(q) ==
    /\ rpc[q] = "queued"
    /\ Active(gate[q]) < Slots(installed[gate[q]])
    /\ RequestGoes(q, "holding")
    /\ UNCHANGED <<manager, applying, claim, gate>>

\* Mutant: after the wait only freshness is checked again.
Fence_FreshOnly(q) ==
    /\ rpc[q] = "holding"
    /\ current # 0 /\ fresh
    /\ RequestGoes(q, "fenced")
    /\ UNCHANGED <<manager, applying, claim, gate>>

\* assert_executor_claim_current, up to the question it asks AssistX.
Fence(q) ==
    /\ rpc[q] = "holding"
    /\ Authorized(q)
    /\ RequestGoes(q, "fenced")
    /\ UNCHANGED <<manager, applying, claim, gate>>

\* The claim is active and an access path answers.
Send(q) ==
    /\ rpc[q] = "fenced"
    /\ RequestGoes(q, "sent")
    /\ UNCHANGED <<manager, applying, claim, gate>>

\* The request is over, or refused on its way (stale, queue full, wait timed
\* out, fence, no path); a lease goes back to the gate it came from.
Leave(q) ==
    /\ rpc[q] # "away"
    /\ RequestGoes(q, "away")
    /\ claim' = [claim EXCEPT ![q] = 0]
    /\ gate' = [gate EXCEPT ![q] = 0]
    /\ UNCHANGED <<manager, applying>>

-----------------------------------------------------------------------------
Apply(a) ==
    \/ \E g \in Gen, x \in Content :
          Prepare(a, g, x) \/ Renew(a, g, x) \/ RefuseAtOnce(a, g, x)
    \/ \E x \in Content : RefuseInvalid(a, x)
    \/ PrepareFails(a)
    \/ Swap(a) \/ SwapRenews(a) \/ SwapRefused(a)
    \/ Postlude(a)

Serve(q) ==
    Arrive(q) \/ Enter(q) \/ Granted(q) \/ Fence(q) \/ Send(q) \/ Leave(q)

Next ==
    \/ \E a \in Applier : Apply(a)
    \/ \E q \in Request : Serve(q)
    \/ status \/ LeaseExpires

Spec == Init /\ [][Next]_vars

-----------------------------------------------------------------------------
\* Whatever calls of apply overlap, generations come into force one after the
\* other: none is skipped, none comes back (the checks repeated in apply).
GenerationsInOrder ==
    [][current' # current => current = 0 \/ current' = current + 1]_vars

\* Between calls of apply the generation in force keeps the checksum of the
\* document it came from, so that its next renewal is recognised.
Renewable ==
    (current # 0 /\ \A a \in Applier : ApplierAt(a, "idle"))
        => checksum = Checksum("v2", installed[current])

\* Every gate that has leases or waiters is still known to the manager, until
\* more than RetiredLimit generations have come into force after its own: the
\* cut of _prune_retired then forgets it whoever it still serves, and only then.
LeasesKnown == \A q \in Request :
    rpc[q] \in Inside =>
        gate[q] \in retired \cup {current} \/ current - gate[q] > RetiredLimit

\* A request sent upstream holds its slot at a gate of the generation its
\* token was issued for: those that waited at a replaced gate, or entered a
\* newer one, are stopped (assert_executor_claim_current).  And whichever
\* provider of the runtime it came in by, it is within the capacity that
\* provider declares in the document the gate was built from.
SentOnOwnGate == \A q \in Request :
    rpc[q] \in {"fenced", "sent"} =>
        /\ gate[q] = claim[q]
        /\ \A d \in Enabled(installed[gate[q]]) : Active(gate[q]) <= d.slots
=============================================================================
