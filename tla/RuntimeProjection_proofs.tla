---------------------- MODULE RuntimeProjection_proofs ----------------------
(***************************************************************************)
(* Proofs about the replacement of runtime state: for any calls of apply   *)
(* and any requests in flight, generations come into force in order, the   *)
(* one in force stays renewable, a gate with leases is forgotten only when *)
(* enough newer ones were replaced, and a request is sent on a gate of its *)
(* token's generation, within capacity.                                    *)
(***************************************************************************)
EXTENDS RuntimeProjection, FiniteSetTheorems, TLAPS

\* A call of apply carries a valid document; once it has swapped the document
\* in, its generation has come into force with that content.
CallsOK == \A a \in Applier :
    /\ apc[a] # "idle" =>
          doc[a] \in [gen : Gen, content : Content] /\ Valid(doc[a].content)
    /\ apc[a] = "swapped" =>
          doc[a].gen <= current /\ installed[doc[a].gen] = doc[a].content

\* The checksum kept is of the content in force; while it is the one of the
\* converted document, the call that swapped it in has still to replace it.
ChecksumOK ==
    current # 0 =>
        /\ installed[current] \in Content /\ Valid(installed[current])
        /\ checksum \in [kind : {"v1", "v2"}, content : {installed[current]}]
        /\ checksum.kind = "v1" =>
              \E a \in Applier : apc[a] = "swapped" /\ doc[a].gen = current

\* Generations are retired once a newer one is in force.
RetiredOK == \A g \in retired : g < current

\* The manager knows a gate, or the gate is older than the list reaches back.
Known(g) == g \in retired \cup {current} \/ current - g > RetiredLimit

\* The gate of a request is one of a generation that has come into force, no
\* older than its token's; it is known to the manager.
GateKnown(q) ==
    /\ gate[q] \in Gen /\ gate[q] <= current
    /\ claim[q] <= gate[q]
    /\ Known(gate[q])
    /\ installed[gate[q]] \in Content /\ Valid(installed[gate[q]])

Holders(g) == {q \in Request : rpc[q] \in Inside \ {"queued"} /\ gate[q] = g}

RequestsOK == \A q \in Request :
    /\ claim[q] <= current
    /\ rpc[q] \in Inside => GateKnown(q)
    /\ rpc[q] \in Inside \ {"queued"} => Active(gate[q]) <= Slots(installed[gate[q]])
    /\ rpc[q] \in {"fenced", "sent"} => gate[q] = claim[q]

IInv == TypeOK /\ CallsOK /\ ChecksumOK /\ RetiredOK /\ RequestsOK

-----------------------------------------------------------------------------
\* Every action of the manager, its callers and the requests preserves the types.
LEMMA TypeStep == TypeOK /\ CallsOK /\ [Next]_vars => TypeOK'
<1> SUFFICES ASSUME TypeOK, CallsOK, [Next]_vars PROVE TypeOK'
  OBVIOUS
<1> USE ProjectionAssumption
<1>1. ASSUME NEW a \in Applier, NEW g \in Gen, NEW x \in Content,
             Prepare(a, g, x) \/ Renew(a, g, x) \/ RefuseAtOnce(a, g, x)
      PROVE  TypeOK'
  <2>1. CASE Prepare(a, g, x)
    BY <2>1 DEF Prepare, ApplierGoes, manager, requests, TypeOK
  <2>2. CASE Renew(a, g, x)
    BY <2>2 DEF Renew, LeaseTime, applying, requests, TypeOK
  <2>3. CASE RefuseAtOnce(a, g, x)
    BY <2>3 DEF RefuseAtOnce, manager, applying, requests, TypeOK
  <2> QED BY <1>1, <2>1, <2>2, <2>3
<1>2. ASSUME NEW a \in Applier, NEW x \in Content, RefuseInvalid(a, x)
      PROVE  TypeOK'
  BY <1>2 DEF RefuseInvalid, manager, applying, requests, TypeOK
<1>3. ASSUME NEW a \in Applier, PrepareFails(a) \/ SwapRefused(a) PROVE TypeOK'
  BY <1>3 DEF PrepareFails, SwapRefused, ApplierDone, ApplierGoes, manager, requests, TypeOK
<1>4. ASSUME NEW a \in Applier, Swap(a) PROVE TypeOK'
  <2>1. doc[a].gen \in Gen /\ doc[a].content \in Content
    BY <1>4 DEF Swap, ApplierAt, CallsOK
  <2>2. retired' \subseteq Gen
    <3>1. retired \cup ({current} \ {0}) \subseteq Gen
      <4>1. current \in 0..MaxGen /\ retired \subseteq Gen
        BY DEF TypeOK
      <4>2. current # 0 => current \in Gen
        BY <4>1 DEF Gen
      <4> QED BY <4>1, <4>2
    <3> QED BY <1>4, <3>1 DEF Swap, Pruned, Newest
  <2>3. checksum' \in [kind : {"v1", "v2"}, content : Content]
    BY <1>4, <2>1 DEF Swap, Checksum
  <2>4. current' \in 0..MaxGen
    BY <1>4, <2>1 DEF Swap, Gen
  <2>5. installed' \in [Gen -> Content \cup {"none"}]
    BY <1>4, <2>1 DEF Swap, TypeOK
  <2>6. apc' \in [Applier -> {"idle", "preparing", "swapped"}]
    BY <1>4 DEF Swap, ApplierGoes, TypeOK
  <2> QED
    BY <1>4, <2>2, <2>3, <2>4, <2>5, <2>6 DEF Swap, LeaseTime, requests, TypeOK
<1>5. ASSUME NEW a \in Applier, SwapRenews(a) PROVE TypeOK'
  <2>1. doc[a].content \in Content
    BY <1>5 DEF SwapRenews, ApplierAt, CallsOK
  <2> QED
    BY <1>5, <2>1
    DEF SwapRenews, ApplierDone, ApplierGoes, LeaseTime, Checksum, requests, TypeOK
<1>6. ASSUME NEW a \in Applier, Postlude(a) PROVE TypeOK'
  <2>1. doc[a].content \in Content
    BY <1>6 DEF Postlude, ApplierAt, CallsOK
  <2>2. checksum' \in {Nothing} \cup [kind : {"v1", "v2"}, content : Content]
    BY <1>6, <2>1 DEF Postlude, V2Checksum, Checksum, TypeOK
  <2>3. fresh' \in BOOLEAN
    BY <1>6 DEF Postlude, LeaseTime, TypeOK
  <2> QED
    BY <1>6, <2>2, <2>3 DEF Postlude, ApplierDone, ApplierGoes, requests, TypeOK
<1>7. ASSUME NEW q \in Request, Serve(q) PROVE TypeOK'
  <2>1. CASE Arrive(q)
    BY <2>1 DEF Arrive, RequestGoes, manager, applying, Inside, TypeOK
  <2>2. CASE Enter(q)
    BY <2>2 DEF Enter, RequestGoes, manager, applying, Inside, TypeOK
  <2>3. CASE Granted(q) \/ Fence(q) \/ Send(q)
    BY <2>3 DEF Granted, Fence, Send, RequestGoes, manager, applying, Inside, TypeOK
  <2>4. CASE Leave(q)
    BY <2>4 DEF Leave, RequestGoes, manager, applying, Inside, TypeOK
  <2> QED BY <1>7, <2>1, <2>2, <2>3, <2>4 DEF Serve
<1>8. CASE status
  BY <1>8 DEF status, Pruned, Newest, applying, requests, TypeOK
<1>9. CASE LeaseExpires
  BY <1>9 DEF LeaseExpires, applying, requests, TypeOK
<1>10. CASE UNCHANGED vars
  BY <1>10 DEF vars, manager, applying, requests, TypeOK
<1> QED
  BY <1>1, <1>2, <1>3, <1>4, <1>5, <1>6, <1>7, <1>8, <1>9, <1>10 DEF Next, Apply

-----------------------------------------------------------------------------
\* All enabled providers of a valid document have the capacity of the gate
\* that is built for it.
LEMMA OneCapacity ==
    ASSUME NEW x \in Content, Valid(x)
    PROVE  Slots(x) \in Nat /\ \A d \in Enabled(x) : d.slots = Slots(x)
<1>1. (CHOOSE d \in Enabled(x) : TRUE) \in Enabled(x)
  BY DEF Valid
<1>2. \A d \in Enabled(x) : d.slots \in Int /\ d.slots > 0
  BY ProjectionAssumption DEF Enabled, Valid
<1> QED BY <1>1, <1>2 DEF Slots, Valid

\* The leases out of a gate are finitely many.
LEMMA HoldersFinite ==
    ASSUME NEW g
    PROVE  IsFiniteSet(Holders(g)) /\ Active(g) = Cardinality(Holders(g)) /\ Active(g) \in Nat
<1>1. Holders(g) \subseteq Request
  BY DEF Holders
<1>2. IsFiniteSet(Holders(g))
  BY <1>1, FS_Subset, ProjectionAssumption
<1> QED BY <1>2, FS_CardinalityType DEF Active, Holders

\* A step that changes no request, and at most drops idle gates or brings a
\* newer generation into force, leaves the requests in order.
LEMMA RequestsUndisturbed ==
    ASSUME TypeOK, RequestsOK, UNCHANGED requests,
           current' \in Nat, current <= current',
           \A g \in Gen : g <= current /\ current # 0 => installed'[g] = installed[g],
           \A g \in (retired \cup {current}) \ {0} : Busy(g) => Known(g)'
    PROVE  RequestsOK'
<1> SUFFICES ASSUME NEW q \in Request
             PROVE  /\ claim[q] <= current'
                    /\ rpc[q] \in Inside => GateKnown(q)'
                    /\ rpc[q] \in Inside \ {"queued"} =>
                          Active(gate[q])' <= Slots(installed'[gate[q]])
                    /\ rpc[q] \in {"fenced", "sent"} => gate[q] = claim[q]
  BY DEF RequestsOK, requests, Active
<1>1. claim[q] <= current'
  BY ProjectionAssumption DEF RequestsOK, TypeOK
<1>2. ASSUME rpc[q] \in Inside
      PROVE  installed'[gate[q]] = installed[gate[q]] /\ GateKnown(q)'
  <2>1. GateKnown(q) /\ gate[q] \in Gen /\ current # 0
    BY <1>2, ProjectionAssumption DEF RequestsOK, GateKnown, Gen, TypeOK
  <2>2. installed'[gate[q]] = installed[gate[q]]
    BY <2>1 DEF GateKnown
  <2>3. Busy(gate[q])
    BY <1>2 DEF Busy
  <2>4. Known(gate[q])'
    <3>1. gate[q] # 0 /\ Known(gate[q])
      BY <2>1 DEF GateKnown, Gen
    <3>2. CASE gate[q] \in retired \cup {current}
      <4>1. \A g \in (retired \cup {current}) \ {0} : Busy(g) => Known(g)'
        OBVIOUS
      <4> QED BY <2>3, <3>1, <3>2, <4>1 DEF Known, requests
    <3>3. CASE current - gate[q] > RetiredLimit
      BY <3>3, <2>1, ProjectionAssumption DEF Known, Gen, TypeOK, requests
    <3> QED BY <3>1, <3>2, <3>3 DEF Known
  <2>5. gate[q] <= current'
    BY <2>1, ProjectionAssumption DEF GateKnown, Gen, TypeOK
  <2> QED BY <2>1, <2>2, <2>4, <2>5 DEF GateKnown, requests, Valid, Enabled
<1>3. Active(gate[q])' = Active(gate[q])
  BY DEF Active, requests
<1>4. {"fenced", "sent"} \subseteq Inside \ {"queued"}
  BY DEF Inside
<1> QED BY <1>1, <1>2, <1>3, <1>4 DEF RequestsOK, Active, requests

-----------------------------------------------------------------------------
\* A busy generation that _prune_retired cuts off is older than RetiredLimit
\* replaced ones.
LEMMA CutOff ==
    ASSUME NEW G, NEW n \in Nat, NEW g \in G, Busy(g), g \in Nat,
           \A h \in G : h \in Nat /\ h < n
    PROVE  g \in Pruned(G) \/ n - g > RetiredLimit
<1> DEFINE H == {h \in G : h > g}
<1>1. SUFFICES ASSUME ~(Cardinality(H) < RetiredLimit) PROVE n - g > RetiredLimit
  BY DEF Pruned, Newest
<1>2. H \subseteq (g + 1)..(n - 1)
  <2> SUFFICES ASSUME NEW h \in G, h > g PROVE h \in (g + 1)..(n - 1)
    OBVIOUS
  <2>1. h \in Nat /\ h < n
    OBVIOUS
  <2> QED BY <2>1
<1>3. g + 1 \in Int /\ n - 1 \in Int /\ g < n
  OBVIOUS
<1>4. /\ IsFiniteSet((g + 1)..(n - 1))
      /\ Cardinality((g + 1)..(n - 1)) = IF g + 1 > n - 1 THEN 0 ELSE (n - 1) - (g + 1) + 1
  BY <1>3, FS_Interval
<1> HIDE DEF H
<1>5. Cardinality(H) <= Cardinality((g + 1)..(n - 1)) /\ IsFiniteSet(H)
  BY <1>2, <1>4, FS_Subset
<1>6. Cardinality(H) \in Nat
  BY <1>5, FS_CardinalityType
<1> QED BY <1>1, <1>3, <1>4, <1>5, <1>6, ProjectionAssumption

-----------------------------------------------------------------------------
\* A step of the manager that leaves the generation in force and what it came
\* into force with alone, and forgets gates only when it prunes, leaves the
\* requests in order.
LEMMA RequestsKept ==
    ASSUME TypeOK, RetiredOK, RequestsOK, UNCHANGED <<current, installed, requests>>,
           retired' = retired \/ retired' = Pruned(retired)
    PROVE  RetiredOK' /\ RequestsOK'
<1>1. current \in Nat /\ \A g \in retired : g \in Nat /\ g < current
  BY ProjectionAssumption DEF TypeOK, Gen, RetiredOK
<1>2. ASSUME NEW g \in retired, Busy(g) PROVE Known(g)'
  <2>1. g \in Pruned(retired) \/ current - g > RetiredLimit
    BY <1>1, <1>2, CutOff
  <2> QED BY <1>2, <2>1 DEF Known
<1>3. \A g \in (retired \cup {current}) \ {0} : Busy(g) => Known(g)'
  BY <1>2 DEF Known
<1>4. RetiredOK'
  BY <1>1 DEF RetiredOK, Pruned, Newest
<1> QED BY <1>1, <1>3, <1>4, RequestsUndisturbed

\* Every step of a call of apply preserves the invariant.
LEMMA ApplyStep == ASSUME IInv, NEW a \in Applier, Apply(a) PROVE IInv'
<1> USE ProjectionAssumption
<1>0. TypeOK'
  BY TypeStep DEF Next, IInv
<1>1. ASSUME NEW g \in Gen, NEW x \in Content, Prepare(a, g, x) PROVE IInv'
  <2>1. CallsOK'
    BY <1>1 DEF Prepare, ApplierAt, ApplierGoes, manager, CallsOK, IInv, TypeOK, Valid, Enabled
  <2>2. ChecksumOK'
    BY <1>1 DEF Prepare, ApplierAt, ApplierGoes, manager, ChecksumOK, IInv, TypeOK, Valid, Enabled
  <2>3. RetiredOK' /\ RequestsOK'
    BY <1>1, RequestsKept DEF Prepare, manager, requests, IInv
  <2> QED BY <1>0, <2>1, <2>2, <2>3 DEF IInv
<1>2. ASSUME NEW g \in Gen, NEW x \in Content, Renew(a, g, x) PROVE IInv'
  <2>1. CallsOK' /\ ChecksumOK'
    BY <1>2 DEF Renew, applying, CallsOK, ChecksumOK, IInv, Valid, Enabled
  <2>2. RetiredOK' /\ RequestsOK'
    BY <1>2, RequestsKept DEF Renew, IInv
  <2> QED BY <1>0, <2>1, <2>2 DEF IInv
<1>3. ASSUME UNCHANGED <<manager, applying, requests>> PROVE IInv'
  <2>1. CallsOK' /\ ChecksumOK'
    BY <1>3 DEF manager, applying, CallsOK, ChecksumOK, IInv, Valid, Enabled
  <2>2. RetiredOK' /\ RequestsOK'
    BY <1>3, RequestsKept DEF manager, IInv
  <2> QED BY <1>0, <2>1, <2>2 DEF IInv
<1>4. ASSUME PrepareFails(a) \/ SwapRefused(a) PROVE IInv'
  <2>1. /\ apc[a] = "preparing" /\ UNCHANGED <<manager, requests>>
        /\ apc' = [apc EXCEPT ![a] = "idle"] /\ doc' = [doc EXCEPT ![a] = NoDoc]
    BY <1>4 DEF PrepareFails, SwapRefused, ApplierAt, ApplierDone, ApplierGoes
  <2>2. CallsOK'
    BY <2>1 DEF manager, CallsOK, IInv, TypeOK, Valid, Enabled
  <2>3. ChecksumOK'
    BY <2>1 DEF manager, ChecksumOK, IInv, TypeOK, Valid, Enabled
  <2>4. RetiredOK' /\ RequestsOK'
    BY <2>1, RequestsKept DEF manager, IInv
  <2> QED BY <1>0, <2>2, <2>3, <2>4 DEF IInv
<1>5. CASE Swap(a)
  <2> DEFINE g == doc[a].gen  x == doc[a].content
  <2>1. g \in Gen /\ x \in Content /\ Valid(x) /\ apc[a] = "preparing"
    BY <1>5 DEF Swap, ApplierAt, IInv, CallsOK
  <2>2. current \in Nat /\ g \in Nat /\ g >= 1 /\ (current = 0 \/ g = current + 1)
    BY <1>5, <2>1 DEF Swap, Follows, Gen, IInv, TypeOK
  <2>3. /\ current' = g /\ checksum' = [kind |-> "v1", content |-> x]
        /\ installed' = [installed EXCEPT ![g] = x]
        /\ apc' = [apc EXCEPT ![a] = "swapped"] /\ UNCHANGED <<doc, requests>>
        /\ retired' = Pruned(retired \cup ({current} \ {0}))
    BY <1>5 DEF Swap, Checksum, ApplierGoes
  <2> HIDE DEF g, x
  <2>4. installed'[g] = x /\ \A h \in Gen \ {g} : installed'[h] = installed[h]
    BY <2>1, <2>3 DEF IInv, TypeOK
  <2>5. CallsOK'
    <3> SUFFICES ASSUME NEW b \in Applier
                 PROVE  /\ apc'[b] # "idle" =>
                              doc[b] \in [gen : Gen, content : Content] /\ Valid(doc[b].content)
                        /\ apc'[b] = "swapped" =>
                              doc[b].gen <= g /\ installed'[doc[b].gen] = doc[b].content
      BY <2>3 DEF CallsOK, Valid, Enabled
    <3>1. CASE b = a
      BY <3>1, <1>5, <2>1, <2>2, <2>4 DEF Swap, ApplierAt, IInv, CallsOK, g, x
    <3>2. CASE b # a
      <4>1. apc'[b] = apc[b]
        BY <3>2, <2>3 DEF IInv, TypeOK
      <4>2. ASSUME apc[b] = "swapped"
            PROVE  doc[b].gen <= g /\ installed'[doc[b].gen] = doc[b].content
        <5>1. /\ doc[b].gen \in Gen /\ doc[b].gen <= current
              /\ installed[doc[b].gen] = doc[b].content
          BY <4>2 DEF IInv, CallsOK
        <5>2. doc[b].gen < g
          BY <5>1, <2>2 DEF Gen
        <5> QED BY <5>1, <5>2, <2>2, <2>4 DEF Gen
      <4> QED BY <4>1, <4>2 DEF IInv, CallsOK
    <3> QED BY <3>1, <3>2
  <2>6. ChecksumOK'
    <3>1. apc'[a] = "swapped" /\ doc'[a].gen = current'
      BY <2>3 DEF IInv, TypeOK, g
    <3>2. /\ installed'[current'] \in Content /\ Valid(installed'[current'])
          /\ checksum' \in [kind : {"v1", "v2"}, content : {installed'[current']}]
      BY <2>1, <2>3, <2>4 DEF Valid, Enabled
    <3> QED BY <3>1, <3>2 DEF ChecksumOK, Valid, Enabled
  <2>7. RetiredOK'
    <3>1. \A h \in retired \cup ({current} \ {0}) : h \in Nat /\ h < g
      BY <2>2 DEF IInv, TypeOK, Gen, RetiredOK
    <3> QED BY <3>1, <2>3 DEF RetiredOK, Pruned, Newest
  <2>8. RequestsOK'
    <3>1. \A h \in Gen : h <= current /\ current # 0 => installed'[h] = installed[h]
      BY <2>2, <2>4 DEF Gen
    <3>2. ASSUME NEW h \in (retired \cup {current}) \ {0}, Busy(h) PROVE Known(h)'
      <4>1. \A k \in retired \cup ({current} \ {0}) : k \in Nat /\ k < g
        BY <2>2 DEF IInv, TypeOK, Gen, RetiredOK
      <4>2. h \in Pruned(retired \cup ({current} \ {0})) \/ g - h > RetiredLimit
        BY <2>2, <3>2, <4>1, CutOff
      <4> QED BY <2>3, <4>2 DEF Known
    <3>3. current' \in Nat /\ current <= current'
      BY <2>2, <2>3
    <3> QED BY <2>3, <3>1, <3>2, <3>3, RequestsUndisturbed DEF IInv
  <2> QED BY <1>0, <2>5, <2>6, <2>7, <2>8 DEF IInv
<1>6. ASSUME SwapRenews(a) \/ Postlude(a) PROVE IInv'
  <2>1. /\ apc[a] # "idle" /\ UNCHANGED <<current, retired, installed, requests>>
        /\ apc' = [apc EXCEPT ![a] = "idle"] /\ doc' = [doc EXCEPT ![a] = NoDoc]
    BY <1>6 DEF SwapRenews, Postlude, ApplierAt, ApplierDone, ApplierGoes
  <2>2. CallsOK'
    BY <2>1 DEF CallsOK, IInv, TypeOK, Valid, Enabled
  <2>3. RetiredOK' /\ RequestsOK'
    BY <2>1, RequestsKept DEF IInv
  <2> DEFINE
        Takes == /\ current # 0 /\ doc[a].gen = current
                 /\ checksum' = [kind |-> "v2", content |-> doc[a].content]
                 /\ doc[a].content = installed[current]
        Passes == apc[a] = "swapped" /\ doc[a].gen # current /\ UNCHANGED checksum
  <2>4. CASE Takes
    BY <1>0, <2>1, <2>2, <2>3, <2>4 DEF ChecksumOK, IInv, Valid, Enabled
  <2>5. CASE Passes
    <3>1. ChecksumOK'
      BY <2>1, <2>5 DEF ChecksumOK, IInv, TypeOK, Valid, Enabled
    <3> QED BY <1>0, <2>2, <2>3, <3>1 DEF IInv
  <2>6. ASSUME SwapRenews(a) PROVE Takes
    <3>1. /\ current # 0 /\ doc[a].gen = current
          /\ checksum = [kind |-> "v1", content |-> doc[a].content]
          /\ checksum' = [kind |-> "v2", content |-> doc[a].content]
      BY <2>6 DEF SwapRenews, Checksum
    <3>2. checksum.content = installed[current]
      BY <3>1 DEF IInv, ChecksumOK
    <3> QED BY <3>1, <3>2
  <2>7. ASSUME Postlude(a) PROVE Takes \/ Passes
    <3>1. apc[a] = "swapped"
      BY <2>7 DEF Postlude, ApplierAt
    <3>2. doc[a].gen \in Gen /\ installed[doc[a].gen] = doc[a].content
      BY <3>1 DEF IInv, CallsOK
    <3>3. doc[a].gen # 0
      BY <3>2 DEF Gen
    <3> QED BY <2>7, <3>1, <3>2, <3>3 DEF Postlude, StillInForce, V2Checksum, Checksum
  <2> QED BY <1>6, <2>4, <2>5, <2>6, <2>7
<1> QED
  BY <1>1, <1>2, <1>3, <1>4, <1>5, <1>6 DEF Apply, RefuseAtOnce, RefuseInvalid

-----------------------------------------------------------------------------
\* A step of one request that leaves the manager alone is in order when it is
\* for that request, and no gate comes to have more leases but its own.
LEMMA OneRequest ==
    ASSUME IInv, TypeOK', UNCHANGED <<manager, applying>>, NEW q \in Request,
           \A r \in Request \ {q} :
              rpc'[r] = rpc[r] /\ gate'[r] = gate[r] /\ claim'[r] = claim[r],
           claim'[q] <= current,
           rpc'[q] \in Inside => GateKnown(q)',
           rpc'[q] \in Inside \ {"queued"} =>
              \/ rpc[q] \in Inside \ {"queued"} /\ gate'[q] = gate[q]
              \/ Active(gate'[q]) < Slots(installed[gate'[q]]),
           rpc'[q] \in {"fenced", "sent"} => gate'[q] = claim'[q]
    PROVE  IInv'
<1> USE ProjectionAssumption
<1>1. CallsOK' /\ ChecksumOK'
  BY DEF manager, applying, CallsOK, ChecksumOK, IInv, Valid, Enabled
<1>2. RetiredOK' /\ \A r \in Request \ {q} : GateKnown(r) => GateKnown(r)'
  BY DEF manager, RetiredOK, IInv, GateKnown, Known, Valid, Enabled
<1>3. ASSUME NEW r \in Request, rpc'[r] \in Inside \ {"queued"}
      PROVE  Active(gate[r])' <= Slots(installed[gate'[r]])
  <2> DEFINE g == gate'[r]
             n == Slots(installed[g])
  <2>1. rpc'[r] \in Inside
    BY <1>3
  <2>2. GateKnown(r)'
    BY <1>2, <2>1 DEF IInv, RequestsOK
  <2>3. n \in Nat
    BY <2>2, OneCapacity DEF GateKnown, manager, Valid, Enabled
  <2> DEFINE H == {p \in Request : rpc'[p] \in Inside \ {"queued"} /\ gate'[p] = g}
  <2>4. Active(gate[r])' = Cardinality(H)
    BY DEF Active
  <2>5. IsFiniteSet(Holders(g)) /\ Active(g) = Cardinality(Holders(g)) /\ Active(g) \in Nat
    BY HoldersFinite
  <2> HIDE DEF g, n, H
  <2>6. ASSUME H \subseteq Holders(g), Active(g) <= n
        PROVE  Cardinality(H) <= n
    <3>1. IsFiniteSet(H) /\ Cardinality(H) <= Cardinality(Holders(g)) /\ Cardinality(H) \in Nat
      BY <2>5, <2>6, FS_Subset, FS_CardinalityType
    <3> QED BY <3>1, <2>3, <2>5, <2>6
  <2>7. CASE r # q /\ ~(rpc'[q] \in Inside \ {"queued"} /\ gate'[q] = g)
    <3>1. H \subseteq Holders(g)
      BY <2>7 DEF H, Holders
    <3>2. Active(g) <= n
      BY <2>7, <1>3 DEF IInv, RequestsOK, g, n
    <3> QED BY <2>4, <2>6, <3>1, <3>2 DEF n, g
  <2>8. CASE rpc'[q] \in Inside \ {"queued"} /\ gate'[q] = g
    <3>1. CASE rpc[q] \in Inside \ {"queued"} /\ gate'[q] = gate[q]
      <4>1. H \subseteq Holders(g)
        BY <3>1, <2>8 DEF H, Holders
      <4>2. Active(g) <= n
        BY <3>1, <2>8 DEF IInv, RequestsOK, n
      <4> QED BY <2>4, <2>6, <4>1, <4>2 DEF n, g
    <3>2. CASE Active(g) < n
      <4>1. H \subseteq Holders(g) \cup {q}
        BY DEF H, Holders
      <4>2. /\ IsFiniteSet(Holders(g) \cup {q})
            /\ Cardinality(Holders(g) \cup {q}) <= Cardinality(Holders(g)) + 1
        <5>1. IsFiniteSet(Holders(g)) /\ Cardinality(Holders(g)) \in Nat
          BY <2>5
        <5>2. /\ IsFiniteSet(Holders(g) \cup {q})
              /\ \/ Cardinality(Holders(g) \cup {q}) = Cardinality(Holders(g))
                 \/ Cardinality(Holders(g) \cup {q}) = Cardinality(Holders(g)) + 1
          BY <5>1, FS_AddElement, Zenon
        <5> QED BY <5>1, <5>2
      <4>3. IsFiniteSet(H) /\ Cardinality(H) <= Cardinality(Holders(g) \cup {q})
        BY <4>1, <4>2, FS_Subset
      <4>4. Cardinality(H) \in Nat /\ Cardinality(Holders(g) \cup {q}) \in Nat
        BY <4>2, <4>3, FS_CardinalityType
      <4>5. Cardinality(H) <= n
        BY <3>2, <4>2, <4>3, <4>4, <2>3, <2>5
      <4> QED BY <2>4, <4>5 DEF n, g
    <3> QED BY <2>8, <3>1, <3>2 DEF g, n
  <2> QED BY <1>3, <2>7, <2>8 DEF g
<1>4. RequestsOK'
  <2> SUFFICES ASSUME NEW r \in Request
               PROVE  /\ claim'[r] <= current
                      /\ rpc'[r] \in Inside => GateKnown(r)'
                      /\ rpc'[r] \in {"fenced", "sent"} => gate'[r] = claim'[r]
    BY <1>3 DEF RequestsOK, manager
  <2> QED BY <1>2 DEF IInv, RequestsOK
<1> QED BY <1>1, <1>2, <1>4 DEF IInv

\* Every step of a request preserves the invariant.
LEMMA ServeStep == ASSUME IInv, NEW q \in Request, Serve(q) PROVE IInv'
<1> USE ProjectionAssumption
<1>0. TypeOK' /\ current \in Nat
  BY TypeStep DEF Next, IInv, TypeOK
<1>1. CASE Arrive(q)
  BY <1>0, <1>1, OneRequest DEF Arrive, RequestGoes, IInv, TypeOK, Inside
<1>2. CASE Enter(q)
  <2>1. /\ current # 0 /\ gate' = [gate EXCEPT ![q] = current]
        /\ rpc' = [rpc EXCEPT ![q] = IF Active(current) < Slots(installed[current]) /\ ~Waiting(current)
                                     THEN "holding" ELSE "queued"]
        /\ UNCHANGED <<manager, applying, claim>>
    BY <1>2 DEF Enter, RequestGoes
  <2>2. current \in Gen
    BY <2>1 DEF IInv, TypeOK, Gen
  <2>3. gate'[q] = current /\ GateKnown(q)'
    BY <2>1, <2>2 DEF GateKnown, Known, manager, IInv, TypeOK, RequestsOK, ChecksumOK, Valid, Enabled
  <2>4. /\ rpc'[q] \in {"holding", "queued"}
        /\ rpc'[q] = "holding" => Active(current) < Slots(installed[current])
    BY <2>1 DEF IInv, TypeOK
  <2>5. rpc'[q] \in Inside \ {"queued"} => Active(gate'[q]) < Slots(installed[gate'[q]])
    BY <2>3, <2>4
  <2> QED BY <1>0, <2>1, <2>3, <2>4, <2>5, OneRequest DEF IInv, TypeOK, RequestsOK
<1>3. CASE Granted(q) \/ Fence(q) \/ Send(q)
  <2>1. /\ rpc[q] \in Inside /\ UNCHANGED <<manager, applying, claim, gate>>
        /\ \A r \in Request \ {q} : rpc'[r] = rpc[r]
    BY <1>3 DEF Granted, Fence, Send, RequestGoes, Inside, IInv, TypeOK
  <2>2. GateKnown(q) /\ GateKnown(q)'
    BY <2>1 DEF GateKnown, Known, manager, IInv, RequestsOK, Valid, Enabled
  <2>3. CASE Granted(q)
    <3>1. rpc'[q] = "holding" /\ Active(gate[q]) < Slots(installed[gate[q]])
      BY <2>3 DEF Granted, RequestGoes, IInv, TypeOK
    <3> QED BY <1>0, <2>1, <2>2, <3>1, OneRequest DEF IInv, RequestsOK
  <2>4. CASE Fence(q)
    <3>1. rpc[q] = "holding" /\ rpc'[q] = "fenced" /\ claim[q] = current
      BY <2>4 DEF Fence, Authorized, RequestGoes, IInv, TypeOK
    <3>2. gate[q] = claim[q]
      BY <3>1, <2>2 DEF GateKnown, Gen, IInv, TypeOK
    <3>3. rpc[q] \in Inside \ {"queued"}
      BY <3>1 DEF Inside
    <3> QED BY <1>0, <2>1, <2>2, <3>1, <3>2, <3>3, OneRequest DEF IInv, RequestsOK
  <2>5. CASE Send(q)
    <3>1. rpc[q] = "fenced" /\ rpc'[q] = "sent"
      BY <2>5 DEF Send, RequestGoes, IInv, TypeOK
    <3>2. rpc[q] \in Inside \ {"queued"}
      BY <3>1 DEF Inside
    <3> QED BY <1>0, <2>1, <2>2, <3>1, <3>2, OneRequest DEF IInv, RequestsOK
  <2> QED BY <1>3, <2>3, <2>4, <2>5
<1>4. CASE Leave(q)
  <2>1. rpc'[q] = "away" /\ claim'[q] = 0
    BY <1>4 DEF Leave, RequestGoes, IInv, TypeOK
  <2>2. rpc'[q] \notin Inside \cup {"fenced", "sent"}
    BY <2>1 DEF Inside
  <2>3. \A r \in Request \ {q} : rpc'[r] = rpc[r] /\ gate'[r] = gate[r] /\ claim'[r] = claim[r]
    BY <1>4 DEF Leave, RequestGoes, IInv, TypeOK
  <2> QED BY <1>0, <1>4, <2>1, <2>2, <2>3, OneRequest DEF Leave
<1> QED BY <1>1, <1>2, <1>3, <1>4 DEF Serve

-----------------------------------------------------------------------------
\* The invariant holds throughout.
LEMMA InvariantHolds == Spec => []IInv
<1>1. Init => IInv
  <2> SUFFICES ASSUME Init PROVE IInv
    OBVIOUS
  <2>1. 0 \in 0..MaxGen
    BY ProjectionAssumption
  <2>2. TypeOK
    BY <2>1 DEF Init, TypeOK
  <2> QED BY <2>2 DEF Init, IInv, CallsOK, ChecksumOK, RetiredOK, RequestsOK, Inside
<1>2. IInv /\ [Next]_vars => IInv'
  <2> SUFFICES ASSUME IInv, [Next]_vars PROVE IInv'
    OBVIOUS
  <2>1. TypeOK'
    BY TypeStep DEF IInv
  <2>2. ASSUME NEW a \in Applier, Apply(a) PROVE IInv'
    BY <2>2, ApplyStep
  <2>3. ASSUME NEW q \in Request, Serve(q) PROVE IInv'
    BY <2>3, ServeStep
  <2>4. ASSUME status \/ LeaseExpires \/ UNCHANGED vars PROVE IInv'
    <3>1. /\ UNCHANGED <<current, checksum, installed, applying, requests>>
          /\ retired' = retired \/ retired' = Pruned(retired)
      BY <2>4 DEF status, LeaseExpires, vars, manager
    <3>2. CallsOK' /\ ChecksumOK'
      BY <3>1 DEF applying, CallsOK, ChecksumOK, IInv, Valid, Enabled
    <3>3. RetiredOK' /\ RequestsOK'
      BY <3>1, RequestsKept DEF IInv
    <3> QED BY <2>1, <3>2, <3>3 DEF IInv
  <2> QED BY <2>2, <2>3, <2>4 DEF Next
<1> QED BY <1>1, <1>2, PTL DEF Spec

\* The variables of the projection keep their types, for any number of calls of
\* apply, requests and generations.
THEOREM TypeCorrect == Spec => []TypeOK
<1>1. IInv => TypeOK
  BY DEF IInv
<1> QED BY <1>1, InvariantHolds, PTL

\* Between calls of apply the generation in force is recognised by its v2
\* checksum, whatever calls have overlapped (apply in runtime_projection_v2.py).
THEOREM StaysRenewable == Spec => []Renewable
<1>1. IInv => Renewable
  <2> SUFFICES ASSUME IInv, current # 0, \A a \in Applier : apc[a] = "idle"
               PROVE  checksum = [kind |-> "v2", content |-> installed[current]]
    BY DEF Renewable, ApplierAt, Checksum
  <2> QED BY DEF IInv, ChecksumOK
<1> QED BY <1>1, InvariantHolds, PTL

\* _prune_retired, at a swap or when the status is read, drops no gate with
\* leases or waiters before more than RetiredLimit newer generations came.
THEOREM GatesStayKnown == Spec => []LeasesKnown
<1>1. IInv => LeasesKnown
  BY DEF IInv, RequestsOK, GateKnown, Known, LeasesKnown
<1> QED BY <1>1, InvariantHolds, PTL

\* What is sent upstream holds a slot of the generation its token was issued
\* for, within the capacity every enabled provider of the document declares.
THEOREM SentWithinOwnGate == Spec => []SentOnOwnGate
<1>1. IInv => SentOnOwnGate
  <2> SUFFICES ASSUME IInv, NEW q \in Request, rpc[q] \in {"fenced", "sent"}
               PROVE  /\ gate[q] = claim[q]
                      /\ \A d \in Enabled(installed[gate[q]]) : Active(gate[q]) <= d.slots
    BY DEF SentOnOwnGate
  <2>1. rpc[q] \in Inside \ {"queued"} /\ rpc[q] \in Inside
    BY DEF Inside
  <2>2. Active(gate[q]) <= Slots(installed[gate[q]]) /\ GateKnown(q) /\ gate[q] = claim[q]
    BY <2>1 DEF IInv, RequestsOK
  <2>3. \A d \in Enabled(installed[gate[q]]) : d.slots = Slots(installed[gate[q]])
    BY <2>2, OneCapacity DEF GateKnown
  <2> QED BY <2>2, <2>3
<1> QED BY <1>1, InvariantHolds, PTL

\* No step skips a generation or brings one back: the checks that apply repeats
\* after its await are enough, whatever other calls did meanwhile.
THEOREM InOrder == Spec => GenerationsInOrder
<1>1. [Next]_vars => [current' # current => current = 0 \/ current' = current + 1]_vars
  <2> SUFFICES ASSUME Next, current' # current
               PROVE  current = 0 \/ current' = current + 1
    BY DEF vars, manager
  <2>1. \A q \in Request : ~Serve(q)
    BY DEF Serve, Arrive, Enter, Granted, Fence, Send, Leave, manager
  <2>2. PICK a \in Applier : Apply(a)
    BY <2>1 DEF Next, status, LeaseExpires
  <2>3. Swap(a)
    BY <2>2 DEF Apply, Prepare, Renew, RefuseAtOnce, RefuseInvalid, PrepareFails,
                SwapRenews, SwapRefused, Postlude, manager
  <2> QED BY <2>3 DEF Swap, Follows
<1> QED BY <1>1, PTL DEF Spec, GenerationsInOrder
=============================================================================
