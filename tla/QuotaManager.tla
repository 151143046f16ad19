---------------------------- MODULE QuotaManager ----------------------------
(***************************************************************************)
(* Quota reservations of one provider model (InMemoryQuotaManager in       *)
(* quota.py).  A request reserves its estimate in every dimension before   *)
(* it is dispatched and gets it back if the dispatch fails.  A dimension   *)
(* with a window starts again from zero when the window is over, which is  *)
(* noticed when the counter is next looked at.                             *)
(*                                                                         *)
(* The manager works under a thread lock, so each operation is one step.   *)
(* Time is abstracted to the question whether a counter's reset time has   *)
(* passed.  A dimension without a limit refuses nothing and is left out.   *)
(***************************************************************************)
EXTENDS Integers, FiniteSets, FiniteSetsExt

CONSTANTS Request, Dimension,
          Windowed,      \* the dimensions that have a window
          limit,         \* [Dimension -> Nat]
          amount,        \* [Request -> [Dimension -> Nat]], the estimates
          MaxWindows     \* bound on windows

ASSUME QuotaAssumption ==
    /\ IsFiniteSet(Request)
    /\ Windowed \subseteq Dimension
    /\ limit \in [Dimension -> Nat]
    /\ amount \in [Request -> [Dimension -> Nat]]
    /\ MaxWindows \in Nat

VARIABLES
    used,   \* [Dimension -> Nat], what the counters say
    due,    \* dimensions whose reset time has passed unnoticed
    phase,  \* [Request -> ...]
    window, \* history: [Dimension -> Nat], the window the clock is in
    born    \* history: the windows in which a request was charged

quotaVars == <<used, due, phase, window, born>>

QuotaTypeOK ==
    /\ used \in [Dimension -> Nat]
    /\ due \subseteq Windowed
    /\ phase \in [Request -> {"new", "refused", "reserved", "kept", "refunded"}]
    /\ window \in [Dimension -> 0..MaxWindows]
    /\ born \in [Request -> [Dimension -> 0..MaxWindows]]

QuotaInit ==
    /\ used = [d \in Dimension |-> 0]
    /\ due = {}
    /\ phase = [r \in Request |-> "new"]
    /\ window = [d \in Dimension |-> 0]
    /\ born = [r \in Request |-> [d \in Dimension |-> 0]]

-----------------------------------------------------------------------------
Less(a, b) == IF a > b THEN a - b ELSE 0
Phase(r, p) == phase' = [phase EXCEPT ![r] = p]

\* The clock passes the reset time of a counter.
WindowEnds(d) ==
    /\ d \in Windowed
    /\ window[d] < MaxWindows
    /\ window' = [window EXCEPT ![d] = @ + 1]
    /\ due' = due \cup {d}
    /\ UNCHANGED <<used, phase, born>>

\* reset_if_needed: the counter as it is when it is looked at.
Current(d) == IF d \in due THEN 0 ELSE used[d]

\* _can_reserve_unlocked: there is room in every dimension.
Fits(r) == \A d \in Dimension : Current(d) + amount[r][d] <= limit[d]

reserve(r) ==
    /\ phase[r] = "new"
    /\ Fits(r)
    /\ used' = [d \in Dimension |-> Current(d) + amount[r][d]]
    /\ due' = {}
    /\ born' = [born EXCEPT ![r] = window]
    /\ Phase(r, "reserved")
    /\ UNCHANGED window

\* No room.  The counters looked at before the full one was found have noticed
\* their windows.
refuse(r) ==
    /\ phase[r] = "new"
    /\ ~Fits(r)
    /\ \E seen \in SUBSET due :
          /\ due' = due \ seen
          /\ used' = [d \in Dimension |-> IF d \in seen THEN 0 ELSE used[d]]
    /\ Phase(r, "refused")
    /\ UNCHANGED <<window, born>>

\* The dispatch succeeded: the reservation stands.
keep(r) ==
    /\ phase[r] = "reserved"
    /\ Phase(r, "kept")
    /\ UNCHANGED <<used, due, window, born>>

\* The dispatch failed: the estimate is taken off again, but not below zero.
\* Whether the window has ended since is not looked at.
release(r) ==
    /\ phase[r] = "reserved"
    /\ used' = [d \in Dimension |-> Less(used[d], amount[r][d])]
    /\ Phase(r, "refunded")
    /\ UNCHANGED <<due, window, born>>

QuotaNext ==
    \/ \E r \in Request : reserve(r) \/ refuse(r) \/ keep(r) \/ release(r)
    \/ \E d \in Dimension : WindowEnds(d)

QuotaSpec == QuotaInit /\ [][QuotaNext]_quotaVars

-----------------------------------------------------------------------------
Total(R, d) == MapThenSumSet(LAMBDA r : amount[r][d], R)
Charged == {r \in Request : phase[r] \in {"reserved", "kept"}}
ChargedNow(d) == {r \in Charged : born[r][d] = window[d]}

\* A dimension without a window counts exactly the reservations that stand:
\* refusals and refunds leave nothing behind in any dimension.  One with a
\* window never claims more than was reserved in it, so that a failed attempt
\* does not burn quota, and no counter passes its limit, whichever processes
\* reserve and refund at the same time (_can_reserve_unlocked, release).
CountsExactly ==
    \A d \in Dimension :
        /\ used[d] <= limit[d]
        /\ d \notin Windowed => used[d] = Total(Charged, d)
        /\ d \in Windowed \ due => used[d] <= Total(ChargedNow(d), d)
=============================================================================
