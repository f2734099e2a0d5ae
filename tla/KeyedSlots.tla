---------------------------- MODULE KeyedSlots -----------------------------
(***************************************************************************)
(* Keyed admission of the upstream pools: KeyedActivity and acquire_slot   *)
(* of rsproxy-net/src/upstream_pool.rs.                                    *)
(*                                                                         *)
(* One mutex protects a count per pool key; one condition variable, shared *)
(* by all keys, wakes waiting threads.  acquire_slot checks, waits and     *)
(* checks again until a slot is free or the time since `started` is used   *)
(* up.  H1Pool and H2Pool extend this module.                              *)
(*                                                                         *)
(* Every step of this module and of its users that holds the mutex is one  *)
(* action.  A thread in `asleep` is inside Condvar::wait_timeout; `elapsed`*)
(* says that the timeout of a waiting thread has passed.                   *)
(***************************************************************************)
EXTENDS Naturals, FiniteSets

CONSTANTS Threads, Keys,
          Limit       \* max_active_per_key, max_active_streams_per_key

ASSUME SlotsAssumption ==
    /\ IsFiniteSet(Threads) /\ IsFiniteSet(Keys)
    /\ Limit \in Nat \ {0}

VARIABLES
    active,     \* KeyedActivity.per_key, 0 for an absent key
    asleep,     \* threads waiting on the condition variable
    elapsed     \* threads whose wait timeout has passed

slotVars == <<active, asleep, elapsed>>

SlotsInit ==
    /\ active = [k \in Keys |-> 0]
    /\ asleep = {} /\ elapsed = {}

SlotsTypeOK ==
    /\ active \in [Keys -> Nat]
    /\ asleep \subseteq Threads /\ elapsed \subseteq Threads

\* ActivityStore
SlotFree(k) == active[k] < Limit
ReserveSlot(k) == active' = [active EXCEPT ![k] = @ + 1]
ReleaseSlot(k) == active' = [active EXCEPT ![k] = IF @ = 0 THEN 0 ELSE @ - 1]

\* One turn of the loop in acquire_slot, by a thread that is awake.
TakeSlot(t, k) ==
    /\ t \notin asleep /\ SlotFree(k)
    /\ ReserveSlot(k)
    /\ elapsed' = elapsed \ {t}
    /\ UNCHANGED asleep

WaitForSlot(t, k) ==
    /\ t \notin asleep /\ ~SlotFree(k) /\ t \notin elapsed
    /\ asleep' = asleep \cup {t}
    /\ UNCHANGED <<active, elapsed>>

SlotTimesOut(t, k) ==
    /\ t \notin asleep /\ ~SlotFree(k) /\ t \in elapsed
    /\ elapsed' = elapsed \ {t}
    /\ UNCHANGED <<active, asleep>>

\* The condition variable: wait_timeout returns because it was notified,
\* because the timeout passed, or for no reason.
NotifyOne ==
    IF asleep = {} THEN UNCHANGED asleep
    ELSE \E t \in asleep : asleep' = asleep \ {t}
NotifyAll == asleep' = {}

WaitReturnsRenewed(t) ==
    /\ t \in asleep /\ t \in elapsed
    /\ asleep' = asleep \ {t} /\ elapsed' = elapsed \ {t}
    /\ UNCHANGED active
WaitReturns(t) ==
    /\ t \in asleep /\ t \in elapsed
    /\ asleep' = asleep \ {t}
    /\ UNCHANGED <<active, elapsed>>

SpuriousWake(t) ==
    /\ t \in asleep
    /\ asleep' = asleep \ {t}
    /\ UNCHANGED <<active, elapsed>>

\* Time passes until the wait timeout of t is used up.
TimePasses(t) ==
    /\ t \notin elapsed
    /\ elapsed' = elapsed \cup {t}
    /\ UNCHANGED <<active, asleep>>
=============================================================================
