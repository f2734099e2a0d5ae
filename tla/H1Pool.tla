------------------------------- MODULE H1Pool -------------------------------
(***************************************************************************)
(* The pooled HTTP/1 fast path of rsproxy-engine: try_pooled               *)
(* (proxy/h1_forward.rs) and proxy/h1_forward/pool.rs.                     *)
(*                                                                         *)
(* A connection carries a permit for its origin.  A thread looks for an    *)
(* idle connection among its own, otherwise it acquires a permit (waiting  *)
(* when the origin is at its limit) and connects.  A connection that can   *)
(* be reused goes back to the thread's own idle list and keeps its permit. *)
(* Dropping a connection gives the permit back and notifies one waiter, in *)
(* two steps.                                                              *)
(***************************************************************************)
EXTENDS KeyedSlots, Retained, SequencesExt

CONSTANTS
    IdleCapacity,       \* THREAD_IDLE_CAPACITY
    NoKey               \* a thread without a request

ASSUME IdleAssumption == IdleCapacity \in Nat \ {0} /\ NoKey \notin Keys

VARIABLES
    pc,         \* where each thread is in try_pooled
    key,        \* the origin of its request
    held,       \* whether its request has a permit (with or without connection)
    reused,     \* whether the connection came from the idle list
    idle,       \* THREAD_POOL of each thread: the origins, oldest first
    drops,      \* origins of connections the thread is dropping
    owes        \* it has released a permit and has not notified yet

threadVars == <<pc, key, held, reused, idle, drops, owes>>
vars == <<slotVars, threadVars>>

Init ==
    /\ SlotsInit
    /\ pc = [t \in Threads |-> "idle"] /\ key = [t \in Threads |-> NoKey]
    /\ held = [t \in Threads |-> FALSE] /\ reused = [t \in Threads |-> FALSE]
    /\ idle = [t \in Threads |-> <<>>] /\ drops = [t \in Threads |-> <<>>]
    /\ owes = [t \in Threads |-> FALSE]

\* Destructors run to their end before the thread goes on.
Ready(t) == drops[t] = <<>> /\ ~owes[t]

Goto(t, at) == pc' = [pc EXCEPT ![t] = at]
Ends(t) == Goto(t, "idle") /\ key' = [key EXCEPT ![t] = NoKey]
Dropped(t, ks) == drops' = [drops EXCEPT ![t] = @ \o ks]

\* A request for which pool_eligible holds.
Request(t) ==
    /\ pc[t] = "idle" /\ Ready(t)
    /\ \E k \in Keys : key' = [key EXCEPT ![t] = k]
    /\ Goto(t, "checkout")
    /\ UNCHANGED <<slotVars, held, reused, idle, drops, owes>>

-----------------------------------------------------------------------------
(***************************************************************************)
(* checkout: the first idle connection to the origin, unless it is older   *)
(* than FAST_POOL_IDLE_TTL.                                                *)
(***************************************************************************)
IdleTo(t) == ToSet(idle[t])
TakenFromIdle(t) == idle' = [idle EXCEPT ![t] = RemoveAt(@, Place(@, {key[t]}, 1))]

CheckoutHit(t) ==
    /\ pc[t] = "checkout" /\ key[t] \in IdleTo(t)
    /\ TakenFromIdle(t)
    /\ held' = [held EXCEPT ![t] = TRUE] /\ reused' = [reused EXCEPT ![t] = TRUE]
    /\ Goto(t, "send")
    /\ UNCHANGED <<slotVars, key, drops, owes>>

CheckoutExpired(t) ==
    /\ pc[t] = "checkout" /\ key[t] \in IdleTo(t)
    /\ TakenFromIdle(t)
    /\ Dropped(t, <<key[t]>>)
    /\ Goto(t, "budget")
    /\ UNCHANGED <<slotVars, key, held, reused, owes>>

CheckoutMiss(t) ==
    /\ pc[t] = "checkout" /\ key[t] \notin IdleTo(t)
    /\ Goto(t, "budget")
    /\ UNCHANGED <<slotVars, key, held, reused, idle, drops, owes>>

-----------------------------------------------------------------------------
(***************************************************************************)
(* acquire and connect.  The wait is cut to what is left of the request's  *)
(* deadline; nothing left is an error.                                     *)
(***************************************************************************)
Budget(t) ==
    /\ pc[t] = "budget" /\ Ready(t)
    /\ Goto(t, "acquire")
    /\ UNCHANGED <<slotVars, key, held, reused, idle, drops, owes>>

DeadlinePassed(t) ==
    /\ pc[t] = "budget" /\ Ready(t)
    /\ Ends(t)
    /\ UNCHANGED <<slotVars, held, reused, idle, drops, owes>>

Acquire(t) ==
    /\ pc[t] = "acquire" /\ Ready(t)
    /\ TakeSlot(t, key[t])
    /\ held' = [held EXCEPT ![t] = TRUE]
    /\ Goto(t, "connect")
    /\ UNCHANGED <<key, reused, idle, drops, owes>>

Sleep(t) ==
    /\ pc[t] = "acquire" /\ Ready(t)
    /\ WaitForSlot(t, key[t])
    /\ UNCHANGED threadVars

AcquireTimesOut(t) ==
    /\ pc[t] = "acquire" /\ Ready(t)
    /\ SlotTimesOut(t, key[t])
    /\ Ends(t)
    /\ UNCHANGED <<held, reused, idle, drops, owes>>

Connected(t) ==
    /\ pc[t] = "connect"
    /\ Goto(t, "send")
    /\ UNCHANGED <<slotVars, key, held, reused, idle, drops, owes>>

\* The request loses its connection (or the permit of one it did not get).
LosesConnection(t) ==
    /\ Dropped(t, <<key[t]>>)
    /\ held' = [held EXCEPT ![t] = FALSE]
    /\ reused' = [reused EXCEPT ![t] = FALSE]
    /\ UNCHANGED <<slotVars, idle, owes>>

ConnectFails(t) ==
    /\ pc[t] = "connect"
    /\ LosesConnection(t)
    /\ Ends(t)

-----------------------------------------------------------------------------
(***************************************************************************)
(* send_request and response::finish.                                      *)
(***************************************************************************)
SendOk(t) ==
    /\ pc[t] = "send"
    /\ Goto(t, "respond")
    /\ UNCHANGED <<slotVars, key, held, reused, idle, drops, owes>>

RetryKeepingPermit(t) ==
    /\ pc[t] = "send" /\ reused[t]
    /\ held' = [held EXCEPT ![t] = FALSE]
    /\ reused' = [reused EXCEPT ![t] = FALSE]
    /\ Goto(t, "budget")
    /\ UNCHANGED <<slotVars, key, idle, drops, owes>>
\* A connection from the idle list was stale: it is dropped before the second
\* attempt acquires a permit.
Retry(t) ==
    /\ pc[t] = "send" /\ reused[t]
    /\ LosesConnection(t)
    /\ Goto(t, "budget")
    /\ UNCHANGED key

SendFails(t) ==
    /\ pc[t] = "send" /\ ~reused[t]
    /\ LosesConnection(t)
    /\ Ends(t)

\* The response failed, or the connection cannot be reused.
Discard(t) ==
    /\ pc[t] = "respond"
    /\ LosesConnection(t)
    /\ Ends(t)

\* How many of n idle connections make room for one more.
Excess(n) == IF n < IdleCapacity THEN 0 ELSE n - IdleCapacity + 1

\* checkin: at most one idle connection per origin and IdleCapacity in all;
\* what has to go is dropped.
Checkin(t) ==
    /\ pc[t] = "respond"
    /\ LET others == Retain(idle[t], Keys \ {key[t]})
           same   == Retain(idle[t], {key[t]})
           excess == Excess(Len(others))
       IN /\ idle' = [idle EXCEPT ![t] = Append(SubSeq(others, excess + 1, Len(others)),
                                                key[t])]
          /\ Dropped(t, same \o SubSeq(others, 1, excess))
    /\ held' = [held EXCEPT ![t] = FALSE]
    /\ reused' = [reused EXCEPT ![t] = FALSE]
    /\ Ends(t)
    /\ UNCHANGED <<slotVars, owes>>

-----------------------------------------------------------------------------
(***************************************************************************)
(* Drop of FastPermit, and the end of a thread, which drops its idle list. *)
(***************************************************************************)
Release(t) ==
    /\ drops[t] # <<>> /\ ~owes[t]
    /\ ReleaseSlot(Head(drops[t]))
    /\ drops' = [drops EXCEPT ![t] = Tail(@)]
    /\ owes' = [owes EXCEPT ![t] = TRUE]
    /\ UNCHANGED <<asleep, elapsed, pc, key, held, reused, idle>>

Notify(t) ==
    /\ owes[t]
    /\ NotifyOne
    /\ owes' = [owes EXCEPT ![t] = FALSE]
    /\ UNCHANGED <<active, elapsed, pc, key, held, reused, idle, drops>>

ThreadExit(t) ==
    /\ pc[t] = "idle" /\ Ready(t) /\ idle[t] # <<>>
    /\ Dropped(t, idle[t])
    /\ idle' = [idle EXCEPT ![t] = <<>>]
    /\ UNCHANGED <<slotVars, pc, key, held, reused, owes>>

Clock(t) ==
    /\ pc[t] = "acquire"
    /\ TimePasses(t) \/ WaitReturns(t)
    /\ UNCHANGED threadVars

Spurious(t) ==
    /\ SpuriousWake(t)
    /\ UNCHANGED threadVars

-----------------------------------------------------------------------------
Work(t) ==
    \/ CheckoutHit(t) \/ CheckoutExpired(t) \/ CheckoutMiss(t)
    \/ Budget(t) \/ DeadlinePassed(t) \/ Acquire(t) \/ Sleep(t) \/ AcquireTimesOut(t)
    \/ Connected(t) \/ ConnectFails(t)
    \/ SendOk(t) \/ Retry(t) \/ SendFails(t) \/ Discard(t) \/ Checkin(t)
    \/ Release(t) \/ Notify(t)

Next ==
    \E t \in Threads : Request(t) \/ Work(t) \/ ThreadExit(t) \/ Clock(t) \/ Spurious(t)

\* Threads that can run do run, I/O is bounded by its timeouts, and time passes.
Spec == Init /\ [][Next]_vars
FairSpec == Spec /\ \A t \in Threads : WF_vars(Work(t)) /\ WF_vars(Clock(t))

-----------------------------------------------------------------------------
(***************************************************************************)
(* Properties.                                                             *)
(***************************************************************************)
TypeOK ==
    /\ SlotsTypeOK
    /\ pc \in [Threads -> {"idle", "checkout", "budget", "acquire", "connect", "send",
                           "respond"}]
    /\ key \in [Threads -> Keys \cup {NoKey}]
    /\ held \in [Threads -> BOOLEAN] /\ reused \in [Threads -> BOOLEAN]
    /\ idle \in [Threads -> Seq(Keys)] /\ drops \in [Threads -> Seq(Keys)]
    /\ owes \in [Threads -> BOOLEAN]
    /\ \A t \in Threads : Len(idle[t]) <= IdleCapacity

\* The permits for k that exist: of requests, idle connections and
\* connections being dropped.
PermitsOf(t, k) ==
    {<<t, "request", 1>> : r \in {u \in {t} : held[u] /\ key[u] = k}}
    \cup {<<t, "idle", i>> : i \in {j \in DOMAIN idle[t] : idle[t][j] = k}}
    \cup {<<t, "drop", i>> : i \in {j \in DOMAIN drops[t] : drops[t][j] = k}}
Permits(k) == UNION {PermitsOf(t, k) : t \in Threads}

\* The count of every origin is the number of permits that exist: retries,
\* expired and displaced idle connections, failed connects and threads that
\* end neither leak a permit nor give one back twice (try_pooled, checkin,
\* Drop for FastPermit).
PermitsCounted == \A k \in Keys : active[k] = Cardinality(Permits(k))

\* Never more connections to an origin than the limit (acquire_slot).
LimitHeld == \A k \in Keys : Cardinality(Permits(k)) <= Limit

\* Every request ends, with an answer or with an error: waiting for a permit
\* is bounded by the timeout although threads keep idle connections, and their
\* permits, for each other's origins (acquire_slot).
RequestsEnd == \A t \in Threads : pc[t] # "idle" ~> pc[t] = "idle"

\* The slots of an origin are sound: as many are counted as connections and
\* requests hold, and never more than the limit (KeyedActivity, acquire_slot,
\* Drop for FastPermit).
SlotsSound == TypeOK /\ PermitsCounted /\ LimitHeld

=============================================================================
