------------------------------- MODULE H2Pool -------------------------------
(***************************************************************************)
(* The upstream HTTP/2 pool of rsproxy-net: upstream_h2.rs,                *)
(* upstream_h2/pool.rs, connection.rs and streaming.rs.                    *)
(*                                                                         *)
(* At most one connection per origin is in the pool, under a generation    *)
(* number.  A request takes a stream lease, then uses the pooled           *)
(* connection, or claims the right to connect, or waits for the thread     *)
(* that has claimed it.  A lease is held until the response body ends;     *)
(* dropping it gives the slot and an unfinished claim back and wakes every *)
(* waiter.  Connections die at any time; tasks of the connection and of    *)
(* the idle timer remove what they inserted, by generation.                *)
(*                                                                         *)
(* A member of Threads is one request with its lease, from dispatch to the *)
(* end of its response body (the calling thread and then the body pump).   *)
(* Expiry of the idle TTL is a nondeterministic choice.                    *)
(***************************************************************************)
EXTENDS KeyedSlots, Retained, SequencesExt

CONSTANTS
    PoolCapacity,   \* H2_POOL_CAPACITY
    MaxConnections, \* bound: connections made
    MaxClaims,      \* bound: connector claims
    NoKey

ASSUME PoolAssumption ==
    /\ PoolCapacity \in Nat \ {0}
    /\ MaxConnections \in Nat /\ MaxClaims \in Nat
    /\ NoKey \notin Keys

VARIABLES
    entries,    \* H2Pool.entries: the generation per key, 0 for none
    order,      \* H2Pool.order, least recently used first
    connecting, \* H2Pool.connecting: the claim per key, 0 for none
    nextClaim,  \* NEXT_CONNECTOR_GENERATION
    nextGen,    \* NEXT_GENERATION
    alive,      \* generations whose connection is up
    watched,    \* <<key, generation>> of connection tasks still running
    pc, key,    \* where each request is, and its origin
    claim,      \* H2PoolLease.connector_generation, 0 for none
    gen,        \* the generation of the connection it uses
    owes        \* it has dropped a lease or inserted and has not notified yet

poolVars == <<entries, order, connecting, nextClaim, nextGen>>
connVars == <<alive, watched>>
requestVars == <<pc, key, claim, gen, owes>>
vars == <<slotVars, poolVars, connVars, requestVars>>

Init ==
    /\ SlotsInit
    /\ entries = [k \in Keys |-> 0] /\ order = <<>>
    /\ connecting = [k \in Keys |-> 0] /\ nextClaim = 1 /\ nextGen = 1
    /\ alive = {} /\ watched = {}
    /\ pc = [t \in Threads |-> "idle"] /\ key = [t \in Threads |-> NoKey]
    /\ claim = [t \in Threads |-> 0] /\ gen = [t \in Threads |-> 0]
    /\ owes = [t \in Threads |-> FALSE]

Goto(t, at) == pc' = [pc EXCEPT ![t] = at]
Uses(t, g) == gen' = [gen EXCEPT ![t] = g]
Pooled == {k \in Keys : entries[k] # 0}
Without(s, k) == Retain(s, Keys \ {k})

-----------------------------------------------------------------------------
(***************************************************************************)
(* The operations of H2Pool, each under the pool's mutex.                  *)
(***************************************************************************)
Touch(k) == order' = Append(Without(order, k), k)

RemoveEntry(k) ==
    /\ entries' = [entries EXCEPT ![k] = 0]
    /\ order' = Without(order, k)

RemoveAnyGeneration(k, g) == RemoveEntry(k)
RemoveIfGeneration(k, g) ==
    IF entries[k] = g /\ g # 0 THEN RemoveEntry(k) ELSE UNCHANGED <<entries, order>>

\* insert ends the claim, makes room and puts the entry last.
Insert(k, g) ==
    /\ connecting' = [connecting EXCEPT ![k] = 0]
    /\ IF entries[k] # 0
       THEN entries' = [entries EXCEPT ![k] = g] /\ Touch(k)
       ELSE LET excess == IF Cardinality(Pooled) < PoolCapacity THEN 0
                          ELSE Cardinality(Pooled) - PoolCapacity + 1
                evicted == ToSet(SubSeq(order, 1, excess))
            IN /\ entries' = [j \in Keys |-> IF j = k THEN g
                                             ELSE IF j \in evicted THEN 0 ELSE entries[j]]
               /\ order' = Append(SubSeq(order, excess + 1, Len(order)), k)

\* cancel_connector: only the claim of this very lease.
CancelAnyClaim(t) ==
    IF claim[t] # 0
    THEN connecting' = [connecting EXCEPT ![key[t]] = 0]
    ELSE UNCHANGED connecting
CancelConnector(t) ==
    IF claim[t] # 0 /\ connecting[key[t]] = claim[t]
    THEN connecting' = [connecting EXCEPT ![key[t]] = 0]
    ELSE UNCHANGED connecting

\* Drop for H2PoolLease; the notification is a step of its own.
DropLease(t, next) ==
    /\ ReleaseSlot(key[t])
    /\ CancelConnector(t)
    /\ claim' = [claim EXCEPT ![t] = 0]
    /\ owes' = [owes EXCEPT ![t] = TRUE]
    /\ elapsed' = elapsed \ {t}
    /\ Goto(t, next)
    /\ UNCHANGED <<asleep, nextClaim, nextGen, key>>

-----------------------------------------------------------------------------
(***************************************************************************)
(* dispatch.                                                               *)
(***************************************************************************)
Dispatch(t) ==
    /\ pc[t] = "idle" /\ ~owes[t]
    /\ \E k \in Keys : key' = [key EXCEPT ![t] = k]
    /\ Goto(t, "prune")
    /\ UNCHANGED <<slotVars, poolVars, connVars, claim, gen, owes>>

\* get, called for its effect before this request's lease counts as activity:
\* an expired connection without streams goes, any other becomes the newest.
GetBeforeLease(t) ==
    /\ pc[t] = "prune"
    /\ LET k == key[t]
       IN \/ entries[k] # 0 /\ active[k] = 0 /\ RemoveEntry(k)
          \/ entries[k] # 0 /\ Touch(k) /\ UNCHANGED entries
          \/ entries[k] = 0 /\ UNCHANGED <<entries, order>>
    /\ UNCHANGED <<slotVars, connecting, nextClaim, nextGen, connVars, claim, gen, owes>>

Prune(t) ==
    /\ GetBeforeLease(t)
    /\ Goto(t, "acquire")
    /\ UNCHANGED key

\* Nothing is left of the request's deadline for waiting.
DeadlinePassed(t) ==
    /\ GetBeforeLease(t)
    /\ Goto(t, "idle") /\ key' = [key EXCEPT ![t] = NoKey]

Acquire(t) ==
    /\ pc[t] = "acquire"
    /\ t \notin asleep /\ SlotFree(key[t])
    /\ ReserveSlot(key[t])
    /\ Goto(t, "entry")
    /\ UNCHANGED <<asleep, elapsed, poolVars, connVars, key, claim, gen, owes>>

SleepForSlot(t) ==
    /\ pc[t] = "acquire"
    /\ WaitForSlot(t, key[t])
    /\ UNCHANGED <<poolVars, connVars, requestVars>>

AcquireTimesOut(t) ==
    /\ pc[t] = "acquire"
    /\ SlotTimesOut(t, key[t])
    /\ Goto(t, "idle") /\ key' = [key EXCEPT ![t] = NoKey]
    /\ UNCHANGED <<poolVars, connVars, claim, gen, owes>>

-----------------------------------------------------------------------------
(***************************************************************************)
(* wait_for_entry_or_connector.  The request's own lease keeps get from    *)
(* expiring the entry.                                                     *)
(***************************************************************************)
AtEntry(t) == pc[t] = "entry" /\ t \notin asleep

EntryFound(t) ==
    /\ AtEntry(t) /\ entries[key[t]] # 0
    /\ Touch(key[t])
    /\ Uses(t, entries[key[t]])
    /\ Goto(t, "send")
    /\ UNCHANGED <<slotVars, entries, connecting, nextClaim, nextGen, connVars, key, claim,
                   owes>>

ClaimConnector(t) ==
    /\ AtEntry(t) /\ entries[key[t]] = 0 /\ t \notin elapsed
    /\ connecting[key[t]] = 0 /\ nextClaim <= MaxClaims
    /\ connecting' = [connecting EXCEPT ![key[t]] = nextClaim]
    /\ claim' = [claim EXCEPT ![t] = nextClaim]
    /\ nextClaim' = nextClaim + 1
    /\ Goto(t, "connect")
    /\ UNCHANGED <<slotVars, entries, order, nextGen, connVars, key, gen, owes>>

SleepForConnector(t) ==
    /\ AtEntry(t) /\ entries[key[t]] = 0 /\ t \notin elapsed
    /\ connecting[key[t]] # 0
    /\ asleep' = asleep \cup {t}
    /\ UNCHANGED <<active, elapsed, poolVars, connVars, requestVars>>

EntryTimesOut(t) ==
    /\ AtEntry(t) /\ entries[key[t]] = 0 /\ t \in elapsed
    /\ DropLease(t, "idle")
    /\ UNCHANGED <<entries, order, connVars, gen>>

-----------------------------------------------------------------------------
(***************************************************************************)
(* Sending on a pooled connection (send_on_sender, start_on_sender).       *)
(***************************************************************************)
\* The connection was already closed: its entry is removed and the request
\* looks again, with the lease it has.
SendStale(t) ==
    /\ pc[t] = "send" /\ gen[t] \notin alive
    /\ RemoveIfGeneration(key[t], gen[t])
    /\ Goto(t, "entry") /\ Uses(t, 0)
    /\ UNCHANGED <<slotVars, connecting, nextClaim, nextGen, connVars, key, claim, owes>>

SendOk(t) ==
    /\ pc[t] \in {"send", "first"} /\ gen[t] \in alive /\ ~owes[t]
    /\ Goto(t, "body")
    /\ UNCHANGED <<slotVars, poolVars, connVars, key, claim, gen, owes>>

\* Timeouts keep the entry.
SendTimesOut(t) ==
    /\ pc[t] = "send"
    /\ DropLease(t, "idle") /\ Uses(t, 0)
    /\ UNCHANGED <<entries, order, connVars>>

\* Any other error drops the lease and then removes the entry.
SendFails(t) ==
    /\ pc[t] = "send"
    /\ DropLease(t, "remove")
    /\ UNCHANGED <<entries, order, connVars, gen>>

RemoveFailed(t) ==
    /\ pc[t] = "remove" /\ ~owes[t]
    /\ RemoveIfGeneration(key[t], gen[t])
    /\ Goto(t, "idle") /\ Uses(t, 0)
    /\ UNCHANGED <<slotVars, connecting, nextClaim, nextGen, connVars, key, claim, owes>>

\* pump_response_body: the body ends, or times out, or the client is gone.
BodyEnds(t) ==
    /\ pc[t] = "body"
    /\ DropLease(t, "idle") /\ Uses(t, 0)
    /\ UNCHANGED <<entries, order, connVars>>

\* A body error removes the entry first.
BodyFails(t) ==
    /\ pc[t] = "body"
    /\ RemoveIfGeneration(key[t], gen[t])
    /\ Goto(t, "failed")
    /\ UNCHANGED <<slotVars, connecting, nextClaim, nextGen, connVars, key, claim, gen, owes>>

BodyFailed(t) ==
    /\ pc[t] = "failed"
    /\ DropLease(t, "idle") /\ Uses(t, 0)
    /\ UNCHANGED <<entries, order, connVars>>

-----------------------------------------------------------------------------
(***************************************************************************)
(* H2Connector: the caller connects, or gives up and drops it.             *)
(***************************************************************************)
ConnectFails(t) ==
    /\ pc[t] = "connect"
    /\ DropLease(t, "idle")
    /\ UNCHANGED <<entries, order, connVars, gen>>

\* connect_sender after the handshake: insert, notify, spawn the tasks.
InsertQuietly(t) ==
    /\ pc[t] = "connect" /\ nextGen <= MaxConnections
    /\ Insert(key[t], nextGen)
    /\ Uses(t, nextGen) /\ nextGen' = nextGen + 1
    /\ alive' = alive \cup {nextGen}
    /\ watched' = watched \cup {<<key[t], nextGen>>}
    /\ Goto(t, "first")
    /\ UNCHANGED <<slotVars, nextClaim, key, claim, owes>>
InsertConnection(t) ==
    /\ pc[t] = "connect" /\ nextGen <= MaxConnections
    /\ Insert(key[t], nextGen)
    /\ Uses(t, nextGen) /\ nextGen' = nextGen + 1
    /\ alive' = alive \cup {nextGen}
    /\ watched' = watched \cup {<<key[t], nextGen>>}
    /\ owes' = [owes EXCEPT ![t] = TRUE]
    /\ Goto(t, "first")
    /\ UNCHANGED <<slotVars, nextClaim, key, claim>>

\* The first request on a new connection fails: the entry is left to the
\* connection task.
FirstSendFails(t) ==
    /\ pc[t] = "first" /\ ~owes[t]
    /\ DropLease(t, "idle") /\ Uses(t, 0)
    /\ UNCHANGED <<entries, order, connVars>>

\* state.available.notify_all(), after the mutex was given back.
Notify(t) ==
    /\ owes[t]
    /\ NotifyAll
    /\ owes' = [owes EXCEPT ![t] = FALSE]
    /\ key' = IF pc[t] = "idle" THEN [key EXCEPT ![t] = NoKey] ELSE key
    /\ UNCHANGED <<active, elapsed, poolVars, connVars, pc, claim, gen>>

-----------------------------------------------------------------------------
(***************************************************************************)
(* Connections and their tasks.                                            *)
(***************************************************************************)
ConnectionDies(g) ==
    /\ alive' = alive \ {g}
    /\ UNCHANGED <<slotVars, poolVars, watched, requestVars>>

\* The task that drives the connection removes the entry when it ends.
ConnectionTask(w) ==
    /\ w[2] \notin alive
    /\ RemoveIfGeneration(w[1], w[2])
    /\ watched' = watched \ {w}
    /\ UNCHANGED <<slotVars, connecting, nextClaim, nextGen, alive, requestVars>>

\* spawn_idle_eviction: the entry has been idle for the TTL.
EvictIdle(k) ==
    /\ entries[k] # 0 /\ active[k] = 0
    /\ RemoveEntry(k)
    /\ UNCHANGED <<slotVars, connecting, nextClaim, nextGen, connVars, requestVars>>

Clock(t) ==
    /\ pc[t] \in {"acquire", "entry"}
    /\ TimePasses(t) \/ WaitReturns(t)
    /\ UNCHANGED <<poolVars, connVars, requestVars>>

Spurious(t) ==
    /\ SpuriousWake(t)
    /\ UNCHANGED <<poolVars, connVars, requestVars>>

-----------------------------------------------------------------------------
Work(t) ==
    \/ Prune(t) \/ DeadlinePassed(t) \/ Acquire(t) \/ SleepForSlot(t) \/ AcquireTimesOut(t)
    \/ EntryFound(t) \/ ClaimConnector(t) \/ SleepForConnector(t) \/ EntryTimesOut(t)
    \/ SendStale(t) \/ SendOk(t) \/ SendTimesOut(t) \/ SendFails(t) \/ RemoveFailed(t)
    \/ BodyEnds(t) \/ BodyFails(t) \/ BodyFailed(t)
    \/ ConnectFails(t) \/ InsertConnection(t) \/ FirstSendFails(t) \/ Notify(t)

Next ==
    \/ \E t \in Threads : Dispatch(t) \/ Work(t) \/ Clock(t) \/ Spurious(t)
    \/ \E g \in alive : ConnectionDies(g)
    \/ \E w \in watched : ConnectionTask(w)
    \/ \E k \in Keys : EvictIdle(k)

Spec == Init /\ [][Next]_vars

-----------------------------------------------------------------------------
(***************************************************************************)
(* Properties.                                                             *)
(***************************************************************************)
TypeOK ==
    /\ SlotsTypeOK
    /\ entries \in [Keys -> Nat] /\ order \in Seq(Keys)
    /\ connecting \in [Keys -> Nat] /\ nextClaim \in Nat /\ nextGen \in Nat
    /\ alive \subseteq 1..(nextGen - 1) /\ watched \subseteq Keys \X (1..(nextGen - 1))
    /\ pc \in [Threads -> {"idle", "prune", "acquire", "entry", "send", "body", "failed",
                           "remove", "connect", "first"}]
    /\ key \in [Threads -> Keys \cup {NoKey}]
    /\ claim \in [Threads -> Nat] /\ gen \in [Threads -> Nat]
    /\ owes \in [Threads -> BOOLEAN]

\* Requests that hold a lease for k.
Leases(k) == {t \in Threads : key[t] = k
                /\ pc[t] \in {"entry", "send", "body", "failed", "connect", "first"}}

\* The stream count of an origin is the number of leases held for it, and
\* stays within the limit, whatever fails, times out or is retried
\* (H2PoolLease, acquire_slot).
LeasesCounted ==
    \A k \in Keys : active[k] = Cardinality(Leases(k)) /\ active[k] <= Limit

\* A claim to connect always belongs to exactly one request that is
\* connecting: two requests never connect to one origin at a time, and a
\* request that fails or gives up never leaves a claim behind that would make
\* everyone wait (claim_connector, cancel_connector, insert).
OneConnector ==
    \A k \in Keys :
       LET connectors == {t \in Threads : pc[t] = "connect" /\ key[t] = k}
       IN IF connecting[k] = 0 THEN connectors = {}
          ELSE \E t \in connectors : connectors = {t} /\ claim[t] = connecting[k]

\* Nobody connects to an origin that has a pooled connection
\* (wait_for_entry_or_connector, insert).
NoConnectBesideEntry == \A k \in Keys : connecting[k] # 0 => entries[k] = 0

\* The least-recently-used list names the pooled origins, each once, and the
\* pool stays within its capacity (insert, touch, remove_if_generation).
OrderMatchesEntries ==
    /\ ToSet(order) = Pooled /\ Len(order) = Cardinality(Pooled)
    /\ Cardinality(Pooled) <= PoolCapacity

\* A request that sleeps is waiting for something that is still to come: a
\* sleeper whose slot is free, whose connection is there or whose connector
\* has given up has a notification on its way (Drop for H2PoolLease,
\* connect_sender).
SleepersCovered ==
    \A t \in asleep :
       LET k == key[t]
       IN (IF pc[t] = "acquire" THEN SlotFree(k) ELSE entries[k] # 0 \/ connecting[k] = 0)
          => \E u \in Threads : owes[u]

\* A live connection leaves the pool only because it is idle, because a
\* request on this very connection failed, or because another origin needs the
\* room: the late failure of an older connection never takes a newer one away
\* (remove_if_generation).
LiveEntryKept ==
    [][\A k \in Keys :
          (entries[k] \in alive /\ entries'[k] # entries[k])
          => \/ active[k] = 0
             \/ \E t \in Threads : key[t] = k /\ gen[t] = entries[k] /\ gen[t] # 0
                                   /\ pc[t] \in {"remove", "body"}
             \/ \E j \in Keys \ {k} : connecting[j] # 0 /\ connecting'[j] = 0]_vars

\* One connection per origin: stream counts are exact, at most one request connects, no
\* one connects beside a pooled connection, and the order list names the pooled
\* origins within the capacity (upstream_h2/pool.rs).
PoolSound ==
    /\ TypeOK /\ LeasesCounted /\ OneConnector
    /\ NoConnectBesideEntry /\ OrderMatchesEntries

=============================================================================
