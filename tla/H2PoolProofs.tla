---------------------------- MODULE H2PoolProofs ----------------------------
(***************************************************************************)
(* The upstream HTTP/2 pool, for any number of requests, origins and       *)
(* connections: one connector per origin, no sleeper without a             *)
(* notification on its way, no live connection taken away by the late      *)
(* failure of an older one, and, on top of these, exact stream counts and  *)
(* an order list that names the pooled origins.                            *)
(***************************************************************************)
EXTENDS H2Pool, FiniteSetTheorems, TLAPS

\* The types that claims, sleepers and live entries need.  The least-recently-used
\* list is left out: none of them depends on it.
PoolTypes ==
    /\ active \in [Keys -> Nat] /\ entries \in [Keys -> Nat]
    /\ connecting \in [Keys -> Nat]
    /\ nextClaim \in Nat \ {0} /\ nextGen \in Nat \ {0}
    /\ 0 \notin alive

RequestTypes ==
    /\ DOMAIN pc = Threads
    /\ key \in [Threads -> Keys \cup {NoKey}]
    /\ claim \in [Threads -> Nat]
    /\ DOMAIN gen = Threads /\ DOMAIN owes = Threads
    /\ \A t \in Threads : pc[t] # "idle" => key[t] \in Keys

\* Claims are handed out once: no two requests hold the same one, and the
\* number of the next is still unused.
ClaimsDistinct ==
    /\ \A t \in Threads : claim[t] < nextClaim
    /\ \A t, u \in Threads : claim[t] = claim[u] /\ claim[t] # 0 => t = u

\* A claim on an origin belongs to a request that is connecting to it, and a
\* request that is connecting holds the claim on its origin.
ClaimHeld ==
    /\ \A k \in Keys : connecting[k] # 0 =>
          \E t \in Threads : pc[t] = "connect" /\ key[t] = k /\ claim[t] = connecting[k]
    /\ \A t \in Threads : pc[t] = "connect" =>
          claim[t] = connecting[key[t]] /\ claim[t] # 0

ClaimInv == ClaimsDistinct /\ ClaimHeld /\ NoConnectBesideEntry

\* Requests sleep only in the two loops that wait.
SleepInv == \A t \in asleep : t \in Threads /\ pc[t] \in {"acquire", "entry"}

PoolInv == PoolTypes /\ RequestTypes /\ ClaimInv /\ SleepInv

-----------------------------------------------------------------------------
\* What a sleeper waits for has come.
Served(t) ==
    IF pc[t] = "acquire" THEN SlotFree(key[t])
    ELSE entries[key[t]] # 0 \/ connecting[key[t]] = 0

\* A fresh pool has no claims and no sleepers.
LEMMA InitInv == Init => PoolInv /\ SleepersCovered
<1> SUFFICES ASSUME Init PROVE PoolInv /\ SleepersCovered
  OBVIOUS
<1>1. PoolTypes
  BY DEF Init, SlotsInit, PoolTypes
<1>2. RequestTypes
  BY DEF Init, RequestTypes
<1>3. ClaimInv
  BY DEF Init, ClaimInv, ClaimsDistinct, ClaimHeld, NoConnectBesideEntry
<1>4. SleepInv /\ SleepersCovered
  BY DEF Init, SlotsInit, SleepInv, SleepersCovered
<1> QED BY <1>1, <1>2, <1>3, <1>4 DEF PoolInv

\* Dropping a lease changes the slot of its origin, its own claim and nothing else of the
\* pool: a claim that another request holds by now is not touched (cancel_connector).
LEMMA DropLeaseEffect ==
    ASSUME PoolInv, NEW t \in Threads, NEW to \in {"idle", "remove"},
           pc[t] # "idle", t \notin asleep, DropLease(t, to),
           UNCHANGED <<entries, alive>>, DOMAIN gen' = Threads
    PROVE  PoolInv' /\ SleepersCovered'
<1> USE DEF PoolInv
<1>1. key[t] \in Keys
  BY DEF RequestTypes
<1>2. PoolTypes'
  BY <1>1 DEF PoolTypes, DropLease, ReleaseSlot, CancelConnector
<1>3. RequestTypes'
  BY <1>1 DEF RequestTypes, DropLease, Goto
<1>4. ClaimsDistinct'
  BY DEF ClaimInv, ClaimsDistinct, RequestTypes, DropLease, PoolTypes
<1>5. ClaimHeld'
  <2>1. \A k \in Keys : connecting'[k] # 0 => connecting'[k] = connecting[k]
    BY <1>1 DEF DropLease, CancelConnector, PoolTypes
  <2>2. pc[t] = "connect" => connecting'[key[t]] = 0
    BY <1>1 DEF DropLease, CancelConnector, PoolTypes, ClaimInv, ClaimHeld
  <2>3. ASSUME NEW u \in Threads, u # t
        PROVE  pc'[u] = pc[u] /\ key'[u] = key[u] /\ claim'[u] = claim[u]
    BY <2>3 DEF DropLease, Goto, RequestTypes
  <2>4. pc'[t] # "connect"
    BY DEF DropLease, Goto, RequestTypes
  <2>5. ASSUME NEW k \in Keys, connecting'[k] # 0
        PROVE  \E u \in Threads : pc'[u] = "connect" /\ key'[u] = k
                                  /\ claim'[u] = connecting'[k]
    <3>1. PICK u \in Threads : pc[u] = "connect" /\ key[u] = k /\ claim[u] = connecting[k]
      BY <2>1, <2>5 DEF ClaimInv, ClaimHeld
    <3>2. u # t
      BY <2>2, <2>5, <3>1
    <3> QED BY <2>1, <2>3, <2>5, <3>1, <3>2
  <2>6. ASSUME NEW u \in Threads, pc'[u] = "connect"
        PROVE  claim'[u] = connecting'[key'[u]] /\ claim'[u] # 0
    <3>1. u # t /\ pc[u] = "connect" /\ key'[u] = key[u] /\ claim'[u] = claim[u]
      BY <2>3, <2>4, <2>6
    <3>2. claim[u] = connecting[key[u]] /\ claim[u] # 0 /\ key[u] \in Keys
      BY <3>1 DEF ClaimInv, ClaimHeld, RequestTypes
    <3>3. claim[u] # claim[t]
      BY <3>1, <3>2 DEF ClaimInv, ClaimsDistinct
    <3>4. connecting'[key[u]] = connecting[key[u]]
      BY <1>1, <3>2, <3>3 DEF DropLease, CancelConnector, PoolTypes
    <3> QED BY <3>1, <3>2, <3>4
  <2> QED BY <2>5, <2>6 DEF ClaimHeld
<1>6. NoConnectBesideEntry'
  BY <1>1 DEF ClaimInv, NoConnectBesideEntry, DropLease, CancelConnector, PoolTypes
<1>7. SleepInv'
  BY DEF SleepInv, DropLease, Goto, RequestTypes
<1>8. owes'[t]
  BY DEF DropLease, RequestTypes
<1>9. SleepersCovered'
  BY <1>8 DEF SleepersCovered
<1> QED BY <1>2, <1>3, <1>4, <1>5, <1>6, <1>7, <1>9 DEF ClaimInv

-----------------------------------------------------------------------------
\* Steps of one request that leave claims and notifications alone, only give slots away,
\* only take entries out, and put the request to sleep only while it is not served.
LEMMA QuietStep ==
    ASSUME PoolInv, SleepersCovered, NEW t \in Threads,
           UNCHANGED <<connecting, nextClaim, nextGen, claim, owes>>, alive' = alive,
           active' \in [Keys -> Nat], \A k \in Keys : active[k] <= active'[k],
           entries' \in [Keys -> Nat], \A k \in Keys : entries'[k] \in {entries[k], 0},
           DOMAIN gen' = Threads, DOMAIN pc' = Threads,
           key' \in [Threads -> Keys \cup {NoKey}],
           \A u \in Threads \ {t} : pc'[u] = pc[u] /\ key'[u] = key[u],
           pc[t] # "connect", pc'[t] # "connect", pc'[t] # "idle" => key'[t] \in Keys,
           asleep' \subseteq asleep \cup {t},
           t \in asleep' => /\ pc'[t] \in {"acquire", "entry"}
                            /\ \/ ~Served(t)'
                               \/ t \in asleep /\ pc'[t] = pc[t] /\ key'[t] = key[t]
    PROVE  PoolInv' /\ SleepersCovered'
<1> USE DEF PoolInv
<1>1. PoolTypes'
  BY DEF PoolTypes
<1>2. RequestTypes'
  BY DEF RequestTypes
<1>3. ClaimsDistinct'
  BY DEF ClaimInv, ClaimsDistinct
<1>4. ClaimHeld'
  <2>1. ASSUME NEW k \in Keys, connecting[k] # 0
        PROVE  \E u \in Threads : pc'[u] = "connect" /\ key'[u] = k /\ claim[u] = connecting[k]
    <3>1. PICK u \in Threads : pc[u] = "connect" /\ key[u] = k /\ claim[u] = connecting[k]
      BY <2>1 DEF ClaimInv, ClaimHeld
    <3>2. u # t
      BY <3>1
    <3> QED BY <3>1, <3>2
  <2>2. ASSUME NEW u \in Threads, pc'[u] = "connect"
        PROVE  claim[u] = connecting[key'[u]] /\ claim[u] # 0
    <3>1. u # t
      BY <2>2
    <3> QED BY <2>2, <3>1 DEF ClaimInv, ClaimHeld
  <2> QED BY <2>1, <2>2 DEF ClaimHeld
<1>5. NoConnectBesideEntry'
  BY DEF ClaimInv, NoConnectBesideEntry
<1>6. SleepInv'
  BY DEF SleepInv
<1>7. SleepersCovered'
  <2> SUFFICES ASSUME NEW u \in asleep', Served(u)'
               PROVE  \E v \in Threads : owes[v]
    BY DEF SleepersCovered, Served
  <2>1. u \in asleep /\ u \in Threads /\ pc'[u] = pc[u] /\ key'[u] = key[u]
    BY DEF SleepInv
  <2>2. key[u] \in Keys
    BY <2>1 DEF SleepInv, RequestTypes
  <2>3. Limit \in Nat
    BY SlotsAssumption
  <2>4. Served(u)
    BY <2>1, <2>2, <2>3 DEF Served, SlotFree, PoolTypes
  <2> QED BY <2>1, <2>4 DEF SleepersCovered, Served
<1> QED BY <1>1, <1>2, <1>3, <1>4, <1>5, <1>6, <1>7 DEF ClaimInv

\* Steps of connections and their tasks: entries only go.
LEMMA ConnectionStep ==
    ASSUME PoolInv, SleepersCovered,
           UNCHANGED <<slotVars, connecting, nextClaim, nextGen, requestVars>>,
           alive' \subseteq alive,
           entries' \in [Keys -> Nat], \A k \in Keys : entries'[k] \in {entries[k], 0}
    PROVE  PoolInv' /\ SleepersCovered'
<1> USE DEF PoolInv, slotVars, requestVars
<1>1. PoolTypes'
  BY DEF PoolTypes
<1>2. RequestTypes' /\ ClaimsDistinct' /\ ClaimHeld' /\ SleepInv'
  BY DEF RequestTypes, ClaimInv, ClaimsDistinct, ClaimHeld, SleepInv
<1>3. NoConnectBesideEntry'
  BY DEF ClaimInv, NoConnectBesideEntry
<1>4. SleepersCovered'
  <2> SUFFICES ASSUME NEW u \in asleep, Served(u)'
               PROVE  \E v \in Threads : owes[v]
    BY DEF SleepersCovered, Served
  <2>1. key[u] \in Keys
    BY DEF SleepInv, RequestTypes
  <2>2. Served(u)
    BY <2>1 DEF Served, SlotFree
  <2> QED BY <2>2 DEF SleepersCovered, Served
<1> QED BY <1>1, <1>2, <1>3, <1>4 DEF ClaimInv

\* Taking an entry out, if it has the generation it should have.
LEMMA RemoveEffect ==
    ASSUME NEW k, NEW g, entries \in [Keys -> Nat],
           RemoveIfGeneration(k, g) \/ RemoveEntry(k)
    PROVE  /\ entries' \in [Keys -> Nat]
           /\ \A j \in Keys : entries'[j] \in {entries[j], 0}
BY DEF RemoveIfGeneration, RemoveEntry

-----------------------------------------------------------------------------
\* dispatch up to the lease, and every wait for a slot, a connection or the clock.
LEMMA WaitingSteps ==
    ASSUME PoolInv, SleepersCovered, NEW t \in Threads,
           \/ Dispatch(t) \/ Prune(t) \/ DeadlinePassed(t) \/ Acquire(t) \/ SleepForSlot(t)
           \/ AcquireTimesOut(t) \/ SleepForConnector(t) \/ Clock(t) \/ Spurious(t)
    PROVE  PoolInv' /\ SleepersCovered'
<1> USE DEF PoolInv, slotVars, poolVars, connVars, requestVars
<1>0. \A k \in Keys : active[k] \in Nat
  BY DEF PoolTypes
<1>1. CASE Dispatch(t)
  <2>1. t \notin asleep
    BY <1>1 DEF Dispatch, SleepInv
  <2> QED BY <1>0, <1>1, <2>1, QuietStep DEF Dispatch, Goto, PoolTypes, RequestTypes
<1>2. CASE Prune(t) \/ DeadlinePassed(t)
  <2>1. t \notin asleep /\ pc[t] = "prune" /\ key[t] \in Keys
    BY <1>2 DEF Prune, DeadlinePassed, GetBeforeLease, SleepInv, RequestTypes
  <2>2. entries' \in [Keys -> Nat] /\ \A k \in Keys : entries'[k] \in {entries[k], 0}
    BY <1>2, RemoveEffect DEF Prune, DeadlinePassed, GetBeforeLease, PoolTypes
  <2>3. /\ UNCHANGED <<slotVars, connecting, nextClaim, nextGen, connVars, claim, gen, owes>>
        /\ \/ pc' = [pc EXCEPT ![t] = "acquire"] /\ key' = key
           \/ pc' = [pc EXCEPT ![t] = "idle"] /\ key' = [key EXCEPT ![t] = NoKey]
    BY <1>2 DEF Prune, DeadlinePassed, GetBeforeLease, Goto
  <2> QED BY <1>0, <2>1, <2>2, <2>3, QuietStep DEF PoolTypes, RequestTypes
<1>3. CASE Acquire(t)
  <2>1. key[t] \in Keys
    BY <1>3 DEF Acquire, RequestTypes
  <2>2. active' \in [Keys -> Nat] /\ \A k \in Keys : active[k] <= active'[k]
    BY <1>3, <2>1 DEF Acquire, ReserveSlot, PoolTypes
  <2> QED BY <1>3, <2>1, <2>2, QuietStep DEF Acquire, Goto, PoolTypes, RequestTypes
<1>4. CASE SleepForSlot(t)
  <2>1. key[t] \in Keys /\ pc[t] = "acquire"
    BY <1>4 DEF SleepForSlot, RequestTypes
  <2>2. ~Served(t)'
    BY <1>4, <2>1 DEF SleepForSlot, WaitForSlot, Served, SlotFree
  <2> QED BY <1>0, <1>4, <2>1, <2>2, QuietStep
          DEF SleepForSlot, WaitForSlot, PoolTypes, RequestTypes
<1>5. CASE AcquireTimesOut(t)
  BY <1>0, <1>5, QuietStep DEF AcquireTimesOut, SlotTimesOut, Goto, PoolTypes, RequestTypes
<1>6. CASE SleepForConnector(t)
  <2>1. key[t] \in Keys /\ pc[t] = "entry"
    BY <1>6 DEF SleepForConnector, AtEntry, RequestTypes
  <2>2. ~Served(t)'
    BY <1>6, <2>1 DEF SleepForConnector, AtEntry, Served
  <2> QED BY <1>0, <1>6, <2>1, <2>2, QuietStep DEF SleepForConnector, PoolTypes, RequestTypes
<1>7. CASE Clock(t) \/ Spurious(t)
  <2>1. asleep' \subseteq asleep /\ active' = active
        /\ UNCHANGED <<poolVars, connVars, requestVars>>
    BY <1>7 DEF Clock, Spurious, TimePasses, WaitReturns, SpuriousWake
  <2>2. pc[t] # "connect" /\ pc[t] # "idle" /\ (t \in asleep => pc[t] \in {"acquire", "entry"})
    BY <1>7 DEF Clock, Spurious, SpuriousWake, SleepInv
  <2>3. key[t] \in Keys
    BY <2>2 DEF RequestTypes
  <2> QED BY <1>0, <2>1, <2>2, <2>3, QuietStep DEF PoolTypes, RequestTypes
<1> QED BY <1>1, <1>2, <1>3, <1>4, <1>5, <1>6, <1>7

\* A request that has its lease: it finds the connection, sends, and fails on it.
LEMMA SendingSteps ==
    ASSUME PoolInv, SleepersCovered, NEW t \in Threads,
           EntryFound(t) \/ SendStale(t) \/ SendOk(t) \/ RemoveFailed(t) \/ BodyFails(t)
    PROVE  PoolInv' /\ SleepersCovered'
<1> USE DEF PoolInv, slotVars, poolVars, connVars
<1>0. \A k \in Keys : active[k] \in Nat
  BY DEF PoolTypes
<1>1. /\ pc[t] \in {"entry", "send", "first", "remove", "body"}
      /\ key[t] \in Keys /\ t \notin asleep
  BY DEF EntryFound, AtEntry, SendStale, SendOk, RemoveFailed, BodyFails, RequestTypes,
         SleepInv
<1>2. entries' \in [Keys -> Nat] /\ \A k \in Keys : entries'[k] \in {entries[k], 0}
  <2>1. CASE EntryFound(t) \/ SendOk(t)
    BY <2>1 DEF EntryFound, SendOk, PoolTypes
  <2>2. CASE SendStale(t) \/ RemoveFailed(t) \/ BodyFails(t)
    BY <2>2, RemoveEffect DEF SendStale, RemoveFailed, BodyFails, PoolTypes
  <2> QED BY <2>1, <2>2
<1>3. /\ UNCHANGED <<slotVars, connecting, nextClaim, nextGen, connVars, key, claim, owes>>
      /\ \E to \in {"send", "entry", "body", "idle", "failed"} : pc' = [pc EXCEPT ![t] = to]
      /\ \/ gen' = gen
         \/ \E g \in {0, entries[key[t]]} : gen' = [gen EXCEPT ![t] = g]
  BY DEF EntryFound, SendStale, SendOk, RemoveFailed, BodyFails, Goto, Uses
<1>4. DOMAIN gen' = Threads
  BY <1>3 DEF RequestTypes
<1> QED BY <1>0, <1>1, <1>2, <1>3, <1>4, QuietStep DEF PoolTypes, RequestTypes

\* Every end of a request that holds a lease drops it.
LEMMA EndingSteps ==
    ASSUME PoolInv, SleepersCovered, NEW t \in Threads,
           \/ EntryTimesOut(t) \/ SendTimesOut(t) \/ SendFails(t) \/ BodyEnds(t)
           \/ BodyFailed(t) \/ ConnectFails(t) \/ FirstSendFails(t)
    PROVE  PoolInv' /\ SleepersCovered'
<1> USE DEF PoolInv, connVars
<1>1. pc[t] # "idle" /\ t \notin asleep
  BY DEF EntryTimesOut, AtEntry, SendTimesOut, SendFails, BodyEnds, BodyFailed, ConnectFails,
         FirstSendFails, SleepInv
<1>2. UNCHANGED <<entries, alive>> /\ (gen' = gen \/ Uses(t, 0))
  BY DEF EntryTimesOut, SendTimesOut, SendFails, BodyEnds, BodyFailed, ConnectFails,
         FirstSendFails
<1>3. DOMAIN gen' = Threads
  BY <1>2 DEF Uses, RequestTypes
<1>4. DropLease(t, "idle") \/ DropLease(t, "remove")
  BY DEF EntryTimesOut, SendTimesOut, SendFails, BodyEnds, BodyFailed, ConnectFails,
         FirstSendFails
<1> QED BY <1>1, <1>2, <1>3, <1>4, DropLeaseEffect

\* A claim is made under a fresh number, for an origin that nobody has claimed.
LEMMA ClaimStep ==
    ASSUME PoolInv, SleepersCovered, NEW t \in Threads, ClaimConnector(t)
    PROVE  PoolInv' /\ SleepersCovered'
<1> USE DEF PoolInv, slotVars, connVars
<1> DEFINE k == key[t]
<1>1. /\ k \in Keys /\ entries[k] = 0 /\ connecting[k] = 0 /\ t \notin asleep
      /\ pc[t] = "entry"
  BY DEF ClaimConnector, AtEntry, RequestTypes
<1>2. /\ connecting' = [connecting EXCEPT ![k] = nextClaim]
      /\ claim' = [claim EXCEPT ![t] = nextClaim]
      /\ nextClaim' = nextClaim + 1 /\ pc' = [pc EXCEPT ![t] = "connect"]
      /\ UNCHANGED <<slotVars, entries, nextGen, alive, key, gen, owes>>
  BY DEF ClaimConnector, Goto
<1> HIDE DEF k
<1>3. PoolTypes'
  BY <1>1, <1>2 DEF PoolTypes
<1>4. RequestTypes'
  BY <1>1, <1>2 DEF RequestTypes, PoolTypes, k
<1>5. ClaimsDistinct'
  BY <1>2 DEF ClaimInv, ClaimsDistinct, RequestTypes, PoolTypes
<1>6. ClaimHeld'
  <2>1. ASSUME NEW j \in Keys, connecting'[j] # 0
        PROVE  \E u \in Threads : pc'[u] = "connect" /\ key'[u] = j
                                  /\ claim'[u] = connecting'[j]
    <3>1. CASE j = k
      BY <1>1, <1>2, <3>1 DEF RequestTypes, PoolTypes, k
    <3>2. CASE j # k
      <4>1. connecting'[j] = connecting[j]
        BY <1>1, <1>2, <3>2 DEF PoolTypes
      <4>2. PICK u \in Threads : pc[u] = "connect" /\ key[u] = j /\ claim[u] = connecting[j]
        BY <2>1, <4>1 DEF ClaimInv, ClaimHeld
      <4>3. u # t
        BY <1>1, <4>2
      <4> QED BY <1>2, <4>1, <4>2, <4>3 DEF RequestTypes
    <3> QED BY <3>1, <3>2
  <2>2. ASSUME NEW u \in Threads, pc'[u] = "connect"
        PROVE  claim'[u] = connecting'[key'[u]] /\ claim'[u] # 0
    <3>1. CASE u = t
      BY <1>1, <1>2, <3>1 DEF RequestTypes, PoolTypes, k
    <3>2. CASE u # t
      <4>1. pc[u] = "connect" /\ claim'[u] = claim[u] /\ key'[u] = key[u]
        BY <1>2, <2>2, <3>2 DEF RequestTypes
      <4>2. claim[u] = connecting[key[u]] /\ claim[u] # 0 /\ key[u] \in Keys
        BY <4>1 DEF ClaimInv, ClaimHeld, RequestTypes
      <4>3. key[u] # k
        BY <1>1, <4>2
      <4> QED BY <1>2, <4>1, <4>2, <4>3 DEF PoolTypes
    <3> QED BY <3>1, <3>2
  <2> QED BY <2>1, <2>2 DEF ClaimHeld
<1>7. NoConnectBesideEntry'
  BY <1>1, <1>2 DEF ClaimInv, NoConnectBesideEntry, PoolTypes
<1>8. SleepInv'
  BY <1>1, <1>2 DEF SleepInv, RequestTypes
<1>9. SleepersCovered'
  <2> SUFFICES ASSUME NEW u \in asleep, Served(u)'
               PROVE  \E v \in Threads : owes[v]
    BY <1>2 DEF SleepersCovered, Served
  <2>1. u # t /\ u \in Threads /\ pc'[u] = pc[u] /\ key'[u] = key[u] /\ key[u] \in Keys
    BY <1>1, <1>2 DEF SleepInv, RequestTypes
  <2>2. connecting'[key[u]] = 0 => connecting[key[u]] = 0
    BY <1>1, <1>2, <2>1 DEF PoolTypes
  <2>3. Served(u)
    BY <1>2, <2>1, <2>2 DEF Served, SlotFree
  <2> QED BY <2>3 DEF SleepersCovered, Served
<1> QED BY <1>3, <1>4, <1>5, <1>6, <1>7, <1>8, <1>9 DEF ClaimInv

\* What insert does to the two maps: the claim of the origin ends, its entry is the new one,
\* and other entries can only go.
LEMMA InsertEffect ==
    ASSUME NEW k \in Keys, NEW g \in Nat, entries \in [Keys -> Nat],
           connecting \in [Keys -> Nat], Insert(k, g)
    PROVE  /\ entries' \in [Keys -> Nat] /\ entries'[k] = g
           /\ \A j \in Keys \ {k} : entries'[j] \in {entries[j], 0}
           /\ connecting' = [connecting EXCEPT ![k] = 0]
<1>1. connecting' = [connecting EXCEPT ![k] = 0]
  BY DEF Insert
<1>2. CASE entries[k] # 0
  <2>1. entries' = [entries EXCEPT ![k] = g]
    BY <1>2 DEF Insert
  <2> QED BY <1>1, <2>1
<1>3. CASE entries[k] = 0
  <2> DEFINE excess == IF Cardinality(Pooled) < PoolCapacity THEN 0
                       ELSE Cardinality(Pooled) - PoolCapacity + 1
             evicted == ToSet(SubSeq(order, 1, excess))
  <2>1. entries' = [j \in Keys |-> IF j = k THEN g
                                   ELSE IF j \in evicted THEN 0 ELSE entries[j]]
    BY <1>3 DEF Insert
  <2> HIDE DEF evicted
  <2> QED BY <1>1, <2>1
<1> QED BY <1>2, <1>3

\* The connector puts its connection into the pool and owes everybody a notification.
LEMMA InsertStep ==
    ASSUME PoolInv, SleepersCovered, NEW t \in Threads, InsertConnection(t)
    PROVE  PoolInv' /\ SleepersCovered'
<1> USE DEF PoolInv, slotVars
<1> DEFINE k == key[t]
<1>1. /\ k \in Keys /\ pc[t] = "connect" /\ nextGen \in Nat /\ t \notin asleep
      /\ connecting[k] = claim[t]
  BY DEF InsertConnection, RequestTypes, PoolTypes, SleepInv, ClaimInv, ClaimHeld
<1>2. /\ entries' \in [Keys -> Nat] /\ entries'[k] = nextGen
      /\ \A j \in Keys \ {k} : entries'[j] \in {entries[j], 0}
      /\ connecting' = [connecting EXCEPT ![k] = 0]
  BY <1>1, InsertEffect DEF InsertConnection, PoolTypes
<1>3. /\ nextGen' = nextGen + 1 /\ alive' = alive \cup {nextGen}
      /\ pc' = [pc EXCEPT ![t] = "first"] /\ gen' = [gen EXCEPT ![t] = nextGen]
      /\ owes' = [owes EXCEPT ![t] = TRUE]
      /\ UNCHANGED <<slotVars, nextClaim, key, claim>>
  BY DEF InsertConnection, Uses, Goto
<1> HIDE DEF k
<1>4. PoolTypes'
  BY <1>1, <1>2, <1>3 DEF PoolTypes
<1>5. RequestTypes'
  BY <1>1, <1>3 DEF RequestTypes, k
<1>6. ClaimsDistinct'
  BY <1>3 DEF ClaimInv, ClaimsDistinct
<1>7. ClaimHeld'
  <2>1. ASSUME NEW j \in Keys, connecting'[j] # 0
        PROVE  \E u \in Threads : pc'[u] = "connect" /\ key'[u] = j
                                  /\ claim'[u] = connecting'[j]
    <3>1. j # k /\ connecting'[j] = connecting[j]
      BY <1>1, <1>2, <2>1 DEF PoolTypes
    <3>2. PICK u \in Threads : pc[u] = "connect" /\ key[u] = j /\ claim[u] = connecting[j]
      BY <2>1, <3>1 DEF ClaimInv, ClaimHeld
    <3>3. u # t
      BY <3>1, <3>2 DEF k
    <3> QED BY <1>3, <3>1, <3>2, <3>3 DEF RequestTypes
  <2>2. ASSUME NEW u \in Threads, pc'[u] = "connect"
        PROVE  claim'[u] = connecting'[key'[u]] /\ claim'[u] # 0
    <3>1. u # t /\ pc[u] = "connect" /\ claim'[u] = claim[u] /\ key'[u] = key[u]
      BY <1>3, <2>2 DEF RequestTypes
    <3>2. claim[u] = connecting[key[u]] /\ claim[u] # 0 /\ key[u] \in Keys
      BY <3>1 DEF ClaimInv, ClaimHeld, RequestTypes
    <3>3. key[u] # k
      BY <1>1, <3>1, <3>2 DEF ClaimInv, ClaimsDistinct
    <3> QED BY <1>2, <3>1, <3>2, <3>3 DEF PoolTypes
  <2> QED BY <2>1, <2>2 DEF ClaimHeld
<1>8. NoConnectBesideEntry'
  BY <1>1, <1>2 DEF ClaimInv, NoConnectBesideEntry, PoolTypes
<1>9. SleepInv'
  BY <1>1, <1>3 DEF SleepInv, RequestTypes
<1>10. owes'[t]
  BY <1>3 DEF RequestTypes
<1>11. SleepersCovered'
  BY <1>10 DEF SleepersCovered
<1> QED BY <1>4, <1>5, <1>6, <1>7, <1>8, <1>9, <1>11 DEF ClaimInv

\* notify_all wakes every sleeper.
LEMMA NotifyStep ==
    ASSUME PoolInv, SleepersCovered, NEW t \in Threads, Notify(t)
    PROVE  PoolInv' /\ SleepersCovered'
<1> USE DEF PoolInv, poolVars, connVars
<1>1. /\ asleep' = {} /\ UNCHANGED <<active, poolVars, connVars, pc, claim, gen>>
      /\ owes' = [owes EXCEPT ![t] = FALSE]
      /\ key' = IF pc[t] = "idle" THEN [key EXCEPT ![t] = NoKey] ELSE key
  BY DEF Notify, NotifyAll
<1>2. PoolTypes' /\ ClaimsDistinct' /\ NoConnectBesideEntry'
  BY <1>1 DEF PoolTypes, ClaimInv, ClaimsDistinct, NoConnectBesideEntry
<1>3. RequestTypes'
  BY <1>1 DEF RequestTypes
<1>4. \A u \in Threads : pc[u] = "connect" => key'[u] = key[u]
  BY <1>1 DEF RequestTypes
<1>5. ClaimHeld'
  <2>1. ASSUME NEW j \in Keys, connecting[j] # 0
        PROVE  \E u \in Threads : pc[u] = "connect" /\ key'[u] = j /\ claim[u] = connecting[j]
    <3>1. PICK u \in Threads : pc[u] = "connect" /\ key[u] = j /\ claim[u] = connecting[j]
      BY <2>1 DEF ClaimInv, ClaimHeld
    <3> QED BY <1>4, <3>1
  <2>2. ASSUME NEW u \in Threads, pc[u] = "connect"
        PROVE  claim[u] = connecting[key'[u]] /\ claim[u] # 0
    BY <1>4, <2>2 DEF ClaimInv, ClaimHeld
  <2> QED BY <1>1, <2>1, <2>2 DEF ClaimHeld
<1>6. SleepInv' /\ SleepersCovered'
  BY <1>1 DEF SleepInv, SleepersCovered
<1> QED BY <1>2, <1>3, <1>5, <1>6 DEF ClaimInv

-----------------------------------------------------------------------------
\* The invariant is inductive: one case per action.
LEMMA NextInv == PoolInv /\ SleepersCovered /\ [Next]_vars => PoolInv' /\ SleepersCovered'
<1> SUFFICES ASSUME PoolInv, SleepersCovered, [Next]_vars PROVE PoolInv' /\ SleepersCovered'
  OBVIOUS
<1>1. ASSUME NEW t \in Threads, Dispatch(t) \/ Work(t) \/ Clock(t) \/ Spurious(t)
      PROVE  PoolInv' /\ SleepersCovered'
  BY <1>1, WaitingSteps, SendingSteps, EndingSteps, ClaimStep, InsertStep, NotifyStep DEF Work
<1>2. ASSUME NEW g \in alive, ConnectionDies(g)
      PROVE  PoolInv' /\ SleepersCovered'
  BY <1>2, ConnectionStep DEF ConnectionDies, poolVars, PoolInv, PoolTypes
<1>3. ASSUME NEW w \in watched, ConnectionTask(w)
      PROVE  PoolInv' /\ SleepersCovered'
  BY <1>3, ConnectionStep, RemoveEffect DEF ConnectionTask, PoolInv, PoolTypes
<1>4. ASSUME NEW k \in Keys, EvictIdle(k)
      PROVE  PoolInv' /\ SleepersCovered'
  BY <1>4, ConnectionStep, RemoveEffect DEF EvictIdle, connVars, PoolInv, PoolTypes
<1>5. CASE UNCHANGED vars
  BY <1>5, ConnectionStep DEF vars, slotVars, poolVars, connVars, requestVars, PoolInv,
     PoolTypes
<1> QED BY <1>1, <1>2, <1>3, <1>4, <1>5 DEF Next

\* The invariant and the coverage of sleepers hold in every reachable state.
THEOREM PoolInvariance == Spec => [](PoolInv /\ SleepersCovered)
BY InitInv, NextInv, PTL DEF Spec

\* A request that sleeps is waiting for something that is still to come, whatever the limit,
\* and however many requests and origins there are: a free slot, a pooled connection or a
\* connector that gave up always has a notification on its way (Drop for H2PoolLease,
\* connect_sender).
THEOREM SleepersTheorem == Spec => []SleepersCovered
BY PoolInvariance, PTL

\* Exactly one request connects to an origin with a claim, none without, and none beside a
\* pooled connection (claim_connector, cancel_connector, insert).
THEOREM OneConnectorTheorem == Spec => [](OneConnector /\ NoConnectBesideEntry)
<1>1. PoolInv => OneConnector /\ NoConnectBesideEntry
  <2> SUFFICES ASSUME PoolInv, NEW k \in Keys
               PROVE  LET connectors == {t \in Threads : pc[t] = "connect" /\ key[t] = k}
                      IN IF connecting[k] = 0 THEN connectors = {}
                         ELSE \E t \in connectors :
                                connectors = {t} /\ claim[t] = connecting[k]
    BY DEF OneConnector, PoolInv, ClaimInv
  <2> DEFINE connectors == {t \in Threads : pc[t] = "connect" /\ key[t] = k}
  <2>1. \A t \in connectors : claim[t] = connecting[k] /\ claim[t] # 0
    BY DEF PoolInv, ClaimInv, ClaimHeld
  <2>2. \A t, u \in connectors : t = u
    BY <2>1 DEF PoolInv, ClaimInv, ClaimsDistinct
  <2>3. connecting[k] # 0 => \E t \in connectors : claim[t] = connecting[k]
    BY DEF PoolInv, ClaimInv, ClaimHeld
  <2> HIDE DEF connectors
  <2>4. IF connecting[k] = 0 THEN connectors = {}
        ELSE \E t \in connectors : connectors = {t} /\ claim[t] = connecting[k]
    BY <2>1, <2>2, <2>3
  <2> QED BY <2>4 DEF connectors
<1> QED BY <1>1, PoolInvariance, PTL

-----------------------------------------------------------------------------
\* Why an entry may go although its connection is up.
Excused(k) ==
    \/ active[k] = 0
    \/ \E t \in Threads : key[t] = k /\ gen[t] = entries[k] /\ gen[t] # 0
                          /\ pc[t] \in {"remove", "body"}
    \/ \E j \in Keys \ {k} : connecting[j] # 0 /\ connecting'[j] = 0

\* Taking an entry out concerns one origin and, by generation, one connection.
LEMMA RemovedOne ==
    ASSUME NEW k, NEW g, entries \in [Keys -> Nat], RemoveIfGeneration(k, g),
           NEW j \in Keys, entries'[j] # entries[j]
    PROVE  j = k /\ entries[j] = g /\ g # 0
BY DEF RemoveIfGeneration, RemoveEntry

LEMMA RemovedKey ==
    ASSUME NEW k, entries \in [Keys -> Nat], RemoveEntry(k),
           NEW j \in Keys, entries'[j] # entries[j]
    PROVE  j = k
BY DEF RemoveEntry

\* Every step that changes the entry of a live connection has an excuse.
LEMMA RemovalExcused ==
    ASSUME PoolInv, [Next]_vars, NEW k \in Keys, entries[k] \in alive,
           entries'[k] # entries[k]
    PROVE  Excused(k)
<1> USE DEF PoolInv
<1>0. entries \in [Keys -> Nat] /\ entries[k] # 0
  BY DEF PoolTypes
<1>1. ASSUME NEW t \in Threads, Prune(t) \/ DeadlinePassed(t)
      PROVE  Excused(k)
  BY <1>0, <1>1, RemovedKey DEF Prune, DeadlinePassed, GetBeforeLease, Excused
<1>2. ASSUME NEW t \in Threads, SendStale(t)
      PROVE  FALSE
  BY <1>0, <1>2, RemovedOne DEF SendStale
<1>3. ASSUME NEW t \in Threads, RemoveFailed(t) \/ BodyFails(t)
      PROVE  Excused(k)
  <2>1. pc[t] \in {"remove", "body"} /\ RemoveIfGeneration(key[t], gen[t])
    BY <1>3 DEF RemoveFailed, BodyFails
  <2>2. key[t] = k /\ entries[k] = gen[t] /\ gen[t] # 0
    BY <1>0, <2>1, RemovedOne
  <2> QED BY <2>1, <2>2 DEF Excused
<1>4. ASSUME NEW t \in Threads, InsertConnection(t)
      PROVE  Excused(k)
  <2>1. key[t] \in Keys /\ connecting[key[t]] # 0
    BY <1>4 DEF InsertConnection, RequestTypes, ClaimInv, ClaimHeld
  <2>2. connecting'[key[t]] = 0
    BY <1>4, <2>1 DEF InsertConnection, Insert, PoolTypes
  <2>3. entries[key[t]] = 0
    BY <2>1 DEF ClaimInv, NoConnectBesideEntry
  <2> QED BY <1>0, <2>1, <2>2, <2>3 DEF Excused
<1>5. ASSUME NEW w \in watched, ConnectionTask(w)
      PROVE  FALSE
  BY <1>0, <1>5, RemovedOne DEF ConnectionTask
<1>6. ASSUME NEW j \in Keys, EvictIdle(j)
      PROVE  Excused(k)
  BY <1>0, <1>6, RemovedKey DEF EvictIdle, Excused
<1>7. ASSUME NEW t \in Threads,
             \/ Dispatch(t) \/ Acquire(t) \/ SleepForSlot(t) \/ AcquireTimesOut(t)
             \/ EntryFound(t) \/ ClaimConnector(t) \/ SleepForConnector(t) \/ EntryTimesOut(t)
             \/ SendOk(t) \/ SendTimesOut(t) \/ SendFails(t) \/ BodyEnds(t) \/ BodyFailed(t)
             \/ ConnectFails(t) \/ FirstSendFails(t) \/ Notify(t) \/ Clock(t) \/ Spurious(t)
      PROVE  FALSE
  <2>1. entries' = entries
    BY <1>7 DEF Dispatch, Acquire, SleepForSlot, AcquireTimesOut, EntryFound, ClaimConnector,
       SleepForConnector, EntryTimesOut, SendOk, SendTimesOut, SendFails, BodyEnds,
       BodyFailed, ConnectFails, FirstSendFails, Notify, Clock, Spurious, poolVars
  <2> QED BY <2>1
<1>8. ASSUME (\E g \in alive : ConnectionDies(g)) \/ UNCHANGED vars
      PROVE  FALSE
  <2>1. entries' = entries
    BY <1>8 DEF ConnectionDies, vars, poolVars
  <2> QED BY <2>1
<1> QED BY <1>1, <1>2, <1>3, <1>4, <1>5, <1>6, <1>7, <1>8 DEF Next, Work

\* A live connection leaves the pool only because it is idle, because a request on this very
\* connection failed, or because another origin's connector needs the room; the late failure
\* of an older connection never takes a newer one away (remove_if_generation).
THEOREM LiveEntryTheorem == Spec => LiveEntryKept
<1>1. PoolInv /\ [Next]_vars =>
        [\A k \in Keys :
          (entries[k] \in alive /\ entries'[k] # entries[k])
          => \/ active[k] = 0
             \/ \E t \in Threads : key[t] = k /\ gen[t] = entries[k] /\ gen[t] # 0
                                   /\ pc[t] \in {"remove", "body"}
             \/ \E j \in Keys \ {k} : connecting[j] # 0 /\ connecting'[j] = 0]_vars
  BY RemovalExcused DEF Excused
<1> QED BY <1>1, PoolInvariance, PTL DEF Spec, LiveEntryKept

-----------------------------------------------------------------------------
(***************************************************************************)
(* What retaining some elements of a sequence keeps.                       *)
(***************************************************************************)

\* The numbers from one to n are n.
LEMMA OneTo ==
    ASSUME NEW n \in Nat
    PROVE  IsFiniteSet(1..n) /\ Cardinality(1..n) = n
<1>1. 1 \in Int /\ n \in Int
  OBVIOUS
<1>2. IsFiniteSet(1..n) /\ Cardinality(1..n) = IF 1 > n THEN 0 ELSE n - 1 + 1
  BY <1>1, FS_Interval
<1> QED
  BY <1>2

\* The ranks of the elements that stay are the numbers up to their number, in order.
LEMMA Ranks ==
    ASSUME NEW X, NEW seq \in Seq(X), NEW S
    PROVE  LET N == Cardinality(Places(seq, S))
           IN  /\ IsFiniteSet(Places(seq, S)) /\ N \in 0..Len(seq)
               /\ \A i \in Places(seq, S) : Rank(seq, S, i) \in 1..N
               /\ \A i, j \in Places(seq, S) : i < j => Rank(seq, S, i) < Rank(seq, S, j)
               /\ \A n \in 1..N : \E i \in Places(seq, S) : Rank(seq, S, i) = n
<1> DEFINE P == Places(seq, S)
           N == Cardinality(P)
           upto(i) == { j \in P : j <= i }
<1>1. Len(seq) \in Nat /\ P \subseteq 1..Len(seq) /\ P \subseteq Nat
  BY DEF Places
<1>2. IsFiniteSet(1..Len(seq)) /\ Cardinality(1..Len(seq)) = Len(seq)
  BY <1>1, OneTo
<1> HIDE DEF P
<1>3. IsFiniteSet(P) /\ N \in Nat /\ N <= Len(seq)
  BY <1>1, <1>2, FS_Subset, FS_CardinalityType
<1>4. ASSUME NEW i \in P PROVE IsFiniteSet(upto(i)) /\ Cardinality(upto(i)) \in 1..N
  <2>1. upto(i) \subseteq P /\ i \in upto(i)
    BY <1>1
  <2>2. IsFiniteSet(upto(i)) /\ Cardinality(upto(i)) <= N /\ Cardinality(upto(i)) \in Nat
    BY <1>3, <2>1, FS_Subset, FS_CardinalityType
  <2>3. Cardinality(upto(i)) # 0
    BY <2>1, <2>2, FS_EmptySet
  <2> QED
    BY <1>3, <2>2, <2>3
<1>5. ASSUME NEW i \in P, NEW j \in P, i < j PROVE Cardinality(upto(i)) < Cardinality(upto(j))
  <2>1. upto(i) \subseteq upto(j) /\ j \in upto(j) /\ j \notin upto(i)
    <3>1. i \in Nat /\ j \in Nat /\ \A x \in P : x \in Nat
      BY <1>1
    <3>2. \A x, y : x \in upto(y) <=> x \in P /\ x <= y
      OBVIOUS
    <3> HIDE DEF upto
    <3>3. ASSUME NEW x \in upto(i) PROVE x \in upto(j)
      <4>1. x \in P /\ x <= i /\ x \in Nat
        BY <3>1, <3>2
      <4>2. x <= j
        BY <1>5, <3>1, <4>1
      <4> QED
        BY <3>2, <4>1, <4>2
    <3>4. j <= j /\ ~(j <= i)
      BY <1>5, <3>1
    <3> QED
      BY <3>2, <3>3, <3>4
  <2>2. /\ Cardinality(upto(i)) <= Cardinality(upto(j))
        /\ Cardinality(upto(j)) = Cardinality(upto(i)) => upto(j) = upto(i)
    BY <1>4, <2>1, FS_Subset
  <2>3. Cardinality(upto(i)) \in 1..N /\ Cardinality(upto(j)) \in 1..N
    BY <1>4
  <2> QED
    BY <1>3, <2>1, <2>2, <2>3
<1> DEFINE f == [i \in P |-> Cardinality(upto(i))]
<1>6. f \in Injection(P, 1..N)
  <2>1. f \in [P -> 1..N]
    BY <1>4
  <2>2. ASSUME NEW i \in P, NEW j \in P, f[i] = f[j] PROVE i = j
    <3>1. i \in Nat /\ j \in Nat
      BY <1>1
    <3>2. f[i] = Cardinality(upto(i)) /\ f[j] = Cardinality(upto(j))
      OBVIOUS
    <3>3. Cardinality(upto(i)) \in 1..N /\ Cardinality(upto(j)) \in 1..N
      BY <1>4
    <3>3b. Cardinality(upto(i)) = Cardinality(upto(j))
      BY <2>2, <3>2
    <3> HIDE DEF upto, f
    <3>3a. PICK n : n = Cardinality(upto(i)) /\ n = Cardinality(upto(j)) /\ n \in Nat
      <4>1. Cardinality(upto(i)) \in Nat
        BY <1>3, <3>3
      <4> QED
        BY <3>3b, <4>1
    <3>4. ~(i < j)
      <4>1. i < j => n < n
        BY <1>5, <3>3a
      <4> QED
        BY <3>3a, <4>1
    <3>5. ~(j < i)
      <4>1. j < i => n < n
        BY <1>5, <3>3a
      <4> QED
        BY <3>3a, <4>1
    <3> QED
      BY <3>1, <3>4, <3>5
  <2> QED
    BY <2>1, <2>2 DEF Injection, IsInjective
<1>7. IsFiniteSet(1..N) /\ Cardinality(1..N) = N
  BY <1>3, OneTo
<1>8. f \in Surjection(P, 1..N)
  BY <1>6, <1>7, FS_Injection
<1>9. \A n \in 1..N : \E i \in P : f[i] = n
  BY <1>8 DEF Surjection
<1>10. \A i : Rank(seq, S, i) = Cardinality(upto(i))
  BY DEF Rank, P
<1>11. \A n \in 1..N : \E i \in P : Rank(seq, S, i) = n
  BY <1>9, <1>10
<1> HIDE DEF upto
<1>12. /\ N \in 0..Len(seq)
       /\ \A i \in P : Rank(seq, S, i) \in 1..N
       /\ \A i, j \in P : i < j => Rank(seq, S, i) < Rank(seq, S, j)
  BY <1>1, <1>3, <1>4, <1>5, <1>10
<1> QED
  BY <1>3, <1>11, <1>12 DEF P

\* What retain leaves: the elements of the set, each from its place, in their order.
LEMMA RetainFacts ==
    ASSUME NEW X, NEW seq \in Seq(X), NEW S
    PROVE  LET r == Retain(seq, S)
           IN  /\ r \in Seq(X) /\ Len(r) <= Len(seq)
               /\ \A n \in 1..Len(r) :
                      /\ Place(seq, S, n) \in 1..Len(seq)
                      /\ r[n] = seq[Place(seq, S, n)] /\ r[n] \in S
               /\ \A m, n \in 1..Len(r) : m < n => Place(seq, S, m) < Place(seq, S, n)
               /\ \A i \in 1..Len(seq) : seq[i] \in S =>
                      \E n \in 1..Len(r) : Place(seq, S, n) = i
<1> DEFINE P == Places(seq, S)
           N == Cardinality(P)
           r == Retain(seq, S)
<1>1. /\ N \in 0..Len(seq)
      /\ \A i \in P : Rank(seq, S, i) \in 1..N
      /\ \A i, j \in P : i < j => Rank(seq, S, i) < Rank(seq, S, j)
      /\ \A n \in 1..N : \E i \in P : Rank(seq, S, i) = n
  BY Ranks
<1>2. /\ P \subseteq 1..Len(seq) /\ P \subseteq Nat
      /\ \A i \in P : seq[i] \in S /\ seq[i] \in X
  BY DEF Places
<1>2a. \A i \in 1..Len(seq) : seq[i] \in S => i \in P
  BY DEF Places
<1>3. ASSUME NEW n \in 1..N
      PROVE  Place(seq, S, n) \in P /\ Rank(seq, S, Place(seq, S, n)) = n
  BY <1>1 DEF Place
<1>4. r = [n \in 1..N |-> seq[Place(seq, S, n)]]
  BY DEF Retain
<1> HIDE DEF r, P, N
<1>5. \A n \in 1..N : seq[Place(seq, S, n)] \in X
  BY <1>2, <1>3
<1>6. r \in Seq(X) /\ Len(r) = N /\ \A n \in 1..N : r[n] = seq[Place(seq, S, n)]
  BY <1>1, <1>4, <1>5
<1>7. ASSUME NEW m \in 1..N, NEW n \in 1..N, m < n PROVE Place(seq, S, m) < Place(seq, S, n)
  <2> DEFINE a == Place(seq, S, m)
             b == Place(seq, S, n)
  <2>1. a \in P /\ b \in P /\ Rank(seq, S, a) = m /\ Rank(seq, S, b) = n
    BY <1>3
  <2> HIDE DEF a, b
  <2>2. a \in Nat /\ b \in Nat
    BY <1>2, <2>1
  <2>3. ~(b < a) /\ a # b
    BY <1>1, <1>7, <2>1
  <2> QED
    BY <2>2, <2>3 DEF a, b
<1>8. ASSUME NEW i \in P PROVE \E n \in 1..N : Place(seq, S, n) = i
  <2>1. PICK n \in 1..N : n = Rank(seq, S, i)
    BY <1>1
  <2>2. Place(seq, S, n) \in P /\ Rank(seq, S, Place(seq, S, n)) = n
    BY <1>3
  <2>3. i \in Nat /\ Place(seq, S, n) \in Nat
    BY <1>2, <2>2
  <2>4. ~(i < Place(seq, S, n)) /\ ~(Place(seq, S, n) < i)
    BY <1>1, <2>1, <2>2
  <2> QED
    BY <2>3, <2>4
<1>9. Len(r) <= Len(seq)
  BY <1>1, <1>6
<1> QED
  BY <1>2, <1>2a, <1>3, <1>6, <1>7, <1>8, <1>9 DEF r

-----------------------------------------------------------------------------
(***************************************************************************)
(* Lists that name the members of a set, each once.                        *)
(***************************************************************************)
Names(seq, S) ==
    /\ seq \in Seq(Keys)
    /\ \A i, j \in 1..Len(seq) : seq[i] = seq[j] => i = j
    /\ \A i \in 1..Len(seq) : seq[i] \in S
    /\ \A x \in S : \E i \in 1..Len(seq) : seq[i] = x

\* Such a list is as long as the set.
LEMMA NamesLength ==
    ASSUME NEW seq, NEW S, Names(seq, S)
    PROVE  /\ IsFiniteSet(S) /\ Cardinality(S) = Len(seq) /\ ToSet(seq) = S
           /\ Len(seq) \in Nat
<1>1. /\ seq \in Seq(Keys) /\ \A i, j \in 1..Len(seq) : seq[i] = seq[j] => i = j
      /\ \A i \in 1..Len(seq) : seq[i] \in S
      /\ \A x \in S : \E i \in 1..Len(seq) : seq[i] = x
  BY DEF Names
<1>2. Len(seq) \in Nat /\ DOMAIN seq = 1..Len(seq)
  BY <1>1
<1>3. IsFiniteSet(1..Len(seq)) /\ Cardinality(1..Len(seq)) = Len(seq)
  BY <1>2, OneTo
<1> DEFINE D == 1..Len(seq)
           f == [i \in D |-> seq[i]]
<1>4. f \in [D -> S] /\ \A i \in D : f[i] = seq[i]
  BY <1>1
<1> HIDE DEF f
<1>5. f \in Bijection(D, S)
  <2>1. \A i, j \in D : f[i] = f[j] => i = j
    BY <1>1, <1>4
  <2>2. \A x \in S : \E i \in D : f[i] = x
    BY <1>1, <1>4
  <2> HIDE DEF D
  <2> QED
    BY <1>4, <2>1, <2>2 DEF Bijection, Injection, IsInjective, Surjection
<1>6. IsFiniteSet(S) /\ Cardinality(S) = Cardinality(D)
  <2> HIDE DEF D
  <2> QED
    BY <1>3, <1>5, FS_Bijection DEF ExistsBijection, D
<1>7. ToSet(seq) = S
  BY <1>1, <1>2 DEF ToSet
<1> QED
  BY <1>2, <1>3, <1>6, <1>7

\* retain takes the name it is about out of the list.
LEMMA NamesWithout ==
    ASSUME NEW seq, NEW S, Names(seq, S), NEW k
    PROVE  Names(Without(seq, k), S \ {k})
<1> DEFINE K == Keys \ {k}
           r == Retain(seq, K)
           at(n) == Place(seq, K, n)
<1>1. /\ seq \in Seq(Keys) /\ \A i, j \in 1..Len(seq) : seq[i] = seq[j] => i = j
      /\ \A i \in 1..Len(seq) : seq[i] \in S
      /\ \A x \in S : \E i \in 1..Len(seq) : seq[i] = x
  BY DEF Names
<1>2. \A i \in 1..Len(seq) : seq[i] \in Keys
  BY <1>1
<1>3. \A x \in Keys : x \in K <=> x # k
  OBVIOUS
<1>4. k \notin K
  OBVIOUS
<1> HIDE DEF K
<1>5. /\ r \in Seq(Keys)
      /\ \A n \in 1..Len(r) : at(n) \in 1..Len(seq) /\ r[n] = seq[at(n)] /\ r[n] \in K
      /\ \A m, n \in 1..Len(r) : m < n => at(m) < at(n)
      /\ \A i \in 1..Len(seq) : seq[i] \in K => \E n \in 1..Len(r) : at(n) = i
  BY <1>1, RetainFacts
<1> HIDE DEF r, at
<1>6. ASSUME NEW m \in 1..Len(r), NEW n \in 1..Len(r), r[m] = r[n] PROVE m = n
  <2>1. Len(r) \in Nat /\ Len(seq) \in Nat
    BY <1>1, <1>5
  <2>2. at(m) = at(n) /\ m \in Nat /\ n \in Nat
    BY <1>1, <1>5, <1>6, <2>1
  <2>3. PICK p \in Nat : p = at(m) /\ p = at(n)
    BY <1>5, <2>1, <2>2
  <2>4. (m < n => p < p) /\ (n < m => p < p)
    BY <1>5, <2>3
  <2> QED
    BY <2>2, <2>3, <2>4
<1>7. ASSUME NEW n \in 1..Len(r) PROVE r[n] \in S \ {k}
  BY <1>1, <1>4, <1>5
<1>8. ASSUME NEW x \in S \ {k} PROVE \E n \in 1..Len(r) : r[n] = x
  <2>1. PICK i \in 1..Len(seq) : seq[i] = x
    BY <1>1
  <2>2. PICK n \in 1..Len(r) : at(n) = i
    BY <1>2, <1>3, <1>5, <2>1
  <2> QED
    BY <1>5, <2>1, <2>2
<1>9. Names(r, S \ {k})
  BY <1>5, <1>6, <1>7, <1>8 DEF Names
<1> QED
  BY <1>9 DEF r, K, Without

\* A new name at the end.
LEMMA NamesAppend ==
    ASSUME NEW seq, NEW S, Names(seq, S), NEW k \in Keys, k \notin S
    PROVE  Names(Append(seq, k), S \cup {k}) /\ Len(Append(seq, k)) = Len(seq) + 1
<1> DEFINE c == Append(seq, k)
<1>1. /\ seq \in Seq(Keys) /\ \A i, j \in 1..Len(seq) : seq[i] = seq[j] => i = j
      /\ \A i \in 1..Len(seq) : seq[i] \in S
      /\ \A x \in S : \E i \in 1..Len(seq) : seq[i] = x
  BY DEF Names
<1>2. /\ c \in Seq(Keys) /\ Len(c) = Len(seq) + 1 /\ c[Len(seq) + 1] = k
      /\ \A i \in 1..Len(seq) : c[i] = seq[i]
  BY <1>1
<1> HIDE DEF c
<1>3. Len(seq) \in Nat
  BY <1>1
<1>4. \A i \in 1..Len(c) : i \in 1..Len(seq) \/ i = Len(seq) + 1
  BY <1>2, <1>3
<1>5. Len(seq) + 1 \in 1..Len(c) /\ \A i \in 1..Len(seq) : i \in 1..Len(c)
  BY <1>2, <1>3
<1>6. \A i, j \in 1..Len(c) : c[i] = c[j] => i = j
  BY <1>1, <1>2, <1>4
<1>7. \A i \in 1..Len(c) : c[i] \in S \cup {k}
  BY <1>1, <1>2, <1>4
<1>8. \A x \in S \cup {k} : \E i \in 1..Len(c) : c[i] = x
  BY <1>1, <1>2, <1>5
<1> QED
  BY <1>2, <1>6, <1>7, <1>8 DEF Names, c

\* The names behind the first n.
LEMMA NamesCut ==
    ASSUME NEW seq, NEW S, Names(seq, S), NEW n \in 0..Len(seq)
    PROVE  /\ Names(SubSeq(seq, n + 1, Len(seq)), S \ ToSet(SubSeq(seq, 1, n)))
           /\ Len(SubSeq(seq, n + 1, Len(seq))) = Len(seq) - n
           /\ ToSet(SubSeq(seq, 1, n)) \subseteq S
<1> DEFINE a == SubSeq(seq, 1, n)
           b == SubSeq(seq, n + 1, Len(seq))
<1>1. /\ seq \in Seq(Keys) /\ \A i, j \in 1..Len(seq) : seq[i] = seq[j] => i = j
      /\ \A i \in 1..Len(seq) : seq[i] \in S
      /\ \A x \in S : \E i \in 1..Len(seq) : seq[i] = x
  BY DEF Names
<1>2. Len(seq) \in Nat /\ n \in Nat /\ n <= Len(seq)
  BY <1>1
<1>3. a \in Seq(Keys) /\ Len(a) = n /\ DOMAIN a = 1..n /\ \A i \in 1..n : a[i] = seq[i]
  BY <1>1, <1>2
<1>4. b \in Seq(Keys) /\ Len(b) = Len(seq) - n /\ \A i \in 1..Len(b) : b[i] = seq[n + i]
  BY <1>1, <1>2
<1>5. \A x : x \in ToSet(a) <=> \E i \in 1..n : seq[i] = x
  BY <1>3 DEF ToSet
<1> HIDE DEF a, b
<1>6. \A i \in 1..n : i \in 1..Len(seq)
  BY <1>2
<1>7. \A i \in 1..Len(b) : n + i \in 1..Len(seq) /\ n + i \notin 1..n /\ i \in Nat
  BY <1>2, <1>4
<1>8. ASSUME NEW i \in 1..Len(b), NEW j \in 1..Len(b), b[i] = b[j] PROVE i = j
  <2>1. seq[n + i] = seq[n + j]
    BY <1>4, <1>8
  <2>2. n + i = n + j
    BY <1>1, <1>7, <2>1
  <2> QED
    BY <1>2, <1>7, <2>2
<1>9. ASSUME NEW i \in 1..Len(b) PROVE b[i] \in S \ ToSet(a)
  <2>1. PICK m \in 1..Len(seq) : m = n + i /\ m \notin 1..n
    BY <1>7
  <2>2. b[i] = seq[m] /\ seq[m] \in S
    BY <1>1, <1>4, <2>1
  <2>3. seq[m] \notin ToSet(a)
    BY <1>1, <1>5, <1>6, <2>1
  <2> QED
    BY <2>2, <2>3
<1>10. ASSUME NEW x \in S \ ToSet(a) PROVE \E i \in 1..Len(b) : b[i] = x
  <2>1. PICK m \in 1..Len(seq) : seq[m] = x
    BY <1>1
  <2>2. m \notin 1..n
    BY <1>5, <2>1
  <2>3. PICK i \in 1..Len(b) : n + i = m
    <3>1. m - n \in 1..Len(b) /\ n + (m - n) = m
      BY <1>2, <1>4, <2>2
    <3> QED
      BY <3>1
  <2>4. b[i] = seq[n + i]
    BY <1>4
  <2> QED
    BY <2>1, <2>3, <2>4
<1>11. ToSet(a) \subseteq S
  BY <1>1, <1>5, <1>6
<1>12. Names(b, S \ ToSet(a))
  BY <1>4, <1>8, <1>9, <1>10 DEF Names
<1> QED
  BY <1>4, <1>11, <1>12 DEF a, b

-----------------------------------------------------------------------------
(***************************************************************************)
(* The order list names the pooled origins, and the pool keeps within its  *)
(* capacity.                                                               *)
(***************************************************************************)
OrderInv == Names(order, Pooled) /\ Cardinality(Pooled) <= PoolCapacity

\* Touching a pooled origin makes it the newest.
LEMMA TouchOrder ==
    ASSUME OrderInv, NEW k \in Keys, entries[k] # 0, Touch(k), entries' = entries
    PROVE  OrderInv'
<1> DEFINE o == Without(order, k)
           S == Pooled \ {k}
<1>1. Names(o, S)
  BY NamesWithout DEF OrderInv
<1>2. k \notin S /\ S \cup {k} = Pooled
  BY DEF Pooled
<1> HIDE DEF o, S
<1>3. Names(Append(o, k), S \cup {k})
  BY <1>1, <1>2, NamesAppend
<1>4. order' = Append(o, k) /\ Pooled' = Pooled
  BY DEF Touch, o, Pooled
<1>5. Names(order', Pooled')
  BY <1>2, <1>3, <1>4
<1>6. Cardinality(Pooled') <= PoolCapacity
  BY <1>4 DEF OrderInv
<1> QED
  BY <1>5, <1>6 DEF OrderInv

\* Taking an entry out takes its name out.
LEMMA RemoveOrder ==
    ASSUME OrderInv, entries \in [Keys -> Nat], NEW k \in Keys, RemoveEntry(k)
    PROVE  OrderInv'
<1> DEFINE o == Without(order, k)
           S == Pooled \ {k}
<1>1. Names(o, S)
  BY NamesWithout DEF OrderInv
<1>2. order' = o /\ Pooled' = S
  BY DEF RemoveEntry, Pooled
<1>3. IsFiniteSet(Pooled)
  BY NamesLength DEF OrderInv
<1>4. S \in SUBSET Pooled
  OBVIOUS
<1> HIDE DEF o, S
<1>5. Cardinality(S) <= Cardinality(Pooled) /\ Cardinality(S) \in Nat
      /\ Cardinality(Pooled) \in Nat
  BY <1>3, <1>4, FS_Subset, FS_CardinalityType
<1>6. Cardinality(S) <= PoolCapacity
  BY <1>5, PoolAssumption DEF OrderInv
<1>7. Names(order', Pooled') /\ Cardinality(Pooled') <= PoolCapacity
  BY <1>1, <1>2, <1>6
<1> QED
  BY <1>7 DEF OrderInv

\* The same, if the entry has the generation it should have.
LEMMA RemoveIfOrder ==
    ASSUME OrderInv, entries \in [Keys -> Nat], NEW k \in Keys, NEW g,
           RemoveIfGeneration(k, g)
    PROVE  OrderInv'
<1>1. CASE RemoveEntry(k)
  BY <1>1, RemoveOrder
<1>2. CASE UNCHANGED <<entries, order>>
  BY <1>2 DEF OrderInv, Pooled
<1> QED
  BY <1>1, <1>2 DEF RemoveIfGeneration

\* A new connection displaces as many of the oldest as the capacity asks for.
LEMMA InsertOrder ==
    ASSUME OrderInv, entries \in [Keys -> Nat], NEW k \in Keys, entries[k] = 0,
           NEW g \in Nat \ {0}, Insert(k, g)
    PROVE  OrderInv'
<1> DEFINE excess == IF Cardinality(Pooled) < PoolCapacity THEN 0
                     ELSE Cardinality(Pooled) - PoolCapacity + 1
           evicted == ToSet(SubSeq(order, 1, excess))
           rest == SubSeq(order, excess + 1, Len(order))
           S == Pooled \ evicted
<1>1. /\ entries' = [j \in Keys |-> IF j = k THEN g
                                    ELSE IF j \in evicted THEN 0 ELSE entries[j]]
      /\ order' = Append(rest, k)
  BY DEF Insert
<1>2. PICK n \in Nat : n = Cardinality(Pooled) /\ n = Len(order)
  BY NamesLength DEF OrderInv
<1>3. excess \in 0..Len(order) /\ Len(order) - excess + 1 <= PoolCapacity
  <2>1. excess = IF n < PoolCapacity THEN 0 ELSE n - PoolCapacity + 1
    BY <1>2
  <2>2. PoolCapacity \in Nat \ {0} /\ n <= PoolCapacity
    BY <1>2, PoolAssumption DEF OrderInv
  <2> HIDE DEF excess
  <2>3. excess \in Nat /\ excess <= n /\ n - excess + 1 <= PoolCapacity
    BY <2>1, <2>2
  <2> QED
    BY <1>2, <2>3
<1> HIDE DEF excess
<1>4. /\ Names(rest, S) /\ Len(rest) = Len(order) - excess /\ evicted \subseteq Pooled
  <2>1. Names(order, Pooled)
    BY DEF OrderInv
  <2> QED
    BY <1>3, <2>1, NamesCut
<1>5. k \notin S /\ k \notin evicted
  BY <1>4 DEF Pooled
<1> HIDE DEF rest, evicted
<1>6. Pooled' = S \cup {k}
  <2>1. \A j \in Keys : entries'[j] = IF j = k THEN g
                                      ELSE IF j \in evicted THEN 0 ELSE entries[j]
    BY <1>1
  <2>2. ASSUME NEW j \in Keys PROVE entries'[j] # 0 <=> j \in S \cup {k}
    <3>1. CASE j = k
      BY <2>1, <3>1
    <3>2. CASE j # k /\ j \in evicted
      BY <2>1, <3>2
    <3>3. CASE j # k /\ j \notin evicted
      BY <2>1, <3>3 DEF Pooled
    <3> QED
      BY <3>1, <3>2, <3>3
  <2>3. S \cup {k} \subseteq Keys
    BY DEF Pooled
  <2>4. Pooled' = {j \in Keys : entries'[j] # 0}
    BY DEF Pooled
  <2> HIDE DEF S
  <2> QED
    BY <2>2, <2>3, <2>4
<1> HIDE DEF S
<1>7. Names(Append(rest, k), S \cup {k}) /\ Len(Append(rest, k)) = Len(rest) + 1
  BY <1>4, <1>5, NamesAppend
<1>8. Cardinality(S \cup {k}) = Len(Append(rest, k))
  <2> DEFINE q == Append(rest, k)
             Q == S \cup {k}
  <2>1. Names(q, Q)
    BY <1>7
  <2> HIDE DEF q, Q
  <2>2. Cardinality(Q) = Len(q)
    BY <2>1, NamesLength
  <2> QED
    BY <2>2 DEF q, Q
<1>9. Cardinality(Pooled') <= PoolCapacity
  BY <1>3, <1>4, <1>6, <1>7, <1>8
<1>10. Names(order', Pooled')
  BY <1>1, <1>6, <1>7
<1> QED
  BY <1>9, <1>10 DEF OrderInv

\* What TypeOK adds to the types above.
MoreTypes ==
    /\ asleep \subseteq Threads /\ elapsed \subseteq Threads
    /\ alive \subseteq 1..(nextGen - 1) /\ watched \subseteq Keys \X (1..(nextGen - 1))
    /\ pc \in [Threads -> {"idle", "prune", "acquire", "entry", "send", "body", "failed",
                           "remove", "connect", "first"}]
    /\ gen \in [Threads -> Nat] /\ owes \in [Threads -> BOOLEAN]

\* Every step keeps the order list.
LEMMA OrderStep ==
    ASSUME PoolInv, MoreTypes, OrderInv, [Next]_vars
    PROVE  OrderInv'
<1> USE DEF PoolInv
<1>0. entries \in [Keys -> Nat] /\ \A t \in Threads : pc[t] # "idle" => key[t] \in Keys
  BY DEF PoolTypes, RequestTypes
<1>1. ASSUME NEW t \in Threads, Prune(t) \/ DeadlinePassed(t)
      PROVE  OrderInv'
  <2>1. key[t] \in Keys /\ GetBeforeLease(t)
    BY <1>0, <1>1 DEF Prune, DeadlinePassed, GetBeforeLease
  <2>2. CASE RemoveEntry(key[t])
    BY <1>0, <2>1, <2>2, RemoveOrder
  <2>3. CASE entries[key[t]] # 0 /\ Touch(key[t]) /\ entries' = entries
    BY <2>1, <2>3, TouchOrder
  <2>4. CASE UNCHANGED <<entries, order>>
    BY <2>4 DEF OrderInv, Pooled
  <2> QED
    BY <2>1, <2>2, <2>3, <2>4 DEF GetBeforeLease
<1>2. ASSUME NEW t \in Threads, EntryFound(t)
      PROVE  OrderInv'
  <2>1. key[t] \in Keys /\ entries[key[t]] # 0 /\ Touch(key[t]) /\ entries' = entries
    BY <1>0, <1>2 DEF EntryFound, AtEntry
  <2> QED
    BY <2>1, TouchOrder
<1>3. ASSUME NEW t \in Threads, SendStale(t) \/ RemoveFailed(t) \/ BodyFails(t)
      PROVE  OrderInv'
  <2>1. key[t] \in Keys /\ RemoveIfGeneration(key[t], gen[t])
    BY <1>0, <1>3 DEF SendStale, RemoveFailed, BodyFails
  <2> QED
    BY <1>0, <2>1, RemoveIfOrder
<1>4. ASSUME NEW t \in Threads, InsertConnection(t)
      PROVE  OrderInv'
  <2>1. key[t] \in Keys /\ connecting[key[t]] # 0 /\ Insert(key[t], nextGen)
    BY <1>0, <1>4 DEF InsertConnection, ClaimInv, ClaimHeld
  <2>2. entries[key[t]] = 0 /\ nextGen \in Nat \ {0}
    BY <2>1 DEF ClaimInv, NoConnectBesideEntry, PoolTypes
  <2> QED
    BY <1>0, <2>1, <2>2, InsertOrder
<1>5. ASSUME NEW w \in watched, ConnectionTask(w)
      PROVE  OrderInv'
  <2>1. w[1] \in Keys /\ RemoveIfGeneration(w[1], w[2])
    BY <1>5 DEF ConnectionTask, MoreTypes
  <2> QED
    BY <1>0, <2>1, RemoveIfOrder
<1>6. ASSUME NEW k \in Keys, EvictIdle(k)
      PROVE  OrderInv'
  BY <1>0, <1>6, RemoveOrder DEF EvictIdle
<1>7. ASSUME NEW t \in Threads,
             \/ Dispatch(t) \/ Acquire(t) \/ SleepForSlot(t) \/ AcquireTimesOut(t)
             \/ ClaimConnector(t) \/ SleepForConnector(t) \/ EntryTimesOut(t)
             \/ SendOk(t) \/ SendTimesOut(t) \/ SendFails(t) \/ BodyEnds(t) \/ BodyFailed(t)
             \/ ConnectFails(t) \/ FirstSendFails(t) \/ Notify(t) \/ Clock(t) \/ Spurious(t)
      PROVE  OrderInv'
  <2>1. UNCHANGED <<entries, order>>
    BY <1>7 DEF Dispatch, Acquire, SleepForSlot, AcquireTimesOut, ClaimConnector,
       SleepForConnector, EntryTimesOut, SendOk, SendTimesOut, SendFails, BodyEnds,
       BodyFailed, ConnectFails, FirstSendFails, Notify, Clock, Spurious, poolVars
  <2> QED
    BY <2>1 DEF OrderInv, Pooled
<1>8. ASSUME (\E g \in alive : ConnectionDies(g)) \/ UNCHANGED vars
      PROVE  OrderInv'
  <2>1. UNCHANGED <<entries, order>>
    BY <1>8 DEF ConnectionDies, vars, poolVars
  <2> QED
    BY <2>1 DEF OrderInv, Pooled
<1> QED
  BY <1>1, <1>2, <1>3, <1>4, <1>5, <1>6, <1>7, <1>8 DEF Next, Work

-----------------------------------------------------------------------------
(***************************************************************************)
(* Stream counts.                                                          *)
(***************************************************************************)
Leased == {"entry", "send", "body", "failed", "connect", "first"}

\* Steps that neither take nor drop a lease.
LEMMA LeasesSame ==
    ASSUME LeasesCounted, active' = active,
           \A t \in Threads : pc'[t] \in Leased <=> pc[t] \in Leased,
           \A t \in Threads : pc[t] \in Leased => key'[t] = key[t]
    PROVE  LeasesCounted'
<1>1. \A k \in Keys : Leases(k)' = Leases(k)
  BY DEF Leases, Leased
<1> QED
  BY <1>1 DEF LeasesCounted

\* A lease is taken below the limit.
LEMMA LeaseTaken ==
    ASSUME PoolInv, LeasesCounted, NEW t \in Threads, Acquire(t)
    PROVE  LeasesCounted'
<1> USE DEF PoolInv
<1> DEFINE x == key[t]
<1>1. x \in Keys /\ pc[t] = "acquire" /\ DOMAIN pc = Threads
  BY DEF Acquire, RequestTypes
<1>2. /\ active' = [active EXCEPT ![x] = active[x] + 1] /\ active[x] < Limit
      /\ pc' = [pc EXCEPT ![t] = "entry"] /\ key' = key
  BY DEF Acquire, ReserveSlot, SlotFree, Goto
<1> HIDE DEF x
<1> SUFFICES ASSUME NEW k \in Keys
             PROVE  active'[k] = Cardinality(Leases(k)') /\ active'[k] <= Limit
  BY DEF LeasesCounted
<1>3. active[k] = Cardinality(Leases(k)) /\ active[k] <= Limit /\ active[k] \in Nat
      /\ active \in [Keys -> Nat]
  BY DEF LeasesCounted, PoolTypes
<1>4. CASE k = x
  <2>1. Leases(k)' = Leases(k) \cup {t} /\ t \notin Leases(k)
    BY <1>1, <1>2, <1>4 DEF Leases, x
  <2>2. IsFiniteSet(Leases(k))
    <3>1. Leases(k) \in SUBSET Threads
      BY DEF Leases
    <3> QED
      BY <3>1, FS_Subset, SlotsAssumption
  <2>3. Cardinality(Leases(k)') = Cardinality(Leases(k)) + 1
    BY <2>1, <2>2, FS_AddElement
  <2>4. active'[k] = active[k] + 1 /\ active[k] < Limit
    BY <1>2, <1>3, <1>4
  <2> QED
    BY <1>3, <2>3, <2>4, SlotsAssumption
<1>5. CASE k # x
  <2>1. Leases(k)' = Leases(k)
    BY <1>1, <1>2, <1>5 DEF Leases, x
  <2>2. active'[k] = active[k]
    BY <1>1, <1>2, <1>3, <1>5
  <2> QED
    BY <1>3, <2>1, <2>2
<1> QED
  BY <1>4, <1>5

\* A lease that is dropped was counted.
LEMMA LeaseDropped ==
    ASSUME PoolInv, LeasesCounted, NEW t \in Threads, NEW to \in {"idle", "remove"},
           pc[t] \in Leased, DropLease(t, to)
    PROVE  LeasesCounted'
<1> USE DEF PoolInv
<1> DEFINE x == key[t]
<1>1. x \in Keys /\ DOMAIN pc = Threads /\ pc[t] # "idle"
  BY DEF RequestTypes, Leased
<1>2. /\ active' = [active EXCEPT ![x] = IF active[x] = 0 THEN 0 ELSE active[x] - 1]
      /\ pc' = [pc EXCEPT ![t] = to] /\ key' = key
  BY DEF DropLease, ReleaseSlot, Goto
<1>3. to \notin Leased
  BY DEF Leased
<1> HIDE DEF x
<1> SUFFICES ASSUME NEW k \in Keys
             PROVE  active'[k] = Cardinality(Leases(k)') /\ active'[k] <= Limit
  BY DEF LeasesCounted
<1>4. active[k] = Cardinality(Leases(k)) /\ active[k] <= Limit /\ active[k] \in Nat
      /\ active \in [Keys -> Nat]
  BY DEF LeasesCounted, PoolTypes
<1>5. CASE k = x
  <2>1. Leases(k)' = Leases(k) \ {t} /\ t \in Leases(k)
    BY <1>1, <1>2, <1>3, <1>5 DEF Leases, Leased, x
  <2>2. IsFiniteSet(Leases(k))
    <3>1. Leases(k) \in SUBSET Threads
      BY DEF Leases
    <3> QED
      BY <3>1, FS_Subset, SlotsAssumption
  <2>3. Cardinality(Leases(k)') = Cardinality(Leases(k)) - 1
    BY <2>1, <2>2, FS_RemoveElement
  <2>4. Cardinality(Leases(k)) # 0
    BY <2>1, <2>2, FS_EmptySet
  <2>5. active'[k] = active[k] - 1
    BY <1>2, <1>4, <1>5, <2>4
  <2> QED
    BY <1>4, <2>3, <2>5, SlotsAssumption
<1>6. CASE k # x
  <2>1. Leases(k)' = Leases(k)
    BY <1>1, <1>2, <1>6 DEF Leases, x
  <2>2. active'[k] = active[k]
    BY <1>1, <1>2, <1>4, <1>6
  <2> QED
    BY <1>4, <2>1, <2>2
<1> QED
  BY <1>5, <1>6

\* Every step keeps the counts exact.
LEMMA LeaseStep ==
    ASSUME PoolInv, LeasesCounted, [Next]_vars
    PROVE  LeasesCounted'
<1> USE DEF PoolInv, slotVars, poolVars, connVars, requestVars
<1>0. DOMAIN pc = Threads /\ DOMAIN key = Threads
  BY DEF RequestTypes
<1>1. ASSUME NEW t \in Threads, Acquire(t) PROVE LeasesCounted'
  BY <1>1, LeaseTaken
<1>2. ASSUME NEW t \in Threads,
             \/ EntryTimesOut(t) \/ SendTimesOut(t) \/ SendFails(t) \/ BodyEnds(t)
             \/ BodyFailed(t) \/ ConnectFails(t) \/ FirstSendFails(t)
      PROVE  LeasesCounted'
  <2>1. pc[t] \in Leased /\ \E to \in {"idle", "remove"} : DropLease(t, to)
    BY <1>2 DEF EntryTimesOut, AtEntry, SendTimesOut, SendFails, BodyEnds, BodyFailed,
       ConnectFails, FirstSendFails, Leased
  <2> QED
    BY <2>1, LeaseDropped
<1>3. ASSUME NEW t \in Threads,
             \/ Dispatch(t) \/ Prune(t) \/ DeadlinePassed(t) \/ SleepForSlot(t)
             \/ AcquireTimesOut(t) \/ EntryFound(t) \/ ClaimConnector(t)
             \/ SleepForConnector(t) \/ SendStale(t) \/ SendOk(t) \/ RemoveFailed(t)
             \/ BodyFails(t) \/ InsertConnection(t) \/ Notify(t) \/ Clock(t) \/ Spurious(t)
      PROVE  LeasesCounted'
  <2>1. active' = active
    BY <1>3 DEF Dispatch, Prune, DeadlinePassed, GetBeforeLease, SleepForSlot, WaitForSlot,
       AcquireTimesOut, SlotTimesOut, EntryFound, ClaimConnector, SleepForConnector,
       SendStale, SendOk, RemoveFailed, BodyFails, InsertConnection, Notify, Clock,
       TimePasses, WaitReturns, Spurious, SpuriousWake
  <2>2. /\ \/ pc' = pc
           \/ \E to \in Leased : pc' = [pc EXCEPT ![t] = to] /\ pc[t] \in Leased
           \/ \E to \in {"idle", "prune", "acquire"} :
                  pc' = [pc EXCEPT ![t] = to] /\ pc[t] \notin Leased
        /\ \/ key' = key
           \/ \E k : key' = [key EXCEPT ![t] = k] /\ pc[t] \notin Leased
    BY <1>3 DEF Dispatch, Prune, DeadlinePassed, GetBeforeLease, SleepForSlot,
       AcquireTimesOut, EntryFound, AtEntry, ClaimConnector, SleepForConnector, SendStale,
       SendOk, RemoveFailed, BodyFails, InsertConnection, Notify, Clock, Spurious, Goto,
       Leased
  <2>3. \A u \in Threads : pc'[u] \in Leased <=> pc[u] \in Leased
    BY <1>0, <2>2 DEF Leased
  <2>4. \A u \in Threads : pc[u] \in Leased => key'[u] = key[u]
    BY <1>0, <2>2
  <2> QED
    BY <2>1, <2>3, <2>4, LeasesSame
<1>4. ASSUME \/ \E g \in alive : ConnectionDies(g)
             \/ \E w \in watched : ConnectionTask(w)
             \/ \E k \in Keys : EvictIdle(k)
             \/ UNCHANGED vars
      PROVE  LeasesCounted'
  <2>1. active' = active /\ pc' = pc /\ key' = key
    BY <1>4 DEF ConnectionDies, ConnectionTask, EvictIdle, vars
  <2> QED
    BY <2>1, LeasesSame
<1> QED
  BY <1>1, <1>2, <1>3, <1>4 DEF Next, Work

-----------------------------------------------------------------------------
\* Every step keeps the remaining types.
LEMMA MoreTypesStep ==
    ASSUME PoolInv, MoreTypes, [Next]_vars
    PROVE  MoreTypes'
<1> USE DEF PoolInv, slotVars, poolVars, connVars, requestVars
<1> DEFINE at == {"idle", "prune", "acquire", "entry", "send", "body", "failed", "remove",
                  "connect", "first"}
<1>0. /\ asleep \subseteq Threads /\ elapsed \subseteq Threads
      /\ alive \subseteq 1..(nextGen - 1) /\ watched \subseteq Keys \X (1..(nextGen - 1))
      /\ pc \in [Threads -> at] /\ gen \in [Threads -> Nat] /\ owes \in [Threads -> BOOLEAN]
      /\ nextGen \in Nat \ {0} /\ entries \in [Keys -> Nat]
      /\ \A t \in Threads : pc[t] # "idle" => key[t] \in Keys
  BY DEF MoreTypes, PoolTypes, RequestTypes
<1>1. ASSUME NEW t \in Threads, Dispatch(t) \/ Work(t) \/ Clock(t) \/ Spurious(t)
      PROVE  asleep' \subseteq Threads /\ elapsed' \subseteq Threads
  BY <1>0, <1>1 DEF Work, Dispatch, Prune, DeadlinePassed, GetBeforeLease, Acquire,
     SleepForSlot, WaitForSlot, AcquireTimesOut, SlotTimesOut, EntryFound, ClaimConnector,
     SleepForConnector, EntryTimesOut, SendStale, SendOk, SendTimesOut, SendFails,
     RemoveFailed, BodyEnds, BodyFails, BodyFailed, ConnectFails, InsertConnection,
     FirstSendFails, DropLease, Notify, NotifyAll, Clock, TimePasses, WaitReturns, Spurious,
     SpuriousWake
<1>2. ASSUME NEW t \in Threads, Dispatch(t) \/ Work(t) \/ Clock(t) \/ Spurious(t)
      PROVE  pc' = pc \/ \E to \in at : pc' = [pc EXCEPT ![t] = to]
  BY <1>2 DEF Work, Dispatch, Prune, DeadlinePassed, Acquire, SleepForSlot, AcquireTimesOut,
     EntryFound, ClaimConnector, SleepForConnector, EntryTimesOut, SendStale, SendOk,
     SendTimesOut, SendFails, RemoveFailed, BodyEnds, BodyFails, BodyFailed, ConnectFails,
     InsertConnection, FirstSendFails, DropLease, Notify, Clock, Spurious, Goto
<1>3. ASSUME NEW t \in Threads, Dispatch(t) \/ Work(t) \/ Clock(t) \/ Spurious(t)
      PROVE  owes' = owes \/ \E b \in BOOLEAN : owes' = [owes EXCEPT ![t] = b]
  BY <1>3 DEF Work, Dispatch, Prune, DeadlinePassed, GetBeforeLease, Acquire, SleepForSlot,
     AcquireTimesOut, EntryFound, ClaimConnector, SleepForConnector, EntryTimesOut, SendStale,
     SendOk, SendTimesOut, SendFails, RemoveFailed, BodyEnds, BodyFails, BodyFailed,
     ConnectFails, InsertConnection, FirstSendFails, DropLease, Notify, Clock, Spurious
<1>4. ASSUME NEW t \in Threads, Dispatch(t) \/ Work(t) \/ Clock(t) \/ Spurious(t)
      PROVE  gen' = gen \/ \E g \in Nat : gen' = [gen EXCEPT ![t] = g]
  <2>1. CASE EntryFound(t)
    <3>1. entries[key[t]] \in Nat
      BY <1>0, <2>1 DEF EntryFound, AtEntry
    <3> QED
      BY <2>1, <3>1 DEF EntryFound, Uses
  <2>2. CASE InsertConnection(t)
    BY <1>0, <2>2 DEF InsertConnection, Uses
  <2>3. CASE ~EntryFound(t) /\ ~InsertConnection(t)
    BY <1>4, <2>3 DEF Work, Dispatch, Prune, DeadlinePassed, GetBeforeLease, Acquire,
       SleepForSlot, AcquireTimesOut, ClaimConnector, SleepForConnector, EntryTimesOut,
       SendStale, SendOk, SendTimesOut, SendFails, RemoveFailed, BodyEnds, BodyFails,
       BodyFailed, ConnectFails, FirstSendFails, Notify, Clock, Spurious, Uses
  <2> QED
    BY <2>1, <2>2, <2>3
<1>5. ASSUME NEW t \in Threads, Dispatch(t) \/ Work(t) \/ Clock(t) \/ Spurious(t)
      PROVE  /\ alive' \subseteq 1..(nextGen' - 1)
             /\ watched' \subseteq Keys \X (1..(nextGen' - 1))
  <2>1. CASE InsertConnection(t)
    <3>1. /\ alive' = alive \cup {nextGen} /\ watched' = watched \cup {<<key[t], nextGen>>}
          /\ nextGen' = nextGen + 1 /\ key[t] \in Keys
      BY <1>0, <2>1 DEF InsertConnection
    <3>2. \A g \in 1..(nextGen - 1) : g \in 1..(nextGen' - 1)
      BY <1>0, <3>1
    <3>3. nextGen \in 1..(nextGen' - 1)
      BY <1>0, <3>1
    <3> DEFINE N == 1..(nextGen - 1)
               M == 1..(nextGen' - 1)
    <3>4. /\ alive \subseteq N /\ watched \subseteq Keys \X N
          /\ \A g \in N : g \in M /\ nextGen \in M
      BY <1>0, <3>2, <3>3
    <3>5. nextGen \in M
      BY <3>3
    <3> HIDE DEF N, M
    <3>6. alive' \subseteq M /\ watched' \subseteq Keys \X M
      BY <3>1, <3>4, <3>5
    <3> QED
      BY <3>6 DEF M
  <2>2. CASE ~InsertConnection(t)
    <3>1. UNCHANGED <<alive, watched, nextGen>>
      BY <1>5, <2>2 DEF Work, Dispatch, Prune, DeadlinePassed, GetBeforeLease, Acquire,
         SleepForSlot, AcquireTimesOut, EntryFound, ClaimConnector, SleepForConnector,
         EntryTimesOut, SendStale, SendOk, SendTimesOut, SendFails, RemoveFailed, BodyEnds,
         BodyFails, BodyFailed, ConnectFails, FirstSendFails, DropLease, Notify, Clock,
         Spurious
    <3> QED
      BY <1>0, <3>1
  <2> QED
    BY <2>1, <2>2
<1>6. ASSUME NEW t \in Threads, Dispatch(t) \/ Work(t) \/ Clock(t) \/ Spurious(t)
      PROVE  MoreTypes'
  <2>1. pc' \in [Threads -> at]
    <3> HIDE DEF at
    <3> QED
      BY <1>0, <1>2, <1>6
  <2>2. gen' \in [Threads -> Nat] /\ owes' \in [Threads -> BOOLEAN]
    <3>1. gen' \in [Threads -> Nat]
      BY <1>0, <1>4, <1>6
    <3>2. owes' \in [Threads -> BOOLEAN]
      BY <1>0, <1>3, <1>6
    <3> QED
      BY <3>1, <3>2
  <2> QED
    BY <1>1, <1>5, <1>6, <2>1, <2>2 DEF MoreTypes
<1>7. ASSUME \/ \E g \in alive : ConnectionDies(g)
             \/ \E w \in watched : ConnectionTask(w)
             \/ \E k \in Keys : EvictIdle(k)
             \/ UNCHANGED vars
      PROVE  MoreTypes'
  <2>1. /\ UNCHANGED <<asleep, elapsed, nextGen, pc, gen, owes>>
        /\ alive' \subseteq alive /\ watched' \subseteq watched
    BY <1>7 DEF ConnectionDies, ConnectionTask, EvictIdle, vars
  <2> QED
    BY <1>0, <2>1 DEF MoreTypes
<1> QED
  BY <1>6, <1>7 DEF Next

\* A fresh pool has no leases and no entries.
LEMMA InitMore == Init => MoreTypes /\ LeasesCounted /\ OrderInv
<1> SUFFICES ASSUME Init PROVE MoreTypes /\ LeasesCounted /\ OrderInv
  OBVIOUS
<1>1. MoreTypes
  BY DEF Init, SlotsInit, MoreTypes
<1>2. LeasesCounted
  <2> SUFFICES ASSUME NEW k \in Keys
               PROVE  active[k] = Cardinality(Leases(k)) /\ active[k] <= Limit
    BY DEF LeasesCounted
  <2>1. Leases(k) = {} /\ active[k] = 0
    BY DEF Init, SlotsInit, Leases
  <2> QED
    BY <2>1, FS_EmptySet, SlotsAssumption
<1>3. OrderInv
  <2>1. Pooled = {} /\ order = << >>
    BY DEF Init, Pooled
  <2>2. Names(<< >>, {})
    BY DEF Names
  <2>3. Cardinality({}) <= PoolCapacity
    BY FS_EmptySet, PoolAssumption
  <2> QED
    BY <2>1, <2>2, <2>3 DEF OrderInv
<1> QED
  BY <1>1, <1>2, <1>3

\* The whole invariant of the pool.
SoundInv == PoolInv /\ SleepersCovered /\ MoreTypes /\ LeasesCounted /\ OrderInv

\* It holds in every reachable state: the counts and the order list on top of the claims.
THEOREM SoundInvariance == Spec => []SoundInv
<1>1. Init => SoundInv
  BY InitInv, InitMore DEF SoundInv
<1>2. SoundInv /\ [Next]_vars => SoundInv'
  BY NextInv, MoreTypesStep, LeaseStep, OrderStep DEF SoundInv
<1> QED
  BY <1>1, <1>2, PTL DEF Spec

\* One connection per origin, exact stream counts within the limit, and an order list that
\* names the pooled origins within the capacity, for any number of requests and origins and
\* whatever fails, times out, dies or is evicted (upstream_h2/pool.rs).
THEOREM PoolSoundTheorem == Spec => []PoolSound
<1>1. SoundInv => TypeOK
  <2> SUFFICES ASSUME SoundInv PROVE TypeOK
    OBVIOUS
  <2>1. order \in Seq(Keys)
    BY DEF SoundInv, OrderInv, Names
  <2> QED
    BY <2>1 DEF SoundInv, MoreTypes, PoolInv, PoolTypes, RequestTypes, TypeOK, SlotsTypeOK
<1>2. SoundInv => LeasesCounted /\ OrderMatchesEntries
  <2> SUFFICES ASSUME SoundInv PROVE OrderMatchesEntries
    BY DEF SoundInv
  <2>1. Names(order, Pooled) /\ Cardinality(Pooled) <= PoolCapacity
    BY DEF SoundInv, OrderInv
  <2>2. Cardinality(Pooled) = Len(order) /\ ToSet(order) = Pooled
    BY <2>1, NamesLength
  <2> QED
    BY <2>1, <2>2 DEF OrderMatchesEntries
<1>3. TypeOK /\ LeasesCounted /\ OrderMatchesEntries /\ OneConnector /\ NoConnectBesideEntry
        => PoolSound
  BY DEF PoolSound
<1> QED
  BY <1>1, <1>2, <1>3, SoundInvariance, OneConnectorTheorem, PTL
=============================================================================
