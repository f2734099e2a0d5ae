----------------------------- MODULE TraceStore -----------------------------
(***************************************************************************)
(* The trace collector of rsproxy (crates/rsproxy-trace/src/store.rs and   *)
(* store/).  Connection threads ("producers") submit session events to a   *)
(* bounded queue without ever blocking; control-plane threads ("callers")  *)
(* and live subscribers send blocking queries through the same queue; one  *)
(* collector thread ("the worker") owns the pending sessions, the resident *)
(* completed sessions and the registered subscribers.                      *)
(*                                                                         *)
(* A session is its identifier and its estimated size.  The loops of the   *)
(* worker (the sweep of stale sessions, the evictions) are steps of their  *)
(* own, one iteration each, so that no operator needs a sum.               *)
(***************************************************************************)
EXTENDS Integers, Sequences, FiniteSets

CONSTANTS
    Producers,      \* connection threads
    Callers,        \* threads that run Clear, Stats and read-only queries
    Subscribers,    \* threads that call follow once
    MaxId,          \* bound on the identifiers next_id hands out
    Sizes,          \* estimated sizes a session may have
    EventCosts,     \* estimated sizes a single queued event may have
    MaxEmits,       \* bound on the incremental events of one session
    QueueCapacity,  \* queue_capacity, at least one
    QueueBudget,    \* queue_memory_budget_bytes
    ResidentBudget, \* resident_memory_budget_bytes
    MaxSessions,    \* max_sessions
    PendingTTL,     \* PENDING_TTL in clock ticks of at least CLEANUP_INTERVAL
    BacklogLimit,   \* backlog_limit of a follow
    FollowCapacity, \* capacity of a subscriber's live channel, at least one
    NoOne           \* stands for "no thread"

ASSUME SizesAssumption ==
    /\ Sizes \subseteq Nat \ {0}
    /\ EventCosts \subseteq Nat \ {0}

ASSUME LimitsAssumption ==
    /\ MaxId \in Nat /\ MaxEmits \in Nat
    /\ QueueCapacity \in Nat \ {0} /\ FollowCapacity \in Nat \ {0}
    /\ QueueBudget \in Nat /\ ResidentBudget \in Nat
    /\ MaxSessions \in Nat /\ BacklogLimit \in Nat
    /\ PendingTTL \in Nat \ {0}

ASSUME ThreadsAssumption ==
    /\ NoOne \notin Callers \cup Subscribers
    /\ Callers \cap Subscribers = {}
    /\ IsFiniteSet(Subscribers)

VARIABLES
    \* Shared counters (TraceCounters).
    nextId,             \* next_id
    queueBytes,         \* queue_bytes
    queueDropped,       \* queue_dropped
    queueMemoryDropped, \* queue_memory_dropped
    \* The bounded channel.
    queue,
    \* Producers: control point, open session (0: none), command in hand,
    \* incremental events left, and whether finish was rejected.
    ppc, pid, pcmd, pleft, pclosing,
    \* Callers and the owner of the store.
    cpc, ccmd, owner,
    \* Subscribers: control point, cursor, undelivered backlog, live channel.
    spc, safter, sbacklog, schan,
    \* The worker: control point, command in hand, event index, session that
    \* is being committed.
    wpc, wcmd, wi, wsess,
    \* PendingSessions.
    pending, pendingBytes, incomplete, orphans, cleanupDue,
    \* MemoryStore.
    memory, memoryBytes, evicted,
    \* Registered followers and their losses.
    followers, followDropped,
    \* History: commits in order, Start events applied, pending and resident
    \* sessions removed by clear, budget aborts; per subscriber the ids
    \* received, the ids lost, and Len(log) and backlog length at registration.
    log, started, wipedPending, wipedResident,
    sgot, smissed, sreg

counterVars  == <<nextId, queueDropped, queueMemoryDropped>>
producerVars == <<ppc, pid, pcmd, pleft, pclosing>>
callerVars   == <<cpc, ccmd, owner>>
subVars      == <<spc, safter, sbacklog, schan, sgot, smissed, sreg>>
workerVars   == <<wpc, wcmd, wi, wsess>>
pendingVars  == <<pending, pendingBytes, incomplete, orphans, cleanupDue,
                  started>>
memoryVars   == <<memory, memoryBytes, evicted>>
followVars   == <<followers, followDropped, log>>
wipeVars     == <<wipedPending, wipedResident>>

vars == <<counterVars, queueBytes, queue, producerVars, callerVars, subVars,
          workerVars, pendingVars, memoryVars, followVars, wipeVars>>

-----------------------------------------------------------------------------
(***************************************************************************)
(* Data.                                                                   *)
(***************************************************************************)
Ids == 1..MaxId

\* An event, reduced to what the collector does with it: "Start", "Update"
\* (Request, Response, BodyChunk, BodySnapshot, Frame, Tls), "End", "Abort".
\* bytes is the estimated size of the session once the event is applied.
Event == [type : {"Start", "Update", "End", "Abort"}, id : Ids, bytes : Nat]

\* A command.  events is empty for everything but Event and Events; cost is
\* the queue memory it reserved; who waits for its reply.
Kinds == {"Event", "Events", "Clear", "Stats", "Read", "Follow", "Shutdown",
          "None"}
Command == [kind : Kinds, events : Seq(Event), cost : Nat,
            who : Callers \cup Subscribers \cup {NoOne}]

NoCommand == [kind |-> "None", events |-> <<>>, cost |-> 0, who |-> NoOne]
Query(kind, who) == [kind |-> kind, events |-> <<>>, cost |-> 0, who |-> who]

Resident == [id : Ids, bytes : Nat]
NoSession == [id |-> 0, bytes |-> 0]
Slot     == [bytes : Nat, age : 0..PendingTTL]

NoPending == [i \in {} |-> [bytes |-> 0, age |-> 0]]

\* usize::saturating_sub
Monus(a, b) == IF a >= b THEN a - b ELSE 0

Range1(s) == {s[i] : i \in DOMAIN s}

-----------------------------------------------------------------------------
(***************************************************************************)
(* Submissions (store.rs).  A call fixes the command; submit then reserves *)
(* queue memory, tries to send, and gives the reservation back when the    *)
(* channel is full: three atomic steps other threads interleave with.      *)
(***************************************************************************)
SingleEvent(type, id, bytes, cost) ==
    [kind |-> "Event", cost |-> cost, who |-> NoOne,
     events |-> <<[type |-> type, id |-> id, bytes |-> bytes]>>]

\* TraceEvent::from_session and continuation_from_session.
SessionEvents(id, bytes) ==
    <<[type |-> "Start",  id |-> id, bytes |-> bytes],
      [type |-> "Update", id |-> id, bytes |-> bytes],
      [type |-> "End",    id |-> id, bytes |-> bytes]>>
Batch(events, cost) ==
    [kind |-> "Events", events |-> events, cost |-> cost, who |-> NoOne]

\* The call fixes its command and goes on to submit it.
Submit(p, cmd) ==
    /\ ppc' = [ppc EXCEPT ![p] = "reserve"]
    /\ pcmd' = [pcmd EXCEPT ![p] = cmd]

CallFrame == UNCHANGED <<queueBytes, queueDropped, queueMemoryDropped, queue,
                         callerVars, subVars, workerVars, pendingVars,
                         memoryVars, followVars, wipeVars>>

\* store.record: a finished session, one batch, a fresh identifier.
Record(p) ==
    /\ owner = "open" /\ ppc[p] = "idle" /\ pid[p] = 0 /\ nextId <= MaxId
    /\ nextId' = nextId + 1
    /\ \E b \in Sizes : Submit(p, Batch(SessionEvents(nextId, b), b))
    /\ UNCHANGED <<pid, pleft, pclosing>>
    /\ CallFrame

\* store.start: the identifier is consumed even if the event is dropped.
Start(p) ==
    /\ owner = "open" /\ ppc[p] = "idle" /\ pid[p] = 0 /\ nextId <= MaxId
    /\ nextId' = nextId + 1
    /\ pid' = [pid EXCEPT ![p] = nextId]
    /\ pleft' = [pleft EXCEPT ![p] = MaxEmits]
    /\ \E b \in Sizes, c \in EventCosts :
          Submit(p, SingleEvent("Start", nextId, b, c))
    /\ UNCHANGED pclosing
    /\ CallFrame

\* The thread has an open session; finish and the guard ignore identifier 0.
SessionOpen(p) == ppc[p] = "idle" /\ pid[p] # 0

\* store.emit of an incremental event of the open session.
Emit(p) ==
    /\ SessionOpen(p) /\ ~pclosing[p] /\ pleft[p] > 0
    /\ pleft' = [pleft EXCEPT ![p] = @ - 1]
    /\ \E b \in Sizes, c \in EventCosts :
          Submit(p, SingleEvent("Update", pid[p], b, c))
    /\ UNCHANGED <<nextId, pid, pclosing>>
    /\ CallFrame

\* store.finish through record_session_if_visible.
Finish(p) ==
    /\ SessionOpen(p) /\ ~pclosing[p]
    /\ pclosing' = [pclosing EXCEPT ![p] = TRUE]
    /\ pleft' = [pleft EXCEPT ![p] = 0]
    /\ \E b \in Sizes : Submit(p, Batch(Tail(SessionEvents(pid[p], b)), b))
    /\ UNCHANGED <<nextId, pid>>
    /\ CallFrame

\* record_session_if_visible of a session that turned out to be hidden: an
\* abort in place of the finish; the guard retries it when it is rejected.
Hide(p) ==
    /\ SessionOpen(p) /\ ~pclosing[p]
    /\ pclosing' = [pclosing EXCEPT ![p] = TRUE]
    /\ pleft' = [pleft EXCEPT ![p] = 0]
    /\ \E c \in EventCosts : Submit(p, SingleEvent("Abort", pid[p], 0, c))
    /\ UNCHANGED <<nextId, pid>>
    /\ CallFrame

\* A call site without a guard ignores that its finish was rejected.
Forget(p) ==
    /\ SessionOpen(p) /\ pclosing[p]
    /\ pid' = [pid EXCEPT ![p] = 0]
    /\ pclosing' = [pclosing EXCEPT ![p] = FALSE]
    /\ UNCHANGED <<nextId, ppc, pcmd, pleft>>
    /\ CallFrame

\* store.abort: an early return, or the drop of the guard that a rejected
\* finish left armed.  The guard is gone afterwards.
Abort(p) ==
    /\ SessionOpen(p)
    /\ \E c \in EventCosts : Submit(p, SingleEvent("Abort", pid[p], 0, c))
    /\ pid' = [pid EXCEPT ![p] = 0]
    /\ pleft' = [pleft EXCEPT ![p] = 0]
    /\ pclosing' = [pclosing EXCEPT ![p] = FALSE]
    /\ UNCHANGED nextId
    /\ CallFrame

SubmitFrame == UNCHANGED <<nextId, pleft, callerVars, subVars, workerVars,
                           pendingVars, memoryVars, followVars, wipeVars>>

\* try_reserve, and release_queue_bytes.
CanReserve(cost) == queueBytes + cost <= QueueBudget

ReleasedNothing(cost) == queueBytes
Released(cost) == Monus(queueBytes, cost)

\* The channel is first in, first out, and bounded.
HasRoom == Len(queue) < QueueCapacity
Enqueue(cmd) == queue' = Append(queue, cmd)

Reserve(p) ==
    /\ ppc[p] = "reserve"
    /\ CanReserve(pcmd[p].cost)
    /\ queueBytes' = queueBytes + pcmd[p].cost
    /\ ppc' = [ppc EXCEPT ![p] = "send"]
    /\ UNCHANGED <<queueDropped, queueMemoryDropped, queue, pid, pcmd, pclosing>>
    /\ SubmitFrame

ReserveRejected(p) ==
    /\ ppc[p] = "reserve"
    /\ ~CanReserve(pcmd[p].cost)
    /\ queueDropped' = queueDropped + 1
    /\ queueMemoryDropped' = queueMemoryDropped + 1
    /\ ppc' = [ppc EXCEPT ![p] = "idle"]
    /\ pcmd' = [pcmd EXCEPT ![p] = NoCommand]
    /\ UNCHANGED <<queueBytes, queue, pid, pclosing>>
    /\ SubmitFrame

\* try_send; an accepted finish disarms the abort guard.
TrySend(p) ==
    /\ ppc[p] = "send"
    /\ HasRoom
    /\ Enqueue(pcmd[p])
    /\ ppc' = [ppc EXCEPT ![p] = "idle"]
    /\ pcmd' = [pcmd EXCEPT ![p] = NoCommand]
    /\ pid' = [pid EXCEPT ![p] = IF pclosing[p] THEN 0 ELSE @]
    /\ pclosing' = [pclosing EXCEPT ![p] = FALSE]
    /\ UNCHANGED <<queueBytes, queueDropped, queueMemoryDropped>>
    /\ SubmitFrame

TrySendFull(p) ==
    /\ ppc[p] = "send"
    /\ ~HasRoom
    /\ ppc' = [ppc EXCEPT ![p] = "release"]
    /\ UNCHANGED <<queueBytes, queueDropped, queueMemoryDropped, queue, pid,
                   pcmd, pclosing>>
    /\ SubmitFrame

\* release_queue_bytes after a full channel, then the drop is counted.
ReleaseRejected(p) ==
    /\ ppc[p] = "release"
    /\ queueBytes' = Released(pcmd[p].cost)
    /\ queueDropped' = queueDropped + 1
    /\ ppc' = [ppc EXCEPT ![p] = "idle"]
    /\ pcmd' = [pcmd EXCEPT ![p] = NoCommand]
    /\ UNCHANGED <<queueMemoryDropped, queue, pid, pclosing>>
    /\ SubmitFrame

-----------------------------------------------------------------------------
(***************************************************************************)
(* Queries (TraceStore::query): a blocking send, then a wait for the reply *)
(* the worker sends.  Dropping the last handle sends Shutdown and joins.   *)
(***************************************************************************)
QueryFrame == UNCHANGED <<counterVars, queueBytes, producerVars, workerVars,
                          pendingVars, memoryVars, followVars, wipeVars>>

\* clear, stats, and the queries that read: list, list_after, get, spill_path.
CallQuery(c) ==
    /\ owner = "open" /\ cpc[c] = "idle"
    /\ cpc' = [cpc EXCEPT ![c] = "send"]
    /\ \E kind \in {"Clear", "Stats", "Read"} :
          ccmd' = [ccmd EXCEPT ![c] = Query(kind, c)]
    /\ UNCHANGED <<queue, owner, subVars>>
    /\ QueryFrame

SendQuery(c) ==
    /\ cpc[c] = "send"
    /\ HasRoom
    /\ Enqueue(ccmd[c])
    /\ cpc' = [cpc EXCEPT ![c] = "wait"]
    /\ UNCHANGED <<ccmd, owner, subVars>>
    /\ QueryFrame

\* store.follow with some cursor.
CallFollow(s) ==
    /\ owner = "open" /\ spc[s] = "idle"
    /\ spc' = [spc EXCEPT ![s] = "send"]
    /\ \E a \in 0..MaxId : safter' = [safter EXCEPT ![s] = a]
    /\ UNCHANGED <<queue, callerVars, sbacklog, schan, sgot, smissed, sreg>>
    /\ QueryFrame

SendFollow(s) ==
    /\ spc[s] = "send"
    /\ HasRoom
    /\ Enqueue(Query("Follow", s))
    /\ spc' = [spc EXCEPT ![s] = "wait"]
    /\ UNCHANGED <<callerVars, safter, sbacklog, schan, sgot, smissed, sreg>>
    /\ QueryFrame

\* TraceFollow::recv_timeout and try_recv: the backlog first.
BacklogIgnored(s) == TRUE
BacklogDrained(s) == sbacklog[s] = <<>>

FollowRecv(s) ==
    /\ spc[s] = "follow"
    /\ \/ /\ sbacklog[s] # <<>>
          /\ sgot' = [sgot EXCEPT ![s] = Append(@, Head(sbacklog[s]))]
          /\ sbacklog' = [sbacklog EXCEPT ![s] = Tail(@)]
          /\ UNCHANGED schan
       \/ /\ BacklogDrained(s) /\ schan[s] # <<>>
          /\ sgot' = [sgot EXCEPT ![s] = Append(@, Head(schan[s]))]
          /\ schan' = [schan EXCEPT ![s] = Tail(@)]
          /\ UNCHANGED sbacklog
    /\ UNCHANGED <<queue, callerVars, spc, safter, smissed, sreg>>
    /\ QueryFrame

\* The subscriber drops its TraceFollow: channel and liveness token go.
FollowDrop(s) ==
    /\ spc[s] = "follow"
    /\ spc' = [spc EXCEPT ![s] = "gone"]
    /\ sbacklog' = [sbacklog EXCEPT ![s] = <<>>]
    /\ schan' = [schan EXCEPT ![s] = <<>>]
    /\ UNCHANGED <<queue, callerVars, safter, sgot, smissed, sreg>>
    /\ QueryFrame

\* Drop for TraceHandle: nobody holds a clone, so nobody is inside a call.
DropHandle ==
    /\ owner = "open"
    /\ \A p \in Producers : ppc[p] = "idle" /\ pid[p] = 0
    /\ \A c \in Callers : cpc[c] = "idle"
    /\ \A s \in Subscribers : spc[s] \notin {"send", "wait"}
    /\ owner' = "send"
    /\ UNCHANGED <<queue, cpc, ccmd, subVars>>
    /\ QueryFrame

SendShutdown ==
    /\ owner = "send"
    /\ HasRoom
    /\ Enqueue(Query("Shutdown", NoOne))
    /\ owner' = "wait"
    /\ UNCHANGED <<cpc, ccmd, subVars>>
    /\ QueryFrame

-----------------------------------------------------------------------------
(***************************************************************************)
(* The collector thread (store/worker.rs).                                 *)
(***************************************************************************)
RecvFrame == UNCHANGED <<counterVars, producerVars, queueBytes, wsess>>

\* recv of Event or Events.
RecvEvents ==
    /\ wpc = "recv" /\ queue # <<>> /\ Head(queue).kind \in {"Event", "Events"}
    /\ wcmd' = Head(queue)
    /\ queue' = Tail(queue)
    /\ wpc' = "apply" /\ wi' = 1
    /\ UNCHANGED <<callerVars, subVars, pendingVars, memoryVars, followVars,
                   wipeVars>>
    /\ RecvFrame

\* recv of a query: take it off the queue and answer its sender.
RecvQuery(kind) ==
    /\ wpc = "recv" /\ queue # <<>> /\ Head(queue).kind = kind
    /\ queue' = Tail(queue)

ReplyToCaller(c) ==
    /\ cpc' = [cpc EXCEPT ![c] = "idle"]
    /\ ccmd' = [ccmd EXCEPT ![c] = NoCommand]
    /\ UNCHANGED owner

RecvRead ==
    /\ RecvQuery("Read")
    /\ ReplyToCaller(Head(queue).who)
    /\ UNCHANGED <<subVars, wpc, wcmd, wi, pendingVars, memoryVars,
                   followVars, wipeVars>>
    /\ RecvFrame

\* clear: resident and pending sessions go, their byte counts restart; the
\* loss counters and the registered followers stay.
RecvClear ==
    /\ RecvQuery("Clear")
    /\ ReplyToCaller(Head(queue).who)
    /\ memory' = <<>> /\ memoryBytes' = 0
    /\ pending' = NoPending /\ pendingBytes' = 0
    /\ wipedPending' = wipedPending + Cardinality(DOMAIN pending)
    /\ wipedResident' = wipedResident + Len(memory)
    /\ UNCHANGED <<subVars, wpc, wcmd, wi, incomplete, orphans,
                   cleanupDue, started, evicted, followVars>>
    /\ RecvFrame

\* stats: prune_followers, then the counters are read.
Alive(s) == spc[s] = "follow"

RecvStats ==
    /\ RecvQuery("Stats")
    /\ ReplyToCaller(Head(queue).who)
    /\ followers' = {s \in followers : Alive(s)}
    /\ UNCHANGED <<subVars, wpc, wcmd, wi, pendingVars, memoryVars,
                   followDropped, log, wipeVars>>
    /\ RecvFrame

\* list_after_shared: f picks, in resident (completion) order, the first
\* BacklogLimit sessions whose identifier is above the cursor.
IsBacklog(f, after) ==
    /\ \A k \in DOMAIN f : memory[f[k]].id > after
    /\ \A k, l \in DOMAIN f : k < l => f[k] < f[l]
    /\ \A i \in DOMAIN memory \ {f[k] : k \in DOMAIN f} :
          memory[i].id > after =>
              Len(f) = BacklogLimit /\ \A k \in DOMAIN f : f[k] < i

\* follow: backlog and registration in one step of the worker.
RecvFollow ==
    /\ RecvQuery("Follow")
    /\ \E n \in 0..BacklogLimit : \E f \in [1..n -> DOMAIN memory] :
          LET s == Head(queue).who
          IN  /\ IsBacklog(f, safter[s])
              /\ sbacklog' = [sbacklog EXCEPT ![s] = [k \in 1..n |-> memory[f[k]].id]]
              /\ spc' = [spc EXCEPT ![s] = "follow"]
              /\ sreg' = [sreg EXCEPT ![s] = [at |-> Len(log), backlog |-> n]]
              /\ followers' = followers \cup {s}
    /\ UNCHANGED <<callerVars, safter, schan, sgot, smissed, wpc, wcmd, wi,
                   pendingVars, memoryVars, followDropped, log, wipeVars>>
    /\ RecvFrame

RecvShutdown ==
    /\ RecvQuery("Shutdown")
    /\ owner' = "joined"
    /\ wpc' = "stopped"
    /\ UNCHANGED <<cpc, ccmd, subVars, wcmd, wi,
                   pendingVars, memoryVars, followVars, wipeVars>>
    /\ RecvFrame

-----------------------------------------------------------------------------
(***************************************************************************)
(* PendingSessions (store/pending.rs).                                     *)
(***************************************************************************)
Current == wcmd.events[wi]

\* sessions.remove.
WithoutNothing(id) == pending
Without(id) == [i \in DOMAIN pending \ {id} |-> pending[i]]

With(id, bytes) ==
    [i \in DOMAIN pending \cup {id} |->
        IF i = id THEN [bytes |-> bytes, age |-> 0] ELSE pending[i]]

PendingSizeForgotten(id) == 0
PendingSize(id) == IF id \in DOMAIN pending THEN pending[id].bytes ELSE 0

ApplyFrame == UNCHANGED <<counterVars, producerVars, queue, queueBytes, wcmd, callerVars, subVars,
                          memoryVars, followVars, wipeVars>>

\* The next event of the batch, or the end of the command.
NextEvent ==
    IF wi < Len(wcmd.events) THEN /\ wi' = wi + 1 /\ wpc' = "apply"
                             ELSE /\ wpc' = "enforce" /\ UNCHANGED wi

\* expire_stale: at most once per CLEANUP_INTERVAL, and only on an event.
Stale == {i \in DOMAIN pending : pending[i].age >= PendingTTL}

ExpireStale ==
    /\ wpc = "apply" /\ cleanupDue
    /\ \E id \in Stale :
          /\ pending' = Without(id)
          /\ pendingBytes' = Monus(pendingBytes, pending[id].bytes)
    /\ incomplete' = incomplete + 1
    /\ UNCHANGED <<wpc, wi, wsess, orphans, cleanupDue, started>>
    /\ ApplyFrame

\* The sweep is over (or not due) and the current event has this type.
Applying(type) ==
    /\ wpc = "apply" /\ (cleanupDue => Stale = {})
    /\ Current.type = type
    /\ cleanupDue' = FALSE

\* Start; an identifier that is already pending is replaced.
ApplyStart ==
    /\ Applying("Start")
    /\ pending' = With(Current.id, Current.bytes)
    /\ pendingBytes' = Monus(pendingBytes, PendingSize(Current.id)) + Current.bytes
    /\ incomplete' = incomplete + (IF Current.id \in DOMAIN pending THEN 1 ELSE 0)
    /\ started' = started + 1
    /\ NextEvent
    /\ UNCHANGED <<wsess, orphans>>
    /\ ApplyFrame

\* update: the size changes and the session counts as touched.
ApplyUpdate ==
    /\ Applying("Update")
    /\ Current.id \in DOMAIN pending
    /\ pending' = With(Current.id, Current.bytes)
    /\ pendingBytes' = Monus(pendingBytes, pending[Current.id].bytes) + Current.bytes
    /\ NextEvent
    /\ UNCHANGED <<wsess, incomplete, orphans, started>>
    /\ ApplyFrame

\* End: the session leaves pending and is committed at its final size.
ApplyEnd ==
    /\ Applying("End")
    /\ Current.id \in DOMAIN pending
    /\ pending' = Without(Current.id)
    /\ pendingBytes' = Monus(pendingBytes, pending[Current.id].bytes)
    /\ wsess' = [id |-> Current.id, bytes |-> Current.bytes]
    /\ wpc' = "insert"
    /\ UNCHANGED <<wi, incomplete, orphans, started>>
    /\ ApplyFrame

\* update or End without a pending session.
ApplyOrphan ==
    /\ Applying(Current.type)
    /\ Current.type \in {"Update", "End"}
    /\ Current.id \notin DOMAIN pending
    /\ orphans' = orphans + 1
    /\ NextEvent
    /\ UNCHANGED <<wsess, pending, pendingBytes, incomplete, started>>
    /\ ApplyFrame

\* Abort: silent when nothing is pending.
ApplyAbort ==
    /\ Applying("Abort")
    /\ pending' = Without(Current.id)
    /\ pendingBytes' = Monus(pendingBytes, PendingSize(Current.id))
    /\ incomplete' = incomplete + (IF Current.id \in DOMAIN pending THEN 1 ELSE 0)
    /\ NextEvent
    /\ UNCHANGED <<wsess, orphans, started>>
    /\ ApplyFrame

-----------------------------------------------------------------------------
(***************************************************************************)
(* commit: MemoryStore::insert (store/memory.rs), then publish.            *)
(***************************************************************************)
CommitFrame == UNCHANGED <<counterVars, producerVars, queue, queueBytes, wcmd, callerVars, pendingVars,
                           wipeVars>>

TooLarge(bytes) ==
    \/ MaxSessions = 0 \/ ResidentBudget = 0 \/ bytes > ResidentBudget

NeedsRoom(bytes) ==
    /\ memory # <<>>
    /\ Len(memory) >= MaxSessions \/ memoryBytes + bytes > ResidentBudget

\* evict_oldest.
EvictUncounted ==
    /\ memory' = Tail(memory) /\ UNCHANGED evicted
    /\ memoryBytes' = Monus(memoryBytes, Head(memory).bytes)
EvictOldest ==
    /\ memory' = Tail(memory)
    /\ memoryBytes' = Monus(memoryBytes, Head(memory).bytes)
    /\ evicted' = evicted + 1

InsertTooLarge ==
    /\ wpc = "insert" /\ TooLarge(wsess.bytes)
    /\ evicted' = evicted + 1
    /\ wpc' = "publish"
    /\ UNCHANGED <<wi, wsess, memory, memoryBytes, subVars, followVars>>
    /\ CommitFrame

InsertEvict ==
    /\ wpc = "insert" /\ ~TooLarge(wsess.bytes) /\ NeedsRoom(wsess.bytes)
    /\ EvictOldest
    /\ UNCHANGED <<wpc, wi, wsess, subVars, followVars>>
    /\ CommitFrame

InsertPush ==
    /\ wpc = "insert" /\ ~TooLarge(wsess.bytes) /\ ~NeedsRoom(wsess.bytes)
    /\ memory' = Append(memory, wsess)
    /\ memoryBytes' = memoryBytes + wsess.bytes
    /\ wpc' = "publish"
    /\ UNCHANGED <<wi, wsess, evicted, subVars, followVars>>
    /\ CommitFrame

\* publish: try_send to every live follower; a full channel loses the session
\* and is counted; dead followers are forgotten.
Publish ==
    /\ wpc = "publish"
    /\ LET live == {s \in followers : Alive(s)}
           full == {s \in live : Len(schan[s]) >= FollowCapacity}
       IN  /\ schan' = [s \in Subscribers |->
                          IF s \in live \ full THEN Append(schan[s], wsess.id)
                                               ELSE schan[s]]
           /\ smissed' = [s \in Subscribers |->
                          IF s \in full THEN Append(smissed[s], wsess.id)
                                        ELSE smissed[s]]
           /\ followers' = {s \in followers : Alive(s)}
           /\ followDropped' = followDropped + Cardinality(full)
    /\ log' = Append(log, wsess.id)
    /\ NextEvent
    /\ wsess' = NoSession
    /\ UNCHANGED <<spc, safter, sbacklog, sgot, sreg, memoryVars>>
    /\ CommitFrame

-----------------------------------------------------------------------------
(***************************************************************************)
(* enforce_memory_budget, then the queue reservation is given back.        *)
(***************************************************************************)
BudgetFrame == UNCHANGED <<counterVars, producerVars, queue, wsess, callerVars, subVars, followVars,
                           wipeVars>>

\* abort_for_budget: only a single event has a current session.
OverBudget == pendingBytes > ResidentBudget /\ wcmd.kind = "Event"

EnforceBudget ==
    /\ wpc = "enforce"
    /\ IF OverBudget /\ Current.id \in DOMAIN pending
         THEN /\ pending' = Without(Current.id)
              /\ pendingBytes' = Monus(pendingBytes, pending[Current.id].bytes)
              /\ incomplete' = incomplete + 1
         ELSE UNCHANGED <<pending, pendingBytes, incomplete>>
    /\ wpc' = "evict"
    /\ UNCHANGED <<queueBytes, wcmd, wi, orphans, cleanupDue, started, memoryVars>>
    /\ BudgetFrame

\* evict_to_budget(budget - pending).
MustEvictAlone == memoryBytes > ResidentBudget /\ memory # <<>>
MustEvict ==
    /\ memoryBytes > Monus(ResidentBudget, pendingBytes)
    /\ memory # <<>>

EvictToBudget ==
    /\ wpc = "evict" /\ MustEvict
    /\ EvictOldest
    /\ UNCHANGED <<queueBytes, wpc, wcmd, wi, pendingVars>>
    /\ BudgetFrame

\* release_queue_bytes, after the command has been processed.
ReleaseQueueBytes ==
    /\ wpc = "evict" /\ ~MustEvict
    /\ queueBytes' = Released(wcmd.cost)
    /\ wpc' = "recv" /\ wcmd' = NoCommand /\ wi' = 0
    /\ UNCHANGED <<pendingVars, memoryVars>>
    /\ BudgetFrame

-----------------------------------------------------------------------------
\* The clock: at least one CLEANUP_INTERVAL passes; ages stop at the TTL.
Tick ==
    /\ ~cleanupDue \/ \E i \in DOMAIN pending : pending[i].age < PendingTTL
    /\ cleanupDue' = TRUE
    /\ pending' = [i \in DOMAIN pending |->
                     [pending[i] EXCEPT !.age =
                        IF @ < PendingTTL THEN @ + 1 ELSE @]]
    /\ UNCHANGED <<counterVars, queueBytes, queue, producerVars, callerVars,
                   subVars, workerVars, pendingBytes, incomplete, orphans,
                   started, memoryVars, followVars, wipeVars>>

Terminated == owner = "joined" /\ UNCHANGED vars

Init ==
    /\ nextId = 1 /\ queueBytes = 0 /\ queueDropped = 0 /\ queueMemoryDropped = 0
    /\ queue = <<>>
    /\ ppc = [p \in Producers |-> "idle"]
    /\ pid = [p \in Producers |-> 0]
    /\ pcmd = [p \in Producers |-> NoCommand]
    /\ pleft = [p \in Producers |-> 0]
    /\ pclosing = [p \in Producers |-> FALSE]
    /\ cpc = [c \in Callers |-> "idle"]
    /\ ccmd = [c \in Callers |-> NoCommand]
    /\ owner = "open"
    /\ spc = [s \in Subscribers |-> "idle"]
    /\ safter = [s \in Subscribers |-> 0]
    /\ sbacklog = [s \in Subscribers |-> <<>>]
    /\ schan = [s \in Subscribers |-> <<>>]
    /\ sgot = [s \in Subscribers |-> <<>>]
    /\ smissed = [s \in Subscribers |-> <<>>]
    /\ sreg = [s \in Subscribers |-> [at |-> 0, backlog |-> 0]]
    /\ wpc = "recv" /\ wcmd = NoCommand /\ wi = 0 /\ wsess = NoSession
    /\ pending = NoPending /\ pendingBytes = 0
    /\ incomplete = 0 /\ orphans = 0 /\ cleanupDue = FALSE
    /\ started = 0
    /\ memory = <<>> /\ memoryBytes = 0 /\ evicted = 0
    /\ followers = {} /\ followDropped = 0 /\ log = <<>>
    /\ wipedPending = 0 /\ wipedResident = 0

ProducerStep(p) ==
    \/ Record(p) \/ Start(p) \/ Emit(p) \/ Finish(p) \/ Hide(p)
    \/ Forget(p) \/ Abort(p)
    \/ Reserve(p) \/ ReserveRejected(p)
    \/ TrySend(p) \/ TrySendFull(p) \/ ReleaseRejected(p)

CallerStep(c) == CallQuery(c) \/ SendQuery(c)

SubscriberStep(s) ==
    CallFollow(s) \/ SendFollow(s) \/ FollowRecv(s) \/ FollowDrop(s)

OwnerStep == DropHandle \/ SendShutdown

RecvStep ==
    \/ RecvEvents \/ RecvRead \/ RecvClear \/ RecvStats \/ RecvFollow
    \/ RecvShutdown

PendingStep ==
    \/ ExpireStale \/ ApplyStart \/ ApplyUpdate \/ ApplyEnd \/ ApplyOrphan
    \/ ApplyAbort

CommitStep ==
    InsertTooLarge \/ InsertEvict \/ InsertPush \/ Publish

BudgetStep == EnforceBudget \/ EvictToBudget \/ ReleaseQueueBytes

WorkerStep == RecvStep \/ PendingStep \/ CommitStep \/ BudgetStep

Next ==
    \/ \E p \in Producers : ProducerStep(p)
    \/ \E c \in Callers : CallerStep(c)
    \/ \E s \in Subscribers : SubscriberStep(s)
    \/ OwnerStep
    \/ WorkerStep
    \/ Tick
    \/ Terminated

Spec == Init /\ [][Next]_vars

\* The collector thread runs whenever it can; the thread that drops the
\* handle is never preempted for ever.  Nothing is assumed of anyone else.
FairSpec == Spec /\ WF_vars(WorkerStep) /\ WF_vars(SendShutdown)

-----------------------------------------------------------------------------
(***************************************************************************)
(* Properties.                                                             *)
(***************************************************************************)
ProducerTypeOK ==
    /\ nextId \in Nat \ {0} /\ queueDropped \in Nat /\ queueMemoryDropped \in Nat
    /\ ppc \in [Producers -> {"idle", "reserve", "send", "release"}]
    /\ pid \in [Producers -> 0..MaxId]
    /\ pcmd \in [Producers -> Command]
    /\ pleft \in [Producers -> 0..MaxEmits]
    /\ pclosing \in [Producers -> BOOLEAN]

QueueTypeOK ==
    /\ queueBytes \in Nat /\ queue \in Seq(Command)
    /\ cpc \in [Callers -> {"idle", "send", "wait"}]
    /\ ccmd \in [Callers -> Command]
    /\ owner \in {"open", "send", "wait", "joined"}

SubscriberTypeOK ==
    /\ spc \in [Subscribers -> {"idle", "send", "wait", "follow", "gone"}]
    /\ safter \in [Subscribers -> 0..MaxId]
    /\ sbacklog \in [Subscribers -> Seq(Ids)]
    /\ schan \in [Subscribers -> Seq(Ids)]
    /\ sgot \in [Subscribers -> Seq(Ids)]
    /\ smissed \in [Subscribers -> Seq(Ids)]
    /\ sreg \in [Subscribers -> [at : Nat, backlog : Nat]]
    /\ followers \subseteq Subscribers /\ followDropped \in Nat
    /\ log \in Seq(Ids)

WorkerTypeOK ==
    /\ wpc \in {"recv", "apply", "insert", "publish", "enforce", "evict", "stopped"}
    /\ wcmd \in Command /\ wi \in Nat
    /\ wsess \in Resident \cup {NoSession}

IsPending(f) ==
    /\ DOMAIN f \subseteq Ids /\ f = [i \in DOMAIN f |-> f[i]]
    /\ \A i \in DOMAIN f : f[i] \in Slot

PendingTypeOK ==
    /\ IsPending(pending)
    /\ pendingBytes \in Nat /\ incomplete \in Nat /\ orphans \in Nat
    /\ cleanupDue \in BOOLEAN /\ started \in Nat

MemoryTypeOK ==
    /\ memory \in Seq(Resident) /\ memoryBytes \in Nat /\ evicted \in Nat
    /\ wipedPending \in Nat /\ wipedResident \in Nat

\* Every variable keeps its type, including the control points of the threads
\* of store.rs and of the worker loop of worker.rs, and no command in the
\* queue carries identifier 0 (the early return of finish).
TypeOK ==
    /\ ProducerTypeOK /\ QueueTypeOK /\ SubscriberTypeOK
    /\ WorkerTypeOK /\ PendingTypeOK /\ MemoryTypeOK

\* Between two commands the sessions the collector keeps, completed and
\* pending together, fit the resident budget (enforce_memory_budget): what a
\* stats query reports never exceeds resident_memory_budget_bytes, and with
\* the reservations of the queue the total stays within memory_budget_bytes.
ResidentBudgetHeld ==
    wpc \in {"recv", "stopped"} =>
        /\ memoryBytes + pendingBytes <= ResidentBudget
        /\ queueBytes + memoryBytes + pendingBytes <= QueueBudget + ResidentBudget

\* memory_bytes of MemoryStore is exactly the size of the resident sessions:
\* there are prefix sums that end in it.  The saturating subtractions of
\* evict_oldest never hide a drift.
MemoryAccounting ==
    \E f \in [0..Len(memory) -> 0..memoryBytes] :
        /\ f[0] = 0 /\ f[Len(memory)] = memoryBytes
        /\ \A i \in 1..Len(memory) : f[i] = f[i-1] + memory[i].bytes
        /\ \A i, j \in 0..Len(memory) : i <= j => f[i] <= f[j]

\* The sum of the values of f, each counted as that many elements of a set.
Units(f) == UNION {{x} \X (1..f[x]) : x \in DOMAIN f}
Total(f) == Cardinality(Units(f))

\* What a producer has reserved between reserve and send or release, the
\* costs of a list of commands, the sizes of pending sessions.
Held(pc, cmd) ==
    [p \in Producers |-> IF pc[p] \in {"send", "release"} THEN cmd[p].cost ELSE 0]
Costs(cmds) == [i \in DOMAIN cmds |-> cmds[i].cost]
SlotBytes(slots) == [i \in DOMAIN slots |-> slots[i].bytes]

\* queue_bytes is exactly what is reserved: by producers between reserve and
\* send or release, by the queued commands, and by the command the worker
\* processes (try_reserve and release_queue_bytes of counters.rs).
QueueAccounting ==
    /\ queueBytes = Total(Held(ppc, pcmd)) + Total(Costs(queue)) + wcmd.cost
    /\ queueBytes <= QueueBudget
    /\ Len(queue) <= QueueCapacity

\* memory_bytes of PendingSessions is exactly the size of the pending sessions
\* (pending.rs: apply, update, expire_stale, abort_for_budget).
PendingAccounting == pendingBytes = Total(SlotBytes(pending))

\* Even while a command is being processed the completed sessions alone stay
\* within the resident budget and the session limit (MemoryStore::insert).
MemoryBounded ==
    memoryBytes <= ResidentBudget /\ Len(memory) <= MaxSessions

\* No session is lost without a trace: every Start event the collector applied
\* is still pending, was committed, was counted as incomplete (abort, expiry,
\* replacement or budget), or was removed by clear; and every committed
\* session is resident, was counted as evicted, or was removed by clear.
SessionsConserved ==
    /\ started = Cardinality(DOMAIN pending) + incomplete + wipedPending
                 + Len(log) + (IF wpc \in {"insert", "publish"} THEN 1 ELSE 0)
    /\ Len(log) + (IF wpc = "publish" THEN 1 ELSE 0) =
                 Len(memory) + evicted + wipedResident

\* A session is completed at most once, and never again pending afterwards:
\* the finish / abort protocol of the producers (trace_helpers.rs) and the
\* queue order leave no second End or Start for it.
CompletedOnce ==
    /\ \A i, j \in DOMAIN log : log[i] = log[j] => i = j
    /\ \A i \in DOMAIN log : log[i] \notin DOMAIN pending

\* Events find their session unless something else was counted: with no
\* rejected submission, no incomplete session and no clear there is no orphan.
NoSpuriousOrphans ==
    queueDropped = 0 /\ incomplete = 0 /\ wipedPending = 0 => orphans = 0

\* A live subscriber sees its backlog and then every later commit, once each
\* and in commit order, except the ones lost to its full channel; those are
\* kept in smissed and counted in follow_dropped.  Nothing falls between the backlog and the registration.
Stream(s) == sgot[s] \o sbacklog[s] \o schan[s]
Position(id) == CHOOSE i \in DOMAIN log : log[i] = id

FollowStream ==
    \A s \in Subscribers : spc[s] = "follow" =>
        /\ s \in followers
        /\ Len(Stream(s)) + Len(smissed[s]) =
              sreg[s].backlog + (Len(log) - sreg[s].at)
        /\ \A i, j \in DOMAIN Stream(s) :
              i < j => Position(Stream(s)[i]) < Position(Stream(s)[j])
        /\ Len(smissed[s]) <= followDropped
        /\ Range1(Stream(s)) \cap Range1(smissed[s]) = {}
        /\ \A i \in DOMAIN smissed[s] : Position(smissed[s][i]) > sreg[s].at

\* Dropping the last handle (Drop for TraceHandle) drains the queue: the
\* collector stops, every queue reservation has been given back.
ShutdownDrains ==
    owner = "send" ~> (owner = "joined" /\ queue = <<>> /\ queueBytes = 0)

\* A query that got into the queue is answered: the worker never blocks on
\* producers, subscribers or other callers (TraceStore::query).
QueriesAnswered ==
    /\ \A c \in Callers : cpc[c] = "wait" ~> cpc[c] = "idle"
    /\ \A s \in Subscribers : spc[s] = "wait" ~> spc[s] = "follow"

\* The two byte counters that admission and expiry rely on are exact at every step of
\* every thread: what is reserved for the queue, and what is pending (counters.rs,
\* pending.rs).
CountersExact == TypeOK /\ QueueAccounting /\ PendingAccounting

\* Memory stays within the budgets, and the counters the budgets are enforced with
\* are exact: the completed sessions never exceed the resident budget, not even within
\* a command, completed and pending ones fit it between two commands, and no
\* saturating subtraction hides a drift (memory.rs, enforce_memory_budget).
MemorySound == MemoryAccounting /\ MemoryBounded /\ ResidentBudgetHeld

\* Every session and every event is accounted for: kept, committed, evicted, cleared or
\* counted as lost, no session is committed twice, and an event only misses its session
\* for a counted reason (worker.rs, pending.rs, trace_helpers.rs).
SessionsAccounted == SessionsConserved /\ CompletedOnce /\ NoSpuriousOrphans

\* The collector never leaves anyone waiting: queries are answered, and dropping the
\* last handle drains the queue and ends the thread (TraceStore::query, Drop for
\* TraceHandle).
NobodyWaits == ShutdownDrains /\ QueriesAnswered

=============================================================================
