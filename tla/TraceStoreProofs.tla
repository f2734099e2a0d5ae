--------------------------- MODULE TraceStoreProofs ---------------------------
(***************************************************************************)
(* Proofs about the trace collector, for every number of threads and every *)
(* value of the limits and budgets.                                        *)
(***************************************************************************)
EXTENDS TraceStore, TLAPS, FiniteSetTheorems

\* What a submitted command looks like: one event that is not End, or the
\* events of one session, no Abort among them, that end in the only End and
\* have no Start but the first event.
WellFormed(cmd) ==
    /\ cmd.kind = "Event" => Len(cmd.events) = 1 /\ cmd.events[1].type # "End"
    /\ cmd.kind = "Events" =>
          /\ Len(cmd.events) \in {2, 3}
          /\ \A i \in DOMAIN cmd.events :
                /\ cmd.events[i].id = cmd.events[1].id
                /\ cmd.events[i].type = "End" <=> i = Len(cmd.events)
                /\ cmd.events[i].type # "Abort"
                /\ cmd.events[i].type = "Start" => i = 1

Busy == wpc \in {"apply", "insert", "publish", "enforce", "evict"}

CommandsWellFormed ==
    /\ \A p \in Producers :
          /\ WellFormed(pcmd[p])
          /\ ppc[p] # "idle" => pcmd[p].kind \in {"Event", "Events"}
    /\ \A c \in Callers :
          WellFormed(ccmd[c]) /\ ccmd[c].kind \notin {"Follow", "Event", "Events"}
    /\ \A i \in 1..Len(queue) :
          /\ WellFormed(queue[i])
          /\ queue[i].kind = "Follow" => queue[i].who \in Subscribers
    /\ Busy => /\ wcmd.kind \in {"Event", "Events"} /\ WellFormed(wcmd)
               /\ wi \in 1..Len(wcmd.events)
    /\ wpc \in {"insert", "publish"} => wsess \in Resident

TInv == TypeOK /\ CommandsWellFormed

-----------------------------------------------------------------------------
USE SizesAssumption, LimitsAssumption

LEMMA MonusNat == \A a, b \in Nat : Monus(a, b) \in Nat /\ Monus(a, b) <= a
BY DEF Monus

LEMMA LenNat == ASSUME NEW S, NEW q \in Seq(S) PROVE Len(q) \in Nat
OBVIOUS

LEMMA MemoryElement ==
    MemoryTypeOK => /\ DOMAIN memory = 1..Len(memory)
                    /\ \A i \in DOMAIN memory : /\ memory[i] \in Resident
                                                /\ memory[i].id \in Ids
                                                /\ memory[i].bytes \in Nat
<1>1. \A r \in Resident : r.id \in Ids /\ r.bytes \in Nat
  BY DEF Resident
<1> QED BY <1>1 DEF MemoryTypeOK

LEMMA PendingFinite == PendingTypeOK => IsFiniteSet(DOMAIN pending)
<1>1. IsFiniteSet(1..MaxId) BY FS_Interval
<1> QED BY <1>1, FS_Subset DEF PendingTypeOK, IsPending, Ids

LEMMA NoCommandType ==
    NoCommand \in Command /\ WellFormed(NoCommand) /\ NoCommand.kind = "None"
BY DEF NoCommand, Command, Kinds, WellFormed

LEMMA QueryType ==
    ASSUME NEW k \in {"Clear", "Stats", "Read", "Follow", "Shutdown"},
           NEW w \in Callers \cup Subscribers \cup {NoOne}
    PROVE  /\ Query(k, w) \in Command /\ WellFormed(Query(k, w))
           /\ Query(k, w).kind = k /\ Query(k, w).who = w
BY DEF Query, NoCommand, Command, Kinds, WellFormed

LEMMA SingleEventType ==
    ASSUME NEW t \in {"Start", "Update", "Abort"}, NEW id \in Ids,
           NEW b \in Nat, NEW c \in Nat
    PROVE  /\ SingleEvent(t, id, b, c) \in Command
           /\ SingleEvent(t, id, b, c).kind = "Event"
           /\ WellFormed(SingleEvent(t, id, b, c))
BY DEF SingleEvent, Command, Kinds, WellFormed, Event

LEMMA BatchType ==
    ASSUME NEW id \in Ids, NEW b \in Nat
    PROVE  /\ Batch(SessionEvents(id, b), b) \in Command
           /\ Batch(SessionEvents(id, b), b).kind = "Events"
           /\ WellFormed(Batch(SessionEvents(id, b), b))
           /\ Batch(Tail(SessionEvents(id, b)), b) \in Command
           /\ Batch(Tail(SessionEvents(id, b)), b).kind = "Events"
           /\ WellFormed(Batch(Tail(SessionEvents(id, b)), b))
BY DEF Batch, SessionEvents, Command, Kinds, WellFormed, Event

\* Each part of the type invariant depends on one component's variables only.
LEMMA TypeFrames ==
    /\ ProducerTypeOK /\ UNCHANGED <<counterVars, producerVars>> => ProducerTypeOK'
    /\ QueueTypeOK /\ UNCHANGED <<queueBytes, queue, callerVars>> => QueueTypeOK'
    /\ SubscriberTypeOK /\ UNCHANGED <<subVars, followVars>> => SubscriberTypeOK'
    /\ WorkerTypeOK /\ UNCHANGED workerVars => WorkerTypeOK'
    /\ PendingTypeOK /\ UNCHANGED pendingVars => PendingTypeOK'
    /\ MemoryTypeOK /\ UNCHANGED <<memoryVars, wipeVars>> => MemoryTypeOK'
<1>1. ProducerTypeOK /\ UNCHANGED <<counterVars, producerVars>> => ProducerTypeOK'
  BY DEF ProducerTypeOK, counterVars, producerVars
<1>2. QueueTypeOK /\ UNCHANGED <<queueBytes, queue, callerVars>> => QueueTypeOK'
  BY DEF QueueTypeOK, callerVars
<1>3. SubscriberTypeOK /\ UNCHANGED <<subVars, followVars>> => SubscriberTypeOK'
  BY DEF SubscriberTypeOK, subVars, followVars
<1>4. WorkerTypeOK /\ UNCHANGED workerVars => WorkerTypeOK'
  BY DEF WorkerTypeOK, workerVars
<1>5. PendingTypeOK /\ UNCHANGED pendingVars => PendingTypeOK'
  BY DEF PendingTypeOK, pendingVars
<1>6. MemoryTypeOK /\ UNCHANGED <<memoryVars, wipeVars>> => MemoryTypeOK'
  BY DEF MemoryTypeOK, memoryVars, wipeVars
<1> QED BY <1>1, <1>2, <1>3, <1>4, <1>5, <1>6

-----------------------------------------------------------------------------
\* A call of a connection thread fixes a well-formed command and leaves
\* everything but the producers' variables alone.
LEMMA SubmitType ==
    ASSUME TInv, NEW p \in Producers, NEW cmd \in Command, WellFormed(cmd),
           cmd.kind \in {"Event", "Events"}, Submit(p, cmd)
    PROVE  /\ ppc' \in [Producers -> {"idle", "reserve", "send", "release"}]
           /\ pcmd' \in [Producers -> Command]
           /\ \A q \in Producers :
                 /\ WellFormed(pcmd'[q])
                 /\ ppc'[q] # "idle" => pcmd'[q].kind \in {"Event", "Events"}
BY DEF TInv, TypeOK, ProducerTypeOK, CommandsWellFormed, Submit

LEMMA CallType ==
    ASSUME TInv, NEW p \in Producers,
           \/ Record(p) \/ Start(p) \/ Emit(p) \/ Finish(p) \/ Hide(p)
           \/ Abort(p)
    PROVE  TInv'
<1> USE DEF TInv, TypeOK
<1>1. /\ nextId' \in Nat \ {0} /\ pid' \in [Producers -> 0..MaxId]
      /\ pleft' \in [Producers -> 0..MaxEmits]
      /\ pclosing' \in [Producers -> BOOLEAN]
  <2>1. CASE Record(p) BY <2>1 DEF ProducerTypeOK, Record
  <2>2. CASE Start(p)  BY <2>2 DEF ProducerTypeOK, Start
  <2>3. CASE Emit(p)   BY <2>3 DEF ProducerTypeOK, Emit
  <2>4. CASE Finish(p) BY <2>4 DEF ProducerTypeOK, Finish
  <2>5. CASE Abort(p)  BY <2>5 DEF ProducerTypeOK, Abort
  <2>6. CASE Hide(p)   BY <2>6 DEF ProducerTypeOK, Hide
  <2> QED BY <2>1, <2>2, <2>3, <2>4, <2>5, <2>6
<1>2. PICK cmd \in Command :
        /\ WellFormed(cmd) /\ cmd.kind \in {"Event", "Events"}
        /\ Submit(p, cmd)
  <2>1. CASE Record(p)
    BY <2>1, BatchType DEF Record, ProducerTypeOK, Ids
  <2>2. CASE Start(p)
    <3>1. PICK b \in Sizes, c \in EventCosts :
            Submit(p, SingleEvent("Start", nextId, b, c))
      BY <2>2 DEF Start
    <3>2. nextId \in Ids BY <2>2 DEF Start, ProducerTypeOK, Ids
    <3> QED BY <3>1, <3>2, SingleEventType
  <2>3. CASE Emit(p)
    <3>1. PICK b \in Sizes, c \in EventCosts :
            Submit(p, SingleEvent("Update", pid[p], b, c))
      BY <2>3 DEF Emit
    <3>2. pid[p] \in Ids BY <2>3 DEF Emit, SessionOpen, ProducerTypeOK, Ids
    <3> QED BY <3>1, <3>2, SingleEventType
  <2>4. CASE Finish(p)
    BY <2>4, BatchType DEF Finish, SessionOpen, ProducerTypeOK, Ids
  <2>5. CASE Abort(p)
    <3>1. PICK c \in EventCosts : Submit(p, SingleEvent("Abort", pid[p], 0, c))
      BY <2>5 DEF Abort
    <3>2. pid[p] \in Ids BY <2>5 DEF Abort, SessionOpen, ProducerTypeOK, Ids
    <3> QED BY <3>1, <3>2, SingleEventType
  <2>6. CASE Hide(p)
    <3>1. PICK c \in EventCosts : Submit(p, SingleEvent("Abort", pid[p], 0, c))
      BY <2>6 DEF Hide
    <3>2. pid[p] \in Ids BY <2>6 DEF Hide, SessionOpen, ProducerTypeOK, Ids
    <3> QED BY <3>1, <3>2, SingleEventType
  <2> QED BY <2>1, <2>2, <2>3, <2>4, <2>5, <2>6
<1>3. CallFrame
  BY DEF Record, Start, Emit, Finish, Hide, Abort
<1>4. ProducerTypeOK'
  BY <1>1, <1>2, <1>3, SubmitType DEF ProducerTypeOK, CallFrame
<1>5. (QueueTypeOK /\ SubscriberTypeOK /\ WorkerTypeOK /\ PendingTypeOK /\ MemoryTypeOK)'
  BY <1>3, TypeFrames DEF CallFrame
<1>6. CommandsWellFormed'
  BY <1>2, <1>3, SubmitType DEF CommandsWellFormed, CallFrame, Busy, callerVars,
     workerVars
<1> QED BY <1>4, <1>5, <1>6

\* A call site that drops its session without a submission.
LEMMA ForgetType ==
    ASSUME TInv, NEW p \in Producers, Forget(p)
    PROVE  TInv'
<1> USE DEF TInv, TypeOK
<1>1. ProducerTypeOK'
  BY DEF ProducerTypeOK, Forget, CallFrame
<1>2. (QueueTypeOK /\ SubscriberTypeOK /\ WorkerTypeOK /\ PendingTypeOK /\ MemoryTypeOK)'
  BY TypeFrames DEF Forget, CallFrame
<1>3. CommandsWellFormed'
  BY DEF CommandsWellFormed, Forget, CallFrame, Busy, callerVars, workerVars
<1> QED BY <1>1, <1>2, <1>3

\* The steps of submit: reserve, try_send, release.
LEMMA SubmitStepType ==
    ASSUME TInv, NEW p \in Producers,
           \/ Reserve(p) \/ ReserveRejected(p) \/ TrySend(p) \/ TrySendFull(p)
           \/ ReleaseRejected(p)
    PROVE  TInv'
<1> USE DEF TInv, TypeOK
<1>1. SubmitFrame
  BY DEF Reserve, ReserveRejected, TrySend, TrySendFull, ReleaseRejected
<1>2. (SubscriberTypeOK /\ WorkerTypeOK /\ PendingTypeOK /\ MemoryTypeOK)'
  BY <1>1, TypeFrames DEF SubmitFrame
<1>3. pcmd[p] \in Command /\ pcmd[p].cost \in Nat
  BY DEF ProducerTypeOK, Command
<1>4. ProducerTypeOK' /\ QueueTypeOK'
  <2>1. (queueBytes \in Nat /\ queue \in Seq(Command))'
    <3>1. CASE Reserve(p) BY <1>3, <3>1 DEF Reserve, QueueTypeOK
    <3>2. CASE ReserveRejected(p) BY <3>2 DEF ReserveRejected, QueueTypeOK
    <3>3. CASE TrySend(p) BY <1>3, <3>3 DEF TrySend, Enqueue, QueueTypeOK
    <3>4. CASE TrySendFull(p) BY <3>4 DEF TrySendFull, QueueTypeOK
    <3>5. CASE ReleaseRejected(p)
      BY <1>3, <3>5, MonusNat DEF ReleaseRejected, Released, QueueTypeOK
    <3> QED BY <3>1, <3>2, <3>3, <3>4, <3>5
  <2>2. /\ queueDropped' \in Nat /\ queueMemoryDropped' \in Nat
        /\ ppc' \in [Producers -> {"idle", "reserve", "send", "release"}]
        /\ pid' \in [Producers -> 0..MaxId]
        /\ pclosing' \in [Producers -> BOOLEAN]
    <3> USE DEF ProducerTypeOK
    <3>1. CASE Reserve(p) BY <3>1 DEF Reserve
    <3>2. CASE ReserveRejected(p) BY <3>2 DEF ReserveRejected
    <3>3. CASE TrySend(p) BY <3>3 DEF TrySend
    <3>4. CASE TrySendFull(p) BY <3>4 DEF TrySendFull
    <3>5. CASE ReleaseRejected(p) BY <3>5 DEF ReleaseRejected
    <3> QED BY <3>1, <3>2, <3>3, <3>4, <3>5
  <2>3. pcmd' \in [Producers -> Command]
    BY NoCommandType DEF Reserve, ReserveRejected, TrySend, TrySendFull,
       ReleaseRejected, ProducerTypeOK
  <2> QED BY <1>1, <2>1, <2>2, <2>3 DEF ProducerTypeOK, QueueTypeOK, SubmitFrame, callerVars
<1>5. CommandsWellFormed'
  <2> USE NoCommandType DEF ProducerTypeOK, QueueTypeOK, CommandsWellFormed,
          SubmitFrame, Busy, callerVars, workerVars
  <2>1. CASE Reserve(p)         BY <2>1 DEF Reserve
  <2>2. CASE ReserveRejected(p) BY <2>2 DEF ReserveRejected
  <2>3. CASE TrySend(p)         BY <2>3 DEF TrySend, Enqueue
  <2>4. CASE TrySendFull(p)     BY <2>4 DEF TrySendFull
  <2>5. CASE ReleaseRejected(p) BY <2>5 DEF ReleaseRejected
  <2> QED BY <2>1, <2>2, <2>3, <2>4, <2>5
<1> QED BY <1>2, <1>4, <1>5

\* Which commands are in hand depends on the threads and on the queue only.
LEMMA CommandsFrame ==
    ASSUME CommandsWellFormed,
           UNCHANGED <<producerVars, callerVars, queue, workerVars>>
    PROVE  CommandsWellFormed'
BY DEF CommandsWellFormed, Busy, producerVars, callerVars, workerVars

\* A well-formed command may join the queue.
LEMMA CommandsEnqueue ==
    ASSUME QueueTypeOK, CommandsWellFormed, NEW q \in Command, WellFormed(q),
           q.kind = "Follow" => q.who \in Subscribers, queue' = Append(queue, q),
           UNCHANGED <<producerVars, callerVars, workerVars>>
    PROVE  CommandsWellFormed'
<1>1. \A i \in 1..Len(queue') :
         /\ WellFormed(queue'[i])
         /\ queue'[i].kind = "Follow" => queue'[i].who \in Subscribers
  <2> SUFFICES ASSUME NEW i \in 1..Len(queue')
               PROVE  /\ WellFormed(queue'[i])
                      /\ queue'[i].kind = "Follow" => queue'[i].who \in Subscribers
    OBVIOUS
  <2>1. CASE i \in 1..Len(queue)
    <3>1. queue'[i] = queue[i] BY <2>1 DEF QueueTypeOK
    <3> QED BY <2>1, <3>1 DEF CommandsWellFormed
  <2>2. CASE i = Len(queue) + 1
    <3>1. queue'[i] = q BY <2>2 DEF QueueTypeOK
    <3> QED BY <3>1
  <2> QED BY <2>1, <2>2 DEF QueueTypeOK
<1> QED BY <1>1 DEF CommandsWellFormed, Busy, producerVars, callerVars, workerVars

\* Taking the first element off one of the sequences keeps their type.
LEMMA TailStream ==
    ASSUME NEW S, NEW X, NEW F \in [S -> Seq(X)], NEW s \in S, F[s] # <<>>
    PROVE  [F EXCEPT ![s] = Tail(@)] \in [S -> Seq(X)]
<1>1. F[s] \in Seq(X) OBVIOUS
<1>2. Tail(F[s]) \in Seq(X) BY <1>1
<1> QED BY <1>2

\* Callers, subscribers and the owner.
LEMMA QueryStepType ==
    ASSUME TInv,
           \/ \E c \in Callers : CallerStep(c)
           \/ \E s \in Subscribers : SubscriberStep(s)
           \/ OwnerStep
    PROVE  TInv'
<1> USE DEF TInv, TypeOK
<1>1. QueryFrame
  BY DEF CallerStep, CallQuery, SendQuery, SubscriberStep, CallFollow, SendFollow,
     FollowRecv, FollowDrop, OwnerStep, DropHandle, SendShutdown
<1>2. (ProducerTypeOK /\ WorkerTypeOK /\ PendingTypeOK /\ MemoryTypeOK)'
  BY <1>1, TypeFrames DEF QueryFrame
<1>3. CASE \E c \in Callers : CallerStep(c)
  <2> PICK c \in Callers : CallerStep(c) BY <1>3
  <2>1. SubscriberTypeOK'
    BY <1>1 DEF CallerStep, CallQuery, SendQuery, SubscriberTypeOK, subVars, followVars,
       QueryFrame
  <2>2. CASE CallQuery(c)
    BY <1>1, <1>2, <2>1, <2>2, QueryType DEF CallQuery, QueueTypeOK, CommandsWellFormed,
       QueryFrame, Busy, producerVars, workerVars
  <2>3. CASE SendQuery(c)
    BY <1>1, <1>2, <2>1, <2>3 DEF SendQuery, Enqueue, QueueTypeOK, CommandsWellFormed,
       QueryFrame, Busy, producerVars, workerVars
  <2> QED BY <2>2, <2>3 DEF CallerStep
<1>4. CASE \E s \in Subscribers : SubscriberStep(s)
  <2> PICK s \in Subscribers : SubscriberStep(s) BY <1>4
  <2>1. QueueTypeOK' /\ CommandsWellFormed'
    <3>1. CASE UNCHANGED <<queue, callerVars>>
      BY <1>1, <3>1, TypeFrames, CommandsFrame DEF QueryFrame
    <3>2. CASE SendFollow(s)
      <4>1. /\ Query("Follow", s) \in Command /\ WellFormed(Query("Follow", s))
            /\ Query("Follow", s).who = s
        BY QueryType
      <4>2. queue' = Append(queue, Query("Follow", s)) /\ UNCHANGED callerVars
        BY <3>2 DEF SendFollow, Enqueue
      <4>3. QueueTypeOK'
        BY <1>1, <4>1, <4>2 DEF QueueTypeOK, QueryFrame, callerVars
      <4>4. CommandsWellFormed'
        BY <1>1, <4>1, <4>2, CommandsEnqueue DEF QueryFrame
      <4> QED BY <4>3, <4>4
    <3> QED BY <3>1, <3>2 DEF SubscriberStep, CallFollow, FollowRecv, FollowDrop
  <2> USE DEF SubscriberTypeOK, QueryFrame, followVars
  <2>6. SubscriberTypeOK'
    <3>1. CASE CallFollow(s) BY <1>1, <3>1 DEF CallFollow
    <3>2. CASE SendFollow(s) BY <1>1, <3>2 DEF SendFollow
    <3>3. CASE FollowRecv(s)
      <4>1. sgot' \in [Subscribers -> Seq(Ids)]
        <5>1. \E q \in {sbacklog[s], schan[s]} :
                q # <<>> /\ sgot' = [sgot EXCEPT ![s] = Append(@, Head(q))]
          BY <3>3 DEF FollowRecv
        <5>2. \A q \in {sbacklog[s], schan[s]} : q \in Seq(Ids)
          OBVIOUS
        <5> HIDE DEF Ids
        <5> QED BY <5>1, <5>2
      <4>2. (sbacklog \in [Subscribers -> Seq(Ids)] /\ schan \in [Subscribers -> Seq(Ids)])'
        <5>1. CASE /\ sbacklog[s] # <<>> /\ UNCHANGED schan
                   /\ sbacklog' = [sbacklog EXCEPT ![s] = Tail(@)]
          BY <5>1, TailStream
        <5>2. CASE /\ schan[s] # <<>> /\ UNCHANGED sbacklog
                   /\ schan' = [schan EXCEPT ![s] = Tail(@)]
          BY <5>2, TailStream
        <5> QED BY <3>3, <5>1, <5>2 DEF FollowRecv
      <4>3. UNCHANGED <<spc, safter, smissed, sreg, followVars>>
        BY <1>1, <3>3 DEF FollowRecv
      <4> HIDE DEF Ids
      <4> QED BY <4>1, <4>2, <4>3
    <3>4. CASE FollowDrop(s)
      <4>1. /\ spc' = [spc EXCEPT ![s] = "gone"]
            /\ sbacklog' = [sbacklog EXCEPT ![s] = <<>>]
            /\ schan' = [schan EXCEPT ![s] = <<>>]
            /\ UNCHANGED <<safter, sgot, smissed, sreg, followVars>>
        BY <1>1, <3>4 DEF FollowDrop
      <4> HIDE DEF Ids
      <4>2. <<>> \in Seq(Ids) OBVIOUS
      <4> QED BY <4>1, <4>2
    <3> QED BY <3>1, <3>2, <3>3, <3>4 DEF SubscriberStep
  <2> QED BY <1>2, <2>1, <2>6
<1>5. CASE OwnerStep
  <2>1. SubscriberTypeOK'
    BY <1>1, <1>5, TypeFrames DEF OwnerStep, DropHandle, SendShutdown, QueryFrame
  <2>2. QueueTypeOK' /\ CommandsWellFormed'
    <3> USE DEF QueueTypeOK, CommandsWellFormed, QueryFrame, Busy, producerVars, workerVars
    <3>1. CASE DropHandle BY <1>1, <3>1 DEF DropHandle
    <3>2. CASE SendShutdown
      <4>1. Query("Shutdown", NoOne) \in Command /\ WellFormed(Query("Shutdown", NoOne))
            /\ Query("Shutdown", NoOne).kind = "Shutdown"
        BY QueryType DEF Query
      <4>2. QueueTypeOK'
        BY <1>1, <3>2, <4>1 DEF SendShutdown, Enqueue
      <4>3. \A i \in 1..Len(queue') :
               /\ WellFormed(queue'[i])
               /\ queue'[i].kind = "Follow" => queue'[i].who \in Subscribers
        BY <3>2, <4>1 DEF SendShutdown, Enqueue
      <4> QED BY <1>1, <3>2, <4>2, <4>3 DEF SendShutdown
    <3> QED BY <1>5, <3>1, <3>2 DEF OwnerStep
  <2> QED BY <1>2, <2>1, <2>2
<1> QED BY <1>3, <1>4, <1>5

-----------------------------------------------------------------------------
\* The worker takes a command off the queue.
LEMMA RecvStepType ==
    ASSUME TInv, RecvStep
    PROVE  TInv'
<1> USE DEF TInv, TypeOK
<1> DEFINE cmd == Head(queue)
<1>1. /\ queue # <<>> /\ wpc = "recv"
      /\ queue' = Tail(queue) /\ RecvFrame
  BY DEF RecvStep, RecvEvents, RecvRead, RecvClear, RecvStats, RecvFollow, RecvShutdown,
     RecvQuery
<1>2. /\ cmd \in Command /\ WellFormed(cmd) /\ queue' \in Seq(Command)
      /\ cmd.kind = "Follow" => cmd.who \in Subscribers
      /\ \A i \in 1..Len(queue') :
            /\ WellFormed(queue'[i])
            /\ queue'[i].kind = "Follow" => queue'[i].who \in Subscribers
  BY <1>1 DEF QueueTypeOK, CommandsWellFormed
<1>3. ProducerTypeOK'
  BY <1>1, TypeFrames DEF RecvFrame
<1>4. QueueTypeOK'
  <2>1. (owner \in {"open", "send", "wait", "joined"} /\ queueBytes \in Nat)'
    BY <1>1 DEF RecvStep, RecvEvents, RecvRead, RecvClear, RecvStats, RecvFollow,
       RecvShutdown, ReplyToCaller, QueueTypeOK, callerVars, RecvFrame
  <2>2. (cpc \in [Callers -> {"idle", "send", "wait"}] /\ ccmd \in [Callers -> Command])'
    <3> USE DEF QueueTypeOK, callerVars
    <3>1. CASE RecvRead \/ RecvClear \/ RecvStats
      BY <3>1, NoCommandType DEF RecvRead, RecvClear, RecvStats, ReplyToCaller
    <3>2. CASE RecvEvents \/ RecvFollow \/ RecvShutdown
      BY <3>2 DEF RecvEvents, RecvFollow, RecvShutdown
    <3> QED BY <3>1, <3>2 DEF RecvStep
  <2> QED BY <1>2, <2>1, <2>2 DEF QueueTypeOK
<1>5. WorkerTypeOK' /\ CommandsWellFormed'
  <2> USE <1>1, <1>2 DEF WorkerTypeOK, CommandsWellFormed, RecvFrame, Busy, producerVars
  <2>1. CASE RecvEvents
    <3>1. wi' = 1 /\ wcmd' = cmd /\ cmd.kind \in {"Event", "Events"} /\ wpc' = "apply"
          /\ UNCHANGED <<cpc, ccmd>>
      BY <2>1 DEF RecvEvents, callerVars
    <3>2. Len(cmd.events) \in {1, 2, 3}
      BY <3>1 DEF WellFormed
    <3>3. WorkerTypeOK'
      BY <3>1, TypeFrames
    <3>4. \A p \in Producers : /\ WellFormed(pcmd[p])'
                              /\ (ppc[p] # "idle" => pcmd[p].kind \in {"Event", "Events"})'
      OBVIOUS
    <3>5. wi' \in 1..Len(wcmd'.events)
      <4> HIDE DEF cmd
      <4>1. wi' = 1 /\ Len(wcmd'.events) \in {1, 2, 3}
        BY ONLY <3>1, <3>2
      <4>2. \A n \in {1, 2, 3} : 1 \in 1..n
        OBVIOUS
      <4> QED BY ONLY <4>1, <4>2
    <3> QED BY <3>1, <3>3, <3>4, <3>5
  <2>2. CASE RecvRead \/ RecvClear \/ RecvStats
    BY <2>2, NoCommandType DEF RecvRead, RecvClear, RecvStats, ReplyToCaller, QueueTypeOK
  <2>3. CASE RecvFollow \/ RecvShutdown
    BY <2>3 DEF RecvFollow, RecvShutdown, callerVars
  <2> QED BY <2>1, <2>2, <2>3 DEF RecvStep
<1>6. PendingTypeOK' /\ MemoryTypeOK'
  <2>1. CASE RecvClear
    <3>1. Cardinality(DOMAIN pending) \in Nat
      BY PendingFinite, FS_CardinalityType
    <3>2. PendingTypeOK'
      BY <2>1 DEF RecvClear, PendingTypeOK, IsPending, NoPending
    <3> QED BY <2>1, <3>1, <3>2 DEF RecvClear, MemoryTypeOK
  <2>2. CASE ~RecvClear
    BY <2>2, TypeFrames DEF RecvStep, RecvEvents, RecvRead, RecvStats, RecvFollow,
       RecvShutdown
  <2> QED BY <2>1, <2>2
<1>7. SubscriberTypeOK'
  <2>1. CASE RecvStats
    BY <2>1 DEF RecvStats, SubscriberTypeOK, subVars
  <2>2. CASE RecvFollow
    <3> DEFINE Registers(n, f) ==
            /\ sbacklog' = [sbacklog EXCEPT ![cmd.who] = [k \in 1..n |-> memory[f[k]].id]]
            /\ spc' = [spc EXCEPT ![cmd.who] = "follow"]
            /\ sreg' = [sreg EXCEPT ![cmd.who] = [at |-> Len(log), backlog |-> n]]
            /\ followers' = followers \cup {cmd.who}
    <3>0. PICK n \in 0..BacklogLimit : \E f \in [1..n -> DOMAIN memory] : Registers(n, f)
      BY <2>2 DEF RecvFollow
    <3>1. PICK f \in [1..n -> DOMAIN memory] : Registers(n, f)
      BY <3>0
    <3>2. cmd.kind = "Follow" /\ cmd.who \in Subscribers
      BY <1>2, <2>2 DEF RecvFollow, RecvQuery
    <3>3. \A i \in DOMAIN memory : memory[i].id \in Ids
      BY MemoryElement
    <3>4. [k \in 1..n |-> memory[f[k]].id] \in Seq(Ids)
      <4> HIDE DEF TInv, TypeOK
      <4> QED BY <3>3
    <3>5. [at |-> Len(log), backlog |-> n] \in [at : Nat, backlog : Nat]
      BY LenNat DEF SubscriberTypeOK
    <3> QED BY <2>2, <3>1, <3>2, <3>4, <3>5 DEF RecvFollow, SubscriberTypeOK
  <2>3. CASE ~RecvStats /\ ~RecvFollow
    BY <2>3, TypeFrames DEF RecvStep, RecvEvents, RecvRead, RecvClear, RecvShutdown
  <2> QED BY <2>1, <2>2, <2>3
<1> QED BY <1>3, <1>4, <1>5, <1>6, <1>7

\* The worker applies one event, or one step of the sweep of stale sessions.
LEMMA CurrentType ==
    ASSUME TInv, wpc \in {"apply", "enforce"}
    PROVE  /\ Current \in Event /\ Current.id \in Ids /\ Current.bytes \in Nat
           /\ wcmd.kind = "Event" => wi = 1 /\ Current.type # "End"
           /\ wcmd.kind = "Events" =>
                 /\ Current.id = wcmd.events[1].id
                 /\ Current.type = "End" <=> wi = Len(wcmd.events)
<1>1. /\ wcmd.events \in Seq(Event) /\ wi \in 1..Len(wcmd.events)
      /\ WellFormed(wcmd)
  BY DEF TInv, TypeOK, WorkerTypeOK, CommandsWellFormed, Busy, Command
<1>2. Current \in Event
  BY <1>1 DEF Current
<1>3. Current.id \in Ids /\ Current.bytes \in Nat
  BY <1>2 DEF Event
<1> QED BY <1>1, <1>2, <1>3 DEF WellFormed, Current

LEMMA NextEventType ==
    ASSUME TInv, NextEvent, wpc \in {"apply", "publish"}, UNCHANGED wcmd
    PROVE  /\ wpc' \in {"apply", "enforce"} /\ wi' \in Nat
           /\ wi' \in 1..Len(wcmd'.events)
BY DEF TInv, TypeOK, WorkerTypeOK, CommandsWellFormed, Busy, NextEvent, Command

LEMMA WithType ==
    ASSUME PendingTypeOK, NEW id \in Ids, NEW b \in Nat
    PROVE  /\ DOMAIN With(id, b) = DOMAIN pending \cup {id}
           /\ IsPending(With(id, b))
           /\ With(id, b)[id].bytes = b
BY DEF PendingTypeOK, IsPending, With, Slot

LEMMA WithoutType ==
    ASSUME PendingTypeOK, NEW id
    PROVE  /\ DOMAIN Without(id) = DOMAIN pending \ {id}
           /\ IsPending(Without(id))
           /\ \A i \in DOMAIN Without(id) : Without(id)[i] = pending[i]
           /\ PendingSize(id) \in Nat
           /\ id \in DOMAIN pending => PendingSize(id) = pending[id].bytes
BY DEF PendingTypeOK, IsPending, Without, PendingSize, Slot

LEMMA PendingStepType ==
    ASSUME TInv, PendingStep
    PROVE  TInv'
<1> USE DEF TInv, TypeOK
<1>1. wpc = "apply" /\ ApplyFrame /\ UNCHANGED wcmd
  BY DEF PendingStep, ExpireStale, ApplyStart, ApplyUpdate, ApplyEnd, ApplyOrphan,
     ApplyAbort, Applying, ApplyFrame
<1>2. (ProducerTypeOK /\ QueueTypeOK /\ SubscriberTypeOK /\ MemoryTypeOK)'
  BY <1>1, TypeFrames DEF ApplyFrame
<1>3. Current \in Event /\ Current.id \in Ids /\ Current.bytes \in Nat
  BY <1>1, CurrentType
<1>4. WorkerTypeOK' /\ CommandsWellFormed'
  <2>1. CASE ApplyEnd
    BY <1>1, <1>3, <2>1 DEF ApplyEnd, WorkerTypeOK, CommandsWellFormed, ApplyFrame, Busy,
       producerVars, callerVars, Resident
  <2>2. CASE ExpireStale
    BY <1>1, <2>2 DEF ExpireStale, WorkerTypeOK, CommandsWellFormed, ApplyFrame, Busy,
       producerVars, callerVars
  <2>3. CASE ApplyStart \/ ApplyUpdate \/ ApplyOrphan \/ ApplyAbort
    <3>1. NextEvent /\ UNCHANGED wsess
      BY <2>3 DEF ApplyStart, ApplyUpdate, ApplyOrphan, ApplyAbort
    <3> QED BY <1>1, <3>1, NextEventType DEF WorkerTypeOK, CommandsWellFormed, ApplyFrame,
              Busy, producerVars, callerVars
  <2> QED BY <2>1, <2>2, <2>3 DEF PendingStep
<1>5. pendingBytes \in Nat /\ PendingSize(Current.id) \in Nat
  BY WithoutType DEF PendingTypeOK
<1>6. cleanupDue' \in BOOLEAN
  BY DEF PendingStep, ExpireStale, ApplyStart, ApplyUpdate, ApplyEnd, ApplyOrphan,
     ApplyAbort, Applying, PendingTypeOK
<1>7. (incomplete \in Nat /\ orphans \in Nat /\ started \in Nat)'
  BY DEF PendingStep, ExpireStale, ApplyStart, ApplyUpdate, ApplyEnd, ApplyOrphan,
     ApplyAbort, PendingTypeOK
<1>8. IsPending(pending') /\ pendingBytes' \in Nat
  <2>1. CASE ExpireStale
    <3>1. PICK id \in Stale : /\ pending' = Without(id)
                              /\ pendingBytes' = Monus(pendingBytes, pending[id].bytes)
      BY <2>1 DEF ExpireStale
    <3>2. id \in DOMAIN pending /\ pending[id].bytes \in Nat
      BY <3>1 DEF Stale, PendingTypeOK, IsPending, Slot
    <3> QED BY <1>5, <3>1, <3>2, WithoutType, MonusNat
  <2>2. CASE ApplyStart \/ ApplyUpdate
    <3>1. /\ pending' = With(Current.id, Current.bytes)
          /\ pendingBytes' = Monus(pendingBytes, PendingSize(Current.id)) + Current.bytes
      BY <2>2, WithoutType DEF ApplyStart, ApplyUpdate
    <3>2. Monus(pendingBytes, PendingSize(Current.id)) \in Nat
      BY <1>5, MonusNat
    <3>3. IsPending(pending') BY <1>3, <3>1, WithType
    <3>4. pendingBytes' \in Nat BY ONLY <1>3, <3>1, <3>2
    <3> QED BY <3>3, <3>4
  <2>3. CASE ApplyEnd \/ ApplyAbort
    <3>1. /\ pending' = Without(Current.id)
          /\ pendingBytes' = Monus(pendingBytes, PendingSize(Current.id))
      BY <2>3, WithoutType DEF ApplyEnd, ApplyAbort
    <3> QED BY <1>5, <3>1, WithoutType, MonusNat
  <2>4. CASE ApplyOrphan
    BY <2>4 DEF ApplyOrphan, PendingTypeOK
  <2> QED BY <2>1, <2>2, <2>3, <2>4 DEF PendingStep
<1>9. PendingTypeOK'
  BY <1>6, <1>7, <1>8 DEF PendingTypeOK
<1> QED BY <1>2, <1>4, <1>9

\* evict_oldest and the insertion keep the resident sessions a sequence.
LEMMA EvictType ==
    ASSUME MemoryTypeOK, memory # <<>>, EvictOldest
    PROVE  (memory \in Seq(Resident) /\ memoryBytes \in Nat /\ evicted \in Nat)'
<1>1. Head(memory) \in Resident /\ Tail(memory) \in Seq(Resident)
  BY DEF MemoryTypeOK
<1>2. Head(memory).bytes \in Nat
  BY <1>1 DEF Resident
<1>3. Monus(memoryBytes, Head(memory).bytes) \in Nat
  BY <1>2, MonusNat DEF MemoryTypeOK
<1> QED BY <1>1, <1>3 DEF EvictOldest, MemoryTypeOK

LEMMA CommitStepType ==
    ASSUME TInv, CommitStep
    PROVE  TInv'
<1> USE DEF TInv, TypeOK
<1>1. /\ wpc \in {"insert", "publish"} /\ wsess \in Resident /\ CommitFrame
      /\ wsess.id \in Ids /\ wsess.bytes \in Nat
  BY DEF CommitStep, InsertTooLarge, InsertEvict, InsertPush, Publish,
     CommandsWellFormed, Resident
<1>2. (ProducerTypeOK /\ QueueTypeOK /\ PendingTypeOK)'
  BY <1>1, TypeFrames DEF CommitFrame
<1>3. MemoryTypeOK'
  <2>1. (wipedPending \in Nat /\ wipedResident \in Nat)'
    BY <1>1 DEF CommitFrame, wipeVars, MemoryTypeOK
  <2>2. CASE InsertTooLarge
    BY <2>1, <2>2 DEF InsertTooLarge, MemoryTypeOK
  <2>3. CASE InsertEvict
    BY <2>1, <2>3, EvictType DEF InsertEvict, NeedsRoom, MemoryTypeOK
  <2>4. CASE InsertPush
    <3>1. memory' \in Seq(Resident)
      BY <1>1, <2>4 DEF InsertPush, MemoryTypeOK
    <3> QED BY <1>1, <2>1, <2>4, <3>1 DEF InsertPush, MemoryTypeOK
  <2>5. CASE Publish
    BY <2>1, <2>5 DEF Publish, memoryVars, MemoryTypeOK
  <2> QED BY <2>2, <2>3, <2>4, <2>5 DEF CommitStep
<1>4. SubscriberTypeOK'
  <2>1. CASE ~Publish
    BY <2>1, TypeFrames DEF CommitStep, InsertTooLarge, InsertEvict, InsertPush
  <2>2. CASE Publish
    <3> DEFINE live == {s \in followers : Alive(s)}
               full == {s \in live : Len(schan[s]) >= FollowCapacity}
    <3>1. log' \in Seq(Ids)
      BY <1>1, <2>2 DEF Publish, SubscriberTypeOK
    <3>2. \A s \in Subscribers : Append(schan[s], wsess.id) \in Seq(Ids)
      BY <1>1 DEF SubscriberTypeOK
    <3>3. \A s \in Subscribers : Append(smissed[s], wsess.id) \in Seq(Ids)
      BY <1>1 DEF SubscriberTypeOK
    <3>4. schan' \in [Subscribers -> Seq(Ids)]
      BY <2>2, <3>2 DEF Publish, SubscriberTypeOK
    <3>5. smissed' \in [Subscribers -> Seq(Ids)]
      BY <2>2, <3>3 DEF Publish, SubscriberTypeOK
    <3>6. followers' \subseteq Subscribers
      BY <2>2 DEF Publish, SubscriberTypeOK
    <3>7. Cardinality(full) \in Nat
      <4>1. full \subseteq Subscribers BY DEF SubscriberTypeOK
      <4> QED BY <4>1, ThreadsAssumption, FS_Subset, FS_CardinalityType
    <3>8. followDropped' \in Nat
      BY <2>2, <3>7 DEF Publish, SubscriberTypeOK
    <3> QED BY <2>2, <3>1, <3>4, <3>5, <3>6, <3>8 DEF Publish, SubscriberTypeOK
  <2> QED BY <2>1, <2>2
<1>5. WorkerTypeOK' /\ CommandsWellFormed'
  <2> USE <1>1 DEF WorkerTypeOK, CommandsWellFormed, CommitFrame, Busy, producerVars,
          callerVars
  <2>1. CASE ~Publish
    BY <2>1 DEF CommitStep, InsertTooLarge, InsertEvict, InsertPush
  <2>2. CASE Publish
    <3>1. NextEvent /\ wsess' = NoSession /\ wpc = "publish" BY <2>2 DEF Publish
    <3> QED BY <3>1, NextEventType
  <2> QED BY <2>1, <2>2
<1> QED BY <1>2, <1>3, <1>4, <1>5

LEMMA BudgetStepType ==
    ASSUME TInv, BudgetStep
    PROVE  TInv'
<1> USE DEF TInv, TypeOK
<1>1. wpc \in {"enforce", "evict"} /\ BudgetFrame
  BY DEF BudgetStep, EnforceBudget, EvictToBudget, ReleaseQueueBytes
<1>2. (ProducerTypeOK /\ SubscriberTypeOK)'
  BY <1>1, TypeFrames DEF BudgetFrame
<1>3. QueueTypeOK'
  <2>1. CASE ReleaseQueueBytes
    <3>1. wcmd.cost \in Nat BY DEF WorkerTypeOK, Command
    <3>2. queueBytes' \in Nat
      BY <2>1, <3>1, MonusNat DEF ReleaseQueueBytes, Released, QueueTypeOK
    <3> QED BY <1>1, <3>2 DEF BudgetFrame, QueueTypeOK, callerVars
  <2>2. CASE EnforceBudget \/ EvictToBudget
    BY <1>1, <2>2, TypeFrames DEF EnforceBudget, EvictToBudget, BudgetFrame
  <2> QED BY <2>1, <2>2 DEF BudgetStep
<1>4. MemoryTypeOK'
  <2>1. CASE EvictToBudget
    BY <1>1, <2>1, EvictType DEF EvictToBudget, MustEvict, MemoryTypeOK, BudgetFrame, wipeVars
  <2>2. CASE ReleaseQueueBytes \/ EnforceBudget
    BY <1>1, <2>2, TypeFrames DEF ReleaseQueueBytes, EnforceBudget, BudgetFrame
  <2> QED BY <2>1, <2>2 DEF BudgetStep
<1>5. PendingTypeOK'
  <2>1. CASE EnforceBudget
    <3>1. CASE UNCHANGED <<pending, pendingBytes, incomplete>>
      BY <2>1, <3>1 DEF EnforceBudget, PendingTypeOK
    <3>2. CASE /\ Current.id \in DOMAIN pending
               /\ pending' = Without(Current.id)
               /\ pendingBytes' = Monus(pendingBytes, pending[Current.id].bytes)
               /\ incomplete' = incomplete + 1
      <4>1. pending[Current.id].bytes \in Nat
        BY <3>2 DEF PendingTypeOK, IsPending, Slot
      <4>2. IsPending(pending') BY <3>2, WithoutType
      <4>3. pendingBytes' \in Nat BY <3>2, <4>1, MonusNat DEF PendingTypeOK
      <4> QED BY <2>1, <3>2, <4>2, <4>3 DEF EnforceBudget, PendingTypeOK
    <3> QED BY <2>1, <3>1, <3>2 DEF EnforceBudget
  <2>2. CASE EvictToBudget \/ ReleaseQueueBytes
    BY <2>2, TypeFrames DEF EvictToBudget, ReleaseQueueBytes
  <2> QED BY <2>1, <2>2 DEF BudgetStep
<1>6. WorkerTypeOK' /\ CommandsWellFormed'
  <2> USE <1>1 DEF WorkerTypeOK, CommandsWellFormed, BudgetFrame, Busy, producerVars,
          callerVars
  <2>1. CASE EnforceBudget \/ EvictToBudget
    BY <2>1 DEF EnforceBudget, EvictToBudget
  <2>2. CASE ReleaseQueueBytes
    BY <2>2, NoCommandType DEF ReleaseQueueBytes
  <2> QED BY <2>1, <2>2 DEF BudgetStep
<1> QED BY <1>2, <1>3, <1>4, <1>5, <1>6

LEMMA TickType ==
    ASSUME TInv, Tick
    PROVE  TInv'
<1> USE DEF TInv, TypeOK
<1>1. (ProducerTypeOK /\ QueueTypeOK /\ SubscriberTypeOK /\ WorkerTypeOK /\ MemoryTypeOK)'
  BY TypeFrames DEF Tick
<1>2. IsPending(pending')
  BY DEF Tick, PendingTypeOK, IsPending, Slot
<1>3. PendingTypeOK'
  BY <1>2 DEF Tick, PendingTypeOK
<1>4. CommandsWellFormed'
  BY DEF Tick, CommandsWellFormed, Busy, producerVars, callerVars, workerVars
<1> QED BY <1>1, <1>3, <1>4

LEMMA InitType == Init => TInv
<1> SUFFICES ASSUME Init PROVE TInv OBVIOUS
<1> USE NoCommandType DEF Init
<1>1. ProducerTypeOK BY DEF ProducerTypeOK
<1>2. QueueTypeOK BY DEF QueueTypeOK
<1>3. SubscriberTypeOK BY DEF SubscriberTypeOK
<1>4. WorkerTypeOK BY DEF WorkerTypeOK
<1>5. PendingTypeOK BY DEF PendingTypeOK, IsPending, NoPending
<1>6. MemoryTypeOK BY DEF MemoryTypeOK
<1>7. CommandsWellFormed BY DEF CommandsWellFormed, Busy
<1> QED BY <1>1, <1>2, <1>3, <1>4, <1>5, <1>6, <1>7 DEF TInv, TypeOK

LEMMA StutterType == TInv /\ UNCHANGED vars => TInv'
<1> SUFFICES ASSUME TInv, UNCHANGED vars PROVE TInv' OBVIOUS
<1>1. TypeOK'
  BY TypeFrames DEF TInv, TypeOK, vars
<1>2. CommandsWellFormed'
  BY DEF TInv, CommandsWellFormed, Busy, vars, producerVars, callerVars, workerVars
<1> QED BY <1>1, <1>2 DEF TInv

LEMMA NextType == TInv /\ [Next]_vars => TInv'
<1> SUFFICES ASSUME TInv, [Next]_vars PROVE TInv' OBVIOUS
<1>1. CASE \E p \in Producers : ProducerStep(p)
  BY <1>1, CallType, ForgetType, SubmitStepType DEF ProducerStep
<1>2. CASE \/ \E c \in Callers : CallerStep(c)
           \/ \E s \in Subscribers : SubscriberStep(s)
           \/ OwnerStep
  BY <1>2, QueryStepType
<1>3. CASE WorkerStep
  BY <1>3, RecvStepType, PendingStepType, CommitStepType, BudgetStepType DEF WorkerStep
<1>4. CASE Tick
  BY <1>4, TickType
<1>5. CASE Terminated \/ UNCHANGED vars
  BY <1>5, StutterType DEF Terminated
<1> QED BY <1>1, <1>2, <1>3, <1>4, <1>5 DEF Next

\* Type correctness: every variable of the collector keeps its type, and every
\* command in flight is one event or the events of one session (store.rs).
THEOREM TypeCorrect == Spec => []TypeOK
<1>1. Spec => []TInv
  BY InitType, NextType, PTL DEF Spec
<1> QED BY <1>1, PTL DEF TInv

-----------------------------------------------------------------------------
(***************************************************************************)
(* The resident budget.  While a command is being applied the pending      *)
(* sessions may exceed the budget, but only by the session the command is  *)
(* about; the end of a batch and abort_for_budget both take that session   *)
(* out.  Saturating subtraction can only make the counter smaller.         *)
(***************************************************************************)
PendingBound ==
    /\ wpc \in {"apply", "enforce"} =>
          Monus(pendingBytes, PendingSize(Current.id)) <= ResidentBudget
    /\ wpc \notin {"apply", "enforce"} => pendingBytes <= ResidentBudget
    /\ wpc = "enforce" /\ wcmd.kind = "Events" => Current.id \notin DOMAIN pending
    /\ wpc \in {"insert", "publish"} =>
          wi = Len(wcmd.events) /\ Current.id \notin DOMAIN pending

LEMMA MonusFacts ==
    /\ \A a, b \in Nat : Monus(a + b, b) = a
    /\ \A a \in Nat : Monus(a, 0) = a
    /\ \A a, b, c \in Nat : a <= b => Monus(a, c) <= Monus(b, c)
BY DEF Monus

LEMMA PendingBoundFrame ==
    ASSUME PendingBound, UNCHANGED <<wpc, wcmd, wi, pending, pendingBytes>>
    PROVE  PendingBound'
BY DEF PendingBound, Current, PendingSize

LEMMA PendingBoundApply ==
    ASSUME TInv, PendingBound, PendingStep
    PROVE  PendingBound'
<1> USE DEF TInv, TypeOK
<1>1. wpc = "apply" /\ UNCHANGED wcmd
  BY DEF PendingStep, ExpireStale, ApplyStart, ApplyUpdate, ApplyEnd, ApplyOrphan,
     ApplyAbort, Applying, ApplyFrame
<1>2. /\ Current.id \in Ids /\ Current.bytes \in Nat
      /\ pendingBytes \in Nat /\ PendingSize(Current.id) \in Nat
      /\ Monus(pendingBytes, PendingSize(Current.id)) \in Nat
      /\ Monus(pendingBytes, PendingSize(Current.id)) <= ResidentBudget
  BY <1>1, CurrentType, WithoutType, MonusNat DEF PendingBound, PendingTypeOK
<1>3. CASE ExpireStale
  <2>1. PICK id \in DOMAIN pending :
             /\ pending' = Without(id)
             /\ pendingBytes' = Monus(pendingBytes, pending[id].bytes)
    BY <1>3 DEF ExpireStale, Stale
  <2>2. wpc' = "apply" /\ Current' = Current
    BY <1>1, <1>3 DEF ExpireStale, Current
  <2>3. pending[id].bytes \in Nat /\ pendingBytes' \in Nat /\ pendingBytes' <= pendingBytes
    BY <1>2, <2>1, MonusNat DEF PendingTypeOK, IsPending, Slot
  <2>4. CASE id = Current.id
    <3>1. PendingSize(Current.id)' = 0
      BY <2>1, <2>2, <2>4, WithoutType DEF PendingSize
    <3>2. pendingBytes' <= ResidentBudget
      BY <1>2, <2>1, <2>4, WithoutType
    <3> QED BY <2>2, <2>3, <3>1, <3>2, MonusFacts DEF PendingBound
  <2>5. CASE id # Current.id
    <3>1. PendingSize(Current.id)' = PendingSize(Current.id)
      BY <2>1, <2>2, <2>5, WithoutType DEF PendingSize
    <3>2. Monus(pendingBytes', PendingSize(Current.id)) <= ResidentBudget
      BY <1>2, <2>3 DEF Monus
    <3> QED BY <2>2, <3>1, <3>2 DEF PendingBound
  <2> QED BY <2>4, <2>5
<1>4. CASE ApplyEnd
  <2>1. /\ wpc' = "insert" /\ Current' = Current /\ wi' = wi
        /\ pendingBytes' = Monus(pendingBytes, PendingSize(Current.id))
        /\ Current.id \notin DOMAIN pending'
    BY <1>1, <1>4, WithoutType DEF ApplyEnd, Current
  <2>2. wi = Len(wcmd.events)
    BY <1>1, <1>4, CurrentType DEF ApplyEnd, Applying, CommandsWellFormed, Busy
  <2> QED BY <1>1, <1>2, <2>1, <2>2 DEF PendingBound
\* The other events keep the bound: what is left without the session of the
\* command does not change, and Events reach "enforce" only through End.
<1>5. CASE ApplyStart \/ ApplyUpdate \/ ApplyOrphan \/ ApplyAbort
  <2>1. NextEvent /\ wpc' \in {"apply", "enforce"}
    BY <1>1, <1>5, NextEventType DEF ApplyStart, ApplyUpdate, ApplyOrphan, ApplyAbort
  <2>2. wcmd.kind = "Events" => Current'.id = Current.id
    <3>1. WellFormed(wcmd) /\ wi' \in 1..Len(wcmd.events) /\ wi \in 1..Len(wcmd.events)
          /\ wcmd.events \in Seq(Event)
      BY <1>1, <2>1, NextEventType DEF CommandsWellFormed, Busy, WorkerTypeOK, Command
    <3>2. DOMAIN wcmd.events = 1..Len(wcmd.events)
      BY <3>1
    <3> QED BY <1>1, <3>1, <3>2 DEF WellFormed, Current
  <2>3. wcmd.kind = "Event" => Current' = Current
    <3>1. wcmd.kind = "Event" => wi = 1 /\ Len(wcmd.events) = 1
      BY <1>1, CurrentType DEF CommandsWellFormed, Busy, WellFormed
    <3>2. ASSUME wcmd.kind = "Event" PROVE wi' = wi
      <4>1. wi' \in 1..Len(wcmd.events)
        BY <1>1, <2>1, NextEventType
      <4>2. wi = 1 /\ Len(wcmd.events) = 1
        BY <3>1, <3>2
      <4> QED BY <4>1, <4>2
    <3> QED BY <1>1, <3>2 DEF Current
  <2>4. wcmd.kind \in {"Event", "Events"}
    BY <1>1 DEF CommandsWellFormed, Busy
  <2>5. Current'.id = Current.id
    BY <2>2, <2>3, <2>4
  <2>6. wpc' = "enforce" /\ wcmd.kind = "Events" => Current.type = "End"
    BY <1>1, <2>1, CurrentType DEF NextEvent, CommandsWellFormed, Busy, WorkerTypeOK
  <2>7. CASE ApplyStart \/ ApplyUpdate
    <3>1. /\ pending' = With(Current.id, Current.bytes)
          /\ pendingBytes' = Monus(pendingBytes, PendingSize(Current.id)) + Current.bytes
          /\ Current.type \in {"Start", "Update"}
      BY <2>7, WithoutType DEF ApplyStart, ApplyUpdate, Applying
    <3>2. PendingSize(Current.id)' = Current.bytes
      <4>1. Current.id \in DOMAIN pending' /\ pending'[Current.id].bytes = Current.bytes
        <5>1. /\ DOMAIN With(Current.id, Current.bytes) = DOMAIN pending \cup {Current.id}
              /\ With(Current.id, Current.bytes)[Current.id].bytes = Current.bytes
          BY <1>2, WithType
        <5> QED BY ONLY <3>1, <5>1
      <4> QED BY <2>5, <4>1 DEF PendingSize
    <3>3. Monus(pendingBytes', PendingSize(Current.id)') <= ResidentBudget
      BY <1>2, <3>1, <3>2 DEF Monus
    <3> QED BY <1>1, <2>1, <2>6, <3>1, <3>3 DEF PendingBound
  <2>8. CASE ApplyOrphan
    <3>1. UNCHANGED <<pending, pendingBytes>> /\ Current.id \notin DOMAIN pending
      BY <2>8 DEF ApplyOrphan
    <3>2. PendingSize(Current.id)' = PendingSize(Current.id)
      BY <2>5, <3>1 DEF PendingSize
    <3> QED BY <1>1, <1>2, <2>1, <2>5, <3>1, <3>2 DEF PendingBound
  <2>9. CASE ApplyAbort
    <3>1. /\ pending' = Without(Current.id)
          /\ pendingBytes' = Monus(pendingBytes, PendingSize(Current.id))
      BY <2>9 DEF ApplyAbort
    <3>2. PendingSize(Current.id)' = 0 /\ Current.id \notin DOMAIN pending'
      BY <2>5, <3>1, WithoutType DEF PendingSize
    <3> QED BY <1>1, <1>2, <2>1, <2>5, <3>1, <3>2, MonusFacts DEF PendingBound
  <2> QED BY <1>5, <2>7, <2>8, <2>9
<1> QED BY <1>3, <1>4, <1>5 DEF PendingStep

LEMMA PendingBoundStep == TInv /\ PendingBound /\ [Next]_vars => PendingBound'
<1> SUFFICES ASSUME TInv, PendingBound, [Next]_vars PROVE PendingBound' OBVIOUS
<1> USE DEF TInv, TypeOK
<1>1. CASE UNCHANGED <<wpc, wcmd, wi, pending, pendingBytes>>
  BY <1>1, PendingBoundFrame
<1>2. CASE PendingStep
  BY <1>2, PendingBoundApply
<1>3. CASE RecvEvents
  <2>1. wpc = "recv" /\ wpc' = "apply" /\ UNCHANGED <<pending, pendingBytes>>
    BY <1>3 DEF RecvEvents, pendingVars
  <2>2. pendingBytes \in Nat /\ pendingBytes <= ResidentBudget
    BY <2>1 DEF PendingBound, PendingTypeOK
  <2>3. PendingSize(Current.id)' \in Nat
    <3>1. PendingTypeOK' BY NextType
    <3> QED BY <3>1 DEF PendingTypeOK, IsPending, PendingSize, Slot
  <2> QED BY <2>1, <2>2, <2>3 DEF PendingBound, Monus
<1>4. CASE RecvClear
  BY <1>4 DEF RecvClear, RecvQuery, PendingBound
<1>5. CASE RecvShutdown
  BY <1>5 DEF RecvShutdown, RecvQuery, PendingBound, pendingVars
<1>6. CASE InsertTooLarge \/ InsertEvict \/ InsertPush
  <2>1. /\ wpc = "insert" /\ wpc' \in {"insert", "publish"}
        /\ UNCHANGED <<wcmd, wi, pending, pendingBytes>>
    BY <1>6 DEF InsertTooLarge, InsertEvict, InsertPush, CommitFrame, pendingVars
  <2>2. Current' = Current
    BY <2>1 DEF Current
  <2> QED BY <2>1, <2>2 DEF PendingBound
<1>7. CASE Publish
  <2>1. wpc = "publish" /\ NextEvent /\ UNCHANGED <<wcmd, pending, pendingBytes>>
    BY <1>7 DEF Publish, CommitFrame, pendingVars
  <2>2. pendingBytes \in Nat /\ pendingBytes <= ResidentBudget
    BY <2>1 DEF PendingBound, PendingTypeOK
  <2>3. PendingSize(Current.id)' \in Nat
    <3>1. PendingTypeOK' BY NextType
    <3> QED BY <3>1 DEF PendingTypeOK, IsPending, PendingSize, Slot
  <2>4. wpc' = "enforce" /\ UNCHANGED wi /\ Current.id \notin DOMAIN pending
    BY <2>1 DEF PendingBound, NextEvent, WorkerTypeOK
  <2>5. Current' = Current
    BY <2>1, <2>4 DEF Current
  <2> QED BY <2>1, <2>2, <2>3, <2>4, <2>5 DEF PendingBound, Monus
<1>8. CASE EnforceBudget
  <2>1. wpc = "enforce" /\ wpc' = "evict" /\ pendingBytes \in Nat
    BY <1>8 DEF EnforceBudget, PendingTypeOK
  <2>2. PendingSize(Current.id) \in Nat
    BY WithoutType
  <2>3. CASE Current.id \in DOMAIN pending /\ OverBudget
    <3>1. pendingBytes' = Monus(pendingBytes, PendingSize(Current.id))
      BY <1>8, <2>3, WithoutType DEF EnforceBudget
    <3> QED BY <2>1, <3>1 DEF PendingBound
  <2>4. CASE Current.id \notin DOMAIN pending
    <3>1. pendingBytes' = pendingBytes /\ PendingSize(Current.id) = 0
      BY <1>8, <2>4 DEF EnforceBudget, PendingSize
    <3> QED BY <2>1, <3>1 DEF PendingBound, Monus
  <2>5. CASE Current.id \in DOMAIN pending /\ ~OverBudget
    <3>1. pendingBytes' = pendingBytes /\ wcmd.kind = "Event"
      BY <1>8, <2>1, <2>5 DEF EnforceBudget, PendingBound, CommandsWellFormed, Busy
    <3> QED BY <2>1, <2>5, <3>1 DEF PendingBound, OverBudget
  <2> QED BY <2>3, <2>4, <2>5
<1>9. CASE EvictToBudget \/ ReleaseQueueBytes
  BY <1>9 DEF EvictToBudget, ReleaseQueueBytes, pendingVars, PendingBound
<1>10. CASE Tick
  <2>1. UNCHANGED <<wpc, wcmd, wi, pendingBytes>> /\ DOMAIN pending' = DOMAIN pending
    BY <1>10 DEF Tick, workerVars
  <2>2. \A i \in DOMAIN pending : pending'[i].bytes = pending[i].bytes
    BY <1>10 DEF Tick, PendingTypeOK, IsPending, Slot
  <2>3. Current' = Current
    BY <2>1 DEF Current
  <2>4. PendingSize(Current.id)' = PendingSize(Current.id)
    BY <2>1, <2>2, <2>3 DEF PendingSize
  <2> QED BY <2>1, <2>3, <2>4 DEF PendingBound
<1>11. CASE \E p \in Producers : ProducerStep(p)
  <2> PICK p \in Producers : ProducerStep(p) BY <1>11
  <2>1. UNCHANGED <<workerVars, pendingVars>>
    BY DEF ProducerStep, Record, Start, Emit, Finish, Hide, Forget, Abort, CallFrame, SubmitFrame,
       Reserve, ReserveRejected, TrySend, TrySendFull, ReleaseRejected
  <2> QED BY <1>1, <2>1 DEF workerVars, pendingVars
<1>12. CASE \/ \E c \in Callers : CallerStep(c)
            \/ \E s \in Subscribers : SubscriberStep(s)
            \/ OwnerStep
  <2>1. QueryFrame
    BY <1>12 DEF CallerStep, CallQuery, SendQuery, SubscriberStep, CallFollow, SendFollow,
       FollowRecv, FollowDrop, OwnerStep, DropHandle, SendShutdown
  <2> QED BY <1>1, <2>1 DEF QueryFrame, workerVars, pendingVars
<1>13. CASE RecvRead \/ RecvStats \/ RecvFollow
  BY <1>1, <1>13 DEF RecvRead, RecvStats, RecvFollow, pendingVars
<1>14. CASE Terminated \/ UNCHANGED vars
  BY <1>1, <1>14 DEF Terminated, vars, workerVars, pendingVars
<1> QED BY <1>2, <1>3, <1>4, <1>5, <1>6, <1>7, <1>8, <1>9, <1>10, <1>11, <1>12, <1>13,
       <1>14 DEF Next, WorkerStep, RecvStep, CommitStep, BudgetStep

-----------------------------------------------------------------------------
(***************************************************************************)
(* The resident sessions.                                                  *)
(***************************************************************************)
PrefixSums(f) ==
    /\ f[0] = 0 /\ f[Len(memory)] = memoryBytes
    /\ \A i \in 1..Len(memory) : f[i] = f[i-1] + memory[i].bytes
    /\ \A i, j \in 0..Len(memory) : i <= j => f[i] <= f[j]

LEMMA EvictAccounting ==
    ASSUME MemoryTypeOK, MemoryAccounting, memory # <<>>, EvictOldest
    PROVE  /\ MemoryAccounting' /\ memoryBytes' <= memoryBytes
           /\ Len(memory') = Len(memory) - 1
<1> DEFINE n == Len(memory)
           b == Head(memory).bytes
<1>1. PICK f \in [0..n -> 0..memoryBytes] : PrefixSums(f)
  BY DEF MemoryAccounting, PrefixSums
<1>2. /\ n \in Nat \ {0} /\ b = memory[1].bytes /\ b \in Nat /\ memoryBytes \in Nat
      /\ \A i \in 1..n : memory[i].bytes \in Nat
  BY MemoryElement DEF MemoryTypeOK
<1>3. /\ Len(memory') = n - 1 /\ memory' = Tail(memory)
      /\ \A i \in 1..(n - 1) : memory'[i] = memory[i + 1]
  BY <1>2 DEF EvictOldest, MemoryTypeOK
<1>4. f[1] = b /\ f[n] = memoryBytes
  BY <1>1, <1>2 DEF PrefixSums
<1>5. \A i \in 1..n : f[i] \in 0..memoryBytes /\ b <= f[i]
  <2> SUFFICES ASSUME NEW i \in 1..n PROVE f[i] \in 0..memoryBytes /\ b <= f[i]
    OBVIOUS
  <2>1. \A k, l \in 0..n : k <= l => f[k] <= f[l] BY <1>1 DEF PrefixSums
  <2> HIDE DEF n, b
  <2>2. f[1] <= f[i] BY <1>2, <2>1
  <2>3. f[i] \in 0..memoryBytes BY <1>1, <1>2
  <2> QED BY <1>4, <2>2, <2>3
<1>6. memoryBytes' = memoryBytes - b /\ memoryBytes' \in Nat
  BY <1>2, <1>4, <1>5 DEF EvictOldest, Monus
<1> DEFINE g == [i \in 0..(n - 1) |-> f[i + 1] - b]
<1>7. \A i \in 0..(n - 1) : f[i + 1] - b \in 0..memoryBytes'
  <2> SUFFICES ASSUME NEW i \in 0..(n - 1) PROVE f[i + 1] - b \in 0..memoryBytes'
    OBVIOUS
  <2>1. i + 1 \in 1..n BY <1>2
  <2>2. f[i + 1] \in 0..memoryBytes /\ b <= f[i + 1] BY <1>5, <2>1
  <2>3. b \in Nat /\ memoryBytes \in Nat /\ f[i + 1] \in Int BY <1>2, <2>2
  <2> HIDE DEF n, b
  <2> QED BY ONLY <1>6, <2>2, <2>3
<1>8. g \in [0..(n - 1) -> 0..memoryBytes']
  BY <1>7
<1>9. g[0] = 0 /\ g[n - 1] = memoryBytes'
  <2>1. g[0] = f[1] - b /\ g[n - 1] = f[n] - b BY <1>2
  <2> HIDE DEF n, b, g
  <2> QED BY <1>2, <1>4, <1>6, <2>1
<1>10. \A i \in 1..(n - 1) : g[i] = g[i - 1] + memory'[i].bytes
  <2> SUFFICES ASSUME NEW i \in 1..(n - 1) PROVE g[i] = g[i - 1] + memory'[i].bytes
    OBVIOUS
  <2>1. g[i] = f[i + 1] - b /\ g[i - 1] = f[i] - b
    BY <1>2
  <2>2. f[i + 1] = f[i] + memory[i + 1].bytes
    <3>1. i + 1 \in 1..n /\ (i + 1) - 1 = i BY <1>2
    <3> QED BY <1>1, <3>1 DEF PrefixSums
  <2>3. f[i] \in Int /\ memory[i + 1].bytes \in Nat /\ memory'[i] = memory[i + 1]
    BY <1>2, <1>3, <1>5
  <2>4. memory'[i].bytes = memory[i + 1].bytes
    BY ONLY <2>3
  <2>5. f[i] \in Int /\ b \in Int /\ memory[i + 1].bytes \in Int
    BY <1>2, <2>3
  <2> QED BY ONLY <2>1, <2>2, <2>4, <2>5
<1>11. \A i, j \in 0..(n - 1) : i <= j => g[i] <= g[j]
  <2> SUFFICES ASSUME NEW i \in 0..(n - 1), NEW j \in 0..(n - 1), i <= j
               PROVE  g[i] <= g[j]
    OBVIOUS
  <2>1. g[i] = f[i + 1] - b /\ g[j] = f[j + 1] - b
    OBVIOUS
  <2>2. i + 1 \in 1..n /\ j + 1 \in 1..n /\ i + 1 <= j + 1
    BY <1>2
  <2>3. f[i + 1] <= f[j + 1] /\ f[i + 1] \in Int /\ f[j + 1] \in Int
    BY <1>1, <1>2, <1>5, <2>2 DEF PrefixSums
  <2> HIDE DEF n, b, g
  <2> QED BY <1>2, <2>1, <2>3
<1>12. MemoryAccounting'
  <2> HIDE DEF g
  <2>1. /\ g \in [0..Len(memory') -> 0..memoryBytes']
        /\ g[0] = 0 /\ g[Len(memory')] = memoryBytes'
        /\ \A i \in 1..Len(memory') : g[i] = g[i-1] + memory'[i].bytes
        /\ \A i, j \in 0..Len(memory') : i <= j => g[i] <= g[j]
    BY <1>3, <1>8, <1>9, <1>10, <1>11
  <2> QED BY <2>1 DEF MemoryAccounting
<1> QED BY <1>2, <1>3, <1>6, <1>12

LEMMA PushAccounting ==
    ASSUME MemoryTypeOK, MemoryAccounting, NEW r \in Resident,
           memory' = Append(memory, r), memoryBytes' = memoryBytes + r.bytes
    PROVE  MemoryAccounting' /\ Len(memory') = Len(memory) + 1
<1> DEFINE n == Len(memory)
<1>1. PICK f \in [0..n -> 0..memoryBytes] : PrefixSums(f)
  BY DEF MemoryAccounting, PrefixSums
<1>2. n \in Nat /\ r.bytes \in Nat /\ memoryBytes \in Nat
  BY DEF MemoryTypeOK, Resident
<1>3. /\ Len(memory') = n + 1 /\ memory'[n + 1] = r
      /\ \A i \in 1..n : memory'[i] = memory[i]
  BY DEF MemoryTypeOK
<1> DEFINE g == [i \in 0..(n + 1) |-> IF i = n + 1 THEN memoryBytes' ELSE f[i]]
<1>4. \A i \in 0..n : f[i] \in 0..memoryBytes /\ g[i] = f[i] /\ i \in 0..(n + 1)
  BY <1>1, <1>2
<1>5. g[n + 1] = memoryBytes + r.bytes /\ memoryBytes' = memoryBytes + r.bytes
  BY <1>2
<1>6. \A i \in 0..(n + 1) : i = n + 1 \/ i \in 0..n
  BY <1>2
<1>7. g \in [0..(n + 1) -> 0..memoryBytes']
  <2>1. \A i \in 0..n : g[i] \in 0..memoryBytes'
    BY <1>2, <1>4, <1>5
  <2>2. g[n + 1] \in 0..memoryBytes'
    BY <1>2, <1>5
  <2>3. \A i \in 0..(n + 1) : g[i] \in 0..memoryBytes'
    BY <1>6, <2>1, <2>2
  <2> QED BY <2>3
<1>8. g[0] = 0 /\ g[n + 1] = memoryBytes' /\ f[n] = memoryBytes
  BY <1>1, <1>2, <1>4, <1>5 DEF PrefixSums
<1>9. \A i \in 1..(n + 1) : g[i] = g[i - 1] + memory'[i].bytes
  <2> SUFFICES ASSUME NEW i \in 1..(n + 1) PROVE g[i] = g[i - 1] + memory'[i].bytes
    OBVIOUS
  <2>1. CASE i = n + 1
    <3>1. i - 1 = n /\ n \in 0..n BY <1>2, <2>1
    <3> QED BY <1>3, <1>4, <1>5, <1>8, <2>1, <3>1
  <2>2. CASE i # n + 1
    <3>1. i \in 1..n /\ i \in 0..n /\ i - 1 \in 0..n BY <1>2, <2>2
    <3> HIDE DEF g
    <3> QED BY <1>1, <1>3, <1>4, <3>1 DEF PrefixSums
  <2> QED BY <2>1, <2>2
<1>10. \A i, j \in 0..(n + 1) : i <= j => g[i] <= g[j]
  <2> SUFFICES ASSUME NEW i \in 0..(n + 1), NEW j \in 0..(n + 1), i <= j
               PROVE  g[i] <= g[j]
    OBVIOUS
  <2> HIDE DEF g
  <2>1. CASE j = n + 1
    BY <1>2, <1>4, <1>5, <1>6, <2>1
  <2>2. CASE j # n + 1
    <3>1. i \in 0..n /\ j \in 0..n BY <1>2, <2>2
    <3> QED BY <1>1, <1>4, <3>1 DEF PrefixSums
  <2> QED BY <2>1, <2>2
<1>11. MemoryAccounting'
  <2> HIDE DEF g
  <2>1. /\ g \in [0..Len(memory') -> 0..memoryBytes']
        /\ g[0] = 0 /\ g[Len(memory')] = memoryBytes'
        /\ \A i \in 1..Len(memory') : g[i] = g[i-1] + memory'[i].bytes
        /\ \A i, j \in 0..Len(memory') : i <= j => g[i] <= g[j]
    BY <1>3, <1>7, <1>8, <1>9, <1>10
  <2> QED BY <2>1 DEF MemoryAccounting
<1> QED BY <1>3, <1>11

\* The resident part of the inductive invariant.
MemoryInv ==
    /\ MemoryAccounting /\ MemoryBounded /\ queueBytes <= QueueBudget
    /\ wpc \in {"recv", "stopped"} => memoryBytes + pendingBytes <= ResidentBudget

LEMMA EmptyMemory == MemoryTypeOK /\ MemoryAccounting /\ memory = <<>> => memoryBytes = 0
BY DEF MemoryAccounting

LEMMA MemoryInvFrame ==
    ASSUME MemoryInv, UNCHANGED <<memory, memoryBytes, pendingBytes, wpc>>,
           queueBytes' <= QueueBudget
    PROVE  MemoryInv'
BY DEF MemoryInv, MemoryAccounting, MemoryBounded

LEMMA MemoryInvStep == TInv /\ PendingBound /\ MemoryInv /\ [Next]_vars => MemoryInv'
<1> SUFFICES ASSUME TInv, PendingBound, MemoryInv, [Next]_vars PROVE MemoryInv' OBVIOUS
<1> USE DEF TInv, TypeOK
<1>0. queueBytes \in Nat /\ queueBytes <= QueueBudget
  BY DEF MemoryInv, QueueTypeOK
<1>1. CASE \E p \in Producers : ProducerStep(p)
  <2> PICK p \in Producers : ProducerStep(p) BY <1>1
  <2>1. UNCHANGED <<memory, memoryBytes, pendingBytes, wpc>>
    BY DEF ProducerStep, Record, Start, Emit, Finish, Hide, Forget, Abort, CallFrame, SubmitFrame,
       Reserve, ReserveRejected, TrySend, TrySendFull, ReleaseRejected, memoryVars,
       pendingVars, workerVars
  <2>2. queueBytes' <= QueueBudget
    <3>1. CASE ReleaseRejected(p)
      <4>1. pcmd[p].cost \in Nat BY DEF ProducerTypeOK, Command
      <4> QED BY <1>0, <3>1, <4>1 DEF ReleaseRejected, Released, Monus
    <3>2. CASE Reserve(p)
      BY <3>2 DEF Reserve, CanReserve
    <3>3. CASE ~ReleaseRejected(p) /\ ~Reserve(p)
      BY <1>0, <3>3 DEF ProducerStep, Record, Start, Emit, Finish, Hide, Forget, Abort, CallFrame,
         ReserveRejected, TrySend, TrySendFull
    <3> QED BY <3>1, <3>2, <3>3
  <2> QED BY <2>1, <2>2, MemoryInvFrame
<1>2. CASE \/ \E c \in Callers : CallerStep(c)
           \/ \E s \in Subscribers : SubscriberStep(s)
           \/ OwnerStep
  <2>1. QueryFrame
    BY <1>2 DEF CallerStep, CallQuery, SendQuery, SubscriberStep, CallFollow, SendFollow,
       FollowRecv, FollowDrop, OwnerStep, DropHandle, SendShutdown
  <2> QED BY <1>0, <2>1, MemoryInvFrame DEF QueryFrame, memoryVars, pendingVars, workerVars
<1>3. CASE RecvStep
  <2>1. wpc = "recv" /\ UNCHANGED queueBytes
    BY <1>3 DEF RecvStep, RecvEvents, RecvRead, RecvClear, RecvStats, RecvFollow,
       RecvShutdown, RecvQuery, RecvFrame
  <2>2. CASE RecvClear
    <3>1. memory' = <<>> /\ memoryBytes' = 0 /\ pendingBytes' = 0
      BY <2>2 DEF RecvClear
    <3>2. MemoryAccounting'
      <4> DEFINE z == [i \in 0..0 |-> 0]
      <4>1. /\ z \in [0..Len(memory') -> 0..memoryBytes']
            /\ z[0] = 0 /\ z[Len(memory')] = memoryBytes'
            /\ \A i \in 1..Len(memory') : z[i] = z[i-1] + memory'[i].bytes
            /\ \A i, j \in 0..Len(memory') : i <= j => z[i] <= z[j]
        BY <3>1
      <4> QED BY <4>1 DEF MemoryAccounting
    <3>3. MemoryBounded'
      BY <3>1 DEF MemoryBounded
    <3> QED BY <1>0, <2>1, <3>1, <3>2, <3>3 DEF MemoryInv
  <2>3. CASE ~RecvClear
    <3>1. UNCHANGED <<memory, memoryBytes, pendingBytes>>
      BY <1>3, <2>3 DEF RecvStep, RecvEvents, RecvRead, RecvStats, RecvFollow,
         RecvShutdown, memoryVars, pendingVars
    <3> QED BY <1>0, <2>1, <3>1 DEF MemoryInv, MemoryAccounting, MemoryBounded
  <2> QED BY <2>2, <2>3
<1>4. CASE PendingStep
  <2>1. wpc' \in {"apply", "enforce", "insert"} /\ UNCHANGED <<memory, memoryBytes, queueBytes>>
    BY <1>4 DEF PendingStep, ExpireStale, ApplyStart, ApplyUpdate, ApplyEnd, ApplyOrphan,
       ApplyAbort, Applying, ApplyFrame, NextEvent, memoryVars
  <2> QED BY <1>0, <2>1 DEF MemoryInv, MemoryAccounting, MemoryBounded
<1>5. CASE CommitStep
  <2>1. wpc' \in {"insert", "publish", "apply", "enforce"} /\ UNCHANGED queueBytes
    BY <1>5 DEF CommitStep, InsertTooLarge, InsertEvict, InsertPush, Publish, CommitFrame,
       NextEvent
  <2>2. MemoryAccounting' /\ MemoryBounded'
    <3>1. CASE InsertTooLarge \/ Publish
      BY <3>1 DEF InsertTooLarge, Publish, memoryVars, MemoryInv, MemoryAccounting,
         MemoryBounded
    <3>2. CASE InsertEvict
      <4>1. memory # <<>> /\ EvictOldest
        BY <3>2 DEF InsertEvict, NeedsRoom
      <4>2. MemoryAccounting' /\ memoryBytes' <= memoryBytes /\ Len(memory') = Len(memory) - 1
        BY <4>1, EvictAccounting DEF MemoryInv
      <4>3. memoryBytes \in Nat /\ memoryBytes' \in Nat /\ Len(memory) \in Nat
        BY NextType DEF MemoryTypeOK
      <4> QED BY <4>2, <4>3 DEF MemoryInv, MemoryBounded
    <3>3. CASE InsertPush
      <4>1. /\ wsess \in Resident /\ memory' = Append(memory, wsess)
            /\ memoryBytes' = memoryBytes + wsess.bytes
            /\ ~TooLarge(wsess.bytes) /\ ~NeedsRoom(wsess.bytes)
        BY <3>3 DEF InsertPush, CommandsWellFormed
      <4>2. MemoryAccounting' /\ Len(memory') = Len(memory) + 1
        BY <4>1, PushAccounting DEF MemoryInv
      <4>3. wsess.bytes \in Nat /\ memoryBytes \in Nat /\ Len(memory) \in Nat
        BY <4>1 DEF MemoryTypeOK, Resident
      <4>4. CASE memory = <<>>
        <5>1. memoryBytes = 0 /\ Len(memory) = 0
          BY <4>4, EmptyMemory DEF MemoryInv
        <5> QED BY <4>1, <4>2, <4>3, <5>1 DEF MemoryBounded, TooLarge
      <4>5. CASE memory # <<>>
        BY <4>1, <4>2, <4>3, <4>5 DEF MemoryBounded, NeedsRoom
      <4> QED BY <4>2, <4>4, <4>5
    <3> QED BY <1>5, <3>1, <3>2, <3>3 DEF CommitStep
  <2> QED BY <1>0, <2>1, <2>2 DEF MemoryInv
<1>6. CASE EnforceBudget
  BY <1>0, <1>6 DEF EnforceBudget, memoryVars, MemoryInv, MemoryAccounting, MemoryBounded
<1>7. CASE EvictToBudget
  <2>1. memory # <<>> /\ EvictOldest /\ wpc' = "evict" /\ UNCHANGED queueBytes
    BY <1>7 DEF EvictToBudget, MustEvict
  <2>2. MemoryAccounting' /\ memoryBytes' <= memoryBytes /\ Len(memory') = Len(memory) - 1
    BY <2>1, EvictAccounting DEF MemoryInv
  <2>3. memoryBytes \in Nat /\ memoryBytes' \in Nat /\ Len(memory) \in Nat
    BY NextType DEF MemoryTypeOK
  <2> QED BY <1>0, <2>1, <2>2, <2>3 DEF MemoryInv, MemoryBounded
<1>8. CASE ReleaseQueueBytes
  <2>1. /\ ~MustEvict /\ wpc = "evict" /\ UNCHANGED <<memory, memoryBytes, pendingBytes>>
        /\ queueBytes' = Monus(queueBytes, wcmd.cost)
    BY <1>8 DEF ReleaseQueueBytes, memoryVars, pendingVars, Released
  <2>2. wcmd.cost \in Nat BY DEF WorkerTypeOK, Command
  <2>3. queueBytes' <= QueueBudget
    BY <1>0, <2>1, <2>2 DEF Monus
  <2>4. /\ pendingBytes \in Nat /\ pendingBytes <= ResidentBudget /\ memoryBytes \in Nat
    BY <2>1 DEF PendingBound, PendingTypeOK, MemoryTypeOK
  <2>5. memoryBytes + pendingBytes <= ResidentBudget
    <3>1. CASE memory = <<>>
      <4>1. memoryBytes = 0
        BY <3>1, EmptyMemory DEF MemoryInv
      <4> QED BY <2>4, <4>1
    <3>2. CASE memory # <<>>
      BY <2>1, <2>4, <3>2 DEF MustEvict, Monus
    <3> QED BY <3>1, <3>2
  <2> QED BY <2>1, <2>3, <2>5 DEF MemoryInv, MemoryAccounting, MemoryBounded
<1>9. CASE Tick
  BY <1>0, <1>9, MemoryInvFrame DEF Tick, memoryVars, workerVars
<1>10. CASE Terminated \/ UNCHANGED vars
  BY <1>0, <1>10, MemoryInvFrame DEF Terminated, vars, memoryVars, pendingVars, workerVars
<1> QED BY <1>1, <1>2, <1>3, <1>4, <1>5, <1>6, <1>7, <1>8, <1>9, <1>10
       DEF Next, WorkerStep, BudgetStep

LEMMA BudgetInit == Init => PendingBound /\ MemoryInv
<1> SUFFICES ASSUME Init PROVE PendingBound /\ MemoryInv OBVIOUS
<1>1. PendingBound BY DEF Init, PendingBound
<1>2. MemoryAccounting
  <2> DEFINE z == [i \in 0..0 |-> 0]
  <2>1. /\ z \in [0..Len(memory) -> 0..memoryBytes]
        /\ z[0] = 0 /\ z[Len(memory)] = memoryBytes
        /\ \A i \in 1..Len(memory) : z[i] = z[i-1] + memory[i].bytes
        /\ \A i, j \in 0..Len(memory) : i <= j => z[i] <= z[j]
    BY DEF Init
  <2> QED BY <2>1 DEF MemoryAccounting
<1> QED BY <1>1, <1>2 DEF Init, MemoryInv, MemoryBounded

\* The inductive invariant of the collector.
THEOREM Invariance == Spec => [](TInv /\ PendingBound /\ MemoryInv)
<1>1. Init => TInv /\ PendingBound /\ MemoryInv
  BY InitType, BudgetInit
<1>2. TInv /\ PendingBound /\ MemoryInv /\ [Next]_vars
        => (TInv /\ PendingBound /\ MemoryInv)'
  BY NextType, PendingBoundStep, MemoryInvStep
<1> QED BY <1>1, <1>2, PTL DEF Spec

\* The resident budget: whatever the number of threads, the budgets and the
\* interleaving, completed and pending sessions together fit the resident
\* budget whenever the collector is between two commands (worker.rs,
\* enforce_memory_budget), and with the queue they fit the total budget.
THEOREM ResidentBudgetTheorem == Spec => []ResidentBudgetHeld
<1>1. TInv /\ MemoryInv => ResidentBudgetHeld
  BY DEF TInv, TypeOK, QueueTypeOK, PendingTypeOK, MemoryTypeOK, MemoryInv,
     ResidentBudgetHeld
<1> QED BY <1>1, Invariance, PTL

\* memory_bytes of MemoryStore never drifts from the sessions it stands for.
THEOREM MemoryAccountingTheorem == Spec => []MemoryAccounting
<1>1. MemoryInv => MemoryAccounting BY DEF MemoryInv
<1> QED BY <1>1, Invariance, PTL

\* Even in the middle of a command the completed sessions alone respect the
\* session limit and the resident budget (MemoryStore::insert).
THEOREM MemoryBoundedTheorem == Spec => []MemoryBounded
<1>1. MemoryInv => MemoryBounded BY DEF MemoryInv
<1> QED BY <1>1, Invariance, PTL

\* The memory of the collector is sound in every reachable state, whatever the sizes,
\* the budgets, and the numbers of producers, callers and subscribers: the three facts
\* above together (memory.rs, enforce_memory_budget).
THEOREM MemorySoundTheorem == Spec => []MemorySound
<1>1. MemoryAccounting /\ MemoryBounded /\ ResidentBudgetHeld => MemorySound
  BY DEF MemorySound
<1> QED
  BY <1>1, ResidentBudgetTheorem, MemoryAccountingTheorem, MemoryBoundedTheorem, PTL

-----------------------------------------------------------------------------
(***************************************************************************)
(* The protocol between the connection threads and the collector.  What    *)
(* the events of a session may be is a matter of the order in which one    *)
(* thread submits them and of the queue, first in, first out, in between.  *)
(* A command is about the session of its first event; it starts, needs,    *)
(* ends or closes that session.                                            *)
(***************************************************************************)
About(cmd, i)  == cmd.kind \in {"Event", "Events"} /\ cmd.events[1].id = i
Starts(cmd, i) == About(cmd, i) /\ cmd.events[1].type = "Start"
Needs(cmd, i)  == About(cmd, i) /\ cmd.events[1].type = "Update"
Ends(cmd, i)   == About(cmd, i) /\ cmd.kind = "Events"
Closes(cmd, i) == Ends(cmd, i) \/ (About(cmd, i) /\ cmd.events[1].type = "Abort")

\* What the worker has still to do of the command it applies.
WorkerEnds(i)   == wpc = "apply" /\ Ends(wcmd, i)
WorkerCloses(i) == wpc = "apply" /\ Closes(wcmd, i)
WorkerStarts(i) == wpc = "apply" /\ wi = 1 /\ Starts(wcmd, i)

\* A thread concerns a session: its open one, or the one it submits for.
Concerns(p, i) == pid[p] = i \/ About(pcmd[p], i)

\* A session has one thread, a thread that closes a session does not keep it
\* once the submission is accepted, a new session is unknown to the collector.
Threads ==
    /\ \A p \in Producers, q \in Producers, i \in Ids :
          Concerns(p, i) /\ Concerns(q, i) => p = q
    /\ \A p \in Producers, i \in Ids : Concerns(p, i) => i < nextId
    /\ \A p \in Producers, i \in Ids :
          Closes(pcmd[p], i) /\ pid[p] = i => pclosing[p] = TRUE
    /\ \A p \in Producers, i \in Ids : Starts(pcmd[p], i) =>
          ~WorkerCloses(i) /\ \A k \in 1..Len(queue) : ~Closes(queue[k], i)

\* Committed, or about to be.
Done(i) == \/ \E k \in 1..Len(log) : log[k] = i
           \/ wpc \in {"insert", "publish"} /\ wsess.id = i

\* Identifiers the queue, the worker and the log know have been handed out.
HandedOut ==
    /\ \A k \in 1..Len(queue), i \in Ids : About(queue[k], i) => i < nextId
    /\ \A i \in Ids : wpc = "apply" /\ About(wcmd, i) => i < nextId
    /\ \A i \in Ids : Done(i) => i < nextId

\* Nothing behind place k of the queue starts or ends session i, and no thread will.
Touches(cmd, i) == Starts(cmd, i) \/ Ends(cmd, i)
MayTouch(p, i)  == Touches(pcmd[p], i) \/ (pid[p] = i /\ pclosing[p] = FALSE)
Over(i, k) ==
    /\ \A l \in 1..Len(queue) : l > k => ~Touches(queue[l], i)
    /\ \A p \in Producers : ~MayTouch(p, i)

\* After the end of a session there is neither a second end nor a start.
EndIsLast ==
    /\ \A i \in Ids : Done(i) =>
          /\ i \notin DOMAIN pending /\ Over(i, 0)
          /\ ~WorkerEnds(i) /\ ~WorkerStarts(i)
    /\ \A i \in Ids : WorkerEnds(i) => Over(i, 0)
    /\ \A k \in 1..Len(queue), i \in Ids : Ends(queue[k], i) => Over(i, k)

\* No session is in the log twice, or is committed that is in the log already.
LogOnce ==
    /\ \A k, l \in 1..Len(log) : log[k] = log[l] => k = l
    /\ wpc \in {"insert", "publish"} => \A k \in 1..Len(log) : log[k] # wsess.id

\* A thread that is not inside submit has no command in hand.
IdleHands == \A p \in Producers : ppc[p] = "idle" => pcmd[p].kind = "None"

Protocol == IdleHands /\ Threads /\ HandedOut /\ EndIsLast /\ LogOnce

\* Nothing was lost for a counted reason.
Clean == queueDropped = 0 /\ incomplete = 0 /\ wipedPending = 0

\* A command at place k of the queue finds session i open.
Opened(i, k) ==
    /\ ~WorkerCloses(i)
    /\ \A l \in 1..Len(queue) : l < k => ~Closes(queue[l], i)
    /\ \/ i \in DOMAIN pending \/ WorkerStarts(i)
       \/ \E l \in 1..Len(queue) : l < k /\ Starts(queue[l], i)

\* A thread submits, or may go on to submit, an event that needs session i.
Ready(p, i) == Needs(pcmd[p], i) \/ (pid[p] = i /\ ~Starts(pcmd[p], i))

\* As long as nothing was lost every event finds its session.
EventsFind ==
    /\ orphans = 0
    /\ wpc = "apply" /\ Current.type # "Abort" =>
          Current.id \in DOMAIN pending \/ WorkerStarts(Current.id)
    /\ \A k \in 1..Len(queue), i \in Ids : Needs(queue[k], i) => Opened(i, k)
    /\ \A p \in Producers, i \in Ids : Ready(p, i) => Opened(i, Len(queue) + 1)

AccountInv == SessionsConserved /\ Protocol /\ (Clean => EventsFind)

-----------------------------------------------------------------------------
(***************************************************************************)
(* No session is lost without a trace: the counting argument.              *)
(***************************************************************************)
\* Adding a session to the pending ones, or taking one out, changes their
\* number by one when the session was absent, or present.
LEMMA PendingCount ==
    ASSUME PendingTypeOK
    PROVE  /\ Cardinality(DOMAIN pending) \in Nat
           /\ \A i \in Ids, b \in Nat :
                 Cardinality(DOMAIN With(i, b)) =
                    Cardinality(DOMAIN pending) + (IF i \in DOMAIN pending THEN 0 ELSE 1)
           /\ \A i \in DOMAIN pending :
                 Cardinality(DOMAIN Without(i)) = Cardinality(DOMAIN pending) - 1
           /\ \A i \in Ids : i \notin DOMAIN pending => DOMAIN Without(i) = DOMAIN pending
<1>1. IsFiniteSet(DOMAIN pending) BY PendingFinite
<1>2. Cardinality(DOMAIN pending) \in Nat BY <1>1, FS_CardinalityType
<1>3. ASSUME NEW i \in Ids, NEW b \in Nat
      PROVE  Cardinality(DOMAIN With(i, b)) =
                Cardinality(DOMAIN pending) + (IF i \in DOMAIN pending THEN 0 ELSE 1)
  <2>1. DOMAIN With(i, b) = DOMAIN pending \cup {i} BY DEF With
  <2>2. /\ IsFiniteSet(DOMAIN pending \cup {i})
        /\ i \notin DOMAIN pending =>
              Cardinality(DOMAIN pending \cup {i}) = Cardinality(DOMAIN pending) + 1
    BY <1>1, FS_AddElement
  <2>3. i \in DOMAIN pending => DOMAIN pending \cup {i} = DOMAIN pending
    OBVIOUS
  <2>4. CASE i \in DOMAIN pending
    <3>1. Cardinality(DOMAIN With(i, b)) = Cardinality(DOMAIN pending)
      BY <2>1, <2>3, <2>4
    <3> QED BY <1>2, <2>4, <3>1
  <2>5. CASE i \notin DOMAIN pending
    <3>1. Cardinality(DOMAIN With(i, b)) = Cardinality(DOMAIN pending) + 1
      BY <2>1, <2>2, <2>5
    <3> QED BY <2>5, <3>1
  <2> QED BY <2>4, <2>5
<1>4. ASSUME NEW i \in DOMAIN pending
      PROVE  Cardinality(DOMAIN Without(i)) = Cardinality(DOMAIN pending) - 1
  <2>1. DOMAIN Without(i) = DOMAIN pending \ {i} BY DEF Without
  <2> QED BY <1>1, <1>2, <2>1, FS_RemoveElement
<1>5. \A i \in Ids : i \notin DOMAIN pending => DOMAIN Without(i) = DOMAIN pending
  BY DEF Without
<1> QED BY <1>2, <1>3, <1>4, <1>5

\* The two equations, by what the worker does.
Pended == Cardinality(DOMAIN pending) + incomplete + wipedPending + Len(log)
Stored == Len(memory) + evicted + wipedResident
Counted ==
    /\ wpc \notin {"insert", "publish"} => started = Pended /\ Len(log) = Stored
    /\ wpc = "insert" => started = Pended + 1 /\ Len(log) = Stored
    /\ wpc = "publish" => started = Pended + 1 /\ Len(log) + 1 = Stored

\* It says the same as the property.
LEMMA Counts ==
    ASSUME TInv
    PROVE  SessionsConserved <=> Counted
<1>1. /\ Cardinality(DOMAIN pending) \in Nat /\ started \in Nat /\ incomplete \in Nat
      /\ wipedPending \in Nat /\ wipedResident \in Nat /\ evicted \in Nat
      /\ Len(log) \in Nat /\ Len(memory) \in Nat
  BY PendingCount DEF TInv, TypeOK, PendingTypeOK, MemoryTypeOK, SubscriberTypeOK
<1>2. CASE wpc \notin {"insert", "publish"}
  BY <1>1, <1>2 DEF SessionsConserved, Counted, Pended, Stored
<1>3. CASE wpc = "insert"
  BY <1>1, <1>3 DEF SessionsConserved, Counted, Pended, Stored
<1>4. CASE wpc = "publish"
  BY <1>1, <1>4 DEF SessionsConserved, Counted, Pended, Stored
<1> QED BY <1>2, <1>3, <1>4

\* The two equations of the counting depend on these variables only.
LEMMA CountedFrame ==
    ASSUME Counted, DOMAIN pending' = DOMAIN pending, Len(log') = Len(log),
           Len(memory') = Len(memory),
           UNCHANGED <<started, incomplete, wipedPending, evicted, wipedResident>>,
           wpc' = wpc \/ {wpc, wpc'} \cap {"insert", "publish"} = {}
    PROVE  Counted'
<1>1. /\ wpc' \in {"insert", "publish"} <=> wpc \in {"insert", "publish"}
      /\ wpc' = "publish" <=> wpc = "publish"
  OBVIOUS
<1> QED BY <1>1 DEF Counted, Pended, Stored

\* Every step keeps the two equations.
LEMMA CountedStep == TInv /\ Counted /\ [Next]_vars => Counted'
<1> SUFFICES ASSUME TInv, Counted, [Next]_vars PROVE Counted' OBVIOUS
<1> USE DEF TInv, TypeOK
<1>0. /\ Cardinality(DOMAIN pending) \in Nat /\ started \in Nat /\ incomplete \in Nat
      /\ wipedPending \in Nat /\ wipedResident \in Nat /\ evicted \in Nat
      /\ Len(log) \in Nat /\ Len(memory) \in Nat /\ PendingTypeOK
  BY PendingCount DEF PendingTypeOK, MemoryTypeOK, SubscriberTypeOK
<1>12. Pended \in Nat /\ Stored \in Nat BY <1>0 DEF Pended, Stored
<1>1. CASE \E p \in Producers : ProducerStep(p)
  BY <1>1, CountedFrame DEF ProducerStep, Record, Start, Emit, Finish, Hide, Forget, Abort,
     CallFrame, SubmitFrame, Reserve, ReserveRejected, TrySend, TrySendFull, ReleaseRejected,
     memoryVars, pendingVars, workerVars, followVars, wipeVars
<1>2. CASE \/ \E c \in Callers : CallerStep(c)
           \/ \E s \in Subscribers : SubscriberStep(s)
           \/ OwnerStep
  <2>1. QueryFrame
    BY <1>2 DEF CallerStep, CallQuery, SendQuery, SubscriberStep, CallFollow, SendFollow,
       FollowRecv, FollowDrop, OwnerStep, DropHandle, SendShutdown
  <2> QED BY <2>1, CountedFrame DEF QueryFrame, memoryVars, pendingVars, workerVars,
          followVars, wipeVars
<1>3. CASE RecvClear
  <2>1. /\ wpc = "recv" /\ UNCHANGED <<wpc, incomplete, started, evicted, log>>
        /\ wipedPending' = wipedPending + Cardinality(DOMAIN pending)
        /\ wipedResident' = wipedResident + Len(memory)
        /\ pending' = NoPending /\ memory' = <<>>
    BY <1>3 DEF RecvClear, RecvQuery, followVars
  <2>2. Cardinality(DOMAIN pending') = 0
    BY <2>1, FS_EmptySet DEF NoPending
  <2>3. Len(memory') = 0 BY <2>1
  <2>4. Pended' = Pended BY <1>0, <2>1, <2>2 DEF Pended
  <2>5. Stored' = Stored BY <1>0, <2>1, <2>3 DEF Stored
  <2> QED BY <2>1, <2>4, <2>5 DEF Counted
<1>4. CASE RecvStep /\ ~RecvClear
  <2>1. /\ wpc = "recv" /\ wpc' \in {"recv", "apply", "stopped"}
        /\ UNCHANGED <<pendingVars, memoryVars, wipeVars, log>>
    BY <1>4 DEF RecvStep, RecvEvents, RecvRead, RecvStats, RecvFollow, RecvShutdown, RecvQuery,
       followVars
  <2> QED BY <2>1, CountedFrame DEF pendingVars, memoryVars, wipeVars
<1>5. CASE PendingStep
  <2>1. /\ wpc = "apply" /\ UNCHANGED <<memory, evicted, wipedPending, wipedResident, log>>
    BY <1>5 DEF PendingStep, ExpireStale, ApplyStart, ApplyUpdate, ApplyEnd, ApplyOrphan,
       ApplyAbort, Applying, ApplyFrame, memoryVars, wipeVars, followVars
  <2>2. Current.id \in Ids /\ Current.bytes \in Nat
    BY <2>1, CurrentType
  <2>8. Stored' = Stored /\ Len(log') = Len(log) BY <2>1 DEF Stored
  <2>3. CASE ExpireStale
    <3>1. PICK id \in DOMAIN pending : pending' = Without(id)
      BY <2>3 DEF ExpireStale, Stale
    <3>2. Cardinality(DOMAIN pending') = Cardinality(DOMAIN pending) - 1
      BY <1>0, <3>1, PendingCount
    <3>3. incomplete' = incomplete + 1 /\ UNCHANGED <<wpc, started>>
      BY <2>3 DEF ExpireStale
    <3>4. Pended' = Pended BY <1>0, <2>1, <3>2, <3>3 DEF Pended
    <3> QED BY <2>1, <2>8, <3>3, <3>4 DEF Counted
  <2>4. CASE ApplyEnd
    <3>1. /\ Cardinality(DOMAIN pending') = Cardinality(DOMAIN pending) - 1
          /\ wpc' = "insert" /\ UNCHANGED <<incomplete, started>>
      BY <1>0, <2>4, PendingCount DEF ApplyEnd
    <3>2. Pended = Pended' + 1 BY <1>0, <2>1, <3>1 DEF Pended
    <3> QED BY <2>1, <2>8, <3>1, <3>2 DEF Counted
  <2>5. CASE ApplyStart
    <3>1. /\ Cardinality(DOMAIN pending') =
                Cardinality(DOMAIN pending) + (IF Current.id \in DOMAIN pending THEN 0 ELSE 1)
          /\ incomplete' = incomplete + (IF Current.id \in DOMAIN pending THEN 1 ELSE 0)
          /\ started' = started + 1 /\ wpc' \in {"apply", "enforce"}
      BY <1>0, <2>2, <2>5, PendingCount DEF ApplyStart, NextEvent
    <3>2. Pended' = Pended + 1
      <4>1. CASE Current.id \in DOMAIN pending
        <5>1. /\ Cardinality(DOMAIN pending') = Cardinality(DOMAIN pending)
              /\ incomplete' = incomplete + 1
          BY <1>0, <3>1, <4>1
        <5> QED BY <1>0, <2>1, <5>1 DEF Pended
      <4>2. CASE Current.id \notin DOMAIN pending
        <5>1. /\ Cardinality(DOMAIN pending') = Cardinality(DOMAIN pending) + 1
              /\ incomplete' = incomplete
          BY <1>0, <3>1, <4>2
        <5> QED BY <1>0, <2>1, <5>1 DEF Pended
      <4> QED BY <4>1, <4>2
    <3> QED BY <2>1, <2>8, <3>1, <3>2 DEF Counted
  <2>6. CASE ApplyAbort
    <3>1. /\ pending' = Without(Current.id) /\ wpc' \in {"apply", "enforce"}
          /\ incomplete' = incomplete + (IF Current.id \in DOMAIN pending THEN 1 ELSE 0)
          /\ UNCHANGED started
      BY <2>6 DEF ApplyAbort, NextEvent
    <3>2. CASE Current.id \in DOMAIN pending
      <4>1. /\ Cardinality(DOMAIN pending') = Cardinality(DOMAIN pending) - 1
            /\ incomplete' = incomplete + 1
        BY <1>0, <3>1, <3>2, PendingCount
      <4>2. wpc' \in {"apply", "enforce"} /\ UNCHANGED started
        BY <3>1
      <4>3. Pended' = Pended BY <1>0, <2>1, <4>1 DEF Pended
      <4> QED BY <2>1, <2>8, <4>2, <4>3 DEF Counted
    <3>3. CASE Current.id \notin DOMAIN pending
      <4>1. DOMAIN pending' = DOMAIN pending /\ incomplete' = incomplete
        BY <1>0, <2>2, <3>1, <3>3, PendingCount
      <4> QED BY <2>1, <3>1, <4>1, CountedFrame
    <3> QED BY <3>2, <3>3
  <2>7. CASE ApplyUpdate \/ ApplyOrphan
    <3>1. DOMAIN pending' = DOMAIN pending
      BY <2>7 DEF ApplyUpdate, ApplyOrphan, With
    <3>2. wpc' \in {"apply", "enforce"} /\ UNCHANGED <<started, incomplete>>
      BY <2>7 DEF ApplyUpdate, ApplyOrphan, NextEvent
    <3> QED BY <2>1, <3>1, <3>2, CountedFrame
  <2> QED BY <1>5, <2>3, <2>4, <2>5, <2>6, <2>7 DEF PendingStep
<1>6. CASE CommitStep
  <2>1. /\ DOMAIN pending' = DOMAIN pending
        /\ UNCHANGED <<started, incomplete, wipedPending, wipedResident>>
    BY <1>6 DEF CommitStep, InsertTooLarge, InsertEvict, InsertPush, Publish, CommitFrame,
       pendingVars, wipeVars
  <2>6. Len(log') = Len(log) => Pended' = Pended
    BY <2>1 DEF Pended
  <2>2. CASE InsertTooLarge
    <3>1. /\ wpc = "insert" /\ wpc' = "publish" /\ evicted' = evicted + 1
          /\ UNCHANGED <<log, memory>>
      BY <2>2 DEF InsertTooLarge, followVars
    <3>2. Stored' = Stored + 1 BY <1>0, <2>1, <3>1 DEF Stored
    <3> QED BY <2>1, <2>6, <3>1, <3>2 DEF Counted
  <2>3. CASE InsertEvict
    <3>1. /\ wpc = "insert" /\ wpc' = "insert" /\ evicted' = evicted + 1
          /\ UNCHANGED log
      BY <2>3 DEF InsertEvict, EvictOldest, followVars
    <3>2. Len(memory') = Len(memory) - 1
      BY <2>3 DEF InsertEvict, NeedsRoom, EvictOldest, MemoryTypeOK
    <3>3. Stored' = Stored BY <1>0, <2>1, <3>1, <3>2 DEF Stored
    <3> QED BY <2>1, <2>6, <3>1, <3>3 DEF Counted
  <2>4. CASE InsertPush
    <3>1. /\ wpc = "insert" /\ wpc' = "publish" /\ UNCHANGED <<log, evicted>>
      BY <2>4 DEF InsertPush, followVars
    <3>2. Len(memory') = Len(memory) + 1
      BY <2>4 DEF InsertPush, MemoryTypeOK, CommandsWellFormed
    <3>3. Stored' = Stored + 1 BY <1>0, <2>1, <3>1, <3>2 DEF Stored
    <3> QED BY <2>1, <2>6, <3>1, <3>3 DEF Counted
  <2>5. CASE Publish
    <3>1. /\ wpc = "publish" /\ wpc' \in {"apply", "enforce"}
          /\ UNCHANGED <<memory, evicted>>
      BY <2>5 DEF Publish, NextEvent, memoryVars
    <3>2. Len(log') = Len(log) + 1
      BY <2>5 DEF Publish, SubscriberTypeOK
    <3>3. Pended' = Pended + 1 BY <1>0, <2>1, <3>2 DEF Pended
    <3>4. Stored' = Stored BY <2>1, <3>1 DEF Stored
    <3> QED BY <1>0, <1>12, <2>1, <3>1, <3>2, <3>3, <3>4 DEF Counted
  <2> QED BY <1>6, <2>2, <2>3, <2>4, <2>5 DEF CommitStep
<1>7. CASE EnforceBudget
  <2>1. /\ wpc = "enforce" /\ wpc' = "evict"
        /\ UNCHANGED <<memory, log, evicted, started, wipedPending, wipedResident>>
    BY <1>7 DEF EnforceBudget, BudgetFrame, memoryVars, followVars, wipeVars
  <2>2. CASE UNCHANGED <<pending, incomplete>>
    BY <2>1, <2>2, CountedFrame
  <2>3. CASE Current.id \in DOMAIN pending /\ pending' = Without(Current.id)
             /\ incomplete' = incomplete + 1
    <3>1. Cardinality(DOMAIN pending') = Cardinality(DOMAIN pending) - 1
      BY <1>0, <2>3, PendingCount
    <3>2. Pended' = Pended BY <1>0, <2>1, <2>3, <3>1 DEF Pended
    <3>3. Stored' = Stored BY <2>1 DEF Stored
    <3> QED BY <2>1, <3>2, <3>3 DEF Counted
  <2> QED BY <1>7, <2>2, <2>3 DEF EnforceBudget
<1>8. CASE EvictToBudget
  <2>1. /\ wpc = "evict" /\ wpc' = "evict" /\ evicted' = evicted + 1
        /\ memory # <<>> /\ memory' = Tail(memory)
        /\ UNCHANGED <<log, started, incomplete, pending, wipedPending, wipedResident>>
    BY <1>8 DEF EvictToBudget, MustEvict, EvictOldest, BudgetFrame, pendingVars, followVars,
       wipeVars
  <2>2. Len(memory') = Len(memory) - 1
    BY <2>1 DEF MemoryTypeOK
  <2>3. Pended' = Pended BY <2>1 DEF Pended
  <2>4. Stored' = Stored BY <1>0, <2>1, <2>2 DEF Stored
  <2> QED BY <2>1, <2>3, <2>4 DEF Counted
<1>9. CASE ReleaseQueueBytes
  BY <1>9, CountedFrame DEF ReleaseQueueBytes, BudgetFrame, pendingVars, memoryVars,
     followVars, wipeVars
<1>10. CASE Tick
  BY <1>10, CountedFrame DEF Tick, workerVars, memoryVars, followVars, wipeVars
<1>11. CASE Terminated \/ UNCHANGED vars
  BY <1>11, CountedFrame DEF Terminated, vars, memoryVars, pendingVars, workerVars,
     followVars, wipeVars
<1> QED BY <1>1, <1>2, <1>3, <1>4, <1>5, <1>6, <1>7, <1>8, <1>9, <1>10, <1>11
       DEF Next, WorkerStep, BudgetStep

\* In the terms of the property itself.
LEMMA ConservedStep == TInv /\ SessionsConserved /\ [Next]_vars => SessionsConserved'
<1> SUFFICES ASSUME TInv, SessionsConserved, [Next]_vars PROVE SessionsConserved' OBVIOUS
<1>1. TInv' BY NextType
<1>2. Counted' BY Counts, CountedStep
<1>3. (TInv => (SessionsConserved <=> Counted))' BY Counts, PTL
<1> QED BY <1>1, <1>2, <1>3

-----------------------------------------------------------------------------
(***************************************************************************)
(* The protocol is kept: one lemma per way in which a step can touch it.   *)
(***************************************************************************)
\* What the commands of store.rs do to a session.
LEMMA SingleAbout ==
    ASSUME NEW t, NEW id, NEW b, NEW c, NEW i
    PROVE  /\ About(SingleEvent(t, id, b, c), i) <=> id = i
           /\ Starts(SingleEvent(t, id, b, c), i) <=> id = i /\ t = "Start"
           /\ Needs(SingleEvent(t, id, b, c), i) <=> id = i /\ t = "Update"
           /\ ~Ends(SingleEvent(t, id, b, c), i)
           /\ Closes(SingleEvent(t, id, b, c), i) <=> id = i /\ t = "Abort"
BY DEF SingleEvent, About, Starts, Needs, Ends, Closes

\* The batch of record both starts and ends its session, the one of finish ends it.
LEMMA BatchAbout ==
    ASSUME NEW id, NEW b, NEW i
    PROVE  /\ About(Batch(SessionEvents(id, b), b), i) <=> id = i
           /\ Starts(Batch(SessionEvents(id, b), b), i) <=> id = i
           /\ ~Needs(Batch(SessionEvents(id, b), b), i)
           /\ Ends(Batch(SessionEvents(id, b), b), i) <=> id = i
           /\ About(Batch(Tail(SessionEvents(id, b)), b), i) <=> id = i
           /\ ~Starts(Batch(Tail(SessionEvents(id, b)), b), i)
           /\ Needs(Batch(Tail(SessionEvents(id, b)), b), i) <=> id = i
           /\ Ends(Batch(Tail(SessionEvents(id, b)), b), i) <=> id = i
BY DEF Batch, SessionEvents, About, Starts, Needs, Ends

\* Queries, and no command at all, are about no session.
LEMMA PlainAbout ==
    ASSUME NEW cmd, cmd.kind \notin {"Event", "Events"}, NEW i
    PROVE  /\ ~About(cmd, i) /\ ~Starts(cmd, i) /\ ~Needs(cmd, i)
           /\ ~Ends(cmd, i) /\ ~Closes(cmd, i) /\ ~Touches(cmd, i)
BY DEF About, Starts, Needs, Ends, Closes, Touches

\* Whatever a command does, it is about the session.
LEMMA AboutIt ==
    ASSUME NEW cmd, NEW i
    PROVE  /\ Starts(cmd, i) => About(cmd, i)
           /\ Needs(cmd, i) => About(cmd, i)
           /\ Ends(cmd, i) => About(cmd, i) /\ Closes(cmd, i)
           /\ Closes(cmd, i) => About(cmd, i)
           /\ Touches(cmd, i) <=> Starts(cmd, i) \/ Ends(cmd, i)
BY DEF About, Starts, Needs, Ends, Closes, Touches

\* The threads know of no session, and may do nothing, that they did not before.
Receding ==
    \A p \in Producers, i \in Ids :
        /\ Concerns(p, i)' => Concerns(p, i)
        /\ MayTouch(p, i)' => MayTouch(p, i)
        /\ Starts(pcmd'[p], i) => Starts(pcmd[p], i)
        /\ Closes(pcmd'[p], i) /\ pid'[p] = i => pclosing'[p] = TRUE

\* The collector did not move.
CollectorStill ==
    UNCHANGED <<wpc, wcmd, wi, wsess, pending, log>>

\* Then nothing of what the protocol says of the collector changes.
LEMMA StillFacts ==
    ASSUME CollectorStill, NEW i
    PROVE  /\ WorkerEnds(i)' <=> WorkerEnds(i)
           /\ WorkerCloses(i)' <=> WorkerCloses(i)
           /\ WorkerStarts(i)' <=> WorkerStarts(i)
           /\ Done(i)' <=> Done(i)
           /\ (wpc = "apply" /\ About(wcmd, i))' <=> wpc = "apply" /\ About(wcmd, i)
           /\ i \in DOMAIN pending' <=> i \in DOMAIN pending
           /\ LogOnce' <=> LogOnce
BY DEF CollectorStill, WorkerEnds, WorkerCloses, WorkerStarts, Done, LogOnce

\* A step of a thread that neither opens a session nor reaches the queue.
LEMMA QuietProtocol ==
    ASSUME Protocol, Receding, CollectorStill, IdleHands', UNCHANGED <<nextId, queue>>
    PROVE  Protocol'
<1>1. ASSUME NEW i \in Ids, NEW k, Over(i, k) PROVE Over(i, k)'
  BY <1>1 DEF Over, Receding
<1>2. Threads'
  <2>1. /\ \A p \in Producers, q \in Producers, i \in Ids :
              Concerns(p, i)' /\ Concerns(q, i)' => p = q
        /\ \A p \in Producers, i \in Ids : Concerns(p, i)' => i < nextId'
    BY DEF Protocol, Threads, Receding
  <2>2. \A p \in Producers, i \in Ids :
          Closes(pcmd'[p], i) /\ pid'[p] = i => pclosing'[p] = TRUE
    BY DEF Receding
  <2>3. ASSUME NEW p \in Producers, NEW i \in Ids, Starts(pcmd'[p], i)
        PROVE  ~WorkerCloses(i)' /\ \A k \in 1..Len(queue') : ~Closes(queue'[k], i)
    <3>1. Starts(pcmd[p], i) BY <2>3 DEF Receding
    <3>2. ~WorkerCloses(i) /\ \A k \in 1..Len(queue) : ~Closes(queue[k], i)
      BY <3>1 DEF Protocol, Threads
    <3> QED BY <3>2, StillFacts
  <2> QED BY <2>1, <2>2, <2>3 DEF Threads
<1>3. HandedOut'
  BY StillFacts DEF Protocol, HandedOut
<1>4. EndIsLast'
  <2>1. ASSUME NEW i \in Ids, Done(i)'
        PROVE  i \notin DOMAIN pending' /\ Over(i, 0)' /\ ~WorkerEnds(i)' /\ ~WorkerStarts(i)'
    BY <1>1, <2>1, StillFacts DEF Protocol, EndIsLast
  <2>2. ASSUME NEW i \in Ids, WorkerEnds(i)' PROVE Over(i, 0)'
    BY <1>1, <2>2, StillFacts DEF Protocol, EndIsLast
  <2>3. ASSUME NEW k \in 1..Len(queue'), NEW i \in Ids, Ends(queue'[k], i) PROVE Over(i, k)'
    BY <1>1, <2>3 DEF Protocol, EndIsLast
  <2> QED BY <2>1, <2>2, <2>3 DEF EndIsLast
<1>5. LogOnce' BY StillFacts DEF Protocol
<1> QED BY <1>2, <1>3, <1>4, <1>5 DEF Protocol

\* What a thread may put into the queue.
Sendable(c) ==
    \A i \in Ids :
        /\ About(c, i) => i < nextId
        /\ Touches(c, i) => \E p \in Producers : MayTouch(p, i)
        /\ Ends(c, i) => \A p \in Producers : ~MayTouch(p, i)'
        /\ Closes(c, i) => \A p \in Producers : ~Starts(pcmd'[p], i)

\* A command joins the queue.
LEMMA EnqueueProtocol ==
    ASSUME Protocol, QueueTypeOK, NEW c \in Command, queue' = Append(queue, c),
           Sendable(c), Receding, CollectorStill, IdleHands', UNCHANGED nextId
    PROVE  Protocol'
<1> DEFINE n == Len(queue)
<1>0. /\ n \in Nat /\ Len(queue') = n + 1 /\ queue'[n + 1] = c
      /\ \A k \in 1..n : queue'[k] = queue[k]
      /\ \A k \in 1..Len(queue') : k \in 1..n \/ k = n + 1
  BY DEF QueueTypeOK
<1> HIDE DEF n
<1>1. ASSUME NEW i \in Ids, NEW k \in 0..n, Over(i, k) PROVE Over(i, k)'
  <2>1. \A p \in Producers : ~MayTouch(p, i)' /\ ~MayTouch(p, i)
    BY <1>1 DEF Over, Receding
  <2>2. ~Touches(c, i)
    BY <2>1 DEF Sendable
  <2>3. \A l \in 1..Len(queue') : l > k => ~Touches(queue'[l], i)
    BY <1>0, <1>1, <2>2 DEF Over, n
  <2> QED BY <2>1, <2>3 DEF Over
<1>2. Threads'
  <2>1. /\ \A p \in Producers, q \in Producers, i \in Ids :
              Concerns(p, i)' /\ Concerns(q, i)' => p = q
        /\ \A p \in Producers, i \in Ids : Concerns(p, i)' => i < nextId'
    BY DEF Protocol, Threads, Receding
  <2>2. \A p \in Producers, i \in Ids :
          Closes(pcmd'[p], i) /\ pid'[p] = i => pclosing'[p] = TRUE
    BY DEF Receding
  <2>3. ASSUME NEW p \in Producers, NEW i \in Ids, Starts(pcmd'[p], i)
        PROVE  ~WorkerCloses(i)' /\ \A k \in 1..Len(queue') : ~Closes(queue'[k], i)
    <3>1. Starts(pcmd[p], i) BY <2>3 DEF Receding
    <3>2. ~WorkerCloses(i) /\ \A k \in 1..n : ~Closes(queue[k], i)
      BY <3>1 DEF Protocol, Threads, n
    <3>3. ~Closes(c, i)
      BY <2>3 DEF Sendable
    <3> QED BY <1>0, <3>2, <3>3, StillFacts
  <2> QED BY <2>1, <2>2, <2>3 DEF Threads
<1>3. HandedOut'
  <2>1. ASSUME NEW k \in 1..Len(queue'), NEW i \in Ids, About(queue'[k], i)
        PROVE  i < nextId'
    <3>1. CASE k \in 1..n BY <1>0, <2>1, <3>1 DEF Protocol, HandedOut, n
    <3>2. CASE k = n + 1 BY <1>0, <2>1, <3>2 DEF Sendable
    <3> QED BY <1>0, <3>1, <3>2
  <2> QED BY <2>1, StillFacts DEF Protocol, HandedOut
<1>4. EndIsLast'
  <2>1. ASSUME NEW i \in Ids, Done(i)'
        PROVE  i \notin DOMAIN pending' /\ Over(i, 0)' /\ ~WorkerEnds(i)' /\ ~WorkerStarts(i)'
    BY <1>0, <1>1, <2>1, StillFacts DEF Protocol, EndIsLast
  <2>2. ASSUME NEW i \in Ids, WorkerEnds(i)' PROVE Over(i, 0)'
    BY <1>0, <1>1, <2>2, StillFacts DEF Protocol, EndIsLast
  <2>3. ASSUME NEW k \in 1..Len(queue'), NEW i \in Ids, Ends(queue'[k], i) PROVE Over(i, k)'
    <3>1. CASE k \in 1..n
      <4>1. Over(i, k) BY <1>0, <2>3, <3>1 DEF Protocol, EndIsLast, n
      <4> QED BY <1>0, <1>1, <3>1, <4>1
    <3>2. CASE k = n + 1
      <4>1. \A p \in Producers : ~MayTouch(p, i)'
        BY <1>0, <2>3, <3>2 DEF Sendable
      <4>2. \A l \in 1..Len(queue') : ~(l > k)
        BY <1>0, <3>2
      <4> QED BY <4>1, <4>2 DEF Over
    <3> QED BY <1>0, <3>1, <3>2
  <2> QED BY <2>1, <2>2, <2>3 DEF EndIsLast
<1>5. LogOnce' BY StillFacts DEF Protocol
<1> QED BY <1>2, <1>3, <1>4, <1>5 DEF Protocol

\* Thread p opens the next session, or submits a finished one under its identifier.
Opening(p) ==
    /\ \A i \in Ids : Concerns(p, i)' => i = nextId
    /\ \A i \in Ids : Closes(pcmd'[p], i) => pid'[p] # i
    /\ \A q \in Producers : q # p =>
          pcmd'[q] = pcmd[q] /\ pid'[q] = pid[q] /\ pclosing'[q] = pclosing[q]

\* Nobody else knows the new identifier.
LEMMA OpeningProtocol ==
    ASSUME Protocol, NEW p \in Producers, Opening(p), nextId \in Ids, nextId' = nextId + 1,
           CollectorStill, IdleHands', UNCHANGED queue
    PROVE  Protocol'
<1>0. nextId \in Nat /\ \A i \in Ids : i < nextId => i < nextId' /\ i # nextId
  BY DEF Ids
<1>1. ASSUME NEW q \in Producers, q # p, NEW i \in Ids
      PROVE  /\ Concerns(q, i)' <=> Concerns(q, i)
             /\ MayTouch(q, i)' <=> MayTouch(q, i)
             /\ pcmd'[q] = pcmd[q] /\ pid'[q] = pid[q] /\ pclosing'[q] = pclosing[q]
  BY <1>1 DEF Opening, Concerns, MayTouch
<1>2. ASSUME NEW i \in Ids, i < nextId
      PROVE  ~Concerns(p, i)' /\ ~MayTouch(p, i)' /\ ~Starts(pcmd'[p], i)
  <2>1. ~Concerns(p, i)' BY <1>0, <1>2 DEF Opening
  <2> QED BY <2>1, AboutIt DEF Concerns, MayTouch
<1>3. ASSUME NEW i \in Ids, NEW k, i < nextId, Over(i, k) PROVE Over(i, k)'
  <2>1. \A q \in Producers : ~MayTouch(q, i)'
    BY <1>1, <1>2, <1>3 DEF Over
  <2> QED BY <1>3, <2>1 DEF Over
<1>4. Threads'
  <2>1. ASSUME NEW q \in Producers, NEW i \in Ids, Concerns(q, i)' PROVE i < nextId'
    <3>1. CASE q = p BY <1>0, <2>1, <3>1 DEF Opening
    <3>2. CASE q # p BY <1>0, <1>1, <2>1, <3>2 DEF Protocol, Threads
    <3> QED BY <3>1, <3>2
  <2>2. ASSUME NEW q \in Producers, NEW r \in Producers, NEW i \in Ids,
               Concerns(q, i)', Concerns(r, i)'
        PROVE  q = r
    <3>1. CASE q # p
      <4>1. Concerns(q, i) /\ i < nextId BY <1>1, <2>2, <3>1 DEF Protocol, Threads
      <4>2. r # p BY <1>2, <2>2, <4>1
      <4> QED BY <1>1, <2>2, <4>1, <4>2 DEF Protocol, Threads
    <3>2. CASE r # p
      <4>1. Concerns(r, i) /\ i < nextId BY <1>1, <2>2, <3>2 DEF Protocol, Threads
      <4>2. q # p BY <1>2, <2>2, <4>1
      <4> QED BY <1>1, <2>2, <4>1, <4>2 DEF Protocol, Threads
    <3> QED BY <3>1, <3>2
  <2>3. \A q \in Producers, i \in Ids :
          Closes(pcmd'[q], i) /\ pid'[q] = i => pclosing'[q] = TRUE
    BY <1>1 DEF Opening, Protocol, Threads
  <2>4. ASSUME NEW q \in Producers, NEW i \in Ids, Starts(pcmd'[q], i)
        PROVE  ~WorkerCloses(i)' /\ \A k \in 1..Len(queue') : ~Closes(queue'[k], i)
    <3>1. CASE q = p
      <4>1. i = nextId
        BY <2>4, <3>1, AboutIt DEF Opening, Concerns
      <4>2. ~(i < nextId)
        BY <1>0, <4>1
      <4>3. ~WorkerCloses(i) /\ \A k \in 1..Len(queue) : ~Closes(queue[k], i)
        BY <4>2, AboutIt DEF Protocol, HandedOut, WorkerCloses
      <4> QED BY <4>3, StillFacts
    <3>2. CASE q # p
      BY <1>1, <2>4, <3>2, StillFacts DEF Protocol, Threads
    <3> QED BY <3>1, <3>2
  <2> QED BY <2>1, <2>2, <2>3, <2>4 DEF Threads
<1>5. HandedOut'
  BY <1>0, StillFacts DEF Protocol, HandedOut
<1>6. EndIsLast'
  <2>1. ASSUME NEW i \in Ids, Done(i)'
        PROVE  i \notin DOMAIN pending' /\ Over(i, 0)' /\ ~WorkerEnds(i)' /\ ~WorkerStarts(i)'
    <3>1. Done(i) /\ i < nextId BY <2>1, StillFacts DEF Protocol, HandedOut
    <3> QED BY <1>3, <3>1, StillFacts DEF Protocol, EndIsLast
  <2>2. ASSUME NEW i \in Ids, WorkerEnds(i)' PROVE Over(i, 0)'
    <3>1. WorkerEnds(i) BY <2>2, StillFacts
    <3>2. i < nextId BY <3>1, AboutIt DEF Protocol, HandedOut, WorkerEnds
    <3> QED BY <1>3, <3>1, <3>2 DEF Protocol, EndIsLast
  <2>3. ASSUME NEW k \in 1..Len(queue'), NEW i \in Ids, Ends(queue'[k], i) PROVE Over(i, k)'
    <3>1. i < nextId BY <2>3, AboutIt DEF Protocol, HandedOut
    <3> QED BY <1>3, <2>3, <3>1 DEF Protocol, EndIsLast
  <2> QED BY <2>1, <2>2, <2>3 DEF EndIsLast
<1>7. LogOnce' BY StillFacts DEF Protocol
<1> QED BY <1>4, <1>5, <1>6, <1>7 DEF Protocol

\* No thread moves.
ThreadsStill == UNCHANGED <<nextId, ppc, pid, pcmd, pclosing>>

\* Then nothing of what the protocol says of the threads changes.
LEMMA ThreadsStillFacts ==
    ASSUME ThreadsStill
    PROVE  /\ IdleHands => IdleHands'
           /\ \A p, i : /\ Concerns(p, i)' <=> Concerns(p, i)
                        /\ MayTouch(p, i)' <=> MayTouch(p, i)
BY DEF ThreadsStill, IdleHands, Concerns, MayTouch

\* The worker takes the first command off the queue: it applies it, or answers it
\* and perhaps forgets what is pending.
LEMMA DequeueProtocol ==
    ASSUME Protocol, QueueTypeOK, queue # <<>>, queue' = Tail(queue), ThreadsStill,
           wpc = "recv", wpc' \notin {"insert", "publish"},
           wpc' = "apply" => wcmd' = Head(queue),
           DOMAIN pending' \subseteq DOMAIN pending, UNCHANGED log
    PROVE  Protocol'
<1> DEFINE n == Len(queue)
<1>0. /\ n \in Nat \ {0} /\ Len(queue') = n - 1 /\ Head(queue) = queue[1]
      /\ \A k \in 1..Len(queue') : queue'[k] = queue[k + 1] /\ k + 1 \in 1..n
      /\ 1 \in 1..n
  BY DEF QueueTypeOK
<1> HIDE DEF n
<1>1. ASSUME NEW i, NEW k \in Nat, NEW m \in Nat, m <= k + 1, Over(i, m) PROVE Over(i, k)'
  <2>1. ASSUME NEW l \in 1..Len(queue'), l > k PROVE ~Touches(queue'[l], i)
    <3>1. l + 1 \in 1..Len(queue) /\ l + 1 > m /\ queue'[l] = queue[l + 1]
      BY <1>0, <1>1, <2>1 DEF n
    <3> QED BY <1>1, <3>1 DEF Over
  <2>2. \A p \in Producers : ~MayTouch(p, i)'
    BY <1>1, ThreadsStillFacts DEF Over
  <2> QED BY <2>1, <2>2 DEF Over
<1>2. ASSUME NEW i
      PROVE  /\ WorkerEnds(i)' => Ends(queue[1], i)
             /\ WorkerCloses(i)' => Closes(queue[1], i)
             /\ (wpc = "apply" /\ About(wcmd, i))' => About(queue[1], i)
             /\ WorkerStarts(i)' => Starts(queue[1], i)
             /\ Done(i)' => Done(i)
  BY <1>0 DEF WorkerEnds, WorkerCloses, WorkerStarts, Done
<1>3. Threads'
  <2>1. /\ \A p \in Producers, q \in Producers, i \in Ids :
              Concerns(p, i)' /\ Concerns(q, i)' => p = q
        /\ \A p \in Producers, i \in Ids : Concerns(p, i)' => i < nextId'
        /\ \A p \in Producers, i \in Ids :
              Closes(pcmd'[p], i) /\ pid'[p] = i => pclosing'[p] = TRUE
    BY ThreadsStillFacts DEF Protocol, Threads, ThreadsStill
  <2>2. ASSUME NEW p \in Producers, NEW i \in Ids, Starts(pcmd'[p], i)
        PROVE  ~WorkerCloses(i)' /\ \A k \in 1..Len(queue') : ~Closes(queue'[k], i)
    <3>1. \A k \in 1..n : ~Closes(queue[k], i)
      BY <2>2 DEF Protocol, Threads, ThreadsStill, n
    <3> QED BY <1>0, <1>2, <3>1
  <2> QED BY <2>1, <2>2 DEF Threads
<1>4. HandedOut'
  <2>1. \A k \in 1..Len(queue'), i \in Ids : About(queue'[k], i) => i < nextId'
    BY <1>0 DEF Protocol, HandedOut, ThreadsStill, n
  <2>2. \A i \in Ids : (wpc = "apply" /\ About(wcmd, i))' => i < nextId'
    BY <1>0, <1>2 DEF Protocol, HandedOut, ThreadsStill, n
  <2>3. \A i \in Ids : Done(i)' => i < nextId'
    BY <1>2 DEF Protocol, HandedOut, ThreadsStill
  <2> QED BY <2>1, <2>2, <2>3 DEF HandedOut
<1>5. EndIsLast'
  <2>1. ASSUME NEW i \in Ids, Done(i)'
        PROVE  i \notin DOMAIN pending' /\ Over(i, 0)' /\ ~WorkerEnds(i)' /\ ~WorkerStarts(i)'
    <3>1. Done(i) /\ i \notin DOMAIN pending /\ Over(i, 0)
      BY <1>2, <2>1 DEF Protocol, EndIsLast
    <3>2. Over(i, 0)'
      BY <1>1, <3>1
    <3>3. ~Touches(queue[1], i)
      BY <1>0, <3>1 DEF Over, n
    <3> QED BY <1>2, <3>1, <3>2, <3>3, AboutIt
  <2>2. ASSUME NEW i \in Ids, WorkerEnds(i)' PROVE Over(i, 0)'
    <3>1. Over(i, 1) BY <1>0, <1>2, <2>2 DEF Protocol, EndIsLast, n
    <3> QED BY <1>1, <3>1
  <2>3. ASSUME NEW k \in 1..Len(queue'), NEW i \in Ids, Ends(queue'[k], i) PROVE Over(i, k)'
    <3>1. Over(i, k + 1) BY <1>0, <2>3 DEF Protocol, EndIsLast, n
    <3>2. k \in Nat /\ k + 1 \in Nat BY <1>0
    <3> QED BY <1>1, <3>1, <3>2
  <2> QED BY <2>1, <2>2, <2>3 DEF EndIsLast
<1>6. LogOnce' BY DEF Protocol, LogOnce
<1>7. IdleHands' BY ThreadsStillFacts DEF Protocol
<1> QED BY <1>3, <1>4, <1>5, <1>6, <1>7 DEF Protocol

\* The worker goes on with its command: what it has still to do does not grow, and it
\* commits nothing but the session whose end it reaches.
Advancing ==
    \A i \in Ids :
        /\ WorkerEnds(i)' => WorkerEnds(i)
        /\ WorkerCloses(i)' => WorkerCloses(i)
        /\ WorkerStarts(i)' => WorkerStarts(i)
        /\ (wpc = "apply" /\ About(wcmd, i))' => wpc = "apply" /\ About(wcmd, i)
        /\ Done(i)' => \/ Done(i)
                       \/ /\ WorkerEnds(i) /\ i \notin DOMAIN pending'
                          /\ ~WorkerEnds(i)' /\ ~WorkerStarts(i)'
        /\ i \in DOMAIN pending' => i \in DOMAIN pending \/ WorkerStarts(i)

\* Such a step keeps the protocol.
LEMMA AdvanceProtocol ==
    ASSUME Protocol, Advancing, LogOnce', ThreadsStill, UNCHANGED queue
    PROVE  Protocol'
<1>1. ASSUME NEW i, NEW k, Over(i, k) PROVE Over(i, k)'
  BY <1>1, ThreadsStillFacts DEF Over
<1>2. Threads'
  <2>1. /\ \A p \in Producers, q \in Producers, i \in Ids :
              Concerns(p, i)' /\ Concerns(q, i)' => p = q
        /\ \A p \in Producers, i \in Ids : Concerns(p, i)' => i < nextId'
        /\ \A p \in Producers, i \in Ids :
              Closes(pcmd'[p], i) /\ pid'[p] = i => pclosing'[p] = TRUE
    BY ThreadsStillFacts DEF Protocol, Threads, ThreadsStill
  <2>2. ASSUME NEW p \in Producers, NEW i \in Ids, Starts(pcmd'[p], i)
        PROVE  ~WorkerCloses(i)' /\ \A k \in 1..Len(queue') : ~Closes(queue'[k], i)
    BY <2>2 DEF Protocol, Threads, ThreadsStill, Advancing
  <2> QED BY <2>1, <2>2 DEF Threads
<1>3. HandedOut'
  <2>1. ASSUME NEW i \in Ids, Done(i)' PROVE i < nextId'
    BY <2>1, AboutIt DEF Protocol, HandedOut, ThreadsStill, Advancing, WorkerEnds
  <2>2. \A i \in Ids : (wpc = "apply" /\ About(wcmd, i))' => i < nextId'
    BY DEF Protocol, HandedOut, ThreadsStill, Advancing
  <2>3. \A k \in 1..Len(queue'), i \in Ids : About(queue'[k], i) => i < nextId'
    BY DEF Protocol, HandedOut, ThreadsStill
  <2> QED BY <2>1, <2>2, <2>3 DEF HandedOut
<1>4. EndIsLast'
  <2>1. ASSUME NEW i \in Ids, Done(i)'
        PROVE  i \notin DOMAIN pending' /\ Over(i, 0)' /\ ~WorkerEnds(i)' /\ ~WorkerStarts(i)'
    <3>1. CASE Done(i)
      BY <1>1, <3>1 DEF Protocol, EndIsLast, Advancing
    <3>2. CASE WorkerEnds(i) /\ i \notin DOMAIN pending' /\ ~WorkerEnds(i)' /\ ~WorkerStarts(i)'
      BY <1>1, <3>2 DEF Protocol, EndIsLast
    <3> QED BY <2>1, <3>1, <3>2 DEF Advancing
  <2>2. ASSUME NEW i \in Ids, WorkerEnds(i)' PROVE Over(i, 0)'
    BY <1>1, <2>2 DEF Protocol, EndIsLast, Advancing
  <2>3. ASSUME NEW k \in 1..Len(queue'), NEW i \in Ids, Ends(queue'[k], i) PROVE Over(i, k)'
    BY <1>1, <2>3 DEF Protocol, EndIsLast
  <2> QED BY <2>1, <2>2, <2>3 DEF EndIsLast
<1>5. IdleHands' BY ThreadsStillFacts DEF Protocol
<1> QED BY <1>2, <1>3, <1>4, <1>5 DEF Protocol

-----------------------------------------------------------------------------
(***************************************************************************)
(* As long as nothing was lost every event finds its session: again one    *)
(* lemma per way in which a step can touch this.                           *)
(***************************************************************************)
\* A step of a thread that does not reach the queue.
LEMMA QuietFind ==
    ASSUME EventsFind, CollectorStill, UNCHANGED <<queue, orphans>>,
           \A p \in Producers, i \in Ids : Ready(p, i)' => Ready(p, i)
    PROVE  EventsFind'
<1>1. ASSUME NEW i, NEW k PROVE Opened(i, k)' <=> Opened(i, k)
  BY StillFacts DEF Opened
<1>2. Current' = Current /\ wpc' = wpc BY DEF Current, CollectorStill
<1>3. (wpc = "apply" /\ Current.type # "Abort")' =>
         (Current.id \in DOMAIN pending \/ WorkerStarts(Current.id))'
  BY <1>2, StillFacts DEF EventsFind, WorkerStarts, CollectorStill
<1> QED BY <1>1, <1>3 DEF EventsFind

\* What may be put into the queue without an event missing its session.
Timely(c) ==
    \A i \in Ids :
        /\ Needs(c, i) => \E p \in Producers : Ready(p, i)
        /\ Starts(c, i) => \E p \in Producers : Starts(pcmd[p], i)
        /\ \A p \in Producers : Ready(p, i)' =>
              ~Closes(c, i) /\ (Ready(p, i) \/ Starts(c, i))

\* Such a command joins the queue.
LEMMA EnqueueFind ==
    ASSUME EventsFind, Threads, QueueTypeOK, NEW c \in Command, queue' = Append(queue, c),
           Timely(c), CollectorStill, UNCHANGED orphans
    PROVE  EventsFind'
<1> DEFINE n == Len(queue)
<1>0. /\ n \in Nat /\ Len(queue') = n + 1 /\ queue'[n + 1] = c
      /\ \A k \in 1..n : queue'[k] = queue[k]
      /\ \A k \in 1..Len(queue') : k \in 1..n \/ k = n + 1
      /\ n + 1 \in 1..Len(queue') /\ \A k \in 1..n : k \in 1..Len(queue')
  BY DEF QueueTypeOK
<1> HIDE DEF n
<1>1. ASSUME NEW i, NEW k \in 1..(n + 1), Opened(i, k) PROVE Opened(i, k)'
  <2>1. \A l \in 1..Len(queue') : l < k => l \in 1..n
    BY <1>0
  <2>2. \A l \in 1..Len(queue') : l < k => ~Closes(queue'[l], i)
    BY <1>0, <1>1, <2>1 DEF Opened, n
  <2>3. \/ i \in DOMAIN pending' \/ WorkerStarts(i)'
        \/ \E l \in 1..Len(queue') : l < k /\ Starts(queue'[l], i)
    BY <1>0, <1>1, StillFacts DEF Opened, n
  <2> QED BY <1>1, <2>2, <2>3, StillFacts DEF Opened
<1>2. ASSUME NEW k \in 1..Len(queue'), NEW i \in Ids, Needs(queue'[k], i)
      PROVE  Opened(i, k)'
  <2>1. CASE k \in 1..n
    <3>1. Opened(i, k) BY <1>0, <1>2, <2>1 DEF EventsFind, n
    <3>2. k \in 1..(n + 1) BY <1>0, <2>1
    <3> QED BY <1>1, <3>1, <3>2
  <2>2. CASE k = n + 1
    <3>1. Opened(i, n + 1) BY <1>0, <1>2, <2>2 DEF Timely, EventsFind, n
    <3>2. k \in 1..(n + 1) BY <1>0, <2>2
    <3> QED BY <1>1, <2>2, <3>1, <3>2
  <2> QED BY <1>0, <2>1, <2>2
<1>3. ASSUME NEW p \in Producers, NEW i \in Ids, Ready(p, i)'
      PROVE  Opened(i, Len(queue) + 1)'
  <2>0. /\ ~Closes(c, i) /\ Len(queue') + 1 = n + 2
        /\ \A l \in 1..Len(queue') : l < n + 2
    BY <1>0, <1>3 DEF Timely
  <2>1. ~WorkerCloses(i) /\ \A l \in 1..n : ~Closes(queue[l], i)
    <3>1. CASE Ready(p, i)
      <4>1. Opened(i, n + 1) BY <3>1 DEF EventsFind, n
      <4>2. \A l \in 1..n : l < n + 1 BY <1>0
      <4> QED BY <4>1, <4>2 DEF Opened, n
    <3>2. CASE Starts(c, i)
      BY <3>2 DEF Timely, Threads, n
    <3> QED BY <1>3, <3>1, <3>2 DEF Timely
  <2>2. \A l \in 1..Len(queue') : ~Closes(queue'[l], i)
    BY <1>0, <2>0, <2>1
  <2>3. \/ i \in DOMAIN pending' \/ WorkerStarts(i)'
        \/ \E l \in 1..Len(queue') : Starts(queue'[l], i)
    <3>1. CASE Ready(p, i)
      <4>1. Opened(i, n + 1) BY <3>1 DEF EventsFind, n
      <4> QED BY <1>0, <4>1, StillFacts DEF Opened, n
    <3>2. CASE Starts(c, i)
      BY <1>0, <3>2
    <3> QED BY <1>3, <3>1, <3>2 DEF Timely
  <2> QED BY <2>0, <2>1, <2>2, <2>3, StillFacts DEF Opened
<1>4. (wpc = "apply" /\ Current.type # "Abort")' =>
         (Current.id \in DOMAIN pending \/ WorkerStarts(Current.id))'
  <2>1. Current' = Current /\ wpc' = wpc BY DEF Current, CollectorStill
  <2> QED BY <2>1, StillFacts DEF EventsFind, WorkerStarts, CollectorStill
<1> QED BY <1>2, <1>3, <1>4 DEF EventsFind

\* The first event of a command that does not abort starts its session or needs it.
LEMMA FirstEvent ==
    ASSUME NEW c \in Command, WellFormed(c), c.kind \in {"Event", "Events"}
    PROVE  /\ c.events[1].id \in Ids /\ About(c, c.events[1].id)
           /\ c.events[1].type # "Abort" =>
                 \/ Starts(c, c.events[1].id) \/ Needs(c, c.events[1].id)
<1>1. c.events \in Seq(Event) /\ Len(c.events) \in {1, 2, 3}
  BY DEF Command, WellFormed
<1>2. c.events[1] \in Event /\ DOMAIN c.events = 1..Len(c.events) /\ 1 \in DOMAIN c.events
  BY <1>1
<1>3. c.events[1].id \in Ids /\ c.events[1].type \in {"Start", "Update", "End", "Abort"}
  BY <1>2 DEF Event
<1>4. c.events[1].type # "End"
  <2>1. CASE c.kind = "Event" BY <2>1 DEF WellFormed
  <2>2. CASE c.kind = "Events"
    <3>1. Len(c.events) \in {2, 3} BY <2>2 DEF WellFormed
    <3>2. c.events[1].type = "End" <=> 1 = Len(c.events)
      BY <1>2, <2>2 DEF WellFormed
    <3> QED BY <3>1, <3>2
  <2> QED BY <2>1, <2>2
<1> QED BY <1>3, <1>4 DEF About, Starts, Needs

\* The worker takes the first command off the queue.
LEMMA DequeueFind ==
    ASSUME EventsFind, QueueTypeOK, queue # <<>>, queue' = Tail(queue), ThreadsStill,
           wpc = "recv", WellFormed(Head(queue)),
           wpc' = "apply" => wcmd' = Head(queue) /\ wi' = 1,
           wpc' = "apply" <=> Head(queue).kind \in {"Event", "Events"},
           DOMAIN pending' = DOMAIN pending, UNCHANGED orphans
    PROVE  EventsFind'
<1> DEFINE n == Len(queue)
<1>0. /\ n \in Nat \ {0} /\ Len(queue') = n - 1 /\ Head(queue) = queue[1]
      /\ \A k \in 1..Len(queue') : queue'[k] = queue[k + 1] /\ k + 1 \in 1..n
      /\ 1 \in 1..n /\ queue[1] \in Command
  BY DEF QueueTypeOK
<1> HIDE DEF n
<1>1. ASSUME NEW i
      PROVE  /\ ~WorkerStarts(i) /\ (WorkerCloses(i)' => Closes(queue[1], i))
             /\ wpc' = "apply" /\ Starts(queue[1], i) => WorkerStarts(i)'
  BY <1>0 DEF WorkerStarts, WorkerCloses
<1>2. \A l \in 2..n : l - 1 \in 1..Len(queue') /\ queue'[l - 1] = queue[l]
  <2> SUFFICES ASSUME NEW l \in 2..n PROVE l - 1 \in 1..Len(queue') /\ queue'[l - 1] = queue[l]
    OBVIOUS
  <2>1. l - 1 \in 1..Len(queue') /\ (l - 1) + 1 = l BY <1>0
  <2> QED BY <1>0, <2>1
<1>7. \A i : Starts(queue[1], i) => wpc' = "apply"
  BY <1>0, PlainAbout
<1>3. ASSUME NEW i, NEW k \in Nat \ {0}, Opened(i, k + 1) PROVE Opened(i, k)'
  <2>1. \A l \in 1..n : l < k + 1 => ~Closes(queue[l], i)
    BY <1>3 DEF Opened, n
  <2>2. ~WorkerCloses(i)'
    <3>1. 1 < k + 1 BY <1>3
    <3> QED BY <1>0, <1>1, <2>1, <3>1
  <2>3. ASSUME NEW l \in 1..Len(queue'), l < k PROVE ~Closes(queue'[l], i)
    <3>1. l + 1 \in 1..n /\ l + 1 < k + 1 /\ queue'[l] = queue[l + 1]
      BY <1>0, <1>3, <2>3
    <3> QED BY <2>1, <3>1
  <2>4. \/ i \in DOMAIN pending' \/ WorkerStarts(i)'
        \/ \E l \in 1..Len(queue') : l < k /\ Starts(queue'[l], i)
    <3>1. CASE i \in DOMAIN pending BY <3>1
    <3>2. CASE \E l \in 1..n : l < k + 1 /\ Starts(queue[l], i)
      <4> PICK l \in 1..n : l < k + 1 /\ Starts(queue[l], i) BY <3>2
      <4>1. CASE l = 1 BY <1>1, <1>7, <4>1
      <4>2. CASE l # 1
        <5>1. l \in 2..n /\ l - 1 < k BY <1>0, <1>3, <4>2
        <5> QED BY <1>2, <5>1
      <4> QED BY <4>1, <4>2
    <3> QED BY <1>1, <1>3, <3>1, <3>2 DEF Opened, n
  <2> QED BY <2>2, <2>3, <2>4 DEF Opened
<1>4. ASSUME NEW k \in 1..Len(queue'), NEW i \in Ids, Needs(queue'[k], i)
      PROVE  Opened(i, k)'
  <2>1. Opened(i, k + 1) BY <1>0, <1>4 DEF EventsFind, n
  <2>2. k \in Nat \ {0} BY <1>0
  <2> QED BY <1>3, <2>1, <2>2
<1>5. ASSUME NEW p \in Producers, NEW i \in Ids, Ready(p, i)'
      PROVE  Opened(i, Len(queue) + 1)'
  <2>1. Ready(p, i) BY <1>5 DEF Ready, ThreadsStill
  <2>2. Opened(i, n + 1) BY <2>1 DEF EventsFind, n
  <2>3. PICK m \in Nat \ {0} : m = n BY <1>0
  <2>4. Opened(i, m)' BY <1>3, <2>2, <2>3
  <2>5. Len(queue') + 1 = m BY <1>0, <2>3
  <2> QED BY <2>4, <2>5 DEF Opened
<1>6. ASSUME wpc' = "apply", (Current.type # "Abort")'
      PROVE  (Current.id \in DOMAIN pending \/ WorkerStarts(Current.id))'
  <2>1. Current' = queue[1].events[1]
    BY <1>0, <1>6 DEF Current
  <2> DEFINE i == queue[1].events[1].id
  <2>2. i \in Ids /\ (Starts(queue[1], i) \/ Needs(queue[1], i))
    BY <1>0, <1>6, <2>1, FirstEvent
  <2> HIDE DEF i
  <2>3. CASE Starts(queue[1], i)
    BY <1>1, <1>6, <2>1, <2>3 DEF i
  <2>4. CASE Needs(queue[1], i)
    <3>1. Opened(i, 1) BY <1>0, <2>2, <2>4 DEF EventsFind, n
    <3>2. \A l \in 1..n : ~(l < 1) BY <1>0
    <3>3. i \in DOMAIN pending BY <1>1, <3>1, <3>2 DEF Opened, n
    <3> QED BY <2>1, <3>3 DEF i
  <2> QED BY <2>2, <2>3, <2>4
<1> QED BY <1>4, <1>5, <1>6 DEF EventsFind

\* The worker goes on: no session that a later command needs goes away.
Keeping ==
    \A i \in Ids :
        /\ WorkerCloses(i)' => WorkerCloses(i)
        /\ ~WorkerCloses(i) /\ (i \in DOMAIN pending \/ WorkerStarts(i)) =>
              (i \in DOMAIN pending \/ WorkerStarts(i))'

\* Such a step keeps what later events need.
LEMMA AdvanceFind ==
    ASSUME EventsFind, Keeping, ThreadsStill, UNCHANGED <<queue, orphans>>,
           (wpc = "apply")' => (Current.id \in DOMAIN pending)'
    PROVE  EventsFind'
<1>1. ASSUME NEW i \in Ids, NEW k, Opened(i, k) PROVE Opened(i, k)'
  BY <1>1 DEF Opened, Keeping
<1>2. \A p \in Producers, i \in Ids : Ready(p, i)' => Ready(p, i)
  BY DEF Ready, ThreadsStill
<1> QED BY <1>1, <1>2 DEF EventsFind

-----------------------------------------------------------------------------
(***************************************************************************)
(* The steps of the threads.                                               *)
(***************************************************************************)
\* What a call on an open session submits, and what it does to the session.
OwnCall(p, cmd) ==
    /\ \A i : About(cmd, i) => i = pid[p]
    /\ \A i : ~Starts(cmd, i)
    /\ \A i : Touches(cmd, i) => pclosing[p] = FALSE
    /\ pid'[p] \in {pid[p], 0}
    /\ pid'[p] # 0 /\ pclosing'[p] = FALSE => pclosing[p] = FALSE
    /\ pid'[p] # 0 /\ Closes(cmd, pid[p]) => pclosing'[p] = TRUE

\* The other threads keep their sessions and their commands.
OthersStill(p) ==
    \A q \in Producers : q # p =>
        /\ pcmd'[q] = pcmd[q] /\ pid'[q] = pid[q] /\ pclosing'[q] = pclosing[q]
        /\ ppc'[q] = ppc[q]

\* Then what concerns them does not change.
LEMMA OthersFacts ==
    ASSUME NEW p \in Producers, OthersStill(p), NEW q \in Producers, q # p, NEW i
    PROVE  /\ Concerns(q, i)' <=> Concerns(q, i)
           /\ MayTouch(q, i)' <=> MayTouch(q, i)
           /\ Ready(q, i)' <=> Ready(q, i)
BY DEF OthersStill, Concerns, MayTouch, Ready

\* Such a call brings up no session the thread did not have.
LEMMA OwnCallRecedes ==
    ASSUME Protocol, NEW p \in Producers, NEW cmd, OwnCall(p, cmd), OthersStill(p),
           ppc[p] = "idle", ppc'[p] = "reserve", pid[p] \in Ids, pcmd'[p] = cmd
    PROVE  /\ Receding /\ IdleHands'
           /\ \A q \in Producers, i \in Ids : Ready(q, i)' => Ready(q, i)
<1>1. pcmd[p].kind = "None" BY DEF Protocol, IdleHands
<1>2. \A i : ~About(pcmd[p], i) /\ ~Starts(pcmd[p], i) /\ ~Touches(pcmd[p], i)
  BY <1>1, PlainAbout
<1>3. \A i \in Ids : i # 0 BY DEF Ids
<1>4. ASSUME NEW i \in Ids
      PROVE  /\ Concerns(p, i)' => Concerns(p, i)
             /\ MayTouch(p, i)' => MayTouch(p, i)
             /\ Starts(pcmd'[p], i) => Starts(pcmd[p], i)
             /\ Closes(pcmd'[p], i) /\ pid'[p] = i => pclosing'[p] = TRUE
             /\ Ready(p, i)' => Ready(p, i)
  <2>1. Concerns(p, i)' => pid[p] = i
    BY <1>3 DEF OwnCall, Concerns
  <2>2. MayTouch(p, i)' => pid[p] = i /\ pclosing[p] = FALSE
    BY <1>3, AboutIt DEF OwnCall, MayTouch
  <2>3. Ready(p, i)' => pid[p] = i
    BY <1>3, AboutIt DEF OwnCall, Ready
  <2>4. Closes(pcmd'[p], i) /\ pid'[p] = i => pclosing'[p] = TRUE
    BY <1>3 DEF OwnCall
  <2> QED BY <1>2, <2>1, <2>2, <2>3, <2>4 DEF Concerns, MayTouch, Ready, OwnCall
<1>5. ASSUME NEW q \in Producers, q # p, NEW i \in Ids
      PROVE  /\ Concerns(q, i)' => Concerns(q, i)
             /\ MayTouch(q, i)' => MayTouch(q, i)
             /\ Starts(pcmd'[q], i) => Starts(pcmd[q], i)
             /\ Closes(pcmd'[q], i) /\ pid'[q] = i => pclosing'[q] = TRUE
             /\ Ready(q, i)' => Ready(q, i)
  BY <1>5, OthersFacts DEF OthersStill, Protocol, Threads
<1>6. IdleHands'
  BY DEF IdleHands, OthersStill, Protocol
<1> QED BY <1>4, <1>5, <1>6 DEF Receding

\* emit, finish, abort, and the abort of a hidden session.
LEMMA OwnCallStep ==
    ASSUME TInv, Protocol, Clean => EventsFind, NEW p \in Producers,
           Emit(p) \/ Finish(p) \/ Hide(p) \/ Abort(p)
    PROVE  Protocol' /\ (Clean' => EventsFind')
<1> USE DEF TInv, TypeOK
<1>1. /\ ppc[p] = "idle" /\ pid[p] \in Ids /\ pid[p] # 0 /\ ppc'[p] = "reserve"
      /\ OthersStill(p) /\ CallFrame /\ UNCHANGED nextId
  BY DEF Emit, Finish, Hide, Abort, SessionOpen, Submit, OthersStill, ProducerTypeOK, Ids
<1>2. PICK cmd : pcmd'[p] = cmd /\ OwnCall(p, cmd)
  <2>1. CASE Emit(p)
    <3>1. PICK b, c : pcmd'[p] = SingleEvent("Update", pid[p], b, c)
      BY <2>1 DEF Emit, Submit, ProducerTypeOK
    <3>2. pid'[p] = pid[p] /\ pclosing'[p] = pclosing[p]
      BY <2>1 DEF Emit
    <3> QED BY <3>1, <3>2, SingleAbout, AboutIt DEF OwnCall
  <2>2. CASE Finish(p)
    <3>1. PICK b : pcmd'[p] = Batch(Tail(SessionEvents(pid[p], b)), b)
      BY <2>2 DEF Finish, Submit, ProducerTypeOK
    <3>2. pid'[p] = pid[p] /\ pclosing'[p] = TRUE /\ pclosing[p] = FALSE
      BY <2>2 DEF Finish, ProducerTypeOK
    <3> QED BY <3>1, <3>2, BatchAbout, AboutIt DEF OwnCall
  <2>3. CASE Hide(p)
    <3>1. PICK c : pcmd'[p] = SingleEvent("Abort", pid[p], 0, c)
      BY <2>3 DEF Hide, Submit, ProducerTypeOK
    <3>2. pid'[p] = pid[p] /\ pclosing'[p] = TRUE
      BY <2>3 DEF Hide, ProducerTypeOK
    <3> QED BY <3>1, <3>2, SingleAbout, AboutIt DEF OwnCall
  <2>4. CASE Abort(p)
    <3>1. PICK c : pcmd'[p] = SingleEvent("Abort", pid[p], 0, c)
      BY <2>4 DEF Abort, Submit, ProducerTypeOK
    <3>2. pid'[p] = 0
      BY <2>4 DEF Abort, ProducerTypeOK
    <3> QED BY <3>1, <3>2, SingleAbout, AboutIt DEF OwnCall
  <2> QED BY <2>1, <2>2, <2>3, <2>4
<1>3. /\ Receding /\ IdleHands'
      /\ \A q \in Producers, i \in Ids : Ready(q, i)' => Ready(q, i)
  BY <1>1, <1>2, OwnCallRecedes
<1>4. CollectorStill /\ UNCHANGED <<queue, orphans, queueDropped, incomplete, wipedPending>>
  BY <1>1 DEF CallFrame, CollectorStill, workerVars, pendingVars, followVars, wipeVars
<1>5. Protocol'
  BY <1>1, <1>3, <1>4, QuietProtocol
<1>6. Clean' => EventsFind'
  BY <1>3, <1>4, QuietFind DEF Clean
<1> QED BY <1>5, <1>6

\* record and start take the next identifier.
LEMMA OpenCallStep ==
    ASSUME TInv, Protocol, Clean => EventsFind, NEW p \in Producers, Record(p) \/ Start(p)
    PROVE  Protocol' /\ (Clean' => EventsFind')
<1> USE DEF TInv, TypeOK
<1>1. /\ ppc[p] = "idle" /\ pid[p] = 0 /\ nextId \in Ids /\ ppc'[p] = "reserve"
      /\ OthersStill(p) /\ CallFrame /\ nextId' = nextId + 1
  BY DEF Record, Start, Submit, OthersStill, ProducerTypeOK, Ids
<1>2. \A i \in Ids : i # 0 BY DEF Ids
<1>3. /\ \A i \in Ids : Concerns(p, i)' => i = nextId
      /\ \A i \in Ids : Closes(pcmd'[p], i) => pid'[p] # i
      /\ \A i \in Ids : ~Ready(p, i)'
  <2>1. CASE Record(p)
    <3>1. PICK b : pcmd'[p] = Batch(SessionEvents(nextId, b), b)
      BY <2>1 DEF Record, Submit, ProducerTypeOK
    <3>2. pid'[p] = 0
      BY <1>1, <2>1 DEF Record
    <3> QED BY <1>2, <3>1, <3>2, BatchAbout DEF Concerns, Ready
  <2>2. CASE Start(p)
    <3>1. PICK b, c : pcmd'[p] = SingleEvent("Start", nextId, b, c)
      BY <2>2 DEF Start, Submit, ProducerTypeOK
    <3>2. pid'[p] = nextId
      BY <2>2 DEF Start, ProducerTypeOK
    <3> QED BY <3>1, <3>2, SingleAbout DEF Concerns, Ready
  <2> QED BY <2>1, <2>2
<1>4. CollectorStill /\ UNCHANGED <<queue, orphans, queueDropped, incomplete, wipedPending>>
  BY <1>1 DEF CallFrame, CollectorStill, workerVars, pendingVars, followVars, wipeVars
<1>5. Opening(p)
  BY <1>1, <1>3 DEF Opening, OthersStill
<1>6. IdleHands'
  BY <1>1 DEF IdleHands, OthersStill, Protocol
<1>7. Protocol'
  BY <1>1, <1>4, <1>5, <1>6, OpeningProtocol
<1>8. \A q \in Producers, i \in Ids : Ready(q, i)' => Ready(q, i)
  BY <1>1, <1>3, OthersFacts
<1>9. Clean' => EventsFind'
  BY <1>4, <1>8, QuietFind DEF Clean
<1> QED BY <1>7, <1>9

\* The steps of submit that do not reach the queue, and the session that is forgotten.
LEMMA SubmitQuietStep ==
    ASSUME TInv, Protocol, Clean => EventsFind, NEW p \in Producers,
           \/ Forget(p) \/ Reserve(p) \/ ReserveRejected(p) \/ TrySendFull(p)
           \/ ReleaseRejected(p)
    PROVE  Protocol' /\ (Clean' => EventsFind')
<1> USE DEF TInv, TypeOK
<1>1. OthersStill(p) /\ CollectorStill /\ UNCHANGED <<queue, nextId, orphans>>
  BY DEF Forget, Reserve, ReserveRejected, TrySendFull, ReleaseRejected, OthersStill,
     ProducerTypeOK, CallFrame, SubmitFrame, CollectorStill, workerVars, pendingVars, followVars
<1>2. \A i \in Ids : i # 0 BY DEF Ids
<1>3. CASE Forget(p) \/ Reserve(p) \/ TrySendFull(p)
  <2>1. /\ pcmd' = pcmd /\ pid'[p] \in {pid[p], 0}
        /\ pid'[p] # 0 => pclosing'[p] = pclosing[p]
        /\ UNCHANGED <<queueDropped, incomplete, wipedPending>>
    BY <1>3 DEF Forget, Reserve, TrySendFull, ProducerTypeOK, CallFrame, SubmitFrame,
       pendingVars, wipeVars
  <2>2. IdleHands'
    BY <1>3, <2>1 DEF Protocol, IdleHands, Forget, Reserve, TrySendFull, ProducerTypeOK
  <2>3. ASSUME NEW i \in Ids
        PROVE  /\ Concerns(p, i)' => Concerns(p, i)
               /\ MayTouch(p, i)' => MayTouch(p, i)
               /\ Closes(pcmd'[p], i) /\ pid'[p] = i => pclosing'[p] = TRUE
               /\ Ready(p, i)' => Ready(p, i)
    BY <1>2, <2>1 DEF Concerns, MayTouch, Ready, Protocol, Threads
  <2>4. Receding /\ \A q \in Producers, i \in Ids : Ready(q, i)' => Ready(q, i)
    <3>1. ASSUME NEW q \in Producers, NEW i \in Ids
          PROVE  /\ Concerns(q, i)' => Concerns(q, i)
                 /\ MayTouch(q, i)' => MayTouch(q, i)
                 /\ Closes(pcmd'[q], i) /\ pid'[q] = i => pclosing'[q] = TRUE
                 /\ Ready(q, i)' => Ready(q, i)
      <4>1. CASE q = p BY <2>3, <4>1
      <4>2. CASE q # p
        BY <1>1, <4>2, OthersFacts DEF OthersStill, Protocol, Threads
      <4> QED BY <4>1, <4>2
    <3> QED BY <2>1, <3>1 DEF Receding
  <2>5. Protocol'
    BY <1>1, <2>2, <2>4, QuietProtocol
  <2>6. Clean' => EventsFind'
    BY <1>1, <2>1, <2>4, QuietFind DEF Clean
  <2> QED BY <2>5, <2>6
<1>4. CASE ReserveRejected(p) \/ ReleaseRejected(p)
  <2>1. /\ pcmd'[p] = NoCommand /\ pid' = pid /\ pclosing' = pclosing
        /\ queueDropped' = queueDropped + 1 /\ queueDropped \in Nat /\ queueDropped' # 0
    BY <1>4 DEF ReserveRejected, ReleaseRejected, ProducerTypeOK
  <2>2. \A i : /\ ~About(pcmd'[p], i) /\ ~Starts(pcmd'[p], i) /\ ~Closes(pcmd'[p], i)
               /\ ~Touches(pcmd'[p], i)
    BY <2>1, NoCommandType, PlainAbout
  <2>3. Receding
    <3>1. ASSUME NEW q \in Producers, NEW i \in Ids
          PROVE  /\ Concerns(q, i)' => Concerns(q, i)
                 /\ MayTouch(q, i)' => MayTouch(q, i)
                 /\ Starts(pcmd'[q], i) => Starts(pcmd[q], i)
                 /\ Closes(pcmd'[q], i) /\ pid'[q] = i => pclosing'[q] = TRUE
      <4>1. CASE q = p BY <2>1, <2>2, <4>1 DEF Concerns, MayTouch
      <4>2. CASE q # p
        BY <1>1, <4>2, OthersFacts DEF OthersStill, Protocol, Threads
      <4> QED BY <4>1, <4>2
    <3> QED BY <3>1 DEF Receding
  <2>4. IdleHands'
    BY <1>1, <2>1, NoCommandType DEF Protocol, IdleHands, OthersStill
  <2>5. Protocol'
    BY <1>1, <2>3, <2>4, QuietProtocol
  <2>6. ~Clean'
    BY <2>1 DEF Clean
  <2> QED BY <2>5, <2>6
<1> QED BY <1>3, <1>4

\* try_send hands the command over; an accepted finish or abort takes the session with it.
LEMMA TrySendStep ==
    ASSUME TInv, Protocol, Clean => EventsFind, NEW p \in Producers, TrySend(p)
    PROVE  Protocol' /\ (Clean' => EventsFind')
<1> USE DEF TInv, TypeOK
<1> DEFINE c == pcmd[p]
<1>1. /\ OthersStill(p) /\ CollectorStill
      /\ UNCHANGED <<nextId, orphans, queueDropped, incomplete, wipedPending>>
      /\ queue' = Append(queue, c) /\ c \in Command
  BY DEF TrySend, Enqueue, OthersStill, ProducerTypeOK, SubmitFrame, CollectorStill,
     workerVars, pendingVars, followVars, wipeVars
<1>2. \A i \in Ids : i # 0 BY DEF Ids
<1>3. /\ pcmd'[p] = NoCommand
      /\ \A i \in Ids : pid'[p] = i => pid[p] = i /\ pclosing[p] = FALSE
  BY <1>2 DEF TrySend, ProducerTypeOK
<1>4. \A i : /\ ~About(pcmd'[p], i) /\ ~Starts(pcmd'[p], i) /\ ~Closes(pcmd'[p], i)
             /\ ~Touches(pcmd'[p], i) /\ ~Needs(pcmd'[p], i)
  BY <1>3, NoCommandType, PlainAbout
<1>5. ASSUME NEW i \in Ids, About(c, i)
      PROVE  /\ i < nextId
             /\ \A q \in Producers : q # p => ~Concerns(q, i)
             /\ Closes(c, i) => ~(pid'[p] = i)
  BY <1>3, <1>5 DEF Protocol, Threads, Concerns
<1>6. ASSUME NEW i \in Ids, NEW q \in Producers, q # p
      PROVE  /\ MayTouch(q, i)' => Concerns(q, i) /\ MayTouch(q, i)
             /\ Ready(q, i)' => Concerns(q, i) /\ Ready(q, i)
             /\ Concerns(q, i)' => Concerns(q, i)
             /\ Starts(pcmd'[q], i) => Concerns(q, i) /\ Starts(pcmd[q], i)
             /\ Closes(pcmd'[q], i) /\ pid'[q] = i => pclosing'[q] = TRUE
  <2>1. /\ MayTouch(q, i) => Concerns(q, i)
        /\ Ready(q, i) => Concerns(q, i)
        /\ Starts(pcmd[q], i) => Concerns(q, i)
    BY AboutIt DEF MayTouch, Ready, Concerns
  <2> QED BY <1>1, <1>6, <2>1, OthersFacts DEF OthersStill, Protocol, Threads
<1>7. ASSUME NEW i \in Ids
      PROVE  /\ Concerns(p, i)' => Concerns(p, i)
             /\ MayTouch(p, i)' => MayTouch(p, i) /\ pid'[p] = i
             /\ Ready(p, i)' => pid'[p] = i
  BY <1>3, <1>4 DEF Concerns, MayTouch, Ready
<1> HIDE DEF c
<1>8. Receding
  BY <1>4, <1>6, <1>7 DEF Receding
<1>9. IdleHands'
  BY <1>1, <1>3, NoCommandType DEF Protocol, IdleHands, OthersStill
<1>10. Sendable(c)
  <2>1. ASSUME NEW i \in Ids, Touches(c, i) PROVE MayTouch(p, i)
    BY <2>1 DEF MayTouch, c
  <2>2. ASSUME NEW i \in Ids, Ends(c, i), NEW q \in Producers PROVE ~MayTouch(q, i)'
    BY <1>5, <1>6, <1>7, <2>2, AboutIt
  <2>3. ASSUME NEW i \in Ids, Closes(c, i), NEW q \in Producers PROVE ~Starts(pcmd'[q], i)
    BY <1>4, <1>5, <1>6, <2>3, AboutIt
  <2> QED BY <1>5, <2>1, <2>2, <2>3 DEF Sendable
<1>11. Timely(c)
  <2>1. ASSUME NEW i \in Ids, Needs(c, i) PROVE Ready(p, i)
    BY <2>1 DEF Ready, c
  <2>2. ASSUME NEW i \in Ids, Starts(c, i) PROVE Starts(pcmd[p], i)
    BY <2>2 DEF c
  <2>3. ASSUME NEW i \in Ids, NEW q \in Producers, Ready(q, i)'
        PROVE  ~Closes(c, i) /\ (Ready(q, i) \/ Starts(c, i))
    <3>1. CASE q # p BY <1>5, <1>6, <2>3, <3>1, AboutIt
    <3>2. CASE q = p
      <4>1. pid'[p] = i /\ pid[p] = i BY <1>3, <1>7, <2>3, <3>2
      <4>2. ~Closes(c, i) BY <1>5, <4>1, AboutIt
      <4> QED BY <3>2, <4>1, <4>2 DEF Ready, c
    <3> QED BY <3>1, <3>2
  <2> QED BY <2>1, <2>2, <2>3 DEF Timely
<1>12. Protocol'
  BY <1>1, <1>8, <1>9, <1>10, EnqueueProtocol
<1>13. Clean' => EventsFind'
  BY <1>1, <1>11, EnqueueFind DEF Clean, Protocol
<1> QED BY <1>12, <1>13

\* Callers, subscribers and the owner put queries into the queue, which are about no
\* session, or leave it alone.
LEMMA QueryAccountStep ==
    ASSUME TInv, Protocol, Clean => EventsFind,
           \/ \E c \in Callers : CallerStep(c)
           \/ \E s \in Subscribers : SubscriberStep(s)
           \/ OwnerStep
    PROVE  Protocol' /\ (Clean' => EventsFind')
<1> USE DEF TInv, TypeOK
<1>1. QueryFrame
  BY DEF CallerStep, CallQuery, SendQuery, SubscriberStep, CallFollow, SendFollow,
     FollowRecv, FollowDrop, OwnerStep, DropHandle, SendShutdown
<1>2. /\ CollectorStill /\ ThreadsStill
      /\ UNCHANGED <<orphans, queueDropped, incomplete, wipedPending>>
  BY <1>1 DEF QueryFrame, CollectorStill, ThreadsStill, counterVars, producerVars,
     workerVars, pendingVars, followVars, wipeVars
<1>3. Receding /\ \A p \in Producers, i \in Ids : Ready(p, i)' <=> Ready(p, i)
  <2>1. \A p, i : Ready(p, i)' <=> Ready(p, i)
    BY <1>2 DEF Ready, ThreadsStill
  <2> QED BY <1>2, <2>1, ThreadsStillFacts DEF Receding, ThreadsStill, Protocol, Threads
<1>4. IdleHands'
  BY <1>2, ThreadsStillFacts DEF Protocol
<1>5. CASE UNCHANGED queue
  <2>1. Protocol'
    BY <1>2, <1>3, <1>4, <1>5, QuietProtocol DEF ThreadsStill
  <2>2. Clean' => EventsFind'
    BY <1>2, <1>3, <1>5, QuietFind DEF Clean
  <2> QED BY <2>1, <2>2
<1>6. ASSUME NEW q \in Command, q.kind \notin {"Event", "Events"}, queue' = Append(queue, q)
      PROVE  Protocol' /\ (Clean' => EventsFind')
  <2>1. Sendable(q) /\ Timely(q)
    BY <1>3, <1>6, PlainAbout DEF Sendable, Timely
  <2>2. Protocol'
    BY <1>2, <1>3, <1>4, <1>6, <2>1, EnqueueProtocol DEF ThreadsStill
  <2>3. Clean' => EventsFind'
    BY <1>2, <1>6, <2>1, EnqueueFind DEF Clean, Protocol
  <2> QED BY <2>2, <2>3
<1>7. CASE \E c \in Callers : CallerStep(c)
  <2> PICK c \in Callers : CallerStep(c) BY <1>7
  <2>1. CASE CallQuery(c) BY <1>5, <2>1 DEF CallQuery
  <2>2. CASE SendQuery(c)
    BY <1>6, <2>2 DEF SendQuery, Enqueue, CommandsWellFormed, QueueTypeOK
  <2> QED BY <2>1, <2>2 DEF CallerStep
<1>8. CASE \E s \in Subscribers : SubscriberStep(s)
  <2> PICK s \in Subscribers : SubscriberStep(s) BY <1>8
  <2>1. CASE SendFollow(s)
    BY <1>6, <2>1, QueryType DEF SendFollow, Enqueue
  <2>2. CASE ~SendFollow(s)
    BY <1>5, <2>2 DEF SubscriberStep, CallFollow, FollowRecv, FollowDrop
  <2> QED BY <2>1, <2>2
<1>9. CASE OwnerStep
  <2>1. CASE DropHandle BY <1>5, <2>1 DEF DropHandle
  <2>2. CASE SendShutdown
    BY <1>6, <2>2, QueryType DEF SendShutdown, Enqueue
  <2> QED BY <1>9, <2>1, <2>2 DEF OwnerStep
<1> QED BY <1>7, <1>8, <1>9

\* recv: a command to apply, or a query that is answered at once; clear is the only one
\* that touches the pending sessions, and what it removes it counts.
LEMMA RecvAccountStep ==
    ASSUME TInv, Protocol, Clean => EventsFind, RecvStep
    PROVE  Protocol' /\ (Clean' => EventsFind')
<1> USE DEF TInv, TypeOK
<1>1. /\ wpc = "recv" /\ queue # <<>> /\ queue' = Tail(queue) /\ ThreadsStill
      /\ UNCHANGED <<log, orphans, queueDropped, incomplete>>
    BY DEF RecvStep, RecvEvents, RecvRead, RecvClear, RecvStats, RecvFollow, RecvShutdown,
       RecvQuery, RecvFrame, ThreadsStill, counterVars, producerVars, pendingVars, followVars
<1>2. /\ wpc' \notin {"insert", "publish"}
      /\ wpc' = "apply" => wcmd' = Head(queue) /\ wi' = 1
      /\ wpc' = "apply" <=> Head(queue).kind \in {"Event", "Events"}
    BY DEF RecvStep, RecvEvents, RecvRead, RecvClear, RecvStats, RecvFollow, RecvShutdown,
       RecvQuery
<1>3. WellFormed(Head(queue))
  <2>1. Head(queue) = queue[1] /\ 1 \in 1..Len(queue)
    BY <1>1 DEF QueueTypeOK
  <2> QED BY <2>1 DEF CommandsWellFormed
<1>4. /\ DOMAIN pending' \subseteq DOMAIN pending
      /\ Clean' => Clean /\ DOMAIN pending' = DOMAIN pending
  <2>1. CASE RecvClear
    <3>1. /\ DOMAIN pending' = {} /\ wipedPending \in Nat
          /\ wipedPending' = wipedPending + Cardinality(DOMAIN pending)
      BY <2>1 DEF RecvClear, NoPending, MemoryTypeOK
    <3>2. IsFiniteSet(DOMAIN pending) /\ Cardinality(DOMAIN pending) \in Nat
      BY PendingFinite, FS_CardinalityType
    <3>3. wipedPending' = 0 => wipedPending = 0 /\ Cardinality(DOMAIN pending) = 0
      BY <3>1, <3>2
    <3>4. Cardinality(DOMAIN pending) = 0 => DOMAIN pending = {}
      BY <3>2, FS_EmptySet
    <3> QED BY <1>1, <3>1, <3>3, <3>4 DEF Clean
  <2>2. CASE ~RecvClear
    BY <1>1, <2>2 DEF RecvStep, RecvEvents, RecvRead, RecvStats, RecvFollow, RecvShutdown,
       pendingVars, wipeVars, Clean
  <2> QED BY <2>1, <2>2
<1>5. Protocol'
  BY <1>1, <1>2, <1>4, DequeueProtocol
<1>6. Clean' => EventsFind'
  BY <1>1, <1>2, <1>3, <1>4, DequeueFind
<1> QED BY <1>5, <1>6

-----------------------------------------------------------------------------
(***************************************************************************)
(* The steps of the worker.                                                *)
(***************************************************************************)
\* The event that is applied belongs to the session the command is about; it ends the
\* session only in a batch, and starts it only as the first event.
LEMMA AppliedEvent ==
    ASSUME TInv, wpc = "apply"
    PROVE  /\ wi \in 1..Len(wcmd.events) /\ Len(wcmd.events) \in Nat
           /\ \A i : About(wcmd, i) <=> i = Current.id
           /\ \A k \in 1..Len(wcmd.events) : wcmd.events[k].id = Current.id
           /\ Current.type = "End" => Ends(wcmd, Current.id)
           /\ Current.type = "Abort" => Closes(wcmd, Current.id) /\ wi = Len(wcmd.events)
           /\ Current.type = "Start" <=> WorkerStarts(Current.id)
<1> USE DEF TInv, TypeOK
<1>1. /\ wcmd.kind \in {"Event", "Events"} /\ WellFormed(wcmd) /\ wi \in 1..Len(wcmd.events)
      /\ wcmd.events \in Seq(Event)
  BY DEF CommandsWellFormed, Busy, WorkerTypeOK, Command
<1>2. DOMAIN wcmd.events = 1..Len(wcmd.events) /\ Len(wcmd.events) \in Nat
  BY <1>1
<1>3. CASE wcmd.kind = "Event"
  <2>1. Len(wcmd.events) = 1 /\ wcmd.events[1].type # "End"
    BY <1>3, <1>1 DEF WellFormed
  <2>2. wi = 1 /\ Current = wcmd.events[1]
    BY <1>1, <2>1 DEF Current
  <2> QED BY <1>1, <1>3, <2>1, <2>2 DEF About, Ends, Closes, Starts, WorkerStarts
<1>4. CASE wcmd.kind = "Events"
  <2>1. /\ Current.id = wcmd.events[1].id /\ Current.type # "Abort"
        /\ Current.type = "Start" => wi = 1
        /\ \A k \in 1..Len(wcmd.events) : wcmd.events[k].id = wcmd.events[1].id
    BY <1>1, <1>2, <1>4 DEF WellFormed, Current
  <2>2. wi = 1 => Current = wcmd.events[1]
    BY DEF Current
  <2> QED BY <1>1, <1>2, <1>4, <2>1, <2>2 DEF About, Ends, Closes, Starts, WorkerStarts
<1> QED BY <1>1, <1>3, <1>4

\* What the worker has left of its command only shrinks, and stays about its session.
LEMMA ApplyAdvances ==
    ASSUME TInv, wpc = "apply", UNCHANGED wcmd, wi' \in {wi, wi + 1},
           wpc' \in {"apply", "enforce", "insert"}
    PROVE  \A i : /\ WorkerEnds(i)' => WorkerEnds(i)
                  /\ WorkerCloses(i)' => WorkerCloses(i)
                  /\ WorkerStarts(i)' => WorkerStarts(i)
                  /\ (wpc = "apply" /\ About(wcmd, i))' => wpc = "apply" /\ About(wcmd, i)
<1>1. wi \in Nat \ {0} BY AppliedEvent
<1>2. wi' = 1 => wi = 1 BY <1>1
<1> QED BY <1>2 DEF WorkerEnds, WorkerCloses, WorkerStarts

\* The events of a command are applied one by one, after the sweep of stale sessions.
LEMMA ApplyAccountStep ==
    ASSUME TInv, Protocol, Clean => EventsFind, PendingStep
    PROVE  Protocol' /\ (Clean' => EventsFind')
<1> USE DEF TInv, TypeOK
<1> DEFINE e == Current.id
<1>1. wpc = "apply" /\ UNCHANGED <<wcmd, queue, log, queueDropped, wipedPending>> /\ ThreadsStill
  BY DEF PendingStep, ExpireStale, ApplyStart, ApplyUpdate, ApplyEnd, ApplyOrphan,
     ApplyAbort, Applying, ApplyFrame, ThreadsStill, counterVars, producerVars, followVars,
     wipeVars
<1>2. e \in Ids /\ \A i : About(wcmd, i) <=> i = e
  BY <1>1, AppliedEvent, CurrentType
<1>3. incomplete \in Nat /\ orphans \in Nat BY DEF PendingTypeOK
<1>4. /\ wi \in 1..Len(wcmd.events) /\ Len(wcmd.events) \in Nat
      /\ Current.type = "End" => Ends(wcmd, e)
      /\ Current.type = "Abort" => Closes(wcmd, e) /\ wi = Len(wcmd.events)
      /\ Current.type # "Start" => ~WorkerStarts(e)
  BY <1>1, AppliedEvent
<1>5. \A i : i # e => ~WorkerEnds(i) /\ ~WorkerCloses(i) /\ ~WorkerStarts(i)
  BY <1>2, AboutIt DEF WorkerEnds, WorkerCloses, WorkerStarts
\* The command goes on: nothing is committed.
<1>6. ASSUME wpc' \in {"apply", "enforce"}, wi' \in {wi, wi + 1},
             \A i \in DOMAIN pending' : i \in DOMAIN pending \/ WorkerStarts(i)
      PROVE  Protocol'
  <2>1. \A i : Done(i)' => Done(i)
    BY <1>1, <1>6 DEF Done
  <2>2. LogOnce'
    BY <1>1, <1>6 DEF LogOnce, Protocol
  <2>3. Advancing
    BY <1>1, <1>6, <2>1, ApplyAdvances DEF Advancing
  <2> QED BY <1>1, <2>2, <2>3, AdvanceProtocol
<1>7. ASSUME NextEvent PROVE wpc' \in {"apply", "enforce"} /\ wi' \in {wi, wi + 1}
  BY <1>7 DEF NextEvent
\* The event found its session and leaves it pending.
<1>8. ASSUME NextEvent, UNCHANGED <<incomplete, orphans>>, e \in DOMAIN pending',
             \A i : i # e => (i \in DOMAIN pending' <=> i \in DOMAIN pending)
      PROVE  Clean' => EventsFind'
  <2>1. wpc' \in {"apply", "enforce"} /\ wi' \in {wi, wi + 1} BY <1>7, <1>8
  <2>2. Keeping
    BY <1>1, <1>5, <1>8, <2>1, ApplyAdvances DEF Keeping
  <2>3. Current'.id = e
    <3>1. wi' \in 1..Len(wcmd.events) BY <1>1, <1>8, NextEventType
    <3>2. Current' = wcmd.events[wi'] BY <1>1 DEF Current
    <3> QED BY <1>1, <3>1, <3>2, AppliedEvent
  <2> QED BY <1>1, <1>8, <2>2, <2>3, AdvanceFind DEF Clean
<1>9. CASE ExpireStale
  <2>1. PICK id \in DOMAIN pending : pending' = Without(id)
    BY <1>9 DEF ExpireStale, Stale
  <2>2. \A i \in DOMAIN pending' : i \in DOMAIN pending BY <2>1 DEF Without
  <2>3. wpc' = "apply" /\ wi' = wi /\ incomplete' = incomplete + 1
    BY <1>1, <1>9 DEF ExpireStale
  <2>4. ~Clean' BY <1>3, <2>3 DEF Clean
  <2> QED BY <1>6, <2>2, <2>3, <2>4
<1>10. CASE ApplyStart
  <2>1. DOMAIN pending' = DOMAIN pending \cup {e} /\ NextEvent /\ UNCHANGED orphans
    BY <1>10 DEF ApplyStart, With
  <2>2. WorkerStarts(e)
    BY <1>1, <1>10, AppliedEvent DEF ApplyStart, Applying
  <2>3. Protocol' BY <1>6, <1>7, <2>1, <2>2
  <2>4. CASE e \in DOMAIN pending
    <3>1. incomplete' = incomplete + 1 BY <1>10, <2>4 DEF ApplyStart
    <3>2. ~Clean' BY <1>3, <3>1 DEF Clean
    <3> QED BY <2>3, <3>2
  <2>5. CASE e \notin DOMAIN pending
    <3>1. incomplete' = incomplete BY <1>3, <1>10, <2>5 DEF ApplyStart
    <3>2. Clean' => EventsFind' BY <1>8, <2>1, <3>1
    <3> QED BY <2>3, <3>2
  <2> QED BY <2>4, <2>5
<1>11. CASE ApplyUpdate
  <2>1. /\ e \in DOMAIN pending /\ DOMAIN pending' = DOMAIN pending /\ NextEvent
        /\ UNCHANGED <<orphans, incomplete>>
    BY <1>11 DEF ApplyUpdate, With
  <2>2. Protocol' BY <1>6, <1>7, <2>1
  <2>3. Clean' => EventsFind' BY <1>8, <2>1
  <2> QED BY <2>2, <2>3
<1>12. CASE ApplyOrphan
  <2>1. /\ e \notin DOMAIN pending /\ pending' = pending /\ NextEvent
        /\ UNCHANGED incomplete /\ Current.type \in {"Update", "End"}
    BY <1>12 DEF ApplyOrphan
  <2>2. Protocol' BY <1>6, <1>7, <2>1
  <2>3. ~Clean
    BY <1>1, <1>4, <2>1 DEF EventsFind
  <2>4. ~Clean' BY <1>1, <2>1, <2>3 DEF Clean
  <2> QED BY <2>2, <2>4
<1>13. CASE ApplyAbort
  <2>1. /\ DOMAIN pending' = DOMAIN pending \ {e} /\ NextEvent /\ UNCHANGED orphans
        /\ Current.type = "Abort"
    BY <1>13 DEF ApplyAbort, Without, Applying
  <2>2. Protocol' BY <1>6, <1>7, <2>1
  <2>3. CASE e \in DOMAIN pending
    <3>1. incomplete' = incomplete + 1 BY <1>13, <2>3 DEF ApplyAbort
    <3>2. ~Clean' BY <1>3, <3>1 DEF Clean
    <3> QED BY <2>2, <3>2
  <2>4. CASE e \notin DOMAIN pending
    <3>1. incomplete' = incomplete BY <1>3, <1>13, <2>4 DEF ApplyAbort
    <3>2. wpc' = "enforce" BY <1>4, <2>1 DEF NextEvent
    <3>3. Keeping
      <4>1. \A i : WorkerCloses(i)' => WorkerCloses(i)
        BY <3>2 DEF WorkerCloses
      <4>2. WorkerCloses(e) BY <1>1, <1>4, <2>1 DEF WorkerCloses
      <4> QED BY <1>5, <2>1, <4>1, <4>2 DEF Keeping
    <3>4. Clean' => EventsFind'
      BY <1>1, <2>1, <3>1, <3>2, <3>3, AdvanceFind DEF Clean
    <3> QED BY <2>2, <3>4
  <2> QED BY <2>3, <2>4
\* The end: the session leaves the pending ones and is committed.
<1>14. CASE ApplyEnd
  <2>1. /\ DOMAIN pending' = DOMAIN pending \ {e} /\ wpc' = "insert" /\ wi' = wi
        /\ wsess'.id = e /\ UNCHANGED <<orphans, incomplete>> /\ Current.type = "End"
    BY <1>14 DEF ApplyEnd, Without, Applying
  <2>2. WorkerEnds(e) /\ WorkerCloses(e)
    BY <1>1, <1>4, <2>1, AboutIt DEF WorkerEnds, WorkerCloses
  <2>3. ~Done(e) BY <1>2, <2>2 DEF Protocol, EndIsLast
  <2>4. LogOnce'
    BY <1>1, <2>1, <2>3 DEF Protocol, LogOnce, Done
  <2>5. \A i : Done(i)' => Done(i) \/ i = e
    BY <1>1, <2>1 DEF Done
  <2>6. \A i : ~WorkerEnds(i)' /\ ~WorkerStarts(i)' /\ ~WorkerCloses(i)'
    BY <2>1 DEF WorkerEnds, WorkerStarts, WorkerCloses
  <2>7. Advancing
    BY <2>1, <2>2, <2>5, <2>6 DEF Advancing
  <2>8. Protocol' BY <1>1, <2>4, <2>7, AdvanceProtocol
  <2>9. Keeping BY <1>5, <2>1, <2>2, <2>6 DEF Keeping
  <2>10. Clean' => EventsFind'
    BY <1>1, <2>1, <2>9, AdvanceFind DEF Clean
  <2> QED BY <2>8, <2>10
<1> QED BY <1>9, <1>10, <1>11, <1>12, <1>13, <1>14 DEF PendingStep

\* Commit and budget: the worker applies nothing.
LEMMA RestAccountStep ==
    ASSUME TInv, PendingBound, Protocol, Clean => EventsFind, CommitStep \/ BudgetStep
    PROVE  Protocol' /\ (Clean' => EventsFind')
<1> USE DEF TInv, TypeOK
<1>1. ThreadsStill /\ UNCHANGED <<queue, orphans, queueDropped, wipedPending>>
  <2>1. CASE CommitStep
    BY <2>1 DEF CommitStep, InsertTooLarge, InsertEvict, InsertPush, Publish, CommitFrame,
       ThreadsStill, counterVars, producerVars, pendingVars, wipeVars
  <2>2. CASE BudgetStep
    BY <2>2 DEF BudgetStep, EnforceBudget, EvictToBudget, ReleaseQueueBytes, BudgetFrame,
       ThreadsStill, counterVars, producerVars, pendingVars, wipeVars
  <2> QED BY <2>1, <2>2
<1>2. wpc \in {"insert", "publish", "enforce", "evict"} /\ wpc' # "apply"
  <2>1. CASE Publish
    <3>1. wi = Len(wcmd.events) /\ Len(wcmd.events) \in Nat
      BY <2>1 DEF Publish, PendingBound, WorkerTypeOK, Command
    <3>2. wpc' = "enforce" BY <2>1, <3>1 DEF Publish, NextEvent
    <3> QED BY <2>1, <3>2 DEF Publish
  <2>2. CASE ~Publish
    BY <2>2 DEF CommitStep, InsertTooLarge, InsertEvict, InsertPush, BudgetStep,
       EnforceBudget, EvictToBudget, ReleaseQueueBytes
  <2> QED BY <2>1, <2>2
<1>3. \A i : /\ ~WorkerEnds(i)' /\ ~WorkerStarts(i)' /\ ~WorkerCloses(i)'
             /\ ~WorkerStarts(i) /\ ~WorkerCloses(i)
  BY <1>2 DEF WorkerEnds, WorkerStarts, WorkerCloses
<1>4. /\ DOMAIN pending' \subseteq DOMAIN pending
      /\ Clean' => Clean /\ DOMAIN pending' = DOMAIN pending
  <2>1. CASE EnforceBudget
    <3>1. incomplete \in Nat BY DEF PendingTypeOK
    <3>2. CASE UNCHANGED <<pending, incomplete>>
      BY <1>1, <3>2 DEF Clean
    <3>3. CASE pending' = Without(Current.id) /\ incomplete' = incomplete + 1
      BY <3>1, <3>3 DEF Clean, Without
    <3> QED BY <2>1, <3>2, <3>3 DEF EnforceBudget
  <2>2. CASE ~EnforceBudget
    <3>1. UNCHANGED pendingVars
      BY <2>2 DEF CommitStep, InsertTooLarge, InsertEvict, InsertPush, Publish, CommitFrame,
         BudgetStep, EvictToBudget, ReleaseQueueBytes
    <3> QED BY <1>1, <3>1 DEF pendingVars, Clean
  <2> QED BY <2>1, <2>2
<1>5. LogOnce' /\ \A i \in Ids : Done(i)' => Done(i)
  <2>1. CASE Publish
    <3>1. /\ wpc = "publish" /\ wsess \in Resident /\ wpc' = "enforce"
          /\ log' = Append(log, wsess.id) /\ log \in Seq(Ids)
      BY <1>2, <2>1 DEF Publish, NextEvent, CommandsWellFormed, SubscriberTypeOK
    <3>2. wsess.id \in Ids BY <3>1 DEF Resident
    <3>3. /\ Len(log') = Len(log) + 1 /\ log'[Len(log) + 1] = wsess.id /\ Len(log) \in Nat
          /\ \A k \in 1..Len(log) : log'[k] = log[k]
      BY <3>1, <3>2
    <3>4. \A k \in 1..Len(log') : k \in 1..Len(log) \/ k = Len(log) + 1
      BY <3>3
    <3>5. \A k \in 1..Len(log) : log[k] # wsess.id
      BY <3>1 DEF Protocol, LogOnce
    <3>6. \A k, l \in 1..Len(log') : log'[k] = log'[l] => k = l
      BY <3>3, <3>4, <3>5 DEF Protocol, LogOnce
    <3>7. LogOnce' BY <3>1, <3>6 DEF LogOnce
    <3>8. \A i : Done(i)' => Done(i)
      BY <3>1, <3>3, <3>4 DEF Done
    <3> QED BY <3>7, <3>8
  <2>2. CASE InsertTooLarge \/ InsertEvict \/ InsertPush
    <3>1. /\ wpc = "insert" /\ wpc' \in {"insert", "publish"} /\ UNCHANGED <<log, wsess>>
      BY <2>2 DEF InsertTooLarge, InsertEvict, InsertPush, followVars
    <3> QED BY <3>1 DEF Done, LogOnce, Protocol
  <2>3. CASE BudgetStep
    <3>1. wpc' \notin {"insert", "publish"} /\ UNCHANGED log
      BY <2>3 DEF BudgetStep, EnforceBudget, EvictToBudget, ReleaseQueueBytes, BudgetFrame,
         followVars
    <3> QED BY <3>1 DEF Done, LogOnce, Protocol
  <2> QED BY <2>1, <2>2, <2>3 DEF CommitStep
<1>6. Advancing
  BY <1>2, <1>3, <1>4, <1>5 DEF Advancing
<1>7. Protocol' BY <1>1, <1>5, <1>6, AdvanceProtocol
<1>8. Clean' => EventsFind'
  <2> SUFFICES ASSUME Clean' PROVE EventsFind' OBVIOUS
  <2>1. Keeping BY <1>3, <1>4 DEF Keeping
  <2> QED BY <1>1, <1>2, <1>4, <2>1, AdvanceFind
<1> QED BY <1>7, <1>8

\* The clock changes ages only.
LEMMA TickAccountStep ==
    ASSUME TInv, Protocol, Clean => EventsFind, Tick
    PROVE  Protocol' /\ (Clean' => EventsFind')
<1>1. /\ ThreadsStill /\ DOMAIN pending' = DOMAIN pending
      /\ UNCHANGED <<queue, orphans, queueDropped, incomplete, wipedPending, wpc, wcmd, wi,
                     wsess, log>>
  BY DEF Tick, ThreadsStill, counterVars, producerVars, workerVars, followVars, wipeVars
<1>2. ASSUME NEW i
      PROVE  /\ WorkerEnds(i)' <=> WorkerEnds(i)
             /\ WorkerCloses(i)' <=> WorkerCloses(i)
             /\ WorkerStarts(i)' <=> WorkerStarts(i)
             /\ Done(i)' <=> Done(i)
  BY <1>1 DEF WorkerEnds, WorkerCloses, WorkerStarts, Done
<1>3. LogOnce' BY <1>1 DEF LogOnce, Protocol
<1>4. Advancing BY <1>1, <1>2 DEF Advancing
<1>5. Protocol' BY <1>1, <1>3, <1>4, AdvanceProtocol
<1>6. ASSUME EventsFind PROVE EventsFind'
  <2>1. ASSUME NEW i, NEW k PROVE Opened(i, k)' <=> Opened(i, k)
    BY <1>1, <1>2 DEF Opened
  <2>2. \A p, i : Ready(p, i)' <=> Ready(p, i)
    BY <1>1 DEF Ready, ThreadsStill
  <2>3. (wpc = "apply" /\ Current.type # "Abort")' =>
           (Current.id \in DOMAIN pending \/ WorkerStarts(Current.id))'
    <3>1. Current' = Current BY <1>1 DEF Current
    <3> QED BY <1>1, <1>2, <1>6, <3>1 DEF EventsFind, WorkerStarts
  <2> QED BY <1>1, <1>6, <2>1, <2>2, <2>3 DEF EventsFind
<1> QED BY <1>1, <1>5, <1>6 DEF Clean

\* Every step keeps the protocol, and what events find as long as nothing was lost.
LEMMA AccountStep ==
    TInv /\ PendingBound /\ Protocol /\ (Clean => EventsFind) /\ [Next]_vars
       => Protocol' /\ (Clean' => EventsFind')
<1> SUFFICES ASSUME TInv, PendingBound, Protocol, Clean => EventsFind, [Next]_vars
             PROVE  Protocol' /\ (Clean' => EventsFind')
  OBVIOUS
<1>1. CASE \E p \in Producers : ProducerStep(p)
  BY <1>1, OwnCallStep, OpenCallStep, SubmitQuietStep, TrySendStep DEF ProducerStep
<1>2. CASE \/ \E c \in Callers : CallerStep(c)
           \/ \E s \in Subscribers : SubscriberStep(s)
           \/ OwnerStep
  BY <1>2, QueryAccountStep
<1>3. CASE WorkerStep
  BY <1>3, RecvAccountStep, ApplyAccountStep, RestAccountStep DEF WorkerStep
<1>4. CASE Tick
  BY <1>4, TickAccountStep
<1>5. CASE Terminated \/ UNCHANGED vars
  <2>1. /\ CollectorStill /\ ThreadsStill
        /\ UNCHANGED <<queue, orphans, queueDropped, incomplete, wipedPending>>
    BY <1>5 DEF Terminated, vars, CollectorStill, ThreadsStill, counterVars, producerVars,
       workerVars, pendingVars, followVars, wipeVars
  <2>2. Receding /\ IdleHands'
    BY <2>1, ThreadsStillFacts DEF Receding, ThreadsStill, Protocol, Threads
  <2>3. Protocol' BY <2>1, <2>2, QuietProtocol DEF ThreadsStill
  <2>4. \A p, i : Ready(p, i)' <=> Ready(p, i)
    BY <2>1 DEF Ready, ThreadsStill
  <2>5. Clean' => EventsFind' BY <2>1, <2>4, QuietFind DEF Clean
  <2> QED BY <2>3, <2>5
<1> QED BY <1>1, <1>2, <1>3, <1>4, <1>5 DEF Next

\* Initially nobody knows of any session.
LEMMA AccountInit == Init => AccountInv
<1> SUFFICES ASSUME Init PROVE AccountInv OBVIOUS
<1>1. /\ queue = <<>> /\ Len(queue) = 0 /\ Len(log) = 0 /\ wpc = "recv" /\ orphans = 0
      /\ Len(memory) = 0 /\ DOMAIN pending = {}
      /\ \A p \in Producers : pid[p] = 0 /\ pcmd[p] = NoCommand
  BY DEF Init, NoPending
<1>2. \A k : k \notin 1..0 OBVIOUS
<1>3. \A i \in Ids : i # 0 BY DEF Ids
<1>4. \A p \in Producers, i \in Ids : ~Concerns(p, i) /\ ~Ready(p, i)
  BY <1>1, <1>3, NoCommandType, PlainAbout DEF Concerns, Ready
<1>5. \A p \in Producers, i \in Ids : ~Starts(pcmd[p], i) /\ ~Closes(pcmd[p], i)
  BY <1>1, NoCommandType, PlainAbout
<1>6. \A i : ~Done(i) /\ ~WorkerEnds(i)
  BY <1>1, <1>2 DEF Done, WorkerEnds
<1>7. IdleHands BY <1>1, NoCommandType DEF IdleHands
<1>8. Threads BY <1>4, <1>5 DEF Threads
<1>9. HandedOut BY <1>1, <1>2, <1>6 DEF HandedOut
<1>10. EndIsLast BY <1>1, <1>2, <1>6 DEF EndIsLast
<1>11. LogOnce BY <1>1, <1>2 DEF LogOnce
<1>12. EventsFind BY <1>1, <1>2, <1>4 DEF EventsFind
<1>13. SessionsConserved
  <2>1. Cardinality(DOMAIN pending) = 0 BY <1>1, FS_EmptySet
  <2> QED BY <1>1, <2>1 DEF Init, SessionsConserved
<1> QED BY <1>7, <1>8, <1>9, <1>10, <1>11, <1>12, <1>13 DEF AccountInv, Protocol

\* The inductive invariant of the accounts: the counting, the protocol of the sessions,
\* and, as long as nothing was lost, that every event will find its session.
THEOREM AccountInvariance == Spec => []AccountInv
<1>1. TInv /\ PendingBound /\ AccountInv /\ [Next]_vars => AccountInv'
  BY ConservedStep, AccountStep DEF AccountInv
<1> QED BY <1>1, AccountInit, Invariance, PTL DEF Spec

\* Every session and every event is accounted for, whatever the number of threads, the
\* limits and the interleaving: no session is lost without being counted, none is
\* committed twice or becomes pending again, and an event misses its session only after
\* a counted loss (worker.rs, pending.rs, store.rs, trace_helpers.rs).
THEOREM SessionsAccountedTheorem == Spec => []SessionsAccounted
<1>1. TInv /\ AccountInv => SessionsAccounted
  <2> SUFFICES ASSUME TInv, AccountInv PROVE SessionsAccounted OBVIOUS
  <2>1. SessionsConserved BY DEF AccountInv
  <2>2. DOMAIN log = 1..Len(log) /\ \A k \in 1..Len(log) : log[k] \in Ids
    BY DEF TInv, TypeOK, SubscriberTypeOK
  <2>3. CompletedOnce
    <3>1. \A k \in 1..Len(log) : Done(log[k]) BY DEF Done
    <3>2. \A k \in 1..Len(log) : log[k] \notin DOMAIN pending
      BY <2>2, <3>1 DEF AccountInv, Protocol, EndIsLast
    <3> QED BY <2>2, <3>2 DEF AccountInv, Protocol, LogOnce, CompletedOnce
  <2>4. NoSpuriousOrphans
    BY DEF AccountInv, EventsFind, Clean, NoSpuriousOrphans
  <2> QED BY <2>1, <2>3, <2>4 DEF SessionsAccounted
<1> QED BY <1>1, AccountInvariance, Invariance, PTL

-----------------------------------------------------------------------------
(***************************************************************************)
(* The follow streams.  What a sequence of session identifiers is relative *)
(* to the log g of commits: every one of them is in it, and in its order.  *)
(***************************************************************************)
Logged(t, g)  == \A i \in 1..Len(t) : \E k \in 1..Len(g) : g[k] = t[i]
InOrder(t, g) == \A i, j \in 1..Len(t), k, l \in 1..Len(g) :
                    i < j /\ g[k] = t[i] /\ g[l] = t[j] => k < l

\* The identifiers of the resident sessions, oldest first.
Residents == [i \in 1..Len(memory) |-> memory[i].id]

\* Resident sessions have been committed in their order; the newest may be the
\* one that is inserted but not yet published.
MemoryLogged ==
    /\ \A i \in 1..Len(memory) :
          \/ \E k \in 1..Len(log) : log[k] = memory[i].id
          \/ wpc = "publish" /\ i = Len(memory) /\ memory[i].id = wsess.id
    /\ InOrder(Residents, log)

\* A follow command in the queue belongs to a subscriber that waits for its
\* reply, and a subscriber sends one.
FollowQueued ==
    /\ \A k \in 1..Len(queue) :
          queue[k].kind = "Follow" => spc[queue[k].who] = "wait"
    /\ \A k, l \in 1..Len(queue) :
          /\ queue[k].kind = "Follow" /\ queue[l].kind = "Follow"
          /\ queue[k].who = queue[l].who
          => k = l

\* Before it is registered a subscriber has received and missed nothing.
Untouched(s) == sgot[s] = <<>> /\ sbacklog[s] = <<>> /\ schan[s] = <<>> /\ smissed[s] = <<>>
Registers == \A s \in Subscribers : spc[s] \in {"idle", "send", "wait"} => Untouched(s)

\* The stream t and the losses m of a subscriber registered as r, with the log g
\* and the counter d of losses: together as many as the backlog and the commits
\* since, the stream in commit order, the losses after the registration and not
\* in the stream.
Streams(t, m, r, g, d) ==
    /\ r.at <= Len(g)
    /\ Len(t) + Len(m) = r.backlog + (Len(g) - r.at)
    /\ Logged(t, g) /\ InOrder(t, g)
    /\ \A i \in 1..Len(m) : \E k \in 1..Len(g) : k > r.at /\ g[k] = m[i]
    /\ \A i \in 1..Len(t), j \in 1..Len(m) : t[i] # m[j]
    /\ Len(m) <= d

Followed(s) == s \in followers /\ Streams(Stream(s), smissed[s], sreg[s], log, followDropped)

Follows == \A s \in Subscribers : spc[s] = "follow" => Followed(s)

FollowInv == MemoryLogged /\ FollowQueued /\ Registers /\ Follows

\* Moving the head of one sequence to the end of another changes nothing of the two
\* in a row.
Moved(u, v) == Append(u, Head(v)) \o Tail(v)

LEMMA HeadMoved ==
    ASSUME NEW u \in Seq(Ids), NEW v \in Seq(Ids), v # <<>>
    PROVE  Moved(u, v) = u \o v
<1>1. /\ Head(v) \in Ids /\ Tail(v) \in Seq(Ids) /\ Len(Tail(v)) = Len(v) - 1
      /\ Len(v) \in Nat \ {0} /\ Head(v) = v[1]
      /\ \A k \in 1..Len(Tail(v)) : Tail(v)[k] = v[k + 1]
  OBVIOUS
<1>2. PICK w \in Seq(Ids) : w = Tail(v) BY <1>1
<1>3. PICK x \in Ids : x = Head(v) BY <1>1
<1>4. Append(u, x) \in Seq(Ids) OBVIOUS
<1>5. PICK a \in Seq(Ids) : a = Append(u, x) BY <1>4
<1>6. /\ Len(a) = Len(u) + 1 /\ a[Len(u) + 1] = v[1] /\ Len(u) \in Nat
      /\ \A k \in 1..Len(u) : a[k] = u[k]
  BY <1>1, <1>3, <1>5
<1>7. Len(a \o w) = Len(u \o v)
  <2>1. Len(a \o w) = Len(a) + Len(w) /\ Len(u \o v) = Len(u) + Len(v)
    OBVIOUS
  <2>2. Len(w) = Len(v) - 1 BY <1>1, <1>2
  <2> QED BY <1>1, <1>6, <2>1, <2>2
<1>8. ASSUME NEW k \in 1..Len(u \o v) PROVE (a \o w)[k] = (u \o v)[k]
  <2>1. k \in 1..(Len(u) + Len(v)) OBVIOUS
  <2>2. CASE k <= Len(u) BY <1>6, <2>2
  <2>3. CASE k = Len(u) + 1 BY <1>1, <1>6, <2>3
  <2>4. CASE k > Len(u) + 1
    <3>1. (u \o v)[k] = v[k - Len(u)] BY <1>6, <2>4
    <3>2. (a \o w)[k] = w[k - Len(a)] BY <1>1, <1>2, <1>6, <2>4
    <3>3. Len(w) = Len(v) - 1 /\ \A m \in 1..Len(w) : w[m] = v[m + 1]
      BY <1>1, <1>2
    <3>4. k - Len(a) \in 1..Len(w) /\ (k - Len(a)) + 1 = k - Len(u)
      BY <1>1, <1>6, <2>4, <2>1, <3>3
    <3>5. PICK m \in 1..Len(w) : m = k - Len(a) BY <3>4
    <3>6. (a \o w)[k] = w[m] /\ w[m] = v[m + 1] BY <3>2, <3>3, <3>5
    <3>7. (u \o v)[k] = v[m + 1] BY <3>1, <3>4, <3>5
    <3> QED BY <3>6, <3>7
  <2>5. k <= Len(u) \/ k = Len(u) + 1 \/ k > Len(u) + 1
    <3>1. Len(u) \in Nat /\ Len(v) \in Nat OBVIOUS
    <3> QED BY <2>1, <3>1
  <2> QED BY <2>2, <2>3, <2>4, <2>5
<1>9. a \o w \in Seq(Ids) /\ u \o v \in Seq(Ids) OBVIOUS
<1>10. a \o w = u \o v BY <1>7, <1>8, <1>9
<1> QED BY <1>2, <1>3, <1>5, <1>10 DEF Moved

\* What is committed next comes after everything in the log.
LEMMA LogGrows ==
    ASSUME NEW g \in Seq(Ids), NEW t \in Seq(Ids), NEW x \in Ids,
           \A k \in 1..Len(g) : g[k] # x,
           Logged(t, g), InOrder(t, g)
    PROVE  /\ Logged(t, Append(g, x)) /\ InOrder(t, Append(g, x))
           /\ Logged(Append(t, x), Append(g, x)) /\ InOrder(Append(t, x), Append(g, x))
           /\ \A i \in 1..Len(t) : t[i] # x
<1> DEFINE h == Append(g, x)
           u == Append(t, x)
<1>1. /\ Len(h) = Len(g) + 1 /\ h[Len(g) + 1] = x /\ Len(g) \in Nat
      /\ \A k \in 1..Len(g) : h[k] = g[k]
  OBVIOUS
<1>2. /\ Len(u) = Len(t) + 1 /\ u[Len(t) + 1] = x /\ Len(t) \in Nat
      /\ \A k \in 1..Len(t) : u[k] = t[k]
  OBVIOUS
<1>3. \A k \in 1..Len(h) : k \in 1..Len(g) \/ k = Len(g) + 1
  BY <1>1
<1>4. \A k \in 1..Len(g) : k \in 1..Len(h)
  BY <1>1
<1>5. \A k \in 1..Len(u) : k \in 1..Len(t) \/ k = Len(t) + 1
  BY <1>2
<1>6. Len(g) + 1 \in 1..Len(h) BY <1>1
<1> HIDE DEF h, u
<1>7. \A i \in 1..Len(t) : t[i] # x
  BY DEF Logged
<1>8. Logged(t, h)
  BY <1>1, <1>4 DEF Logged
<1>9. InOrder(t, h)
  <2> SUFFICES ASSUME NEW i \in 1..Len(t), NEW j \in 1..Len(t),
                      NEW k \in 1..Len(h), NEW l \in 1..Len(h),
                      i < j, h[k] = t[i], h[l] = t[j]
               PROVE  k < l
    BY DEF InOrder
  <2>1. k \in 1..Len(g) /\ l \in 1..Len(g)
    BY <1>1, <1>3, <1>7
  <2> QED BY <1>1, <2>1 DEF InOrder
<1>10. Logged(u, h)
  <2> SUFFICES ASSUME NEW i \in 1..Len(u) PROVE \E k \in 1..Len(h) : h[k] = u[i]
    BY DEF Logged
  <2>1. CASE i \in 1..Len(t) BY <1>2, <1>8, <2>1 DEF Logged
  <2>2. CASE i = Len(t) + 1 BY <1>1, <1>2, <1>6, <2>2
  <2> QED BY <1>5, <2>1, <2>2
<1>11. InOrder(u, h)
  <2> SUFFICES ASSUME NEW i \in 1..Len(u), NEW j \in 1..Len(u),
                      NEW k \in 1..Len(h), NEW l \in 1..Len(h),
                      i < j, h[k] = u[i], h[l] = u[j]
               PROVE  k < l
    BY DEF InOrder
  <2>1. i \in 1..Len(t)
    BY <1>2, <1>5
  <2>2. u[i] = t[i] /\ k \in 1..Len(g)
    BY <1>1, <1>2, <1>3, <1>7, <2>1
  <2>3. CASE j \in 1..Len(t)
    BY <1>2, <1>9, <2>1, <2>2, <2>3 DEF InOrder
  <2>4. CASE j = Len(t) + 1
    <3>1. l = Len(g) + 1 BY <1>1, <1>2, <1>3, <2>4
    <3> QED BY <1>1, <2>2, <3>1
  <2> QED BY <1>5, <2>3, <2>4
<1> QED BY <1>7, <1>8, <1>9, <1>10, <1>11 DEF h, u

\* A commit reaches a subscriber or is counted as lost.
LEMMA StreamsGrow ==
    ASSUME NEW g \in Seq(Ids), NEW t \in Seq(Ids), NEW m \in Seq(Ids), NEW d \in Nat,
           NEW e \in Nat, NEW x \in Ids, NEW r \in [at : Nat, backlog : Nat],
           \A k \in 1..Len(g) : g[k] # x, Streams(t, m, r, g, d)
    PROVE  /\ Streams(Append(t, x), m, r, Append(g, x), d + e)
           /\ e > 0 => Streams(t, Append(m, x), r, Append(g, x), d + e)
<1> DEFINE h == Append(g, x)
           u == Append(t, x)
           v == Append(m, x)
<1>1. /\ Len(h) = Len(g) + 1 /\ h[Len(g) + 1] = x /\ Len(g) \in Nat
      /\ \A k \in 1..Len(g) : h[k] = g[k]
  OBVIOUS
<1>2. /\ Len(u) = Len(t) + 1 /\ u[Len(t) + 1] = x /\ Len(t) \in Nat
      /\ \A k \in 1..Len(t) : u[k] = t[k]
  OBVIOUS
<1>3. /\ Len(v) = Len(m) + 1 /\ v[Len(m) + 1] = x /\ Len(m) \in Nat
      /\ \A k \in 1..Len(m) : v[k] = m[k]
  OBVIOUS
<1>4. \A k \in 1..Len(g) : k \in 1..Len(h)
  BY <1>1
<1>5. Len(g) + 1 \in 1..Len(h) BY <1>1
<1>6. Logged(t, g) /\ InOrder(t, g) BY DEF Streams
<1>7. /\ Logged(t, h) /\ InOrder(t, h) /\ Logged(u, h) /\ InOrder(u, h)
      /\ \A i \in 1..Len(t) : t[i] # x
  BY <1>6, LogGrows
<1> HIDE DEF h, u, v
<1>8. \A k \in 1..Len(u) : k \in 1..Len(t) \/ k = Len(t) + 1
  BY <1>2
<1>9. /\ Len(h) = Len(g) + 1 /\ Len(t) \in Nat /\ Len(g) \in Nat
      /\ Len(v) = Len(m) + 1 /\ Len(m) \in Nat
  BY <1>1, <1>2, <1>3
<1>10. \A k \in 1..Len(v) : k \in 1..Len(m) \/ k = Len(m) + 1
  BY <1>9
<1>11. /\ r.at \in Nat /\ r.backlog \in Nat /\ r.at <= Len(g)
       /\ Len(t) + Len(m) = r.backlog + (Len(g) - r.at) /\ Len(m) <= d
  BY DEF Streams
<1>12. \A i \in 1..Len(m) : \E k \in 1..Len(g) : k > r.at /\ g[k] = m[i]
  BY DEF Streams
<1>13. \A i \in 1..Len(m) : \E k \in 1..Len(h) : k > r.at /\ h[k] = m[i]
  BY <1>1, <1>4, <1>12
<1>14. \A i \in 1..Len(m) : m[i] # x
  BY <1>12
<1>15. \A i \in 1..Len(t), j \in 1..Len(m) : t[i] # m[j]
  BY DEF Streams
<1>16. Streams(u, m, r, h, d + e)
  <2>1. \A i \in 1..Len(u), j \in 1..Len(m) : u[i] # m[j]
    BY <1>2, <1>8, <1>14, <1>15
  <2>2. /\ r.at <= Len(h) /\ Len(u) + Len(m) = r.backlog + (Len(h) - r.at)
        /\ Len(m) <= d + e
    BY <1>1, <1>2, <1>3, <1>11
  <2> QED BY <1>7, <1>13, <2>1, <2>2 DEF Streams
<1>17. ASSUME e > 0 PROVE Streams(t, v, r, h, d + e)
  <2>1. \A i \in 1..Len(t), j \in 1..Len(v) : t[i] # v[j]
    BY <1>3, <1>10, <1>7, <1>15
  <2>2. /\ r.at <= Len(h) /\ Len(t) + Len(v) = r.backlog + (Len(h) - r.at)
        /\ Len(v) <= d + e
    <3>1. e >= 1 BY <1>17
    <3>2. Len(v) <= d + e BY <1>3, <1>11, <3>1
    <3> QED BY <1>11, <1>9, <3>2
  <2>3. ASSUME NEW i \in 1..Len(v) PROVE \E k \in 1..Len(h) : k > r.at /\ h[k] = v[i]
    <3>1. CASE i \in 1..Len(m) BY <1>3, <1>13, <3>1
    <3>2. CASE i = Len(m) + 1
      <4>1. Len(g) + 1 > r.at BY <1>1, <1>11
      <4> QED BY <1>1, <1>3, <1>5, <3>2, <4>1
    <3> QED BY <1>10, <3>1, <3>2
  <2> QED BY <1>7, <2>1, <2>2, <2>3 DEF Streams
<1> QED BY <1>16, <1>17 DEF h, u, v

\* Resident sessions under the steps that leave the log alone: nothing changes, the oldest
\* one goes, or all of them go.
LEMMA MemoryKept ==
    ASSUME TInv, MemoryLogged, UNCHANGED log,
           \/ UNCHANGED memory /\ (wpc = "publish" => wpc' = "publish" /\ wsess' = wsess)
           \/ memory # <<>> /\ memory' = Tail(memory) /\ wpc # "publish"
           \/ memory' = <<>>
    PROVE  MemoryLogged'
<1> USE DEF TInv, TypeOK
<1>1. CASE UNCHANGED memory /\ (wpc = "publish" => wpc' = "publish" /\ wsess' = wsess)
  <2>1. Residents' = Residents BY <1>1 DEF Residents
  <2> QED BY <1>1, <2>1 DEF MemoryLogged
<1>2. CASE memory # <<>> /\ memory' = Tail(memory) /\ wpc # "publish"
  <2>1. /\ Len(memory') = Len(memory) - 1 /\ Len(memory) \in Nat \ {0}
        /\ \A i \in 1..Len(memory') : memory'[i] = memory[i + 1]
    BY <1>2 DEF MemoryTypeOK
  <2>2. \A i \in 1..Len(memory') : i + 1 \in 1..Len(memory)
    BY <2>1
  <2>3. \A i \in 1..Len(memory') : \E k \in 1..Len(log) : log[k] = memory'[i].id
    <3> TAKE i \in 1..Len(memory')
    <3>1. i + 1 \in 1..Len(memory) /\ memory'[i].id = memory[i + 1].id BY <2>1, <2>2
    <3> QED BY <1>2, <3>1 DEF MemoryLogged
  <2>4. /\ Len(Residents) = Len(memory) /\ Len(Residents') = Len(memory')
        /\ \A i \in 1..Len(memory) : Residents[i] = memory[i].id
        /\ \A i \in 1..Len(memory') : Residents'[i] = memory'[i].id
    BY <2>1 DEF Residents
  <2>5. InOrder(Residents, log) BY DEF MemoryLogged
  <2>6. InOrder(Residents', log)
    <3> SUFFICES ASSUME NEW i \in 1..Len(memory'), NEW j \in 1..Len(memory'),
                        NEW k \in 1..Len(log), NEW l \in 1..Len(log),
                        i < j, log[k] = Residents'[i], log[l] = Residents'[j]
                 PROVE  k < l
      BY <2>4 DEF InOrder
    <3>1. i + 1 < j + 1 /\ i + 1 \in 1..Len(memory) /\ j + 1 \in 1..Len(memory)
      BY <2>1, <2>2
    <3>2. log[k] = Residents[i + 1] /\ log[l] = Residents[j + 1]
      BY <2>1, <2>4, <3>1
    <3> QED BY <2>4, <2>5, <3>1, <3>2 DEF InOrder
  <2> QED BY <2>3, <2>6 DEF MemoryLogged
<1>3. CASE memory' = <<>>
  <2>1. Len(memory') = 0 /\ Len(Residents') = 0 BY <1>3 DEF Residents
  <2>2. \A i : i \notin 1..0 OBVIOUS
  <2> QED BY <2>1, <2>2 DEF MemoryLogged, InOrder
<1> QED BY <1>1, <1>2, <1>3

\* The session that is inserted is newer than everything in the log.
LEMMA MemoryPushed ==
    ASSUME TInv, LogOnce, MemoryLogged, wpc = "insert", wpc' = "publish",
           UNCHANGED <<wsess, log>>, memory' = Append(memory, wsess)
    PROVE  MemoryLogged'
<1> USE DEF TInv, TypeOK
<1>1. wsess \in Resident BY DEF CommandsWellFormed
<1>2. /\ Len(memory') = Len(memory) + 1 /\ memory'[Len(memory) + 1] = wsess
      /\ Len(memory) \in Nat /\ \A i \in 1..Len(memory) : memory'[i] = memory[i]
  BY <1>1 DEF MemoryTypeOK
<1>3. \A i \in 1..Len(memory') : i \in 1..Len(memory) \/ i = Len(memory')
  BY <1>2
<1>4. /\ Len(Residents) = Len(memory) /\ Len(Residents') = Len(memory')
      /\ \A i \in 1..Len(memory) : Residents[i] = memory[i].id
      /\ \A i \in 1..Len(memory') : Residents'[i] = memory'[i].id
  BY <1>2 DEF Residents
<1>5. \A k \in 1..Len(log) : log[k] # wsess.id
  BY DEF LogOnce
<1>6. InOrder(Residents', log)
  <2> SUFFICES ASSUME NEW i \in 1..Len(memory'), NEW j \in 1..Len(memory'),
                      NEW k \in 1..Len(log), NEW l \in 1..Len(log),
                      i < j, log[k] = Residents'[i], log[l] = Residents'[j]
               PROVE  k < l
    BY <1>4 DEF InOrder
  <2>1. i \in 1..Len(memory) /\ j \in 1..Len(memory)
    BY <1>2, <1>3, <1>4, <1>5
  <2>2. log[k] = Residents[i] /\ log[l] = Residents[j]
    BY <1>2, <1>4, <2>1
  <2> QED BY <1>4, <2>1, <2>2 DEF MemoryLogged, InOrder
<1>7. \A i \in 1..Len(memory') :
         \/ \E k \in 1..Len(log) : log[k] = memory'[i].id
         \/ i = Len(memory') /\ memory'[i].id = wsess.id
  BY <1>2, <1>3 DEF MemoryLogged
<1> QED BY <1>6, <1>7 DEF MemoryLogged

\* Publishing it puts it last into the log.
LEMMA MemoryPublished ==
    ASSUME TInv, LogOnce, MemoryLogged, wpc = "publish", UNCHANGED memory,
           log' = Append(log, wsess.id)
    PROVE  MemoryLogged'
<1> USE DEF TInv, TypeOK
<1>1. wsess.id \in Ids /\ log \in Seq(Ids)
  BY DEF CommandsWellFormed, Resident, SubscriberTypeOK
<1>2. /\ Len(log') = Len(log) + 1 /\ log'[Len(log) + 1] = wsess.id /\ Len(log) \in Nat
      /\ \A k \in 1..Len(log) : log'[k] = log[k]
  BY <1>1
<1>3. /\ \A k \in 1..Len(log') : k \in 1..Len(log) \/ k = Len(log) + 1
      /\ \A k \in 1..Len(log) : k \in 1..Len(log')
      /\ Len(log) + 1 \in 1..Len(log')
  BY <1>2
<1>4. \A k \in 1..Len(log) : log[k] # wsess.id
  BY DEF LogOnce
<1>5. Len(memory) \in Nat BY DEF MemoryTypeOK
<1>6. /\ Len(Residents) = Len(memory) /\ Residents' = Residents
      /\ \A i \in 1..Len(memory) : Residents[i] = memory[i].id
  BY <1>5 DEF Residents
<1>7. \A i \in 1..Len(memory) : \E k \in 1..Len(log') : log'[k] = memory[i].id
  BY <1>2, <1>3 DEF MemoryLogged
<1>8. InOrder(Residents, log')
  <2> SUFFICES ASSUME NEW i \in 1..Len(memory), NEW j \in 1..Len(memory),
                      NEW k \in 1..Len(log'), NEW l \in 1..Len(log'),
                      i < j, log'[k] = Residents[i], log'[l] = Residents[j]
               PROVE  k < l
    BY <1>6 DEF InOrder
  <2>1. i # Len(memory) BY <1>5
  <2>2. PICK n \in 1..Len(log) : log[n] = memory[i].id
    BY <2>1 DEF MemoryLogged
  <2>3. k \in 1..Len(log)
    BY <1>2, <1>3, <1>4, <1>6, <2>2
  <2>4. CASE l = Len(log) + 1 BY <1>2, <2>3, <2>4
  <2>5. CASE l \in 1..Len(log)
    <3>1. log[k] = Residents[i] /\ log[l] = Residents[j] BY <1>2, <2>3, <2>5
    <3> QED BY <1>6, <2>3, <2>5, <3>1 DEF MemoryLogged, InOrder
  <2> QED BY <1>3, <2>4, <2>5
<1> QED BY <1>6, <1>7, <1>8 DEF MemoryLogged

\* The follow commands in the queue when nothing is sent, something else is sent, or a
\* command is taken whose sender, if it is a follow command, is answered.
LEMMA QueueKept ==
    ASSUME TInv, FollowQueued,
           \A s \in Subscribers : spc[s] = "wait" => spc'[s] = "wait",
           \/ UNCHANGED queue
           \/ \E q \in Command : q.kind # "Follow" /\ queue' = Append(queue, q)
    PROVE  FollowQueued'
<1> USE DEF TInv, TypeOK
<1>1. \A k \in 1..Len(queue) : queue[k].kind = "Follow" => queue[k].who \in Subscribers
  BY DEF CommandsWellFormed
<1>2. CASE UNCHANGED queue
  BY <1>1, <1>2 DEF FollowQueued
<1>3. ASSUME NEW q \in Command, q.kind # "Follow", queue' = Append(queue, q)
      PROVE  FollowQueued'
  <2>1. /\ Len(queue') = Len(queue) + 1 /\ queue'[Len(queue) + 1] = q /\ Len(queue) \in Nat
        /\ \A k \in 1..Len(queue) : queue'[k] = queue[k]
    BY <1>3 DEF QueueTypeOK
  <2>2. \A k \in 1..Len(queue') : k \in 1..Len(queue) \/ k = Len(queue) + 1
    BY <2>1
  <2>3. \A k \in 1..Len(queue') : queue'[k].kind = "Follow" =>
           k \in 1..Len(queue) /\ queue'[k] = queue[k]
    BY <1>3, <2>1, <2>2
  <2> QED BY <1>1, <2>3 DEF FollowQueued
<1> QED BY <1>2, <1>3

LEMMA QueueTaken ==
    ASSUME TInv, FollowQueued, queue # <<>>, queue' = Tail(queue),
           \A s \in Subscribers : spc[s] = "wait" =>
              spc'[s] = "wait" \/ (Head(queue).kind = "Follow" /\ Head(queue).who = s)
    PROVE  FollowQueued'
<1> USE DEF TInv, TypeOK
<1>1. \A k \in 1..Len(queue) : queue[k].kind = "Follow" => queue[k].who \in Subscribers
  BY DEF CommandsWellFormed
<1>2. /\ Len(queue') = Len(queue) - 1 /\ Len(queue) \in Nat \ {0} /\ Head(queue) = queue[1]
      /\ \A k \in 1..Len(queue') : queue'[k] = queue[k + 1]
  BY DEF QueueTypeOK
<1>3. /\ \A k \in 1..Len(queue') : k + 1 \in 1..Len(queue) /\ k + 1 # 1
      /\ \A k, l \in 1..Len(queue') : k + 1 = l + 1 => k = l
      /\ 1 \in 1..Len(queue)
  BY <1>2
<1>4. ASSUME NEW k \in 1..Len(queue'), queue'[k].kind = "Follow"
      PROVE  spc'[queue'[k].who] = "wait"
  <2>1. PICK n \in 1..Len(queue) : n # 1 /\ queue'[k] = queue[n]
    BY <1>2, <1>3
  <2>2. queue[n].kind = "Follow" /\ queue[n].who \in Subscribers /\ spc[queue[n].who] = "wait"
    BY <1>1, <1>4, <2>1 DEF FollowQueued
  <2>3. ~(Head(queue).kind = "Follow" /\ Head(queue).who = queue[n].who)
    BY <1>2, <1>3, <2>1, <2>2 DEF FollowQueued
  <2> QED BY <2>1, <2>2, <2>3
<1>5. ASSUME NEW k \in 1..Len(queue'), NEW l \in 1..Len(queue'),
             queue'[k].kind = "Follow", queue'[l].kind = "Follow",
             queue'[k].who = queue'[l].who
      PROVE  k = l
  <2>1. queue'[k] = queue[k + 1] /\ queue'[l] = queue[l + 1]
    BY <1>2
  <2>2. k + 1 = l + 1 BY <1>3, <1>5, <2>1 DEF FollowQueued
  <2> QED BY <1>3, <2>2
<1> QED BY <1>4, <1>5 DEF FollowQueued

\* Subscribers are left alone: their streams stay what they are.
LEMMA SubscribersKept ==
    ASSUME Registers, Follows, UNCHANGED <<subVars, followVars>>
    PROVE  /\ Registers' /\ Follows' /\ UNCHANGED <<log, spc>>
<1>1. UNCHANGED <<spc, sbacklog, schan, sgot, smissed, sreg, followers, followDropped, log>>
  BY DEF subVars, followVars
<1>2. \A s : Stream(s)' = Stream(s) /\ (Untouched(s) => Untouched(s)')
  BY <1>1 DEF Stream, Untouched
<1> QED BY <1>1, <1>2 DEF Registers, Follows, Followed

\* Submissions, the queries of callers and of the owner, and the clock.
LEMMA QuietFollowStep ==
    ASSUME TInv, FollowInv,
           \/ \E p \in Producers : ProducerStep(p)
           \/ \E c \in Callers : CallerStep(c)
           \/ OwnerStep \/ Tick \/ Terminated \/ UNCHANGED vars
    PROVE  FollowInv'
<1> USE DEF TInv, TypeOK
<1>1. /\ UNCHANGED <<subVars, followVars, memory, wpc, wsess>>
      /\ \/ UNCHANGED queue
         \/ \E q \in Command : q.kind # "Follow" /\ queue' = Append(queue, q)
  <2> DEFINE Goal == /\ UNCHANGED <<subVars, followVars, memory, wpc, wsess>>
                     /\ \/ UNCHANGED queue
                        \/ \E q \in Command : q.kind # "Follow" /\ queue' = Append(queue, q)
  <2>1. ASSUME NEW p \in Producers, ProducerStep(p) PROVE Goal
    <3>1. CASE TrySend(p)
      <4>1. pcmd[p] \in Command /\ pcmd[p].kind # "Follow"
        BY <3>1 DEF TrySend, CommandsWellFormed, ProducerTypeOK
      <4> QED BY <3>1, <4>1 DEF TrySend, Enqueue, SubmitFrame, memoryVars, workerVars
    <3>2. CASE \/ Reserve(p) \/ ReserveRejected(p) \/ TrySendFull(p) \/ ReleaseRejected(p)
      BY <3>2 DEF Reserve, ReserveRejected, TrySendFull, ReleaseRejected, SubmitFrame,
         memoryVars, workerVars
    <3>3. CASE \/ Record(p) \/ Start(p) \/ Emit(p) \/ Finish(p) \/ Hide(p) \/ Forget(p)
               \/ Abort(p)
      BY <3>3 DEF Record, Start, Emit, Finish, Hide, Forget, Abort, CallFrame, memoryVars,
         workerVars
    <3> QED BY <2>1, <3>1, <3>2, <3>3 DEF ProducerStep
  <2>2. ASSUME NEW c \in Callers, CallerStep(c) PROVE Goal
    <3>1. ccmd[c] \in Command /\ ccmd[c].kind # "Follow"
      BY DEF CommandsWellFormed, QueueTypeOK
    <3> QED BY <2>2, <3>1 DEF CallerStep, CallQuery, SendQuery, Enqueue, QueryFrame, memoryVars,
               workerVars
  <2>3. CASE OwnerStep
    <3>1. /\ Query("Shutdown", NoOne) \in Command
          /\ Query("Shutdown", NoOne).kind # "Follow"
      BY QueryType
    <3> QED BY <2>3, <3>1 DEF OwnerStep, DropHandle, SendShutdown, Enqueue, QueryFrame,
               memoryVars, workerVars
  <2>4. CASE Tick BY <2>4 DEF Tick, memoryVars, workerVars
  <2>5. CASE Terminated \/ UNCHANGED vars
    BY <2>5 DEF Terminated, vars, memoryVars, workerVars
  <2> QED BY <2>1, <2>2, <2>3, <2>4, <2>5
<1>2. Registers' /\ Follows' /\ UNCHANGED <<log, spc>>
  BY <1>1, SubscribersKept DEF FollowInv
<1>3. MemoryLogged' BY <1>1, <1>2, MemoryKept DEF FollowInv
<1>4. FollowQueued' BY <1>1, <1>2, QueueKept DEF FollowInv
<1> QED BY <1>2, <1>3, <1>4 DEF FollowInv

\* A subscriber that receives moves along its stream.
Received(s) ==
    \/ /\ sbacklog[s] # <<>> /\ sgot'[s] = Append(sgot[s], Head(sbacklog[s]))
       /\ sbacklog'[s] = Tail(sbacklog[s]) /\ schan'[s] = schan[s]
    \/ /\ sbacklog[s] = <<>> /\ schan[s] # <<>> /\ sgot'[s] = Append(sgot[s], Head(schan[s]))
       /\ schan'[s] = Tail(schan[s]) /\ sbacklog'[s] = sbacklog[s]

LEMMA StreamReceived ==
    ASSUME NEW s, sgot[s] \in Seq(Ids), sbacklog[s] \in Seq(Ids), schan[s] \in Seq(Ids),
           Received(s)
    PROVE  Stream(s)' = Stream(s)
<1>1. PICK g \in Seq(Ids), b \in Seq(Ids), c \in Seq(Ids) :
         g = sgot[s] /\ b = sbacklog[s] /\ c = schan[s]
  OBVIOUS
<1>2. Stream(s) = (g \o b) \o c
  BY <1>1, Zenon DEF Stream
<1>3. CASE b # <<>> /\ sgot'[s] = Append(g, Head(b)) /\ sbacklog'[s] = Tail(b) /\ schan'[s] = c
  <2>1. Stream(s)' = Moved(g, b) \o c
    BY <1>3, Zenon DEF Stream, Moved
  <2>2. Moved(g, b) = g \o b BY <1>3, HeadMoved
  <2> QED BY <1>2, <2>1, <2>2, Zenon
<1>4. CASE /\ b = <<>> /\ c # <<>> /\ sgot'[s] = Append(g, Head(c))
           /\ schan'[s] = Tail(c) /\ sbacklog'[s] = b
  <2>1. PICK a \in Seq(Ids) : a = Append(g, Head(c))
    <3>1. Append(g, Head(c)) \in Seq(Ids) BY <1>4
    <3> QED BY <3>1
  <2>2. a \o b = a /\ g \o b = g BY <1>4
  <2>3. Stream(s)' = (a \o b) \o Tail(c)
    BY <1>4, <2>1, Zenon DEF Stream
  <2>4. a \o Tail(c) = Moved(g, c) BY <2>1, Zenon DEF Moved
  <2>5. Moved(g, c) = g \o c BY <1>4, HeadMoved
  <2> QED BY <1>2, <2>2, <2>3, <2>4, <2>5, Zenon
<1> QED BY <1>1, <1>3, <1>4 DEF Received

\* The steps of a subscriber.
LEMMA SubscriberFollowStep ==
    ASSUME TInv, FollowInv, NEW s \in Subscribers, SubscriberStep(s)
    PROVE  FollowInv'
<1> USE DEF TInv, TypeOK
<1>1. UNCHANGED <<memory, wpc, wsess, log, followers, followDropped>>
  BY DEF SubscriberStep, CallFollow, SendFollow, FollowRecv, FollowDrop, QueryFrame,
     memoryVars, workerVars, followVars
<1>2. MemoryLogged' BY <1>1, MemoryKept DEF FollowInv
<1>3. \A q \in Subscribers : q # s =>
         /\ spc'[q] = spc[q] /\ sgot'[q] = sgot[q] /\ sbacklog'[q] = sbacklog[q]
         /\ schan'[q] = schan[q] /\ smissed'[q] = smissed[q] /\ sreg'[q] = sreg[q]
  BY DEF SubscriberStep, CallFollow, SendFollow, FollowRecv, FollowDrop, SubscriberTypeOK
<1>4. \A q \in Subscribers : q # s =>
         /\ spc'[q] \in {"idle", "send", "wait"} => Untouched(q)'
         /\ spc'[q] = "follow" => Followed(q)'
  BY <1>1, <1>3 DEF FollowInv, Registers, Follows, Followed, Untouched, Stream
<1>5. smissed'[s] = smissed[s] /\ sreg'[s] = sreg[s]
  BY DEF SubscriberStep, CallFollow, SendFollow, FollowRecv, FollowDrop
<1>6. /\ spc'[s] \in {"idle", "send", "wait"} => Untouched(s)'
      /\ spc'[s] = "follow" => Followed(s)'
  <2>1. CASE CallFollow(s) \/ SendFollow(s)
    <3>1. /\ spc[s] \in {"idle", "send"} /\ spc'[s] \in {"send", "wait"}
          /\ UNCHANGED <<sgot, sbacklog, schan, smissed>>
      BY <2>1 DEF CallFollow, SendFollow, SubscriberTypeOK
    <3>2. Untouched(s) BY <3>1 DEF FollowInv, Registers
    <3> QED BY <3>1, <3>2 DEF Untouched
  <2>2. CASE FollowRecv(s)
    <3>1. /\ spc[s] = "follow" /\ spc'[s] = "follow"
          /\ sgot[s] \in Seq(Ids) /\ sbacklog[s] \in Seq(Ids) /\ schan[s] \in Seq(Ids)
      BY <2>2 DEF FollowRecv, SubscriberTypeOK
    <3>2. Stream(s)' = Stream(s)
      <4>1. Received(s) BY <2>2, <3>1 DEF FollowRecv, BacklogDrained, SubscriberTypeOK, Received
      <4> QED BY <3>1, <4>1, StreamReceived
    <3>3. Followed(s) BY <3>1 DEF FollowInv, Follows
    <3> QED BY <1>1, <1>5, <3>1, <3>2, <3>3 DEF Followed
  <2>3. CASE FollowDrop(s)
    BY <2>3 DEF FollowDrop, SubscriberTypeOK
  <2> QED BY <2>1, <2>2, <2>3 DEF SubscriberStep
<1>7. Registers' /\ Follows' BY <1>4, <1>6 DEF Registers, Follows
<1>8. FollowQueued'
  <2>1. CASE SendFollow(s)
    <3>1. /\ spc[s] = "send" /\ spc'[s] = "wait" /\ queue' = Append(queue, Query("Follow", s))
      BY <2>1 DEF SendFollow, Enqueue, SubscriberTypeOK
    <3>2. /\ Query("Follow", s) \in Command
          /\ Query("Follow", s).kind = "Follow" /\ Query("Follow", s).who = s
      BY QueryType
    <3>3. PICK c \in Command : c = Query("Follow", s) /\ c.kind = "Follow" /\ c.who = s
      BY <3>2
    <3>4. /\ Len(queue') = Len(queue) + 1 /\ queue'[Len(queue) + 1] = c /\ Len(queue) \in Nat
          /\ \A k \in 1..Len(queue) : queue'[k] = queue[k]
      BY <3>1, <3>3 DEF QueueTypeOK
    <3>5. \A k \in 1..Len(queue') : k \in 1..Len(queue) \/ k = Len(queue) + 1
      BY <3>4
    <3>6. \A k \in 1..Len(queue) : queue[k].kind = "Follow" =>
             /\ queue[k].who \in Subscribers /\ queue[k].who # s
             /\ spc[queue[k].who] = "wait"
      BY <3>1 DEF FollowInv, FollowQueued, CommandsWellFormed
    <3>7. \A k \in 1..Len(queue') : queue'[k].kind = "Follow" => spc'[queue'[k].who] = "wait"
      BY <1>3, <3>1, <3>3, <3>4, <3>5, <3>6
    <3>8. \A k, l \in 1..Len(queue') :
             /\ queue'[k].kind = "Follow" /\ queue'[l].kind = "Follow"
             /\ queue'[k].who = queue'[l].who
             => k = l
      BY <3>3, <3>4, <3>5, <3>6 DEF FollowInv, FollowQueued
    <3> QED BY <3>7, <3>8 DEF FollowQueued
  <2>2. CASE CallFollow(s) \/ FollowRecv(s) \/ FollowDrop(s)
    <3>1. UNCHANGED queue /\ spc[s] # "wait"
      BY <2>2 DEF CallFollow, FollowRecv, FollowDrop
    <3> QED BY <1>3, <3>1, QueueKept DEF FollowInv
  <2> QED BY <2>1, <2>2 DEF SubscriberStep
<1> QED BY <1>2, <1>7, <1>8 DEF FollowInv

\* A registration: the stream is the backlog, a part of the resident sessions in
\* their order.
LEMMA BacklogStreams ==
    ASSUME TInv, MemoryLogged, wpc # "publish", NEW n \in Nat,
           NEW f \in [1..n -> DOMAIN memory],
           \A k, l \in DOMAIN f : k < l => f[k] < f[l]
    PROVE  LET t == [k \in 1..n |-> memory[f[k]].id]
           IN  /\ t \in Seq(Ids)
               /\ Streams(t, <<>>, [at |-> Len(log), backlog |-> n], log, followDropped)
<1> DEFINE t == [k \in 1..n |-> memory[f[k]].id]
           r == [at |-> Len(log), backlog |-> n]
<1> USE DEF TInv, TypeOK
<1>1. /\ DOMAIN memory = 1..Len(memory) /\ Len(memory) \in Nat
      /\ \A i \in DOMAIN memory : memory[i].id \in Ids
  BY MemoryElement DEF MemoryTypeOK
<1>2. \A k \in 1..n : f[k] \in 1..Len(memory) /\ memory[f[k]].id \in Ids
  BY <1>1
<1>3. t \in [1..n -> Ids] BY <1>2
<1>4. t \in Seq(Ids) /\ Len(t) = n BY <1>3
<1>5. \A k \in 1..n : t[k] = memory[f[k]].id OBVIOUS
<1>6. r.at = Len(log) /\ r.backlog = n OBVIOUS
<1>7. Len(log) \in Nat /\ followDropped \in Nat BY DEF SubscriberTypeOK
<1>8. DOMAIN f = 1..n OBVIOUS
<1> HIDE DEF t, r
<1>9. Logged(t, log)
  <2>1. \A i \in 1..Len(memory) : \E k \in 1..Len(log) : log[k] = memory[i].id
    BY DEF MemoryLogged
  <2> SUFFICES ASSUME NEW i \in 1..n PROVE \E k \in 1..Len(log) : log[k] = t[i]
    BY <1>4 DEF Logged
  <2>2. PICK j \in 1..Len(memory) : j = f[i] BY <1>2
  <2>3. PICK k \in 1..Len(log) : log[k] = memory[j].id BY <2>1
  <2>4. t[i] = memory[j].id BY <1>5, <2>2
  <2> QED BY <2>3, <2>4
<1>10. /\ Len(Residents) = Len(memory)
       /\ \A i \in 1..Len(memory) : Residents[i] = memory[i].id
  BY <1>1 DEF Residents
<1>11. InOrder(t, log)
  <2> SUFFICES ASSUME NEW i \in 1..n, NEW j \in 1..n,
                      NEW k \in 1..Len(log), NEW l \in 1..Len(log),
                      i < j, log[k] = t[i], log[l] = t[j]
               PROVE  k < l
    BY <1>4 DEF InOrder
  <2>1. f[i] < f[j] /\ f[i] \in 1..Len(memory) /\ f[j] \in 1..Len(memory)
    BY <1>2, <1>8
  <2>2. log[k] = Residents[f[i]] /\ log[l] = Residents[f[j]]
    BY <1>5, <1>10, <2>1
  <2> QED BY <1>10, <2>1, <2>2 DEF MemoryLogged, InOrder
<1>12. Streams(t, <<>>, r, log, followDropped)
  <2>1. Len(<<>>) = 0 /\ \A i : i \notin 1..0 OBVIOUS
  <2>2. r.at <= Len(log) /\ Len(t) + 0 = r.backlog + (Len(log) - r.at) /\ 0 <= followDropped
    BY <1>4, <1>6, <1>7
  <2> QED BY <1>9, <1>11, <2>1, <2>2 DEF Streams
<1> QED BY <1>4, <1>12 DEF t, r

LEMMA StreamStart ==
    ASSUME NEW b \in Seq(Ids) PROVE (<<>> \o b) \o <<>> = b
OBVIOUS

\* recv: only a follow command registers a subscriber, and stats forgets dead ones.
LEMMA RecvFollowStep ==
    ASSUME TInv, FollowInv, RecvStep
    PROVE  FollowInv'
<1> USE DEF TInv, TypeOK
<1>1. /\ wpc = "recv" /\ queue # <<>> /\ queue' = Tail(queue) /\ UNCHANGED log
      /\ memory' = <<>> \/ UNCHANGED memory
  BY DEF RecvStep, RecvEvents, RecvRead, RecvClear, RecvStats, RecvFollow, RecvShutdown,
     RecvQuery, memoryVars, followVars
<1>2. MemoryLogged' BY <1>1, MemoryKept DEF FollowInv
<1>3. CASE RecvEvents \/ RecvRead \/ RecvClear \/ RecvShutdown
  <2>1. UNCHANGED <<subVars, followVars>>
    BY <1>3 DEF RecvEvents, RecvRead, RecvClear, RecvShutdown
  <2>2. Registers' /\ Follows' /\ UNCHANGED spc
    BY <2>1, SubscribersKept DEF FollowInv
  <2>3. FollowQueued' BY <1>1, <2>2, QueueTaken DEF FollowInv
  <2> QED BY <1>2, <2>2, <2>3 DEF FollowInv
<1>4. CASE RecvStats
  <2>1. /\ UNCHANGED <<spc, sbacklog, schan, sgot, smissed, sreg, followDropped, log>>
        /\ followers' = {s \in followers : spc[s] = "follow"}
    BY <1>4 DEF RecvStats, subVars, Alive
  <2>2. \A s : Stream(s)' = Stream(s) /\ (Untouched(s) => Untouched(s)')
    BY <2>1 DEF Stream, Untouched
  <2>3. Registers' BY <2>1, <2>2 DEF FollowInv, Registers
  <2>4. Follows' BY <2>1, <2>2 DEF FollowInv, Follows, Followed
  <2>5. FollowQueued' BY <1>1, <2>1, QueueTaken DEF FollowInv
  <2> QED BY <1>2, <2>3, <2>4, <2>5 DEF FollowInv
<1>5. CASE RecvFollow
  <2>1. PICK s : s = Head(queue).who OBVIOUS
  <2>2. PICK n \in 0..BacklogLimit : \E f \in [1..n -> DOMAIN memory] :
           /\ IsBacklog(f, safter[s])
           /\ sbacklog' = [sbacklog EXCEPT ![s] = [k \in 1..n |-> memory[f[k]].id]]
           /\ spc' = [spc EXCEPT ![s] = "follow"]
           /\ sreg' = [sreg EXCEPT ![s] = [at |-> Len(log), backlog |-> n]]
           /\ followers' = followers \cup {s}
    BY <1>5, <2>1 DEF RecvFollow
  <2>3. PICK f \in [1..n -> DOMAIN memory] :
           /\ IsBacklog(f, safter[s])
           /\ sbacklog' = [sbacklog EXCEPT ![s] = [k \in 1..n |-> memory[f[k]].id]]
           /\ spc' = [spc EXCEPT ![s] = "follow"]
           /\ sreg' = [sreg EXCEPT ![s] = [at |-> Len(log), backlog |-> n]]
           /\ followers' = followers \cup {s}
    BY <2>2
  <2>4. UNCHANGED <<schan, sgot, smissed, followDropped, log>>
    BY <1>5 DEF RecvFollow
  <2>5. /\ Head(queue) = queue[1] /\ 1 \in 1..Len(queue) /\ queue[1].kind = "Follow"
    BY <1>1, <1>5 DEF RecvFollow, RecvQuery, QueueTypeOK
  <2>6. s \in Subscribers /\ spc[s] = "wait"
    BY <2>1, <2>5 DEF FollowInv, FollowQueued, CommandsWellFormed
  <2>7. sgot[s] = <<>> /\ schan[s] = <<>> /\ smissed[s] = <<>>
    BY <2>6 DEF FollowInv, Registers, Untouched
  <2>8. n \in Nat /\ \A k, l \in DOMAIN f : k < l => f[k] < f[l]
    BY <2>3 DEF IsBacklog
  <2>9. PICK t : t = [k \in 1..n |-> memory[f[k]].id] OBVIOUS
  <2>10. PICK r : r = [at |-> Len(log), backlog |-> n] OBVIOUS
  <2>11. t \in Seq(Ids) /\ Streams(t, <<>>, r, log, followDropped)
    BY <1>1, <2>3, <2>8, <2>9, <2>10, BacklogStreams DEF FollowInv
  <2>12. /\ spc'[s] = "follow" /\ sbacklog'[s] = t /\ sreg'[s] = r
         /\ \A q \in Subscribers : q # s => /\ spc'[q] = spc[q] /\ sreg'[q] = sreg[q]
                                            /\ sbacklog'[q] = sbacklog[q]
    BY <2>3, <2>6, <2>9, <2>10 DEF SubscriberTypeOK
  <2>13. Stream(s)' = t
    <3>1. Stream(s)' = (sgot'[s] \o sbacklog'[s]) \o schan'[s] BY DEF Stream
    <3>2. (<<>> \o t) \o <<>> = t BY <2>11, StreamStart
    <3> QED BY <2>4, <2>7, <2>12, <3>1, <3>2
  <2>14. Followed(s)'
    BY <2>3, <2>4, <2>7, <2>11, <2>12, <2>13 DEF Followed
  <2>15. ASSUME NEW q \in Subscribers, q # s
         PROVE  /\ spc'[q] \in {"idle", "send", "wait"} => Untouched(q)'
                /\ spc'[q] = "follow" => Followed(q)'
    <3>1. Stream(q)' = Stream(q) /\ (Untouched(q) => Untouched(q)')
      BY <2>4, <2>12, <2>15 DEF Stream, Untouched
    <3> QED BY <2>3, <2>4, <2>12, <2>15, <3>1 DEF FollowInv, Registers, Follows, Followed
  <2>16. Registers' /\ Follows' BY <2>12, <2>14, <2>15 DEF Registers, Follows
  <2>17. FollowQueued' BY <1>1, <2>1, <2>5, <2>12, QueueTaken DEF FollowInv
  <2> QED BY <1>2, <2>16, <2>17 DEF FollowInv
<1> QED BY <1>3, <1>4, <1>5 DEF RecvStep

\* A session that reaches the channel is the end of the stream.
LEMMA StreamPublished ==
    ASSUME NEW s, sgot[s] \in Seq(Ids), sbacklog[s] \in Seq(Ids), schan[s] \in Seq(Ids),
           NEW x \in Ids, schan'[s] = Append(schan[s], x), UNCHANGED <<sgot, sbacklog>>
    PROVE  Stream(s)' = Append(Stream(s), x)
<1>1. PICK a \in Seq(Ids) : a = sgot[s] \o sbacklog[s]
  <2>1. sgot[s] \o sbacklog[s] \in Seq(Ids) OBVIOUS
  <2> QED BY <2>1
<1>2. PICK c \in Seq(Ids) : c = schan[s] OBVIOUS
<1>3. a \o Append(c, x) = Append(a \o c, x) OBVIOUS
<1>4. Stream(s)' = a \o Append(c, x)
  BY <1>1, <1>2, Zenon DEF Stream
<1>5. Stream(s) = a \o c
  BY <1>1, <1>2, Zenon DEF Stream
<1> QED BY <1>3, <1>4, <1>5, Zenon

\* publish: a live follower gets the session or its loss is counted; for the others
\* nothing changes.
LEMMA PublishStreams ==
    ASSUME TInv, LogOnce, Registers, Follows, Publish
    PROVE  Registers' /\ Follows'
<1> USE DEF TInv, TypeOK
<1> DEFINE Live == {s \in followers : Alive(s)}
           Full == {s \in Live : Len(schan[s]) >= FollowCapacity}
<1>1. /\ wpc = "publish" /\ UNCHANGED <<spc, sbacklog, sgot, sreg>>
      /\ log' = Append(log, wsess.id)
      /\ schan' = [s \in Subscribers |->
                     IF s \in Live \ Full THEN Append(schan[s], wsess.id) ELSE schan[s]]
      /\ smissed' = [s \in Subscribers |->
                     IF s \in Full THEN Append(smissed[s], wsess.id) ELSE smissed[s]]
      /\ followers' = Live /\ followDropped' = followDropped + Cardinality(Full)
  BY DEF Publish
<1>2. PICK x \in Ids : x = wsess.id
  BY <1>1 DEF CommandsWellFormed, Resident
<1>3. /\ log \in Seq(Ids) /\ followDropped \in Nat
      /\ \A s \in Subscribers : /\ sgot[s] \in Seq(Ids) /\ sbacklog[s] \in Seq(Ids)
                                /\ schan[s] \in Seq(Ids) /\ smissed[s] \in Seq(Ids)
                                /\ sreg[s] \in [at : Nat, backlog : Nat]
  BY DEF SubscriberTypeOK
<1>4. \A k \in 1..Len(log) : log[k] # x
  BY <1>1, <1>2 DEF LogOnce
<1>5. IsFiniteSet(Full)
  <2>1. Full \subseteq Subscribers BY DEF SubscriberTypeOK
  <2> QED BY <2>1, ThreadsAssumption, FS_Subset
<1>6. PICK e \in Nat : e = Cardinality(Full) BY <1>5, FS_CardinalityType
<1>7. \A s \in Full : e > 0
  <2>1. Full # {} => Cardinality(Full) # 0 BY <1>5, FS_EmptySet
  <2> QED BY <1>6, <2>1
<1>8. \A s : spc[s] # "follow" => s \notin Live /\ s \notin Full
  BY DEF Alive
<1>9. \A s \in followers : spc[s] = "follow" => s \in Live
  BY DEF Alive
<1> HIDE DEF Live, Full
<1>10. Registers'
  <2> SUFFICES ASSUME NEW s \in Subscribers, spc[s] \in {"idle", "send", "wait"}
               PROVE  Untouched(s)'
    BY <1>1 DEF Registers
  <2>1. schan'[s] = schan[s] /\ smissed'[s] = smissed[s] BY <1>1, <1>8
  <2> QED BY <1>1, <2>1 DEF Registers, Untouched
<1>11. ASSUME NEW s \in Subscribers, spc[s] = "follow"
       PROVE  Followed(s)'
  <2>1. s \in Live /\ Streams(Stream(s), smissed[s], sreg[s], log, followDropped)
    BY <1>9, <1>11 DEF Follows, Followed
  <2>2. PICK t \in Seq(Ids) : t = Stream(s)
    <3>1. Stream(s) \in Seq(Ids) BY <1>3 DEF Stream
    <3> QED BY <3>1
  <2>3. PICK m \in Seq(Ids), r \in [at : Nat, backlog : Nat] : m = smissed[s] /\ r = sreg[s]
    BY <1>3
  <2>4. Streams(t, m, r, log, followDropped) BY <2>1, <2>2, <2>3
  <2>5. /\ Streams(Append(t, x), m, r, Append(log, x), followDropped + e)
        /\ e > 0 => Streams(t, Append(m, x), r, Append(log, x), followDropped + e)
    BY <1>3, <1>4, <2>4, StreamsGrow
  <2>6. /\ log' = Append(log, x) /\ followDropped' = followDropped + e
        /\ s \in followers' /\ sreg'[s] = r
    BY <1>1, <1>2, <1>6, <2>1, <2>3
  <2>7. Stream(s)' = (sgot[s] \o sbacklog[s]) \o schan'[s]
    BY <1>1 DEF Stream
  <2>8. CASE s \in Full
    <3>1. schan'[s] = schan[s] /\ smissed'[s] = Append(m, x)
      BY <1>1, <1>2, <2>3, <2>8
    <3>2. Stream(s)' = t BY <2>2, <2>7, <3>1 DEF Stream
    <3> QED BY <1>7, <2>5, <2>6, <2>8, <3>1, <3>2 DEF Followed
  <2>9. CASE s \notin Full
    <3>1. schan'[s] = Append(schan[s], x) /\ smissed'[s] = m
      BY <1>1, <1>2, <2>1, <2>3, <2>9
    <3>2. Stream(s)' = Append(Stream(s), x)
      BY <1>1, <1>3, <3>1, StreamPublished
    <3>3. Stream(s)' = Append(t, x) BY <2>2, <3>2
    <3> QED BY <2>5, <2>6, <3>1, <3>3 DEF Followed
  <2> QED BY <2>8, <2>9
<1>12. Follows' BY <1>1, <1>11 DEF Follows
<1> QED BY <1>10, <1>12

\* The steps of the worker on a command in hand.
LEMMA WorkFollowStep ==
    ASSUME TInv, LogOnce, FollowInv, PendingStep \/ CommitStep \/ BudgetStep
    PROVE  FollowInv'
<1> USE DEF TInv, TypeOK
<1>1. UNCHANGED <<queue, spc>>
  BY DEF PendingStep, ExpireStale, ApplyStart, ApplyUpdate, ApplyEnd, ApplyOrphan, ApplyAbort,
     ApplyFrame, CommitStep, InsertTooLarge, InsertEvict, InsertPush, Publish, CommitFrame,
     BudgetStep, EnforceBudget, EvictToBudget, ReleaseQueueBytes, BudgetFrame, subVars
<1>2. FollowQueued' BY <1>1, QueueKept DEF FollowInv
<1>3. CASE Publish
  <2>1. wpc = "publish" /\ UNCHANGED memory /\ log' = Append(log, wsess.id)
    BY <1>3 DEF Publish, memoryVars
  <2>2. MemoryLogged' BY <2>1, MemoryPublished DEF FollowInv
  <2>3. Registers' /\ Follows' BY <1>3, PublishStreams DEF FollowInv
  <2> QED BY <1>2, <2>2, <2>3 DEF FollowInv
<1>4. CASE ~Publish
  <2>1. UNCHANGED <<subVars, followVars>> /\ wpc # "publish"
    BY <1>4 DEF PendingStep, ExpireStale, ApplyStart, ApplyUpdate, ApplyEnd, ApplyOrphan,
       ApplyAbort, Applying, ApplyFrame, CommitStep, InsertTooLarge, InsertEvict, InsertPush,
       BudgetStep, EnforceBudget, EvictToBudget, ReleaseQueueBytes, BudgetFrame
  <2>2. Registers' /\ Follows' /\ UNCHANGED log
    BY <2>1, SubscribersKept DEF FollowInv
  <2>3. CASE InsertPush
    <3>1. /\ wpc = "insert" /\ wpc' = "publish" /\ UNCHANGED wsess
          /\ memory' = Append(memory, wsess)
      BY <2>3 DEF InsertPush
    <3>2. MemoryLogged' BY <2>2, <3>1, MemoryPushed DEF FollowInv
    <3> QED BY <1>2, <2>2, <3>2 DEF FollowInv
  <2>4. CASE ~InsertPush
    <3>1. UNCHANGED memory \/ (memory # <<>> /\ memory' = Tail(memory))
      BY <1>4, <2>4 DEF PendingStep, ExpireStale, ApplyStart, ApplyUpdate, ApplyEnd,
         ApplyOrphan, ApplyAbort, ApplyFrame, CommitStep, InsertTooLarge, InsertEvict, NeedsRoom,
         EvictOldest, BudgetStep, EnforceBudget, EvictToBudget, MustEvict, ReleaseQueueBytes,
         memoryVars
    <3>2. MemoryLogged' BY <2>1, <2>2, <3>1, MemoryKept DEF FollowInv
    <3> QED BY <1>2, <2>2, <3>2 DEF FollowInv
  <2> QED BY <2>3, <2>4
<1> QED BY <1>3, <1>4

LEMMA FollowStep == TInv /\ LogOnce /\ FollowInv /\ [Next]_vars => FollowInv'
<1> SUFFICES ASSUME TInv, LogOnce, FollowInv, [Next]_vars PROVE FollowInv'
  OBVIOUS
<1>1. CASE \/ \E p \in Producers : ProducerStep(p)
           \/ \E c \in Callers : CallerStep(c)
           \/ OwnerStep \/ Tick \/ Terminated \/ UNCHANGED vars
  BY <1>1, QuietFollowStep
<1>2. CASE \E s \in Subscribers : SubscriberStep(s)
  BY <1>2, SubscriberFollowStep
<1>3. CASE WorkerStep
  BY <1>3, RecvFollowStep, WorkFollowStep DEF WorkerStep
<1> QED BY <1>1, <1>2, <1>3 DEF Next

LEMMA FollowInit == Init => FollowInv
<1> SUFFICES ASSUME Init PROVE FollowInv OBVIOUS
<1>1. /\ Len(queue) = 0 /\ Len(memory) = 0 /\ \A k : k \notin 1..0
      /\ \A s \in Subscribers : spc[s] = "idle" /\ Untouched(s)
  BY DEF Init, Untouched
<1>2. Len(Residents) = 0 BY <1>1 DEF Residents
<1>3. MemoryLogged BY <1>1, <1>2 DEF MemoryLogged, InOrder
<1> QED BY <1>1, <1>3 DEF FollowInv, FollowQueued, Registers, Follows

\* The inductive invariant of the follow streams: resident sessions are committed in their
\* order, a follow command has its waiting subscriber, nobody receives before it is
\* registered, and each stream with its losses is the backlog and the commits since.
THEOREM FollowInvariance == Spec => []FollowInv
<1>1. TInv /\ AccountInv /\ FollowInv /\ [Next]_vars => FollowInv'
  BY FollowStep DEF AccountInv, Protocol
<1> QED BY <1>1, FollowInit, Invariance, AccountInvariance, PTL DEF Spec

\* Where a session is in the log.
LEMMA PositionOf ==
    ASSUME TInv, LogOnce, NEW k \in 1..Len(log)
    PROVE  Position(log[k]) = k
<1>1. DOMAIN log = 1..Len(log) BY DEF TInv, TypeOK, SubscriberTypeOK
<1>2. \A l \in DOMAIN log : log[l] = log[k] => l = k BY <1>1 DEF LogOnce
<1>3. Position(log[k]) \in DOMAIN log /\ log[Position(log[k])] = log[k]
  BY <1>1 DEF Position
<1> QED BY <1>2, <1>3

\* A live subscriber sees its backlog and then every later commit, once each and in commit
\* order, except what its full channel lost, which is counted; nothing falls between backlog
\* and registration (follow.rs, worker.rs), for every number of subscribers, every channel
\* and backlog size and every interleaving with clears, evictions and dropped followers.
THEOREM FollowStreamTheorem == Spec => []FollowStream
<1>1. TInv /\ AccountInv /\ FollowInv => FollowStream
  <2> SUFFICES ASSUME TInv, AccountInv, FollowInv, NEW s \in Subscribers, spc[s] = "follow"
               PROVE  /\ s \in followers
                      /\ Len(Stream(s)) + Len(smissed[s]) =
                            sreg[s].backlog + (Len(log) - sreg[s].at)
                      /\ \A i, j \in DOMAIN Stream(s) :
                            i < j => Position(Stream(s)[i]) < Position(Stream(s)[j])
                      /\ Len(smissed[s]) <= followDropped
                      /\ Range1(Stream(s)) \cap Range1(smissed[s]) = {}
                      /\ \A i \in DOMAIN smissed[s] : Position(smissed[s][i]) > sreg[s].at
    BY DEF FollowStream
  <2>1. s \in followers /\ Streams(Stream(s), smissed[s], sreg[s], log, followDropped)
    BY DEF FollowInv, Follows, Followed
  <2>2. PICK t \in Seq(Ids), m \in Seq(Ids) : t = Stream(s) /\ m = smissed[s]
    <3>1. sgot[s] \in Seq(Ids) /\ sbacklog[s] \in Seq(Ids) /\ schan[s] \in Seq(Ids)
      BY DEF TInv, TypeOK, SubscriberTypeOK
    <3>2. Stream(s) \in Seq(Ids) BY <3>1 DEF Stream
    <3>3. smissed[s] \in Seq(Ids) BY DEF TInv, TypeOK, SubscriberTypeOK
    <3> QED BY <3>2, <3>3
  <2>3. Streams(t, m, sreg[s], log, followDropped) BY <2>1, <2>2
  <2>4. DOMAIN t = 1..Len(t) /\ DOMAIN m = 1..Len(m) OBVIOUS
  <2>5. LogOnce BY DEF AccountInv, Protocol
  <2>6. \A k \in 1..Len(log) : Position(log[k]) = k BY <2>5, PositionOf
  <2>7. ASSUME NEW i \in 1..Len(t), NEW j \in 1..Len(t), i < j
        PROVE  Position(t[i]) < Position(t[j])
    <3>1. PICK k \in 1..Len(log) : log[k] = t[i] BY <2>3 DEF Streams, Logged
    <3>2. PICK l \in 1..Len(log) : log[l] = t[j] BY <2>3 DEF Streams, Logged
    <3>3. k < l BY <2>3, <2>7, <3>1, <3>2 DEF Streams, InOrder
    <3> QED BY <2>6, <3>1, <3>2, <3>3
  <2>8. ASSUME NEW i \in 1..Len(m) PROVE Position(m[i]) > sreg[s].at
    <3>1. PICK k \in 1..Len(log) : k > sreg[s].at /\ log[k] = m[i] BY <2>3 DEF Streams
    <3> QED BY <2>6, <3>1
  <2>9. Range1(t) \cap Range1(m) = {}
    BY <2>3, <2>4 DEF Streams, Range1
  <2>10. /\ Len(t) + Len(m) = sreg[s].backlog + (Len(log) - sreg[s].at)
         /\ Len(m) <= followDropped
    BY <2>3 DEF Streams
  <2> QED BY <2>1, <2>2, <2>4, <2>7, <2>8, <2>9, <2>10
<1> QED BY <1>1, FollowInvariance, AccountInvariance, Invariance, PTL

-----------------------------------------------------------------------------
(***************************************************************************)
(* The byte counters.  A sum is the number of units, so that adding to one *)
(* of its terms adds that many elements to a set.                          *)
(***************************************************************************)
LEMMA UnitsMember ==
    ASSUME NEW w, NEW p
    PROVE  p \in Units(w) <=> \E n \in DOMAIN w : \E k \in 1..w[n] : p = <<n, k>>
BY DEF Units

\* v is w with a more at n, where w has b.
Heavier(w, v, n, b, a) ==
    /\ DOMAIN v = DOMAIN w \cup {n} /\ v[n] = b + a
    /\ \A m \in DOMAIN w : m # n => v[m] = w[m]
    /\ IF n \in DOMAIN w THEN w[n] = b ELSE b = 0

\* The terms of f sum to k.
Adds(f, k) == IsFiniteSet(Units(f)) /\ k = Total(f)

LEMMA AddsNat == ASSUME NEW f, NEW k, Adds(f, k) PROVE k \in Nat
BY FS_CardinalityType DEF Adds, Total

LEMMA AddsNothing == ASSUME NEW f, \A n \in DOMAIN f : f[n] = 0 PROVE Adds(f, 0)
<1>1. \A p : p \notin Units(f)
  <2> SUFFICES ASSUME NEW p \in Units(f) PROVE FALSE OBVIOUS
  <2>1. PICK n \in DOMAIN f : \E k \in 1..f[n] : p = <<n, k>> BY UnitsMember
  <2>2. f[n] = 0 OBVIOUS
  <2>3. PICK k \in 1..0 : p = <<n, k>> BY <2>1, <2>2
  <2> QED BY <2>3
<1>2. Units(f) = {} BY <1>1
<1> QED BY <1>2, FS_EmptySet DEF Adds, Total

LEMMA HeavierUnits ==
    ASSUME NEW w, NEW v, NEW n, NEW b \in Nat, NEW a \in Nat, Heavier(w, v, n, b, a)
    PROVE  /\ IsFiniteSet(Units(w)) <=> IsFiniteSet(Units(v))
           /\ IsFiniteSet(Units(w)) => Total(v) = Total(w) + a
<1> DEFINE new == {n} \X ((b + 1)..(b + a))
<1>1. \A p \in Units(v) : p \in Units(w) \cup new
  <2> SUFFICES ASSUME NEW p \in Units(v), p \notin Units(w) PROVE p \in new OBVIOUS
  <2>1. PICK m \in DOMAIN v : \E k \in 1..v[m] : p = <<m, k>> BY UnitsMember
  <2>2. PICK k \in 1..v[m] : p = <<m, k>> BY <2>1
  <2>3. m = n
    <3>1. ASSUME m # n PROVE FALSE
      <4>1. m \in DOMAIN w /\ v[m] = w[m] BY <3>1 DEF Heavier
      <4> QED BY <4>1, <2>2, UnitsMember
    <3> QED BY <3>1
  <2>4. k \in 1..(b + a) BY <2>2, <2>3 DEF Heavier
  <2>5. ~(k \in 1..b)
    <3>1. ASSUME k \in 1..b PROVE FALSE
      <4>1. n \in DOMAIN w /\ w[n] = b BY <3>1 DEF Heavier
      <4> QED BY <4>1, <3>1, <2>2, <2>3, UnitsMember
    <3> QED BY <3>1
  <2>6. k \in (b + 1)..(b + a) BY <2>4, <2>5
  <2> QED BY <2>2, <2>3, <2>6
<1>2. \A p \in Units(w) : p \in Units(v)
  <2> SUFFICES ASSUME NEW p \in Units(w) PROVE p \in Units(v) OBVIOUS
  <2>1. PICK m \in DOMAIN w : \E k \in 1..w[m] : p = <<m, k>> BY UnitsMember
  <2>2. PICK k \in 1..w[m] : p = <<m, k>> BY <2>1
  <2>3. m \in DOMAIN v BY DEF Heavier
  <2>4. CASE m = n
    <3>1. k \in 1..v[m] BY <2>2, <2>4 DEF Heavier
    <3> QED BY <3>1, <2>2, <2>3, UnitsMember
  <2>5. CASE m # n
    <3>1. k \in 1..v[m] BY <2>2, <2>5 DEF Heavier
    <3> QED BY <3>1, <2>2, <2>3, UnitsMember
  <2> QED BY <2>4, <2>5
<1>3. \A p \in new : p \in Units(v) /\ p \notin Units(w)
  <2> SUFFICES ASSUME NEW k \in (b + 1)..(b + a)
               PROVE  <<n, k>> \in Units(v) /\ <<n, k>> \notin Units(w)
      OBVIOUS
  <2>1. n \in DOMAIN v /\ k \in 1..v[n] BY DEF Heavier
  <2>2. <<n, k>> \in Units(v) BY <2>1, UnitsMember
  <2>3. ASSUME <<n, k>> \in Units(w) PROVE FALSE
    <3>1. PICK m \in DOMAIN w : \E j \in 1..w[m] : <<n, k>> = <<m, j>> BY <2>3, UnitsMember
    <3>2. n \in DOMAIN w /\ k \in 1..w[n] BY <3>1
    <3>3. w[n] = b BY <3>2 DEF Heavier
    <3> QED BY <3>2, <3>3
  <2> QED BY <2>2, <2>3
<1>4. Units(v) = Units(w) \cup new BY <1>1, <1>2, <1>3
<1>5. Units(w) \cap new = {} BY <1>3
<1>6. IsFiniteSet(new) /\ Cardinality(new) = a
  <2>1. b + 1 \in Int /\ b + a \in Int OBVIOUS
  <2>2. /\ IsFiniteSet((b + 1)..(b + a))
        /\ Cardinality((b + 1)..(b + a)) =
             IF b + 1 > b + a THEN 0 ELSE (b + a) - (b + 1) + 1
    BY <2>1, FS_Interval
  <2>3. Cardinality((b + 1)..(b + a)) = a BY <2>2
  <2>4. IsFiniteSet({n}) /\ Cardinality({n}) = 1 BY FS_Singleton
  <2>5. PICK T : T = (b + 1)..(b + a) OBVIOUS
  <2>6. IsFiniteSet(T) /\ Cardinality(T) = a BY <2>2, <2>3, <2>5
  <2>7. /\ IsFiniteSet({n} \X T)
        /\ Cardinality({n} \X T) = Cardinality({n}) * Cardinality(T)
    BY ONLY <2>4, <2>6, FS_Product
  <2>8. Cardinality({n} \X T) = a BY <2>4, <2>6, <2>7
  <2> QED BY <2>5, <2>7, <2>8
<1> HIDE DEF new
<1>7. ASSUME IsFiniteSet(Units(v)) PROVE IsFiniteSet(Units(w))
  <2>1. Units(w) \subseteq Units(v) BY <1>2
  <2> QED BY <1>7, <2>1, FS_Subset
<1>8. ASSUME IsFiniteSet(Units(w))
      PROVE  IsFiniteSet(Units(v)) /\ Total(v) = Total(w) + a
  <2>1. /\ IsFiniteSet(Units(w) \cup new)
        /\ Cardinality(Units(w) \cup new) =
             Cardinality(Units(w)) + Cardinality(new) - Cardinality(Units(w) \cap new)
    BY <1>6, <1>8, FS_Union
  <2>2. Cardinality(Units(w) \cap new) = 0 BY <1>5, FS_EmptySet
  <2>3. Cardinality(Units(w)) \in Nat BY <1>8, FS_CardinalityType
  <2> QED BY <1>4, <1>6, <2>1, <2>2, <2>3 DEF Total
<1> QED BY <1>7, <1>8

LEMMA HeavierAdds ==
    ASSUME NEW w, NEW v, NEW n, NEW b \in Nat, NEW a \in Nat, Heavier(w, v, n, b, a), NEW k
    PROVE  /\ Adds(w, k) => Adds(v, k + a)
           /\ Adds(v, k) => k >= a /\ Adds(w, k - a)
<1>1. ASSUME Adds(w, k) PROVE Adds(v, k + a)
  <2>1. IsFiniteSet(Units(w)) /\ k = Total(w) BY <1>1 DEF Adds
  <2>2. IsFiniteSet(Units(v)) /\ Total(v) = Total(w) + a BY <2>1, HeavierUnits
  <2> QED BY <2>1, <2>2 DEF Adds
<1>2. ASSUME Adds(v, k) PROVE k >= a /\ Adds(w, k - a)
  <2>1. IsFiniteSet(Units(v)) /\ k = Total(v) BY <1>2 DEF Adds
  <2>2. IsFiniteSet(Units(w)) BY <2>1, HeavierUnits
  <2>3. Total(v) = Total(w) + a BY <2>2, HeavierUnits
  <2>4. Total(w) \in Nat BY <2>2, FS_CardinalityType DEF Total
  <2>5. k >= a /\ k - a = Total(w) BY <2>1, <2>3, <2>4
  <2> QED BY <2>2, <2>5 DEF Adds
<1> QED BY <1>1, <1>2

\* v is w without its first term, moved up by one place.
Shifted(w, v, n) ==
    /\ DOMAIN w = 1..(n + 1) /\ DOMAIN v = 1..n /\ w[1] \in Nat
    /\ \A i \in 1..n : v[i] = w[i + 1]

LEMMA ShiftedAdds ==
    ASSUME NEW w, NEW v, NEW n \in Nat, Shifted(w, v, n), NEW k, Adds(w, k)
    PROVE  k >= w[1] /\ Adds(v, k - w[1])
<1> DEFINE u == [i \in 2..(n + 1) |-> w[i]]
           f == [p \in Units(u) |-> <<p[1] - 1, p[2]>>]
<1>1. Heavier(u, w, 1, 0, w[1])
  <2>1. DOMAIN w = DOMAIN u \cup {1} BY DEF Shifted
  <2>2. w[1] = 0 + w[1] BY DEF Shifted
  <2>3. 1 \notin DOMAIN u /\ \A m \in DOMAIN u : w[m] = u[m] OBVIOUS
  <2> HIDE DEF u
  <2> QED BY <2>1, <2>2, <2>3 DEF Heavier
<1>2. w[1] \in Nat BY DEF Shifted
<1>3. k >= w[1] /\ Adds(u, k - w[1]) BY <1>1, <1>2, HeavierAdds
<1>4. \A p : p \in Units(u) <=> \E i \in 2..(n + 1) : \E j \in 1..w[i] : p = <<i, j>>
  <2>1. DOMAIN u = 2..(n + 1) /\ \A i \in 2..(n + 1) : u[i] = w[i] OBVIOUS
  <2> HIDE DEF u
  <2> QED BY <2>1, UnitsMember
<1>5. \A p : p \in Units(v) <=> \E i \in 1..n : \E j \in 1..v[i] : p = <<i, j>>
  BY UnitsMember DEF Shifted
<1>6. \A i \in 1..n : v[i] = w[i + 1] BY DEF Shifted
<1> HIDE DEF u
<1>7. \A p \in Units(u) : f[p] \in Units(v)
  <2> SUFFICES ASSUME NEW p \in Units(u) PROVE f[p] \in Units(v) OBVIOUS
  <2>1. PICK i \in 2..(n + 1) : \E j \in 1..w[i] : p = <<i, j>> BY <1>4
  <2>2. PICK j \in 1..w[i] : p = <<i, j>> BY <2>1
  <2>3. f[p] = <<i - 1, j>> BY <2>2
  <2>4. PICK h \in 1..n : h = i - 1 /\ h + 1 = i OBVIOUS
  <2>5. v[h] = w[i] BY <1>6, <2>4
  <2> QED BY <1>5, <2>2, <2>3, <2>4, <2>5
<1>8. \A p, q \in Units(u) : f[p] = f[q] => p = q
  <2> SUFFICES ASSUME NEW p \in Units(u), NEW q \in Units(u), f[p] = f[q] PROVE p = q OBVIOUS
  <2>1. PICK i \in 2..(n + 1) : \E j \in 1..w[i] : p = <<i, j>> BY <1>4
  <2>2. PICK j \in 1..w[i] : p = <<i, j>> BY <2>1
  <2>3. PICK g \in 2..(n + 1) : \E h \in 1..w[g] : q = <<g, h>> BY <1>4
  <2>4. PICK h \in 1..w[g] : q = <<g, h>> BY <2>3
  <2>5. f[p] = <<i - 1, j>> /\ f[q] = <<g - 1, h>> BY <2>2, <2>4
  <2>6. i - 1 = g - 1 /\ j = h BY <2>5
  <2>7. i = g BY <2>6
  <2> QED BY <2>2, <2>4, <2>6, <2>7
<1>9. \A q \in Units(v) : \E p \in Units(u) : f[p] = q
  <2> SUFFICES ASSUME NEW q \in Units(v) PROVE \E p \in Units(u) : f[p] = q OBVIOUS
  <2>1. PICK i \in 1..n : \E j \in 1..v[i] : q = <<i, j>> BY <1>5
  <2>2. PICK j \in 1..v[i] : q = <<i, j>> BY <2>1
  <2>3. PICK h \in 2..(n + 1) : h = i + 1 /\ h - 1 = i OBVIOUS
  <2>4. j \in 1..w[h] BY <1>6, <2>2, <2>3
  <2>5. <<h, j>> \in Units(u) BY <1>4, <2>4
  <2>6. f[<<h, j>>] = <<h - 1, j>> BY <2>5
  <2> QED BY <2>2, <2>3, <2>5, <2>6
<1>10. f \in [Units(u) -> Units(v)] BY <1>7
<1> HIDE DEF f
<1>11. f \in Bijection(Units(u), Units(v))
  BY <1>8, <1>9, <1>10 DEF Bijection, Injection, IsInjective, Surjection
<1>12. IsFiniteSet(Units(u)) /\ Cardinality(Units(u)) = k - w[1] BY <1>3 DEF Adds, Total
<1>13. ExistsBijection(Units(u), Units(v)) BY <1>11 DEF ExistsBijection
<1>14. IsFiniteSet(Units(v)) /\ Cardinality(Units(v)) = Cardinality(Units(u))
  BY <1>12, <1>13, FS_Bijection
<1> QED BY <1>3, <1>12, <1>14 DEF Adds, Total

\* The producers that hold a reservation, the queue and the worker: h, q and
\* w are what they account for, n is the counter.
Reserved(h, q, w, n) == \E i, j : Adds(h, i) /\ Adds(q, j) /\ n = i + j + w

LEMMA HeldReserved ==
    ASSUME NEW h, NEW g, NEW p, NEW a \in Nat, Heavier(h, g, p, 0, a),
           NEW q, NEW w \in Nat, NEW n
    PROVE  /\ Reserved(h, q, w, n) => Reserved(g, q, w, n + a)
           /\ Reserved(g, q, w, n) => n >= a /\ Reserved(h, q, w, n - a)
<1>1. ASSUME Reserved(h, q, w, n) PROVE Reserved(g, q, w, n + a)
  <2>1. PICK i, j : Adds(h, i) /\ Adds(q, j) /\ n = i + j + w BY <1>1 DEF Reserved
  <2>2. i \in Nat /\ j \in Nat BY <2>1, AddsNat
  <2>3. Adds(g, i + a) BY <2>1, HeavierAdds
  <2>4. n + a = (i + a) + j + w BY <2>1, <2>2
  <2> QED BY <2>1, <2>3, <2>4 DEF Reserved
<1>2. ASSUME Reserved(g, q, w, n) PROVE n >= a /\ Reserved(h, q, w, n - a)
  <2>1. PICK i, j : Adds(g, i) /\ Adds(q, j) /\ n = i + j + w BY <1>2 DEF Reserved
  <2>2. i \in Nat /\ j \in Nat BY <2>1, AddsNat
  <2>3. i >= a /\ Adds(h, i - a) BY <2>1, HeavierAdds
  <2>4. n >= a /\ n - a = (i - a) + j + w BY <2>1, <2>2, <2>3
  <2> QED BY <2>1, <2>3, <2>4 DEF Reserved
<1> QED BY <1>1, <1>2

\* A reservation goes from its producer to the queue.
LEMMA SentReserved ==
    ASSUME NEW h, NEW g, NEW p, NEW a \in Nat, Heavier(h, g, p, 0, a),
           NEW q, NEW r, NEW m, Heavier(q, r, m, 0, a), NEW w \in Nat, NEW n,
           Reserved(g, q, w, n)
    PROVE  Reserved(h, r, w, n)
<1>1. PICK i, j : Adds(g, i) /\ Adds(q, j) /\ n = i + j + w BY DEF Reserved
<1>2. i \in Nat /\ j \in Nat BY <1>1, AddsNat
<1>3. i >= a /\ Adds(h, i - a) BY <1>1, HeavierAdds
<1>4. Adds(r, j + a) BY <1>1, HeavierAdds
<1>5. n = (i - a) + (j + a) + w BY <1>1, <1>2, <1>3
<1> QED BY <1>3, <1>4, <1>5 DEF Reserved

\* A command that reserved nothing joins the queue.
LEMMA QueriedReserved ==
    ASSUME NEW h, NEW q, NEW r, NEW m, Heavier(q, r, m, 0, 0), NEW w \in Nat, NEW n,
           Reserved(h, q, w, n)
    PROVE  Reserved(h, r, w, n)
<1>1. PICK i, j : Adds(h, i) /\ Adds(q, j) /\ n = i + j + w BY DEF Reserved
<1>2. i \in Nat /\ j \in Nat BY <1>1, AddsNat
<1>3. Adds(r, j + 0) BY <1>1, HeavierAdds
<1>4. j + 0 = j BY <1>2
<1> QED BY <1>1, <1>3, <1>4 DEF Reserved

\* The worker takes the first command.
LEMMA TakenReserved ==
    ASSUME NEW h, NEW q, NEW r, NEW m \in Nat, Shifted(q, r, m), NEW n,
           Reserved(h, q, 0, n)
    PROVE  Reserved(h, r, q[1], n)
<1>1. PICK i, j : Adds(h, i) /\ Adds(q, j) /\ n = i + j + 0 BY DEF Reserved
<1>2. i \in Nat /\ j \in Nat BY <1>1, AddsNat
<1>3. j >= q[1] /\ Adds(r, j - q[1]) BY <1>1, ShiftedAdds
<1>4. q[1] \in Nat BY DEF Shifted
<1>5. n = i + (j - q[1]) + q[1] BY <1>1, <1>2, <1>3, <1>4
<1> QED BY <1>1, <1>3, <1>5 DEF Reserved

\* The worker gives the reservation of its command back.
LEMMA ReleasedReserved ==
    ASSUME NEW h, NEW q, NEW w \in Nat, NEW n, Reserved(h, q, w, n)
    PROVE  n >= w /\ Reserved(h, q, 0, n - w)
<1>1. PICK i, j : Adds(h, i) /\ Adds(q, j) /\ n = i + j + w BY DEF Reserved
<1>2. i \in Nat /\ j \in Nat BY <1>1, AddsNat
<1>3. n >= w /\ n - w = i + j + 0 BY <1>1, <1>2
<1> QED BY <1>1, <1>3 DEF Reserved

\* What one producer does to the reservations.
LEMMA HeldHeavier ==
    ASSUME NEW pc, NEW cmd, NEW pc2, NEW cmd2, NEW p \in Producers,
           \A r \in Producers : r # p => pc2[r] = pc[r] /\ cmd2[r] = cmd[r],
           pc[p] \notin {"send", "release"}, pc2[p] \in {"send", "release"},
           cmd2[p].cost \in Nat
    PROVE  Heavier(Held(pc, cmd), Held(pc2, cmd2), p, 0, cmd2[p].cost)
BY DEF Heavier, Held

LEMMA HeldLighter ==
    ASSUME NEW pc, NEW cmd, NEW pc2, NEW cmd2, NEW p \in Producers,
           \A r \in Producers : r # p => pc2[r] = pc[r] /\ cmd2[r] = cmd[r],
           pc[p] \in {"send", "release"}, pc2[p] \notin {"send", "release"},
           cmd[p].cost \in Nat
    PROVE  Heavier(Held(pc2, cmd2), Held(pc, cmd), p, 0, cmd[p].cost)
BY DEF Heavier, Held

LEMMA HeldSame ==
    ASSUME NEW pc, NEW cmd, NEW pc2, NEW cmd2, NEW p \in Producers,
           \A r \in Producers : r # p => pc2[r] = pc[r] /\ cmd2[r] = cmd[r],
           \/ {pc[p], pc2[p]} \cap {"send", "release"} = {}
           \/ {pc[p], pc2[p]} \subseteq {"send", "release"} /\ cmd2[p] = cmd[p]
    PROVE  Held(pc2, cmd2) = Held(pc, cmd)
BY DEF Held

\* A command joins, or leaves, the queue.
LEMMA CostsAppend ==
    ASSUME NEW q \in Seq(Command), NEW c \in Command
    PROVE  Heavier(Costs(q), Costs(Append(q, c)), Len(q) + 1, 0, c.cost)
<1>1. /\ DOMAIN q = 1..Len(q) /\ Len(q) \in Nat /\ Append(q, c) \in Seq(Command)
      /\ DOMAIN Append(q, c) = 1..(Len(q) + 1)
      /\ Append(q, c)[Len(q) + 1] = c /\ \A i \in 1..Len(q) : Append(q, c)[i] = q[i]
  OBVIOUS
<1>2. c.cost \in Nat BY DEF Command
<1>3. PICK r : r = Append(q, c) OBVIOUS
<1>4. /\ DOMAIN r = 1..(Len(q) + 1) /\ r[Len(q) + 1] = c
      /\ \A i \in 1..Len(q) : r[i] = q[i]
  BY <1>1, <1>3
<1>5. Heavier(Costs(q), Costs(r), Len(q) + 1, 0, c.cost)
  BY <1>1, <1>2, <1>4 DEF Heavier, Costs
<1> QED BY <1>3, <1>5

LEMMA CostsTail ==
    ASSUME NEW q \in Seq(Command), q # <<>>
    PROVE  /\ Len(q) - 1 \in Nat /\ Shifted(Costs(q), Costs(Tail(q)), Len(q) - 1)
           /\ Costs(q)[1] = Head(q).cost
<1>1. PICK r, n : r = Tail(q) /\ n = Len(q) - 1 OBVIOUS
<1>2. /\ n \in Nat /\ DOMAIN q = 1..(n + 1) /\ r \in Seq(Command) /\ DOMAIN r = 1..n
      /\ \A i \in 1..n : r[i] = q[i + 1]
      /\ q[1] = Head(q) /\ q[1] \in Command
  BY <1>1
<1>3. q[1].cost \in Nat BY <1>2 DEF Command
<1>4. Shifted(Costs(q), Costs(r), n) BY <1>2, <1>3 DEF Shifted, Costs
<1>5. Costs(q)[1] = Head(q).cost BY <1>2 DEF Costs
<1> QED BY <1>1, <1>2, <1>4, <1>5

\* A session leaves, or joins, the pending ones.
LEMMA SlotsWithout ==
    ASSUME PendingTypeOK, NEW i \in DOMAIN pending
    PROVE  Heavier(SlotBytes(Without(i)), SlotBytes(pending), i, 0, pending[i].bytes)
<1>1. pending[i].bytes \in Nat BY DEF PendingTypeOK, IsPending, Slot
<1>3. PICK f : f = Without(i) OBVIOUS
<1>2. DOMAIN f = DOMAIN pending \ {i} /\ \A m \in DOMAIN f : f[m] = pending[m]
  BY <1>3 DEF Without
<1>4. Heavier(SlotBytes(f), SlotBytes(pending), i, 0, pending[i].bytes)
  BY <1>1, <1>2 DEF Heavier, SlotBytes
<1> QED BY <1>3, <1>4

LEMMA SlotsWith ==
    ASSUME PendingTypeOK, NEW i \in Ids, NEW b \in Nat
    PROVE  Heavier(SlotBytes(Without(i)), SlotBytes(With(i, b)), i, 0, b)
<1>1. PICK f, g : f = Without(i) /\ g = With(i, b) OBVIOUS
<1>2. /\ DOMAIN f = DOMAIN pending \ {i} /\ \A m \in DOMAIN f : f[m] = pending[m]
  BY <1>1 DEF Without
<1>3. /\ DOMAIN g = DOMAIN pending \cup {i} /\ g[i].bytes = b
      /\ \A m \in DOMAIN pending : m # i => g[m] = pending[m]
  BY <1>1 DEF With
<1>4. Heavier(SlotBytes(f), SlotBytes(g), i, 0, b)
  BY <1>2, <1>3 DEF Heavier, SlotBytes
<1> QED BY <1>1, <1>4

LEMMA RemovedSum ==
    ASSUME PendingTypeOK, Adds(SlotBytes(pending), pendingBytes), NEW i
    PROVE  Adds(SlotBytes(Without(i)), Monus(pendingBytes, PendingSize(i)))
<1>1. pendingBytes \in Nat BY AddsNat
<1>2. CASE i \in DOMAIN pending
  <2>1. PendingSize(i) = pending[i].bytes /\ pending[i].bytes \in Nat
    BY <1>2, WithoutType DEF PendingSize
  <2>2. /\ pendingBytes >= pending[i].bytes
        /\ Adds(SlotBytes(Without(i)), pendingBytes - pending[i].bytes)
    BY <1>2, <2>1, SlotsWithout, HeavierAdds
  <2> QED BY <2>1, <2>2 DEF Monus
<1>3. CASE i \notin DOMAIN pending
  <2>1. DOMAIN Without(i) = DOMAIN pending /\ \A m \in DOMAIN pending : Without(i)[m] = pending[m]
    BY <1>3, WithoutType
  <2>2. SlotBytes(Without(i)) = SlotBytes(pending) BY <2>1 DEF SlotBytes
  <2>3. Monus(pendingBytes, PendingSize(i)) = pendingBytes
    BY <1>1, <1>3, MonusFacts DEF PendingSize
  <2> QED BY <2>2, <2>3
<1> QED BY <1>2, <1>3

LEMMA PutSum ==
    ASSUME PendingTypeOK, Adds(SlotBytes(pending), pendingBytes), NEW i \in Ids, NEW b \in Nat
    PROVE  Adds(SlotBytes(With(i, b)), Monus(pendingBytes, PendingSize(i)) + b)
<1>1. Adds(SlotBytes(Without(i)), Monus(pendingBytes, PendingSize(i))) BY RemovedSum
<1>2. Heavier(SlotBytes(Without(i)), SlotBytes(With(i, b)), i, 0, b) BY SlotsWith
<1> QED BY <1>1, <1>2, HeavierAdds

\* Every step keeps the sum of the pending sessions.
PendingSum == Adds(SlotBytes(pending), pendingBytes)

LEMMA PendingSumStep == TInv /\ PendingSum /\ [Next]_vars => PendingSum'
<1> SUFFICES ASSUME TInv, PendingSum, [Next]_vars
             PROVE  Adds(SlotBytes(pending'), pendingBytes')
  BY DEF PendingSum
<1>0. PendingTypeOK /\ Adds(SlotBytes(pending), pendingBytes)
  BY DEF PendingSum, TInv, TypeOK
<1>1. ASSUME UNCHANGED <<pending, pendingBytes>> PROVE Adds(SlotBytes(pending'), pendingBytes')
  BY <1>0, <1>1
<1>2. CASE \E p \in Producers : ProducerStep(p)
  BY <1>1, <1>2 DEF ProducerStep, Record, Start, Emit, Finish, Hide, Forget, Abort,
     CallFrame, SubmitFrame, Reserve, ReserveRejected, TrySend, TrySendFull, ReleaseRejected,
     pendingVars
<1>3. CASE \/ \E c \in Callers : CallerStep(c)
           \/ \E s \in Subscribers : SubscriberStep(s)
           \/ OwnerStep
  <2>1. QueryFrame
    BY <1>3 DEF CallerStep, CallQuery, SendQuery, SubscriberStep, CallFollow, SendFollow,
       FollowRecv, FollowDrop, OwnerStep, DropHandle, SendShutdown
  <2> QED BY <1>1, <2>1 DEF QueryFrame, pendingVars
<1>4. CASE RecvStep
  <2>1. CASE RecvClear
    <3>1. pending' = NoPending /\ pendingBytes' = 0 BY <2>1 DEF RecvClear
    <3>2. DOMAIN SlotBytes(NoPending) = {} BY DEF SlotBytes, NoPending
    <3>3. Adds(SlotBytes(NoPending), 0) BY <3>2, AddsNothing
    <3> QED BY <3>1, <3>3
  <2>2. CASE ~RecvClear
    BY <1>1, <1>4, <2>2 DEF RecvStep, RecvEvents, RecvRead, RecvStats, RecvFollow, RecvShutdown,
       pendingVars
  <2> QED BY <2>1, <2>2
<1>5. CASE PendingStep
  <2>1. wpc = "apply"
    BY <1>5 DEF PendingStep, ExpireStale, ApplyStart, ApplyUpdate, ApplyEnd, ApplyOrphan,
       ApplyAbort, Applying
  <2>2. Current.id \in Ids /\ Current.bytes \in Nat BY <2>1, CurrentType
  <2>3. CASE ExpireStale
    <3>1. PICK id \in DOMAIN pending :
               /\ pending' = Without(id)
               /\ pendingBytes' = Monus(pendingBytes, pending[id].bytes)
      BY <2>3 DEF ExpireStale, Stale
    <3>2. pending[id].bytes = PendingSize(id) BY DEF PendingSize
    <3>3. Adds(SlotBytes(Without(id)), Monus(pendingBytes, PendingSize(id)))
      BY <1>0, RemovedSum
    <3> QED BY <3>1, <3>2, <3>3
  <2>4. CASE ApplyStart \/ ApplyUpdate
    <3>1. /\ pending' = With(Current.id, Current.bytes)
          /\ pendingBytes' = Monus(pendingBytes, PendingSize(Current.id)) + Current.bytes
      BY <2>4 DEF ApplyStart, ApplyUpdate, PendingSize
    <3>2. Adds(SlotBytes(With(Current.id, Current.bytes)),
               Monus(pendingBytes, PendingSize(Current.id)) + Current.bytes)
      BY <1>0, <2>2, PutSum
    <3> QED BY <3>1, <3>2
  <2>5. CASE ApplyEnd \/ ApplyAbort
    <3>1. /\ pending' = Without(Current.id)
          /\ pendingBytes' = Monus(pendingBytes, PendingSize(Current.id))
      BY <2>5 DEF ApplyEnd, ApplyAbort, PendingSize
    <3>2. Adds(SlotBytes(Without(Current.id)), Monus(pendingBytes, PendingSize(Current.id)))
      BY <1>0, RemovedSum
    <3> QED BY <3>1, <3>2
  <2>6. CASE ApplyOrphan
    BY <1>1, <2>6 DEF ApplyOrphan
  <2> QED BY <1>5, <2>3, <2>4, <2>5, <2>6 DEF PendingStep
<1>6. CASE CommitStep
  BY <1>1, <1>6 DEF CommitStep, InsertTooLarge, InsertEvict, InsertPush, Publish, CommitFrame,
     pendingVars
<1>7. CASE EnforceBudget
  <2>1. CASE UNCHANGED <<pending, pendingBytes>> BY <1>1, <2>1
  <2>2. CASE /\ Current.id \in DOMAIN pending /\ pending' = Without(Current.id)
             /\ pendingBytes' = Monus(pendingBytes, pending[Current.id].bytes)
    <3>1. pending[Current.id].bytes = PendingSize(Current.id) BY <2>2 DEF PendingSize
    <3>2. Adds(SlotBytes(Without(Current.id)), Monus(pendingBytes, PendingSize(Current.id)))
      BY <1>0, RemovedSum
    <3> QED BY <2>2, <3>1, <3>2
  <2> QED BY <1>7, <2>1, <2>2 DEF EnforceBudget
<1>8. CASE EvictToBudget \/ ReleaseQueueBytes
  BY <1>1, <1>8 DEF EvictToBudget, ReleaseQueueBytes, pendingVars
<1>9. CASE Tick
  <2>1. DOMAIN pending' = DOMAIN pending /\ pendingBytes' = pendingBytes
    BY <1>9 DEF Tick
  <2>2. ASSUME NEW i \in DOMAIN pending PROVE pending'[i].bytes = pending[i].bytes
    <3>1. pending[i] \in Slot BY <1>0 DEF PendingTypeOK, IsPending
    <3>2. pending'[i] = [pending[i] EXCEPT !.age = IF @ < PendingTTL THEN @ + 1 ELSE @]
      BY <1>9 DEF Tick
    <3> QED BY <3>1, <3>2 DEF Slot
  <2>3. SlotBytes(pending') = SlotBytes(pending) BY <2>1, <2>2 DEF SlotBytes
  <2> QED BY <1>0, <2>1, <2>3
<1>10. CASE Terminated \/ UNCHANGED vars
  BY <1>1, <1>10 DEF Terminated, vars, pendingVars
<1> QED BY <1>2, <1>3, <1>4, <1>5, <1>6, <1>7, <1>8, <1>9, <1>10
       DEF Next, WorkerStep, BudgetStep

\* Queries reserve nothing, and the worker holds nothing between commands.
QueriesFree ==
    /\ \A c \in Callers : ccmd[c].cost = 0
    /\ \A i \in 1..Len(queue) : queue[i].kind \notin {"Event", "Events"} => queue[i].cost = 0
    /\ wpc \in {"recv", "stopped"} => wcmd.cost = 0

QueueSum ==
    /\ Reserved(Held(ppc, pcmd), Costs(queue), wcmd.cost, queueBytes)
    /\ queueBytes <= QueueBudget /\ Len(queue) <= QueueCapacity

\* A command of a session, or one that reserved nothing, may join the queue.
LEMMA FreeAppend ==
    ASSUME QueueTypeOK, QueriesFree, NEW q \in Command,
           q.kind \notin {"Event", "Events"} => q.cost = 0,
           queue' = Append(queue, q), UNCHANGED <<ccmd, wpc, wcmd>>
    PROVE  QueriesFree'
<1>1. \A i \in 1..Len(queue') :
         queue'[i].kind \notin {"Event", "Events"} => queue'[i].cost = 0
  <2> SUFFICES ASSUME NEW i \in 1..Len(queue'), queue'[i].kind \notin {"Event", "Events"}
               PROVE  queue'[i].cost = 0
    OBVIOUS
  <2>1. CASE i \in 1..Len(queue)
    <3>1. queue'[i] = queue[i] BY <2>1 DEF QueueTypeOK
    <3> QED BY <2>1, <3>1 DEF QueriesFree
  <2>2. CASE i = Len(queue) + 1
    <3>1. queue'[i] = q BY <2>2 DEF QueueTypeOK
    <3> QED BY <3>1
  <2> QED BY <2>1, <2>2 DEF QueueTypeOK
<1> QED BY <1>1 DEF QueriesFree

\* Taking the first command off keeps it.
LEMMA FreeTail ==
    ASSUME QueueTypeOK, QueriesFree, queue # <<>>, queue' = Tail(queue),
           \A c \in Callers : ccmd'[c].cost = 0,
           wpc' \in {"recv", "stopped"} => wcmd'.cost = 0
    PROVE  QueriesFree'
<1>1. \A i \in 1..Len(queue') : i + 1 \in 1..Len(queue) /\ queue'[i] = queue[i + 1]
  BY DEF QueueTypeOK
<1> QED BY <1>1 DEF QueriesFree

\* The sum when a command joins, or leaves, the queue.
LEMMA QueriedSum ==
    ASSUME TInv, QueueSum, HasRoom, NEW q \in Command, q.cost = 0, queue' = Append(queue, q),
           UNCHANGED <<ppc, pcmd, wcmd, queueBytes>>
    PROVE  QueueSum'
<1>1. queue \in Seq(Command) /\ Len(queue) \in Nat /\ wcmd.cost \in Nat
  BY DEF TInv, TypeOK, QueueTypeOK, WorkerTypeOK, Command
<1>2. Heavier(Costs(queue), Costs(queue'), Len(queue) + 1, 0, 0) BY <1>1, CostsAppend
<1>3. PICK h, w, n : h = Held(ppc, pcmd) /\ w = wcmd.cost /\ n = queueBytes OBVIOUS
<1>4. Reserved(h, Costs(queue), w, n) BY <1>3 DEF QueueSum
<1>5. Reserved(h, Costs(queue'), w, n) BY <1>1, <1>2, <1>3, <1>4, QueriedReserved
<1>6. Len(queue') <= QueueCapacity BY <1>1 DEF HasRoom
<1> QED BY <1>3, <1>5, <1>6 DEF QueueSum

LEMMA TakenSum ==
    ASSUME TInv, QueueSum, QueriesFree, wpc = "recv", queue # <<>>, queue' = Tail(queue),
           UNCHANGED <<ppc, pcmd, queueBytes>>, wcmd'.cost = Head(queue).cost
    PROVE  QueueSum'
<1>1. queue \in Seq(Command) /\ Len(queue) \in Nat BY DEF TInv, TypeOK, QueueTypeOK
<1>2. wcmd.cost = 0 BY DEF QueriesFree
<1>3. PICK h, n, m : h = Held(ppc, pcmd) /\ n = queueBytes /\ m = Len(queue) - 1 OBVIOUS
<1>4. Reserved(h, Costs(queue), 0, n) BY <1>2, <1>3 DEF QueueSum
<1>5. m \in Nat /\ Shifted(Costs(queue), Costs(queue'), m) /\ Costs(queue)[1] = wcmd'.cost
  BY <1>1, <1>3, CostsTail
<1>6. Reserved(h, Costs(queue'), Costs(queue)[1], n) BY <1>4, <1>5, TakenReserved
<1>7. Len(queue') <= QueueCapacity BY <1>1 DEF QueueSum
<1> QED BY <1>3, <1>5, <1>6, <1>7 DEF QueueSum

\* Nothing that is counted changes.
LEMMA QueueSumFrame ==
    ASSUME QueueSum, Held(ppc', pcmd') = Held(ppc, pcmd),
           UNCHANGED <<queue, queueBytes>>, wcmd'.cost = wcmd.cost
    PROVE  QueueSum'
BY DEF QueueSum

LEMMA QueriesFreeFrame ==
    ASSUME QueriesFree, UNCHANGED <<queue, ccmd, wcmd>>,
           wpc' \in {"recv", "stopped"} => wpc \in {"recv", "stopped"}
    PROVE  QueriesFree'
BY DEF QueriesFree

\* Submissions.
LEMMA ProducerSum ==
    ASSUME TInv, QueueSum, QueriesFree, NEW p \in Producers, ProducerStep(p)
    PROVE  QueueSum' /\ QueriesFree'
<1> USE DEF TInv, TypeOK
<1>0. /\ ppc \in [Producers -> {"idle", "reserve", "send", "release"}]
      /\ pcmd \in [Producers -> Command] /\ pcmd[p] \in Command /\ pcmd[p].cost \in Nat
      /\ wcmd.cost \in Nat /\ queueBytes \in Nat /\ QueueTypeOK
      /\ queue \in Seq(Command) /\ Len(queue) \in Nat
  BY DEF ProducerTypeOK, QueueTypeOK, WorkerTypeOK, Command
<1>1. UNCHANGED <<ccmd, wpc, wcmd>>
  BY DEF ProducerStep, Record, Start, Emit, Finish, Hide, Forget, Abort,
     CallFrame, SubmitFrame, Reserve, ReserveRejected, TrySend, TrySendFull, ReleaseRejected,
     callerVars, workerVars
<1>2. \A r \in Producers : r # p => ppc'[r] = ppc[r] /\ pcmd'[r] = pcmd[r]
  BY <1>0 DEF ProducerStep, Record, Start, Emit, Finish, Hide, Forget, Abort, Submit,
     Reserve, ReserveRejected, TrySend, TrySendFull, ReleaseRejected
<1>3. PICK h, g, q, w, n :
         /\ h = Held(ppc, pcmd) /\ g = Held(ppc', pcmd') /\ q = Costs(queue)
         /\ w = wcmd.cost /\ n = queueBytes
  OBVIOUS
<1>4. Reserved(h, q, w, n) BY <1>3 DEF QueueSum
<1>5. CASE \/ Record(p) \/ Start(p) \/ Emit(p) \/ Finish(p) \/ Hide(p) \/ Forget(p)
           \/ Abort(p) \/ ReserveRejected(p) \/ TrySendFull(p)
  <2>1. UNCHANGED <<queue, queueBytes>>
    BY <1>5 DEF Record, Start, Emit, Finish, Hide, Forget, Abort, CallFrame, ReserveRejected,
       TrySendFull
  <2>2. \/ {ppc[p], ppc'[p]} \cap {"send", "release"} = {}
        \/ {ppc[p], ppc'[p]} \subseteq {"send", "release"} /\ pcmd'[p] = pcmd[p]
    BY <1>0, <1>5 DEF Record, Start, Emit, Finish, Hide, Forget, Abort, Submit, SessionOpen,
       ReserveRejected, TrySendFull
  <2>3. Held(ppc', pcmd') = Held(ppc, pcmd) BY <1>2, <2>2, HeldSame
  <2> QED BY <1>1, <2>1, <2>3, QueueSumFrame, QueriesFreeFrame
<1>6. CASE Reserve(p)
  <2>1. /\ ppc[p] = "reserve" /\ ppc'[p] = "send" /\ pcmd' = pcmd /\ queue' = queue
        /\ queueBytes' = queueBytes + pcmd[p].cost /\ queueBytes + pcmd[p].cost <= QueueBudget
    BY <1>0, <1>6 DEF Reserve, CanReserve
  <2>2. Heavier(h, g, p, 0, pcmd[p].cost) BY <1>0, <1>2, <1>3, <2>1, HeldHeavier
  <2>3. Reserved(g, q, w, n + pcmd[p].cost) BY <1>0, <1>3, <1>4, <2>2, HeldReserved
  <2>4. QueueSum' BY <1>1, <1>3, <2>1, <2>3 DEF QueueSum
  <2> QED BY <1>1, <2>1, <2>4, QueriesFreeFrame
<1>7. CASE TrySend(p)
  <2>1. /\ ppc[p] = "send" /\ ppc'[p] = "idle" /\ queueBytes' = queueBytes
        /\ queue' = Append(queue, pcmd[p]) /\ Len(queue) < QueueCapacity
    BY <1>0, <1>7 DEF TrySend, HasRoom, Enqueue
  <2>2. Heavier(g, h, p, 0, pcmd[p].cost) BY <1>0, <1>2, <1>3, <2>1, HeldLighter
  <2>3. Heavier(q, Costs(queue'), Len(queue) + 1, 0, pcmd[p].cost)
    BY <1>0, <1>3, <2>1, CostsAppend
  <2>4. Reserved(g, Costs(queue'), w, n) BY <1>0, <1>3, <1>4, <2>2, <2>3, SentReserved
  <2>5. Len(queue') <= QueueCapacity BY <1>0, <2>1
  <2>6. QueueSum' BY <1>1, <1>3, <2>1, <2>4, <2>5 DEF QueueSum
  <2>7. pcmd[p].kind \in {"Event", "Events"} BY <2>1 DEF CommandsWellFormed
  <2> QED BY <1>0, <1>1, <2>1, <2>6, <2>7, FreeAppend
<1>8. CASE ReleaseRejected(p)
  <2>1. /\ ppc[p] = "release" /\ ppc'[p] = "idle" /\ queue' = queue
        /\ queueBytes' = Monus(queueBytes, pcmd[p].cost)
    BY <1>0, <1>8 DEF ReleaseRejected, Released
  <2>2. Heavier(g, h, p, 0, pcmd[p].cost) BY <1>0, <1>2, <1>3, <2>1, HeldLighter
  <2>3. n >= pcmd[p].cost /\ Reserved(g, q, w, n - pcmd[p].cost)
    BY <1>0, <1>3, <1>4, <2>2, HeldReserved
  <2>4. queueBytes' = n - pcmd[p].cost /\ queueBytes' <= queueBytes
    BY <1>0, <1>3, <2>1, <2>3 DEF Monus
  <2>5. QueueSum' BY <1>0, <1>1, <1>3, <2>1, <2>3, <2>4 DEF QueueSum
  <2> QED BY <1>1, <2>1, <2>5, QueriesFreeFrame
<1> QED BY <1>5, <1>6, <1>7, <1>8 DEF ProducerStep

LEMMA QuerySum ==
    ASSUME TInv, QueueSum, QueriesFree,
           \/ \E c \in Callers : CallerStep(c)
           \/ \E s \in Subscribers : SubscriberStep(s)
           \/ OwnerStep
    PROVE  QueueSum' /\ QueriesFree'
<1>1. QueryFrame
  BY DEF CallerStep, CallQuery, SendQuery, SubscriberStep, CallFollow, SendFollow,
     FollowRecv, FollowDrop, OwnerStep, DropHandle, SendShutdown
<1>2. UNCHANGED <<ppc, pcmd, wpc, wcmd, queueBytes>>
  BY <1>1 DEF QueryFrame, producerVars, workerVars
<1>3. QueueTypeOK BY DEF TInv, TypeOK
<1>4. ASSUME NEW q \in Command, q.kind \notin {"Event", "Events"}, q.cost = 0, HasRoom,
             Enqueue(q), UNCHANGED ccmd
      PROVE  QueueSum' /\ QueriesFree'
  BY <1>2, <1>3, <1>4, QueriedSum, FreeAppend DEF Enqueue
<1>5. ASSUME UNCHANGED queue, \A c \in Callers : ccmd'[c].cost = 0
      PROVE  QueueSum' /\ QueriesFree'
  <2>1. QueueSum' BY <1>2, <1>5, QueueSumFrame
  <2>2. QueriesFree' BY <1>2, <1>5 DEF QueriesFree
  <2> QED BY <2>1, <2>2
<1>6. CASE \E c \in Callers : CallQuery(c)
  <2>1. PICK c \in Callers : CallQuery(c) BY <1>6
  <2>2. queue' = queue BY <2>1 DEF CallQuery
  <2>3. \A d \in Callers : ccmd'[d].cost = 0
    BY <1>3, <2>1 DEF CallQuery, Query, QueriesFree, QueueTypeOK
  <2> QED BY <1>5, <2>2, <2>3
<1>7. CASE \E c \in Callers : SendQuery(c)
  <2>1. PICK c \in Callers : SendQuery(c) BY <1>7
  <2>2. ccmd[c] \in Command /\ ccmd[c].cost = 0 /\ ccmd[c].kind \notin {"Event", "Events"}
    BY DEF TInv, TypeOK, QueueTypeOK, QueriesFree, CommandsWellFormed
  <2>3. HasRoom /\ Enqueue(ccmd[c]) /\ UNCHANGED ccmd BY <2>1 DEF SendQuery
  <2> QED BY <1>4, <2>2, <2>3
<1>8. CASE \E s \in Subscribers : SendFollow(s)
  <2>1. PICK s \in Subscribers : SendFollow(s) BY <1>8
  <2>2. PICK q : q = Query("Follow", s) OBVIOUS
  <2>3. q \in Command /\ q.kind = "Follow" /\ q.cost = 0
    BY <2>2 DEF Query, Command, Kinds
  <2>4. HasRoom /\ Enqueue(q) /\ UNCHANGED ccmd BY <2>1, <2>2 DEF SendFollow, callerVars
  <2> QED BY <1>4, <2>3, <2>4
<1>9. CASE SendShutdown
  <2>2. PICK q : q = Query("Shutdown", NoOne) OBVIOUS
  <2>3. q \in Command /\ q.kind = "Shutdown" /\ q.cost = 0
    BY <2>2 DEF Query, Command, Kinds
  <2>4. HasRoom /\ Enqueue(q) /\ UNCHANGED ccmd BY <1>9, <2>2 DEF SendShutdown
  <2> QED BY <1>4, <2>3, <2>4
<1>10. CASE \/ \E s \in Subscribers : CallFollow(s) \/ FollowRecv(s) \/ FollowDrop(s)
            \/ DropHandle
  <2>1. UNCHANGED <<queue, ccmd>>
    BY <1>10 DEF CallFollow, FollowRecv, FollowDrop, DropHandle, callerVars
  <2> QED BY <1>5, <2>1 DEF QueriesFree
<1> QED BY <1>6, <1>7, <1>8, <1>9, <1>10 DEF CallerStep, SubscriberStep, OwnerStep

LEMMA RecvSum ==
    ASSUME TInv, QueueSum, QueriesFree, RecvStep
    PROVE  QueueSum' /\ QueriesFree'
<1>1. /\ wpc = "recv" /\ queue # <<>> /\ queue' = Tail(queue)
      /\ UNCHANGED <<ppc, pcmd, queueBytes>>
  BY DEF RecvStep, RecvEvents, RecvRead, RecvClear, RecvStats, RecvFollow, RecvShutdown,
     RecvQuery, RecvFrame, producerVars
<1>2. QueueTypeOK /\ Head(queue) = queue[1] /\ 1 \in 1..Len(queue)
  BY <1>1 DEF TInv, TypeOK, QueueTypeOK
<1>3. \A c \in Callers : ccmd'[c].cost = 0
  <2>1. UNCHANGED ccmd \/ \E c : ccmd' = [ccmd EXCEPT ![c] = NoCommand]
    BY DEF RecvStep, RecvEvents, RecvRead, RecvClear, RecvStats, RecvFollow, RecvShutdown,
       ReplyToCaller, callerVars
  <2>2. NoCommand.cost = 0 BY DEF NoCommand
  <2>3. ccmd \in [Callers -> Command] /\ \A c \in Callers : ccmd[c].cost = 0
    BY <1>2 DEF QueueTypeOK, QueriesFree
  <2> QED BY <2>1, <2>2, <2>3
<1>4. CASE RecvEvents
  <2>1. wcmd' = Head(queue) /\ wpc' = "apply" BY <1>4 DEF RecvEvents
  <2> QED BY <1>1, <1>2, <1>3, <2>1, TakenSum, FreeTail
<1>5. CASE ~RecvEvents
  <2>1. wcmd' = wcmd /\ Head(queue).kind \notin {"Event", "Events"}
    BY <1>5 DEF RecvStep, RecvRead, RecvClear, RecvStats, RecvFollow, RecvShutdown, RecvQuery
  <2>2. wcmd.cost = 0 BY <1>1 DEF QueriesFree
  <2>3. Head(queue).cost = 0 BY <1>2, <2>1 DEF QueriesFree
  <2> QED BY <1>1, <1>2, <1>3, <2>1, <2>2, <2>3, TakenSum, FreeTail
<1> QED BY <1>4, <1>5

LEMMA QueueSumStep == TInv /\ QueueSum /\ QueriesFree /\ [Next]_vars => QueueSum' /\ QueriesFree'
<1> SUFFICES ASSUME TInv, QueueSum, QueriesFree, [Next]_vars PROVE QueueSum' /\ QueriesFree'
  OBVIOUS
<1>1. CASE \E p \in Producers : ProducerStep(p) BY <1>1, ProducerSum
<1>2. CASE \/ \E c \in Callers : CallerStep(c)
           \/ \E s \in Subscribers : SubscriberStep(s)
           \/ OwnerStep
  BY <1>2, QuerySum
<1>3. CASE RecvStep BY <1>3, RecvSum
<1>4. CASE ReleaseQueueBytes
  <2>1. /\ queueBytes' = Monus(queueBytes, wcmd.cost) /\ wcmd' = NoCommand
        /\ UNCHANGED <<ppc, pcmd, queue, ccmd>>
    BY <1>4 DEF ReleaseQueueBytes, Released, BudgetFrame, producerVars, callerVars
  <2>2. wcmd.cost \in Nat /\ queueBytes \in Nat
    BY DEF TInv, TypeOK, WorkerTypeOK, QueueTypeOK, Command
  <2>3. wcmd'.cost = 0 BY <2>1 DEF NoCommand
  <2>4. PICK h, q, w, n : /\ h = Held(ppc, pcmd) /\ q = Costs(queue)
                          /\ w = wcmd.cost /\ n = queueBytes
    OBVIOUS
  <2>5. Reserved(h, q, w, n) BY <2>4 DEF QueueSum
  <2>6. n >= w /\ Reserved(h, q, 0, n - w) BY <2>2, <2>4, <2>5, ReleasedReserved
  <2>7. queueBytes' = n - w /\ queueBytes' <= queueBytes BY <2>1, <2>2, <2>4, <2>6 DEF Monus
  <2>8. QueueSum' BY <2>1, <2>2, <2>3, <2>4, <2>6, <2>7 DEF QueueSum
  <2>9. QueriesFree' BY <2>1, <2>3 DEF QueriesFree
  <2> QED BY <2>8, <2>9
<1>5. CASE PendingStep \/ CommitStep \/ EnforceBudget \/ EvictToBudget \/ Tick \/ Terminated
           \/ UNCHANGED vars
  <2>1. UNCHANGED <<ppc, pcmd, queue, queueBytes, ccmd, wcmd>>
    BY <1>5 DEF PendingStep, ExpireStale, ApplyStart, ApplyUpdate, ApplyEnd, ApplyOrphan,
       ApplyAbort, ApplyFrame, CommitStep, InsertTooLarge, InsertEvict, InsertPush, Publish,
       CommitFrame, EnforceBudget, EvictToBudget, BudgetFrame, Tick, Terminated, vars,
       producerVars, callerVars, workerVars
  <2>2. wpc' \in {"recv", "stopped"} => wpc \in {"recv", "stopped"}
    BY <1>5 DEF PendingStep, ExpireStale, ApplyStart, ApplyUpdate, ApplyEnd, ApplyOrphan,
       ApplyAbort, Applying, NextEvent, CommitStep, InsertTooLarge, InsertEvict, InsertPush,
       Publish, EnforceBudget, EvictToBudget, Tick, Terminated, vars, workerVars
  <2> QED BY <2>1, <2>2, QueueSumFrame, QueriesFreeFrame
<1> QED BY <1>1, <1>2, <1>3, <1>4, <1>5 DEF Next, WorkerStep, BudgetStep

LEMMA SumInit == Init => PendingSum /\ QueueSum /\ QueriesFree
<1> SUFFICES ASSUME Init PROVE PendingSum /\ QueueSum /\ QueriesFree OBVIOUS
<1>1. DOMAIN SlotBytes(pending) = {} BY DEF Init, SlotBytes, NoPending
<1>2. PendingSum BY <1>1, AddsNothing DEF Init, PendingSum
<1>3. DOMAIN Costs(queue) = {} BY DEF Init, Costs
<1>4. Adds(Costs(queue), 0) BY <1>3, AddsNothing
<1>5. \A p \in DOMAIN Held(ppc, pcmd) : Held(ppc, pcmd)[p] = 0 BY DEF Init, Held
<1>6. Adds(Held(ppc, pcmd), 0) BY <1>5, AddsNothing
<1>7. wcmd.cost = 0 /\ queueBytes = 0 /\ Len(queue) = 0 BY DEF Init, NoCommand
<1>8. Reserved(Held(ppc, pcmd), Costs(queue), wcmd.cost, queueBytes)
  <2>1. 0 = 0 + 0 + 0 OBVIOUS
  <2> QED BY <1>4, <1>6, <1>7, <2>1 DEF Reserved
<1>9. QueueSum BY <1>7, <1>8 DEF QueueSum
<1>10. QueriesFree BY <1>7 DEF Init, QueriesFree, NoCommand
<1> QED BY <1>2, <1>9, <1>10

\* The byte counters never drift: in every interleaving of submissions, queries and the
\* worker, queue_bytes is the sum of what producers hold between reserve and send or
\* release, of the queued commands and of the command in hand, and memory_bytes of
\* PendingSessions is the sum of the pending sessions; no saturating subtraction of
\* counters.rs or pending.rs ever saturates.
THEOREM CountersTheorem == Spec => []CountersExact
<1>1. TInv /\ PendingSum /\ QueueSum => CountersExact
  <2> SUFFICES ASSUME TInv, PendingSum, QueueSum PROVE CountersExact OBVIOUS
  <2>1. PICK i, j : /\ Adds(Held(ppc, pcmd), i) /\ Adds(Costs(queue), j)
                    /\ queueBytes = i + j + wcmd.cost
    BY DEF QueueSum, Reserved
  <2>2. i = Total(Held(ppc, pcmd)) /\ j = Total(Costs(queue)) BY <2>1 DEF Adds
  <2>3. queueBytes = Total(Held(ppc, pcmd)) + Total(Costs(queue)) + wcmd.cost
    BY <2>1, <2>2
  <2>4. QueueAccounting BY <2>3 DEF QueueSum, QueueAccounting
  <2>5. PendingAccounting BY DEF PendingSum, Adds, PendingAccounting
  <2> QED BY <2>4, <2>5 DEF CountersExact, TInv
<1> QED BY <1>1, InitType, NextType, SumInit, PendingSumStep, QueueSumStep, PTL DEF Spec
=============================================================================
