---------------------------- MODULE ConnectProofs ----------------------------
(***************************************************************************)
(* What CONNECT handling keeps true of its clients, its sessions, the leaf *)
(* files, the failures it remembers and the transports it builds, for      *)
(* every set of connections, hosts and requests, every cache size and      *)
(* lifetime, every chain of proxies, and any number of crashes.            *)
(***************************************************************************)
EXTENDS Connect, TLAPS, WellFoundedInduction, FiniteSetTheorems

(***************************************************************************)
(* The shape of a thread.                                                  *)
(***************************************************************************)
Phases == {"idle", "greet", "probe", "route", "dialled", "config", "write-cert",
           "write-chain", "fill-chain", "write-key", "fill-key", "load-chain", "load-key",
           "handshake", "inner", "request", "done"}
Reasons == {None, "disabled", "bypass", "no-ca", "remembered", "inspect"}
Protocols == {None, "tls", "http", "unknown", "timeout", "closed"}
Ends == {None, "write-failed", "expired", "closed", "probe-error", "total-timeout",
         "upstream-error", "tunnelled", "setup-failed", "handshake-timeout",
         "handshake-failed", "h2", "inner-ended", "inner-handled", "input-error",
         "bad-target"}
Sessions == [begun : BOOLEAN, status : Nat, recorded : Nat, aborted : BOOLEAN]

\* What a route, its layers and the key pair of a certificate are made of does not
\* matter to most of these invariants; RouteInv below is about the first two.
Threads(routes, transports, pairs) ==
    [pc : Phases, id : Nat, host : Hosts \cup {None}, parses : BOOLEAN, hidden : BOOLEAN,
     input : Seq(Bytes), got : Nat, protocol : Protocols, reason : Reasons, failedAgo : Int, crowded : BOOLEAN,
     wire : Seq(Nat), session : Sessions, gen : pairs, chain : Int, inner : Nat, route : routes,
     layers : transports, end : Ends]
IsThread(t) == t \in Threads({t.route}, {t.layers}, {t.gen})

(***************************************************************************)
(* One connection: its session, its client, its probe and its decision.    *)
(***************************************************************************)
Unsettled(t) ==
    /\ t.session.recorded = 0 /\ ~t.session.aborted
    /\ t.session.begun => ~t.hidden
Untraced(t) ==
    \/ t.end \in {"write-failed", "expired", "h2", "inner-handled"}
    \/ t.end \in {"inner-ended", "input-error"} /\ t.inner > 0
Settled(t) ==
    /\ t.session.recorded \in {0, 1}
    /\ t.session.aborted => t.session.recorded = 0
    /\ t.session.begun => t.session.recorded = 1 \/ t.session.aborted
    /\ ~t.hidden /\ t.session.recorded = 0 /\ ~t.session.aborted => Untraced(t)

\* Only a session whose upstream is being dialled has begun and not ended.
SessionInv(t) ==
    /\ t.pc # "done" => Unsettled(t) /\ (t.session.begun => t.pc = "dialled")
    /\ t.pc = "done" => Settled(t)

\* An inspected client has its 200 from the probe on; any other is answered
\* when its dial is over, with the status that is recorded.
AnswerInv(t) ==
    /\ t.pc = "idle" => t.reason = None
    /\ t.reason = "inspect" =>
         /\ t.pc = "greet" => t.wire = <<>>
         /\ t.pc \notin {"greet", "done"} => t.wire = <<200>>
         /\ t.wire \in {<<>>, <<200>>}
    /\ t.reason # "inspect" =>
         /\ t.pc \in {"idle", "route", "dialled", "done"}
         /\ t.pc # "done" => t.wire = <<>>
         /\ t.pc = "done" => Len(t.wire) <= 1
         /\ t.pc = "done" /\ t.end = "bad-target" =>
                t.wire = <<>> /\ (t.session.aborted <=> ~t.hidden)
         /\ t.pc = "done" /\ t.end \notin {"write-failed", "bad-target"} =>
                t.wire = <<t.session.status>>

ProbeInv(t) ==
    /\ t.got <= Len(t.input)
    /\ t.protocol \in {"tls", "http", "unknown"} => ClassifyPrefix(t.input) = t.protocol

\* A connection is only passed through for a failure that is remembered.
DecisionInv(t) ==
    t.reason = "remembered" => t.failedAgo < FailureTtl /\ FailureTtl > 0

ThreadInv(t) ==
    /\ IsThread(t)
    /\ t.pc # "idle" => t.host \in Hosts
    /\ t.pc # "done" => t.end = None
    /\ t.pc \notin {"idle", "done"} => t.id > 0
    /\ t.pc \in WriteSteps => t.gen = t.id
    /\ SessionInv(t) /\ AnswerInv(t) /\ ProbeInv(t) /\ DecisionInv(t)

(***************************************************************************)
(* What the connections share.                                             *)
(***************************************************************************)
LeafTypes == leaf \in [Keys -> [cert : BOOLEAN, chain : Int, key : Int]]
Complete(f) == f.cert /\ f.chain # Missing /\ f.key # Missing
Writes(t, k) == t.pc \in WriteSteps /\ HostKey[t.host] = k
Loads(t, k) == t.pc \in {"load-chain", "load-key"} /\ HostKey[t.host] = k

Table == conn = [c \in Conns |-> conn[c]]

\* What a thread between two writes has left in the files.
WrittenSoFar(t, f) ==
    /\ t.pc # "write-cert" => f.cert
    /\ t.pc \in {"write-key", "fill-key"} => f.chain = t.gen

\* The files of a host that nothing disturbed: one writer at a time, nobody
\* reads while there is one, and complete files belong together without one.
LeafInv(k) ==
    /\ \A c, d \in Conns : Writes(conn[c], k) /\ Writes(conn[d], k) => c = d
    /\ (\A c \in Conns : ~Writes(conn[c], k)) /\ Complete(leaf[k]) =>
           leaf[k].chain = leaf[k].key /\ leaf[k].key # Empty
    /\ \A c \in Conns : Writes(conn[c], k) => WrittenSoFar(conn[c], leaf[k])
    /\ \A c \in Conns : Loads(conn[c], k) =>
           /\ Complete(leaf[k])
           /\ \A d \in Conns : ~Writes(conn[d], k)
           /\ conn[c].pc = "load-key" => conn[c].chain = leaf[k].chain

\* Every failure that is remembered is the last one of its host.
Faithful(f) ==
    /\ DOMAIN f.at \subseteq Keys
    /\ \A k \in DOMAIN f.at : f.at[k] = failed[k] /\ failed[k] # Never
    /\ FailureCapacity = 0 \/ FailureTtl = 0 => DOMAIN f.at = {}
FailureInv ==
    /\ failed \in [Keys -> Int] /\ \A k \in Keys : failed[k] <= clock
    /\ Faithful(failures)

ThreadsInv == Table /\ \A c \in Conns : ThreadInv(conn[c])
Leaves ==
    /\ LeafTypes /\ disturbed \subseteq Keys /\ LeafUsable
    /\ \A k \in Keys \ disturbed : LeafInv(k)
Counters == clock \in Nat /\ connects \in Nat /\ config \in Configs
ConnectInv == Counters /\ ThreadsInv /\ Leaves /\ FailureInv

-----------------------------------------------------------------------------
(***************************************************************************)
(* Threads and the operators that end one.                                 *)
(***************************************************************************)

\* A record of the shape of a thread is one, whatever its route and its layers.
LEMMA Fits ==
    ASSUME NEW routes, NEW transports, NEW pairs, NEW t \in Threads(routes, transports, pairs)
    PROVE  IsThread(t)
BY DEF IsThread, Threads

\* A thread without a client is a thread.
LEMMA IdleThread ==
    ASSUME NEW routes, Direct \in routes
    PROVE  Idle \in Threads(routes, {<<>>}, {0})
<1>1. NewSession \in Sessions
  BY DEF NewSession, Sessions
<1>2. "idle" \in Phases /\ None \in Protocols /\ None \in Reasons /\ None \in Ends
  BY DEF Phases, Protocols, Reasons, Ends
<1>3. <<>> \in Seq(Bytes) /\ <<>> \in Seq(Nat)
  OBVIOUS
<1> QED
  BY <1>1, <1>2, <1>3 DEF Idle, Threads

\* Return keeps what its client and its session saw (connect.rs).
LEMMA ReturnFields ==
    ASSUME NEW t, NEW end
    PROVE  LET r == Return(t, end)
           IN  /\ r.pc = "done" /\ r.end = end /\ r.host = t.host /\ r.hidden = t.hidden
               /\ r.input = t.input /\ r.reason = t.reason /\ r.wire = t.wire
               /\ r.session = t.session /\ r.inner = t.inner
               /\ r.got = 0 /\ r.protocol = None /\ r.failedAgo = 0
BY DEF Return, Idle

\* The thread that has returned has the shape of one.
LEMMA ReturnThread ==
    ASSUME NEW t, IsThread(t), NEW end \in Ends
    PROVE  IsThread(Return(t, end))
<1> DEFINE routes == {Direct, t.route}
<1> HIDE DEF routes
<1>1. Idle \in Threads(routes, {<<>>}, {0})
  BY IdleThread DEF routes
<1>2. "done" \in Phases /\ t.route \in routes
  BY DEF Phases, routes
<1>3. /\ t.host \in Hosts \cup {None} /\ t.hidden \in BOOLEAN /\ t.input \in Seq(Bytes)
      /\ t.reason \in Reasons /\ t.wire \in Seq(Nat) /\ t.session \in Sessions /\ t.inner \in Nat
  BY DEF IsThread, Threads
<1>4. Return(t, end) \in Threads(routes, {<<>>}, {0})
  BY <1>1, <1>2, <1>3 DEF Return, Threads
<1> QED
  BY <1>4, Fits

\* A change of the session leaves a thread (begin, finish, abort).
LEMMA WithSession ==
    ASSUME NEW t, IsThread(t), NEW s \in Sessions
    PROVE  /\ IsThread([t EXCEPT !.session = s])
           /\ [t EXCEPT !.session = s].session = s
           /\ [t EXCEPT !.session = s].pc = t.pc
           /\ [t EXCEPT !.session = s].host = t.host
           /\ [t EXCEPT !.session = s].hidden = t.hidden
           /\ [t EXCEPT !.session = s].wire = t.wire
           /\ [t EXCEPT !.session = s].reason = t.reason
           /\ [t EXCEPT !.session = s].inner = t.inner
           /\ [t EXCEPT !.session = s].input = t.input
           /\ [t EXCEPT !.session = s].route = t.route
BY DEF IsThread, Threads

\* What two threads have in common that differ in their session only.
SameButSession(u, t) ==
    /\ u.pc = t.pc /\ u.host = t.host /\ u.hidden = t.hidden /\ u.wire = t.wire
    /\ u.reason = t.reason /\ u.inner = t.inner /\ u.input = t.input /\ u.route = t.route

\* begin_session_trace_if_visible changes the session only, and begins a visible one.
LEMMA BeginFacts ==
    ASSUME NEW t, IsThread(t)
    PROVE  /\ IsThread(Begin(t)) /\ SameButSession(Begin(t), t)
           /\ Begin(t).session.recorded = t.session.recorded
           /\ Begin(t).session.aborted = t.session.aborted
           /\ Begin(t).session.begun = (t.session.begun \/ ~t.hidden)
<1>0. t.session \in Sessions /\ t.hidden \in BOOLEAN
  BY DEF IsThread, Threads
<1>1. CASE t.hidden
  BY <1>0, <1>1 DEF Begin, SameButSession, Sessions
<1>2. CASE ~t.hidden
  <2> DEFINE s == [t.session EXCEPT !.begun = TRUE]
  <2>1. /\ s \in Sessions /\ s.begun = TRUE /\ s.recorded = t.session.recorded
        /\ s.aborted = t.session.aborted
    BY <1>0 DEF Sessions
  <2>2. Begin(t) = [t EXCEPT !.session = s]
    BY <1>2 DEF Begin
  <2> HIDE DEF s
  <2>3. IsThread(Begin(t)) /\ SameButSession(Begin(t), t) /\ Begin(t).session = s
    BY <2>1, <2>2, WithSession DEF SameButSession
  <2> QED
    BY <2>1, <2>3, <1>2
<1> QED
  BY <1>0, <1>1, <1>2

\* The thread that a thread has returned to: over, with the same client.
Over(r, t, end) ==
    /\ IsThread(r) /\ r.pc = "done" /\ r.end = end /\ r.host = t.host /\ r.hidden = t.hidden
    /\ r.input = t.input /\ r.reason = t.reason /\ r.wire = t.wire /\ r.inner = t.inner
    /\ r.got = 0 /\ r.protocol = None /\ r.failedAgo = 0

\* Return ends a thread and keeps its session.
LEMMA ReturnOver ==
    ASSUME NEW t, IsThread(t), NEW end \in Ends
    PROVE  Over(Return(t, end), t, end) /\ Return(t, end).session = t.session
BY ReturnFields, ReturnThread DEF Over

\* finish_session settles a session that has not been: a visible one is recorded once
\* with its status, a hidden one stays without a trace.
LEMMA FinishOver ==
    ASSUME NEW t, IsThread(t), Unsettled(t), NEW status \in Nat, NEW end \in Ends
    PROVE  LET r == Finish(t, status, end)
           IN  Over(r, t, end) /\ r.session.status = status /\ Settled(r)
<1> DEFINE b == Begin(t)
           n == IF t.hidden THEN b.session.recorded ELSE b.session.recorded + 1
           s1 == [b.session EXCEPT !.status = status]
           s2 == [s1 EXCEPT !.recorded = n]
           u == [b EXCEPT !.session = s2]
           r == Finish(t, status, end)
<1>0. t.session \in Sessions /\ t.hidden \in BOOLEAN
  BY DEF IsThread, Threads
<1>1. /\ IsThread(b) /\ SameButSession(b, t)
      /\ b.session.recorded = t.session.recorded
      /\ b.session.aborted = t.session.aborted
      /\ b.session.begun = (t.session.begun \/ ~t.hidden)
  BY BeginFacts
<1>2. b.session \in Sessions
  BY <1>1 DEF IsThread, Threads
<1> HIDE DEF b
<1>3. n \in Nat /\ n = (IF t.hidden THEN 0 ELSE 1)
  BY <1>0, <1>1 DEF Unsettled
<1>3a. r = Return([b EXCEPT !.session.status = status,
                            !.session.recorded = IF t.hidden THEN @ ELSE @ + 1], end)
  BY DEF Finish, b
<1>3b. s1 \in Sessions /\ s1.recorded = b.session.recorded /\ s1.status = status
       /\ s1.begun = b.session.begun /\ s1.aborted = b.session.aborted
  BY <1>2 DEF Sessions
<1> HIDE DEF s1
<1>4. [b EXCEPT !.session.status = status,
                !.session.recorded = IF t.hidden THEN @ ELSE @ + 1] = u
  <2>1. [b EXCEPT !.session.status = status] = [b EXCEPT !.session = s1]
    BY DEF s1
  <2> QED
    BY <1>3b, <1>1, <2>1
<1> HIDE DEF n
<1>5. /\ s2 \in Sessions /\ s2.recorded = n /\ s2.status = status
      /\ s2.begun = b.session.begun /\ s2.aborted = b.session.aborted
  BY <1>3, <1>3b DEF Sessions
<1> HIDE DEF s2
<1>6. IsThread(u) /\ SameButSession(u, b) /\ u.session = s2
  BY <1>1, <1>5, WithSession DEF SameButSession
<1> HIDE DEF u, r
<1>7. Over(r, u, end) /\ r.session = s2
  BY <1>3a, <1>4, <1>6, ReturnOver
<1>8. Over(r, t, end)
  BY <1>1, <1>6, <1>7 DEF Over, SameButSession
<1>9. Settled(r)
  <2>1. r.session.aborted = FALSE
    BY <1>0, <1>1, <1>5, <1>7 DEF Unsettled, Sessions
  <2>2. CASE t.hidden
    BY <1>0, <1>1, <1>3, <1>5, <1>7, <1>8, <2>1, <2>2 DEF Settled, Unsettled, Over
  <2>3. CASE ~t.hidden
    BY <1>0, <1>1, <1>3, <1>5, <1>7, <1>8, <2>1, <2>3 DEF Settled, Unsettled, Over
  <2> QED
    BY <2>2, <2>3
<1> QED
  BY <1>5, <1>7, <1>8, <1>9 DEF r

\* The drop of a TraceAbortGuard settles a session that has begun.
LEMMA AbandonOver ==
    ASSUME NEW t, IsThread(t), Unsettled(t), NEW end \in Ends,
           end \in {"write-failed", "expired", "h2", "inner-handled"}
               \/ t.session.begun \/ t.hidden
    PROVE  LET r == Abandon(t, end)
           IN  Over(r, t, end) /\ Settled(r) /\ r.session.aborted = t.session.begun
<1> DEFINE a == t.session.begun /\ t.session.recorded = 0
           s == [t.session EXCEPT !.aborted = a]
           u == [t EXCEPT !.session = s]
           r == Abandon(t, end)
<1>0. t.session \in Sessions /\ t.hidden \in BOOLEAN
  BY DEF IsThread, Threads
<1>1. a \in BOOLEAN /\ a = t.session.begun
  BY <1>0 DEF Sessions, Unsettled
<1>2. r = Return(u, end)
  BY DEF Abandon
<1> HIDE DEF a
<1>3. /\ s \in Sessions /\ s.aborted = a /\ s.recorded = t.session.recorded
      /\ s.begun = t.session.begun
  BY <1>0, <1>1 DEF Sessions
<1> HIDE DEF s
<1>4. IsThread(u) /\ SameButSession(u, t) /\ u.session = s
  BY <1>3, WithSession DEF SameButSession
<1> HIDE DEF u, r
<1>5. Over(r, u, end) /\ r.session = s
  BY <1>2, <1>4, ReturnOver
<1>6. Over(r, t, end)
  BY <1>4, <1>5 DEF Over, SameButSession
<1>7. Settled(r)
  BY <1>0, <1>1, <1>3, <1>5, <1>6 DEF Settled, Unsettled, Over, Untraced
<1> QED
  BY <1>1, <1>3, <1>5, <1>6, <1>7 DEF r

\* A thread that has sent its client a status line.
Sent(u, t, status) ==
    /\ IsThread(u) /\ u.wire = Append(t.wire, status)
    /\ u.session = t.session /\ u.pc = t.pc /\ u.host = t.host
    /\ u.hidden = t.hidden /\ u.reason = t.reason /\ u.inner = t.inner
    /\ u.input = t.input /\ u.route = t.route /\ u.layers = t.layers

\* A status line goes to the end of what the client was sent and changes nothing else.
LEMMA WriteFacts ==
    ASSUME NEW t, IsThread(t), NEW status \in Nat
    PROVE  Sent(Write(t, status), t, status)
<1>1. t.wire \in Seq(Nat)
  BY DEF IsThread, Threads
<1> DEFINE w == Append(t.wire, status)
<1>2. w \in Seq(Nat)
  BY <1>1
<1>3. Write(t, status) = [t EXCEPT !.wire = w]
  BY DEF Write
<1> HIDE DEF w
<1>4. [t EXCEPT !.wire = w] \in Threads({t.route}, {t.layers}, {t.gen})
  BY <1>2 DEF IsThread, Threads
<1>5. IsThread(Write(t, status))
  BY <1>3, <1>4, Fits
<1>6. LET u == [t EXCEPT !.wire = w]
      IN  /\ u.wire = w
          /\ u.session = t.session /\ u.pc = t.pc /\ u.host = t.host
          /\ u.hidden = t.hidden /\ u.reason = t.reason /\ u.inner = t.inner
          /\ u.input = t.input /\ u.route = t.route /\ u.layers = t.layers
  BY DEF IsThread, Threads
<1> QED
  BY <1>3, <1>5, <1>6 DEF w, Sent

(***************************************************************************)
(* ThreadInv, one way to go on after the other.                            *)
(***************************************************************************)

\* A thread that is over satisfies its invariant when its session is settled and its
\* client was answered.
LEMMA OverInv ==
    ASSUME NEW t, NEW r, NEW end, Over(r, t, end), Settled(r), t.host \in Hosts,
           t.reason = "remembered" => FailureTtl > 0,
           t.reason = "inspect" => t.wire \in {<<>>, << 200 >>},
           t.reason # "inspect" =>
               /\ Len(t.wire) <= 1
               /\ end = "bad-target" => t.wire = <<>> /\ (r.session.aborted <=> ~t.hidden)
               /\ end \notin {"write-failed", "bad-target"} => t.wire = <<r.session.status>>
    PROVE  ThreadInv(r)
<1>1. r.input \in Seq(Bytes)
  BY DEF Over, IsThread, Threads
<1>2. SessionInv(r)
  BY DEF Over, SessionInv
<1>3. AnswerInv(r)
  BY DEF Over, AnswerInv
<1>4. ProbeInv(r)
  BY <1>1 DEF Over, ProbeInv, None
<1>5. DecisionInv(r)
  BY DEF Over, DecisionInv
<1> QED
  BY <1>2, <1>3, <1>4, <1>5 DEF Over, ThreadInv, WriteSteps

\* A thread at work.
Busy(t) == t.pc \notin {"idle", "done"}

\* A connection outside the dial is an inspected one (connect_policy::decide).
LEMMA Inspected ==
    ASSUME NEW t, ThreadInv(t), Busy(t)
    PROVE  /\ IsThread(t) /\ Unsettled(t) /\ t.host \in Hosts
           /\ t.reason = "remembered" => FailureTtl > 0
           /\ t.pc \notin {"route", "dialled"} => t.reason = "inspect" /\ ~t.session.begun
           /\ t.reason = "inspect" => t.wire \in {<<>>, <<200>>}
           /\ t.reason # "inspect" => t.wire = <<>>
           /\ t.pc # "greet" /\ t.reason = "inspect" => t.wire = <<200>>
BY DEF ThreadInv, Busy, SessionInv, AnswerInv, DecisionInv

\* An inspected connection may end without a trace where the code says so.
LEMMA ReturnInv ==
    ASSUME NEW t, ThreadInv(t), Busy(t), t.pc \notin {"route", "dialled"}, NEW end \in Ends,
           \/ end \in {"write-failed", "expired", "h2", "inner-handled"}
           \/ end \in {"inner-ended", "input-error"} /\ t.inner > 0
    PROVE  ThreadInv(Return(t, end)) /\ Over(Return(t, end), t, end)
<1> DEFINE r == Return(t, end)
<1>1. /\ IsThread(t) /\ Unsettled(t) /\ t.host \in Hosts
      /\ t.reason = "inspect" /\ ~t.session.begun /\ t.wire \in {<<>>, <<200>>}
  BY Inspected
<1>2. Over(r, t, end) /\ r.session = t.session
  BY <1>1, ReturnOver
<1> HIDE DEF r
<1>3. Settled(r)
  BY <1>1, <1>2 DEF Settled, Unsettled, Untraced, Over
<1>4. ThreadInv(r)
  BY <1>1, <1>2, <1>3, OverInv
<1> QED
  BY <1>2, <1>4 DEF r

\* finish_session ends an inspected connection in order.
LEMMA FinishInv ==
    ASSUME NEW t, ThreadInv(t), Busy(t), t.pc \notin {"route", "dialled"},
           NEW status \in Nat, NEW end \in Ends
    PROVE  ThreadInv(Finish(t, status, end)) /\ Over(Finish(t, status, end), t, end)
<1> DEFINE r == Finish(t, status, end)
<1>1. /\ IsThread(t) /\ Unsettled(t) /\ t.host \in Hosts
      /\ t.reason = "inspect" /\ t.wire \in {<<>>, <<200>>}
  BY Inspected
<1>2. Over(r, t, end) /\ Settled(r)
  BY <1>1, FinishOver
<1> HIDE DEF r
<1>3. ThreadInv(r)
  BY <1>1, <1>2, OverInv
<1> QED
  BY <1>2, <1>3 DEF r

\* The phases between the probe and the end of an inspected connection: what a step
\* from one to another keeps.
Inspecting == Phases \ {"idle", "done", "route", "dialled", "greet"}

\* A thread that goes on with the same client keeps its invariant.
LEMMA GoOn ==
    ASSUME NEW t, ThreadInv(t), t.pc \in Inspecting, NEW u, IsThread(u),
           u.pc \in Inspecting \cup {"route"}, u.id = t.id, u.host = t.host,
           u.hidden = t.hidden, u.input = t.input, u.reason = t.reason,
           u.failedAgo = t.failedAgo, u.wire = t.wire, u.session = t.session, u.end = t.end,
           ProbeInv(u), u.pc \in WriteSteps => u.gen = u.id
    PROVE  ThreadInv(u)
<1>1. /\ u.pc \notin {"idle", "done", "greet", "dialled"}
      /\ t.pc \notin {"idle", "done", "route", "dialled", "greet"}
  BY DEF Inspecting
<1>2. t.reason = "inspect" /\ ~t.session.begun /\ Unsettled(t) /\ t.wire = <<200>>
  BY <1>1, Inspected DEF Busy
<1>3. SessionInv(u) /\ AnswerInv(u) /\ DecisionInv(u)
  BY <1>1, <1>2 DEF SessionInv, AnswerInv, DecisionInv, Unsettled
<1> QED
  BY <1>1, <1>3 DEF ThreadInv

-----------------------------------------------------------------------------
(***************************************************************************)
(* The steps of a thread.                                                  *)
(***************************************************************************)
Becomes(c, u) == conn' = [conn EXCEPT ![c] = u]
Touching == WriteSteps \cup {"load-chain", "load-key"}

\* A step after which the thread has nothing to do with the leaf files.
Quiet(c, u) ==
    /\ Becomes(c, u) /\ ThreadInv(u)
    /\ u.pc \notin Touching /\ u.end # "setup-failed"

\* A thread that changes its phase, and nothing else.
LEMMA Moved ==
    ASSUME NEW t, IsThread(t), NEW pc \in Phases
    PROVE  LET u == [t EXCEPT !.pc = pc]
           IN  /\ IsThread(u) /\ u.pc = pc /\ u.id = t.id /\ u.host = t.host
               /\ u.hidden = t.hidden /\ u.input = t.input /\ u.reason = t.reason
               /\ u.failedAgo = t.failedAgo /\ u.wire = t.wire /\ u.session = t.session
               /\ u.end = t.end /\ u.got = t.got /\ u.protocol = t.protocol
               /\ u.gen = t.gen /\ u.chain = t.chain /\ u.inner = t.inner
               /\ u.route = t.route /\ u.layers = t.layers
BY DEF IsThread, Threads

\* The 200 that precedes the probe.
LEMMA GreetStep ==
    ASSUME NEW c \in Conns, ThreadInv(conn[c]), Greet(c)
    PROVE  \E u : Quiet(c, u)
<1> DEFINE t == conn[c]
           w == Write(t, 200)
<1>0. t.pc = "greet" /\ Busy(t)
  BY DEF Greet, Busy
<1>1. IsThread(t) /\ t.reason = "inspect" /\ t.wire = <<>> /\ t.host \in Hosts /\ Unsettled(t) /\ ~t.session.begun
  BY <1>0, Inspected DEF ThreadInv, AnswerInv
<1>2. /\ IsThread(w) /\ w.wire = <<200>>
      /\ w.session = t.session /\ w.pc = t.pc /\ w.host = t.host
      /\ w.hidden = t.hidden /\ w.reason = t.reason /\ w.inner = t.inner
      /\ w.input = t.input /\ w.route = t.route
  <2>1. Append(t.wire, 200) = <<200>> /\ 200 \in Nat
    BY <1>1
  <2>2. Sent(w, t, 200)
    BY <1>1, <2>1, WriteFacts
  <2> HIDE DEF w
  <2> QED
    BY <2>1, <2>2 DEF Sent
<1>2a. w.id = t.id /\ w.end = t.end /\ w.got = t.got /\ w.protocol = t.protocol /\ w.failedAgo = t.failedAgo
  BY <1>1 DEF Write, IsThread, Threads
<1>3. Quiet(c, Return(t, "write-failed")) \/ ~Becomes(c, Return(t, "write-failed"))
  <2>1. "write-failed" \in Ends
    BY DEF Ends
  <2>2. ThreadInv(Return(t, "write-failed")) /\ Over(Return(t, "write-failed"), t, "write-failed")
    BY <1>0, <2>1, ReturnInv
  <2> QED
    BY <2>2 DEF Quiet, Over, Touching, WriteSteps
<1> HIDE DEF w
<1>4. Quiet(c, Return(w, "expired")) \/ ~Becomes(c, Return(w, "expired"))
  <2> DEFINE r == Return(w, "expired")
  <2>1. "expired" \in Ends
    BY DEF Ends
  <2>2. Over(r, w, "expired") /\ r.session = w.session
    BY <1>2, <2>1, ReturnOver
  <2> HIDE DEF r
  <2>3. Settled(r)
    BY <1>1, <1>2, <2>2 DEF Settled, Unsettled, Untraced, Over
  <2>4. ThreadInv(r)
    BY <1>1, <1>2, <2>2, <2>3, OverInv
  <2> QED
    BY <2>2, <2>4 DEF r, Quiet, Over, Touching, WriteSteps
<1>5. Quiet(c, [w EXCEPT !.pc = "probe"]) \/ ~Becomes(c, [w EXCEPT !.pc = "probe"])
  <2> DEFINE u == [w EXCEPT !.pc = "probe"]
  <2>0. "probe" \in Phases
    BY DEF Phases
  <2>1. /\ IsThread(u) /\ u.pc = "probe" /\ u.id = w.id /\ u.host = w.host
        /\ u.hidden = w.hidden /\ u.input = w.input /\ u.reason = w.reason
        /\ u.failedAgo = w.failedAgo /\ u.wire = w.wire /\ u.session = w.session
        /\ u.end = w.end /\ u.got = w.got /\ u.protocol = w.protocol
    BY <1>2, <2>0, Moved
  <2> HIDE DEF u
  <2>2. SessionInv(u) /\ AnswerInv(u) /\ ProbeInv(u) /\ DecisionInv(u)
    BY <1>0, <1>1, <1>2, <1>2a, <2>1
       DEF ThreadInv, SessionInv, AnswerInv, ProbeInv, DecisionInv, Unsettled
  <2>3. ThreadInv(u)
    BY <1>0, <1>1, <1>2, <1>2a, <2>1, <2>2 DEF ThreadInv, WriteSteps
  <2>4. u.end # "setup-failed"
    BY <1>0, <1>2a, <2>1 DEF ThreadInv, None
  <2> QED
    BY <2>1, <2>3, <2>4 DEF u, Quiet, Touching, WriteSteps
<1> QED
  BY <1>3, <1>4, <1>5 DEF Greet, Becomes, w

\* A byte of the client that arrives changes nothing that is decided.
LEMMA ArriveStep ==
    ASSUME NEW c \in Conns, ThreadInv(conn[c]), Arrive(c)
    PROVE  \E u : Quiet(c, u)
<1> DEFINE t == conn[c]
           u == [t EXCEPT !.got = t.got + 1]
<1>0. t.pc = "probe" /\ t.got < Len(t.input) /\ IsThread(t)
  BY DEF Arrive, ThreadInv
<1>1. Becomes(c, u)
  BY DEF Arrive, Becomes
<1>2. t.got \in Nat /\ t.input \in Seq(Bytes) /\ t.got + 1 \in Nat
  BY <1>0 DEF IsThread, Threads
<1>3. /\ IsThread(u) /\ u.pc = t.pc /\ u.id = t.id /\ u.host = t.host
      /\ u.hidden = t.hidden /\ u.input = t.input /\ u.reason = t.reason
      /\ u.failedAgo = t.failedAgo /\ u.wire = t.wire /\ u.session = t.session
      /\ u.end = t.end /\ u.got = t.got + 1 /\ u.protocol = t.protocol
  BY <1>0, <1>2 DEF IsThread, Threads
<1> HIDE DEF u
<1>4. ProbeInv(u)
  BY <1>0, <1>2, <1>3 DEF ThreadInv, ProbeInv
<1>5. t.pc \in Inspecting /\ u.pc \in Inspecting
  BY <1>0, <1>3 DEF Inspecting, Phases
<1>6. ThreadInv(u)
  BY <1>0, <1>3, <1>4, <1>5, GoOn DEF WriteSteps
<1>7. u.end # "setup-failed"
  BY <1>0, <1>3 DEF ThreadInv, None
<1> QED
  BY <1>0, <1>1, <1>3, <1>6, <1>7 DEF Quiet, Touching, WriteSteps

-----------------------------------------------------------------------------
(***************************************************************************)
(* The probe: more bytes never change what was decided from fewer.         *)
(***************************************************************************)
LessNat == {p \in Nat \X Nat : p[1] < p[2]}

\* There is no endless descent in the natural numbers.
LEMMA LessWF == IsWellFoundedOn(LessNat, Nat)
<1> SUFFICES ASSUME NEW f \in [Nat -> Nat], \A n \in Nat : <<f[n + 1], f[n]>> \in LessNat
             PROVE  FALSE
  BY DEF IsWellFoundedOn
<1> QED
  BY NatLessThanWellFounded DEF IsWellFoundedOn, OpToRel, LessNat

\* Every non-empty set of numbers has a least one.
LEMMA Least ==
    ASSUME NEW T \in SUBSET Nat, T # {}
    PROVE  \E x \in T : \A y \in T : x <= y
<1>1. PICK x \in T : \A y \in T : ~(<<y, x>> \in LessNat)
  BY LessWF, WFMin
<1>2. ASSUME NEW y \in T PROVE x <= y
  <2>1. x \in Nat /\ y \in Nat
    OBVIOUS
  <2>2. ~(<<y, x>> \in LessNat) /\ (y < x => <<y, x>> \in LessNat)
    BY <1>1, <2>1 DEF LessNat
  <2> QED
    BY <2>1, <2>2
<1> QED
  BY <1>2

\* The bytes q begin with the bytes p.
Begins(p, q) == Len(p) <= Len(q) /\ \A i \in 1..Len(p) : p[i] = q[i]

\* IsPrefix says so byte by byte.
LEMMA PrefixBytes ==
    ASSUME NEW p \in Seq(Bytes), NEW q \in Seq(Bytes)
    PROVE  IsPrefix(p, q) <=> Begins(p, q)
<1> DEFINE n == Len(p)
           a == SubSeq(p, 1, n)
           b == SubSeq(q, 1, n)
<1>1. n \in Nat /\ Len(q) \in Nat
  OBVIOUS
<1>2. a \in Seq(Bytes) /\ Len(a) = n /\ \A i \in 1..n : a[i] = p[i]
  OBVIOUS
<1>3. CASE n <= Len(q)
  <2>1. b \in Seq(Bytes) /\ Len(b) = n /\ \A i \in 1..n : b[i] = q[i]
    BY <1>1, <1>3
  <2>2. ASSUME \A i \in 1..n : p[i] = q[i] PROVE a = b
    BY <1>2, <2>1, <2>2
  <2>3. ASSUME a = b PROVE \A i \in 1..n : p[i] = q[i]
    BY <1>2, <2>1, <2>3
  <2> QED
    BY <1>3, <2>2, <2>3 DEF IsPrefix, Begins
<1>4. CASE ~(n <= Len(q))
  BY <1>4 DEF IsPrefix, Begins
<1> QED
  BY <1>3, <1>4

\* The scheme names are bytes.
LEMMA SchemeBytes == \A s \in SchemeNames : s \in Seq(Bytes)
<1>1. "h" \in Bytes /\ "s" \in Bytes /\ ":" \in Bytes
  BY DEF Bytes
<1>2. <<"h", ":">> \in Seq(Bytes) /\ <<"h", "s", ":">> \in Seq(Bytes)
  BY <1>1
<1> QED
  BY <1>2 DEF SchemeNames

\* Whatever classify_target says of the first bytes of a target, it says of all of them,
\* unless it asks for more.
LEMMA TargetStable ==
    ASSUME NEW p \in Seq(Bytes), NEW q \in Seq(Bytes), Begins(p, q), ClassifyTarget(p) # "more"
    PROVE  ClassifyTarget(q) = ClassifyTarget(p)
<1>1. p # <<>> /\ Len(p) > 0 /\ Len(q) > 0 /\ q # <<>> /\ Head(q) = Head(p)
  BY DEF ClassifyTarget, Begins
<1>2. CASE Head(p) = "/"
  BY <1>1, <1>2 DEF ClassifyTarget
<1>3. CASE Head(p) # "/"
  <2>1. ASSUME NEW s \in SchemeNames PROVE ~Begins(p, s)
    BY <1>1, <1>3, <2>1, PrefixBytes, SchemeBytes DEF ClassifyTarget
  <2>2. ASSUME NEW s \in SchemeNames PROVE ~Begins(q, s)
    <3>1. s \in Seq(Bytes)
      BY SchemeBytes
    <3> QED
      BY <2>1, <3>1 DEF Begins
  <2>3. ASSUME NEW s \in SchemeNames PROVE Begins(s, q) <=> Begins(s, p)
    <3>1. s \in Seq(Bytes) /\ ~Begins(p, s)
      BY SchemeBytes, <2>1
    <3>2. CASE Len(s) <= Len(p)
      BY <3>1, <3>2 DEF Begins
    <3>3. CASE Len(s) > Len(p)
      BY <3>1, <3>3 DEF Begins
    <3> QED
      BY <3>1, <3>2, <3>3
  <2>4. \A s \in SchemeNames : /\ IsPrefix(p, s) <=> Begins(p, s)
                               /\ IsPrefix(q, s) <=> Begins(q, s)
                               /\ IsPrefix(s, p) <=> Begins(s, p)
                               /\ IsPrefix(s, q) <=> Begins(s, q)
    BY PrefixBytes, SchemeBytes
  <2> QED
    BY <1>1, <1>3, <2>1, <2>2, <2>3, <2>4 DEF ClassifyTarget
<1> QED
  BY <1>2, <1>3

\* The first m bytes are a method name that parse would accept.
MethodValid(in, m) == m <= MaxMethodSize /\ \A i \in 1..m : IsToken(in[i])
Greeting(in) == in # <<>> /\ Head(in) = "hs"

\* classify_prefix before the space after the method has arrived.
LEMMA ClassifyNoSpace ==
    ASSUME NEW in \in Seq(Bytes), ~Greeting(in), \A i \in 1..Len(in) : in[i] # "sp"
    PROVE  ClassifyPrefix(in) = IF MethodValid(in, Len(in)) THEN "more" ELSE "unknown"
<1>1. { i \in 1..Len(in) : in[i] = "sp" } = {}
  OBVIOUS
<1> QED
  BY <1>1 DEF ClassifyPrefix, Greeting, MethodValid

\* classify_prefix once the first space, at f, has.
LEMMA ClassifySpace ==
    ASSUME NEW in \in Seq(Bytes), ~Greeting(in), NEW f \in 1..Len(in), in[f] = "sp",
           \A i \in 1..(f - 1) : in[i] # "sp"
    PROVE  ClassifyPrefix(in) =
               IF f = 1 \/ ~MethodValid(in, f - 1) THEN "unknown"
               ELSE ClassifyTarget(SubSeq(in, f + 1, Len(in)))
<1> DEFINE spaces == { i \in 1..Len(in) : in[i] = "sp" }
           first == CHOOSE i \in spaces : \A j \in spaces : i <= j
           method == SubSeq(in, 1, first - 1)
<1>1. f \in spaces /\ \A j \in spaces : f <= j
  <2>1. ASSUME NEW j \in spaces PROVE f <= j
    <3>1. j \in 1..Len(in) /\ in[j] = "sp" /\ ~(j \in 1..(f - 1))
      OBVIOUS
    <3> QED
      BY <3>1
  <2> QED
    BY <2>1
<1>2. \A i \in spaces : (\A j \in spaces : i <= j) => i = f
  <2> SUFFICES ASSUME NEW i \in spaces, \A j \in spaces : i <= j PROVE i = f
    OBVIOUS
  <2>1. i <= f /\ f <= i /\ i \in Nat /\ f \in Nat
    BY <1>1
  <2> QED
    BY <2>1
<1>3. first = f
  BY <1>1, <1>2
<1>4. spaces # {}
  BY <1>1
<1> DEFINE whole == IF spaces = {} THEN in ELSE method
<1>5. ClassifyPrefix(in) =
          IF spaces = {}
          THEN IF /\ Len(whole) <= MaxMethodSize
                  /\ \A i \in 1..Len(whole) : IsToken(whole[i])
               THEN "more" ELSE "unknown"
          ELSE IF whole = <<>> \/ ~(/\ Len(whole) <= MaxMethodSize
                                    /\ \A i \in 1..Len(whole) : IsToken(whole[i]))
               THEN "unknown" ELSE ClassifyTarget(SubSeq(in, Len(whole) + 2, Len(in)))
  BY Zenon DEF ClassifyPrefix, Greeting
<1> HIDE DEF first
<1>6. whole = SubSeq(in, 1, f - 1)
  BY <1>3, <1>4
<1> HIDE DEF whole, spaces
<1>7. /\ Len(whole) = f - 1 /\ whole \in Seq(Bytes)
      /\ \A i \in 1..(f - 1) : whole[i] = in[i]
      /\ whole = <<>> <=> f = 1
  BY <1>6
<1>8. Len(whole) + 2 = f + 1
  BY <1>7
<1>9. Len(whole) <= MaxMethodSize /\ (\A i \in 1..Len(whole) : IsToken(whole[i]))
      <=> MethodValid(in, f - 1)
  BY <1>7 DEF MethodValid
<1> QED
  BY <1>4, <1>5, <1>7, <1>8, <1>9

\* What classify_prefix decides from the first bytes of a client it decides from all.
LEMMA PrefixStable ==
    ASSUME NEW p \in Seq(Bytes), NEW q \in Seq(Bytes), Begins(p, q), ClassifyPrefix(p) # "more"
    PROVE  ClassifyPrefix(q) = ClassifyPrefix(p)
<1>0. Len(p) \in Nat /\ Len(q) \in Nat /\ Len(p) <= Len(q) /\ MaxMethodSize \in Nat
  BY ConnectAssumption DEF Begins
<1>1. p # <<>> /\ Len(p) > 0
  <2>1. ASSUME p = <<>> PROVE FALSE
    <3>1. ~Greeting(p) /\ Len(p) = 0 /\ \A i \in 1..Len(p) : p[i] # "sp"
      BY <2>1 DEF Greeting
    <3>2. MethodValid(p, Len(p))
      BY <1>0, <3>1 DEF MethodValid
    <3> QED
      BY <3>1, <3>2, ClassifyNoSpace
  <2> QED
    BY <2>1
<1>2. q # <<>> /\ Head(q) = Head(p) /\ q[1] = p[1]
  BY <1>0, <1>1 DEF Begins
<1>3. CASE Greeting(p)
  <2>1. ~(Len(p) < 3)
    BY <1>3 DEF ClassifyPrefix, Greeting
  <2>2. ~(Len(q) < 3) /\ q[2] = p[2] /\ q[3] = p[3]
    BY <1>0, <2>1 DEF Begins
  <2> QED
    BY <1>2, <1>3, <2>1, <2>2 DEF ClassifyPrefix, Greeting
<1>4. CASE ~Greeting(p)
  <2>1. ~Greeting(q)
    BY <1>1, <1>2, <1>4 DEF Greeting
  <2>2. CASE \A i \in 1..Len(p) : p[i] # "sp"
    <3>1. ~MethodValid(p, Len(p)) /\ ClassifyPrefix(p) = "unknown"
      BY <1>4, <2>2, ClassifyNoSpace
    <3>2. ASSUME NEW m \in Nat, Len(p) <= m PROVE ~MethodValid(q, m)
      BY <1>0, <3>1, <3>2 DEF MethodValid, Begins
    <3>3. CASE \A i \in 1..Len(q) : q[i] # "sp"
      BY <1>0, <2>1, <3>1, <3>2, <3>3, ClassifyNoSpace
    <3>4. CASE ~(\A i \in 1..Len(q) : q[i] # "sp")
      <4> DEFINE T == {i \in 1..Len(q) : q[i] = "sp"}
      <4>1. T \in SUBSET Nat /\ T # {}
        BY <1>0, <3>4
      <4>2. PICK f \in T : \A y \in T : f <= y
        BY <4>1, Least
      <4>3. f \in 1..Len(q) /\ q[f] = "sp" /\ \A i \in 1..(f - 1) : q[i] # "sp"
        BY <1>0, <4>2
      <4>4. ~(f \in 1..Len(p))
        BY <2>2, <4>3 DEF Begins
      <4>5. f - 1 \in Nat /\ Len(p) <= f - 1
        BY <1>0, <4>3, <4>4
      <4>6. ~MethodValid(q, f - 1)
        BY <3>2, <4>5
      <4> QED
        BY <2>1, <3>1, <4>3, <4>6, ClassifySpace
    <3> QED
      BY <3>3, <3>4
  <2>3. CASE ~(\A i \in 1..Len(p) : p[i] # "sp")
    <3> DEFINE T == {i \in 1..Len(p) : p[i] = "sp"}
    <3>1. T \in SUBSET Nat /\ T # {}
      BY <1>0, <2>3
    <3>2. PICK f \in T : \A y \in T : f <= y
      BY <3>1, Least
    <3>3. f \in 1..Len(p) /\ p[f] = "sp" /\ \A i \in 1..(f - 1) : p[i] # "sp"
      BY <1>0, <3>2
    <3>4. f \in 1..Len(q) /\ q[f] = "sp" /\ \A i \in 1..(f - 1) : q[i] = p[i]
      BY <1>0, <3>3 DEF Begins
    <3>5. \A i \in 1..(f - 1) : q[i] # "sp"
      BY <3>3, <3>4
    <3>6. MethodValid(q, f - 1) <=> MethodValid(p, f - 1)
      BY <3>4 DEF MethodValid
    <3> DEFINE a == SubSeq(p, f + 1, Len(p))
               b == SubSeq(q, f + 1, Len(q))
    <3>7. a \in Seq(Bytes) /\ b \in Seq(Bytes) /\ Begins(a, b)
      <4>1. a \in Seq(Bytes) /\ Len(a) = Len(p) - f /\ \A i \in 1..(Len(p) - f) : a[i] = p[f + i]
        BY <1>0, <3>3
      <4>2. b \in Seq(Bytes) /\ Len(b) = Len(q) - f /\ \A i \in 1..(Len(q) - f) : b[i] = q[f + i]
        BY <1>0, <3>4
      <4> HIDE DEF a, b
      <4>3. ASSUME NEW i \in 1..Len(a) PROVE a[i] = b[i]
        <5>1. f + i \in 1..Len(p) /\ i \in 1..(Len(q) - f) /\ i \in 1..(Len(p) - f)
          BY <1>0, <3>3, <4>1
        <5> QED
          BY <4>1, <4>2, <5>1 DEF Begins
      <4> QED
        BY <1>0, <3>3, <4>1, <4>2, <4>3 DEF Begins
    <3>8. /\ ClassifyPrefix(p) = IF f = 1 \/ ~MethodValid(p, f - 1) THEN "unknown"
                                 ELSE ClassifyTarget(a)
          /\ ClassifyPrefix(q) = IF f = 1 \/ ~MethodValid(q, f - 1) THEN "unknown"
                                 ELSE ClassifyTarget(b)
      BY <1>4, <2>1, <3>3, <3>4, <3>5, ClassifySpace
    <3> HIDE DEF a, b
    <3> QED
      BY <3>6, <3>7, <3>8, TargetStable
  <2> QED
    BY <2>2, <2>3
<1> QED
  BY <1>3, <1>4

-----------------------------------------------------------------------------
\* A thread that turns to the path of a protocol.
Turn(t, pc, protocol) == [t EXCEPT !.pc = pc, !.protocol = protocol]

\* The probe goes on to the path it has decided on with the decision that all bytes of
\* the client call for.
LEMMA ProbeGoesOn ==
    ASSUME NEW t, ThreadInv(t), t.pc = "probe", NEW pc \in {"probe", "config", "inner", "route"},
           NEW protocol \in Protocols,
           protocol \in {"tls", "http", "unknown"} =>
               ClassifyPrefix(SubSeq(t.input, 1, t.got)) = protocol
    PROVE  LET u == Turn(t, pc, protocol)
           IN  ThreadInv(u) /\ u.pc = pc /\ u.end = None
<1> DEFINE u == [t EXCEPT !.pc = pc, !.protocol = protocol]
<1>0. IsThread(t) /\ pc \in Phases /\ t.end = None /\ t.got <= Len(t.input)
  BY DEF ThreadInv, Phases, ProbeInv
<1>1. t.got \in Nat /\ t.input \in Seq(Bytes)
  BY <1>0 DEF IsThread, Threads
<1>2. /\ IsThread(u) /\ u.pc = pc /\ u.id = t.id /\ u.host = t.host
      /\ u.hidden = t.hidden /\ u.input = t.input /\ u.reason = t.reason
      /\ u.failedAgo = t.failedAgo /\ u.wire = t.wire /\ u.session = t.session
      /\ u.end = t.end /\ u.got = t.got /\ u.protocol = protocol
  BY <1>0 DEF IsThread, Threads
<1>3. protocol \in {"tls", "http", "unknown"} => ClassifyPrefix(t.input) = protocol
  <2> DEFINE p == SubSeq(t.input, 1, t.got)
  <2>1. p \in Seq(Bytes) /\ Begins(p, t.input)
    BY <1>0, <1>1 DEF Begins
  <2> QED
    BY <1>1, <2>1, PrefixStable
<1> HIDE DEF u
<1>4. ProbeInv(u)
  BY <1>0, <1>2, <1>3 DEF ProbeInv
<1>5. t.pc \in Inspecting /\ u.pc \in Inspecting \cup {"route"}
  BY <1>2 DEF Inspecting, Phases
<1>6. ThreadInv(u)
  BY <1>2, <1>4, <1>5, GoOn DEF WriteSteps
<1> QED
  BY <1>0, <1>2, <1>6 DEF u, Turn

\* finish_session takes an inspected connection out of everything.
LEMMA FinishQuiet ==
    ASSUME NEW c \in Conns, NEW t, ThreadInv(t), Busy(t), t.pc \notin {"route", "dialled"},
           NEW status \in Nat, NEW end \in Ends \ {"setup-failed"},
           Becomes(c, Finish(t, status, end))
    PROVE  Quiet(c, Finish(t, status, end))
<1>1. ThreadInv(Finish(t, status, end)) /\ Over(Finish(t, status, end), t, end)
  BY FinishInv
<1> QED
  BY <1>1 DEF Quiet, Over, Touching, WriteSteps

\* A return without a trace does too.
LEMMA ReturnQuiet ==
    ASSUME NEW c \in Conns, NEW t, ThreadInv(t), Busy(t), t.pc \notin {"route", "dialled"},
           NEW end \in Ends \ {"setup-failed"},
           \/ end \in {"write-failed", "expired", "h2", "inner-handled"}
           \/ end \in {"inner-ended", "input-error"} /\ t.inner > 0,
           Becomes(c, Return(t, end))
    PROVE  Quiet(c, Return(t, end))
<1>1. ThreadInv(Return(t, end)) /\ Over(Return(t, end), t, end)
  BY ReturnInv
<1> QED
  BY <1>1 DEF Quiet, Over, Touching, WriteSteps

\* The probe.
LEMMA ProbeStep ==
    ASSUME NEW c \in Conns, ThreadInv(conn[c]), Probe(c)
    PROVE  \E u : Quiet(c, u)
<1> DEFINE t == conn[c]
           seen == ClassifyPrefix(SubSeq(t.input, 1, t.got))
<1>0. t.pc = "probe" /\ Busy(t)
  BY DEF Probe, Busy
<1> DEFINE nexts ==
             (IF t.got = 0 THEN {Finish(Turn(t, "probe", "closed"), 200, "closed")}
              ELSE CASE seen = "tls" -> {Turn(t, "config", "tls")}
                     [] seen = "http" -> {Turn(t, "inner", "http")}
                     [] seen = "unknown" -> {Turn(t, "route", "unknown")}
                     [] seen = "more" -> {})
             \cup {Turn(t, "route", "timeout"), Finish(t, 502, "probe-error"),
                   Finish(t, 504, "total-timeout")}
<1>a. conn' \in { [conn EXCEPT ![c] = next] : next \in nexts }
  BY Zenon DEF Probe, Turn
<1> HIDE DEF nexts
<1>1. PICK u \in nexts : Becomes(c, u)
  BY <1>a DEF Becomes
<1>2. /\ "tls" \in Protocols /\ "http" \in Protocols /\ "unknown" \in Protocols
      /\ "timeout" \in Protocols /\ "closed" \in Protocols
  BY DEF Protocols
<1>3. /\ "probe-error" \in Ends \ {"setup-failed"} /\ "total-timeout" \in Ends \ {"setup-failed"}
      /\ "closed" \in Ends \ {"setup-failed"}
  BY DEF Ends, None
<1>4. CASE u = Finish(t, 502, "probe-error")
  <2>1. 502 \in Nat /\ t.pc \notin {"route", "dialled"}
    BY <1>0
  <2> QED
    BY <1>0, <1>1, <1>3, <1>4, <2>1, FinishQuiet
<1>5. CASE u = Finish(t, 504, "total-timeout")
  <2>1. 504 \in Nat /\ t.pc \notin {"route", "dialled"}
    BY <1>0
  <2> QED
    BY <1>0, <1>1, <1>3, <1>5, <2>1, FinishQuiet
<1>6. CASE u = Finish(Turn(t, "probe", "closed"), 200, "closed")
  <2>0. PICK v : v = Turn(t, "probe", "closed")
    OBVIOUS
  <2>1. ThreadInv(v) /\ v.pc = "probe"
    <3>1. "probe" \in {"probe", "config", "inner", "route"}
      OBVIOUS
    <3>2. ~("closed" \in {"tls", "http", "unknown"})
      OBVIOUS
    <3> QED
      BY <1>0, <1>2, <2>0, <3>1, <3>2, ProbeGoesOn
  <2>2. 200 \in Nat /\ v.pc \notin {"route", "dialled"} /\ Busy(v)
    BY <2>1 DEF Busy
  <2>3. u = Finish(v, 200, "closed")
    BY <1>6, <2>0
  <2> QED
    BY <1>1, <1>3, <2>1, <2>2, <2>3, FinishQuiet
<1>7. CASE u = Turn(t, "route", "timeout")
  <2>1. ThreadInv(u) /\ u.pc = "route" /\ u.end = None
    BY <1>0, <1>2, <1>7, ProbeGoesOn
  <2> QED
    BY <1>1, <2>1 DEF Quiet, Touching, WriteSteps, None
<1>8. CASE u = Turn(t, "config", "tls") /\ seen = "tls"
  <2>0. PICK to, as : to = "config" /\ as = "tls"
    OBVIOUS
  <2>1. ThreadInv(u) /\ u.pc = "config" /\ u.end = None
    <3>1. to \in {"probe", "config", "inner", "route"} /\ as \in Protocols
      BY <1>2, <2>0
    <3>2. ClassifyPrefix(SubSeq(t.input, 1, t.got)) = as /\ u = Turn(t, to, as)
      BY <1>8, <2>0
    <3> QED
      BY <1>0, <2>0, <3>1, <3>2, ProbeGoesOn
  <2> QED
    BY <1>1, <2>1 DEF Quiet, Touching, WriteSteps, None
<1>9. CASE u = Turn(t, "inner", "http") /\ seen = "http"
  <2>0. PICK to, as : to = "inner" /\ as = "http"
    OBVIOUS
  <2>1. ThreadInv(u) /\ u.pc = "inner" /\ u.end = None
    <3>1. to \in {"probe", "config", "inner", "route"} /\ as \in Protocols
      BY <1>2, <2>0
    <3>2. ClassifyPrefix(SubSeq(t.input, 1, t.got)) = as /\ u = Turn(t, to, as)
      BY <1>9, <2>0
    <3> QED
      BY <1>0, <2>0, <3>1, <3>2, ProbeGoesOn
  <2> QED
    BY <1>1, <2>1 DEF Quiet, Touching, WriteSteps, None
<1>10. CASE u = Turn(t, "route", "unknown") /\ seen = "unknown"
  <2>0. PICK to, as : to = "route" /\ as = "unknown"
    OBVIOUS
  <2>1. ThreadInv(u) /\ u.pc = "route" /\ u.end = None
    <3>1. to \in {"probe", "config", "inner", "route"} /\ as \in Protocols
      BY <1>2, <2>0
    <3>2. ClassifyPrefix(SubSeq(t.input, 1, t.got)) = as /\ u = Turn(t, to, as)
      BY <1>10, <2>0, Zenon
    <3> QED
      BY <1>0, <2>0, <3>1, <3>2, ProbeGoesOn
  <2> QED
    BY <1>1, <2>1 DEF Quiet, Touching, WriteSteps, None
<1>11. seen \in {"tls", "http", "unknown", "more"}
  BY Zenon DEF ClassifyPrefix, ClassifyTarget
<1> HIDE DEF seen
<1> QED
  BY <1>1, <1>4, <1>5, <1>6, <1>7, <1>8, <1>9, <1>10, <1>11 DEF nexts

-----------------------------------------------------------------------------
\* A thread that dials: its client has the 200 of the probe or is still owed an answer.
Owed(t) ==
    /\ IsThread(t) /\ Unsettled(t) /\ t.host \in Hosts
    /\ t.reason = "remembered" => FailureTtl > 0
    /\ t.reason = "inspect" => t.wire = <<200>>
    /\ t.reason # "inspect" => t.wire = <<>>

\* Whether the 200 has been written is known from what was written.
LEMMA OwedAnswer ==
    ASSUME NEW t, Owed(t)
    PROVE  Established(t) <=> t.reason = "inspect"
<1>1. CASE t.reason = "inspect"
  <2>1. t.wire = <<200>>
    BY <1>1 DEF Owed
  <2>2. 1 \in DOMAIN <<200>> /\ <<200>>[1] = 200
    OBVIOUS
  <2> QED
    BY <1>1, <2>1, <2>2 DEF Established, ToSet
<1>2. CASE t.reason # "inspect"
  <2>1. t.wire = <<>>
    BY <1>2 DEF Owed
  <2>2. DOMAIN <<>> = {}
    OBVIOUS
  <2> QED
    BY <1>2, <2>1, <2>2 DEF Established, ToSet
<1> QED
  BY <1>1, <1>2

\* A dial that is over gives its client the one answer it is owed, and its session the
\* same status (connect.rs handle_passthrough, finish_upstream_error).
LEMMA FinishAnswered ==
    ASSUME NEW t, Owed(t), NEW status \in Nat,
           NEW end \in Ends \ {None, "bad-target"}
    PROVE  LET r == Finish(IF Established(t) THEN t ELSE Write(t, status), status, end)
           IN  ThreadInv(r) /\ r.pc = "done" /\ r.end = end
<1> DEFINE r == Finish(IF Established(t) THEN t ELSE Write(t, status), status, end)
<1>0. IsThread(t) /\ Unsettled(t) /\ t.host \in Hosts
  BY DEF Owed
<1>1. CASE t.reason = "inspect"
  <2>1. r = Finish(t, status, end)
    BY <1>1, OwedAnswer
  <2>2. Over(r, t, end) /\ Settled(r)
    BY <1>0, <2>1, FinishOver
  <2> HIDE DEF r
  <2>3. ThreadInv(r)
    BY <1>0, <1>1, <2>2, OverInv DEF Owed
  <2> QED
    BY <2>2, <2>3 DEF Over, r
<1>2. CASE t.reason # "inspect"
  <2> DEFINE w == Write(t, status)
  <2>1. r = Finish(w, status, end)
    BY <1>2, OwedAnswer
  <2>2. Sent(w, t, status)
    BY <1>0, WriteFacts
  <2> HIDE DEF w
  <2>3. IsThread(w) /\ Unsettled(w) /\ w.wire = <<status>> /\ w.host \in Hosts
        /\ w.reason = t.reason
    <3>1. t.wire = <<>> /\ Append(<<>>, status) = <<status>>
      BY <1>2 DEF Owed
    <3> QED
      BY <1>0, <2>2, <3>1 DEF Sent, Unsettled
  <2>4. Over(r, w, end) /\ Settled(r) /\ r.session.status = status
    BY <2>1, <2>3, FinishOver
  <2> HIDE DEF r
  <2>5. Len(w.wire) <= 1
    BY <2>3
  <2>6. ThreadInv(r)
    BY <1>2, <2>3, <2>4, <2>5, OverInv DEF Owed
  <2> QED
    BY <2>4, <2>6 DEF Over, r
<1> QED
  BY <1>1, <1>2

\* A thread that begins to dial has begun its session if it is visible.
LEMMA BeginOwed ==
    ASSUME NEW t, ThreadInv(t), t.pc = "route"
    PROVE  Owed(Begin(t)) /\ Begin(t).pc = "route"
<1>1. /\ IsThread(t) /\ Unsettled(t) /\ t.host \in Hosts
      /\ t.reason = "remembered" => FailureTtl > 0
      /\ t.reason # "inspect" => t.wire = <<>>
      /\ t.reason = "inspect" => t.wire = <<200>>
  BY Inspected DEF Busy
<1> DEFINE b == Begin(t)
<1>2. /\ IsThread(b) /\ SameButSession(b, t)
      /\ b.session.recorded = t.session.recorded
      /\ b.session.aborted = t.session.aborted
      /\ b.session.begun = (t.session.begun \/ ~t.hidden)
  BY <1>1, BeginFacts
<1> HIDE DEF b
<1>3. Unsettled(b)
  BY <1>1, <1>2 DEF Unsettled, SameButSession
<1>4. Owed(b) /\ b.pc = "route"
  BY <1>1, <1>2, <1>3 DEF Owed, SameButSession
<1> QED
  BY <1>4 DEF b

\* handle_passthrough up to the end of the dial.
LEMMA PassthroughStep ==
    ASSUME NEW c \in Conns, ThreadInv(conn[c]), Passthrough(c)
    PROVE  \E u : Quiet(c, u)
<1> DEFINE t == conn[c]
           b == Begin(t)
           layers == TunnelUpstream(b.route)
           failedWith(e) == FinishUpstreamError(b, e, Established(b))
           dialled == [b EXCEPT !.pc = "dialled", !.layers = layers]
           bad == Abandon(b, "bad-target")
<1>0. t.pc = "route" /\ Owed(b)
  BY BeginOwed DEF Passthrough
<1>1. (\E e : Becomes(c, failedWith(e))) \/ Becomes(c, dialled)
      \/ (Becomes(c, bad) /\ ~Established(b)) \/ (Becomes(c, bad) /\ Established(b))
  BY Zenon DEF Passthrough, Becomes
<1>2. ASSUME NEW e, Becomes(c, failedWith(e)) PROVE Quiet(c, failedWith(e))
  <2>1. ErrorStatus(e) \in Nat /\ "upstream-error" \in Ends \ {None, "bad-target"}
    BY DEF ErrorStatus, Ends, None
  <2> DEFINE s == ErrorStatus(e)
             r == Finish(IF Established(b) THEN b ELSE Write(b, s), s, "upstream-error")
  <2> HIDE DEF b, s
  <2>2. ThreadInv(r) /\ r.pc = "done" /\ r.end = "upstream-error"
    BY <1>0, <2>1, FinishAnswered DEF s
  <2>3. failedWith(e) = r
    BY DEF FinishUpstreamError, s
  <2> HIDE DEF failedWith, r
  <2> QED
    BY <1>2, <2>2, <2>3 DEF Quiet, Touching, WriteSteps
<1>3. ASSUME Becomes(c, dialled) PROVE Quiet(c, dialled)
  <2>1. IsThread(b) /\ IsThread(t)
    BY <1>0 DEF Owed, ThreadInv
  <2>2. /\ b.id = t.id /\ b.end = t.end /\ b.got = t.got /\ b.protocol = t.protocol
        /\ b.failedAgo = t.failedAgo /\ b.host = t.host /\ b.input = t.input /\ b.reason = t.reason
    BY <2>1 DEF Begin, IsThread, Threads
  <2> HIDE DEF b, layers
  <2>3. dialled \in Threads({b.route}, {layers}, {b.gen})
    BY <2>1 DEF IsThread, Threads, Phases
  <2>4. IsThread(dialled)
    BY <2>3, Fits
  <2>5. /\ dialled.pc = "dialled" /\ dialled.id = b.id /\ dialled.host = b.host
        /\ dialled.hidden = b.hidden /\ dialled.input = b.input /\ dialled.reason = b.reason
        /\ dialled.failedAgo = b.failedAgo /\ dialled.wire = b.wire
        /\ dialled.session = b.session /\ dialled.end = b.end /\ dialled.got = b.got
        /\ dialled.protocol = b.protocol
    BY <2>1 DEF IsThread, Threads
  <2> HIDE DEF dialled
  <2>6. /\ SessionInv(dialled) /\ AnswerInv(dialled) /\ ProbeInv(dialled) /\ DecisionInv(dialled)
    BY <1>0, <2>2, <2>5
       DEF Owed, ThreadInv, SessionInv, AnswerInv, ProbeInv, DecisionInv, Unsettled
  <2>7. ThreadInv(dialled)
    BY <1>0, <2>2, <2>4, <2>5, <2>6 DEF ThreadInv, WriteSteps
  <2>8. dialled.end # "setup-failed"
    BY <1>0, <2>2, <2>5 DEF ThreadInv, None
  <2> QED
    BY <1>3, <2>5, <2>7, <2>8 DEF Quiet, Touching, WriteSteps
<1>4. ASSUME Becomes(c, bad) PROVE Quiet(c, bad)
  <2>1. /\ IsThread(t) /\ t.hidden \in BOOLEAN /\ t.session \in Sessions
        /\ ~t.session.begun
    BY <1>0 DEF ThreadInv, IsThread, Threads, SessionInv
  <2>2. /\ IsThread(b) /\ b.hidden = t.hidden
        /\ b.session.begun = (t.session.begun \/ ~t.hidden)
    BY <2>1, BeginFacts DEF SameButSession
  <2> HIDE DEF b
  <2>3. Unsettled(b) /\ "bad-target" \in Ends BY <1>0 DEF Owed, Ends
  <2>4. b.session.begun \/ b.hidden BY <2>1, <2>2
  <2>5. Over(bad, b, "bad-target") /\ Settled(bad) /\ bad.session.aborted = b.session.begun
    BY <2>2, <2>3, <2>4, AbandonOver
  <2> HIDE DEF bad
  <2>6. bad.session.aborted <=> ~b.hidden
    <3>1. t.session.begun \in BOOLEAN BY <2>1 DEF Sessions
    <3> QED BY <2>1, <2>2, <2>5, <3>1
  <2>7. /\ b.host \in Hosts /\ (b.reason = "remembered" => FailureTtl > 0)
        /\ b.reason = "inspect" => b.wire \in {<<>>, <<200>>}
        /\ b.reason # "inspect" => b.wire = <<>> /\ Len(b.wire) <= 1
    <3>1. /\ b.host \in Hosts /\ (b.reason = "remembered" => FailureTtl > 0)
          /\ b.reason = "inspect" => b.wire = <<200>>
          /\ b.reason # "inspect" => b.wire = <<>>
      BY <1>0 DEF Owed
    <3>2. Len(<<>>) <= 1 OBVIOUS
    <3> QED BY <3>1, <3>2
  <2>8. ThreadInv(bad)
    BY <2>5, <2>6, <2>7, OverInv
  <2> QED
    BY <1>4, <2>5, <2>8 DEF Quiet, Over, Touching, WriteSteps
<1> QED
  BY <1>1, <1>2, <1>3, <1>4

\* The rest of it: the 200 that is owed, the tunnel, the record.
LEMMA TunnelStep ==
    ASSUME NEW c \in Conns, ThreadInv(conn[c]), Tunnel(c)
    PROVE  \E u : Quiet(c, u)
<1> DEFINE t == conn[c]
           r == Finish(IF Established(t) THEN t ELSE Write(t, 200), 200, "tunnelled")
           a == Abandon(t, "write-failed")
<1>0. t.pc = "dialled"
  BY DEF Tunnel
<1>1. Owed(t)
  BY <1>0, Inspected DEF Busy, Owed
<1>2. (~Established(t) /\ Becomes(c, a)) \/ Becomes(c, r)
  BY Zenon DEF Tunnel, Becomes
<1>3. ASSUME Becomes(c, r) PROVE Quiet(c, r)
  <2>1. 200 \in Nat /\ "tunnelled" \in Ends \ {None, "bad-target"}
    BY DEF Ends, None
  <2>2. ThreadInv(r) /\ r.pc = "done" /\ r.end = "tunnelled"
    BY <1>1, <2>1, FinishAnswered
  <2> HIDE DEF r
  <2> QED
    BY <1>3, <2>2 DEF Quiet, Touching, WriteSteps
<1>4. ASSUME ~Established(t), Becomes(c, a) PROVE Quiet(c, a)
  <2>1. t.reason # "inspect" /\ t.wire = <<>> /\ Len(t.wire) <= 1
    BY <1>1, <1>4, OwedAnswer DEF Owed
  <2>2. IsThread(t) /\ Unsettled(t) /\ "write-failed" \in Ends
    BY <1>1 DEF Owed, Ends
  <2>3. Over(a, t, "write-failed") /\ Settled(a)
    BY <2>2, AbandonOver
  <2> HIDE DEF a
  <2>4. ThreadInv(a)
    BY <1>1, <2>1, <2>3, OverInv DEF Owed
  <2> QED
    BY <1>4, <2>3, <2>4 DEF Quiet, Over, Touching, WriteSteps
<1> QED
  BY <1>2, <1>3, <1>4

-----------------------------------------------------------------------------
\* A step within handle_connect_mitm or inner_http::serve that changes the phase only.
LEMMA MoveInv ==
    ASSUME NEW t, ThreadInv(t), t.pc \in Inspecting, NEW pc \in Inspecting,
           pc \in WriteSteps => t.gen = t.id
    PROVE  ThreadInv([t EXCEPT !.pc = pc])
<1> DEFINE u == [t EXCEPT !.pc = pc]
<1>0. IsThread(t) /\ pc \in Phases /\ ProbeInv(t)
  BY DEF ThreadInv, Inspecting
<1>1. /\ IsThread(u) /\ u.pc = pc /\ u.id = t.id /\ u.host = t.host
      /\ u.hidden = t.hidden /\ u.input = t.input /\ u.reason = t.reason
      /\ u.failedAgo = t.failedAgo /\ u.wire = t.wire /\ u.session = t.session
      /\ u.end = t.end /\ u.got = t.got /\ u.protocol = t.protocol /\ u.gen = t.gen
  BY <1>0, Moved
<1> HIDE DEF u
<1>2. ProbeInv(u)
  BY <1>0, <1>1 DEF ProbeInv
<1>3. ThreadInv(u)
  BY <1>1, <1>2, GoOn
<1> QED
  BY <1>3 DEF u

\* The phases of the tunnel's own requests.
LEMMA InnerPhases ==
    {"inner", "request", "handshake", "config", "probe"} \cup Touching \subseteq Inspecting
BY DEF Inspecting, Phases, Touching, WriteSteps

\* inner_http::serve reads a head, or ends the tunnel.
LEMMA InnerHeadStep ==
    ASSUME NEW c \in Conns, Table, ThreadInv(conn[c]), InnerHead(c)
    PROVE  \E u : Quiet(c, u)
<1> DEFINE t == conn[c]
           layers == IF t.route = NoRoute THEN <<>> ELSE UpstreamStream(InnerScheme(t), t.route)
           v == [t EXCEPT !.pc = "request", !.layers = layers]
           own(status) == IF t.inner = 0 THEN Finish(t, status, "inner-ended")
                          ELSE Return(t, "inner-ended")
<1>0. /\ t.pc = "inner" /\ Busy(t) /\ t.pc \notin {"route", "dialled"} /\ t.pc \in Inspecting
      /\ "request" \in Inspecting /\ "request" \in Phases /\ IsThread(t)
  BY InnerPhases DEF InnerHead, Busy, Phases, ThreadInv
<1>1. t.inner \in Nat /\ "inner-ended" \in Ends \ {"setup-failed"}
  BY <1>0 DEF IsThread, Threads, Ends, None
<1>2. \/ \E status \in {200, 400, 502} : Becomes(c, own(status))
      \/ conn' = [conn EXCEPT ![c].pc = "request", ![c].layers = layers]
  BY Zenon DEF InnerHead, Becomes
<1>2a. c \in DOMAIN conn
  BY DEF Table
<1>3. ASSUME NEW status \in {200, 400, 502}, Becomes(c, Finish(t, status, "inner-ended"))
      PROVE  \E u : Quiet(c, u)
  <2>1. status \in Nat
    OBVIOUS
  <2> QED
    BY <1>0, <1>1, <1>3, <2>1, FinishQuiet
<1>4. ASSUME t.inner # 0, Becomes(c, Return(t, "inner-ended"))
      PROVE  \E u : Quiet(c, u)
  <2>1. t.inner > 0
    BY <1>1, <1>4
  <2> QED
    BY <1>0, <1>1, <1>4, <2>1, ReturnQuiet
<1> HIDE DEF layers
<1>5. ASSUME conn' = [conn EXCEPT ![c].pc = "request", ![c].layers = layers], c \in DOMAIN conn
      PROVE  \E u : Quiet(c, u)
  <2>1. Becomes(c, v)
    BY <1>5 DEF Becomes
  <2>2. v \in Threads({t.route}, {layers}, {t.gen})
    BY <1>0 DEF IsThread, Threads
  <2>3. IsThread(v)
    BY <2>2, Fits
  <2>4. /\ v.pc = "request" /\ v.id = t.id /\ v.host = t.host
        /\ v.hidden = t.hidden /\ v.input = t.input /\ v.reason = t.reason
        /\ v.failedAgo = t.failedAgo /\ v.wire = t.wire /\ v.session = t.session
        /\ v.end = t.end /\ v.got = t.got /\ v.protocol = t.protocol
    BY <1>0 DEF IsThread, Threads
  <2> HIDE DEF v
  <2>5. ProbeInv(v)
    BY <2>4 DEF ProbeInv, ThreadInv
  <2>6. ThreadInv(v)
    BY <1>0, <2>3, <2>4, <2>5, GoOn DEF WriteSteps
  <2>7. v.end # "setup-failed"
    BY <1>0, <2>4 DEF ThreadInv, None
  <2> QED
    BY <2>1, <2>4, <2>6, <2>7 DEF Quiet, Touching, WriteSteps
<1>6. \A status : own(status) = IF t.inner = 0 THEN Finish(t, status, "inner-ended")
                                ELSE Return(t, "inner-ended")
  OBVIOUS
<1> HIDE DEF own
<1> QED
  BY <1>2, <1>2a, <1>3, <1>4, <1>5, <1>6

\* The outcomes of a request inside the tunnel.
LEMMA InnerRequestStep ==
    ASSUME NEW c \in Conns, Table, ThreadInv(conn[c]), InnerRequest(c)
    PROVE  \E u : Quiet(c, u)
<1> DEFINE t == conn[c]
           v == [t EXCEPT !.pc = "inner", !.inner = t.inner + 1]
           refused == IF t.inner = 0 THEN Finish(t, 400, "input-error")
                      ELSE Return(t, "input-error")
<1>0. /\ t.pc = "request" /\ Busy(t) /\ t.pc \notin {"route", "dialled"} /\ t.pc \in Inspecting
      /\ "inner" \in Inspecting /\ "inner" \in Phases /\ IsThread(t) /\ c \in DOMAIN conn
  BY InnerPhases DEF InnerRequest, Busy, Phases, ThreadInv, Table
<1>1. t.inner \in Nat
  BY <1>0 DEF IsThread, Threads
<1>1a. /\ "inner-handled" \in Ends \ {"setup-failed"} /\ "input-error" \in Ends \ {"setup-failed"}
       /\ "write-failed" \in Ends \ {"setup-failed"}
  BY DEF Ends, None
<1>2. \/ conn' = [conn EXCEPT ![c].pc = "inner", ![c].inner = conn[c].inner + 1]
      \/ Becomes(c, Return(t, "inner-handled"))
      \/ Becomes(c, refused)
      \/ Becomes(c, Return(t, "write-failed"))
  <2>1. \/ conn' = [conn EXCEPT ![c].pc = "inner", ![c].inner = @ + 1]
        \/ conn' = [conn EXCEPT ![c] = Return(@, "inner-handled")]
        \/ conn' = [conn EXCEPT ![c] = refused]
        \/ conn' = [conn EXCEPT ![c] = Return(@, "write-failed")]
    BY Zenon DEF InnerRequest
  <2>2. [conn EXCEPT ![c].pc = "inner", ![c].inner = @ + 1]
          = [conn EXCEPT ![c].pc = "inner", ![c].inner = conn[c].inner + 1]
    BY <1>0 DEF IsThread, Threads
  <2> HIDE DEF refused
  <2> QED
    BY <2>1, <2>2 DEF Becomes
<1>3. ASSUME Becomes(c, Return(t, "inner-handled")) PROVE \E u : Quiet(c, u)
  BY <1>0, <1>1a, <1>3, ReturnQuiet
<1>4. ASSUME Becomes(c, Return(t, "write-failed")) PROVE \E u : Quiet(c, u)
  BY <1>0, <1>1a, <1>4, ReturnQuiet
<1>5. ASSUME Becomes(c, refused) PROVE \E u : Quiet(c, u)
  <2>1. CASE t.inner = 0
    <3>1. Becomes(c, Finish(t, 400, "input-error")) /\ 400 \in Nat
      BY <1>5, <2>1
    <3> QED
      BY <1>0, <1>1a, <3>1, FinishQuiet
  <2>2. CASE t.inner # 0
    <3>1. Becomes(c, Return(t, "input-error")) /\ t.inner > 0
      BY <1>1, <1>5, <2>2
    <3> QED
      BY <1>0, <1>1a, <3>1, ReturnQuiet
  <2> QED
    BY <2>1, <2>2
<1>6. ASSUME conn' = [conn EXCEPT ![c].pc = "inner", ![c].inner = conn[c].inner + 1]
      PROVE  \E u : Quiet(c, u)
  <2>1. Becomes(c, v)
    BY <1>0, <1>6 DEF Becomes
  <2>2. t.inner + 1 \in Nat
    BY <1>1
  <2>3. IsThread(v)
    BY <1>0, <2>2 DEF IsThread, Threads
  <2>4. /\ v.pc = "inner" /\ v.id = t.id /\ v.host = t.host
        /\ v.hidden = t.hidden /\ v.input = t.input /\ v.reason = t.reason
        /\ v.failedAgo = t.failedAgo /\ v.wire = t.wire /\ v.session = t.session
        /\ v.end = t.end /\ v.got = t.got /\ v.protocol = t.protocol
    BY <1>0 DEF IsThread, Threads
  <2> HIDE DEF v
  <2>5. ProbeInv(v)
    BY <2>4 DEF ProbeInv, ThreadInv
  <2>6. ThreadInv(v)
    BY <1>0, <2>3, <2>4, <2>5, GoOn DEF WriteSteps
  <2>7. v.end # "setup-failed"
    BY <1>0, <2>4 DEF ThreadInv, None
  <2> QED
    BY <2>1, <2>4, <2>6, <2>7 DEF Quiet, Touching, WriteSteps
<1> HIDE DEF refused
<1> QED
  BY <1>2, <1>3, <1>4, <1>5, <1>6

\* A handshake ends the connection or goes on to its requests.
LEMMA HandshakeStep ==
    ASSUME NEW c \in Conns, Table, ThreadInv(conn[c]),
           HandshakeFails(c) \/ HandshakeSucceeds(c)
    PROVE  \E u : Quiet(c, u)
<1> DEFINE t == conn[c]
<1>0. /\ t.pc = "handshake" /\ Busy(t) /\ t.pc \notin {"route", "dialled"} /\ t.pc \in Inspecting
      /\ "inner" \in Inspecting /\ "inner" \in Phases /\ IsThread(t)
  BY InnerPhases DEF HandshakeFails, HandshakeSucceeds, Busy, Phases, ThreadInv
<1>1. \/ Becomes(c, Finish(t, 408, "handshake-timeout"))
      \/ Becomes(c, Finish(t, 502, "handshake-failed"))
      \/ Becomes(c, Return(t, "h2"))
      \/ Becomes(c, [t EXCEPT !.pc = "inner"])
  <2>1. \/ conn' = [conn EXCEPT ![c] = Finish(@, 408, "handshake-timeout")]
        \/ conn' = [conn EXCEPT ![c] = Finish(@, 502, "handshake-failed")]
        \/ conn' = [conn EXCEPT ![c].pc = "inner"]
        \/ conn' = [conn EXCEPT ![c] = Return(@, "h2")]
    BY Zenon DEF HandshakeFails, HandshakeSucceeds
  <2> QED
    BY <2>1 DEF Becomes
<1>2. /\ "handshake-timeout" \in Ends \ {"setup-failed"}
      /\ "handshake-failed" \in Ends \ {"setup-failed"} /\ "h2" \in Ends \ {"setup-failed"}
  BY DEF Ends, None
<1>3. ASSUME Becomes(c, Finish(t, 408, "handshake-timeout")) PROVE \E u : Quiet(c, u)
  BY <1>0, <1>2, <1>3, 408 \in Nat, FinishQuiet
<1>4. ASSUME Becomes(c, Finish(t, 502, "handshake-failed")) PROVE \E u : Quiet(c, u)
  BY <1>0, <1>2, <1>4, 502 \in Nat, FinishQuiet
<1>5. ASSUME Becomes(c, Return(t, "h2")) PROVE \E u : Quiet(c, u)
  BY <1>0, <1>2, <1>5, ReturnQuiet
<1>6. ASSUME Becomes(c, [t EXCEPT !.pc = "inner"]) PROVE \E u : Quiet(c, u)
  <2> DEFINE u == [t EXCEPT !.pc = "inner"]
  <2>1. ThreadInv(u)
    BY <1>0, MoveInv DEF WriteSteps
  <2>2. u.pc = "inner" /\ u.end = t.end
    BY <1>0, Moved
  <2>3. t.end = None
    BY <1>0 DEF ThreadInv
  <2> HIDE DEF u
  <2> QED
    BY <1>6, <2>1, <2>2, <2>3 DEF u, Quiet, Touching, WriteSteps, None
<1> QED
  BY <1>1, <1>3, <1>4, <1>5, <1>6

-----------------------------------------------------------------------------
(***************************************************************************)
(* The remembered failures.                                                *)
(***************************************************************************)

\* What is left after a purge is younger than the lifetime of an entry.
LEMMA Purged ==
    ASSUME NEW f, Faithful(f)
    PROVE  /\ Faithful(PurgeExpired(f))
           /\ \A k \in DOMAIN PurgeExpired(f).at : clock - failed[k] < FailureTtl
<1> DEFINE live == { k \in DOMAIN f.at : clock - f.at[k] < FailureTtl }
           at == PurgeExpired(f).at
<1>1. at = [x \in live |-> f.at[x]]
  <2>1. at = Keep(f.at, live)
    BY DEF PurgeExpired
  <2>2. DOMAIN f.at \cap live = live
    OBVIOUS
  <2> QED
    BY <2>1, <2>2 DEF Keep, Restrict
<1> HIDE DEF at
<1>2. DOMAIN at = live /\ \A k \in live : at[k] = f.at[k]
  BY <1>1
<1>3. Faithful(PurgeExpired(f))
  BY <1>2 DEF at, Faithful
<1>4. \A k \in live : clock - failed[k] < FailureTtl
  BY DEF Faithful
<1> QED
  BY <1>2, <1>3, <1>4 DEF at

\* is_active_at forgets what has expired and nothing else.
LEMMA ActiveFaithful ==
    ASSUME NEW f, Faithful(f), NEW k
    PROVE  Faithful(ActiveAfter(f, k))
<1> DEFINE p == PurgeExpired(f)
<1>1. Faithful(p)
  BY Purged
<1>2. ActiveAfter(f, k).at = p.at
  BY DEF ActiveAfter, PurgeExpired
<1> QED
  BY <1>1, <1>2 DEF Faithful

\* A host that is passed through for its failure did fail, within the lifetime.
LEMMA ActiveRecent ==
    ASSUME NEW k, FailureInv, clock \in Nat, IsActive(failures, k)
    PROVE  /\ k \in Keys /\ failed[k] \in Int /\ failed[k] # Never
           /\ clock - failed[k] < FailureTtl /\ FailureTtl > 0
<1>1. Faithful(PurgeExpired(failures)) /\ k \in DOMAIN PurgeExpired(failures).at
  BY Purged DEF FailureInv, IsActive
<1>2. k \in Keys /\ failed[k] # Never /\ clock - failed[k] < FailureTtl /\ FailureTtl # 0
  BY <1>1, Purged DEF Faithful, FailureInv
<1>3. failed[k] \in Int /\ failed[k] <= clock /\ FailureTtl \in Nat
  BY <1>2, ConnectAssumption DEF FailureInv
<1> QED
  BY <1>2, <1>3

\* connect_policy::decide starts a thread in order, and forgets what has expired only.
LEMMA DecideStep ==
    ASSUME NEW c \in Conns, clock \in Nat, connects \in Nat, config \in Configs, FailureInv,
           NEW req \in Requests(connects + 1), Decide(c, req)
    PROVE  (\E u : Quiet(c, u)) /\ FailureInv'
<1> DEFINE k == HostKey[req.host]
           asked == ~config.noMitm /\ ~req.bypass /\ config.ca /\ ~config.strict
           reason == CASE config.noMitm -> "disabled"
                       [] ~config.noMitm /\ req.bypass -> "bypass"
                       [] ~config.noMitm /\ ~req.bypass /\ ~config.ca -> "no-ca"
                       [] asked /\ IsActive(failures, k) -> "remembered"
                       [] OTHER -> "inspect"
           ago == IF failed[k] = Never THEN FailureTtl ELSE clock - failed[k]
           crowded == Cardinality(usedSince[k]) >= FailureCapacity
           route == UpstreamRoute(FALSE, req.actions)
           pc == IF reason = "inspect" THEN "greet" ELSE "route"
           u == [Idle EXCEPT !.id = connects + 1, !.host = req.host, !.parses = req.parses,
                             !.hidden = req.hidden, !.reason = reason, !.input = req.input, !.route = route,
                             !.failedAgo = ago, !.crowded = crowded, !.pc = pc]
<1>1. /\ connects + 1 \in 1..MaxConnects /\ connects + 1 \in Nat /\ connects + 1 > 0
      /\ FailureTtl \in Nat
  BY ConnectAssumption DEF Decide
<1>2. /\ req.host \in Hosts /\ req.input \in Seq(Bytes) /\ req.bypass \in BOOLEAN
      /\ req.hidden \in BOOLEAN /\ req.parses \in BOOLEAN
  BY <1>1, RequestsAssumption
<1>3. k \in Keys
  BY <1>2 DEF Keys
<1>4. /\ Becomes(c, u)
      /\ failures' = IF asked THEN ActiveAfter(failures, k) ELSE failures
      /\ clock' = clock /\ failed' = failed
  BY Zenon DEF Decide, Becomes
<1>5. reason \in {"disabled", "bypass", "no-ca", "remembered", "inspect"}
  <2>1. /\ config.noMitm \in BOOLEAN /\ config.ca \in BOOLEAN /\ config.strict \in BOOLEAN
    BY DEF Configs
  <2> QED
    BY <1>2, <2>1
<1>6. reason = "remembered" => IsActive(failures, k)
  <2>1. /\ config.noMitm \in BOOLEAN /\ config.ca \in BOOLEAN /\ config.strict \in BOOLEAN
    BY DEF Configs
  <2> QED
    BY <1>2, <2>1
<1> HIDE DEF asked, reason
<1>7. ago \in Int
  BY <1>1, <1>3 DEF FailureInv
<1>8. reason = "remembered" => ago < FailureTtl /\ FailureTtl > 0
  BY <1>6, ActiveRecent
<1>8a. crowded \in BOOLEAN
  OBVIOUS
<1> HIDE DEF ago, crowded, k
<1>9. pc \in Phases /\ pc \in {"greet", "route"} /\ (pc = "greet" <=> reason = "inspect")
  BY DEF Phases
<1> HIDE DEF pc, route
<1>10. IsThread(u)
  <2> DEFINE routes == {Direct, route}
  <2> HIDE DEF routes
  <2>1. Idle \in Threads(routes, {<<>>}, {0}) /\ route \in routes
    BY IdleThread DEF routes
  <2>2. reason \in Reasons
    BY <1>5 DEF Reasons
  <2>3. u \in Threads(routes, {<<>>}, {0})
    BY <1>1, <1>2, <1>7, <1>8a, <1>9, <2>1, <2>2 DEF Threads
  <2> HIDE DEF u
  <2> QED
    BY <2>3, Fits
<1>11. /\ u.pc = pc /\ u.id = connects + 1 /\ u.host = req.host /\ u.hidden = req.hidden
       /\ u.reason = reason /\ u.input = req.input /\ u.failedAgo = ago
       /\ u.got = 0 /\ u.protocol = None /\ u.wire = <<>> /\ u.session = NewSession
       /\ u.end = None
  BY DEF Idle
<1> HIDE DEF u
<1>12. SessionInv(u) /\ AnswerInv(u) /\ DecisionInv(u)
  BY <1>5, <1>8, <1>9, <1>11
     DEF SessionInv, Unsettled, NewSession, AnswerInv, DecisionInv
<1>13. ProbeInv(u)
  BY <1>2, <1>11 DEF ProbeInv, None
<1>14. ThreadInv(u)
  BY <1>1, <1>2, <1>9, <1>10, <1>11, <1>12, <1>13 DEF ThreadInv, WriteSteps
<1>15. Quiet(c, u)
  BY <1>4, <1>9, <1>11, <1>14 DEF Quiet, Touching, WriteSteps, None
<1>16. FailureInv'
  <2>1. Faithful(failures')
    BY <1>4, ActiveFaithful DEF FailureInv
  <2> QED
    BY <1>4, <2>1 DEF FailureInv, Faithful
<1> QED
  BY <1>15, <1>16

\* remember_at and clear keep the cache in step with the failures there were.
LEMMA HandshakeFailures ==
    ASSUME NEW c \in Conns, Key(c) \in Keys, clock \in Nat, FailureInv,
           HandshakeFails(c) \/ HandshakeSucceeds(c)
    PROVE  FailureInv'
<1> DEFINE k == Key(c)
           f == failures
<1>0. clock' = clock /\ clock # Never
  BY DEF HandshakeFails, HandshakeSucceeds, Others, Never
<1>1. \/ failures' = failures /\ failed' = failed
      \/ failures' = Remember(f, k) /\ failed' = [failed EXCEPT ![k] = clock]
      \/ failures' = Clear(f, k) /\ failed' = [failed EXCEPT ![k] = Never]
  BY DEF HandshakeFails, HandshakeSucceeds
<1>2. CASE failures' = failures /\ failed' = failed
  BY <1>0, <1>2 DEF FailureInv, Faithful
<1>3. CASE failures' = Remember(f, k) /\ failed' = [failed EXCEPT ![k] = clock]
  <2>1. /\ failed' \in [Keys -> Int] /\ \A x \in Keys : failed'[x] <= clock'
        /\ failed'[k] = clock /\ \A x \in Keys : x # k => failed'[x] = failed[x]
    BY <1>0, <1>3 DEF FailureInv
  <2>2. CASE FailureCapacity = 0 \/ FailureTtl = 0
    <3>1. failures' = f /\ DOMAIN f.at = {}
      BY <1>3, <2>2 DEF Remember, FailureInv, Faithful
    <3> QED
      BY <2>1, <3>1 DEF FailureInv, Faithful
  <2>3. CASE ~(FailureCapacity = 0 \/ FailureTtl = 0)
    <3> DEFINE p == PurgeExpired(f)
               at == [x \in DOMAIN p.at \cup {k} |-> IF x = k THEN clock ELSE p.at[x]]
               order == Touch(p.order, k)
               evict == IF Cardinality(DOMAIN at) > FailureCapacity
                        THEN Cardinality(DOMAIN at) - FailureCapacity ELSE 0
               S == ToSet(SubSeq(order, evict + 1, Len(order)))
    <3>1. failures'.at = Keep(at, S)
      BY <1>3, <2>3 DEF Remember
    <3>2. Faithful(p)
      BY Purged DEF FailureInv
    <3> HIDE DEF p, S
    <3>3. DOMAIN at = DOMAIN p.at \cup {k} /\ at[k] = clock
          /\ \A x \in DOMAIN p.at : x # k => at[x] = p.at[x]
      OBVIOUS
    <3> HIDE DEF at
    <3>4. /\ DOMAIN (failures'.at) = DOMAIN at \cap S
          /\ \A x \in DOMAIN at \cap S : failures'.at[x] = at[x]
      BY <3>1 DEF Keep, Restrict
    <3>5. Faithful(failures)'
      BY <1>0, <2>1, <2>3, <3>2, <3>3, <3>4 DEF Faithful
    <3> QED
      BY <2>1, <3>5 DEF FailureInv
  <2> QED
    BY <2>2, <2>3
<1>4. CASE failures' = Clear(f, k) /\ failed' = [failed EXCEPT ![k] = Never]
  <2>1. /\ failed' \in [Keys -> Int] /\ \A x \in Keys : failed'[x] <= clock'
        /\ \A x \in Keys : x # k => failed'[x] = failed[x]
    BY <1>0, <1>4 DEF FailureInv, Never
  <2>2. failures'.at = Keep(f.at, DOMAIN f.at \ {k})
    BY <1>4 DEF Clear
  <2>3. /\ DOMAIN (failures'.at) = DOMAIN f.at \ {k}
        /\ \A x \in DOMAIN f.at \ {k} : failures'.at[x] = f.at[x]
    BY <2>2 DEF Keep, Restrict
  <2>4. Faithful(failures)'
    BY <2>1, <2>3 DEF FailureInv, Faithful
  <2> QED
    BY <2>1, <2>4 DEF FailureInv
<1> QED
  BY <1>1, <1>2, <1>3, <1>4

\* Time only makes a failure older.
LEMMA TickFailures ==
    ASSUME clock \in Nat, FailureInv, Tick
    PROVE  FailureInv' /\ clock' \in Nat
<1>1. clock' = clock + 1 /\ failed' = failed /\ failures' = failures
  BY DEF Tick
<1>2. \A k \in Keys : failed'[k] <= clock'
  BY <1>1 DEF FailureInv
<1> QED
  BY <1>1, <1>2 DEF FailureInv, Faithful

\* A new process remembers nothing.
LEMMA NothingRemembered ==
    ASSUME clock \in Nat, failed = [k \in Keys |-> Never],
           failures = [at |-> [k \in {} |-> 0], order |-> <<>>]
    PROVE  FailureInv
<1>1. failures.at = [k \in {} |-> 0]
  OBVIOUS
<1>2. DOMAIN failures.at = {}
  BY <1>1
<1> QED
  BY <1>2 DEF FailureInv, Faithful, Never

-----------------------------------------------------------------------------
(***************************************************************************)
(* The leaf files.                                                         *)
(***************************************************************************)

\* A step changes the state of its own thread only.
LEMMA OneThread ==
    ASSUME NEW c \in Conns, NEW u, Table, Becomes(c, u)
    PROVE  /\ Table' /\ conn'[c] = u
           /\ \A d \in Conns : d # c => conn'[d] = conn[d]
BY DEF Table, Becomes

\* A thread that turns away from the leaf files leaves them in order, if it was not in
\* the middle of writing them.
LEMMA LeaveFiles ==
    ASSUME NEW c \in Conns, NEW u, Table, Leaves, Becomes(c, u), u.pc \notin Touching,
           u.end = "setup-failed" => HostKey[u.host] \in disturbed',
           leaf' = leaf, disturbed \subseteq disturbed', disturbed' \subseteq Keys,
           conn[c].pc \in WriteSteps => Key(c) \in disturbed'
    PROVE  Leaves'
<1>1. conn'[c] = u /\ \A d \in Conns : d # c => conn'[d] = conn[d]
  BY OneThread
<1>2. LeafTypes'
  BY DEF Leaves, LeafTypes
<1>3. LeafUsable'
  <2> SUFFICES ASSUME NEW d \in Conns, conn'[d].end = "setup-failed"
               PROVE  HostKey[conn'[d].host] \in disturbed'
    BY DEF LeafUsable
  <2> QED
    BY <1>1 DEF Leaves, LeafUsable
<1>4. ASSUME NEW k \in Keys \ disturbed' PROVE LeafInv(k)'
  <2>1. LeafInv(k)
    BY DEF Leaves
  <2>2. ASSUME NEW d \in Conns PROVE Writes(conn'[d], k) <=> Writes(conn[d], k)
    BY <1>1 DEF Writes, Touching, Key
  <2>3. ASSUME NEW d \in Conns, Loads(conn'[d], k) PROVE d # c /\ Loads(conn[d], k)
    BY <1>1, <2>3 DEF Loads, Touching
  <2>4. \A d \in Conns : Writes(conn'[d], k) => conn'[d] = conn[d]
    BY <1>1 DEF Writes, Touching
  <2> QED
    BY <1>1, <2>1, <2>2, <2>3, <2>4 DEF LeafInv
<1> QED
  BY <1>2, <1>3, <1>4 DEF Leaves

\* A thread that reads or writes the files of its host leaves those of others alone.
LEMMA OtherHosts ==
    ASSUME NEW c \in Conns, NEW u, Table, Becomes(c, u), u.host = conn[c].host,
           NEW k, k # Key(c), leaf'[k] = leaf[k], LeafInv(k)
    PROVE  LeafInv(k)'
<1>1. conn'[c] = u /\ \A d \in Conns : d # c => conn'[d] = conn[d]
  BY OneThread
<1>2. ~Writes(conn[c], k) /\ ~Loads(conn[c], k) /\ ~Writes(u, k) /\ ~Loads(u, k)
  BY DEF Writes, Loads, Key
<1>3. ASSUME NEW d \in Conns PROVE (Writes(conn'[d], k) <=> Writes(conn[d], k))
                                   /\ (Loads(conn'[d], k) <=> Loads(conn[d], k))
  BY <1>1, <1>2
<1>4. \A d \in Conns : Writes(conn'[d], k) \/ Loads(conn'[d], k) => conn'[d] = conn[d]
  BY <1>1, <1>2
<1> QED
  BY <1>3, <1>4 DEF LeafInv

\* So it keeps all files in order if it does those of its host.
LEMMA OwnHost ==
    ASSUME NEW c \in Conns, NEW u, Table, Leaves, Becomes(c, u), u.host = conn[c].host,
           u.end # "setup-failed", LeafTypes', disturbed \subseteq disturbed',
           disturbed' \subseteq Keys, \A k \in Keys : k # Key(c) => leaf'[k] = leaf[k],
           NEW own, own = Key(c), own \in Keys \ disturbed' => LeafInv(own)'
    PROVE  Leaves'
<1>1. conn'[c] = u /\ \A d \in Conns : d # c => conn'[d] = conn[d]
  BY OneThread
<1>3. LeafUsable'
  <2> SUFFICES ASSUME NEW d \in Conns, conn'[d].end = "setup-failed"
               PROVE  HostKey[conn'[d].host] \in disturbed'
    BY DEF LeafUsable
  <2> QED
    BY <1>1 DEF Leaves, LeafUsable
<1>4. ASSUME NEW k \in Keys \ disturbed' PROVE LeafInv(k)'
  <2>1. LeafInv(k)
    BY DEF Leaves
  <2>2. CASE k # Key(c)
    BY <2>1, <2>2, OtherHosts
  <2>3. CASE k = own
    BY <2>3
  <2> QED
    BY <2>2, <2>3
<1> QED
  BY <1>3, <1>4 DEF Leaves

\* What the host of a busy thread is known by.
LEMMA BusyKey ==
    ASSUME NEW c \in Conns, ThreadInv(conn[c]), conn[c].pc # "idle"
    PROVE  Key(c) \in Keys
BY DEF ThreadInv, Key, Keys

\* One write of ensure_leaf_certificate: what it has to leave in the files for the next.
LEMMA FileStep ==
    ASSUME NEW c \in Conns, ThreadsInv, Leaves, NEW from \in WriteSteps,
           NEW to \in WriteSteps \cup {"load-chain"},
           NEW file \in [cert : BOOLEAN, chain : Int, key : Int],
           LeafStep(c, from, to, file),
           Key(c) \notin disturbed =>
               /\ to # "write-cert" => file.cert
               /\ to \in {"write-key", "fill-key"} => file.chain = conn[c].gen
               /\ to = "load-chain" =>
                      Complete(file) /\ file.chain = file.key /\ file.key # Empty
    PROVE  (\E u : Becomes(c, u) /\ ThreadInv(u)) /\ Leaves'
<1> DEFINE t == conn[c]
           u == [t EXCEPT !.pc = to]
<1>0. PICK k : k = Key(c)
  OBVIOUS
<1>1. /\ t.pc = from /\ Becomes(c, u) /\ leaf' = [leaf EXCEPT ![k] = file]
      /\ disturbed' = disturbed
  BY <1>0 DEF LeafStep, Becomes
<1>2. /\ Table /\ ThreadInv(t) /\ IsThread(t) /\ t.pc \in Inspecting /\ to \in Inspecting
      /\ to \in Phases /\ t.pc \notin {"idle", "done"}
  BY <1>1, InnerPhases DEF ThreadsInv, ThreadInv, Touching, Inspecting
<1>3. k \in Keys
  BY <1>0, <1>2, BusyKey
<1>4. t.gen = t.id /\ ThreadInv(u)
  BY <1>1, <1>2, MoveInv DEF ThreadInv
<1>5. u.pc = to /\ u.host = t.host /\ u.end = t.end /\ u.gen = t.gen /\ t.end = None
  BY <1>2, Moved DEF ThreadInv
<1> HIDE DEF u
<1>6. LeafTypes' /\ leaf'[k] = file /\ \A x \in Keys : x # k => leaf'[x] = leaf[x]
  BY <1>1, <1>3 DEF Leaves, LeafTypes
<1>7. conn'[c] = u /\ \A d \in Conns : d # c => conn'[d] = conn[d]
  BY <1>1, <1>2, OneThread
<1>8. ASSUME k \in Keys \ disturbed' PROVE LeafInv(k)'
  <2>1. LeafInv(k) /\ Writes(t, k)
    BY <1>0, <1>1, <1>8 DEF Leaves, Writes, Key
  <2>2. \A d \in Conns : d # c => ~Writes(conn'[d], k)
    BY <1>7, <2>1 DEF LeafInv
  <2>3. \A d \in Conns : d # c => ~Loads(conn'[d], k)
    BY <1>7, <2>1 DEF LeafInv
  <2>4. CASE to \in WriteSteps
    <3>1. ~Loads(u, k) /\ Writes(u, k)
      BY <1>0, <1>5, <2>4 DEF Loads, Writes, WriteSteps, Key
    <3>2. WrittenSoFar(u, leaf'[k])
      BY <1>0, <1>1, <1>5, <1>6, <1>8 DEF WrittenSoFar
    <3> QED
      BY <1>7, <2>2, <2>3, <3>1, <3>2 DEF LeafInv
  <2>5. CASE to = "load-chain"
    <3>1. ~Writes(u, k)
      BY <1>5, <2>5 DEF Writes, WriteSteps
    <3>2. Complete(file) /\ file.chain = file.key /\ file.key # Empty
      BY <1>0, <1>1, <1>8, <2>5
    <3> QED
      BY <1>5, <1>6, <1>7, <2>2, <2>3, <2>5, <3>1, <3>2 DEF LeafInv
  <2> QED
    BY <2>4, <2>5
<1>9. u.end # "setup-failed"
  BY <1>5 DEF None
<1>10. Leaves'
  BY <1>0, <1>1, <1>2, <1>5, <1>6, <1>8, <1>9, OwnHost DEF Leaves
<1> QED
  BY <1>1, <1>4, <1>10

\* The five writes in order end with files that belong together.
LEMMA WriteLeafStep ==
    ASSUME NEW c \in Conns, ThreadsInv, Leaves, WriteLeaf(c)
    PROVE  (\E u : Becomes(c, u) /\ ThreadInv(u)) /\ Leaves'
<1> DEFINE t == conn[c]
           f == leaf[Key(c)]
           gen == t.gen
<1>0. t.pc \in WriteSteps
  BY DEF WriteLeaf, LeafStep, WriteSteps
<1>1. /\ ThreadInv(t) /\ t.pc # "idle" /\ t.pc # "done"
  BY <1>0 DEF ThreadsInv, WriteSteps
<1>2. Key(c) \in Keys
  BY <1>1, BusyKey
<1>3. f \in [cert : BOOLEAN, chain : Int, key : Int]
  BY <1>2 DEF Leaves, LeafTypes
<1>4. gen \in Int /\ gen > 0
  BY <1>0, <1>1 DEF ThreadInv, IsThread, Threads
<1>5. Key(c) \notin disturbed => WrittenSoFar(t, f)
  <2> SUFFICES ASSUME Key(c) \notin disturbed PROVE WrittenSoFar(t, f)
    OBVIOUS
  <2>1. LeafInv(Key(c)) /\ Writes(t, Key(c))
    BY <1>0, <1>2 DEF Leaves, Writes, Key
  <2> QED
    BY <2>1 DEF LeafInv
<1> HIDE DEF f
<1>6. CASE LeafStep(c, "write-cert", "write-chain", [f EXCEPT !.cert = TRUE])
  <2>1. "write-cert" \in WriteSteps /\ "write-chain" \in WriteSteps \cup {"load-chain"}
    BY DEF WriteSteps
  <2>2. /\ [f EXCEPT !.cert = TRUE] \in [cert : BOOLEAN, chain : Int, key : Int]
        /\ [f EXCEPT !.cert = TRUE].cert
    BY <1>3
  <2> QED
    BY <1>6, <2>1, <2>2, FileStep
<1>7. CASE LeafStep(c, "write-chain", "fill-chain", [f EXCEPT !.chain = Empty])
  <2>1. "write-chain" \in WriteSteps /\ "fill-chain" \in WriteSteps \cup {"load-chain"}
    BY DEF WriteSteps
  <2>2. /\ [f EXCEPT !.chain = Empty] \in [cert : BOOLEAN, chain : Int, key : Int]
        /\ [f EXCEPT !.chain = Empty].cert = f.cert
    BY <1>3 DEF Empty
  <2>3. t.pc = "write-chain"
    BY <1>7 DEF LeafStep
  <2> QED
    BY <1>5, <1>7, <2>1, <2>2, <2>3, FileStep DEF WrittenSoFar
<1>8. CASE LeafStep(c, "fill-chain", "write-key", [f EXCEPT !.chain = gen])
  <2>1. "fill-chain" \in WriteSteps /\ "write-key" \in WriteSteps \cup {"load-chain"}
    BY DEF WriteSteps
  <2>2. /\ [f EXCEPT !.chain = gen] \in [cert : BOOLEAN, chain : Int, key : Int]
        /\ [f EXCEPT !.chain = gen].cert = f.cert
        /\ [f EXCEPT !.chain = gen].chain = gen
    BY <1>3, <1>4
  <2>3. t.pc = "fill-chain"
    BY <1>8 DEF LeafStep
  <2> QED
    BY <1>5, <1>8, <2>1, <2>2, <2>3, FileStep DEF WrittenSoFar
<1>9. CASE LeafStep(c, "write-key", "fill-key", [f EXCEPT !.key = Empty])
  <2>1. "write-key" \in WriteSteps /\ "fill-key" \in WriteSteps \cup {"load-chain"}
    BY DEF WriteSteps
  <2>2. /\ [f EXCEPT !.key = Empty] \in [cert : BOOLEAN, chain : Int, key : Int]
        /\ [f EXCEPT !.key = Empty].cert = f.cert
        /\ [f EXCEPT !.key = Empty].chain = f.chain
    BY <1>3 DEF Empty
  <2>3. t.pc = "write-key"
    BY <1>9 DEF LeafStep
  <2> QED
    BY <1>5, <1>9, <2>1, <2>2, <2>3, FileStep DEF WrittenSoFar
<1>10. CASE LeafStep(c, "fill-key", "load-chain", [f EXCEPT !.key = gen])
  <2>1. "fill-key" \in WriteSteps
    BY DEF WriteSteps
  <2> DEFINE g == [f EXCEPT !.key = gen]
  <2>2. /\ g \in [cert : BOOLEAN, chain : Int, key : Int]
        /\ g.cert = f.cert /\ g.chain = f.chain /\ g.key = gen
    BY <1>3, <1>4
  <2>3. t.pc = "fill-key"
    BY <1>10 DEF LeafStep
  <2> HIDE DEF g
  <2>4. Key(c) \notin disturbed => Complete(g) /\ g.chain = g.key /\ g.key # Empty /\ g.cert
    BY <1>4, <1>5, <2>2, <2>3 DEF WrittenSoFar, Complete, Missing, Empty
  <2>5. LeafStep(c, "fill-key", "load-chain", g)
    BY <1>10 DEF g
  <2> QED
    BY <2>1, <2>2, <2>4, <2>5, FileStep
<1> QED
  BY <1>6, <1>7, <1>8, <1>9, <1>10 DEF WriteLeaf, f

\* A thread that notes the key pair and the chain it goes on with.
Note(t, pc, gen, chain) == [t EXCEPT !.pc = pc, !.gen = gen, !.chain = chain]

\* A thread of handle_connect_mitm that notes what it has read and goes on.
LEMMA Noted ==
    ASSUME NEW t, ThreadInv(t), t.pc \in Inspecting, NEW pc \in Inspecting, NEW gen,
           NEW chain \in Int, pc \in WriteSteps => gen = t.id
    PROVE  LET u == Note(t, pc, gen, chain)
           IN  /\ ThreadInv(u) /\ u.pc = pc /\ u.host = t.host /\ u.end = None
               /\ u.gen = gen /\ u.chain = chain
<1> DEFINE u == [t EXCEPT !.pc = pc, !.gen = gen, !.chain = chain]
<1>0. IsThread(t) /\ pc \in Phases /\ ProbeInv(t) /\ t.end = None
  BY DEF ThreadInv, Inspecting
<1>1. u \in Threads({t.route}, {t.layers}, {gen})
  BY <1>0 DEF IsThread, Threads
<1>2. /\ u.pc = pc /\ u.id = t.id /\ u.host = t.host
      /\ u.hidden = t.hidden /\ u.input = t.input /\ u.reason = t.reason
      /\ u.failedAgo = t.failedAgo /\ u.wire = t.wire /\ u.session = t.session
      /\ u.end = t.end /\ u.got = t.got /\ u.protocol = t.protocol
      /\ u.gen = gen /\ u.chain = chain
  BY <1>0 DEF IsThread, Threads
<1> HIDE DEF u
<1>3. IsThread(u)
  BY <1>1, Fits
<1>4. ProbeInv(u)
  BY <1>0, <1>2 DEF ProbeInv
<1>5. ThreadInv(u)
  BY <1>2, <1>3, <1>4, GoOn
<1> QED
  BY <1>0, <1>2, <1>5 DEF u, Note

\* Noting one of the two is noting both.
LEMMA NotedSome ==
    ASSUME NEW t, IsThread(t), NEW pc, NEW gen, NEW chain
    PROVE  /\ [t EXCEPT !.pc = pc, !.gen = gen] = Note(t, pc, gen, t.chain)
           /\ [t EXCEPT !.pc = pc, !.chain = chain] = Note(t, pc, t.gen, chain)
BY DEF IsThread, Threads, Note

\* mitm_server_config: a thread takes the cached certificate, the files, or the pen.
LEMMA LookupConfigStep ==
    ASSUME NEW c \in Conns, ThreadsInv, Leaves, LookupConfig(c)
    PROVE  (\E u : Becomes(c, u) /\ ThreadInv(u)) /\ Leaves'
<1> DEFINE t == conn[c]
           h == t.host
           hit == [t EXCEPT !.pc = "handshake", !.gen = certs.entries[h]]
           read == [t EXCEPT !.pc = "load-chain"]
           write == [t EXCEPT !.pc = "write-cert", !.gen = t.id]
<1>0. PICK k : k = Key(c)
  OBVIOUS
<1>1. /\ Table /\ ThreadInv(t) /\ IsThread(t) /\ t.pc = "config" /\ t.pc \in Inspecting
      /\ c \in DOMAIN conn /\ t.chain \in Int
  BY InnerPhases DEF LookupConfig, ThreadsInv, ThreadInv, Table, IsThread, Threads
<1>2. k \in Keys
  BY <1>0, <1>1, BusyKey
<1>3. /\ leaf' = leaf /\ disturbed \subseteq disturbed'
      /\ h \notin DOMAIN certs.entries /\ Writing(k) # {} => k \in disturbed'
      /\ disturbed' \subseteq Keys
  BY <1>0, <1>2 DEF LookupConfig, Leaves
<1>4. \/ conn' = [conn EXCEPT ![c].pc = "handshake", ![c].gen = certs.entries[h]]
      \/ /\ h \notin DOMAIN certs.entries /\ Complete(leaf[k])
         /\ conn' = [conn EXCEPT ![c].pc = "load-chain"]
      \/ /\ h \notin DOMAIN certs.entries /\ ~Complete(leaf[k])
         /\ conn' = [conn EXCEPT ![c].pc = "write-cert", ![c].gen = conn[c].id]
  BY <1>0 DEF LookupConfig, Complete
<1>5. /\ "handshake" \in Inspecting /\ "load-chain" \in Inspecting /\ "write-cert" \in Inspecting
      /\ "handshake" \notin Touching /\ "handshake" \notin WriteSteps
      /\ "load-chain" \notin WriteSteps /\ "config" \notin Touching
  BY InnerPhases DEF Touching, WriteSteps
<1>6. CASE conn' = [conn EXCEPT ![c].pc = "handshake", ![c].gen = certs.entries[h]]
  <2>1. Becomes(c, hit)
    BY <1>1, <1>6 DEF Becomes
  <2>2. hit = Note(t, "handshake", certs.entries[h], t.chain)
    BY <1>1, NotedSome
  <2> HIDE DEF hit
  <2>3. ThreadInv(hit) /\ hit.pc = "handshake" /\ hit.end = None
    BY <1>1, <1>5, <2>2, Noted
  <2>4. Leaves'
    BY <1>1, <1>3, <1>5, <2>1, <2>3, LeaveFiles DEF None, Touching
  <2> QED
    BY <2>1, <2>3, <2>4
<1>7. CASE /\ h \notin DOMAIN certs.entries /\ Complete(leaf[k])
           /\ conn' = [conn EXCEPT ![c].pc = "load-chain"]
  <2>1. Becomes(c, read)
    BY <1>1, <1>7 DEF Becomes
  <2>2. ThreadInv(read)
    BY <1>1, <1>5, MoveInv
  <2>3. read.pc = "load-chain" /\ read.end = None /\ read.host = t.host
    BY <1>1 DEF ThreadInv, IsThread, Threads
  <2> HIDE DEF read
  <2>4. conn'[c] = read /\ \A d \in Conns : d # c => conn'[d] = conn[d]
    BY <1>1, <2>1, OneThread
  <2>5. ASSUME k \in Keys \ disturbed' PROVE LeafInv(k)'
    <3>1. LeafInv(k)
      BY <1>3, <2>5 DEF Leaves
    <3>2. \A d \in Conns : ~Writes(conn[d], k)
      BY <1>3, <1>7, <2>5 DEF Writes, Writing
    <3>3. \A d \in Conns : ~Writes(conn'[d], k)
      BY <1>5, <2>3, <2>4, <3>2 DEF Writes
    <3>4. \A d \in Conns : Loads(conn'[d], k) /\ conn'[d].pc = "load-key" => d # c
      BY <2>3, <2>4
    <3> QED
      BY <1>3, <1>7, <2>4, <3>1, <3>2, <3>3, <3>4 DEF LeafInv
  <2>6. LeafTypes'
    BY <1>3 DEF Leaves, LeafTypes
  <2>7. Leaves'
    BY <1>0, <1>1, <1>3, <2>1, <2>3, <2>5, <2>6, OwnHost DEF None
  <2> QED
    BY <2>1, <2>2, <2>7
<1>8. CASE /\ h \notin DOMAIN certs.entries /\ ~Complete(leaf[k])
           /\ conn' = [conn EXCEPT ![c].pc = "write-cert", ![c].gen = conn[c].id]
  <2>1. Becomes(c, write)
    BY <1>1, <1>8 DEF Becomes
  <2>2. write = Note(t, "write-cert", t.id, t.chain)
    BY <1>1, NotedSome
  <2> HIDE DEF write
  <2>3. ThreadInv(write) /\ write.pc = "write-cert" /\ write.end = None /\ write.host = t.host
    BY <1>1, <1>5, <2>2, Noted
  <2>4. conn'[c] = write /\ \A d \in Conns : d # c => conn'[d] = conn[d]
    BY <1>1, <2>1, OneThread
  <2>5. ASSUME k \in Keys \ disturbed' PROVE LeafInv(k)'
    <3>1. LeafInv(k)
      BY <1>3, <2>5 DEF Leaves
    <3>2. \A d \in Conns : ~Writes(conn[d], k)
      BY <1>3, <1>8, <2>5 DEF Writes, Writing
    <3>3. \A d \in Conns : ~Loads(conn[d], k)
      BY <1>8, <3>1 DEF LeafInv
    <3>4. \A d \in Conns : ~Loads(conn'[d], k)
      BY <2>3, <2>4, <3>3 DEF Loads
    <3>5. \A d \in Conns : Writes(conn'[d], k) => d = c
      BY <2>4, <3>2
    <3>6. Writes(conn'[c], k) /\ WrittenSoFar(conn'[c], leaf'[k])
      BY <1>0, <2>3, <2>4 DEF Writes, WriteSteps, WrittenSoFar, Key
    <3> QED
      BY <3>4, <3>5, <3>6 DEF LeafInv
  <2>6. LeafTypes'
    BY <1>3 DEF Leaves, LeafTypes
  <2>7. Leaves'
    BY <1>0, <1>1, <1>3, <2>1, <2>3, <2>5, <2>6, OwnHost DEF None
  <2> QED
    BY <2>1, <2>3, <2>7
<1> QED
  BY <1>4, <1>6, <1>7, <1>8

\* A thread that gives up its certificate leaves files that are known to be disturbed.
LEMMA SetupFails ==
    ASSUME NEW c \in Conns, ThreadsInv, Leaves, conn[c].pc \in Touching,
           conn' = SetupFailed(c), leaf' = leaf, disturbed \subseteq disturbed',
           disturbed' \subseteq Keys, Key(c) \in disturbed'
    PROVE  (\E u : Becomes(c, u) /\ ThreadInv(u)) /\ Leaves'
<1> DEFINE t == conn[c]
           u == Finish(t, 502, "setup-failed")
<1>1. Table /\ ThreadInv(t) /\ Busy(t) /\ t.pc \notin {"route", "dialled"}
  BY DEF ThreadsInv, Busy, Touching, WriteSteps
<1>2. 502 \in Nat /\ "setup-failed" \in Ends
  BY DEF Ends
<1>3. ThreadInv(u) /\ Over(u, t, "setup-failed")
  BY <1>1, <1>2, FinishInv
<1>4. Becomes(c, u)
  BY DEF SetupFailed, Becomes
<1> HIDE DEF u
<1>5. u.pc \notin Touching /\ HostKey[u.host] \in disturbed'
  BY <1>3 DEF Over, Touching, WriteSteps, Key
<1>6. Leaves'
  BY <1>1, <1>4, <1>5, LeaveFiles
<1> QED
  BY <1>3, <1>4, <1>6

\* A write that fails.
LEMMA WriteLeafFailsStep ==
    ASSUME NEW c \in Conns, ThreadsInv, Leaves, WriteLeafFails(c)
    PROVE  (\E u : Becomes(c, u) /\ ThreadInv(u)) /\ Leaves'
<1>1. /\ conn[c].pc \in Touching /\ conn' = SetupFailed(c) /\ leaf' = leaf
      /\ disturbed' = disturbed \cup {Key(c)}
  BY DEF WriteLeafFails, Touching
<1>2. ThreadInv(conn[c]) /\ conn[c].pc # "idle"
  BY <1>1 DEF ThreadsInv, Touching, WriteSteps
<1>3. Key(c) \in Keys
  BY <1>2, BusyKey
<1>4. disturbed' \subseteq Keys /\ disturbed \subseteq disturbed' /\ Key(c) \in disturbed'
  BY <1>1, <1>3 DEF Leaves
<1> QED
  BY <1>1, <1>4, SetupFails

\* load_certs
LEMMA LoadChainStep ==
    ASSUME NEW c \in Conns, ThreadsInv, Leaves, LoadChain(c)
    PROVE  (\E u : Becomes(c, u) /\ ThreadInv(u)) /\ Leaves'
<1> DEFINE t == conn[c]
<1>0. PICK k : k = Key(c)
  OBVIOUS
<1>0a. PICK x : x = leaf[k].chain
  OBVIOUS
<1> DEFINE u == [t EXCEPT !.pc = "load-key", !.chain = x]
<1>1. /\ Table /\ ThreadInv(t) /\ IsThread(t) /\ t.pc = "load-chain" /\ t.pc \in Inspecting
      /\ c \in DOMAIN conn /\ "load-key" \in Inspecting /\ "load-key" \notin WriteSteps
  BY InnerPhases DEF LoadChain, ThreadsInv, ThreadInv, Table, Touching, WriteSteps
<1>2. k \in Keys
  BY <1>0, <1>1, BusyKey
<1>3. leaf' = leaf /\ disturbed' = disturbed
  BY DEF LoadChain, Caches
<1>4. Becomes(c, u)
  <2>1. conn' = [conn EXCEPT ![c].pc = "load-key", ![c].chain = x]
    BY <1>0, <1>0a DEF LoadChain
  <2> QED
    BY <1>1, <2>1 DEF Becomes
<1>5. x \in Int
  BY <1>0a, <1>2 DEF Leaves, LeafTypes
<1>6. u = Note(t, "load-key", t.gen, x)
  <2>1. IsThread(t)
    BY <1>1
  <2> QED
    BY <2>1 DEF Note, IsThread, Threads
<1> HIDE DEF u
<1>7. /\ ThreadInv(u) /\ u.pc = "load-key" /\ u.end = None /\ u.host = t.host
      /\ u.chain = leaf[k].chain
  BY <1>0a, <1>1, <1>5, <1>6, Noted
<1>8. conn'[c] = u /\ \A d \in Conns : d # c => conn'[d] = conn[d]
  BY <1>1, <1>4, OneThread
<1>9. ASSUME k \in Keys \ disturbed' PROVE LeafInv(k)'
  <2>1. LeafInv(k) /\ Loads(t, k)
    BY <1>0, <1>1, <1>3, <1>9 DEF Leaves, Loads, Key
  <2>2. Complete(leaf[k]) /\ \A d \in Conns : ~Writes(conn[d], k)
    BY <2>1 DEF LeafInv
  <2>3. \A d \in Conns : ~Writes(conn'[d], k)
    BY <1>1, <1>7, <1>8, <2>2 DEF Writes
  <2> QED
    BY <1>3, <1>7, <1>8, <2>1, <2>2, <2>3 DEF LeafInv
<1>10. LeafTypes'
  BY <1>3 DEF Leaves, LeafTypes
<1>11. Leaves'
  BY <1>0, <1>1, <1>3, <1>4, <1>7, <1>9, <1>10, OwnHost DEF Leaves, None
<1> QED
  BY <1>4, <1>7, <1>11

\* load_private_key and with_single_cert: undisturbed files are accepted.
LEMMA LoadKeyStep ==
    ASSUME NEW c \in Conns, ThreadsInv, Leaves, LoadKey(c)
    PROVE  (\E u : Becomes(c, u) /\ ThreadInv(u)) /\ Leaves'
<1> DEFINE t == conn[c]
           u == [t EXCEPT !.pc = "handshake", !.gen = t.chain]
<1>1. /\ Table /\ ThreadInv(t) /\ IsThread(t) /\ t.pc = "load-key" /\ t.pc \in Inspecting
      /\ c \in DOMAIN conn /\ "handshake" \in Inspecting /\ "handshake" \notin WriteSteps
      /\ t.pc \in Touching /\ "handshake" \notin Touching /\ t.pc \notin WriteSteps
      /\ t.chain \in Int
  BY InnerPhases DEF LoadKey, ThreadsInv, ThreadInv, Table, Touching, WriteSteps, IsThread, Threads
<1>2. Key(c) \in Keys
  BY <1>1, BusyKey
<1>3. leaf' = leaf /\ disturbed' = disturbed /\ disturbed \subseteq Keys
  BY DEF LoadKey, Leaves
<1>4. CASE KeyMatches(t.chain, leaf[Key(c)].key)
  <2>1. Becomes(c, u)
    BY <1>1, <1>4 DEF LoadKey, Becomes
  <2>2. u = Note(t, "handshake", t.chain, t.chain)
    BY <1>1, NotedSome
  <2> HIDE DEF u
  <2>3. ThreadInv(u) /\ u.pc = "handshake" /\ u.end = None
    BY <1>1, <2>2, Noted
  <2>4. Leaves'
    BY <1>1, <1>3, <2>1, <2>3, LeaveFiles DEF None
  <2> QED
    BY <2>1, <2>3, <2>4
<1>5. CASE ~KeyMatches(t.chain, leaf[Key(c)].key)
  <2>1. conn' = SetupFailed(c)
    BY <1>5 DEF LoadKey
  <2>2. ASSUME Key(c) \notin disturbed PROVE FALSE
    <3>1. LeafInv(Key(c)) /\ Loads(t, Key(c))
      BY <1>1, <1>2, <2>2 DEF Leaves, Loads, Key
    <3>2. /\ Complete(leaf[Key(c)]) /\ \A d \in Conns : ~Writes(conn[d], Key(c))
          /\ t.chain = leaf[Key(c)].chain
      BY <1>1, <3>1 DEF LeafInv
    <3>3. leaf[Key(c)].chain = leaf[Key(c)].key /\ leaf[Key(c)].key # Empty
      BY <3>1, <3>2 DEF LeafInv
    <3> QED
      BY <1>5, <3>2, <3>3 DEF KeyMatches
  <2> QED
    BY <1>1, <1>3, <2>1, <2>2, SetupFails
<1> QED
  BY <1>4, <1>5

-----------------------------------------------------------------------------
(***************************************************************************)
(* The invariant.                                                          *)
(***************************************************************************)

\* A thread without a client is in order.
LEMMA IdleInv == ThreadInv(Idle) /\ Idle.pc = "idle" /\ Idle.end = None
<1>1. Idle \in Threads({Direct}, {<<>>}, {0})
  BY IdleThread
<1>2. IsThread(Idle)
  BY <1>1, Fits
<1>3. /\ Idle.pc = "idle" /\ Idle.end = None /\ Idle.session = NewSession
      /\ Idle.reason = None /\ Idle.wire = <<>> /\ Idle.got = 0 /\ Idle.protocol = None
      /\ Idle.input = <<>>
  BY DEF Idle
<1>4. SessionInv(Idle) /\ AnswerInv(Idle) /\ ProbeInv(Idle) /\ DecisionInv(Idle)
  BY <1>3 DEF SessionInv, Unsettled, NewSession, AnswerInv, ProbeInv, DecisionInv, None
<1> QED
  BY <1>2, <1>3, <1>4 DEF ThreadInv, WriteSteps

\* It holds of a process that has just started.
LEMMA InitInv == Init => ConnectInv
<1> SUFFICES ASSUME Init PROVE ConnectInv
  OBVIOUS
<1>1. ThreadInv(Idle) /\ Idle.pc = "idle" /\ Idle.end = None
  BY IdleInv
<1>2. \A c \in Conns : conn[c] = Idle
  BY DEF Init
<1>3. ThreadsInv
  BY <1>1, <1>2 DEF Init, ThreadsInv, Table
<1>4. Leaves
  <2>1. LeafTypes
    BY DEF Init, LeafTypes, Missing
  <2>2. LeafUsable
    BY <1>1, <1>2 DEF LeafUsable, None
  <2>3. ASSUME NEW k \in Keys PROVE LeafInv(k)
    <3>1. \A c \in Conns : ~Writes(conn[c], k) /\ ~Loads(conn[c], k)
      BY <1>1, <1>2 DEF Writes, Loads, WriteSteps
    <3>2. ~Complete(leaf[k])
      BY DEF Init, Complete
    <3> QED
      BY <3>1, <3>2 DEF LeafInv
  <2> QED
    BY <2>1, <2>2, <2>3 DEF Leaves, Init
<1>5. FailureInv
  BY NothingRemembered DEF Init
<1> QED
  BY <1>3, <1>4, <1>5 DEF ConnectInv, Counters, Init

\* A restart forgets the threads and the caches and keeps the files; those that were being
\* written are disturbed.
LEMMA CrashInv == ConnectInv /\ Crash => ConnectInv'
<1> SUFFICES ASSUME ConnectInv, Crash PROVE ConnectInv'
  OBVIOUS
<1>1. /\ conn' = [c \in Conns |-> Idle] /\ leaf' = leaf /\ clock' = clock
      /\ connects' = connects /\ config' = config
      /\ disturbed' = disturbed \cup { k \in Keys : Writing(k) # {} }
      /\ failed' = [k \in Keys |-> Never]
      /\ failures' = [at |-> [k \in {} |-> 0], order |-> <<>>]
  BY DEF Crash
<1>2. ThreadInv(Idle) /\ Idle.pc = "idle" /\ Idle.end = None
  BY IdleInv
<1>3. \A c \in Conns : conn'[c] = Idle
  BY <1>1
<1>4. ThreadsInv'
  BY <1>1, <1>2, <1>3 DEF ThreadsInv, Table
<1>5. Leaves'
  <2>1. LeafTypes' /\ disturbed' \subseteq Keys
    BY <1>1 DEF ConnectInv, Leaves, LeafTypes
  <2>2. LeafUsable'
    BY <1>2, <1>3 DEF LeafUsable, None
  <2>3. ASSUME NEW k \in Keys \ disturbed' PROVE LeafInv(k)'
    <3>1. LeafInv(k) /\ \A c \in Conns : ~Writes(conn[c], k)
      BY <1>1 DEF ConnectInv, Leaves, Writing, Writes
    <3>2. \A c \in Conns : ~Writes(conn'[c], k) /\ ~Loads(conn'[c], k)
      BY <1>2, <1>3 DEF Writes, Loads, WriteSteps
    <3> QED
      BY <1>1, <3>1, <3>2 DEF LeafInv
  <2> QED
    BY <2>1, <2>2, <2>3 DEF Leaves
<1>6. FailureInv'
  <2>1. failures'.at = [k \in {} |-> 0]
    BY <1>1
  <2>2. DOMAIN (failures'.at) = {}
    BY <2>1
  <2>3. clock' \in Nat
    BY <1>1 DEF ConnectInv, Counters
  <2> QED
    BY <1>1, <2>2, <2>3 DEF FailureInv, Faithful, Never
<1> QED
  BY <1>1, <1>4, <1>5, <1>6 DEF ConnectInv, Counters

\* The threads stay in order when the one that moves does.
LEMMA ThreadsKept ==
    ASSUME NEW c \in Conns, NEW u, ThreadsInv, Becomes(c, u), ThreadInv(u)
    PROVE  ThreadsInv'
<1>1. Table' /\ conn'[c] = u /\ \A d \in Conns : d # c => conn'[d] = conn[d]
  BY OneThread DEF ThreadsInv
<1> QED
  BY <1>1 DEF ThreadsInv

\* A step that has nothing to do with the leaf files keeps the threads and the files.
LEMMA QuietKept ==
    ASSUME NEW c \in Conns, NEW u, ThreadsInv, Leaves, Quiet(c, u), leaf' = leaf,
           disturbed' = disturbed, conn[c].pc \notin WriteSteps
    PROVE  ThreadsInv' /\ Leaves'
<1>1. ThreadsInv'
  BY ThreadsKept DEF Quiet
<1>2. Leaves'
  BY LeaveFiles DEF Quiet, Leaves, ThreadsInv
<1> QED
  BY <1>1, <1>2

\* Every step of a thread keeps the invariant.
LEMMA ThreadKept ==
    ASSUME NEW c \in Conns, ConnectInv, Thread(c)
    PROVE  ConnectInv'
<1>0. /\ ThreadsInv /\ Leaves /\ FailureInv /\ Counters /\ ThreadInv(conn[c]) /\ Table
  BY DEF ConnectInv, ThreadsInv
<1>1. ASSUME NEW req \in Requests(connects + 1), Decide(c, req) PROVE ConnectInv'
  <2>1. (\E u : Quiet(c, u)) /\ FailureInv'
    BY <1>0, <1>1, DecideStep DEF Counters
  <2>2. /\ leaf' = leaf /\ disturbed' = disturbed /\ conn[c].pc \notin WriteSteps
        /\ clock' = clock /\ config' = config /\ connects' = connects + 1
    BY <1>1 DEF Decide, WriteSteps
  <2>3. ThreadsInv' /\ Leaves'
    BY <1>0, <2>1, <2>2, QuietKept
  <2> QED
    BY <1>0, <2>1, <2>2, <2>3 DEF ConnectInv, Counters
<1>2. ASSUME \E u : Quiet(c, u), UNCHANGED <<Others, leaf, disturbed, connects>>,
             conn[c].pc \notin WriteSteps, FailureInv'
      PROVE  ConnectInv'
  <2>1. ThreadsInv' /\ Leaves'
    BY <1>0, <1>2, QuietKept
  <2> QED
    BY <1>0, <1>2, <2>1 DEF ConnectInv, Counters, Others
<1>3. ASSUME UNCHANGED <<Others, Caches>> PROVE FailureInv' /\ UNCHANGED <<leaf, disturbed>>
  BY <1>0, <1>3 DEF FailureInv, Faithful, Others, Caches
<1>4. CASE Greet(c)
  <2>1. UNCHANGED <<Others, Caches, connects>> /\ conn[c].pc \notin WriteSteps
    BY <1>4 DEF Greet, WriteSteps
  <2> QED
    BY <1>0, <1>2, <1>3, <1>4, <2>1, GreetStep
<1>5. CASE Arrive(c)
  <2>1. UNCHANGED <<Others, Caches, connects>> /\ conn[c].pc \notin WriteSteps
    BY <1>5 DEF Arrive, WriteSteps
  <2> QED
    BY <1>0, <1>2, <1>3, <1>5, <2>1, ArriveStep
<1>6. CASE Probe(c)
  <2>1. UNCHANGED <<Others, Caches, connects>> /\ conn[c].pc \notin WriteSteps
    BY <1>6 DEF Probe, WriteSteps
  <2> QED
    BY <1>0, <1>2, <1>3, <1>6, <2>1, ProbeStep
<1>7. CASE Passthrough(c)
  <2>1. UNCHANGED <<Others, Caches, connects>> /\ conn[c].pc \notin WriteSteps
    BY <1>7 DEF Passthrough, WriteSteps
  <2> QED
    BY <1>0, <1>2, <1>3, <1>7, <2>1, PassthroughStep
<1>8. CASE Tunnel(c)
  <2>1. UNCHANGED <<Others, Caches, connects>> /\ conn[c].pc \notin WriteSteps
    BY <1>8 DEF Tunnel, WriteSteps
  <2> QED
    BY <1>0, <1>2, <1>3, <1>8, <2>1, TunnelStep
<1>9. CASE InnerHead(c)
  <2>1. UNCHANGED <<Others, Caches, connects>> /\ conn[c].pc \notin WriteSteps
    BY <1>9 DEF InnerHead, WriteSteps
  <2> QED
    BY <1>0, <1>2, <1>3, <1>9, <2>1, InnerHeadStep
<1>10. CASE InnerRequest(c)
  <2>1. UNCHANGED <<Others, Caches, connects>> /\ conn[c].pc \notin WriteSteps
    BY <1>10 DEF InnerRequest, WriteSteps
  <2> QED
    BY <1>0, <1>2, <1>3, <1>10, <2>1, InnerRequestStep
<1>11. CASE HandshakeFails(c) \/ HandshakeSucceeds(c)
  <2>1. UNCHANGED <<Others, leaf, disturbed, connects>> /\ conn[c].pc = "handshake"
    BY <1>11 DEF HandshakeFails, HandshakeSucceeds
  <2>2. conn[c].pc \notin WriteSteps /\ conn[c].pc # "idle"
    BY <2>1 DEF WriteSteps
  <2>3. Key(c) \in Keys
    BY <1>0, <2>2, BusyKey
  <2>4. FailureInv'
    BY <1>0, <1>11, <2>3, HandshakeFailures DEF Counters
  <2>5. \E u : Quiet(c, u)
    BY <1>0, <1>11, HandshakeStep
  <2> QED
    BY <1>2, <2>1, <2>2, <2>4, <2>5
<1>12. ASSUME \E u : Becomes(c, u) /\ ThreadInv(u), Leaves',
              UNCHANGED <<Others, failures, failed, connects>>
       PROVE  ConnectInv'
  <2>1. ThreadsInv'
    BY <1>0, <1>12, ThreadsKept
  <2>2. FailureInv'
    BY <1>0, <1>12 DEF FailureInv, Faithful, Others
  <2> QED
    BY <1>0, <1>12, <2>1, <2>2 DEF ConnectInv, Counters, Others
<1>13. CASE LookupConfig(c)
  <2>1. UNCHANGED <<Others, failures, failed, connects>>
    BY <1>13 DEF LookupConfig
  <2> QED
    BY <1>0, <1>12, <1>13, <2>1, LookupConfigStep
<1>14. CASE WriteLeaf(c)
  <2>1. UNCHANGED <<Others, failures, failed, connects>>
    BY <1>14 DEF WriteLeaf, LeafStep
  <2> QED
    BY <1>0, <1>12, <1>14, <2>1, WriteLeafStep
<1>15. CASE WriteLeafFails(c)
  <2>1. UNCHANGED <<Others, failures, failed, connects>>
    BY <1>15 DEF WriteLeafFails
  <2> QED
    BY <1>0, <1>12, <1>15, <2>1, WriteLeafFailsStep
<1>16. CASE LoadChain(c)
  <2>1. UNCHANGED <<Others, failures, failed, connects>>
    BY <1>16 DEF LoadChain, Caches
  <2> QED
    BY <1>0, <1>12, <1>16, <2>1, LoadChainStep
<1>17. CASE LoadKey(c)
  <2>1. UNCHANGED <<Others, failures, failed, connects>>
    BY <1>17 DEF LoadKey
  <2> QED
    BY <1>0, <1>12, <1>17, <2>1, LoadKeyStep
<1> QED
  BY <1>1, <1>4, <1>5, <1>6, <1>7, <1>8, <1>9, <1>10, <1>11, <1>13, <1>14, <1>15, <1>16,
     <1>17 DEF Thread

\* Every step of the process does.
LEMMA NextInv == ConnectInv /\ [Next]_vars => ConnectInv'
<1> SUFFICES ASSUME ConnectInv, [Next]_vars PROVE ConnectInv'
  OBVIOUS
<1>1. ASSUME NEW c \in Conns, Thread(c) PROVE ConnectInv'
  BY <1>1, ThreadKept
<1>2. CASE Crash
  BY <1>2, CrashInv
<1>3. CASE Tick
  <2>1. UNCHANGED <<config, conn, leaf, connects, disturbed>>
    BY <1>3 DEF Tick
  <2>2. FailureInv' /\ clock' \in Nat
    BY <1>3, TickFailures DEF ConnectInv, Counters
  <2>3. ThreadsInv'
    BY <2>1 DEF ConnectInv, ThreadsInv, Table
  <2>4. Leaves'
    BY <2>1 DEF ConnectInv, Leaves, LeafTypes, LeafUsable, LeafInv
  <2> QED
    BY <2>1, <2>2, <2>3, <2>4 DEF ConnectInv, Counters
<1>4. CASE UNCHANGED vars
  <2>1. UNCHANGED <<config, conn, failures, failed, leaf, clock, connects, disturbed>>
    BY <1>4 DEF vars
  <2>2. ThreadsInv'
    BY <2>1 DEF ConnectInv, ThreadsInv, Table
  <2>3. Leaves'
    BY <2>1 DEF ConnectInv, Leaves, LeafTypes, LeafUsable, LeafInv
  <2>4. FailureInv'
    BY <2>1 DEF ConnectInv, FailureInv, Faithful
  <2> QED
    BY <2>1, <2>2, <2>3, <2>4 DEF ConnectInv, Counters
<1> QED
  BY <1>1, <1>2, <1>3, <1>4 DEF Next

\* The invariant of CONNECT handling: what every thread has told its client and recorded
\* at each phase, what it may have left in the leaf files, and what is remembered.
THEOREM ConnectInvariant == Spec => []ConnectInv
<1> QED
  BY InitInv, NextInv, PTL DEF Spec

\* Every CONNECT is answered at most once, with the status that is recorded, or not at all and
\* aborted when its target does not parse and it is passed through; and its session is settled when its thread ends, however many connections there are and however their
\* dials, handshakes and inner requests end (connect.rs, mitm.rs, inner_http.rs).
THEOREM ClientsAnswered == Spec => []AnsweredAndRecorded
<1>1. ConnectInv => AnsweredAndRecorded
  <2> SUFFICES ASSUME ConnectInv, NEW c \in Conns
               PROVE  LET t == conn[c]
                          s == t.session
                      IN  /\ IF t.reason = "inspect" THEN t.wire \in {<<>>, <<200>>}
                             ELSE /\ Len(t.wire) <= 1
                                  /\ Done(c) /\ t.end = "bad-target" =>
                                         t.wire = <<>> /\ (s.aborted <=> ~t.hidden)
                                  /\ Done(c) /\ t.end \notin {"write-failed", "bad-target"} =>
                                         t.wire = <<t.session.status>>
                          /\ s.recorded + (IF s.aborted THEN 1 ELSE 0) <= 1
                          /\ Done(c) =>
                               /\ s.begun => s.recorded = 1 \/ s.aborted
                               /\ ~t.hidden /\ s.recorded = 0 /\ ~s.aborted => Untraced(t)
    BY DEF AnsweredAndRecorded, ClientAnswer, SessionSettled, Untraced
  <2> DEFINE t == conn[c]
             s == t.session
  <2>1. ThreadInv(t)
    BY DEF ConnectInv, ThreadsInv
  <2>2. IF t.reason = "inspect" THEN t.wire \in {<<>>, <<200>>}
        ELSE /\ Len(t.wire) <= 1
             /\ Done(c) /\ t.end = "bad-target" => t.wire = <<>> /\ (s.aborted <=> ~t.hidden)
             /\ Done(c) /\ t.end \notin {"write-failed", "bad-target"} =>
                    t.wire = <<t.session.status>>
    BY <2>1 DEF ThreadInv, AnswerInv, Done
  <2>3. s.recorded + (IF s.aborted THEN 1 ELSE 0) <= 1
    <3>1. s \in Sessions
      BY <2>1 DEF ThreadInv, IsThread, Threads
    <3>2. s.recorded \in {0, 1} /\ (s.aborted => s.recorded = 0)
      BY <2>1 DEF ThreadInv, SessionInv, Unsettled, Settled
    <3> QED
      BY <3>1, <3>2 DEF Sessions
  <2>4. Done(c) => /\ s.begun => s.recorded = 1 \/ s.aborted
                   /\ ~t.hidden /\ s.recorded = 0 /\ ~s.aborted => Untraced(t)
    BY <2>1 DEF ThreadInv, SessionInv, Settled, Done
  <2> QED
    BY <2>2, <2>3, <2>4
<1> QED
  BY <1>1, ConnectInvariant, PTL

\* What the probe decides from the first bytes of a client is what all its bytes call for,
\* for every input and every way to cut it into segments (probe.rs classify_prefix).
THEOREM ProbesStable == Spec => []ProbeStable
<1>1. ConnectInv => ProbeStable
  BY DEF ConnectInv, ThreadsInv, ThreadInv, ProbeInv, ProbeStable
<1> QED
  BY <1>1, ConnectInvariant, PTL

-----------------------------------------------------------------------------
(***************************************************************************)
(* What retaining some elements of a sequence keeps: which they are, that  *)
(* each is there once, and their order.                                    *)
(***************************************************************************)

\* The numbers from one to n are n.
LEMMA OneTo ==
    ASSUME NEW n \in Nat
    PROVE  IsFiniteSet(1..n) /\ Cardinality(1..n) = n
<1>1. 1 \in Int /\ n \in Int
  OBVIOUS
<1>2. IsFiniteSet(1..n) /\ Cardinality(1..n) = IF 1 > n THEN 0 ELSE n - 1 + 1
  BY <1>1, FS_Interval
<1> QED
  BY <1>2

\* The ranks of the elements that stay are the numbers up to their number, in order.
LEMMA Ranks ==
    ASSUME NEW X, NEW seq \in Seq(X), NEW S
    PROVE  LET N == Cardinality(Places(seq, S))
           IN  /\ IsFiniteSet(Places(seq, S)) /\ N \in 0..Len(seq)
               /\ \A i \in Places(seq, S) : Rank(seq, S, i) \in 1..N
               /\ \A i, j \in Places(seq, S) : i < j => Rank(seq, S, i) < Rank(seq, S, j)
               /\ \A n \in 1..N : \E i \in Places(seq, S) : Rank(seq, S, i) = n
<1> DEFINE P == Places(seq, S)
           N == Cardinality(P)
           upto(i) == { j \in P : j <= i }
<1>1. Len(seq) \in Nat /\ P \subseteq 1..Len(seq) /\ P \subseteq Nat
  BY DEF Places
<1>2. IsFiniteSet(1..Len(seq)) /\ Cardinality(1..Len(seq)) = Len(seq)
  BY <1>1, OneTo
<1> HIDE DEF P
<1>3. IsFiniteSet(P) /\ N \in Nat /\ N <= Len(seq)
  BY <1>1, <1>2, FS_Subset, FS_CardinalityType
<1>4. ASSUME NEW i \in P PROVE IsFiniteSet(upto(i)) /\ Cardinality(upto(i)) \in 1..N
  <2>1. upto(i) \subseteq P /\ i \in upto(i)
    BY <1>1
  <2>2. IsFiniteSet(upto(i)) /\ Cardinality(upto(i)) <= N /\ Cardinality(upto(i)) \in Nat
    BY <1>3, <2>1, FS_Subset, FS_CardinalityType
  <2>3. Cardinality(upto(i)) # 0
    BY <2>1, <2>2, FS_EmptySet
  <2> QED
    BY <1>3, <2>2, <2>3
<1>5. ASSUME NEW i \in P, NEW j \in P, i < j PROVE Cardinality(upto(i)) < Cardinality(upto(j))
  <2>1. upto(i) \subseteq upto(j) /\ j \in upto(j) /\ j \notin upto(i)
    <3>1. i \in Nat /\ j \in Nat /\ \A x \in P : x \in Nat
      BY <1>1
    <3>2. \A x, y : x \in upto(y) <=> x \in P /\ x <= y
      OBVIOUS
    <3> HIDE DEF upto
    <3>3. ASSUME NEW x \in upto(i) PROVE x \in upto(j)
      <4>1. x \in P /\ x <= i /\ x \in Nat
        BY <3>1, <3>2
      <4>2. x <= j
        BY <1>5, <3>1, <4>1
      <4> QED
        BY <3>2, <4>1, <4>2
    <3>4. j <= j /\ ~(j <= i)
      BY <1>5, <3>1
    <3> QED
      BY <3>2, <3>3, <3>4
  <2>2. /\ Cardinality(upto(i)) <= Cardinality(upto(j))
        /\ Cardinality(upto(j)) = Cardinality(upto(i)) => upto(j) = upto(i)
    BY <1>4, <2>1, FS_Subset
  <2>3. Cardinality(upto(i)) \in 1..N /\ Cardinality(upto(j)) \in 1..N
    BY <1>4
  <2> QED
    BY <1>3, <2>1, <2>2, <2>3
<1> DEFINE f == [i \in P |-> Cardinality(upto(i))]
<1>6. f \in Injection(P, 1..N)
  <2>1. f \in [P -> 1..N]
    BY <1>4
  <2>2. ASSUME NEW i \in P, NEW j \in P, f[i] = f[j] PROVE i = j
    <3>1. i \in Nat /\ j \in Nat
      BY <1>1
    <3>2. f[i] = Cardinality(upto(i)) /\ f[j] = Cardinality(upto(j))
      OBVIOUS
    <3>3. Cardinality(upto(i)) \in 1..N /\ Cardinality(upto(j)) \in 1..N
      BY <1>4
    <3>3b. Cardinality(upto(i)) = Cardinality(upto(j))
      BY <2>2, <3>2
    <3> HIDE DEF upto, f
    <3>3a. PICK n : n = Cardinality(upto(i)) /\ n = Cardinality(upto(j)) /\ n \in Nat
      <4>1. Cardinality(upto(i)) \in Nat
        BY <1>3, <3>3
      <4> QED
        BY <3>3b, <4>1
    <3>4. ~(i < j)
      <4>1. i < j => n < n
        BY <1>5, <3>3a
      <4> QED
        BY <3>3a, <4>1
    <3>5. ~(j < i)
      <4>1. j < i => n < n
        BY <1>5, <3>3a
      <4> QED
        BY <3>3a, <4>1
    <3> QED
      BY <3>1, <3>4, <3>5
  <2> QED
    BY <2>1, <2>2 DEF Injection, IsInjective
<1>7. IsFiniteSet(1..N) /\ Cardinality(1..N) = N
  BY <1>3, OneTo
<1>8. f \in Surjection(P, 1..N)
  BY <1>6, <1>7, FS_Injection
<1>9. \A n \in 1..N : \E i \in P : f[i] = n
  BY <1>8 DEF Surjection
<1>10. \A i : Rank(seq, S, i) = Cardinality(upto(i))
  BY DEF Rank, P
<1>11. \A n \in 1..N : \E i \in P : Rank(seq, S, i) = n
  BY <1>9, <1>10
<1> HIDE DEF upto
<1>12. /\ N \in 0..Len(seq)
       /\ \A i \in P : Rank(seq, S, i) \in 1..N
       /\ \A i, j \in P : i < j => Rank(seq, S, i) < Rank(seq, S, j)
  BY <1>1, <1>3, <1>4, <1>5, <1>10
<1> QED
  BY <1>3, <1>11, <1>12 DEF P

\* What retain leaves: the elements of the set, each from its place, in their order.
LEMMA RetainFacts ==
    ASSUME NEW X, NEW seq \in Seq(X), NEW S
    PROVE  LET r == Retain(seq, S)
           IN  /\ r \in Seq(X) /\ Len(r) <= Len(seq)
               /\ \A n \in 1..Len(r) :
                      /\ Place(seq, S, n) \in 1..Len(seq)
                      /\ r[n] = seq[Place(seq, S, n)] /\ r[n] \in S
               /\ \A m, n \in 1..Len(r) : m < n => Place(seq, S, m) < Place(seq, S, n)
               /\ \A i \in 1..Len(seq) : seq[i] \in S =>
                      \E n \in 1..Len(r) : Place(seq, S, n) = i
<1> DEFINE P == Places(seq, S)
           N == Cardinality(P)
           r == Retain(seq, S)
<1>1. /\ N \in 0..Len(seq)
      /\ \A i \in P : Rank(seq, S, i) \in 1..N
      /\ \A i, j \in P : i < j => Rank(seq, S, i) < Rank(seq, S, j)
      /\ \A n \in 1..N : \E i \in P : Rank(seq, S, i) = n
  BY Ranks
<1>2. /\ P \subseteq 1..Len(seq) /\ P \subseteq Nat
      /\ \A i \in P : seq[i] \in S /\ seq[i] \in X
  BY DEF Places
<1>2a. \A i \in 1..Len(seq) : seq[i] \in S => i \in P
  BY DEF Places
<1>3. ASSUME NEW n \in 1..N
      PROVE  Place(seq, S, n) \in P /\ Rank(seq, S, Place(seq, S, n)) = n
  BY <1>1 DEF Place
<1>4. r = [n \in 1..N |-> seq[Place(seq, S, n)]]
  BY DEF Retain
<1> HIDE DEF r, P, N
<1>5. \A n \in 1..N : seq[Place(seq, S, n)] \in X
  BY <1>2, <1>3
<1>6. r \in Seq(X) /\ Len(r) = N /\ \A n \in 1..N : r[n] = seq[Place(seq, S, n)]
  BY <1>1, <1>4, <1>5
<1>7. ASSUME NEW m \in 1..N, NEW n \in 1..N, m < n PROVE Place(seq, S, m) < Place(seq, S, n)
  <2> DEFINE a == Place(seq, S, m)
             b == Place(seq, S, n)
  <2>1. a \in P /\ b \in P /\ Rank(seq, S, a) = m /\ Rank(seq, S, b) = n
    BY <1>3
  <2> HIDE DEF a, b
  <2>2. a \in Nat /\ b \in Nat
    BY <1>2, <2>1
  <2>3. ~(b < a) /\ a # b
    BY <1>1, <1>7, <2>1
  <2> QED
    BY <2>2, <2>3 DEF a, b
<1>8. ASSUME NEW i \in P PROVE \E n \in 1..N : Place(seq, S, n) = i
  <2>1. PICK n \in 1..N : n = Rank(seq, S, i)
    BY <1>1
  <2>2. Place(seq, S, n) \in P /\ Rank(seq, S, Place(seq, S, n)) = n
    BY <1>3
  <2>3. i \in Nat /\ Place(seq, S, n) \in Nat
    BY <1>2, <2>2
  <2>4. ~(i < Place(seq, S, n)) /\ ~(Place(seq, S, n) < i)
    BY <1>1, <2>1, <2>2
  <2> QED
    BY <2>3, <2>4
<1>9. Len(r) <= Len(seq)
  BY <1>1, <1>6
<1> QED
  BY <1>2, <1>2a, <1>3, <1>6, <1>7, <1>8, <1>9 DEF r

-----------------------------------------------------------------------------
(***************************************************************************)
(* The use order of the failure cache.                                     *)
(***************************************************************************)
Members(seq) == { seq[i] : i \in 1..Len(seq) }

\* Every host is in the use order once, and those behind it used the cache since it did.
Ordered(order, used) ==
    /\ order \in Seq(Keys)
    /\ \A i, j \in 1..Len(order) : order[i] = order[j] => i = j
    /\ \A i, j \in 1..Len(order) : i < j => order[j] \in used[order[i]]

Histories(used) == \A k \in Keys : IsFiniteSet(used[k])

\* A host whose failure is recent and has been forgotten was crowded out.
Forgotten(at, used) ==
    \A k \in Keys \ DOMAIN at :
        failed[k] # Never /\ clock - failed[k] < FailureTtl =>
            Cardinality(used[k]) >= FailureCapacity

\* The members of a sequence are those of the library's ToSet.
LEMMA MembersToSet ==
    ASSUME NEW X, NEW seq \in Seq(X)
    PROVE  ToSet(seq) = Members(seq) /\ Members(seq) \subseteq X
<1>1. DOMAIN seq = 1..Len(seq) /\ \A i \in 1..Len(seq) : seq[i] \in X
  OBVIOUS
<1> QED
  BY <1>1 DEF ToSet, Members

\* What retain leaves is ordered as before.
LEMMA RetainOrdered ==
    ASSUME NEW order, NEW used, Ordered(order, used), NEW S
    PROVE  /\ Ordered(Retain(order, S), used)
           /\ Members(Retain(order, S)) = Members(order) \cap S
           /\ Len(Retain(order, S)) \in Nat
<1> DEFINE r == Retain(order, S)
           at(n) == Place(order, S, n)
<1>1. /\ r \in Seq(Keys)
      /\ \A n \in 1..Len(r) : at(n) \in 1..Len(order) /\ r[n] = order[at(n)] /\ r[n] \in S
      /\ \A m, n \in 1..Len(r) : m < n => at(m) < at(n)
      /\ \A i \in 1..Len(order) : order[i] \in S => \E n \in 1..Len(r) : at(n) = i
  BY RetainFacts DEF Ordered
<1> HIDE DEF r, at
<1>2. ASSUME NEW m \in 1..Len(r), NEW n \in 1..Len(r), m < n PROVE r[n] \in used[r[m]]
  <2>1. at(m) \in 1..Len(order) /\ at(n) \in 1..Len(order) /\ at(m) < at(n)
    BY <1>1, <1>2
  <2>2. r[m] = order[at(m)] /\ r[n] = order[at(n)]
    BY <1>1
  <2> QED
    BY <2>1, <2>2 DEF Ordered
<1>3. ASSUME NEW m \in 1..Len(r), NEW n \in 1..Len(r), r[m] = r[n] PROVE m = n
  <2>1. at(m) = at(n) /\ at(m) \in Int
    <3>1. at(m) \in 1..Len(order) /\ at(n) \in 1..Len(order) /\ order[at(m)] = order[at(n)]
      BY <1>1, <1>3
    <3> QED
      BY <3>1 DEF Ordered
  <2>2. ~(m < n) /\ ~(n < m)
    BY <1>1, <2>1
  <2> QED
    BY <2>2
<1>4. Ordered(r, used)
  BY <1>1, <1>2, <1>3 DEF Ordered
<1>5. Members(r) = Members(order) \cap S
  <2>1. ASSUME NEW x \in Members(r) PROVE x \in Members(order) /\ x \in S
    <3>1. PICK n \in 1..Len(r) : r[n] = x
      BY DEF Members
    <3>2. at(n) \in 1..Len(order) /\ r[n] = order[at(n)] /\ r[n] \in S
      BY <1>1
    <3> QED
      BY <3>1, <3>2 DEF Members
  <2>2. ASSUME NEW x \in Members(order), x \in S PROVE x \in Members(r)
    <3>1. PICK i \in 1..Len(order) : order[i] = x
      BY DEF Members
    <3>2. PICK n \in 1..Len(r) : at(n) = i
      BY <1>1, <2>2, <3>1
    <3>3. r[n] = order[at(n)]
      BY <1>1
    <3> QED
      BY <3>1, <3>2, <3>3 DEF Members
  <2> QED
    BY <2>1, <2>2
<1> QED
  BY <1>1, <1>4, <1>5 DEF r

\* The histories after a use by host k.
UsedBy(used, k) == [x \in Keys |-> IF x = k THEN {} ELSE used[x] \cup {k}]

\* A host that is touched goes to the end, behind all the others.
LEMMA TouchOrdered ==
    ASSUME NEW order, NEW used, Ordered(order, used), NEW k \in Keys
    PROVE  /\ Ordered(Touch(order, k), UsedBy(used, k))
           /\ Members(Touch(order, k)) = Members(order) \cup {k}
<1> DEFINE r == Without(order, k)
           u == UsedBy(used, k)
           o == Append(r, k)
<1>1. Ordered(r, used) /\ Members(r) = Members(order) \ {k} /\ Len(r) \in Nat
  <2>1. ToSet(order) = Members(order)
    BY MembersToSet DEF Ordered
  <2>2. r = Retain(order, Members(order) \ {k})
    BY <2>1 DEF Without
  <2> QED
    BY <2>2, RetainOrdered
<1> HIDE DEF r
<1>2. r \in Seq(Keys) /\ \A i \in 1..Len(r) : r[i] \in Keys /\ r[i] # k
  <2>1. r \in Seq(Keys)
    BY <1>1 DEF Ordered
  <2>2. \A i \in 1..Len(r) : r[i] \in Members(r)
    BY DEF Members
  <2> QED
    BY <1>1, <2>1, <2>2
<1>3. /\ o \in Seq(Keys) /\ Len(o) = Len(r) + 1 /\ o[Len(r) + 1] = k
      /\ \A i \in 1..Len(r) : o[i] = r[i]
  <2>1. ASSUME NEW s \in Seq(Keys)
        PROVE  /\ Append(s, k) \in Seq(Keys) /\ Len(Append(s, k)) = Len(s) + 1
               /\ Append(s, k)[Len(s) + 1] = k /\ \A i \in 1..Len(s) : Append(s, k)[i] = s[i]
    OBVIOUS
  <2> QED
    BY <1>2, <2>1
<1> HIDE DEF o
<1>4. ASSUME NEW i \in 1..Len(o), NEW j \in 1..Len(o), i < j PROVE o[j] \in u[o[i]]
  <2>1. i \in 1..Len(r)
    BY <1>1, <1>3, <1>4
  <2>2. o[i] = r[i] /\ r[i] \in Keys /\ r[i] # k /\ u[o[i]] = used[r[i]] \cup {k}
    BY <1>2, <1>3, <2>1 DEF UsedBy
  <2>3. CASE j = Len(r) + 1
    BY <1>3, <2>2, <2>3
  <2>4. CASE j # Len(r) + 1
    <3>1. j \in 1..Len(r)
      BY <1>1, <1>3, <2>4
    <3>2. r[j] \in used[r[i]]
      BY <1>1, <1>4, <2>1, <3>1 DEF Ordered
    <3> QED
      BY <1>3, <2>2, <3>1, <3>2
  <2> QED
    BY <2>3, <2>4
<1>5. ASSUME NEW i \in 1..Len(o), NEW j \in 1..Len(o), o[i] = o[j] PROVE i = j
  <2>1. CASE i \in 1..Len(r) /\ j \in 1..Len(r)
    <3>1. r[i] = r[j]
      BY <1>3, <1>5, <2>1
    <3> QED
      BY <1>1, <2>1, <3>1 DEF Ordered
  <2>2. CASE i \notin 1..Len(r) \/ j \notin 1..Len(r)
    <3>1. \A n \in 1..Len(o) : n \in 1..Len(r) => o[n] # k
      BY <1>2, <1>3
    <3>2. \A n \in 1..Len(o) : n \notin 1..Len(r) => n = Len(r) + 1 /\ o[n] = k
      BY <1>1, <1>3
    <3> QED
      BY <1>5, <2>2, <3>1, <3>2
  <2> QED
    BY <2>1, <2>2
<1>6. Members(o) = Members(order) \cup {k}
  <2>1. Members(o) = Members(r) \cup {k}
    <3>1. \A i \in 1..Len(o) : i \in 1..Len(r) \/ i = Len(r) + 1
      BY <1>1, <1>3
    <3>2. Len(r) + 1 \in 1..Len(o) /\ \A i \in 1..Len(r) : i \in 1..Len(o)
      BY <1>1, <1>3
    <3> QED
      BY <1>3, <3>1, <3>2 DEF Members
  <2> QED
    BY <1>1, <2>1
<1> QED
  BY <1>3, <1>4, <1>5, <1>6 DEF Ordered, o, Touch, r

\* The use order has as many places as there are hosts in it.
LEMMA OrderSize ==
    ASSUME NEW order, NEW used, Ordered(order, used)
    PROVE  IsFiniteSet(Members(order)) /\ Cardinality(Members(order)) = Len(order)
<1> DEFINE n == Len(order)
           f == [i \in 1..n |-> order[i]]
<1>1. n \in Nat /\ order \in Seq(Keys)
  BY DEF Ordered
<1>2. IsFiniteSet(1..n) /\ Cardinality(1..n) = n
  BY <1>1, OneTo
<1>3. f \in Bijection(1..n, Members(order))
  <2>1. \A i, j \in 1..n : order[i] = order[j] => i = j
    BY DEF Ordered
  <2>2. f \in [1..n -> Members(order)] /\ \A i, j \in 1..n : f[i] = f[j] => i = j
    BY <2>1 DEF Members
  <2>3. \A x \in Members(order) : \E i \in 1..n : f[i] = x
    BY DEF Members
  <2> QED
    BY <2>2, <2>3 DEF Bijection, Injection, Surjection, IsInjective
<1>4. ExistsBijection(1..n, Members(order))
  BY <1>3 DEF ExistsBijection
<1> QED
  BY <1>2, <1>4, FS_Bijection

\* What is left after the first hosts of the use order are evicted is ordered as before,
\* and every evicted host was followed by as many as are left.
LEMMA SuffixOrdered ==
    ASSUME NEW order, NEW used, Ordered(order, used), NEW e \in 0..Len(order)
    PROVE  LET kept == SubSeq(order, e + 1, Len(order))
           IN  /\ Ordered(kept, used) /\ Members(kept) \subseteq Members(order)
               /\ Len(kept) = Len(order) - e
               /\ \A k \in Members(order) \ Members(kept) : Members(kept) \subseteq used[k]
<1> DEFINE n == Len(order)
           kept == SubSeq(order, e + 1, n)
<1>1. n \in Nat /\ order \in Seq(Keys) /\ e \in Nat /\ e <= n
  BY DEF Ordered
<1>2. /\ kept \in Seq(Keys) /\ Len(kept) = n - e
      /\ \A i \in 1..(n - e) : kept[i] = order[i + e]
  <2>1. \A i \in (e + 1)..n : order[i] \in Keys
    BY <1>1
  <2>2. kept = [i \in 1..(n - e) |-> order[i + e]]
    BY <1>1
  <2> HIDE DEF kept
  <2>3. \A i \in 1..(n - e) : i + e \in (e + 1)..n
    BY <1>1
  <2>4. n - e \in Nat
    BY <1>1
  <2> QED
    BY <2>1, <2>2, <2>3, <2>4
<1> HIDE DEF kept
<1>3. \A i \in 1..Len(kept) : i + e \in 1..n /\ kept[i] = order[i + e]
  BY <1>1, <1>2
<1>4. ASSUME NEW i \in 1..Len(kept), NEW j \in 1..Len(kept) 
      PROVE  /\ kept[i] = kept[j] => i = j
             /\ i < j => kept[j] \in used[kept[i]]
  <2>1. i + e \in 1..n /\ j + e \in 1..n /\ (i < j => i + e < j + e) /\ (i + e = j + e => i = j)
    BY <1>1, <1>3
  <2>2. kept[i] = order[i + e] /\ kept[j] = order[j + e]
    BY <1>3
  <2> QED
    BY <2>1, <2>2 DEF Ordered
<1>5. Members(kept) \subseteq Members(order)
  BY <1>3 DEF Members
<1>6. ASSUME NEW k \in Members(order) \ Members(kept), NEW x \in Members(kept) PROVE x \in used[k]
  <2>1. PICK m \in 1..n : order[m] = k
    BY DEF Members
  <2>2. PICK i \in 1..Len(kept) : kept[i] = x
    BY DEF Members
  <2>3. m <= e
    <3>1. SUFFICES ASSUME ~(m <= e) PROVE FALSE
      OBVIOUS
    <3>2. m - e \in 1..(n - e) /\ m - e + e = m
      BY <1>1, <3>1
    <3>3. kept[m - e] = k /\ m - e \in 1..Len(kept)
      BY <1>2, <2>1, <3>2
    <3> QED
      BY <3>3 DEF Members
  <2>4. m < i + e /\ i + e \in 1..n /\ order[i + e] = x
    BY <1>1, <1>2, <1>3, <2>2, <2>3
  <2> QED
    BY <2>1, <2>4 DEF Ordered
<1> QED
  BY <1>2, <1>4, <1>5, <1>6 DEF Ordered, kept

\* A host that is inspected although its last failure is recent was crowded out of the cache.
CrowdedOut ==
    \A c \in Conns :
        LET t == conn[c]
        IN  t.reason = "inspect" /\ t.pc = "greet" /\ ~config.strict /\ t.failedAgo < FailureTtl
               => t.crowded

\* A step of a thread is its own.
LEMMA OwnStep ==
    ASSUME NEW c \in Conns, Table, Thread(c), NEW d \in Conns \ {c}
    PROVE  conn'[d] = conn[d]
<1>1. ASSUME NEW req \in Requests(connects + 1), Decide(c, req) PROVE conn'[d] = conn[d]
  BY <1>1 DEF Decide, Table
<1>2. CASE Greet(c) \/ Arrive(c)
  BY <1>2 DEF Greet, Arrive, Table
<1>3. CASE Probe(c)
  <2> DEFINE t == conn[c]
             seen == ClassifyPrefix(SubSeq(t.input, 1, t.got))
             nexts ==
             (IF t.got = 0 THEN {Finish(Turn(t, "probe", "closed"), 200, "closed")}
              ELSE CASE seen = "tls" -> {Turn(t, "config", "tls")}
                     [] seen = "http" -> {Turn(t, "inner", "http")}
                     [] seen = "unknown" -> {Turn(t, "route", "unknown")}
                     [] seen = "more" -> {})
             \cup {Turn(t, "route", "timeout"), Finish(t, 502, "probe-error"),
                   Finish(t, 504, "total-timeout")}
  <2>1. conn' \in { [conn EXCEPT ![c] = next] : next \in nexts }
    BY <1>3, Zenon DEF Probe, Turn
  <2> HIDE DEF nexts
  <2> QED
    BY <2>1 DEF Table
<1>4. CASE Passthrough(c) \/ Tunnel(c)
  BY <1>4 DEF Passthrough, Tunnel, Table
<1>5. CASE LookupConfig(c) \/ WriteLeaf(c) \/ WriteLeafFails(c)
  BY <1>5 DEF LookupConfig, WriteLeaf, LeafStep, WriteLeafFails, SetupFailed, Table
<1>6. CASE LoadChain(c) \/ LoadKey(c) \/ HandshakeFails(c) \/ HandshakeSucceeds(c)
  BY <1>6 DEF LoadChain, LoadKey, SetupFailed, HandshakeFails, HandshakeSucceeds, Table
<1>7. CASE InnerHead(c) \/ InnerRequest(c)
  BY <1>7 DEF InnerHead, InnerRequest, Table
<1> QED
  BY <1>1, <1>2, <1>3, <1>4, <1>5, <1>6, <1>7 DEF Thread

\* A thread that has been greeted is not going to be.
LEMMA PastGreeting ==
    ASSUME NEW c \in Conns, Table, IsThread(conn[c]), Thread(c),
           \A req \in Requests(connects + 1) : ~Decide(c, req)
    PROVE  conn'[c].pc # "greet"
<1>1. ASSUME NEW t, NEW end PROVE Return(t, end).pc = "done"
  BY DEF Return, Idle
<1>2. ASSUME NEW t, NEW status, NEW end PROVE Finish(t, status, end).pc = "done"
  BY <1>1 DEF Finish
<1>3. ASSUME NEW u, conn' = [conn EXCEPT ![c] = u] PROVE conn'[c] = u
  BY <1>3 DEF Table
<1>4. CASE Greet(c)
  <2> DEFINE sent == Append(conn[c].wire, 200)
  <2>1. [[conn[c] EXCEPT !.wire = sent] EXCEPT !.pc = "probe"].pc = "probe"
    <3> HIDE DEF sent
    <3> QED
      BY DEF IsThread, Threads
  <2>2. [Write(conn[c], 200) EXCEPT !.pc = "probe"].pc = "probe"
    BY <2>1 DEF Write
  <2> DEFINE go == [Write(conn[c], 200) EXCEPT !.pc = "probe"]
             cut == Return(conn[c], "write-failed")
             late == Return(Write(conn[c], 200), "expired")
  <2>3. cut.pc = "done" /\ late.pc = "done" /\ go.pc = "probe"
    BY <1>1, <2>2
  <2>4. \/ conn' = [conn EXCEPT ![c] = go] \/ conn' = [conn EXCEPT ![c] = cut]
        \/ conn' = [conn EXCEPT ![c] = late]
    BY <1>4 DEF Greet
  <2> HIDE DEF go, cut, late
  <2>5. conn'[c] = go \/ conn'[c] = cut \/ conn'[c] = late
    BY <2>4 DEF Table
  <2> QED
    BY <2>3, <2>5
<1>5. CASE Arrive(c)
  BY <1>3, <1>5 DEF Arrive, Table, IsThread, Threads
<1>6. CASE Probe(c)
  <2> DEFINE t == conn[c]
             seen == ClassifyPrefix(SubSeq(t.input, 1, t.got))
             nexts ==
             (IF t.got = 0 THEN {Finish(Turn(t, "probe", "closed"), 200, "closed")}
              ELSE CASE seen = "tls" -> {Turn(t, "config", "tls")}
                     [] seen = "http" -> {Turn(t, "inner", "http")}
                     [] seen = "unknown" -> {Turn(t, "route", "unknown")}
                     [] seen = "more" -> {})
             \cup {Turn(t, "route", "timeout"), Finish(t, 502, "probe-error"),
                   Finish(t, 504, "total-timeout")}
  <2>1. conn' \in { [conn EXCEPT ![c] = next] : next \in nexts }
    BY <1>6, Zenon DEF Probe, Turn
  <2> HIDE DEF nexts
  <2>2. PICK u \in nexts : conn'[c] = u
    BY <2>1 DEF Table
  <2>3. seen \in {"tls", "http", "unknown", "more"}
    BY Zenon DEF ClassifyPrefix, ClassifyTarget
  <2> HIDE DEF seen
  <2>4. \A pc, p : Turn(t, pc, p).pc = pc
    BY DEF Turn, IsThread, Threads
  <2> QED
    BY <1>2, <2>2, <2>3, <2>4 DEF nexts
<1>7. CASE Passthrough(c)
  <2> DEFINE t == Begin(conn[c])
  <2>1. IsThread(t)
    BY BeginFacts
  <2> DEFINE dialled == [t EXCEPT !.pc = "dialled", !.layers = TunnelUpstream(t.route)]
  <2>2. \A e, s : FinishUpstreamError(t, e, s).pc = "done"
    BY <1>2 DEF FinishUpstreamError
  <2>3. \/ \E e, s : conn' = [conn EXCEPT ![c] = FinishUpstreamError(t, e, s)]
        \/ conn' = [conn EXCEPT ![c] = dialled]
        \/ conn' = [conn EXCEPT ![c] = Abandon(t, "bad-target")]
    BY <1>7, Zenon DEF Passthrough
  <2> HIDE DEF t
  <2>4. dialled.pc = "dialled"
    BY <2>1 DEF IsThread, Threads
  <2> HIDE DEF dialled
  <2>5. \/ conn'[c] = dialled \/ \E e, s : conn'[c] = FinishUpstreamError(t, e, s)
        \/ conn'[c] = Abandon(t, "bad-target")
    BY <2>3 DEF Table
  <2>6. Abandon(t, "bad-target").pc = "done" BY <1>1 DEF Abandon
  <2> QED
    BY <2>2, <2>4, <2>5, <2>6
<1>8. CASE Tunnel(c)
  BY <1>1, <1>2, <1>3, <1>8 DEF Tunnel, Abandon
<1>9. CASE LookupConfig(c)
  BY <1>3, <1>9 DEF LookupConfig, Table, IsThread, Threads
<1>10. CASE WriteLeaf(c)
  BY <1>3, <1>10 DEF WriteLeaf, LeafStep, Table, IsThread, Threads
<1>11. CASE WriteLeafFails(c)
  <2>1. conn' = [conn EXCEPT ![c] = Finish(conn[c], 502, "setup-failed")]
    BY <1>11, Zenon DEF WriteLeafFails, SetupFailed
  <2>2. PICK u : u = Finish(conn[c], 502, "setup-failed")
    OBVIOUS
  <2>3. conn'[c] = u
    BY <2>1, <2>2 DEF Table
  <2>4. u.pc = "done"
    BY <1>2, <2>2
  <2> QED
    BY <2>3, <2>4
<1>12. CASE LoadChain(c)
  BY <1>3, <1>12 DEF LoadChain, Table, IsThread, Threads
<1>13. CASE LoadKey(c)
  BY <1>2, <1>3, <1>13 DEF LoadKey, SetupFailed, Table, IsThread, Threads
<1>14. CASE HandshakeFails(c)
  BY <1>2, <1>3, <1>14 DEF HandshakeFails
<1>15. CASE HandshakeSucceeds(c)
  BY <1>1, <1>3, <1>15 DEF HandshakeSucceeds, Table, IsThread, Threads
<1>16. CASE InnerHead(c)
  BY <1>1, <1>2, <1>3, <1>16 DEF InnerHead, Table, IsThread, Threads
<1>17. CASE InnerRequest(c)
  BY <1>1, <1>2, <1>3, <1>17 DEF InnerRequest, Table, IsThread, Threads
<1> QED
  BY <1>4, <1>5, <1>6, <1>7, <1>8, <1>9, <1>10, <1>11, <1>12, <1>13, <1>14, <1>15, <1>16,
     <1>17 DEF Thread

\* The cache and the histories agree.
Sound(f, used) ==
    /\ Ordered(f.order, used) /\ DOMAIN f.at = Members(f.order) /\ Forgotten(f.at, used)

\* A use adds one host to the history of every other.
LEMMA HistoriesGrow ==
    ASSUME NEW used, Histories(used), NEW k \in Keys
    PROVE  /\ Histories(UsedBy(used, k))
           /\ \A x \in Keys \ {k} :
                  /\ Cardinality(used[x]) \in Nat /\ Cardinality(UsedBy(used, k)[x]) \in Nat
                  /\ Cardinality(used[x]) <= Cardinality(UsedBy(used, k)[x])
<1> DEFINE u == UsedBy(used, k)
<1>1. u[k] = {} /\ \A x \in Keys \ {k} : u[x] = used[x] \cup {k}
  BY DEF UsedBy
<1> HIDE DEF u
<1>2. ASSUME NEW x \in Keys \ {k}
      PROVE  /\ IsFiniteSet(u[x]) /\ Cardinality(used[x]) \in Nat /\ Cardinality(u[x]) \in Nat
             /\ Cardinality(used[x]) <= Cardinality(u[x])
  <2>1. IsFiniteSet(used[x])
    BY DEF Histories
  <2>2. IsFiniteSet(u[x])
    BY <1>1, <2>1, FS_AddElement
  <2>3. used[x] \subseteq u[x]
    BY <1>1
  <2> QED
    BY <2>1, <2>2, <2>3, FS_Subset, FS_CardinalityType
<1>3. IsFiniteSet(u[k])
  BY <1>1, FS_EmptySet
<1>4. Histories(u)
  BY <1>2, <1>3 DEF Histories
<1> QED
  BY <1>2, <1>4 DEF u

\* A purge forgets what has expired, and only that.
LEMMA PurgeSound ==
    ASSUME NEW f, NEW used, Sound(f, used), Faithful(f)
    PROVE  Sound(PurgeExpired(f), used)
<1> DEFINE live == { k \in DOMAIN f.at : clock - f.at[k] < FailureTtl }
           p == PurgeExpired(f)
<1>1. p.order = Retain(f.order, live) /\ p.at = Keep(f.at, live)
  BY DEF PurgeExpired
<1>2. DOMAIN p.at = live
  <2>1. DOMAIN f.at \cap live = live
    OBVIOUS
  <2> QED
    BY <1>1, <2>1 DEF Keep, Restrict
<1> HIDE DEF p
<1>3. live \subseteq DOMAIN f.at
  OBVIOUS
<1>4. Ordered(p.order, used) /\ Members(p.order) = Members(f.order) \cap live
  BY <1>1, RetainOrdered DEF Sound
<1>5. DOMAIN p.at = Members(p.order)
  BY <1>2, <1>3, <1>4 DEF Sound
<1>6. ASSUME NEW k \in Keys \ DOMAIN p.at, failed[k] # Never, clock - failed[k] < FailureTtl
      PROVE  Cardinality(used[k]) >= FailureCapacity
  <2>1. k \notin DOMAIN f.at
    BY <1>2, <1>6 DEF Faithful
  <2> QED
    BY <1>6, <2>1 DEF Sound, Forgotten
<1>7. Forgotten(p.at, used)
  BY <1>6 DEF Forgotten
<1> QED
  BY <1>4, <1>5, <1>7 DEF Sound, p

\* A hit moves its host to the end of the use order.
LEMMA HitSound ==
    ASSUME NEW f, NEW used, Sound(f, used), Faithful(f), Histories(used),
           NEW k \in Keys, IsActive(f, k), FailureCapacity \in Nat
    PROVE  Sound(ActiveAfter(f, k), UsedBy(used, k))
<1> DEFINE p == PurgeExpired(f)
           a == ActiveAfter(f, k)
           u == UsedBy(used, k)
<1>1. Sound(p, used)
  BY PurgeSound
<1>2. k \in DOMAIN p.at
  BY DEF IsActive
<1>3. a.at = p.at /\ a.order = Touch(p.order, k)
  BY <1>2 DEF ActiveAfter, PurgeExpired
<1> HIDE DEF p, a
<1>4. Ordered(a.order, u) /\ Members(a.order) = Members(p.order) \cup {k}
  BY <1>1, <1>3, TouchOrdered DEF Sound
<1>5. DOMAIN a.at = Members(a.order)
  BY <1>1, <1>2, <1>3, <1>4 DEF Sound
<1>6. ASSUME NEW x \in Keys \ DOMAIN a.at, failed[x] # Never, clock - failed[x] < FailureTtl
      PROVE  Cardinality(u[x]) >= FailureCapacity
  <2>1. Cardinality(used[x]) >= FailureCapacity /\ x # k
    BY <1>1, <1>2, <1>3, <1>6 DEF Sound, Forgotten
  <2>2. /\ Cardinality(used[x]) \in Nat /\ Cardinality(u[x]) \in Nat
        /\ Cardinality(used[x]) <= Cardinality(u[x])
    BY <2>1, HistoriesGrow
  <2> HIDE DEF u
  <2> QED
    BY <2>1, <2>2
<1>7. Forgotten(a.at, u)
  BY <1>6 DEF Forgotten
<1> QED
  BY <1>4, <1>5, <1>7 DEF Sound, a

\* A success forgets its host, and no other.
LEMMA ClearSound ==
    ASSUME NEW f, NEW used, Sound(f, used), NEW k
    PROVE  /\ Ordered(Clear(f, k).order, used)
           /\ DOMAIN Clear(f, k).at = DOMAIN f.at \ {k}
           /\ DOMAIN Clear(f, k).at = Members(Clear(f, k).order)
<1> DEFINE g == Clear(f, k)
<1>1. g.order = Without(f.order, k) /\ g.at = Keep(f.at, DOMAIN f.at \ {k})
  BY DEF Clear
<1>2. DOMAIN g.at = DOMAIN f.at \ {k}
  <2>1. DOMAIN f.at \cap (DOMAIN f.at \ {k}) = DOMAIN f.at \ {k}
    OBVIOUS
  <2> QED
    BY <1>1, <2>1 DEF Keep, Restrict
<1>3. ToSet(f.order) = Members(f.order)
  BY MembersToSet DEF Sound, Ordered
<1>4. Ordered(g.order, used) /\ Members(g.order) = Members(f.order) \ {k}
  <2>1. g.order = Retain(f.order, Members(f.order) \ {k})
    BY <1>1, <1>3 DEF Without
  <2>2. Ordered(Retain(f.order, Members(f.order) \ {k}), used)
        /\ Members(Retain(f.order, Members(f.order) \ {k})) = Members(f.order) \cap (Members(f.order) \ {k})
    BY RetainOrdered DEF Sound
  <2> QED
    BY <2>1, <2>2
<1> HIDE DEF g
<1> QED
  BY <1>2, <1>4 DEF Sound, g

\* remember_at puts its host at the end, and evicts a host only behind which there are as
\* many others as the cache has room for.
LEMMA RememberSound ==
    ASSUME NEW f, NEW used, Sound(f, used), Faithful(f), Histories(used), NEW k \in Keys,
           FailureCapacity \in Nat, ~(FailureCapacity = 0 \/ FailureTtl = 0)
    PROVE  LET g == Remember(f, k)
               u == UsedBy(used, k)
           IN  /\ Ordered(g.order, u) /\ DOMAIN g.at = Members(g.order)
               /\ \A x \in Keys \ DOMAIN g.at :
                      x = k \/ (failed[x] # Never /\ clock - failed[x] < FailureTtl) =>
                          Cardinality(u[x]) >= FailureCapacity
<1> DEFINE p == PurgeExpired(f)
           at == [x \in DOMAIN p.at \cup {k} |-> IF x = k THEN clock ELSE p.at[x]]
           order == Touch(p.order, k)
           evict == IF Cardinality(DOMAIN at) > FailureCapacity
                    THEN Cardinality(DOMAIN at) - FailureCapacity ELSE 0
           kept == SubSeq(order, evict + 1, Len(order))
           g == Remember(f, k)
           u == UsedBy(used, k)
<1>1. g.at = Keep(at, ToSet(kept)) /\ g.order = kept
  BY DEF Remember
<1>2. Sound(p, used)
  BY PurgeSound
<1> HIDE DEF p, g
<1>3. DOMAIN at = DOMAIN p.at \cup {k}
  OBVIOUS
<1>4. DOMAIN g.at = DOMAIN at \cap ToSet(kept)
  BY <1>1 DEF Keep, Restrict
<1> HIDE DEF at
<1>5. Ordered(order, u) /\ Members(order) = DOMAIN at
  <2>1. Ordered(order, u) /\ Members(order) = Members(p.order) \cup {k}
    BY <1>2, TouchOrdered DEF Sound
  <2> QED
    BY <1>2, <1>3, <2>1 DEF Sound
<1> HIDE DEF order
<1>6. IsFiniteSet(DOMAIN at) /\ Cardinality(DOMAIN at) = Len(order) /\ Len(order) \in Nat
  <2>1. IsFiniteSet(Members(order)) /\ Cardinality(Members(order)) = Len(order)
    BY <1>5, OrderSize
  <2>2. Len(order) \in Nat
    BY <1>5 DEF Ordered
  <2> QED
    BY <1>5, <2>1, <2>2
<1>7. evict \in 0..Len(order) /\ (evict > 0 => Len(order) - evict = FailureCapacity)
  BY <1>6
<1> HIDE DEF evict
<1>8. /\ Ordered(kept, u) /\ Members(kept) \subseteq Members(order)
      /\ Len(kept) = Len(order) - evict
      /\ \A x \in Members(order) \ Members(kept) : Members(kept) \subseteq u[x]
  BY <1>5, <1>7, SuffixOrdered
<1>9. evict = 0 => kept = order
  <2>1. order \in Seq(Keys)
    BY <1>5 DEF Ordered
  <2> QED
    BY <2>1
<1> HIDE DEF kept
<1>10. ToSet(kept) = Members(kept)
  BY <1>8, MembersToSet DEF Ordered
<1>11. DOMAIN g.at = Members(kept)
  BY <1>4, <1>5, <1>8, <1>10
<1>12. Histories(u)
  BY HistoriesGrow
<1>13. ASSUME NEW x \in Members(order) \ Members(kept)
       PROVE  Cardinality(u[x]) >= FailureCapacity
  <2>1. evict > 0
    BY <1>7, <1>9
  <2>2. x \in Keys
    BY <1>5, MembersToSet DEF Ordered
  <2>3. IsFiniteSet(u[x]) /\ Members(kept) \subseteq u[x]
    BY <1>8, <1>12, <2>2 DEF Histories
  <2>4. Cardinality(Members(kept)) = FailureCapacity
    BY <1>7, <1>8, <2>1, OrderSize
  <2>5. Cardinality(Members(kept)) <= Cardinality(u[x]) /\ Cardinality(u[x]) \in Nat
    BY <2>3, FS_Subset, FS_CardinalityType
  <2> HIDE DEF u
  <2> QED
    BY <2>4, <2>5
<1>14. ASSUME NEW x \in Keys \ DOMAIN g.at,
              x = k \/ (failed[x] # Never /\ clock - failed[x] < FailureTtl)
       PROVE  Cardinality(u[x]) >= FailureCapacity
  <2>1. CASE x \in Members(order)
    BY <1>11, <1>13, <2>1
  <2>2. CASE x \notin Members(order)
    <3>1. x # k /\ x \notin DOMAIN p.at
      BY <1>3, <1>5, <2>2
    <3>2. Cardinality(used[x]) >= FailureCapacity
      BY <1>2, <1>14, <3>1 DEF Sound, Forgotten
    <3>3. /\ Cardinality(used[x]) \in Nat /\ Cardinality(u[x]) \in Nat
          /\ Cardinality(used[x]) <= Cardinality(u[x])
      BY <3>1, HistoriesGrow
    <3> HIDE DEF u
    <3> QED
      BY <3>2, <3>3
  <2> QED
    BY <2>1, <2>2
<1> QED
  BY <1>1, <1>8, <1>11, <1>14 DEF g

\* What the failure cache keeps: its order and its histories agree, and whoever was inspected
\* in spite of a recent failure had been crowded out.
OrderInv == Sound(failures, usedSince) /\ Histories(usedSince) /\ CrowdedOut

\* connect_policy::decide keeps it, and decides by it.
LEMMA DecideOrder ==
    ASSUME NEW c \in Conns, ConnectInv, OrderInv, NEW req \in Requests(connects + 1),
           Decide(c, req)
    PROVE  OrderInv'
<1> DEFINE k == HostKey[req.host]
           asked == ~config.noMitm /\ ~req.bypass /\ config.ca /\ ~config.strict
           reason == CASE config.noMitm -> "disabled"
                       [] ~config.noMitm /\ req.bypass -> "bypass"
                       [] ~config.noMitm /\ ~req.bypass /\ ~config.ca -> "no-ca"
                       [] asked /\ IsActive(failures, k) -> "remembered"
                       [] OTHER -> "inspect"
           ago == IF failed[k] = Never THEN FailureTtl ELSE clock - failed[k]
           crowded == Cardinality(usedSince[k]) >= FailureCapacity
           route == UpstreamRoute(FALSE, req.actions)
           pc == IF reason = "inspect" THEN "greet" ELSE "route"
           u == [Idle EXCEPT !.id = connects + 1, !.host = req.host, !.parses = req.parses,
                             !.hidden = req.hidden, !.reason = reason, !.input = req.input, !.route = route,
                             !.failedAgo = ago, !.crowded = crowded, !.pc = pc]
<1>0. /\ FailureInv /\ Table /\ clock \in Nat /\ config \in Configs /\ connects \in Nat
      /\ Faithful(failures) /\ Sound(failures, usedSince) /\ Histories(usedSince)
      /\ FailureTtl \in Nat /\ FailureCapacity \in Nat
  BY ConnectAssumption DEF ConnectInv, Counters, ThreadsInv, FailureInv, OrderInv
<1>1. connects + 1 \in 1..MaxConnects
  BY <1>0, ConnectAssumption DEF Decide
<1>2. req.host \in Hosts /\ req.bypass \in BOOLEAN
  BY <1>1, RequestsAssumption
<1>3. k \in Keys
  BY <1>2 DEF Keys
<1>4. /\ Becomes(c, u)
      /\ failures' = IF asked THEN ActiveAfter(failures, k) ELSE failures
      /\ usedSince' = IF reason = "remembered" THEN UsedBy(usedSince, k) ELSE usedSince
      /\ clock' = clock /\ failed' = failed /\ config' = config
  BY Zenon DEF Decide, Becomes, UsedBy
<1>5. /\ config.noMitm \in BOOLEAN /\ config.ca \in BOOLEAN /\ config.strict \in BOOLEAN
  BY <1>0 DEF Configs
<1>6. reason = "remembered" <=> asked /\ IsActive(failures, k)
  BY <1>2, <1>5
<1>7. reason = "inspect" /\ ~config.strict => asked /\ ~IsActive(failures, k)
  BY <1>2, <1>5
<1>8. /\ u.reason = reason /\ u.failedAgo = ago /\ u.crowded = crowded
  BY DEF Idle
<1> HIDE DEF asked, reason, u
<1>9. Sound(failures', usedSince') /\ Histories(usedSince')
  <2>1. CASE reason = "remembered"
    <3>1. failures' = ActiveAfter(failures, k) /\ usedSince' = UsedBy(usedSince, k)
      BY <1>4, <1>6, <2>1
    <3>2. Sound(ActiveAfter(failures, k), UsedBy(usedSince, k))
      BY <1>0, <1>3, <1>6, <2>1, HitSound
    <3>3. Histories(UsedBy(usedSince, k))
      BY <1>0, <1>3, HistoriesGrow
    <3> QED
      BY <3>1, <3>2, <3>3
  <2>2. CASE reason # "remembered" /\ asked
    <3>1. failures' = PurgeExpired(failures) /\ usedSince' = usedSince
      BY <1>4, <1>6, <2>2 DEF ActiveAfter, IsActive
    <3>2. Sound(PurgeExpired(failures), usedSince)
      BY <1>0, PurgeSound
    <3> QED
      BY <1>0, <3>1, <3>2
  <2>3. CASE reason # "remembered" /\ ~asked
    BY <1>0, <1>4, <2>3
  <2> QED
    BY <2>1, <2>2, <2>3
<1>10. Sound(failures, usedSince)' /\ Histories(usedSince)'
  BY <1>4, <1>9 DEF Sound, Forgotten
<1>11. ASSUME u.reason = "inspect", ~config.strict, u.failedAgo < FailureTtl
       PROVE  u.crowded
  <2>1. asked /\ ~IsActive(failures, k) /\ ago < FailureTtl
    BY <1>7, <1>8, <1>11
  <2>2. failed[k] # Never /\ clock - failed[k] < FailureTtl
    BY <1>0, <2>1
  <2>3. k \notin DOMAIN failures.at
    <3>1. SUFFICES ASSUME k \in DOMAIN failures.at PROVE FALSE
      OBVIOUS
    <3> DEFINE live == { x \in DOMAIN failures.at : clock - failures.at[x] < FailureTtl }
    <3>2. k \in live
      BY <1>0, <2>2, <3>1 DEF Faithful
    <3>3. PurgeExpired(failures).at = Keep(failures.at, live)
      BY DEF PurgeExpired
    <3> HIDE DEF live
    <3>4. k \in DOMAIN PurgeExpired(failures).at
      BY <3>1, <3>2, <3>3 DEF Keep, Restrict
    <3> QED
      BY <2>1, <3>4 DEF IsActive
  <2>4. crowded
    BY <1>0, <1>3, <2>2, <2>3 DEF Sound, Forgotten
  <2> QED
    BY <1>8, <2>4
<1>12. CrowdedOut'
  <2>1. conn'[c] = u /\ \A d \in Conns : d # c => conn'[d] = conn[d]
    BY <1>0, <1>4, OneThread
  <2> QED
    BY <1>4, <1>11, <2>1 DEF OrderInv, CrowdedOut
<1> QED
  BY <1>10, <1>12 DEF OrderInv

\* A new process has an empty cache.
LEMMA NewOrder ==
    ASSUME NEW f, f = [at |-> [k \in {} |-> 0], order |-> <<>>],
           NEW used, used = [k \in Keys |-> {}], failed = [k \in Keys |-> Never]
    PROVE  Sound(f, used) /\ Histories(used)
<1>1. f.order = <<>> /\ DOMAIN f.at = {}
  <2>1. f.at = [k \in {} |-> 0] /\ f.order = <<>>
    OBVIOUS
  <2> QED
    BY <2>1
<1>2. Ordered(<<>>, used) /\ Members(<<>>) = {}
  BY DEF Ordered, Members
<1>3. Sound(f, used)
  BY <1>1, <1>2 DEF Sound, Forgotten
<1>4. Histories(used)
  BY FS_EmptySet DEF Histories
<1> QED
  BY <1>3, <1>4

\* A step of a thread that does not decide: no time passes, and at most the handshakes use
\* the failure cache.
LEMMA StepsOf ==
    ASSUME NEW c \in Conns, Thread(c), \A req \in Requests(connects + 1) : ~Decide(c, req)
    PROVE  /\ clock' = clock /\ config' = config
           /\ UNCHANGED <<failures, failed, usedSince>> \/ HandshakeFails(c) \/ HandshakeSucceeds(c)
<1>1. CASE Greet(c) \/ Arrive(c) \/ Probe(c) \/ Passthrough(c) \/ Tunnel(c)
           \/ InnerHead(c) \/ InnerRequest(c) \/ LoadChain(c)
  <2>1. UNCHANGED <<Others, Caches>>
    BY <1>1 DEF Greet, Arrive, Probe, Passthrough, Tunnel, InnerHead, InnerRequest, LoadChain
  <2> QED
    BY <2>1 DEF Others, Caches
<1>2. CASE LookupConfig(c) \/ WriteLeaf(c) \/ WriteLeafFails(c) \/ LoadKey(c)
  <2>1. UNCHANGED <<Others, failures, failed, usedSince>>
    BY <1>2 DEF LookupConfig, WriteLeaf, LeafStep, WriteLeafFails, LoadKey
  <2> QED
    BY <2>1 DEF Others
<1>3. CASE HandshakeFails(c) \/ HandshakeSucceeds(c)
  <2>1. UNCHANGED Others
    BY <1>3 DEF HandshakeFails, HandshakeSucceeds
  <2> QED
    BY <1>3, <2>1 DEF Others
<1> QED
  BY <1>1, <1>2, <1>3 DEF Thread

\* The steps that do not decide: at most the handshakes use the cache.
LEMMA OthersOrder ==
    ASSUME NEW c \in Conns, ConnectInv, OrderInv, Thread(c),
           \A req \in Requests(connects + 1) : ~Decide(c, req)
    PROVE  OrderInv'
<1>0. /\ FailureInv /\ Table /\ ThreadInv(conn[c]) /\ IsThread(conn[c]) /\ clock \in Nat
      /\ Faithful(failures) /\ Sound(failures, usedSince) /\ Histories(usedSince)
      /\ FailureTtl \in Nat /\ FailureCapacity \in Nat
  BY ConnectAssumption DEF ConnectInv, Counters, ThreadsInv, ThreadInv, FailureInv, OrderInv
<1>1. conn'[c].pc # "greet" /\ \A d \in Conns \ {c} : conn'[d] = conn[d]
  BY <1>0, PastGreeting, OwnStep
<1>2. clock' = clock /\ config' = config
  BY StepsOf
<1>3. CrowdedOut'
  BY <1>1, <1>2 DEF OrderInv, CrowdedOut
<1>4. CASE UNCHANGED <<failures, failed, usedSince>>
  <2>1. Sound(failures, usedSince)' /\ Histories(usedSince)'
    BY <1>0, <1>2, <1>4 DEF Sound, Forgotten
  <2> QED
    BY <1>3, <2>1 DEF OrderInv
<1>5. CASE HandshakeFails(c) \/ HandshakeSucceeds(c)
  <2> DEFINE k == Key(c)
  <2>0. k \in Keys
    <3>1. conn[c].pc = "handshake"
      BY <1>5 DEF HandshakeFails, HandshakeSucceeds
    <3> QED
      BY <1>0, <3>1, BusyKey
  <2>1. \/ UNCHANGED <<failures, failed, usedSince>>
        \/ /\ failures' = Remember(failures, k) /\ failed' = [failed EXCEPT ![k] = clock]
           /\ usedSince' = UsedBy(usedSince, k)
        \/ /\ failures' = Clear(failures, k) /\ failed' = [failed EXCEPT ![k] = Never]
           /\ usedSince' = usedSince
    BY <1>5 DEF HandshakeFails, HandshakeSucceeds, UsedBy
  <2> HIDE DEF k
  <2>2. failed \in [Keys -> Int] /\ \A x \in Keys : failed[x] <= clock
    BY <1>0 DEF FailureInv
  <2>3. CASE /\ failures' = Remember(failures, k) /\ failed' = [failed EXCEPT ![k] = clock]
             /\ usedSince' = UsedBy(usedSince, k)
    <3>1. Histories(UsedBy(usedSince, k))
      BY <1>0, <2>0, HistoriesGrow
    <3>2. failed'[k] = clock /\ \A x \in Keys \ {k} : failed'[x] = failed[x]
      BY <2>0, <2>2, <2>3
    <3>3. CASE FailureCapacity = 0 \/ FailureTtl = 0
      <4>1. failures' = failures /\ DOMAIN failures.at = {}
        BY <1>0, <2>3, <3>3 DEF Remember, Faithful
      <4>2. failures.order = <<>>
        <5>1. failures.order \in Seq(Keys) /\ Members(failures.order) = {}
          BY <1>0, <4>1 DEF Sound, Ordered
        <5>2. ~(1 \in 1..Len(failures.order))
          BY <5>1 DEF Members
        <5> QED
          BY <5>1, <5>2
      <4>3. Ordered(<<>>, UsedBy(usedSince, k)) /\ Members(<<>>) = {}
        BY DEF Ordered, Members
      <4>4. ASSUME NEW x \in Keys, clock - failed'[x] < FailureTtl
            PROVE  Cardinality(UsedBy(usedSince, k)[x]) >= FailureCapacity
        <5>1. failed'[x] \in Int /\ failed'[x] <= clock
          BY <1>0, <2>2, <3>2
        <5>2. FailureCapacity = 0
          BY <1>0, <3>3, <4>4, <5>1
        <5>3. Cardinality(UsedBy(usedSince, k)[x]) \in Nat
          BY <3>1, FS_CardinalityType DEF Histories
        <5> QED
          BY <5>2, <5>3
      <4>5. Sound(failures, usedSince)'
        BY <1>2, <2>3, <4>1, <4>2, <4>3, <4>4 DEF Sound, Forgotten
      <4> QED
        BY <1>3, <2>3, <3>1, <4>5 DEF OrderInv
    <3>4. CASE ~(FailureCapacity = 0 \/ FailureTtl = 0)
      <4> DEFINE g == Remember(failures, k)
                 u == UsedBy(usedSince, k)
      <4>1. /\ Ordered(g.order, u) /\ DOMAIN g.at = Members(g.order)
            /\ \A x \in Keys \ DOMAIN g.at :
                   x = k \/ (failed[x] # Never /\ clock - failed[x] < FailureTtl) =>
                       Cardinality(u[x]) >= FailureCapacity
        BY <1>0, <2>0, <3>4, RememberSound
      <4> HIDE DEF g, u
      <4>2. failures' = g /\ usedSince' = u
        BY <2>3 DEF g, u
      <4>3. Sound(failures, usedSince)'
        BY <1>2, <3>2, <4>1, <4>2 DEF Sound, Forgotten
      <4> QED
        BY <1>3, <2>3, <3>1, <4>3 DEF OrderInv
    <3> QED
      BY <3>3, <3>4
  <2>4. CASE /\ failures' = Clear(failures, k) /\ failed' = [failed EXCEPT ![k] = Never]
             /\ usedSince' = usedSince
    <3>1. failed'[k] = Never /\ \A x \in Keys \ {k} : failed'[x] = failed[x]
      BY <2>0, <2>2, <2>4
    <3>2. /\ Ordered(failures'.order, usedSince) /\ DOMAIN (failures'.at) = DOMAIN failures.at \ {k}
          /\ DOMAIN (failures'.at) = Members(failures'.order)
      BY <1>0, <2>4, ClearSound
    <3>3. Sound(failures, usedSince)'
      BY <1>0, <1>2, <2>4, <3>1, <3>2 DEF Sound, Forgotten
    <3> QED
      BY <1>0, <1>3, <2>4, <3>3 DEF OrderInv
  <2> QED
    BY <1>4, <2>1, <2>3, <2>4
<1>6. UNCHANGED <<failures, failed, usedSince>> \/ HandshakeFails(c) \/ HandshakeSucceeds(c)
  BY StepsOf
<1> QED
  BY <1>4, <1>5, <1>6

\* The cache keeps its promises at every step.
LEMMA OrderNext == ConnectInv /\ OrderInv /\ [Next]_vars => OrderInv'
<1> SUFFICES ASSUME ConnectInv, OrderInv, [Next]_vars PROVE OrderInv'
  OBVIOUS
<1>1. ASSUME NEW c \in Conns, Thread(c) PROVE OrderInv'
  BY <1>1, DecideOrder, OthersOrder
<1>2. CASE Crash
  <2>1. /\ conn' = [c \in Conns |-> Idle] /\ failed' = [k \in Keys |-> Never]
        /\ failures' = [at |-> [k \in {} |-> 0], order |-> <<>>]
        /\ usedSince' = [k \in Keys |-> {}]
    BY <1>2 DEF Crash
  <2>2. failures'.at = [k \in {} |-> 0] /\ failures'.order = <<>>
    BY <2>1
  <2>3. Ordered(<<>>, usedSince') /\ Members(<<>>) = {} /\ DOMAIN (failures'.at) = {}
    BY <2>2 DEF Ordered, Members
  <2>4. Sound(failures, usedSince)'
    <3>1. Forgotten(failures.at, usedSince)'
      BY <2>1 DEF Forgotten
    <3> QED
      BY <2>2, <2>3, <3>1 DEF Sound
  <2>5. Histories(usedSince)'
    BY <2>1, FS_EmptySet DEF Histories
  <2>6. CrowdedOut'
    BY <2>1, IdleInv DEF CrowdedOut
  <2> QED
    BY <2>4, <2>5, <2>6 DEF OrderInv
<1>3. CASE Tick
  <2>1. clock' = clock + 1 /\ UNCHANGED <<config, conn, failures, failed, usedSince>>
    BY <1>3 DEF Tick
  <2>2. clock \in Nat /\ FailureTtl \in Nat /\ \A k \in Keys : failed[k] \in Int
    BY ConnectAssumption DEF ConnectInv, Counters, FailureInv
  <2>3. \A k \in Keys : clock + 1 - failed[k] < FailureTtl => clock - failed[k] < FailureTtl
    BY <2>2
  <2>4. Forgotten(failures.at, usedSince)'
    <3>1. ASSUME NEW k \in Keys \ DOMAIN failures.at, failed[k] # Never,
                 clock + 1 - failed[k] < FailureTtl
          PROVE  Cardinality(usedSince[k]) >= FailureCapacity
      <4>1. clock - failed[k] < FailureTtl
        BY <2>3, <3>1
      <4> QED
        BY <3>1, <4>1 DEF OrderInv, Sound, Forgotten
    <3> DEFINE young(k) == clock + 1 - failed[k] < FailureTtl
    <3>2. \A k \in Keys \ DOMAIN failures.at : failed[k] # Never /\ young(k) =>
              Cardinality(usedSince[k]) >= FailureCapacity
      BY <3>1
    <3>3. \A k \in Keys : clock' - failed'[k] < FailureTtl => young(k)
      BY <2>1, <2>2
    <3> HIDE DEF young
    <3> QED
      BY <2>1, <3>2, <3>3 DEF Forgotten
  <2>5. Sound(failures, usedSince)'
    BY <2>1, <2>4 DEF OrderInv, Sound
  <2> QED
    BY <2>1, <2>5 DEF OrderInv, CrowdedOut
<1>4. CASE UNCHANGED vars
  <2>1. UNCHANGED <<config, conn, failures, failed, usedSince, clock>>
    BY <1>4 DEF vars
  <2> QED
    BY <2>1 DEF OrderInv, Sound, Forgotten, CrowdedOut
<1> QED
  BY <1>1, <1>2, <1>3, <1>4 DEF Next

\* The memory of CONNECT handling: a connection is passed through uninspected only if the last
\* handshake of its host failed less than the lifetime of an entry ago with no success since; a
\* host that did is inspected again only if enough other hosts used the cache since to push it
\* out; and a leaf certificate is unusable only after a disturbed write (mitm_failures.rs,
\* certificates.rs ensure_leaf_certificate).
THEOREM MemoryKept == Spec => []MitmMemory
<1>1. Init => OrderInv
  <2> SUFFICES ASSUME Init PROVE OrderInv
    OBVIOUS
  <2>1. Sound(failures, usedSince) /\ Histories(usedSince)
    BY NewOrder DEF Init
  <2> QED
    BY <2>1, IdleInv DEF Init, OrderInv, CrowdedOut
<1>2. ConnectInv /\ OrderInv => MitmMemory
  BY DEF ConnectInv, ThreadsInv, ThreadInv, DecisionInv, Leaves, OrderInv, CrowdedOut,
         MitmMemory, FallbackExact
<1> QED
  BY <1>1, <1>2, ConnectInvariant, OrderNext, PTL DEF Spec
-----------------------------------------------------------------------------
(***************************************************************************)
(* Transports.  ChainToFinal is a recursive function; that there is one    *)
(* with its equations, and that every hop of a chain is reached, is shown  *)
(* by way of the least number of hops for which it would fail.             *)
(***************************************************************************)

\* The layers of hop i: those to the hop before it, a request to go on, and TLS.
TlsTo(hops, i) == IF hops[i] = "https" THEN <<Tls(i)>> ELSE <<>>
Stage(hops, f, i) ==
    IF i = 1 THEN ConnectTcp(1) \o TlsTo(hops, 1)
    ELSE f[i - 1] \o AskHop(hops[i - 1], i) \o TlsTo(hops, i)
Stages(hops) == CHOOSE f : f = [i \in 1..Len(hops) |-> Stage(hops, f, i)]

\* connect_proxy_chain_to_final computes the last of the stages.
LEMMA ChainStages ==
    ASSUME NEW hops
    PROVE  ChainToFinal(hops) = Stages(hops)[Len(hops)]
BY Zenon DEF ChainToFinal, Stages, Stage, TlsTo

\* f gives the stages of the first k hops.
Upto(hops, k, f) == f = [i \in 1..k |-> Stage(hops, f, i)]

\* The stages of k hops extend to those of k + 1.
LEMMA UptoExtends ==
    ASSUME NEW hops, NEW k \in Nat, NEW f, Upto(hops, k, f)
    PROVE  \E g : Upto(hops, k + 1, g)
<1> DEFINE g == [i \in 1..(k + 1) |-> Stage(hops, f, i)]
<1>1. \A i \in 1..k : g[i] = f[i]
  BY DEF Upto
<1>2. \A i \in 1..(k + 1) : g[i] = Stage(hops, f, i)
  OBVIOUS
<1>3. g = [i \in 1..(k + 1) |-> g[i]]
  OBVIOUS
<1> HIDE DEF g
<1>4. ASSUME NEW i \in 1..(k + 1) PROVE Stage(hops, f, i) = Stage(hops, g, i)
  <2>1. CASE i = 1
    BY <2>1 DEF Stage
  <2>2. CASE i # 1
    <3>1. i - 1 \in 1..k
      BY <2>2
    <3>2. g[i - 1] = f[i - 1]
      BY <3>1, <1>1
    <3> QED
      BY <2>2, <3>2 DEF Stage
  <2> QED
    BY <2>1, <2>2
<1> DEFINE h == [i \in 1..(k + 1) |-> Stage(hops, g, i)]
<1>5. h = [i \in 1..(k + 1) |-> h[i]] /\ \A i \in 1..(k + 1) : h[i] = Stage(hops, g, i)
  OBVIOUS
<1> HIDE DEF h
<1>6. \A i \in 1..(k + 1) : g[i] = h[i]
  BY <1>2, <1>4, <1>5
<1>7. g = h
  BY <1>3, <1>5, <1>6
<1> QED
  BY <1>7 DEF h, Upto

\* For every number of hops there are such layers, and ChainToFinal computes them.
LEMMA UptoExists ==
    ASSUME NEW hops, NEW n \in Nat
    PROVE  \E f : Upto(hops, n, f)
<1> DEFINE Bad == {k \in Nat : ~\E f : Upto(hops, k, f)}
<1>1. 0 \notin Bad
  <2> DEFINE f == [i \in {} |-> 0]
  <2>1. 1..0 = {}
    OBVIOUS
  <2>2. Upto(hops, 0, f)
    BY <2>1 DEF Upto
  <2> QED
    BY <2>2
<1>2. ASSUME NEW k \in Bad PROVE \E y \in Bad : ~(k <= y)
  <2>1. k \in Nat /\ k # 0
    BY <1>1
  <2>2. k - 1 \in Nat /\ (k - 1) + 1 = k /\ ~(k <= k - 1)
    BY <2>1
  <2>3. k - 1 \in Bad
    BY <2>2, UptoExtends
  <2> QED
    BY <2>2, <2>3
<1>3. Bad = {}
  <2> HIDE DEF Bad
  <2>1. Bad \in SUBSET Nat
    BY DEF Bad
  <2> QED
    BY <2>1, <1>2, Least
<1> QED
  BY <1>3

\* The stages of a chain satisfy their equations.
LEMMA StagesUpto ==
    ASSUME NEW hops, Len(hops) \in Nat
    PROVE  Upto(hops, Len(hops), Stages(hops))
<1>1. \E f : Upto(hops, Len(hops), f)
  BY UptoExists
<1> QED
  BY <1>1, Zenon DEF Stages, Upto

-----------------------------------------------------------------------------
\* Layers, and the part of a transport that has got to hop k.
Layers == [layer : {"tcp", "tls", "connect", "socks"}, peer : Nat]
Passed(hops, i, u) ==
    \E a \in 1..Len(u) :
        /\ u[a].peer = i /\ u[a].layer # "tls"
        /\ \A b \in 1..a - 1 : u[b].peer \in 1..i - 1
        /\ hops[i] = "https" => a < Len(u) /\ u[a + 1] = Tls(i)
AllPassed(hops, k, u) == \A i \in 1..k : Passed(hops, i, u)
PeersIn(u, S) == \A i \in 1..Len(u) : u[i].peer \in S
EndsAt(u, p) == Len(u) > 0 /\ u[Len(u)].peer = p
Transport(u) == u \in Seq(Layers) /\ TlsWithPeer(u)
Path(hops, k, u) ==
    /\ Transport(u) /\ PeersIn(u, 1..k) /\ AllPassed(hops, k, u)
    /\ k # 0 => EndsAt(u, k)

\* The fields of the layers.
LEMMA LayerFacts ==
    ASSUME NEW p \in Nat, NEW kind
    PROVE  /\ Tcp(p) \in Layers /\ Tls(p) \in Layers /\ ProxyConnect(p) \in Layers
           /\ Socks(p) \in Layers
           /\ Tcp(p).peer = p /\ Tls(p).peer = p /\ ProxyConnect(p).peer = p /\ Socks(p).peer = p
           /\ Tcp(p).layer = "tcp" /\ Tls(p).layer = "tls"
           /\ ProxyConnect(p).layer = "connect" /\ Socks(p).layer = "socks"
BY DEF Tcp, Tls, ProxyConnect, Socks, Layers

\* A transport and one more layer.
LEMMA OneMore ==
    ASSUME NEW u \in Seq(Layers), NEW l \in Layers
    PROVE  /\ u \o <<l>> \in Seq(Layers) /\ Len(u \o <<l>>) = Len(u) + 1
           /\ (u \o <<l>>)[Len(u) + 1] = l
           /\ \A i \in 1..Len(u) : (u \o <<l>>)[i] = u[i]
OBVIOUS

\* What was passed stays passed when a layer is added.
LEMMA PassedStays ==
    ASSUME NEW hops, NEW i \in Nat, NEW u \in Seq(Layers), NEW l \in Layers, Passed(hops, i, u)
    PROVE  Passed(hops, i, u \o <<l>>)
<1>1. PICK a \in 1..Len(u) :
        /\ u[a].peer = i /\ u[a].layer # "tls"
        /\ \A b \in 1..a - 1 : u[b].peer \in 1..i - 1
        /\ hops[i] = "https" => a < Len(u) /\ u[a + 1] = Tls(i)
  BY DEF Passed
<1> DEFINE v == u \o <<l>>
<1>2. Len(v) = Len(u) + 1 /\ \A j \in 1..Len(u) : v[j] = u[j]
  BY OneMore
<1> HIDE DEF v
<1>3. a \in 1..Len(v) /\ v[a] = u[a] /\ Len(u) \in Nat /\ \A b \in 1..a - 1 : v[b] = u[b]
  BY <1>2
<1>4. a < Len(u) => a < Len(v) /\ v[a + 1] = u[a + 1]
  BY <1>2, <1>3
<1> QED
  BY <1>1, <1>3, <1>4 DEF Passed, v

\* A layer is added: a session with the peer reached, or a connection onwards.
LEMMA Joined ==
    ASSUME NEW u, Transport(u), NEW l \in Layers,
           l.layer = "tls" => EndsAt(u, l.peer)
    PROVE  Transport(u \o <<l>>) /\ EndsAt(u \o <<l>>, l.peer)
<1> DEFINE v == u \o <<l>>
<1>0. u \in Seq(Layers) /\ Len(u) \in Nat
  BY DEF Transport
<1>1. /\ v \in Seq(Layers) /\ Len(v) = Len(u) + 1 /\ v[Len(u) + 1] = l
      /\ \A i \in 1..Len(u) : v[i] = u[i]
  BY <1>0, OneMore
<1> HIDE DEF v
<1>2. ASSUME NEW i \in 1..Len(v), v[i].layer = "tls"
      PROVE  i > 1 /\ v[i - 1].peer = v[i].peer
  <2>1. CASE i = Len(u) + 1
    <3>1. Len(u) > 0 /\ u[Len(u)].peer = l.peer
      BY <1>1, <1>2, <2>1 DEF EndsAt
    <3>2. i > 1 /\ i - 1 = Len(u) /\ v[i - 1] = u[Len(u)] /\ v[i] = l
      BY <1>0, <1>1, <2>1, <3>1
    <3> QED
      BY <3>1, <3>2
  <2>2. CASE i # Len(u) + 1
    <3>1. i \in 1..Len(u) /\ v[i] = u[i]
      BY <1>0, <1>1, <2>2
    <3>2. i > 1 /\ u[i - 1].peer = u[i].peer
      BY <1>2, <3>1 DEF Transport, TlsWithPeer
    <3>3. v[i - 1] = u[i - 1]
      BY <1>0, <1>1, <3>1, <3>2
    <3> QED
      BY <3>1, <3>2, <3>3
  <2> QED
    BY <2>1, <2>2
<1>3. TlsWithPeer(v)
  BY <1>2 DEF TlsWithPeer
<1>4. EndsAt(v, l.peer)
  BY <1>0, <1>1 DEF EndsAt
<1> QED
  BY <1>1, <1>3, <1>4 DEF Transport, v

\* The next hop is reached through the layers so far.
LEMMA NextHop ==
    ASSUME NEW hops, NEW k \in Nat, NEW u, Path(hops, k, u),
           NEW l \in Layers, l.layer # "tls", l.peer = k + 1
    PROVE  Path(hops, k + 1, (u \o <<l>>) \o TlsTo(hops, k + 1))
<1> DEFINE v == u \o <<l>>
           w == v \o <<Tls(k + 1)>>
           Met(x) == \A b \in 1..Len(u) : x[b].peer \in 1..(k + 1) - 1
<1>0. Transport(u) /\ u \in Seq(Layers) /\ Len(u) \in Nat /\ PeersIn(u, 1..k) /\ AllPassed(hops, k, u)
  BY DEF Path, Transport
<1>1. /\ v \in Seq(Layers) /\ Len(v) = Len(u) + 1 /\ v[Len(u) + 1] = l
      /\ \A i \in 1..Len(u) : v[i] = u[i]
  BY <1>0, OneMore
<1>2. Transport(v) /\ EndsAt(v, k + 1)
  BY <1>0, Joined
<1>3. Tls(k + 1) \in Layers /\ Tls(k + 1).peer = k + 1 /\ Tls(k + 1).layer = "tls"
  BY LayerFacts
<1>4. PeersIn(v, 1..(k + 1))
  BY <1>0, <1>1 DEF PeersIn
<1>5. AllPassed(hops, k, v)
  BY <1>0, PassedStays DEF AllPassed
<1> HIDE DEF v
<1>6. Met(v)
  <2>1. \A b \in 1..Len(u) : u[b].peer \in 1..k
    BY <1>0 DEF PeersIn
  <2>2. (k + 1) - 1 = k
    OBVIOUS
  <2> QED
    BY <1>1, <2>1, <2>2
<1>7. CASE hops[k + 1] = "https"
  <2>1. /\ w \in Seq(Layers) /\ Len(w) = Len(v) + 1 /\ w[Len(v) + 1] = Tls(k + 1)
        /\ \A i \in 1..Len(v) : w[i] = v[i]
    BY <1>1, <1>3, OneMore
  <2>2. Transport(w) /\ EndsAt(w, k + 1)
    BY <1>2, <1>3, Joined
  <2>3. AllPassed(hops, k, w)
    BY <1>1, <1>3, <1>5, PassedStays DEF AllPassed
  <2> HIDE DEF w
  <2>4. PeersIn(w, 1..(k + 1))
    BY <1>1, <1>3, <1>4, <2>1 DEF PeersIn
  <2>5. Passed(hops, k + 1, w)
    <3>1. Len(u) + 1 \in 1..Len(w) /\ w[Len(u) + 1] = l /\ w[(Len(u) + 1) + 1] = Tls(k + 1)
          /\ Len(u) + 1 < Len(w)
      BY <1>0, <1>1, <2>1
    <3>2. \A b \in 1..(Len(u) + 1) - 1 : w[b].peer \in 1..(k + 1) - 1
      BY <1>0, <1>1, <1>6, <2>1
    <3> QED
      BY <3>1, <3>2 DEF Passed
  <2>6. AllPassed(hops, k + 1, w)
    BY <2>3, <2>5 DEF AllPassed
  <2>7. v \o TlsTo(hops, k + 1) = w
    BY <1>7 DEF TlsTo, w
  <2> QED
    BY <2>2, <2>4, <2>6, <2>7 DEF Path, v
<1>8. CASE hops[k + 1] # "https"
  <2>1. Passed(hops, k + 1, v)
    <3>1. Len(u) + 1 \in 1..Len(v)
      BY <1>0, <1>1
    <3>2. \A b \in 1..(Len(u) + 1) - 1 : v[b].peer \in 1..(k + 1) - 1
      BY <1>0, <1>6
    <3> QED
      BY <1>1, <1>8, <3>1, <3>2 DEF Passed
  <2>2. AllPassed(hops, k + 1, v)
    BY <1>5, <2>1 DEF AllPassed
  <2>3. v \o TlsTo(hops, k + 1) = v
    BY <1>1, <1>8 DEF TlsTo
  <2> QED
    BY <1>2, <1>4, <2>2, <2>3 DEF Path, v
<1> QED
  BY <1>7, <1>8
\* The first hop.
LEMMA FirstHop ==
    ASSUME NEW hops
    PROVE  Path(hops, 1, ConnectTcp(1) \o TlsTo(hops, 1))
<1>1. Path(hops, 0, <<>>)
  BY DEF Path, Transport, TlsWithPeer, PeersIn, AllPassed
<1>2. Tcp(1) \in Layers /\ Tcp(1).layer # "tls" /\ Tcp(1).peer = 0 + 1
  BY LayerFacts
<1>3. Path(hops, 0 + 1, (<<>> \o <<Tcp(1)>>) \o TlsTo(hops, 0 + 1))
  BY <1>1, <1>2, NextHop
<1>4. <<>> \o <<Tcp(1)>> = ConnectTcp(1) /\ 0 + 1 = 1
  BY <1>2 DEF ConnectTcp
<1> QED
  BY <1>3, <1>4

\* Asking a hop for a connection onwards adds one layer, which is not TLS.
LEMMA AskHopLayer ==
    ASSUME NEW kind, NEW p \in Nat
    PROVE  \E l \in Layers : AskHop(kind, p) = <<l>> /\ l.layer # "tls" /\ l.peer = p
BY LayerFacts DEF AskHop

\* connect_proxy_chain_to_final reaches the last hop.
LEMMA ChainReaches ==
    ASSUME NEW hops, Len(hops) \in Nat, Len(hops) > 0
    PROVE  Path(hops, Len(hops), ChainToFinal(hops))
<1> DEFINE n == Len(hops)
           f == Stages(hops)
           Bad == {k \in Nat : k \in 1..n /\ ~Path(hops, k, f[k])}
<1>1. Upto(hops, n, f)
  BY StagesUpto
<1> HIDE DEF f, n
<1>2. \A k \in 1..n : f[k] = Stage(hops, f, k)
  BY <1>1 DEF Upto
<1>3. ASSUME NEW k \in Bad PROVE \E y \in Bad : ~(k <= y)
  <2>0. k \in 1..n /\ k \in Nat /\ ~Path(hops, k, f[k])
    OBVIOUS
  <2>1. k # 1
    BY <1>2, <2>0, FirstHop DEF Stage
  <2>2. k - 1 \in Nat /\ k - 1 \in 1..n /\ (k - 1) + 1 = k /\ ~(k <= k - 1)
    BY <2>0, <2>1 DEF n
  <2>3. CASE Path(hops, k - 1, f[k - 1])
    <3>1. PICK l \in Layers : AskHop(hops[k - 1], k) = <<l>> /\ l.layer # "tls" /\ l.peer = k
      BY <2>0, AskHopLayer
    <3>2. Path(hops, (k - 1) + 1, (f[k - 1] \o <<l>>) \o TlsTo(hops, (k - 1) + 1))
      BY <2>2, <2>3, <3>1, NextHop
    <3>3. f[k] = (f[k - 1] \o <<l>>) \o TlsTo(hops, k)
      BY <1>2, <2>0, <2>1, <3>1 DEF Stage
    <3> QED
      BY <2>0, <2>2, <3>2, <3>3
  <2>4. CASE ~Path(hops, k - 1, f[k - 1])
    BY <2>2, <2>4
  <2> QED
    BY <2>3, <2>4
<1>4. Bad = {}
  <2> HIDE DEF Bad
  <2>1. Bad \in SUBSET Nat
    BY DEF Bad
  <2> QED
    BY <2>1, <1>3, Least
<1>5. n \in 1..n /\ n \in Nat
  BY DEF n
<1>6. Path(hops, n, f[n])
  BY <1>4, <1>5
<1> QED
  BY <1>6, ChainStages DEF f, n

-----------------------------------------------------------------------------
\* A finished transport: to the peer p along the hops.
Reaches(hops, u, p) ==
    Transport(u) /\ EndsAt(u, p) /\ AllPassed(hops, Len(hops), u)

\* The transport to the last hop.
LEMMA PathReaches ==
    ASSUME NEW hops, Len(hops) \in Nat, NEW u, Path(hops, Len(hops), u), Len(hops) # 0
    PROVE  Reaches(hops, u, Len(hops))
BY DEF Path, Reaches

\* A connection onwards from the last hop, or the TLS session with the peer reached.
LEMMA Onwards ==
    ASSUME NEW hops, Len(hops) \in Nat, NEW u, NEW p, Reaches(hops, u, p),
           NEW l \in Layers, l.layer = "tls" => l.peer = p
    PROVE  Reaches(hops, u \o <<l>>, l.peer)
<1>0. Transport(u) /\ EndsAt(u, p) /\ AllPassed(hops, Len(hops), u)
  BY DEF Reaches
<1>1. u \in Seq(Layers)
  BY <1>0 DEF Transport
<1>2. Transport(u \o <<l>>) /\ EndsAt(u \o <<l>>, l.peer)
  BY <1>0, Joined
<1>3. AllPassed(hops, Len(hops), u \o <<l>>)
  BY <1>0, <1>1, PassedStays DEF AllPassed
<1> QED
  BY <1>2, <1>3 DEF Reaches

\* The TLS session with the origin is the last layer.
LEMMA Secured ==
    ASSUME NEW hops, Len(hops) \in Nat, NEW u, Reaches(hops, u, Origin)
    PROVE  /\ Reaches(hops, u \o <<Tls(Origin)>>, Origin)
           /\ Last(u \o <<Tls(Origin)>>) = Tls(Origin)
<1>1. Tls(Origin) \in Layers /\ Tls(Origin).peer = Origin
  BY LayerFacts DEF Origin
<1>2. u \in Seq(Layers) /\ Len(u) \in Nat
  BY DEF Reaches, Transport
<1>3. Last(u \o <<Tls(Origin)>>) = Tls(Origin)
  BY <1>1, <1>2, OneMore DEF Last
<1> QED
  BY <1>1, <1>3, Onwards

\* A direct connection.
LEMMA DirectReaches == Reaches(<<>>, ConnectTcp(Origin), Origin)
<1>1. Tcp(0) \in Layers /\ Tcp(0).peer = 0 /\ Tcp(0).layer = "tcp"
  BY LayerFacts
<1>2. <<Tcp(0)>> \in Seq(Layers) /\ Len(<<Tcp(0)>>) = 1 /\ <<Tcp(0)>>[1] = Tcp(0)
  BY <1>1
<1> QED
  BY <1>1, <1>2 DEF Reaches, Transport, TlsWithPeer, EndsAt, AllPassed, ConnectTcp, Origin

-----------------------------------------------------------------------------
\* The routes that upstream_route returns.
RouteSound(route) ==
    \/ route = Direct
    \/ route = NoRoute
    \/ route.kind \in HopKinds /\ route.hops = <<route.kind>>
    \/ route.kind = "chain" /\ route.hops \in Seq(HopKinds) /\ Len(route.hops) > 1

\* An upstream action yields a route of one of these forms (upstream_route).
LEMMA ActionSound ==
    ASSUME NEW entries \in Seq(EntryKinds)
    PROVE  RouteSound(ActionRoute(entries))
<1>1. CASE Len(entries) > MaxHops
  BY <1>1 DEF ActionRoute, RouteSound
<1>2. CASE /\ ~(Len(entries) > MaxHops)
           /\ Len(entries) > 1 /\ \A i \in 1..Len(entries) : entries[i] # "bad"
  <2>1. entries \in Seq(HopKinds)
    <3>1. \A i \in 1..Len(entries) : entries[i] \in HopKinds
      BY <1>2 DEF EntryKinds
    <3>2. Len(entries) \in Nat /\ entries \in [1..Len(entries) -> HopKinds]
      BY <3>1
    <3> QED
      BY <3>2
  <2>2. ActionRoute(entries) = Chain(entries)
    BY <1>2 DEF ActionRoute
  <2> QED
    BY <1>2, <2>1, <2>2 DEF Chain, RouteSound
<1>3. CASE /\ ~(Len(entries) > MaxHops)
           /\ ~(Len(entries) > 1 /\ \A i \in 1..Len(entries) : entries[i] # "bad")
           /\ entries # <<>> /\ Head(entries) # "bad"
  <2>1. Head(entries) \in HopKinds
    BY <1>3 DEF EntryKinds
  <2>2. ActionRoute(entries) = Route(entries)
    BY <1>3 DEF ActionRoute
  <2> QED
    BY <2>1, <2>2 DEF Route, RouteSound
<1>4. CASE /\ ~(Len(entries) > MaxHops)
           /\ ~(Len(entries) > 1 /\ \A i \in 1..Len(entries) : entries[i] # "bad")
           /\ ~(entries # <<>> /\ Head(entries) # "bad")
  BY <1>4 DEF ActionRoute, RouteSound
<1> QED
  BY <1>1, <1>2, <1>3, <1>4

\* So does the first action that yields one (upstream_route).
LEMMA UpstreamSound ==
    ASSUME NEW actions \in Seq(Seq(EntryKinds))
    PROVE  RouteSound(UpstreamRoute(FALSE, actions))
<1> DEFINE usable == { i \in 1..Len(actions) : ActionRoute(actions[i]) # Direct }
           first == CHOOSE i \in usable : \A j \in usable : i <= j
<1>1. CASE usable = {}
  BY <1>1 DEF UpstreamRoute, RouteSound
<1>2. CASE usable # {}
  <2>1. usable \in SUBSET Nat
    OBVIOUS
  <2>2. \E i \in usable : \A j \in usable : i <= j
    <3> HIDE DEF usable
    <3> QED
      BY <1>2, <2>1, Least
  <2>3. first \in usable
    <3> HIDE DEF usable
    <3> QED
      BY <2>2
  <2>4. UpstreamRoute(FALSE, actions) = ActionRoute(actions[first])
    BY <1>2 DEF UpstreamRoute
  <2>5. first \in 1..Len(actions)
    <3> HIDE DEF first
    <3> QED
      BY <2>3
  <2> HIDE DEF first
  <2>6. actions[first] \in Seq(EntryKinds)
    BY <2>5
  <2> QED
    BY <2>4, <2>6, ActionSound
<1> QED
  BY <1>1, <1>2
-----------------------------------------------------------------------------
\* Three layers, whichever way they are put together.
LEMMA Regrouped ==
    ASSUME NEW a \in Layers, NEW b \in Layers, NEW c \in Layers
    PROVE  (<<a>> \o <<b>>) \o <<c>> = <<a>> \o <<b, c>>
<1> DEFINE x == <<a>> \o <<b>>
           y == x \o <<c>>
           z == <<a>> \o <<b, c>>
<1>1. <<a>> \in Seq(Layers) /\ <<b, c>> \in Seq(Layers) /\ Len(<<a>>) = 1 /\ <<a>>[1] = a
  OBVIOUS
<1>2. x \in Seq(Layers) /\ Len(x) = 2 /\ x[1] = a /\ x[2] = b
  OBVIOUS
<1> HIDE DEF x
<1>3. y \in Seq(Layers) /\ Len(y) = 3 /\ y[1] = a /\ y[2] = b /\ y[3] = c
  <2>1. /\ y \in Seq(Layers) /\ Len(y) = Len(x) + 1 /\ y[Len(x) + 1] = c
        /\ \A i \in 1..Len(x) : y[i] = x[i]
    BY <1>2, OneMore
  <2> HIDE DEF y
  <2> QED
    BY <1>2, <2>1
<1>4. z \in Seq(Layers) /\ Len(z) = 3 /\ z[1] = a /\ z[2] = b /\ z[3] = c
  OBVIOUS
<1> HIDE DEF y, z
<1>5. \A i \in 1..3 : y[i] = z[i]
  <2>1. \A i \in 1..3 : i = 1 \/ i = 2 \/ i = 3
    OBVIOUS
  <2> QED
    BY <1>3, <1>4, <2>1
<1>6. y = z
  <2>1. y = [i \in 1..3 |-> y[i]] /\ z = [i \in 1..3 |-> z[i]]
    BY <1>3, <1>4
  <2> QED
    BY <2>1, <1>5
<1> QED
  BY <1>6 DEF x, y, z

\* A single proxy is reached, over TLS when it is an https one.
LEMMA SingleHop ==
    ASSUME NEW kind \in HopKinds
    PROVE  /\ Len(<<kind>>) = 1
           /\ kind # "https" => Reaches(<<kind>>, ConnectTcp(1), 1)
           /\ kind = "https" => Reaches(<<kind>>, ConnectTcp(1) \o <<Tls(1)>>, 1)
<1> DEFINE hops == <<kind>>
<1>1. Len(hops) = 1 /\ hops[1] = kind
  OBVIOUS
<1>2. Path(hops, 1, ConnectTcp(1) \o TlsTo(hops, 1))
  BY FirstHop
<1>3. Reaches(hops, ConnectTcp(1) \o TlsTo(hops, 1), 1)
  <2> DEFINE u == ConnectTcp(1) \o TlsTo(hops, 1)
  <2>1. Len(hops) \in Nat /\ Len(hops) # 0 /\ Path(hops, Len(hops), u)
    BY <1>1, <1>2
  <2> HIDE DEF hops, u
  <2>2. Reaches(hops, u, Len(hops))
    BY <2>1, PathReaches
  <2> QED
    BY <1>1, <2>2 DEF u
<1>4. ConnectTcp(1) \in Seq(Layers)
  BY LayerFacts DEF ConnectTcp
<1>5. kind # "https" => ConnectTcp(1) \o TlsTo(hops, 1) = ConnectTcp(1)
  BY <1>1, <1>4 DEF TlsTo
<1>6. kind = "https" => TlsTo(hops, 1) = <<Tls(1)>>
  BY <1>1 DEF TlsTo
<1> QED
  BY <1>1, <1>3, <1>5, <1>6

\* What connect_tunnel_upstream_recorded does with each kind of route.
LEMMA TunnelCases ==
    ASSUME NEW route
    PROVE  /\ route.kind = "direct" => TunnelUpstream(route) = ConnectTcp(Origin)
           /\ route.kind = "socks5" => TunnelUpstream(route) = ConnectTcp(1) \o <<Socks(Origin)>>
           /\ route.kind = "http" => TunnelUpstream(route) = ConnectTcp(1) \o <<ProxyConnect(Origin)>>
           /\ route.kind = "https" =>
                TunnelUpstream(route) = ConnectTcp(1) \o <<Tls(1), ProxyConnect(Origin)>>
           /\ route.kind = "chain" =>
                TunnelUpstream(route) = ChainToFinal(route.hops) \o AskHop(Last(route.hops), Origin)
BY DEF TunnelUpstream

\* A tunnel ends at the origin.
LEMMA TunnelReaches ==
    ASSUME NEW route, RouteSound(route), route # NoRoute
    PROVE  Reaches(route.hops, TunnelUpstream(route), Origin)
<1>0. Origin = 0 /\ Origin \in Nat
  BY DEF Origin
<1>1. CASE route = Direct
  BY <1>1, DirectReaches, TunnelCases DEF Direct
<1>2. CASE route.kind \in HopKinds /\ route.hops = <<route.kind>>
  <2> DEFINE k == route.kind
  <2>0. Len(<<k>>) = 1 /\ k \in {"http", "https", "socks5"}
    BY <1>2 DEF HopKinds
  <2>1. /\ Socks(0) \in Layers /\ Socks(0).layer = "socks" /\ Socks(0).peer = 0
        /\ ProxyConnect(0) \in Layers /\ ProxyConnect(0).layer = "connect"
        /\ ProxyConnect(0).peer = 0
    BY LayerFacts
  <2>2. CASE k = "http"
    <3>1. Reaches(<<k>>, ConnectTcp(1), 1)
      BY <1>2, <2>2, SingleHop
    <3>2. Reaches(<<k>>, ConnectTcp(1) \o <<ProxyConnect(0)>>, 0)
      BY <2>0, <2>1, <3>1, Onwards
    <3> QED
      BY <1>0, <1>2, <2>2, <3>2, TunnelCases
  <2>3. CASE k = "socks5"
    <3>1. Reaches(<<k>>, ConnectTcp(1), 1)
      BY <1>2, <2>3, SingleHop
    <3>2. Reaches(<<k>>, ConnectTcp(1) \o <<Socks(0)>>, 0)
      BY <2>0, <2>1, <3>1, Onwards
    <3> QED
      BY <1>0, <1>2, <2>3, <3>2, TunnelCases
  <2>4. CASE k = "https"
    <3>1. Reaches(<<k>>, ConnectTcp(1) \o <<Tls(1)>>, 1)
      BY <1>2, <2>4, SingleHop
    <3>2. Reaches(<<k>>, (ConnectTcp(1) \o <<Tls(1)>>) \o <<ProxyConnect(0)>>, 0)
      BY <2>0, <2>1, <3>1, Onwards
    <3>3. (ConnectTcp(1) \o <<Tls(1)>>) \o <<ProxyConnect(0)>>
            = ConnectTcp(1) \o <<Tls(1), ProxyConnect(0)>>
      <4>1. Tcp(1) \in Layers /\ Tls(1) \in Layers
        BY LayerFacts
      <4> QED
        BY <2>1, <4>1, Regrouped DEF ConnectTcp
    <3> QED
      BY <1>0, <1>2, <2>4, <3>2, <3>3, TunnelCases
  <2> QED
    BY <2>0, <2>2, <2>3, <2>4
<1>3. CASE route.kind = "chain" /\ route.hops \in Seq(HopKinds) /\ Len(route.hops) > 1
  <2> DEFINE hops == route.hops
  <2>1. Len(hops) \in Nat /\ Len(hops) > 0
    BY <1>3
  <2>2. Reaches(hops, ChainToFinal(hops), Len(hops))
    BY <2>1, ChainReaches, PathReaches
  <2>3. PICK l \in Layers : AskHop(Last(hops), Origin) = <<l>> /\ l.layer # "tls" /\ l.peer = Origin
    BY <1>0, AskHopLayer
  <2>4. Reaches(hops, ChainToFinal(hops) \o <<l>>, Origin)
    BY <2>1, <2>2, <2>3, Onwards
  <2> QED
    BY <1>3, <2>3, <2>4, TunnelCases
<1> QED
  BY <1>1, <1>2, <1>3 DEF RouteSound

\* What connect_upstream_stream does with each kind of route.
LEMMA StreamCases ==
    ASSUME NEW scheme \in {"http", "https"}, NEW route
    PROVE  /\ route.kind \in {"http", "https", "chain"} /\ scheme = "https" =>
                UpstreamStream(scheme, route) = TunnelUpstream(route) \o <<Tls(Origin)>>
           /\ route.kind = "chain" /\ scheme = "http" =>
                UpstreamStream(scheme, route) =
                    ChainToFinal(route.hops)
                      \o (IF Last(route.hops) = "socks5" THEN <<Socks(Origin)>> ELSE <<>>)
           /\ route.kind = "direct" =>
                UpstreamStream(scheme, route) =
                    ConnectTcp(Origin) \o (IF scheme = "https" THEN <<Tls(Origin)>> ELSE <<>>)
           /\ route.kind = "socks5" =>
                UpstreamStream(scheme, route) =
                    (ConnectTcp(1) \o <<Socks(Origin)>>)
                       \o (IF scheme = "https" THEN <<Tls(Origin)>> ELSE <<>>)
           /\ route.kind = "http" /\ scheme = "http" =>
                UpstreamStream(scheme, route) = ConnectTcp(1)
           /\ route.kind = "https" /\ scheme = "http" =>
                UpstreamStream(scheme, route) = ConnectTcp(1) \o <<Tls(1)>>
<1>0. \A a : <<a>> \o <<>> = <<a>>
  OBVIOUS
<1>1. \A p : ConnectTcp(p) \o <<>> = ConnectTcp(p)
  BY <1>0 DEF ConnectTcp
<1>2. CASE route.kind \in {"http", "https", "chain"} /\ scheme = "https"
  BY <1>2 DEF UpstreamStream, UsesProxyTunnel
<1>3. CASE route.kind = "chain" /\ scheme = "http"
  BY <1>3 DEF UpstreamStream, UsesProxyTunnel
<1>4. CASE route.kind = "direct"
  <2>1. ~UsesProxyTunnel(scheme, route) /\ (OriginTlsSupported(scheme, route) <=> scheme = "https")
    BY <1>4 DEF UsesProxyTunnel, OriginTlsSupported
  <2>2. UpstreamStream(scheme, route) =
          (ConnectTcp(Origin) \o <<>>) \o (IF scheme = "https" THEN <<Tls(Origin)>> ELSE <<>>)
    BY <1>4, <2>1 DEF UpstreamStream
  <2> QED
    BY <1>1, <1>4, <2>2
<1>5. CASE route.kind = "socks5"
  <2>1. ~UsesProxyTunnel(scheme, route) /\ (OriginTlsSupported(scheme, route) <=> scheme = "https")
    BY <1>5 DEF UsesProxyTunnel, OriginTlsSupported
  <2> QED
    BY <1>5, <2>1 DEF UpstreamStream
<1>6. CASE route.kind = "http" /\ scheme = "http"
  <2>1. ~UsesProxyTunnel(scheme, route) /\ ~OriginTlsSupported(scheme, route)
    BY <1>6 DEF UsesProxyTunnel, OriginTlsSupported
  <2>2. UpstreamStream(scheme, route) = (ConnectTcp(1) \o <<>>) \o <<>>
    BY <1>6, <2>1 DEF UpstreamStream
  <2> QED
    BY <1>1, <1>6, <2>2
<1>7. CASE route.kind = "https" /\ scheme = "http"
  <2>1. ~UsesProxyTunnel(scheme, route)
    BY <1>7 DEF UsesProxyTunnel
  <2>2. UpstreamStream(scheme, route) = (ConnectTcp(1) \o <<>>) \o <<Tls(1)>>
    BY <1>7, <2>1 DEF UpstreamStream
  <2> QED
    BY <1>1, <1>7, <2>2
<1> QED
  BY <1>2, <1>3, <1>4, <1>5, <1>6, <1>7

\* The transport of a forwarded request.
Forwards(scheme, route, u) ==
    /\ Reaches(route.hops, u, IF UsesAbsoluteForm(scheme, route) THEN Len(route.hops) ELSE Origin)
    /\ scheme = "https" => Last(u) = Tls(Origin)

\* A forwarded request gets to the origin or, in absolute form, to the last proxy.
LEMMA StreamReaches ==
    ASSUME NEW scheme \in {"http", "https"}, NEW route, RouteSound(route), route # NoRoute
    PROVE  Forwards(scheme, route, UpstreamStream(scheme, route))
<1> DEFINE hops == route.hops
           u == UpstreamStream(scheme, route)
<1>0. Origin = 0 /\ Origin \in Nat
  BY DEF Origin
<1>1. Len(hops) \in Nat
  BY DEF RouteSound, Direct
<1>2. ASSUME route.kind \in {"http", "https", "chain"}, scheme = "https"
      PROVE  Forwards(scheme, route, u)
  <2>1. Reaches(hops, TunnelUpstream(route), Origin)
    BY TunnelReaches
  <2>2. ~UsesAbsoluteForm(scheme, route)
    BY <1>2 DEF UsesAbsoluteForm, UsesProxyTunnel
  <2>3. u = TunnelUpstream(route) \o <<Tls(Origin)>>
    BY <1>2, StreamCases
  <2>4. Reaches(hops, u, Origin) /\ Last(u) = Tls(Origin)
    BY <1>1, <2>1, <2>3, Secured
  <2> QED
    BY <2>2, <2>4 DEF Forwards
<1>3. ASSUME ~UsesAbsoluteForm(scheme, route), NEW v, v \in Seq(Layers), Reaches(hops, v, Origin),
             u = v \o (IF scheme = "https" THEN <<Tls(Origin)>> ELSE <<>>)
      PROVE  Forwards(scheme, route, u)
  <2>1. CASE scheme = "https"
    <3>1. u = v \o <<Tls(Origin)>>
      BY <1>3, <2>1
    <3>2. Reaches(hops, u, Origin) /\ Last(u) = Tls(Origin)
      BY <1>1, <1>3, <3>1, Secured
    <3> QED
      BY <1>3, <3>2 DEF Forwards
  <2>2. CASE scheme # "https"
    <3>1. u = v \o <<>>
      BY <1>3, <2>2
    <3>2. v \o <<>> = v
      BY <1>3
    <3> QED
      BY <1>3, <2>2, <3>1, <3>2 DEF Forwards
  <2> QED
    BY <2>1, <2>2
<1> HIDE DEF u
<1>4. CASE route = Direct
  <2>1. route.kind = "direct" /\ hops = <<>>
    BY <1>4 DEF Direct
  <2>2. ConnectTcp(Origin) \in Seq(Layers)
    BY <1>0, LayerFacts DEF ConnectTcp
  <2>3. ~UsesAbsoluteForm(scheme, route)
    BY <2>1 DEF UsesAbsoluteForm
  <2>4. u = ConnectTcp(Origin) \o (IF scheme = "https" THEN <<Tls(Origin)>> ELSE <<>>)
    BY <2>1, StreamCases DEF u
  <2>5. Reaches(hops, ConnectTcp(Origin), Origin)
    BY <2>1, DirectReaches
  <2> QED
    BY <1>3, <2>2, <2>3, <2>4, <2>5 DEF u
<1>5. CASE route.kind \in HopKinds /\ route.hops = <<route.kind>>
  <2> DEFINE k == route.kind
  <2>0. Len(hops) = 1 /\ k \in {"http", "https", "socks5"}
    BY <1>5 DEF HopKinds
  <2>1. CASE k = "socks5"
    <3>1. Reaches(hops, ConnectTcp(1), 1)
      BY <1>5, <2>1, SingleHop
    <3>2. Socks(0) \in Layers /\ Socks(0).layer = "socks" /\ Socks(0).peer = 0
      BY LayerFacts
    <3>3. Reaches(hops, ConnectTcp(1) \o <<Socks(0)>>, 0)
      BY <1>1, <3>1, <3>2, Onwards
    <3>4. ConnectTcp(1) \o <<Socks(0)>> \in Seq(Layers)
      BY <3>3 DEF Reaches, Transport
    <3>5. ~UsesAbsoluteForm(scheme, route)
      BY <2>1 DEF UsesAbsoluteForm
    <3>6. u = (ConnectTcp(1) \o <<Socks(Origin)>>)
                \o (IF scheme = "https" THEN <<Tls(Origin)>> ELSE <<>>)
      BY <2>1, StreamCases DEF u
    <3> QED
      BY <1>0, <1>3, <3>3, <3>4, <3>5, <3>6 DEF u
  <2>2. CASE k \in {"http", "https"} /\ scheme = "http"
    <3>1. UsesAbsoluteForm(scheme, route)
      BY <2>2 DEF UsesAbsoluteForm, UsesProxyTunnel
    <3>2. Reaches(hops, u, 1)
      BY <1>5, <2>2, SingleHop, StreamCases DEF u
    <3> QED
      BY <2>0, <2>2, <3>1, <3>2 DEF Forwards, u
  <2> QED
    BY <1>2, <2>0, <2>1, <2>2 DEF u
<1>6. CASE route.kind = "chain" /\ route.hops \in Seq(HopKinds) /\ Len(route.hops) > 1
  <2>1. Reaches(hops, ChainToFinal(hops), Len(hops))
    BY <1>1, <1>6, ChainReaches, PathReaches
  <2>2. ChainToFinal(hops) \in Seq(Layers)
    BY <2>1 DEF Reaches, Transport
  <2>3. CASE scheme = "http" /\ Last(hops) = "socks5"
    <3>1. Socks(0) \in Layers /\ Socks(0).layer = "socks" /\ Socks(0).peer = 0
      BY LayerFacts
    <3>2. Reaches(hops, ChainToFinal(hops) \o <<Socks(0)>>, 0)
      BY <1>1, <2>1, <3>1, Onwards
    <3>3. u = ChainToFinal(hops) \o <<Socks(0)>>
      BY <1>0, <1>6, <2>3, StreamCases DEF u
    <3>4. ~UsesAbsoluteForm(scheme, route)
      BY <1>6, <2>3 DEF UsesAbsoluteForm
    <3> QED
      BY <1>0, <2>3, <3>2, <3>3, <3>4 DEF Forwards, u
  <2>4. CASE scheme = "http" /\ Last(hops) # "socks5"
    <3>1. u = ChainToFinal(hops) \o <<>>
      BY <1>6, <2>4, StreamCases DEF u
    <3>2. ChainToFinal(hops) \o <<>> = ChainToFinal(hops)
      BY <2>2
    <3>3. Last(hops) \in {"http", "https"}
      BY <1>6, <2>4 DEF Last, HopKinds
    <3>4. UsesAbsoluteForm(scheme, route)
      BY <1>6, <2>4, <3>3 DEF UsesAbsoluteForm, UsesProxyTunnel
    <3> QED
      BY <2>1, <2>4, <3>1, <3>2, <3>4 DEF Forwards, u
  <2> QED
    BY <1>2, <1>6, <2>3, <2>4 DEF u
<1> QED
  BY <1>4, <1>5, <1>6 DEF RouteSound
-----------------------------------------------------------------------------
\* What a thread knows of its route: it is one that upstream_route returns, and the
\* transport in hand was built along it.
RouteInv(t) ==
    t.pc # "done" =>
        /\ RouteSound(t.route)
        /\ t.pc = "dialled" => t.route # NoRoute /\ t.layers = TunnelUpstream(t.route)
        /\ t.pc = "request" =>
              \/ t.layers = <<>>
              \/ t.route # NoRoute /\ t.layers = UpstreamStream(InnerScheme(t), t.route)

\* A step after which the thread has no transport in hand.
Undialled(u, t) == u.pc = "done" \/ (u.route = t.route /\ u.pc \notin {"dialled", "request"})

\* Such a step keeps what is known of the route.
LEMMA RouteCarried ==
    ASSUME NEW t, NEW u, RouteInv(t), t.pc # "done", Undialled(u, t)
    PROVE  RouteInv(u)
BY DEF RouteInv, Undialled

\* Every step but the decision, the dial of a tunnel and the head of a request.
LEMMA UndialledStep ==
    ASSUME NEW c \in Conns, Table, IsThread(conn[c]), Thread(c),
           \A req \in Requests(connects + 1) : ~Decide(c, req),
           ~Passthrough(c), ~InnerHead(c)
    PROVE  conn[c].pc # "done" /\ Undialled(conn'[c], conn[c])
<1>1. ASSUME NEW t, NEW end PROVE Return(t, end).pc = "done"
  BY DEF Return, Idle
<1>2. ASSUME NEW t, NEW status, NEW end PROVE Finish(t, status, end).pc = "done"
  BY <1>1 DEF Finish
<1>3. ASSUME NEW u, conn' = [conn EXCEPT ![c] = u] PROVE conn'[c] = u
  BY <1>3 DEF Table
<1>4. CASE Greet(c)
  <2> DEFINE w == Write(conn[c], 200)
             go == [w EXCEPT !.pc = "probe"]
             cut == Return(conn[c], "write-failed")
             late == Return(w, "expired")
  <2>1. IsThread(w) /\ w.route = conn[c].route
    BY WriteFacts DEF Sent
  <2>2. cut.pc = "done" /\ late.pc = "done"
    BY <1>1
  <2>3. \/ conn' = [conn EXCEPT ![c] = go] \/ conn' = [conn EXCEPT ![c] = cut]
        \/ conn' = [conn EXCEPT ![c] = late]
    BY <1>4 DEF Greet
  <2> HIDE DEF w
  <2>4. go.pc = "probe" /\ go.route = conn[c].route
    BY <2>1 DEF IsThread, Threads
  <2> HIDE DEF go, cut, late
  <2>5. conn'[c] = go \/ conn'[c] = cut \/ conn'[c] = late
    BY <2>3 DEF Table
  <2> QED
    BY <1>4, <2>2, <2>4, <2>5 DEF Greet, Undialled
<1>5. CASE Arrive(c)
  <2>1. conn'[c] = [conn[c] EXCEPT !.got = @ + 1] /\ conn[c].pc = "probe"
    BY <1>5 DEF Arrive, Table
  <2>2. conn'[c].pc = "probe" /\ conn'[c].route = conn[c].route
    BY <2>1 DEF IsThread, Threads
  <2> QED
    BY <2>1, <2>2 DEF Undialled
<1>6. CASE Probe(c)
  <2> DEFINE t == conn[c]
             seen == ClassifyPrefix(SubSeq(t.input, 1, t.got))
             nexts ==
             (IF t.got = 0 THEN {Finish(Turn(t, "probe", "closed"), 200, "closed")}
              ELSE CASE seen = "tls" -> {Turn(t, "config", "tls")}
                     [] seen = "http" -> {Turn(t, "inner", "http")}
                     [] seen = "unknown" -> {Turn(t, "route", "unknown")}
                     [] seen = "more" -> {})
             \cup {Turn(t, "route", "timeout"), Finish(t, 502, "probe-error"),
                   Finish(t, 504, "total-timeout")}
  <2>1. conn' \in { [conn EXCEPT ![c] = next] : next \in nexts }
    BY <1>6, Zenon DEF Probe, Turn
  <2> HIDE DEF nexts
  <2>2. PICK u \in nexts : conn'[c] = u
    BY <2>1 DEF Table
  <2>3. seen \in {"tls", "http", "unknown", "more"}
    BY Zenon DEF ClassifyPrefix, ClassifyTarget
  <2> HIDE DEF seen
  <2>4. \A pc, p : Turn(t, pc, p).pc = pc /\ Turn(t, pc, p).route = t.route
    BY DEF Turn, IsThread, Threads
  <2>5. \A pc \in {"config", "inner", "route"} : \A p : Undialled(Turn(t, pc, p), t)
    BY <2>4 DEF Undialled
  <2>6. \A x, status, end : Undialled(Finish(x, status, end), t)
    BY <1>2 DEF Undialled
  <2>7. Undialled(u, t)
    BY <2>2, <2>3, <2>5, <2>6 DEF nexts
  <2> QED
    BY <1>6, <2>2, <2>7 DEF Probe
<1>8. CASE Tunnel(c)
  <2>1. conn[c].pc = "dialled"
    BY <1>8 DEF Tunnel
  <2>2. conn'[c].pc = "done"
    BY <1>1, <1>2, <1>3, <1>8 DEF Tunnel, Abandon
  <2> QED
    BY <2>1, <2>2 DEF Undialled
<1>9. CASE LookupConfig(c)
  <2>1. conn[c].pc = "config"
    BY <1>9 DEF LookupConfig
  <2>2. /\ conn'[c].pc \in {"handshake", "load-chain", "write-cert"}
        /\ conn'[c].route = conn[c].route
    BY <1>9 DEF LookupConfig, Table, IsThread, Threads
  <2> QED
    BY <2>1, <2>2 DEF Undialled
<1>10. CASE WriteLeaf(c)
  <2>1. PICK from, to, f :
           /\ LeafStep(c, from, to, f) /\ from \in WriteSteps
           /\ to \in WriteSteps \cup {"load-chain"}
    BY <1>10 DEF WriteLeaf, WriteSteps
  <2>2. conn[c].pc = from /\ conn'[c] = [conn[c] EXCEPT !.pc = to]
    BY <2>1 DEF LeafStep, Table
  <2>3. conn'[c].pc = to /\ conn'[c].route = conn[c].route
    BY <2>2 DEF IsThread, Threads
  <2> QED
    BY <2>1, <2>2, <2>3 DEF Undialled, WriteSteps
<1>11. CASE WriteLeafFails(c)
  <2>1. /\ conn' = [conn EXCEPT ![c] = Finish(conn[c], 502, "setup-failed")]
        /\ conn[c].pc \in WriteSteps
    BY <1>11, Zenon DEF WriteLeafFails, SetupFailed
  <2>2. PICK u : u = Finish(conn[c], 502, "setup-failed")
    OBVIOUS
  <2>3. conn'[c] = u
    BY <2>1, <2>2 DEF Table
  <2>4. u.pc = "done"
    BY <1>2, <2>2
  <2> QED
    BY <2>1, <2>3, <2>4 DEF Undialled, WriteSteps
<1>12. CASE LoadChain(c)
  <2>1. conn'[c].pc = "load-key" /\ conn'[c].route = conn[c].route /\ conn[c].pc = "load-chain"
    BY <1>12 DEF LoadChain, Table, IsThread, Threads
  <2> QED
    BY <2>1 DEF Undialled
<1>13. CASE LoadKey(c)
  <2>1. conn[c].pc = "load-key"
    BY <1>13 DEF LoadKey
  <2>2. \/ conn'[c].pc = "done"
        \/ conn'[c].pc = "handshake" /\ conn'[c].route = conn[c].route
    BY <1>2, <1>3, <1>13 DEF LoadKey, SetupFailed, Table, IsThread, Threads
  <2> QED
    BY <2>1, <2>2 DEF Undialled
<1>14. CASE HandshakeFails(c)
  <2>1. conn[c].pc = "handshake"
    BY <1>14 DEF HandshakeFails
  <2>2. conn'[c].pc = "done"
    BY <1>2, <1>3, <1>14 DEF HandshakeFails
  <2> QED
    BY <2>1, <2>2 DEF Undialled
<1>15. CASE HandshakeSucceeds(c)
  <2>1. conn[c].pc = "handshake"
    BY <1>15 DEF HandshakeSucceeds
  <2>2. \/ conn'[c].pc = "done"
        \/ conn'[c].pc = "inner" /\ conn'[c].route = conn[c].route
    BY <1>1, <1>3, <1>15 DEF HandshakeSucceeds, Table, IsThread, Threads
  <2> QED
    BY <2>1, <2>2 DEF Undialled
<1>17. CASE InnerRequest(c)
  <2>1. conn[c].pc = "request"
    BY <1>17 DEF InnerRequest
  <2>2. \/ conn'[c].pc = "done"
        \/ conn'[c].pc = "inner" /\ conn'[c].route = conn[c].route
    BY <1>1, <1>2, <1>3, <1>17 DEF InnerRequest, Table, IsThread, Threads
  <2> QED
    BY <2>1, <2>2 DEF Undialled
<1> QED
  BY <1>4, <1>5, <1>6, <1>8, <1>9, <1>10, <1>11, <1>12, <1>13, <1>14, <1>15, <1>17 DEF Thread

\* The decision gives a thread a route that its rules resolve to (connect.rs handle_connect).
LEMMA DecideRoute ==
    ASSUME NEW c \in Conns, Table, connects \in Nat,
           NEW req \in Requests(connects + 1), Decide(c, req)
    PROVE  RouteInv(conn'[c])
<1> DEFINE k == HostKey[req.host]
           asked == ~config.noMitm /\ ~req.bypass /\ config.ca /\ ~config.strict
           reason == CASE config.noMitm -> "disabled"
                       [] ~config.noMitm /\ req.bypass -> "bypass"
                       [] ~config.noMitm /\ ~req.bypass /\ ~config.ca -> "no-ca"
                       [] asked /\ IsActive(failures, k) -> "remembered"
                       [] OTHER -> "inspect"
           ago == IF failed[k] = Never THEN FailureTtl ELSE clock - failed[k]
           crowded == Cardinality(usedSince[k]) >= FailureCapacity
           route == UpstreamRoute(FALSE, req.actions)
           pc == IF reason = "inspect" THEN "greet" ELSE "route"
           u == [Idle EXCEPT !.id = connects + 1, !.host = req.host, !.parses = req.parses,
                             !.hidden = req.hidden, !.reason = reason, !.input = req.input, !.route = route,
                             !.failedAgo = ago, !.crowded = crowded, !.pc = pc]
<1>1. connects + 1 \in 1..MaxConnects
  BY ConnectAssumption DEF Decide
<1>2. req.actions \in Seq(Seq(EntryKinds))
  BY <1>1, RequestsAssumption
<1>3. RouteSound(UpstreamRoute(FALSE, req.actions))
  BY <1>2, UpstreamSound
<1>4. Becomes(c, u)
  BY Zenon DEF Decide, Becomes
<1>5. RouteSound(route) /\ pc \in {"greet", "route"}
  BY <1>3
<1> HIDE DEF reason, ago, crowded, route, pc
<1>6. u.route = route /\ u.pc = pc
  BY DEF Idle
<1> HIDE DEF u
<1>7. conn'[c] = u
  BY <1>4 DEF Becomes, Table
<1> QED
  BY <1>5, <1>6, <1>7 DEF RouteInv

\* The dial of a tunnel leaves the transport it has built (handle_passthrough).
LEMMA PassthroughRoute ==
    ASSUME NEW c \in Conns, Table, IsThread(conn[c]), RouteInv(conn[c]), Passthrough(c)
    PROVE  RouteInv(conn'[c])
<1> DEFINE t == Begin(conn[c])
           dialled == [t EXCEPT !.pc = "dialled", !.layers = TunnelUpstream(t.route)]
<1>1. IsThread(t) /\ t.route = conn[c].route /\ conn[c].pc = "route"
  BY BeginFacts DEF SameButSession, Passthrough
<1>2. \A e, s : FinishUpstreamError(t, e, s).pc = "done"
  BY DEF FinishUpstreamError, Finish, Return, Idle
<1>3. \/ \E e, s : conn' = [conn EXCEPT ![c] = FinishUpstreamError(t, e, s)]
      \/ t.route # NoRoute /\ conn' = [conn EXCEPT ![c] = dialled]
      \/ conn' = [conn EXCEPT ![c] = Abandon(t, "bad-target")]
  BY Zenon DEF Passthrough
<1>3a. Abandon(t, "bad-target").pc = "done"
  BY DEF Abandon, Return, Idle
<1> HIDE DEF t
<1>4. PICK layers : layers = TunnelUpstream(t.route)
  OBVIOUS
<1>5. dialled = [t EXCEPT !.pc = "dialled", !.layers = layers]
  BY <1>4
<1> HIDE DEF dialled
<1>6. dialled.pc = "dialled" /\ dialled.layers = layers /\ dialled.route = t.route
  BY <1>1, <1>5 DEF IsThread, Threads
<1>7. \/ \E e, s : conn'[c] = FinishUpstreamError(t, e, s)
      \/ t.route # NoRoute /\ conn'[c] = dialled
      \/ conn'[c] = Abandon(t, "bad-target")
  BY <1>3 DEF Table
<1>8. RouteSound(t.route)
  BY <1>1 DEF RouteInv
<1>9. CASE conn'[c].pc = "done"
  BY <1>9 DEF RouteInv
<1>10. CASE t.route # NoRoute /\ conn'[c] = dialled
  BY <1>4, <1>6, <1>8, <1>10 DEF RouteInv
<1> QED
  BY <1>2, <1>3a, <1>7, <1>9, <1>10

\* The head of a request inside a tunnel: the transport it is written to
\* (inner_http.rs serve, connect_upstream_stream).
LEMMA InnerHeadRoute ==
    ASSUME NEW c \in Conns, Table, IsThread(conn[c]), RouteInv(conn[c]), InnerHead(c)
    PROVE  RouteInv(conn'[c])
<1> DEFINE t == conn[c]
           layers == IF t.route = NoRoute THEN <<>> ELSE UpstreamStream(InnerScheme(t), t.route)
           own(status) == IF t.inner = 0 THEN Finish(t, status, "inner-ended")
                          ELSE Return(t, "inner-ended")
<1>1. \A status : own(status).pc = "done"
  BY DEF Finish, Return, Idle
<1>2. \/ \E status \in {200, 400, 502} : conn' = [conn EXCEPT ![c] = own(status)]
      \/ conn' = [conn EXCEPT ![c].pc = "request", ![c].layers = layers]
  BY Zenon DEF InnerHead
<1>3. RouteSound(t.route)
  BY DEF RouteInv, InnerHead
<1>4. PICK ls : ls = layers
  OBVIOUS
<1> HIDE DEF own
<1>5. CASE \E status \in {200, 400, 502} : conn' = [conn EXCEPT ![c] = own(status)]
  <2>1. \E status : conn'[c] = own(status)
    BY <1>5 DEF Table
  <2> QED
    BY <1>1, <2>1 DEF RouteInv
<1>6. CASE conn' = [conn EXCEPT ![c].pc = "request", ![c].layers = layers]
  <2> HIDE DEF layers
  <2>1. conn'[c] = [conn[c] EXCEPT !.pc = "request", !.layers = ls]
    BY <1>4, <1>6 DEF Table
  <2>2. /\ conn'[c].pc = "request" /\ conn'[c].layers = ls /\ conn'[c].route = t.route
        /\ conn'[c].protocol = t.protocol
    BY <2>1 DEF IsThread, Threads
  <2>3. InnerScheme(conn'[c]) = InnerScheme(t)
    BY <2>2 DEF InnerScheme
  <2>4. ls = <<>> \/ (t.route # NoRoute /\ ls = UpstreamStream(InnerScheme(t), t.route))
    BY <1>4, Zenon DEF layers
  <2> QED
    BY <1>3, <2>2, <2>3, <2>4 DEF RouteInv
<1> QED
  BY <1>2, <1>5, <1>6

\* Every thread has a sound route and builds its transports along it.
RoutesInv == \A c \in Conns : RouteInv(conn[c])

\* No step of a thread, no crash and no tick disturbs the routes.
LEMMA RoutesNext == ConnectInv /\ RoutesInv /\ [Next]_vars => RoutesInv'
<1> SUFFICES ASSUME ConnectInv, RoutesInv, [Next]_vars PROVE RoutesInv'
  OBVIOUS
<1>0. Table /\ connects \in Nat /\ \A c \in Conns : IsThread(conn[c])
  BY DEF ConnectInv, Counters, ThreadsInv, ThreadInv
<1>1. ASSUME NEW c \in Conns, Thread(c) PROVE RoutesInv'
  <2>1. RouteInv(conn'[c])
    <3>1. CASE \E req \in Requests(connects + 1) : Decide(c, req)
      BY <1>0, <3>1, DecideRoute
    <3>2. CASE Passthrough(c)
      BY <1>0, <3>2, PassthroughRoute DEF RoutesInv
    <3>3. CASE InnerHead(c)
      BY <1>0, <3>3, InnerHeadRoute DEF RoutesInv
    <3>4. CASE /\ \A req \in Requests(connects + 1) : ~Decide(c, req)
               /\ ~Passthrough(c) /\ ~InnerHead(c)
      <4>1. conn[c].pc # "done" /\ Undialled(conn'[c], conn[c])
        BY <1>0, <1>1, <3>4, UndialledStep
      <4>2. RouteInv(conn[c])
        BY DEF RoutesInv
      <4> QED
        BY <4>1, <4>2, RouteCarried
    <3> QED
      BY <3>1, <3>2, <3>3, <3>4
  <2>2. \A d \in Conns \ {c} : conn'[d] = conn[d]
    BY <1>0, <1>1, OwnStep
  <2>3. ASSUME NEW d \in Conns PROVE RouteInv(conn'[d])
    <3>1. CASE d = c
      BY <2>1, <3>1
    <3>2. CASE d # c
      <4>1. conn'[d] = conn[d] /\ RouteInv(conn[d])
        BY <2>2, <3>2 DEF RoutesInv
      <4> QED
        BY <4>1
    <3> QED
      BY <3>1, <3>2
  <2> QED
    BY <2>3 DEF RoutesInv
<1>2. CASE Crash
  <2>1. \A c \in Conns : conn'[c] = Idle
    BY <1>2 DEF Crash
  <2>2. RouteInv(Idle)
    BY DEF RouteInv, Idle, RouteSound
  <2>3. ASSUME NEW c \in Conns PROVE RouteInv(conn'[c])
    BY <2>1, <2>2
  <2> QED
    BY <2>3 DEF RoutesInv
<1>3. CASE Tick \/ UNCHANGED vars
  <2>1. conn' = conn
    BY <1>3 DEF Tick, vars
  <2> QED
    BY <2>1 DEF RoutesInv
<1> QED
  BY <1>1, <1>2, <1>3 DEF Next

\* Every transport leads where its route says: for every rule outcome and chain of hops, a
\* tunnel ends at the origin and a forwarded request at the origin or, in absolute form, at the
\* last proxy; every hop is passed in order, TLS is spoken with a hop exactly behind its own
\* connection, and with the origin whenever it is https (connect.rs, connect_proxy.rs).
THEOREM RoutesReached == Spec => []RouteReached
<1>1. Init => RoutesInv
  BY DEF Init, RoutesInv, RouteInv, Idle, RouteSound
<1>2. RoutesInv => RouteReached
  <2> SUFFICES ASSUME RoutesInv, NEW c \in Conns, conn[c].layers # <<>>,
                      conn[c].pc \in {"dialled", "request"}
               PROVE  LET t == conn[c]
                          scheme == InnerScheme(t)
                          absolute == UsesAbsoluteForm(scheme, t.route)
                      IN  /\ TlsWithPeer(t.layers) /\ HopsPassed(t.route, t.layers)
                          /\ t.pc = "dialled" => PeerOf(t.layers) = Origin
                          /\ t.pc = "request" =>
                               /\ PeerOf(t.layers) = IF absolute THEN Len(t.route.hops) ELSE Origin
                               /\ scheme = "https" => Last(t.layers) = Tls(Origin)
    BY DEF RouteReached
  <2> DEFINE t == conn[c]
  <2>0. RouteInv(t)
    BY DEF RoutesInv
  <2>1. PICK hops, u : hops = t.route.hops /\ u = t.layers
    OBVIOUS
  <2>2. ASSUME NEW p, Reaches(hops, u, p)
        PROVE  TlsWithPeer(u) /\ HopsPassed(t.route, u) /\ PeerOf(u) = p
    <3>1. TlsWithPeer(u) /\ EndsAt(u, p) /\ AllPassed(hops, Len(hops), u)
      BY <2>2 DEF Reaches, Transport
    <3>2. HopsPassed(t.route, u)
      BY <2>1, <3>1, Zenon DEF HopsPassed, AllPassed, Passed
    <3> QED
      BY <3>1, <3>2 DEF EndsAt, PeerOf, Last
  <2>3. CASE t.pc = "dialled"
    <3>1. Reaches(hops, u, Origin)
      BY <2>0, <2>1, <2>3, TunnelReaches DEF RouteInv
    <3> QED
      BY <2>1, <2>2, <2>3, <3>1
  <2>4. CASE t.pc = "request"
    <3>1. t.route # NoRoute /\ u = UpstreamStream(InnerScheme(t), t.route) /\ RouteSound(t.route)
      BY <2>0, <2>1, <2>4 DEF RouteInv
    <3>2. InnerScheme(t) \in {"http", "https"}
      BY DEF InnerScheme
    <3>3. Forwards(InnerScheme(t), t.route, u)
      BY <3>1, <3>2, StreamReaches
    <3> QED
      BY <2>1, <2>2, <2>4, <3>3 DEF Forwards
  <2> QED
    BY <2>3, <2>4
<1> QED
  BY <1>1, <1>2, ConnectInvariant, RoutesNext, PTL DEF Spec
=============================================================================
