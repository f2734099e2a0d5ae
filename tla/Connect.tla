------------------------------- MODULE Connect -------------------------------
(***************************************************************************)
(* CONNECT handling (proxy/server/connect.rs, connect_policy.rs, probe.rs, *)
(* mitm.rs, inner_http.rs), the leaf certificates it interposes            *)
(* (proxy/tls/) and the two caches the connections share (state.rs,        *)
(* state/mitm_failures.rs).                                                *)
(*                                                                         *)
(* One thread per client connection.  The threads meet in the failure      *)
(* cache and the certificate cache, both behind a lock, and in the leaf    *)
(* files of <storage>/ca/leaf, behind none.  A step that touches neither   *)
(* is merged with the one before it.                                       *)
(***************************************************************************)
EXTENDS Dial, Retained, Integers

CONSTANTS
    Conns,             \* connection threads
    Hosts,             \* host names, as clients spell them
    HostKey,           \* cache_key and leaf_cache_name: spelling -> host
    FailureCapacity,   \* mitm_failure_cache_capacity
    FailureTtl,        \* mitm_failure_ttl
    CertCapacity,      \* mitm_cert_cache_capacity
    MaxMethodSize,     \* probe.rs MAX_METHOD_SIZE
    Requests(_),       \* the CONNECT requests the n-th may be: host, whether the target
                       \* parses as a URL authority, the bytes the client sends first, and
                       \* the bypass, hidden and upstream actions its rules resolve to
    MaxTime,           \* bound on the clock
    MaxConnects,       \* bound on CONNECT requests
    MaxInner,          \* bound on requests inside one tunnel
    MaxCrashes         \* bound on restarts of the process

ASSUME ConnectAssumption ==
    /\ FailureCapacity \in Nat /\ FailureTtl \in Nat /\ CertCapacity \in Nat
    /\ MaxMethodSize \in Nat /\ MaxTime \in Nat /\ MaxConnects \in Nat
    /\ MaxInner \in Nat /\ MaxCrashes \in Nat
    /\ DOMAIN HostKey = Hosts

\* The bytes that classify_prefix tells apart (see there).
Bytes == {"hs", "v", "h", "s", "t", "sp", "/", ":", "x"}

ASSUME RequestsAssumption ==
    \A n \in 1..MaxConnects : \A r \in Requests(n) :
        /\ r.host \in Hosts /\ r.parses \in BOOLEAN /\ r.input \in Seq(Bytes)
        /\ r.bypass \in BOOLEAN /\ r.hidden \in BOOLEAN
        /\ r.actions \in Seq(Seq(EntryKinds))

Keys == { HostKey[h] : h \in Hosts }
None == "none"
Never == -1        \* no failure of a host is known
Missing == -1      \* a file that does not exist
Empty == 0         \* a file that has been truncated and not yet written

VARIABLES
    config,      \* no_mitm, strict_mitm and whether CA material was injected
    conn,        \* per connection: its thread's state
    failures,    \* MitmFailureCache
    certs,       \* MitmCertCache
    leaf,        \* per host: its chain and key file, and whether the certificate file exists
    clock,
    connects,    \* CONNECT requests so far; also names the keys a thread generates
    crashes,
    failed,      \* history: per host, when its last handshake failed since the last success
    usedSince,   \* history: per host, the hosts that entered or hit the cache since it did
    disturbed    \* history: hosts whose files were written by two at once, or not to the end

vars == <<config, conn, failures, certs, leaf, clock, connects, crashes,
          failed, usedSince, disturbed>>

Configs == { c \in [noMitm : BOOLEAN, strict : BOOLEAN, ca : BOOLEAN] :
                 ~(c.noMitm /\ c.strict) }

\* Session and TraceAbortGuard of the CONNECT itself: `open` while the guard
\* holds a session id, then how it ended.
NewSession == [begun |-> FALSE, status |-> 0, recorded |-> 0, aborted |-> FALSE]

Idle == [pc |-> "idle", id |-> 0, host |-> None, parses |-> TRUE, hidden |-> FALSE,
         input |-> <<>>, got |-> 0, protocol |-> None, reason |-> None, failedAgo |-> 0,
         crowded |-> FALSE, wire |-> <<>>, session |-> NewSession, gen |-> 0, chain |-> 0,
         inner |-> 0, route |-> Direct, layers |-> <<>>, end |-> None]

Init ==
    /\ config \in Configs
    /\ conn = [c \in Conns |-> Idle]
    /\ failures = [at |-> [k \in {} |-> 0], order |-> <<>>]
    /\ certs = [entries |-> [h \in {} |-> 0], order |-> <<>>]
    /\ leaf = [k \in Keys |-> [cert |-> FALSE, chain |-> Missing, key |-> Missing]]
    /\ clock = 0 /\ connects = 0 /\ crashes = 0
    /\ failed = [k \in Keys |-> Never]
    /\ usedSince = [k \in Keys |-> {}]
    /\ disturbed = {}

-----------------------------------------------------------------------------
(***************************************************************************)
(* MitmFailureCache: entries with the time of their failure, and a use     *)
(* order for eviction.                                                     *)
(***************************************************************************)
Keep(f, S) == Restrict(f, DOMAIN f \cap S)
Without(seq, k) == Retain(seq, ToSet(seq) \ {k})
Touch(order, k) == Append(Without(order, k), k)

PurgeExpired(f) ==
    LET live == { k \in DOMAIN f.at : clock - f.at[k] < FailureTtl }
    IN  [at |-> Keep(f.at, live),
         order |-> Retain(f.order, live)]

\* is_active_at: the purge, and the touch of a hit.
ActiveAfter(f, k) ==
    LET p == PurgeExpired(f)
    IN  IF k \in DOMAIN p.at THEN [p EXCEPT !.order = Touch(@, k)] ELSE p
IsActive(f, k) == k \in DOMAIN PurgeExpired(f).at

\* remember_at: insert, touch, and evict from the front while over capacity.
Remember(f, k) ==
    IF FailureCapacity = 0 \/ FailureTtl = 0 THEN f
    ELSE LET p == PurgeExpired(f)
             at == [x \in DOMAIN p.at \cup {k} |-> IF x = k THEN clock ELSE p.at[x]]
             order == Touch(p.order, k)
             evict == IF Cardinality(DOMAIN at) > FailureCapacity
                      THEN Cardinality(DOMAIN at) - FailureCapacity ELSE 0
             kept == SubSeq(order, evict + 1, Len(order))
         IN  [at |-> Keep(at, ToSet(kept)), order |-> kept]

\* Bug: the entry is dropped from the use order and not from the map.
ClearOrderOnly(f, k) == [f EXCEPT !.order = Without(f.order, k)]

Clear(f, k) == [at |-> Keep(f.at, DOMAIN f.at \ {k}), order |-> Without(f.order, k)]

\* MitmCertCache::get touches a hit; insert replaces in place or evicts first.
CertGet(cache, h) ==
    IF h \in DOMAIN cache.entries THEN [cache EXCEPT !.order = Touch(@, h)] ELSE cache
CertInsert(cache, h, cfg) ==
    IF CertCapacity = 0 THEN cache
    ELSE IF h \in DOMAIN cache.entries
    THEN [entries |-> [cache.entries EXCEPT ![h] = cfg], order |-> Touch(cache.order, h)]
    ELSE LET over == Cardinality(DOMAIN cache.entries) + 1
             kept == IF over > CertCapacity
                     THEN SubSeq(cache.order, over - CertCapacity + 1, Len(cache.order))
                     ELSE cache.order
         IN  [entries |-> [x \in ToSet(kept) \cup {h} |->
                              IF x = h THEN cfg ELSE cache.entries[x]],
              order |-> Append(kept, h)]

-----------------------------------------------------------------------------
(***************************************************************************)
(* classify_prefix over the classes of bytes it tells apart: "hs" is 0x16, *)
(* "v" a version byte accepted in its place, "h" and "s" the letters of    *)
(* the scheme names, "t" any other token byte, "sp" the space, "/" a slash *)
(* or an asterisk, "x" anything else.  The schemes are shortened to the    *)
(* point where they differ.                                                *)
(***************************************************************************)
IsToken(b) == b \in {"t", "h", "s"}
SchemeNames == {<<"h", ":">>, <<"h", "s", ":">>}

\* Bug: a target that has not arrived in full is compared as if it had.
ClassifyTargetEager(target) ==
    IF target = <<>> THEN "more"
    ELSE IF Head(target) = "/" \/ \E s \in SchemeNames : IsPrefix(s, target) THEN "http"
    ELSE "unknown"

ClassifyTarget(target) ==
    IF target = <<>> THEN "more"
    ELSE IF Head(target) = "/" THEN "http"
    ELSE IF \E s \in SchemeNames : IsPrefix(target, s) THEN "more"
    ELSE IF \E s \in SchemeNames : IsPrefix(s, target) THEN "http"
    ELSE "unknown"

ClassifyPrefix(in) ==
    IF in # <<>> /\ Head(in) = "hs"
    THEN IF Len(in) < 3 THEN "more"
         ELSE IF in[2] = "v" /\ in[3] = "v" THEN "tls" ELSE "unknown"
    ELSE LET spaces == { i \in 1..Len(in) : in[i] = "sp" }
             method == IF spaces = {} THEN in
                       ELSE SubSeq(in, 1, (CHOOSE i \in spaces :
                                               \A j \in spaces : i <= j) - 1)
             valid == Len(method) <= MaxMethodSize /\ \A i \in 1..Len(method) : IsToken(method[i])
         IN  IF spaces = {} THEN IF valid THEN "more" ELSE "unknown"
             ELSE IF method = <<>> \/ ~valid THEN "unknown"
             ELSE ClassifyTarget(SubSeq(in, Len(method) + 2, Len(in)))

-----------------------------------------------------------------------------
(***************************************************************************)
(* The session of the CONNECT.                                             *)
(***************************************************************************)

\* The thread's function returns, and with it go its locals; what its client
\* and its session saw of it stays in view until the thread is used again.
Return(t, end) ==
    [Idle EXCEPT !.pc = "done", !.end = end, !.host = t.host, !.hidden = t.hidden,
                 !.input = t.input, !.route = t.route, !.reason = t.reason,
                 !.wire = t.wire, !.session = t.session, !.inner = t.inner]

\* begin_session_trace_if_visible: a session that has an id keeps it.
Begin(t) == IF t.hidden THEN t ELSE [t EXCEPT !.session.begun = TRUE]

\* finish_session: begin if that has not happened, then record.
Finish(t, status, end) ==
    LET b == Begin(t)
    IN  Return([b EXCEPT !.session.status = status,
                         !.session.recorded = IF t.hidden THEN @ ELSE @ + 1], end)

\* A `?` of a function that holds a TraceAbortGuard: the guard's Drop aborts.
Abandon(t, end) ==
    Return([t EXCEPT !.session.aborted = t.session.begun /\ t.session.recorded = 0], end)

\* A response line on the client's connection.
Write(t, status) == [t EXCEPT !.wire = Append(@, status)]

Timeouts == {"dns-timeout", "connect-timeout", "total-timeout"}
ErrorStatus(error) == IF error \in Timeouts THEN 504 ELSE 502

\* Bug: the error page is written whether or not a 200 was.
FinishUpstreamErrorTwice(t, error, established) ==
    LET status == ErrorStatus(error)
    IN  Finish(Write(t, status), status, "upstream-error")

\* finish_upstream_error: an error page only if no 200 has been written.
FinishUpstreamError(t, error, established) ==
    LET status == ErrorStatus(error)
    IN  Finish(IF established THEN t ELSE Write(t, status), status, "upstream-error")

Established(t) == 200 \in ToSet(t.wire)

-----------------------------------------------------------------------------
Others == <<config, clock, crashes>>
Caches == <<failures, certs, leaf, failed, usedSince, disturbed>>

\* handle_connect up to the decision of connect_policy::decide.  The failure
\* cache is only consulted when nothing else has settled the matter.
Decide(c, req) ==
    LET k == HostKey[req.host]
        bypass == req.bypass
        asked == ~config.noMitm /\ ~bypass /\ config.ca /\ ~config.strict
        reason == CASE config.noMitm -> "disabled"
                    [] ~config.noMitm /\ bypass -> "bypass"
                    [] ~config.noMitm /\ ~bypass /\ ~config.ca -> "no-ca"
                    [] asked /\ IsActive(failures, k) -> "remembered"
                    [] OTHER -> "inspect"
    IN  /\ conn[c].pc \in {"idle", "done"}
        /\ connects < MaxConnects
        /\ connects' = connects + 1
        /\ failures' = IF asked THEN ActiveAfter(failures, k) ELSE failures
        /\ usedSince' = IF reason = "remembered"
                        THEN [x \in Keys |-> IF x = k THEN {} ELSE usedSince[x] \cup {k}]
                        ELSE usedSince
        /\ conn' = [conn EXCEPT ![c] =
              [Idle EXCEPT !.id = connects + 1, !.host = req.host, !.parses = req.parses,
                           !.hidden = req.hidden,
                           !.reason = reason, !.input = req.input,
                           !.route = UpstreamRoute(FALSE, req.actions),
                           !.failedAgo = IF failed[k] = Never THEN FailureTtl
                                         ELSE clock - failed[k],
                           !.crowded = Cardinality(usedSince[k]) >= FailureCapacity,
                           !.pc = IF reason = "inspect" THEN "greet" ELSE "route"]]
        /\ UNCHANGED <<config, certs, leaf, clock, crashes, failed, disturbed>>

\* The 200 that precedes the probe; when it cannot be written, or the total
\* deadline has passed by then, the thread ends with nothing traced.
Greet(c) ==
    /\ conn[c].pc = "greet"
    /\ \/ conn' = [conn EXCEPT ![c] = [Write(@, 200) EXCEPT !.pc = "probe"]]
       \/ conn' = [conn EXCEPT ![c] = Return(@, "write-failed")]
       \/ conn' = [conn EXCEPT ![c] = Return(Write(@, 200), "expired")]
    /\ UNCHANGED <<Others, Caches, connects>>

\* Bytes of the client arrive while the probe peeks.
Arrive(c) ==
    /\ conn[c].pc = "probe" /\ conn[c].got < Len(conn[c].input)
    /\ conn' = [conn EXCEPT ![c].got = @ + 1]
    /\ UNCHANGED <<Others, Caches, connects>>

\* probe::detect and handle_inspected: classify what can be peeked; give up at
\* the timeout, at the end of the client's stream, or on an error.
Probe(c) ==
    LET t == conn[c]
        seen == ClassifyPrefix(SubSeq(t.input, 1, t.got))
        to(pc, protocol) == [t EXCEPT !.pc = pc, !.protocol = protocol]
    IN  /\ t.pc = "probe"
        /\ conn' \in { [conn EXCEPT ![c] = next] : next \in
             (IF t.got = 0 THEN {Finish(to("probe", "closed"), 200, "closed")}
              ELSE CASE seen = "tls" -> {to("config", "tls")}
                     [] seen = "http" -> {to("inner", "http")}
                     [] seen = "unknown" -> {to("route", "unknown")}
                     [] seen = "more" -> {})
             \cup {to("route", "timeout"), Finish(t, 502, "probe-error"),
                   Finish(t, 504, "total-timeout")} }
        /\ UNCHANGED <<Others, Caches, connects>>

\* handle_passthrough up to the end of the dial.  split_addr, which names the host for the
\* policy, takes targets that UrlParts::parse refuses: such a one ends the function before
\* anything is written, and the guard aborts the session.
Passthrough(c) ==
    LET t == Begin(conn[c])
        layers == TunnelUpstream(t.route)
    IN  /\ conn[c].pc = "route"
        /\ IF ~conn[c].parses
           THEN conn' = [conn EXCEPT ![c] = Abandon(t, "bad-target")]
           ELSE IF t.route = NoRoute
           THEN conn' = [conn EXCEPT ![c] = FinishUpstreamError(t, "other", Established(t))]
           ELSE \/ \E e \in DialErrors(layers) :
                     conn' = [conn EXCEPT ![c] = FinishUpstreamError(t, e, Established(t))]
                \/ conn' = [conn EXCEPT ![c] = [t EXCEPT !.pc = "dialled", !.layers = layers]]
        /\ UNCHANGED <<Others, Caches, connects>>

\* The rest of handle_passthrough: the 200 that is still owed, the tunnel, and
\* the record of the session.
Tunnel(c) ==
    LET t == conn[c]
    IN  /\ t.pc = "dialled"
        /\ \/ /\ ~Established(t)
              /\ conn' = [conn EXCEPT ![c] = Abandon(t, "write-failed")]
           \/ conn' = [conn EXCEPT ![c] =
                  Finish(IF Established(t) THEN t ELSE Write(t, 200), 200, "tunnelled")]
        /\ UNCHANGED <<Others, Caches, connects>>

-----------------------------------------------------------------------------
(***************************************************************************)
(* handle_connect_mitm.                                                    *)
(***************************************************************************)
WriteSteps == {"write-cert", "write-chain", "fill-chain", "write-key", "fill-key"}
Writing(k) == { c \in Conns : conn[c].pc \in WriteSteps /\ HostKey[conn[c].host] = k }
Key(c) == HostKey[conn[c].host]

SetupFailed(c) == [conn EXCEPT ![c] = Finish(@, 502, "setup-failed")]

\* mitm_server_config: the cache, then whether the three leaf files exist
\* (ensure_leaf_certificate), then a new key pair.
LookupConfig(c) ==
    LET h == conn[c].host
        k == Key(c)
        complete == leaf[k].cert /\ leaf[k].chain # Missing /\ leaf[k].key # Missing
    IN  /\ conn[c].pc = "config"
        /\ certs' = CertGet(certs, h)
        /\ IF h \in DOMAIN certs.entries
           THEN conn' = [conn EXCEPT ![c].pc = "handshake", ![c].gen = certs.entries[h]]
           ELSE IF complete
           THEN conn' = [conn EXCEPT ![c].pc = "load-chain"]
           ELSE conn' = [conn EXCEPT ![c].pc = "write-cert", ![c].gen = conn[c].id]
        /\ disturbed' = disturbed \cup
              (IF Writing(k) # {} /\ h \notin DOMAIN certs.entries THEN {k} ELSE {})
        /\ UNCHANGED <<Others, failures, leaf, failed, usedSince, connects>>

\* fs::write truncates before it writes; another thread may read in between,
\* and the write may fail there.
LeafStep(c, from, to, file) ==
    /\ conn[c].pc = from
    /\ leaf' = [leaf EXCEPT ![Key(c)] = file]
    /\ conn' = [conn EXCEPT ![c].pc = to]
    /\ UNCHANGED <<Others, failures, certs, failed, usedSince, connects, disturbed>>

WriteLeaf(c) ==
    LET f == leaf[Key(c)]
        gen == conn[c].gen
    IN  \/ LeafStep(c, "write-cert", "write-chain", [f EXCEPT !.cert = TRUE])
        \/ LeafStep(c, "write-chain", "fill-chain", [f EXCEPT !.chain = Empty])
        \/ LeafStep(c, "fill-chain", "write-key", [f EXCEPT !.chain = gen])
        \/ LeafStep(c, "write-key", "fill-key", [f EXCEPT !.key = Empty])
        \/ LeafStep(c, "fill-key", "load-chain", [f EXCEPT !.key = gen])

WriteLeafFails(c) ==
    /\ conn[c].pc \in WriteSteps
    /\ disturbed' = disturbed \cup {Key(c)}
    /\ conn' = SetupFailed(c)
    /\ UNCHANGED <<Others, failures, certs, leaf, failed, usedSince, connects>>

\* load_certs
LoadChain(c) ==
    /\ conn[c].pc = "load-chain"
    /\ conn' = [conn EXCEPT ![c].pc = "load-key", ![c].chain = leaf[Key(c)].chain]
    /\ UNCHANGED <<Others, Caches, connects>>

\* rustls accepts a chain only with the key it certifies (external).
KeyMatches(chain, key) == chain # Empty /\ chain = key

\* load_private_key, with_single_cert, and the insertion into the cache.
LoadKey(c) ==
    LET t == conn[c]
    IN  /\ t.pc = "load-key"
        /\ IF KeyMatches(t.chain, leaf[Key(c)].key)
           THEN /\ certs' = CertInsert(certs, t.host, t.chain)
                /\ conn' = [conn EXCEPT ![c].pc = "handshake", ![c].gen = t.chain]
           ELSE /\ conn' = SetupFailed(c)
                /\ UNCHANGED certs
        /\ UNCHANGED <<Others, failures, leaf, failed, usedSince, connects, disturbed>>

\* complete_client_tls_handshake and record_handshake_failure: a timeout is
\* reported as 408 and not remembered; a failure is, unless strict.
HandshakeFails(c) ==
    LET k == Key(c)
    IN  /\ conn[c].pc = "handshake"
        /\ \/ /\ conn' = [conn EXCEPT ![c] = Finish(@, 408, "handshake-timeout")]
              /\ UNCHANGED <<failures, failed, usedSince>>
           \/ /\ conn' = [conn EXCEPT ![c] = Finish(@, 502, "handshake-failed")]
              /\ IF config.strict
                 THEN UNCHANGED <<failures, failed, usedSince>>
                 ELSE /\ failures' = Remember(failures, k)
                      /\ failed' = [failed EXCEPT ![k] = clock]
                      /\ usedSince' = [x \in Keys |-> IF x = k THEN {}
                                                      ELSE usedSince[x] \cup {k}]
        /\ UNCHANGED <<Others, certs, leaf, connects, disturbed>>

\* A handshake that completes clears the host; ALPN then picks HTTP/2, which
\* drops the CONNECT session, or the HTTP/1 loop.
HandshakeSucceeds(c) ==
    LET k == Key(c)
    IN  /\ conn[c].pc = "handshake"
        /\ failures' = Clear(failures, k)
        /\ failed' = [failed EXCEPT ![k] = Never]
        /\ \/ conn' = [conn EXCEPT ![c].pc = "inner"]
           \/ conn' = [conn EXCEPT ![c] = Return(@, "h2")]
        /\ UNCHANGED <<Others, certs, leaf, connects, usedSince, disturbed>>

\* inner_http::serve: read a head and hand it to the HTTP pipeline.  Only a
\* first head that never becomes a request is the CONNECT session's own (400
\* stands for 431 too).
InnerScheme(t) == IF t.protocol = "tls" THEN "https" ELSE "http"
InnerHead(c) ==
    LET t == conn[c]
        own(status) == IF t.inner = 0 THEN Finish(t, status, "inner-ended")
                       ELSE Return(t, "inner-ended")
    IN  /\ t.pc = "inner"
        /\ \/ \E status \in {200, 400, 502} :
                conn' = [conn EXCEPT ![c] = own(status)]
           \/ /\ t.inner < MaxInner
              /\ conn' = [conn EXCEPT ![c].pc = "request",
                     ![c].layers = IF t.route = NoRoute THEN <<>>
                                   ELSE UpstreamStream(InnerScheme(t), t.route)]
        /\ UNCHANGED <<Others, Caches, connects>>

\* The outcomes of handle_http_head (module HttpFlow): the connection is kept,
\* or closed, or the request's input is refused.  A refused first request is
\* recorded as the CONNECT's, unless the refusal cannot be written.
InnerRequest(c) ==
    LET t == conn[c]
    IN  /\ t.pc = "request"
        /\ \/ conn' = [conn EXCEPT ![c].pc = "inner", ![c].inner = @ + 1]
           \/ conn' = [conn EXCEPT ![c] = Return(@, "inner-handled")]
           \/ conn' = [conn EXCEPT ![c] =
                  IF t.inner = 0 THEN Finish(t, 400, "input-error")
                  ELSE Return(t, "input-error")]
           \/ conn' = [conn EXCEPT ![c] = Return(@, "write-failed")]
        /\ UNCHANGED <<Others, Caches, connects>>

\* The process ends and is started again; only the files are left.  The
\* histories of the failure cache end with it.
Crash ==
    /\ crashes < MaxCrashes
    /\ crashes' = crashes + 1
    /\ disturbed' = disturbed \cup { k \in Keys : Writing(k) # {} }
    /\ conn' = [c \in Conns |-> Idle]
    /\ failures' = [at |-> [k \in {} |-> 0], order |-> <<>>]
    /\ certs' = [entries |-> [h \in {} |-> 0], order |-> <<>>]
    /\ failed' = [k \in Keys |-> Never]
    /\ usedSince' = [k \in Keys |-> {}]
    /\ UNCHANGED <<config, leaf, clock, connects>>

Tick ==
    /\ clock < MaxTime
    /\ clock' = clock + 1
    /\ UNCHANGED <<config, conn, failures, certs, leaf, connects, crashes,
                   failed, usedSince, disturbed>>

Thread(c) ==
    \/ \E req \in Requests(connects + 1) : Decide(c, req)
    \/ Greet(c) \/ Arrive(c) \/ Probe(c) \/ Passthrough(c) \/ Tunnel(c)
    \/ LookupConfig(c) \/ WriteLeaf(c) \/ WriteLeafFails(c) \/ LoadChain(c) \/ LoadKey(c)
    \/ HandshakeFails(c) \/ HandshakeSucceeds(c) \/ InnerHead(c) \/ InnerRequest(c)

Next == (\E c \in Conns : Thread(c)) \/ Crash \/ Tick

Spec == Init /\ [][Next]_vars

-----------------------------------------------------------------------------
(***************************************************************************)
(* Properties.                                                             *)
(***************************************************************************)
Done(c) == conn[c].pc = "done"

\* A client that sent CONNECT is answered at most once, and truthfully: an
\* inspected connection only ever gets the 200 that precedes the probe, however
\* the dial or the handshake ends later; a connection passed through at once
\* gets the status its session is recorded with, unless its target does not parse: then
\* it gets no answer and nothing is recorded but the abort (connect.rs
\* finish_upstream_error and response_established, handle_passthrough).
ClientAnswer ==
    \A c \in Conns :
        LET t == conn[c]
        IN  IF t.reason = "inspect" THEN t.wire \in {<<>>, <<200>>}
            ELSE /\ Len(t.wire) <= 1
                 /\ Done(c) /\ t.end = "bad-target" =>
                        t.wire = <<>> /\ (t.session.aborted <=> ~t.hidden)
                 /\ Done(c) /\ t.end \notin {"write-failed", "bad-target"} =>
                        t.wire = <<t.session.status>>

\* The CONNECT session of every connection is settled when its thread ends:
\* recorded once, or aborted by the guard, never both and never left open; and
\* only a hidden session, an unwritable client, an expired deadline, a tunnel
\* that spoke HTTP/2 or one whose requests have sessions of their own may leave
\* no trace of the CONNECT (connect.rs, mitm.rs and inner_http.rs finish_session).
SessionSettled ==
    \A c \in Conns :
        LET t == conn[c]
            s == t.session
        IN  /\ s.recorded + (IF s.aborted THEN 1 ELSE 0) <= 1
            /\ Done(c) =>
                 /\ s.begun => s.recorded = 1 \/ s.aborted
                 /\ ~t.hidden /\ s.recorded = 0 /\ ~s.aborted =>
                        \/ t.end \in {"write-failed", "expired", "h2", "inner-handled"}
                        \/ t.end \in {"inner-ended", "input-error"} /\ t.inner > 0

\* The decision of connect_policy::decide agrees with the history of the host,
\* whatever other connections did to the cache meanwhile: a connection falls
\* back to passthrough only if the host's last handshake failed less than the
\* TTL ago with no success since, and a host that did is inspected again only if
\* enough other hosts have used the cache since to push it out
\* (mitm_failures.rs remember_at, is_active_at and clear).
FallbackExact ==
    \A c \in Conns :
        LET t == conn[c]
        IN  /\ t.reason = "remembered" => t.failedAgo < FailureTtl
            /\ t.reason = "inspect" /\ t.pc = "greet" /\ ~config.strict /\ t.failedAgo < FailureTtl
                  => t.crowded

\* A connection to a host fails for want of a usable leaf certificate only if
\* two connections once wrote the host's files at the same time, or a write of
\* them was cut short: connections that come one after the other always find
\* files that belong together, also after a restart (certificates.rs
\* ensure_leaf_certificate).
LeafUsable ==
    \A c \in Conns : conn[c].end = "setup-failed" => HostKey[conn[c].host] \in disturbed

\* What the probe decides from the bytes that have arrived is what it would have
\* decided from all of them: the path of a connection does not depend on how the
\* client's first bytes were cut into segments (probe.rs classify_prefix).
ProbeStable ==
    \A c \in Conns :
        conn[c].protocol \in {"tls", "http", "unknown"} =>
            ClassifyPrefix(conn[c].input) = conn[c].protocol

\* The transport of a tunnel ends at the origin and that of a forwarded request
\* at the origin or, in absolute form, at the last proxy; it passes every hop of
\* the route in order, speaks TLS to a hop exactly when the hop asks for it, and
\* TLS to the origin whenever the origin is https (connect.rs).
RouteReached ==
    \A c \in Conns :
        LET t == conn[c]
            scheme == InnerScheme(t)
            absolute == UsesAbsoluteForm(scheme, t.route)
        IN  t.layers # <<>> /\ t.pc \in {"dialled", "request"} =>
              /\ TlsWithPeer(t.layers) /\ HopsPassed(t.route, t.layers)
              /\ t.pc = "dialled" => PeerOf(t.layers) = Origin
              /\ t.pc = "request" =>
                   /\ PeerOf(t.layers) = IF absolute THEN Len(t.route.hops) ELSE Origin
                   /\ scheme = "https" => Last(t.layers) = Tls(Origin)

\* What the client of a CONNECT is told and what is recorded of it: one truthful answer
\* and one settled session, however dial, handshake and inner requests end
\* (server/connect.rs, mitm.rs).
AnsweredAndRecorded == ClientAnswer /\ SessionSettled

\* What one connection leaves for the next of its host is right: the remembered failure
\* and the leaf files (mitm_failures.rs, certificates.rs).
MitmMemory == FallbackExact /\ LeafUsable

=============================================================================
