------------------------------ MODULE HttpFlow ------------------------------
(***************************************************************************)
(* One connection thread of the proxy: the loop that reads requests from a *)
(* client connection, the flow of each request (body, rules, local answer  *)
(* or forwarding), the three ways to an origin (pooled HTTP/1, HTTP/2,     *)
(* unpooled HTTP/1), the ways a response is relayed, and the session that  *)
(* is traced.                                                              *)
(*                                                                         *)
(* The peers are the environment: they deliver their bytes one cell at a   *)
(* time or stop, the client may go away at any moment, connecting and      *)
(* waiting may fail. Elapsed time is a flag that is set once the total     *)
(* deadline of the request has passed.                                     *)
(***************************************************************************)
EXTENDS HttpWire, Sequences

CONSTANTS
    Requests,     \* request heads the client may send
    Responses,    \* response heads an origin may answer with
    Outcomes,     \* what the rules may decide for a request
    BufferLimit,  \* cells of a body that are buffered (body_buffer_limit)
    MaxRequests   \* requests explored on the connection

(* A rule may set or remove the Content-Length of a response, or leave it.  *)
Untouched == -2

ASSUME LimitsAssumption == BufferLimit \in Nat /\ MaxRequests \in Nat

ASSUME MessagesAssumption ==
    /\ Requests \subseteq
          [method : {"GET", "HEAD", "POST"}, version : {"1.0", "1.1"}, close : BOOLEAN,
           keep : BOOLEAN, body : {"none", "length", "chunked"}, size : Nat, expect : BOOLEAN, auth : BOOLEAN,
           target : BOOLEAN, ws : BOOLEAN, sse : BOOLEAN, tls : BOOLEAN]
    /\ Responses \subseteq
          [status : Nat, framing : {"none", "length", "chunked"}, size : Nat, also : Nat \cup {NoLength},
           persistent : BOOLEAN, sse : BOOLEAN, trailer : BOOLEAN]
    /\ Outcomes \subseteq
          [hide : BOOLEAN, delay : BOOLEAN, local : Nat \ Informational, status : Nat \ Informational,
           body : SUBSET {"rewrite", "delete", "trailer"}, length : Nat \cup {NoLength, Untouched},
           hideResponse : BOOLEAN, empty : BOOLEAN, by : {"none", "status", "redirect", "mock"},
           fails : {"none", "request", "local", "response", "trailer"}]

VARIABLES
    pc,       \* where the thread is
    served,   \* requests answered before the one in hand
    client,   \* "open", "stalled" when it does not read, "gone" when reads and writes fail
    timer,    \* the client socket has the keep-alive idle timeout
    req,      \* request in hand
    body,     \* its body: cells unread in the socket, cells held, streamed or not
    acts,     \* what the rules decided
    out,      \* response written to the client
    up,       \* upstream connection in use
    idle,     \* idle pooled connection of this thread
    err,      \* error in hand
    keep,     \* persistence decided for the client connection
    trace,    \* session of the request
    expired   \* the request's total deadline has passed

vars == <<pc, served, client, timer, req, body, acts, out, up, idle, err, keep, trace, expired>>
flow == <<req, acts, served, timer, client>>

(* up.left counts the cells of the response that the origin still sends on  *)
(* the connection, up.owed the response heads it has still to send, up.want *)
(* the cells the reader still expects and up.got those it has collected;    *)
(* up.stray records that a head on the connection was misread.              *)
NoUpstream == [kind |-> "none", reused |-> FALSE, tries |-> 0, left |-> 0, owed |-> 0,
               stray |-> FALSE, want |-> 0, got |-> 0, mode |-> "none",
               head |-> [status |-> 0, framing |-> "none", size |-> 0, also |-> NoLength,
                         persistent |-> FALSE, sse |-> FALSE, trailer |-> FALSE]]
NoIdle == [left |-> 0, owed |-> -1, stray |-> FALSE]
NoTrace == [started |-> FALSE, hidden |-> FALSE, armed |-> FALSE, status |-> 0,
            finished |-> 0, aborted |-> 0]
NoActs == [hide |-> FALSE, delay |-> FALSE, fails |-> "none", by |-> "none", local |-> 0, body |-> {},
           status |-> 0, length |-> Untouched, hideResponse |-> FALSE, empty |-> TRUE]
NoRequest == [method |-> "GET", version |-> "1.1", close |-> FALSE, keep |-> FALSE,
              body |-> "none", size |-> 0, expect |-> FALSE, auth |-> TRUE, target |-> TRUE,
              ws |-> FALSE, sse |-> FALSE, tls |-> FALSE]
NoBody == [unread |-> 0, held |-> 0, streaming |-> FALSE, cut |-> FALSE]

(* Nothing limits a write to the client: a step that writes waits for as    *)
(* long as the client does not read.                                        *)
Open == client = "open"
Stalled == client = "stalled"
Gone == client = "gone"

Init ==
    /\ pc = "head" /\ served = 0 /\ client = "open" /\ timer = FALSE
    /\ req = NoRequest /\ body = NoBody /\ acts = NoActs /\ out = NoResponse
    /\ up = NoUpstream /\ idle = NoIdle /\ err = "none" /\ keep = TRUE
    /\ trace = NoTrace /\ expired = FALSE

---------------------------------------------------------------------------
(* Errors and what the client is told about them. *)

TimeoutErrors == {"pool_wait", "dns", "connect", "tls", "ttfb", "total"}

ErrorStatus(e) ==
    IF e = "client_body" THEN 400 ELSE IF e \in TimeoutErrors THEN 504 ELSE 502

InputErrorStatus(e) == IF e = "total" THEN 504 ELSE IF e = "limit" THEN 431 ELSE 400

(* The deadline is consulted before a step and clips its timeout, so that a *)
(* step may fail with "total" once it has passed.                          *)
DeadlinePassed == expired

(* The guard that aborts a started session when the request is abandoned.   *)
GuardDropped(t) ==
    IF t.armed THEN [t EXCEPT !.armed = FALSE, !.aborted = @ + 1] ELSE t

---------------------------------------------------------------------------
(* handle_client: one head per turn of the loop. *)

ReadHead ==
    /\ pc = "head" /\ ~Gone /\ served < MaxRequests
    /\ \E r \in Requests :
        /\ req' = r
        /\ body' = [NoBody EXCEPT !.unread = RequestCells(r)]
    /\ pc' = "authorize" /\ out' = NoResponse /\ up' = NoUpstream /\ acts' = NoActs
    /\ err' = "none" /\ keep' = TRUE /\ trace' = NoTrace /\ expired' = FALSE
    /\ UNCHANGED <<served, client, timer, idle>>

(* End of input, an idle timeout after the first request, or a read error.  *)
HeadEnds ==
    /\ pc = "head" /\ pc' = "closed"
    /\ \/ Gone
       \/ served > 0 /\ timer
       \/ served = MaxRequests
    /\ UNCHANGED <<served, client, timer, req, body, acts, out, up, idle, err, keep, trace, expired>>

(* A head that cannot be parsed, or exceeds a limit, is answered and ends   *)
(* the connection.                                                         *)
HeadMalformed ==
    /\ pc = "head" /\ Open /\ served < MaxRequests
    /\ req' = NoRequest /\ body' = NoBody
    /\ \E status \in {400, 431} : out' = ResponseWritten(NoResponse, status, 1, FALSE)
    /\ keep' = FALSE /\ trace' = NoTrace /\ pc' = "closed"
    /\ UNCHANGED <<served, client, timer, acts, up, idle, err, expired>>

NextTurn(k) ==
    IF k THEN /\ pc' = "head" /\ served' = served + 1
              /\ timer' = (timer \/ served = 0)
         ELSE pc' = "closed" /\ UNCHANGED <<served, timer>>

(* 407: with a body the connection closes, because the body is not read.    *)
Unauthorized ==
    /\ pc = "authorize" /\ ~req.auth /\ ~Stalled
    /\ LET k == RequestedKeepAlive(req) /\ ~HasBody(req) IN
        IF Open
        THEN /\ out' = ResponseWritten(out, 407, 1, k)
             /\ keep' = k /\ UNCHANGED timer
             /\ IF k THEN pc' = "head" /\ served' = served + 1
                     ELSE pc' = "closed" /\ UNCHANGED served
        ELSE pc' = "closed" /\ UNCHANGED <<out, keep, served, timer>>
    /\ UNCHANGED <<client, req, body, acts, up, idle, err, trace, expired>>

(* handle_http_head: the deadline starts, 100 Continue is sent before the   *)
(* body is read, a request without a body goes straight to the rules.       *)
HandleHead ==
    /\ pc = "authorize" /\ req.auth /\ ~(HasBody(req) /\ req.expect /\ Stalled)
    /\ IF ~HasBody(req) THEN pc' = "resolve" /\ UNCHANGED err
       ELSE IF req.expect /\ Gone THEN pc' = "abandon" /\ err' = "other"
       ELSE IF ~req.target THEN pc' = "abandon" /\ err' = "other"
       ELSE pc' = "body" /\ UNCHANGED err
    /\ UNCHANGED <<flow, body, out, up, idle, keep, trace, expired>>

(* read_request_body_bounded: a declared length over the limit is streamed  *)
(* at once, otherwise cells are read until the body or the limit ends. The  *)
(* read timeout of the socket is cleared afterwards, whatever it was.       *)
BodyStreams ==
    \/ req.body = "length" /\ req.size > BufferLimit
    \/ body.held > BufferLimit

ReadBody ==
    /\ pc = "body" /\ ~Gone /\ ~BodyStreams /\ body.unread > 0
    /\ body' = [body EXCEPT !.unread = @ - 1,
                            !.held = IF req.body = "chunked" /\ body.unread = 1 THEN @ ELSE @ + 1]
    /\ UNCHANGED <<flow, pc, out, up, idle, err, keep, trace, expired>>

BodyRead ==
    /\ pc = "body" /\ (BodyStreams \/ body.unread = 0)
    /\ body' = [body EXCEPT !.streaming = BodyStreams]
    /\ pc' = "resolve" /\ timer' = FALSE
    /\ UNCHANGED <<req, acts, served, client, out, up, idle, err, keep, trace, expired>>

(* The client ends or stalls inside its body, or the framing is malformed:  *)
(* handle_client answers and closes. No session exists yet.                 *)
BodyFails ==
    /\ pc = "body" /\ ~BodyStreams /\ body.unread > 0 /\ ~Stalled
    /\ \E e \in {"client_body", "limit"} \cup (IF DeadlinePassed THEN {"total"} ELSE {}) :
        out' = IF Open THEN ResponseWritten(out, InputErrorStatus(e), 1, FALSE) ELSE out
    /\ keep' = FALSE /\ timer' = FALSE /\ pc' = "closed"
    /\ UNCHANGED <<req, acts, served, client, body, up, idle, err, trace, expired>>

---------------------------------------------------------------------------
(* handle_http_stream_inner *)

LocalKeepAliveAlways == RequestedKeepAlive(req)

(* A local answer must not leave a streamed body in the socket.             *)
LocalKeepAlive == RequestedKeepAlive(req) /\ ~body.streaming

(* Rules are resolved and the session begins: a visible one is registered   *)
(* with the collector and guarded from here on.                             *)
(* session::begin: a visible session is started and guarded.                *)
SessionBegun(hide) == [NoTrace EXCEPT !.started = ~hide, !.hidden = hide, !.armed = ~hide]

Resolve ==
    /\ pc = "resolve"
    /\ IF ~req.target
       THEN pc' = "abandon" /\ err' = "other" /\ UNCHANGED <<acts, trace>>
       ELSE \E a \in Outcomes :
            /\ acts' = a
            /\ trace' = SessionBegun(a.hide)
            /\ pc' = "delay" /\ UNCHANGED err
    /\ UNCHANGED <<served, timer, client, req, body, out, up, idle, keep, expired>>

(* Request delays sleep no longer than the deadline allows.                 *)
RequestDelay ==
    /\ pc = "delay" /\ ~(acts.delay /\ DeadlinePassed)
    /\ pc' = "actions"
    /\ UNCHANGED <<flow, body, out, up, idle, err, keep, trace, expired>>

(* Rewrites of the URL and the request; a value that cannot be applied ends  *)
(* the connection. Then the deadline is consulted.                          *)
RequestActions ==
    /\ pc = "actions"
    /\ IF acts.fails = "request" THEN pc' = "abandon" /\ err' = "other"
       ELSE ~DeadlinePassed /\ pc' = (IF acts.by # "none" THEN "local" ELSE "forward") /\ UNCHANGED err
    /\ UNCHANGED <<flow, body, out, up, idle, keep, trace, expired>>

(* finish_request_total_timeout *)
RequestTotalTimeout ==
    /\ DeadlinePassed /\ ~Stalled
    /\ (pc = "delay" /\ acts.delay) \/ (pc = "actions" /\ acts.fails # "request")
    /\ IF Open
       THEN /\ out' = ResponseWritten(out, 504, 1, LocalKeepAlive)
            /\ keep' = LocalKeepAlive /\ trace' = [trace EXCEPT !.status = 504]
            /\ pc' = "record" /\ UNCHANGED err
       ELSE pc' = "abandon" /\ err' = "other" /\ UNCHANGED <<out, keep, trace>>
    /\ UNCHANGED <<flow, body, up, idle, expired>>

(* Local answers by a status, redirect or mock action: content only where   *)
(* method and status allow it.                                             *)
Answered(status, written) ==
    /\ pc = "local"
    /\ IF acts.fails = "local" \/ Gone
       THEN pc' = "abandon" /\ err' = "other" /\ UNCHANGED <<out, keep, trace>>
       ELSE /\ Open /\ out' = written /\ keep' = LocalKeepAlive
            /\ trace' = [trace EXCEPT !.status = status]
            /\ pc' = "record" /\ UNCHANGED err
    /\ UNCHANGED <<flow, body, up, idle, expired>>

LocalResponse(status, size) ==
    IF ResponseCanSendContent(req.method, status)
    THEN ResponseWritten(out, status, size, LocalKeepAlive)
    ELSE HeadWritten(out, status, "length", size, LocalKeepAlive)

StatusAnswer == acts.by = "status" /\ Answered(acts.local, LocalResponse(acts.local, 1))

RedirectAnswer == acts.by = "redirect" /\ Answered(302, ResponseWritten(out, 302, 0, LocalKeepAlive))

MockAnswer == acts.by = "mock" /\ Answered(acts.local, LocalResponse(acts.local, 2))

(* record_session_if_visible, then the guard: a finish the collector does   *)
(* not take leaves the guard armed.                                         *)
(* record_session_if_visible: the collector takes the session or not.       *)
Recorded(taken) ==
    [trace EXCEPT !.finished = IF trace.hidden \/ ~taken THEN @ ELSE @ + 1,
                  !.aborted = IF trace.hidden /\ taken THEN @ + 1 ELSE @,
                  !.armed = ~taken]

RecordSession ==
    /\ pc = "record"
    /\ \E taken \in BOOLEAN :
        trace' = IF trace.started THEN GuardDropped(Recorded(taken)) ELSE trace
    /\ NextTurn(keep)
    /\ UNCHANGED <<client, req, body, acts, out, up, idle, err, keep, expired>>

(* An error that is returned to handle_client ends the connection; the      *)
(* destructor of the guard aborts the session.                              *)
Abandon ==
    /\ pc = "abandon"
    /\ trace' = GuardDropped(trace) /\ keep' = FALSE /\ pc' = "closed"
    /\ UNCHANGED <<flow, body, out, up, idle, err, expired>>

---------------------------------------------------------------------------
(* forward *)

PoolEligible ==
    /\ acts.empty /\ ~req.tls /\ req.method \in {"GET", "HEAD"} /\ req.version = "1.1"
    /\ ~HasBody(req) /\ ~req.ws /\ ~req.sse

Plan ==
    IF req.ws THEN "websocket"
    ELSE IF req.tls /\ ~req.sse THEN "h2"
    ELSE IF PoolEligible /\ ~body.streaming THEN "pooled" ELSE "unpooled"

(* An origin switches protocols only when it was asked to.                  *)
OriginHeads == {h \in Responses : h.status = 101 => req.ws}

Fail(e) == err' = e /\ pc' = "failed"

(* Failure of a step that waits for a peer or the network: its own error, or *)
(* the total timeout once the deadline has passed.                          *)
Failures(own) == own \cup (IF DeadlinePassed THEN {"total"} ELSE {})

Forward ==
    /\ pc = "forward"
    /\ pc' = CASE Plan = "pooled" -> "checkout" [] Plan = "h2" -> "dispatch" [] OTHER -> "connect"
    /\ UNCHANGED <<flow, body, out, up, idle, err, keep, trace, expired>>

(* try_pooled: the idle connection of the thread, unless it is too old, or  *)
(* a permit and a new connection.                                           *)
Checkout ==
    /\ pc = "checkout" /\ up.kind = "none" /\ up.tries = 0 /\ idle # NoIdle
    /\ idle' = NoIdle
    /\ \/ up' = [NoUpstream EXCEPT !.kind = "pooled", !.reused = TRUE,
                                   !.left = idle.left, !.owed = idle.owed, !.stray = idle.stray]
          /\ pc' = "send"
       \/ UNCHANGED <<up, pc>>
    /\ UNCHANGED <<flow, body, out, err, keep, trace, expired>>

ConnectPooled ==
    /\ pc = "checkout" /\ up.kind = "none" /\ (up.tries > 0 \/ idle = NoIdle)
    /\ \/ ~DeadlinePassed /\ pc' = "send" /\ UNCHANGED err
          /\ up' = [up EXCEPT !.kind = "pooled"]
       \/ /\ \E e \in Failures({"pool_wait", "dns", "connect", "other"}) : Fail(e)
          /\ UNCHANGED up
    /\ UNCHANGED <<flow, body, out, idle, keep, trace, expired>>

MayRetryAlways == TRUE

(* send_request: a reused connection that fails is given up for a new one,  *)
(* once.                                                                    *)
MayRetry == up.reused /\ up.tries = 0

SendPooled ==
    /\ pc = "send" /\ up.kind = "pooled"
    /\ \/ /\ ~DeadlinePassed /\ pc' = "await"
          /\ up' = [up EXCEPT !.owed = @ + 1] /\ UNCHANGED err
       \/ IF MayRetry
          THEN up' = [NoUpstream EXCEPT !.tries = 1] /\ pc' = "checkout" /\ UNCHANGED err
          ELSE /\ \E e \in Failures({"other"}) : Fail(e)
               /\ UNCHANGED up
    /\ UNCHANGED <<flow, body, out, idle, keep, trace, expired>>

(* read_response_head takes whatever head comes first for the final one,    *)
(* and a 205 that announces no content has none for finish_reset_content.   *)
Misread(h) ==
    \/ h.status \in Informational
    \/ h.status = 205 /\ h.framing = "none" /\ OriginCells(req.method, h) > 0

(* The next head on the connection: what an earlier response left there     *)
(* comes first.                                                             *)
AwaitPooled ==
    /\ pc = "await" /\ up.kind = "pooled"
    /\ \/ \E h \in OriginHeads :
          /\ up' = [up EXCEPT !.head = h, !.left = @ + OriginCells(req.method, h),
                              !.owed = IF h.status \in Informational THEN @ ELSE @ - 1,
                              !.stray = @ \/ Misread(h)]
          /\ pc' = "answer" /\ UNCHANGED err
       \/ IF MayRetry
          THEN up' = [NoUpstream EXCEPT !.tries = 1] /\ pc' = "checkout" /\ UNCHANGED err
          ELSE (\E e \in Failures({"other"}) : Fail(e)) /\ UNCHANGED up
    /\ UNCHANGED <<flow, body, out, idle, keep, trace, expired>>

---------------------------------------------------------------------------
(* The HTTP/2 pool and the upstream connection of one request *)

(* A response head arrives: what the origin sends after it, and how much of *)
(* it this kind of reader will wait for.                                   *)
HeadArrives(u, h) ==
    [u EXCEPT !.head = h, !.left = OriginCells(req.method, h), !.want = OriginCells(req.method, h)]

(* The HTTP/2 library keeps interim responses and transfer codings away.    *)
H2Heads == {h \in OriginHeads : h.status \notin Informational /\ h.also = NoLength}

(* dispatch_upstream_h2, or the connector of the pool once connected: a    *)
(* response, a stream that takes the request body, or an error.            *)
H2Answers ==
    \/ /\ ~body.streaming
       /\ \E h \in H2Heads : up' = HeadArrives([NoUpstream EXCEPT !.kind = "h2"], h)
       /\ pc' = "answer" /\ UNCHANGED err
    \/ /\ body.streaming /\ up' = [NoUpstream EXCEPT !.kind = "h2"]
       /\ pc' = "upload" /\ UNCHANGED err
    \/ (\E e \in Failures({"pool_wait", "ttfb", "other"}) : Fail(e)) /\ UNCHANGED up

Dispatch ==
    /\ pc = "dispatch"
    /\ H2Answers \/ (pc' = "connect" /\ UNCHANGED <<up, err>>)
    /\ UNCHANGED <<flow, body, out, idle, keep, trace, expired>>

(* connect_upstream_stream: HTTP/2 is offered only where the plan allows it *)
Connect ==
    /\ pc = "connect"
    /\ \/ Plan = "h2" /\ H2Answers
       \/ ~DeadlinePassed /\ up' = [NoUpstream EXCEPT !.kind = "h1"] /\ pc' = "upload" /\ UNCHANGED err
       \/ (\E e \in Failures({"dns", "connect", "tls", "other"}) : Fail(e)) /\ UNCHANGED up
    /\ UNCHANGED <<flow, body, out, idle, keep, trace, expired>>

(* relay_request_body and relay_request_body_to_h2: a streamed body goes    *)
(* from the client's socket to the origin. An HTTP/2 origin may end its     *)
(* stream first, which leaves the rest of the body in the client's socket.  *)
UploadCell ==
    /\ pc = "upload" /\ body.streaming /\ ~Gone /\ body.unread > 0 /\ ~body.cut
    /\ body' = [body EXCEPT !.unread = @ - 1]
    /\ UNCHANGED <<flow, pc, out, up, idle, err, keep, trace, expired>>

UploadCut ==
    /\ pc = "upload" /\ up.kind = "h2" /\ ~body.cut
    /\ body' = [body EXCEPT !.cut = TRUE]
    /\ UNCHANGED <<flow, pc, out, up, idle, err, keep, trace, expired>>

UploadDone ==
    /\ pc = "upload" /\ (~body.streaming \/ body.unread = 0 \/ body.cut)
    /\ pc' = "await" /\ timer' = (timer /\ ~body.streaming)
    /\ UNCHANGED <<req, acts, served, client, body, out, up, idle, err, keep, trace, expired>>

(* A client error inside the body is reported as such even when it is the   *)
(* deadline that ended the read.                                           *)
UploadFails ==
    /\ pc = "upload"
    /\ \/ body.streaming /\ body.unread > 0 /\ ~body.cut /\ Fail("client_body")
       \/ \E e \in Failures({"other"}) : Fail(e)
    /\ timer' = (timer /\ ~body.streaming)
    /\ UNCHANGED <<req, acts, served, client, body, out, up, idle, keep, trace, expired>>

(* read_response_head_with_ttfb, or finish of the streaming HTTP/2 request  *)
Await ==
    /\ pc = "await" /\ up.kind \in {"h1", "h2"}
    /\ \/ /\ \E h \in (IF up.kind = "h2" THEN H2Heads ELSE OriginHeads) : up' = HeadArrives(up, h)
          /\ pc' = "answer" /\ UNCHANGED err
       \/ (\E e \in Failures({"ttfb", "other"}) : Fail(e)) /\ UNCHANGED up
    /\ UNCHANGED <<flow, body, out, idle, keep, trace, expired>>

---------------------------------------------------------------------------
(* Ways to relay a response *)

(* Persistence offered to the client: a request body that was not read to   *)
(* its end rules it out.                                                   *)
ClientConnection == RequestedKeepAlive(req) /\ ~body.cut

RelayedStatus == IF acts.status # 0 THEN acts.status ELSE up.head.status

SettleReusing(status, k, reusable) ==
    /\ pc' = "record" /\ keep' = k
    /\ trace' = [trace EXCEPT !.status = status, !.hidden = @ \/ acts.hideResponse]
    /\ idle' = IF up.kind = "pooled" THEN [left |-> up.left, owed |-> up.owed, stray |-> up.stray]
               ELSE idle
    /\ UNCHANGED err

SettleUpstreamStatus(status, k, reusable) ==
    /\ pc' = "record" /\ keep' = k
    /\ trace' = [trace EXCEPT !.status = up.head.status, !.hidden = @ \/ acts.hideResponse]
    /\ UNCHANGED <<idle, err>>

(* The flow ends with a result: apply_forward_result, and for a pooled      *)
(* connection whose response was read to its end the check-in.             *)
Settle(status, k, reusable) ==
    /\ pc' = "record" /\ keep' = k
    /\ trace' = [trace EXCEPT !.status = status, !.hidden = @ \/ acts.hideResponse]
    /\ idle' = IF reusable /\ up.kind = "pooled" /\ Persistent(up.head)
               THEN [left |-> up.left, owed |-> up.owed, stray |-> up.stray] ELSE idle
    /\ UNCHANGED err

Failed(e) == Fail(e) /\ UNCHANGED <<keep, trace, idle>>

StartRelay(mode, want, written) ==
    /\ pc' = "relay" /\ out' = written
    /\ up' = [up EXCEPT !.mode = mode, !.want = want]
    /\ UNCHANGED <<err, keep, trace, idle>>

StartCollect(mode, want) ==
    /\ pc' = "collect" /\ up' = [up EXCEPT !.mode = mode, !.want = want]
    /\ UNCHANGED <<out, err, keep, trace, idle>>

Coalesced(h) == ContentLength(h) # NoLength /\ ContentLength(h) <= BufferLimit

(* h1_forward response::finish chooses by status and framing.               *)
PooledForm ==
    LET h == up.head IN
    IF ~ResponseHasFramedBody(req.method, h.status) THEN "empty"
    ELSE IF h.status = 205 THEN "reset"
    ELSE IF h.sse THEN "sse"
    ELSE IF h.framing = "chunked" THEN "chunked"
    ELSE IF h.framing = "none" THEN "close"
    ELSE IF Coalesced(h) THEN "small" ELSE "length"

Pooled(form) == pc = "answer" /\ up.kind = "pooled" /\ ~DeadlinePassed /\ PooledForm = form

(* validate_streaming_framing refuses a head with a transfer coding and a   *)
(* length.                                                                  *)
Ambiguous(h) == h.framing = "chunked" /\ h.also # NoLength

(* The head goes out first; a client that is gone fails the request.        *)
PooledFails ==
    /\ pc = "answer" /\ up.kind = "pooled"
    /\ IF DeadlinePassed THEN Failed("total")
       ELSE /\ \/ Gone /\ PooledForm \notin {"reset", "small"}
               \/ PooledForm = "chunked" /\ Ambiguous(up.head)
            /\ Failed("other")
    /\ UNCHANGED <<flow, body, out, up, expired>>

(* A transfer coding is stripped, a length is passed on.                    *)
AnswerWithoutBody ==
    /\ Pooled("empty") /\ Open
    /\ out' = HeadWritten(out, up.head.status, IF ContentLength(up.head) = NoLength THEN "none" ELSE "length",
                          ContentLength(up.head), ClientConnection)
    /\ Settle(up.head.status, ClientConnection, TRUE)
    /\ UNCHANGED <<flow, body, up, expired>>

AnswerResetContent ==
    /\ Pooled("reset") /\ StartCollect("discard", IF up.head.framing = "none" THEN 0 ELSE up.head.size)
    /\ UNCHANGED <<flow, body, expired>>

AnswerSmall ==
    /\ Pooled("small") /\ StartCollect("buffer", up.head.size)
    /\ UNCHANGED <<flow, body, expired>>

AnswerFixed ==
    /\ Pooled("length") /\ Open
    /\ StartRelay("length", up.head.size, HeadWritten(out, up.head.status, "length", up.head.size, ClientConnection))
    /\ UNCHANGED <<flow, body, expired>>

AnswerChunked ==
    /\ Pooled("chunked") /\ Open /\ ~Ambiguous(up.head)
    /\ StartRelay("chunked", up.head.size, HeadWritten(out, up.head.status, "chunked", 0, ClientConnection))
    /\ UNCHANGED <<flow, body, expired>>

AnswerCloseDelimited ==
    /\ Pooled("close") /\ Open
    /\ StartRelay("close", up.head.size, HeadWritten(out, up.head.status, "none", 0, FALSE))
    /\ UNCHANGED <<flow, body, expired>>

AnswerSse ==
    /\ Pooled("sse") /\ Open
    /\ StartRelay("sse", up.head.size, HeadWritten(out, up.head.status, "none", 0, FALSE))
    /\ UNCHANGED <<flow, body, expired>>

(* The Content-Length after the response actions.                           *)
RelayedLength == IF acts.length = Untouched THEN ContentLength(up.head) ELSE acts.length

(* finish_streaming_response up to its head. Content is announced by the    *)
(* length that the actions left or in chunks; where neither is possible the *)
(* connection ends the body.                                                *)
StreamHead(want) ==
    LET h == up.head
        status == RelayedStatus
        allowed == ResponseCanSendContent(req.method, status) /\ h.status # 205
        length == IF h.status = 205 /\ StatusCanSendContent(status) THEN 0 ELSE RelayedLength
        chunked == /\ allowed /\ req.version # "1.0"
                   /\ length = NoLength \/ h.trailer \/ "trailer" \in acts.body
        framing == IF chunked THEN "chunked" ELSE IF length # NoLength THEN "length" ELSE "none"
        k == ClientConnection /\ ~(allowed /\ framing = "none")
        written == HeadWritten(out, status, framing, length, k)
        prefix == IF allowed THEN up.got ELSE 0
    IN  IF acts.fails = "response" THEN Failed("other") /\ UNCHANGED <<out, up>>
        ELSE IF DeadlinePassed THEN Failed("total") /\ UNCHANGED <<out, up>>
        ELSE IF Gone THEN Failed("other") /\ UNCHANGED <<out, up>>
        ELSE /\ Open
             /\ StartRelay("stream", want,
                   [written EXCEPT !.content = prefix,
                                   !.left = IF framing = "length" THEN @ - prefix ELSE @])

(* response_actions_require_body                                            *)
RequiresBody == acts.body \cap {"rewrite", "delete"} # {}

(* can_stream_sse_response                                                  *)
StreamsEvents == acts.body \cap {"rewrite", "trailer"} = {}

MustBuffer(h) == RequiresBody \/ req.version = "1.0"
                 \/ (Coalesced(h) /\ ~h.trailer /\ ResponseHasFramedBody(req.method, h.status))

(* forward_unpooled, after the head: an upgrade, an event stream, a stream  *)
(* or a buffered response.                                                 *)
UnpooledForm ==
    IF req.ws /\ up.head.status = 101 THEN "tunnel"
    ELSE IF up.head.sse /\ StreamsEvents THEN "sse"
    ELSE IF MustBuffer(up.head) THEN "buffer" ELSE "stream"

Unpooled(form) == pc = "answer" /\ up.kind = "h1" /\ UnpooledForm = form

(* websocket_forward::finish and the event stream: response actions, their  *)
(* delay, then a head that announces no persistence.                       *)
LongLived(form) ==
    IF acts.fails = "response" THEN Failed("other") /\ UNCHANGED <<out, up>>
    ELSE IF acts.delay /\ DeadlinePassed THEN Failed("total") /\ UNCHANGED <<out, up>>
    ELSE IF Gone THEN Failed("other") /\ UNCHANGED <<out, up>>
    ELSE Open /\ StartRelay(form, up.head.size, HeadWritten(out, RelayedStatus, "none", 0, FALSE))

Upgrade ==
    /\ Unpooled("tunnel") /\ LongLived("tunnel")
    /\ UNCHANGED <<flow, body, expired>>

EventStream ==
    /\ Unpooled("sse") /\ LongLived("sse")
    /\ UNCHANGED <<flow, body, expired>>

AnswerStreamed ==
    /\ Unpooled("stream")
    /\ StreamHead(IF StreamFraming(req.method, up.head) = "empty" THEN 0 ELSE up.head.size)
    /\ UNCHANGED <<flow, body, expired>>

(* The buffering reader looks at the headers only.                          *)
AnswerBuffered ==
    /\ Unpooled("buffer") /\ StartCollect("buffer", up.head.size)
    /\ UNCHANGED <<flow, body, expired>>

(* finish_streamed_upstream_response: an HTTP/2 stream knows its end.       *)
AnswerH2 ==
    /\ pc = "answer" /\ up.kind = "h2"
    /\ IF MustBuffer(up.head) THEN StartCollect("buffer", up.left) ELSE StreamHead(up.left)
    /\ UNCHANGED <<flow, body, expired>>

(* A body is collected cell by cell. An HTTP/2 body over the limit is       *)
(* streamed instead, what was collected first.                             *)
CollectCell ==
    /\ pc = "collect" /\ up.want > 0 /\ up.left > 0
    /\ up' = [up EXCEPT !.want = @ - 1, !.left = @ - 1, !.got = @ + 1]
    /\ ~(up.kind = "h2" /\ up.got > BufferLimit)
    /\ UNCHANGED <<flow, pc, body, out, idle, err, keep, trace, expired>>

CollectOverflows ==
    /\ pc = "collect" /\ up.kind = "h2" /\ up.got > BufferLimit
    /\ StreamHead(up.want)
    /\ UNCHANGED <<flow, body, expired>>

CollectFails ==
    /\ pc = "collect" /\ up.want > 0
    /\ \E e \in Failures({"other"}) : Failed(e)
    /\ UNCHANGED <<flow, body, out, up, expired>>

(* finish_buffered_response and, for 205, finish_reset_content. The body of *)
(* a response without a length ends with the connection.                   *)
CollectDone ==
    /\ pc = "collect" /\ ~(up.kind = "h2" /\ up.got > BufferLimit)
    /\ up.want = 0 \/ (up.kind = "h1" /\ up.head.framing = "none")
    /\ LET status == RelayedStatus
           k == ClientConnection
           size == IF up.head.status = 205 THEN 0 ELSE up.got
       IN  IF acts.fails \in {"response", "trailer"} THEN Failed("other") /\ UNCHANGED out
           ELSE IF up.mode = "buffer" /\ DeadlinePassed THEN Failed("total") /\ UNCHANGED out
           ELSE IF Gone THEN Failed("other") /\ UNCHANGED out
           ELSE /\ Open
                /\ out' = IF ResponseCanSendContent(req.method, status)
                          THEN ResponseWritten(out, status, size, k)
                          ELSE HeadWritten(out, status, "length", size, k)
                /\ Settle(status, k, TRUE)
    /\ UNCHANGED <<flow, body, up, expired>>

(* The content a client may get is passed on, other content is dropped.     *)
PassOn == ResponseCanSendContent(req.method, out.status) /\ up.head.status # 205

RelayCell ==
    /\ pc = "relay" /\ up.mode \notin {"sse", "stream"} /\ Open /\ up.want > 0 /\ up.left > 0
    /\ up' = [up EXCEPT !.want = @ - 1, !.left = @ - 1]
    /\ out' = IF PassOn THEN CellWritten(out) ELSE out
    /\ UNCHANGED <<flow, pc, body, idle, err, keep, trace, expired>>

(* next_inner decodes the framing of the origin, finish_streaming_response  *)
(* frames the content anew.                                                 *)
StreamCell ==
    /\ pc = "relay" /\ up.mode = "stream" /\ Open /\ up.want > 0 /\ up.left > 0
    /\ up' = [up EXCEPT !.want = @ - 1, !.left = @ - 1]
    /\ out' = IF PassOn THEN CellWritten(out) ELSE out
    /\ UNCHANGED <<flow, pc, body, idle, err, keep, trace, expired>>

(* stream_sse_response decodes the framing of the origin and writes what it  *)
(* reads without a framing of its own.                                      *)
SseCell ==
    /\ pc = "relay" /\ up.mode = "sse" /\ Open /\ up.want > 0 /\ up.left > 0
    /\ up' = [up EXCEPT !.want = @ - 1, !.left = @ - 1]
    /\ out' = CellWritten(out)
    /\ UNCHANGED <<flow, pc, body, idle, err, keep, trace, expired>>

(* An error after the head. Most relays turn it into a closed connection;   *)
(* the event stream and the tunnel of an unpooled connection, and a trailer *)
(* rule that fails, return it as the error of the whole request.           *)
ErrorEscapes ==
    \/ up.kind = "h1" /\ up.mode \in {"sse", "tunnel"}
    \/ up.mode = "stream" /\ acts.fails = "trailer"

RelayFails ==
    /\ pc = "relay" /\ (up.want > 0 \/ up.mode \in {"close", "sse", "tunnel"} \/ Gone)
    /\ IF ErrorEscapes THEN Failed("other") ELSE Settle(out.status, FALSE, FALSE)
    /\ UNCHANGED <<flow, body, out, up, expired>>

RelayDone ==
    /\ pc = "relay" /\ Open
    /\ up.want = 0 \/ up.mode = "close" \/ (up.mode \in {"sse", "stream"} /\ up.kind = "h1" /\ up.head.framing = "none")
    /\ IF up.mode = "stream" /\ acts.fails = "trailer" THEN Failed("other") /\ UNCHANGED out
       ELSE /\ out' = BodyEnded(out)
            /\ Settle(out.status, out.keep, up.mode \in {"length", "chunked"})
    /\ UNCHANGED <<flow, body, up, expired>>

(* handle_forward_error: an answer with content, whatever was asked for and *)
(* whatever has been written; a streamed request ends the connection.      *)
ForwardFails ==
    /\ pc = "failed" /\ ~Stalled
    /\ LET k == RequestedKeepAlive(req) /\ ~body.streaming  status == ErrorStatus(err) IN
        /\ out' = IF Open THEN ResponseWritten(out, status, 1, k) ELSE out
        /\ keep' = k /\ trace' = [trace EXCEPT !.status = status]
    /\ pc' = "record"
    /\ UNCHANGED <<flow, body, up, idle, err, expired>>

---------------------------------------------------------------------------
(* Environment *)

(* The client goes away, stops reading, or reads again.                     *)
ClientChanges ==
    /\ ~Gone /\ pc # "closed" /\ client' \in {"open", "stalled", "gone"} \ {client}
    /\ UNCHANGED <<pc, served, timer, req, body, acts, out, up, idle, err, keep, trace, expired>>

DeadlinePasses ==
    /\ pc \notin {"head", "closed", "record", "abandon"} /\ ~expired /\ expired' = TRUE
    /\ UNCHANGED <<pc, served, client, timer, req, body, acts, out, up, idle, err, keep, trace>>

Closed == pc = "closed" /\ UNCHANGED vars

Thread ==
    \/ HeadEnds \/ Unauthorized \/ HandleHead \/ ReadBody \/ BodyRead \/ BodyFails
    \/ Resolve \/ RequestDelay \/ RequestActions \/ RequestTotalTimeout \/ StatusAnswer \/ RedirectAnswer \/ MockAnswer \/ RecordSession \/ Abandon
    \/ Forward \/ Checkout \/ ConnectPooled \/ SendPooled \/ AwaitPooled
    \/ PooledFails \/ AnswerWithoutBody \/ AnswerResetContent \/ AnswerSmall \/ AnswerFixed
    \/ AnswerChunked \/ AnswerCloseDelimited \/ AnswerSse
    \/ Dispatch \/ Connect \/ UploadCell \/ UploadCut \/ UploadDone \/ UploadFails \/ Await
    \/ Upgrade \/ EventStream \/ AnswerStreamed \/ AnswerBuffered \/ AnswerH2 \/ CollectCell \/ CollectOverflows \/ CollectFails \/ CollectDone
    \/ RelayCell \/ StreamCell \/ SseCell \/ RelayFails \/ RelayDone \/ ForwardFails

Next == ReadHead \/ HeadMalformed \/ Thread \/ ClientChanges \/ DeadlinePasses \/ Closed

(* Every read of the thread, and every write to an origin, has a timeout, so *)
(* that the thread takes a step in the end whatever the peers do. Two things *)
(* are not limited: an event stream or a tunnel lasts as long as the origin  *)
(* sends something before each read times out, and a write to the client     *)
(* lasts until the client reads or goes away.                                *)
Untimed == pc = "relay" /\ up.mode \in {"sse", "tunnel"}
Held == Untimed \/ Stalled

Spec == Init /\ [][Next]_vars /\ WF_vars(Thread /\ ~Held)

---------------------------------------------------------------------------
(* Properties *)

(* The state keeps its shape. *)
TypeOK ==
    /\ pc \in {"head", "authorize", "body", "resolve", "delay", "actions", "local", "record", "abandon",
               "forward", "checkout", "send", "await", "answer", "dispatch", "connect", "upload",
               "collect", "relay", "failed", "closed"}
    /\ served \in 0..MaxRequests /\ client \in {"open", "stalled", "gone"}
    /\ timer \in BOOLEAN /\ keep \in BOOLEAN /\ expired \in BOOLEAN
    /\ out.heads \in 0..2 /\ up.left \in Nat /\ up.want \in Nat /\ body.unread \in Nat
    /\ trace.finished \in 0..1 /\ trace.aborted \in 0..1

(* A streamed response announces a length that is not that of its content:   *)
(* one that a res.header rule set, one that came beside a transfer coding    *)
(* and that an unpooled connection passes on in place of it, or one that a   *)
(* response without content came with and a rewritten status makes a         *)
(* promise. Nothing compares a length with content that the origin ends by   *)
(* closing.                                                                  *)
Misannounced ==
    /\ up.mode = "stream" /\ RelayedLength # NoLength
    /\ RelayedLength # OriginCells(req.method, up.head) \/ up.head.framing = "none"

(* Answers that do not end where the client expects: content in an error     *)
(* answer to HEAD, a false length, an interim response that was taken for    *)
(* the final one, and a second answer after an error that escaped.           *)
KnownMisframing ==
    \/ req.method = "HEAD" /\ out.status \in {407, 502, 504}
    \/ Misannounced
    \/ out.status \in Informational /\ out.status = up.head.status
    \/ out.heads = 2

(* When the loop of handle_client goes on to read another head from the same *)
(* connection, the request body has been read to its end, the client was     *)
(* told that the connection persists, and it can tell where the response     *)
(* ended: whatever path the request took, and wherever it failed.            *)
KeepAliveAligned ==
    pc = "head" /\ served > 0 =>
        /\ body.unread = 0
        /\ out.keep \/ Gone
        /\ Delimited(req.method, out) \/ KnownMisframing \/ Gone

(* A request is answered at most once: an error after the head was written   *)
(* closes the connection instead of adding an error page, except where it    *)
(* escapes from an unpooled event stream, a tunnel or a trailer rule.        *)
OneResponse ==
    out.heads > 1 => (up.kind = "h1" /\ up.mode \in {"sse", "tunnel"}) \/ acts.fails = "trailer"

(* A connection that try_pooled checks in for reuse has no byte of an        *)
(* earlier response in flight and none to come, unless a head on it was      *)
(* misread: an interim response, or a 205 whose content was not announced.   *)
PooledInSync == idle = NoIdle \/ idle.stray \/ (idle.left = 0 /\ idle.owed = 0)

(* Between requests the session of the last one is balanced: a started one   *)
(* was finished or aborted, once, by record_session_if_visible or by the     *)
(* guard, and a hidden one left nothing behind.                              *)
SessionBalanced ==
    pc \in {"head", "closed"} =>
        /\ ~trace.armed
        /\ trace.finished + trace.aborted = IF trace.started THEN 1 ELSE 0
        /\ trace.hidden => trace.finished = 0

(* A recorded session has the status the client was sent.                    *)
RecordedStatus ==
    pc \in {"head", "closed"} /\ ~Gone /\ trace.finished = 1 => trace.status = out.status

(* Every request ends: its session is recorded or aborted and the thread     *)
(* reads the next head or ends, unless the thread is held again and again,   *)
(* by an event stream or a tunnel that goes on or by a client that does not  *)
(* read.                                                                     *)
RequestEnds == <>[]~Held => (pc = "authorize" ~> pc \in {"head", "closed"})

\* Client and proxy never lose step: at most one response head per request, and the next
\* request is read only from behind a body that was read and a response that was
\* delimited (http_flow.rs, server.rs).
ClientInSync == TypeOK /\ KeepAliveAligned /\ OneResponse

\* A request's session is settled once, with the status the client got
\* (http_flow/completion.rs, SessionGuard).
SessionTruth == SessionBalanced /\ RecordedStatus

=============================================================================
