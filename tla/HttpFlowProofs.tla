--------------------------- MODULE HttpFlowProofs ---------------------------
(***************************************************************************)
(* What a connection thread keeps true of its client, of the pooled        *)
(* connection it leaves behind and of the session it traces, for every set *)
(* of requests, responses and rule outcomes, every buffer limit and every  *)
(* number of requests on the connection.                                   *)
(***************************************************************************)
EXTENDS HttpFlow, TLAPS

(***************************************************************************)
(* The shape of the state.                                                 *)
(***************************************************************************)
Phases == {"head", "authorize", "body", "resolve", "delay", "actions", "local", "record",
           "abandon", "forward", "checkout", "send", "await", "answer", "dispatch", "connect",
           "upload", "collect", "relay", "failed", "closed"}

RequestType ==
    [method : {"GET", "HEAD", "POST"}, version : {"1.0", "1.1"}, close : BOOLEAN,
     keep : BOOLEAN, body : {"none", "length", "chunked"}, size : Nat, expect : BOOLEAN, auth : BOOLEAN,
     target : BOOLEAN, ws : BOOLEAN, sse : BOOLEAN, tls : BOOLEAN]
HeadType ==
    [status : Nat, framing : {"none", "length", "chunked"}, size : Nat, also : Nat \cup {NoLength},
     persistent : BOOLEAN, sse : BOOLEAN, trailer : BOOLEAN]
OutcomeType ==
    [hide : BOOLEAN, delay : BOOLEAN, local : Nat \ Informational, status : Nat \ Informational,
     body : SUBSET {"rewrite", "delete", "trailer"}, length : Nat \cup {NoLength, Untouched},
     hideResponse : BOOLEAN, empty : BOOLEAN, by : {"none", "status", "redirect", "mock"},
     fails : {"none", "request", "local", "response", "trailer"}]
BodyType == [unread : Nat, held : Nat, streaming : BOOLEAN, cut : BOOLEAN]
OutType ==
    [heads : Nat, status : Nat, framing : {"none", "length", "chunked"}, left : Int,
     keep : BOOLEAN, content : Nat, ended : BOOLEAN]
Modes == {"none", "length", "chunked", "close", "sse", "tunnel", "stream", "buffer", "discard"}
UpType ==
    [kind : {"none", "pooled", "h1", "h2"}, reused : BOOLEAN, tries : Nat, left : Nat,
     owed : Int, stray : BOOLEAN, want : Nat, got : Nat, mode : Modes, head : HeadType]
IdleType == [left : Nat, owed : Int, stray : BOOLEAN]
TraceType ==
    [started : BOOLEAN, hidden : BOOLEAN, armed : BOOLEAN, status : Nat, finished : Nat,
     aborted : Nat]

\* Requests are begun below the bound only, so that answering one stays in it.
LoopTypes ==
    /\ pc \in Phases /\ client \in {"open", "stalled", "gone"}
    /\ timer \in BOOLEAN /\ keep \in BOOLEAN /\ expired \in BOOLEAN
    /\ served \in 0..MaxRequests
    /\ pc \notin {"head", "closed"} => served < MaxRequests
RecordTypes ==
    /\ req \in RequestType /\ acts \in OutcomeType /\ body \in BodyType /\ out \in OutType
WireTypes ==
    /\ up \in UpType /\ idle \in IdleType /\ trace \in TraceType
Types == LoopTypes /\ RecordTypes /\ WireTypes

(***************************************************************************)
(* The session: none before the rules, one that is guarded while the       *)
(* request is in hand, a balanced one between requests.                    *)
(***************************************************************************)
Unsettled(t) == t.armed = t.started /\ t.finished = 0 /\ t.aborted = 0

GuardInv ==
    /\ pc \in {"authorize", "body", "resolve"} => ~trace.started
    /\ pc \notin {"head", "closed"} => Unsettled(trace)
    /\ SessionBalanced

\* What is recorded is what was written.
StatusInv ==
    /\ pc = "record" /\ ~Gone => trace.status = out.status
    /\ RecordedStatus

SessionInv == GuardInv /\ StatusInv

(***************************************************************************)
(* The upstream connection: what the origin still sends on a pooled one is *)
(* what the reader still waits for, and it owes a head only between the    *)
(* request and its answer.                                                 *)
(***************************************************************************)
Before == {"authorize", "body", "resolve", "delay", "actions", "local", "forward", "dispatch",
           "connect"}

\* The content of the response in hand, on the connection and for the reader.
InStep(u) == u.stray \/ (u.owed = 0 /\ u.left = u.want)

UpstreamInv ==
    /\ pc \in Before => up = NoUpstream
    /\ pc = "checkout" =>
          up.kind = "none" /\ up.left = 0 /\ up.owed = 0 /\ up.got = 0
    /\ pc = "send" =>
          up.kind = "pooled" /\ up.got = 0 /\ (up.stray \/ (up.left = 0 /\ up.owed = 0))
    /\ pc \in {"upload", "await"} => up.got = 0
    /\ pc = "upload" => up.kind # "pooled"
    /\ pc = "await" /\ up.kind = "pooled" => up.stray \/ (up.left = 0 /\ up.owed = 1)
    /\ pc = "answer" =>
          /\ up.head \in Responses /\ up.got = 0
          /\ up.kind = "pooled" => up.stray \/ (up.owed = 0 /\ ~Misread(up.head))
          /\ up.kind # "pooled" \/ ~up.stray => up.left = OriginCells(req.method, up.head)
    /\ pc = "collect" /\ up.kind = "pooled" => InStep(up)
    /\ pc = "collect" /\ up.kind = "h2" =>
          up.want + up.got = OriginCells(req.method, up.head)
    /\ pc = "relay" /\ up.kind = "pooled" /\ up.mode \in {"length", "chunked"} => InStep(up)
    /\ PooledInSync

(***************************************************************************)
(* The request body: what is left in the client's socket.                  *)
(***************************************************************************)
BodyInv ==
    /\ pc \in {"authorize", "body"} => ~body.streaming /\ ~body.cut
    /\ pc = "authorize" => body.unread = RequestCells(req)
    /\ pc \notin {"head", "authorize", "body", "closed", "abandon"} =>
          body.streaming \/ body.unread = 0
    /\ pc \in {"checkout", "send", "await", "answer", "collect", "relay"} =>
          body.unread = 0 \/ body.cut
    /\ pc = "failed" /\ err = "client_body" => body.streaming
    /\ pc = "relay" /\ out.keep => ~body.cut
    /\ pc = "record" /\ keep => body.unread = 0
    /\ pc = "head" /\ served > 0 => body.unread = 0

(***************************************************************************)
(* The response: one head, and while it is relayed the client waits for as *)
(* many cells as the proxy does.                                           *)
(***************************************************************************)
Escaped == (up.kind = "h1" /\ up.mode \in {"sse", "tunnel"}) \/ acts.fails = "trailer"

\* Content that is passed on is delimited; content that is not passed on is not announced.
StreamedShape ==
    IF PassOn
    THEN \/ out.framing = "chunked" \/ ~out.keep
         \/ /\ out.framing = "length" /\ RelayedLength # NoLength
            /\ out.left = up.want \/ Misannounced
    ELSE /\ out.content = 0 /\ out.framing # "chunked"
         /\ ResponseCanSendContent(req.method, out.status) =>
               out.framing = "length" /\ out.left = 0

RelayShape ==
    /\ ~out.ended /\ (out.status \in Informational => out.status = up.head.status)
    /\ up.mode \in {"length", "chunked", "close", "sse", "tunnel", "stream"}
    /\ up.mode \in {"close", "sse", "tunnel"} => ~out.keep
    /\ up.mode = "length" => PassOn /\ out.framing = "length" /\ out.left = up.want
    /\ up.mode = "chunked" => PassOn /\ out.framing = "chunked"
    /\ up.mode = "stream" => StreamedShape

RelayInv == pc = "relay" => RelayShape

\* One head per request, and a second one only after an error that escaped.
HeadsInv ==
    /\ pc \notin {"head", "closed", "relay", "failed", "record"} => out.heads = 0
    /\ pc = "relay" => out.heads = 1
    /\ pc = "failed" => out.heads = 0 \/ (out.heads = 1 /\ Escaped)
    /\ pc \in {"head", "closed", "record"} => out.heads \in 0..1 \/ (out.heads = 2 /\ Escaped)

\* Where the connection persists the client was told so and can tell where its answer ended.
AnswersInv ==
    /\ pc = "record" /\ keep /\ ~Gone =>
          out.keep /\ (Delimited(req.method, out) \/ KnownMisframing)
    /\ pc = "head" /\ served > 0 /\ ~Gone =>
          out.keep /\ (Delimited(req.method, out) \/ KnownMisframing)

ResponseInv == HeadsInv /\ RelayInv /\ AnswersInv

\* The inductive invariant of the connection thread.
FlowInv == Types /\ SessionInv /\ UpstreamInv /\ BodyInv /\ ResponseInv

(***************************************************************************)
(* What the writers of HttpWire leave.                                     *)
(***************************************************************************)
Framings == {"none", "length", "chunked"}

\* The writers change the length and the content of a record and keep the rest.
Put(o, n, l) == [o EXCEPT !.content = n, !.left = l]

\* CellWritten, ResponseWritten and the prefix of a stream are such changes.
LEMMA PutKeeps ==
    ASSUME NEW o \in OutType, NEW n \in Nat, NEW l \in Int
    PROVE  /\ Put(o, n, l) \in OutType
           /\ Put(o, n, l).heads = o.heads /\ Put(o, n, l).status = o.status
           /\ Put(o, n, l).keep = o.keep /\ Put(o, n, l).framing = o.framing
           /\ Put(o, n, l).ended = o.ended
           /\ Put(o, n, l).content = n /\ Put(o, n, l).left = l
<1> DEFINE u == [o EXCEPT !.content = n, !.left = l]
<1>1. u \in OutType
  BY DEF OutType
<1>2. u.heads = o.heads /\ u.status = o.status /\ u.keep = o.keep
  BY DEF OutType
<1>3. u.framing = o.framing /\ u.ended = o.ended /\ u.content = n /\ u.left = l
  BY DEF OutType
<1> QED
  BY <1>1, <1>2, <1>3 DEF Put

\* write_response_head_with_connection adds one response head, with the status and the
\* persistence it is given.
LEMMA Written ==
    ASSUME NEW o \in OutType, NEW status \in Nat, NEW framing \in Framings, NEW length \in Int,
           NEW k \in BOOLEAN
    PROVE  /\ HeadWritten(o, status, framing, length, k) \in OutType
           /\ HeadWritten(o, status, framing, length, k).heads = o.heads + 1
           /\ HeadWritten(o, status, framing, length, k).status = status
           /\ HeadWritten(o, status, framing, length, k).keep = k
           /\ HeadWritten(o, status, framing, length, k).content = 0
           /\ HeadWritten(o, status, framing, length, k).ended = FALSE
<1> DEFINE w == HeadWritten(o, status, framing, length, k)
<1> DEFINE f == IF StatusCanSendContent(status) THEN framing
                ELSE IF status = 205 THEN "length" ELSE "none"
<1> DEFINE l == IF StatusCanSendContent(status) /\ framing = "length" THEN length ELSE 0
<1>1. f \in Framings /\ l \in Int /\ o.heads + 1 \in Nat
  BY DEF Framings, OutType
<1>2. w = [heads |-> o.heads + 1, status |-> status, framing |-> f, left |-> l, keep |-> k,
           content |-> 0, ended |-> FALSE]
  BY DEF HeadWritten
<1> HIDE DEF f, l
<1>3. w \in OutType /\ w.heads = o.heads + 1 /\ w.status = status /\ w.keep = k
  BY <1>1, <1>2 DEF OutType, Framings
<1>4. w.content = 0 /\ w.ended = FALSE
  BY <1>2
<1> QED
  BY <1>3, <1>4

\* write_response_with_version_and_connection adds one head too, and the content with it:
\* the length it announces is used up.
LEMMA WrittenWhole ==
    ASSUME NEW o \in OutType, NEW status \in Nat, NEW length \in Nat, NEW k \in BOOLEAN
    PROVE  /\ ResponseWritten(o, status, length, k) \in OutType
           /\ ResponseWritten(o, status, length, k).heads = o.heads + 1
           /\ ResponseWritten(o, status, length, k).status = status
           /\ ResponseWritten(o, status, length, k).keep = k
           /\ ResponseWritten(o, status, length, k).left = 0
           /\ ResponseWritten(o, status, length, k).content = length
           /\ ResponseWritten(o, status, length, k).ended = FALSE
           /\ StatusCanSendContent(status) =>
                 ResponseWritten(o, status, length, k).framing = "length"
<1> DEFINE b == HeadWritten(o, status, "length", length, k)
<1>1. b \in OutType /\ b.heads = o.heads + 1 /\ b.status = status /\ b.keep = k
  BY DEF HeadWritten, OutType
<1>2. b.ended = FALSE /\ (StatusCanSendContent(status) => b.framing = "length")
  BY DEF HeadWritten
<1>3. ResponseWritten(o, status, length, k) = Put(b, length, 0)
  <2> HIDE DEF b
  <2>1. [b EXCEPT !.left = 0, !.content = length] = Put(b, length, 0)
    BY <1>1 DEF Put, OutType
  <2> QED
    BY <2>1 DEF ResponseWritten, b
<1> HIDE DEF b
<1>4. b \in OutType /\ length \in Nat /\ 0 \in Int
  BY <1>1
<1>5. Put(b, length, 0) \in OutType
  BY <1>4, PutKeeps
<1>6. Put(b, length, 0).heads = b.heads /\ Put(b, length, 0).status = b.status
  BY <1>4, PutKeeps
<1>7. Put(b, length, 0).keep = b.keep /\ Put(b, length, 0).ended = b.ended
  BY <1>4, PutKeeps
<1>8. /\ Put(b, length, 0).left = 0 /\ Put(b, length, 0).content = length
      /\ Put(b, length, 0).framing = b.framing
  BY <1>4, PutKeeps
<1> QED
  BY <1>1, <1>2, <1>3, <1>5, <1>6, <1>7, <1>8

\* What has been written stays a record of the response.
LEMMA WrittenType ==
    ASSUME NEW o \in OutType, NEW status \in Nat, NEW framing \in Framings, NEW length \in Int,
           NEW k \in BOOLEAN
    PROVE  HeadWritten(o, status, framing, length, k) \in OutType
BY Written

\* So does a response written whole.
LEMMA WholeType ==
    ASSUME NEW o \in OutType, NEW status \in Nat, NEW length \in Nat, NEW k \in BOOLEAN
    PROVE  ResponseWritten(o, status, length, k) \in OutType
BY WrittenWhole

\* The head that has been written is the last one, with its status and persistence.
LEMMA HeadFields ==
    ASSUME NEW o \in OutType, NEW status \in Nat, NEW framing \in Framings, NEW length \in Int,
           NEW k \in BOOLEAN
    PROVE  /\ HeadWritten(o, status, framing, length, k).heads = o.heads + 1
           /\ HeadWritten(o, status, framing, length, k).status = status
           /\ HeadWritten(o, status, framing, length, k).keep = k
BY DEF HeadWritten

\* So is the head of a response written whole.
LEMMA WholeFields ==
    ASSUME NEW o \in OutType, NEW status \in Nat, NEW length \in Nat, NEW k \in BOOLEAN
    PROVE  /\ ResponseWritten(o, status, length, k).heads = o.heads + 1
           /\ ResponseWritten(o, status, length, k).status = status
           /\ ResponseWritten(o, status, length, k).keep = k
<1>1. /\ ResponseWritten(o, status, length, k).heads = o.heads + 1
      /\ ResponseWritten(o, status, length, k).status = status
  BY DEF ResponseWritten, HeadWritten
<1>2. ResponseWritten(o, status, length, k).keep = k
  BY DEF ResponseWritten, HeadWritten
<1> QED
  BY <1>1, <1>2

\* An answer that ends the connection adds one head.
LEMMA LastHead ==
    ASSUME NEW o, NEW status, o.heads = 0
    PROVE  ResponseWritten(o, status, 1, FALSE).heads = 1
BY DEF ResponseWritten, HeadWritten

\* A cell of content or the end of a body adds no head.
LEMMA Continued ==
    ASSUME NEW o \in OutType
    PROVE  /\ CellWritten(o) \in OutType /\ BodyEnded(o) \in OutType
           /\ CellWritten(o).heads = o.heads /\ BodyEnded(o).heads = o.heads
           /\ CellWritten(o).status = o.status /\ BodyEnded(o).status = o.status
           /\ CellWritten(o).keep = o.keep /\ BodyEnded(o).keep = o.keep
<1>1. o.content + 1 \in Nat /\ (IF o.framing = "length" THEN o.left - 1 ELSE o.left) \in Int
  BY DEF OutType
<1>3. CellWritten(o) = Put(o, o.content + 1,
                            IF o.framing = "length" THEN o.left - 1 ELSE o.left)
  BY DEF CellWritten, OutType, Put
<1>2. /\ BodyEnded(o).heads = o.heads /\ BodyEnded(o).status = o.status
      /\ BodyEnded(o).keep = o.keep /\ BodyEnded(o) \in OutType
  BY DEF BodyEnded, OutType
<1> DEFINE l == IF o.framing = "length" THEN o.left - 1 ELSE o.left
<1> DEFINE c == o.content + 1
<1>5. c \in Nat /\ l \in Int
  BY <1>1
<1>6. CellWritten(o) = Put(o, c, l)
  BY <1>3
<1> HIDE DEF c, l
<1>4. /\ Put(o, c, l) \in OutType /\ Put(o, c, l).heads = o.heads
      /\ Put(o, c, l).status = o.status /\ Put(o, c, l).keep = o.keep
  BY <1>5, PutKeeps
<1> QED
  BY <1>2, <1>6, <1>4

\* A message of the constants has the fields the flow reads.
LEMMA Messages ==
    /\ \A r \in Requests : r \in RequestType /\ RequestCells(r) \in Nat
    /\ \A h \in Responses : h \in HeadType
    /\ \A a \in Outcomes : a \in OutcomeType
    /\ NoRequest \in RequestType /\ NoActs \in OutcomeType /\ NoBody \in BodyType
    /\ NoUpstream \in UpType /\ NoIdle \in IdleType /\ NoTrace \in TraceType
    /\ NoResponse \in OutType
<1>1. Requests \subseteq RequestType /\ Responses \subseteq HeadType /\ Outcomes \subseteq OutcomeType
  BY MessagesAssumption DEF RequestType, HeadType, OutcomeType
<1>2. \A r \in RequestType : RequestCells(r) \in Nat
  BY DEF RequestType, RequestCells
<1>3. NoRequest \in RequestType /\ NoActs \in OutcomeType /\ NoBody \in BodyType
  BY DEF NoRequest, RequestType, NoActs, OutcomeType, NoBody, BodyType, Informational
<1>4. NoUpstream \in UpType /\ NoIdle \in IdleType
  BY DEF NoUpstream, UpType, Modes, HeadType, NoIdle, IdleType
<1>5. NoTrace \in TraceType /\ NoResponse \in OutType
  BY DEF NoTrace, TraceType, NoResponse, OutType
<1> QED
  BY <1>1, <1>2, <1>3, <1>4, <1>5

\* The status a relayed response has, the length and the persistence it may announce.
LEMMA Relayed ==
    ASSUME RecordTypes, WireTypes
    PROVE  /\ RelayedStatus \in Nat /\ ClientConnection \in BOOLEAN /\ LocalKeepAlive \in BOOLEAN
           /\ up.head \in HeadType /\ out \in OutType /\ up.got \in Nat /\ up.left \in Nat
           /\ up.want \in Nat /\ RelayedLength \in Int
           /\ RelayedStatus \in Informational => RelayedStatus = up.head.status
<1>1. up.head \in HeadType /\ acts.status \in Nat \ Informational
  BY DEF RecordTypes, WireTypes, UpType, OutcomeType
<1>2. up.got \in Nat /\ up.left \in Nat /\ up.want \in Nat
  BY DEF WireTypes, UpType
<1>3. up.head.status \in Nat
  BY <1>1 DEF HeadType
<1>4. RelayedLength \in Int
  <2>1. acts.length \in Int
    BY DEF RecordTypes, OutcomeType, NoLength, Untouched
  <2>2. ContentLength(up.head) \in Int
    BY <1>1 DEF HeadType, ContentLength, NoLength
  <2> QED
    BY <2>1, <2>2 DEF RelayedLength
<1>5. RelayedStatus \in Informational => RelayedStatus = up.head.status
  BY <1>1 DEF RelayedStatus
<1> QED
  BY <1>1, <1>2, <1>3, <1>4, <1>5 DEF RelayedStatus, ClientConnection, LocalKeepAlive, RecordTypes

\* The content of a stream goes to the client.
Sendable == ResponseCanSendContent(req.method, RelayedStatus) /\ up.head.status # 205

\* finish_streaming_response up to its head: it fails before anything is written, or it
\* writes one head, which announces the length that the response actions left, persists
\* only where content can be delimited, and announces no content that is not passed on.
LEMMA StreamHeadShape ==
    ASSUME RecordTypes, WireTypes, NEW want \in Nat, StreamHead(want)
    PROVE  \/ /\ pc' = "failed" /\ err' \in {"other", "total"}
              /\ UNCHANGED <<keep, trace, idle, out, up>>
           \/ /\ pc' = "relay" /\ UNCHANGED <<err, keep, trace, idle>>
              /\ up' = [up EXCEPT !.mode = "stream", !.want = want]
              /\ out' \in OutType /\ out'.heads = out.heads + 1 /\ ~out'.ended
              /\ out'.status = RelayedStatus /\ (out'.keep => ClientConnection)
              /\ Sendable =>
                    \/ out'.framing = "chunked" \/ ~out'.keep
                    \/ /\ out'.framing = "length" /\ RelayedLength # NoLength
                       /\ out'.left = RelayedLength - up.got
              /\ ~Sendable =>
                    /\ out'.content = 0 /\ out'.framing # "chunked"
                    /\ ResponseCanSendContent(req.method, RelayedStatus) =>
                          out'.framing = "length" /\ out'.left = 0
<1> DEFINE h == up.head
           status == RelayedStatus
           allowed == ResponseCanSendContent(req.method, status) /\ h.status # 205
           length == IF h.status = 205 /\ StatusCanSendContent(status) THEN 0 ELSE RelayedLength
           chunked == /\ allowed /\ req.version # "1.0"
                      /\ length = NoLength \/ h.trailer \/ "trailer" \in acts.body
           framing == IF chunked THEN "chunked" ELSE IF length # NoLength THEN "length" ELSE "none"
           k == ClientConnection /\ ~(allowed /\ framing = "none")
           written == HeadWritten(out, status, framing, length, k)
           prefix == IF allowed THEN up.got ELSE 0
           result == [written EXCEPT !.content = prefix,
                                     !.left = IF framing = "length" THEN @ - prefix ELSE @]
<1>1. /\ status \in Nat /\ RelayedLength \in Int /\ up.got \in Nat /\ out \in OutType
      /\ ClientConnection \in BOOLEAN
  BY Relayed
<1>2. framing \in Framings /\ k \in BOOLEAN /\ length \in Int /\ prefix \in Nat
  BY <1>1 DEF Framings
<1>3. \/ pc' = "failed" /\ err' \in {"other", "total"} /\ UNCHANGED <<keep, trace, idle, out, up>>
      \/ StartRelay("stream", want, result)
  BY DEF StreamHead, Failed, Fail
<1>5. /\ written.ended = FALSE /\ written.content = 0
      /\ StatusCanSendContent(status) => written.framing = framing
      /\ ~StatusCanSendContent(status) => written.framing # "chunked"
      /\ StatusCanSendContent(status) /\ framing = "length" => written.left = length
  BY DEF HeadWritten
<1>6. /\ allowed => StatusCanSendContent(status)
      /\ ~allowed => framing # "chunked"
      /\ ~allowed /\ ResponseCanSendContent(req.method, status) =>
            StatusCanSendContent(status) /\ framing = "length" /\ length = 0 /\ prefix = 0
      /\ allowed /\ framing = "length" =>
            RelayedLength # NoLength /\ length = RelayedLength /\ prefix = up.got
      /\ ~allowed => prefix = 0
      /\ k => ClientConnection
      /\ allowed /\ framing = "none" => ~k
  BY DEF ResponseCanSendContent, NoLength
<1> HIDE DEF allowed, length, chunked, framing, k, prefix
<1>4. /\ written \in OutType /\ written.heads = out.heads + 1 /\ written.status = status
      /\ written.keep = k
  <2>1. out \in OutType /\ status \in Nat /\ framing \in Framings /\ length \in Int /\ k \in BOOLEAN
    BY <1>1, <1>2
  <2> HIDE DEF status
  <2>2. written \in OutType
    BY <2>1, WrittenType
  <2>3. written.heads = out.heads + 1 /\ written.status = status /\ written.keep = k
    BY DEF HeadWritten
  <2> QED
    BY <2>2, <2>3
<1> HIDE DEF written
<1>7. /\ result \in OutType /\ result.heads = written.heads /\ result.status = written.status
      /\ result.keep = written.keep /\ result.ended = written.ended
      /\ result.content = prefix /\ result.framing = written.framing
      /\ framing = "length" => result.left = written.left - prefix
  <2>1. written.left \in Int /\ (IF framing = "length" THEN written.left - prefix ELSE written.left) \in Int
    BY <1>2, <1>4 DEF OutType
  <2> DEFINE l == IF framing = "length" THEN written.left - prefix ELSE written.left
  <2>2. result = Put(written, prefix, l)
    BY <1>4 DEF OutType, Put
  <2>3. framing = "length" => l = written.left - prefix
    OBVIOUS
  <2>4. l \in Int
    BY <2>1
  <2> HIDE DEF result, l
  <2>5. written \in OutType /\ prefix \in Nat
    BY <1>2, <1>4
  <2>6. Put(written, prefix, l) \in OutType
    BY <2>4, <2>5, PutKeeps
  <2>7. /\ Put(written, prefix, l).heads = written.heads
        /\ Put(written, prefix, l).status = written.status
        /\ Put(written, prefix, l).keep = written.keep
        /\ Put(written, prefix, l).ended = written.ended
        /\ Put(written, prefix, l).content = prefix
        /\ Put(written, prefix, l).framing = written.framing
        /\ Put(written, prefix, l).left = l
    BY <2>4, <2>5, PutKeeps
  <2> QED
    BY <2>2, <2>3, <2>6, <2>7
<1> HIDE DEF result
<1>8. allowed => \/ result.framing = "chunked" \/ ~result.keep
                 \/ /\ result.framing = "length" /\ RelayedLength # NoLength
                    /\ result.left = RelayedLength - up.got
  BY <1>2, <1>4, <1>5, <1>6, <1>7 DEF Framings
<1>9. ~allowed => /\ result.content = 0 /\ result.framing # "chunked"
                  /\ ResponseCanSendContent(req.method, status) =>
                        result.framing = "length" /\ result.left = 0
  BY <1>2, <1>4, <1>5, <1>6, <1>7 DEF Framings
<1>10. /\ result \in OutType /\ result.heads = out.heads + 1 /\ ~result.ended
       /\ result.status = status /\ (result.keep => ClientConnection)
  BY <1>4, <1>5, <1>6, <1>7
<1> QED
  BY <1>3, <1>8, <1>9, <1>10 DEF StartRelay, allowed, Sendable

\* The loop of handle_client keeps its phase, its flags and its count of requests in
\* their ranges.
LEMMA LoopTypesStep ==
    ASSUME LoopTypes, RecordTypes, WireTypes, [Next]_vars
    PROVE  LoopTypes'
<1>1. CASE ReadHead
  BY <1>1, LimitsAssumption DEF ReadHead, Open, Gone, LoopTypes, Phases
<1>2. CASE HeadMalformed
  BY <1>2, LimitsAssumption DEF HeadMalformed, Open, Gone, LoopTypes, Phases
<1>3. CASE HeadEnds
  BY <1>3, LimitsAssumption DEF HeadEnds, LoopTypes, Phases
<1>4. CASE Unauthorized
  <2> DEFINE K == RequestedKeepAlive(req) /\ ~HasBody(req)
  <2>1. K \in BOOLEAN
    OBVIOUS
  <2> HIDE DEF K
  <2>2. /\ pc = "authorize" /\ pc' \in {"head", "closed"} /\ served' \in {served, served + 1}
        /\ keep' \in {K, keep} /\ UNCHANGED <<timer, client, expired>>
    BY <1>4 DEF Unauthorized, K
  <2> QED
    BY <2>1, <2>2, LimitsAssumption DEF LoopTypes, Phases
<1>5. CASE HandleHead
  BY <1>5, LimitsAssumption DEF HandleHead, Open, Gone, flow, LoopTypes, Phases
<1>6. CASE ReadBody
  BY <1>6, LimitsAssumption DEF ReadBody, Open, Gone, flow, LoopTypes, Phases
<1>7. CASE BodyRead
  BY <1>7, LimitsAssumption DEF BodyRead, LoopTypes, Phases
<1>8. CASE BodyFails
  BY <1>8, LimitsAssumption DEF BodyFails, Open, Gone, LoopTypes, Phases
<1>9. CASE Resolve
  BY <1>9, LimitsAssumption DEF Resolve, LoopTypes, Phases
<1>10. CASE RequestDelay
  BY <1>10, LimitsAssumption DEF RequestDelay, flow, LoopTypes, Phases
<1>11. CASE RequestActions
  BY <1>11, LimitsAssumption DEF RequestActions, flow, LoopTypes, Phases
<1>12. CASE RequestTotalTimeout
  BY <1>12, LimitsAssumption DEF RequestTotalTimeout, Open, Gone, LocalKeepAlive, flow,
     RequestedKeepAlive, LoopTypes, Phases
<1>13. CASE StatusAnswer
  BY <1>13, LimitsAssumption DEF StatusAnswer, Answered, Open, Gone, LocalKeepAlive, flow,
     RequestedKeepAlive, LoopTypes, Phases
<1>14. CASE RedirectAnswer
  BY <1>14, LimitsAssumption DEF RedirectAnswer, Answered, LocalKeepAlive, Open, Gone, flow,
     RequestedKeepAlive, LoopTypes, Phases
<1>15. CASE MockAnswer
  BY <1>15, LimitsAssumption DEF MockAnswer, Answered, Open, Gone, LocalKeepAlive, flow,
     RequestedKeepAlive, LoopTypes, Phases
<1>16. CASE RecordSession
  BY <1>16, LimitsAssumption DEF RecordSession, NextTurn, LoopTypes, Phases
<1>17. CASE Abandon
  BY <1>17, LimitsAssumption DEF Abandon, flow, LoopTypes, Phases
<1>18. CASE Forward
  BY <1>18, LimitsAssumption DEF Forward, flow, LoopTypes, Phases
<1>19. CASE Checkout
  BY <1>19, LimitsAssumption DEF Checkout, flow, LoopTypes, Phases
<1>20. CASE ConnectPooled
  BY <1>20, LimitsAssumption DEF ConnectPooled, Fail, flow, LoopTypes, Phases
<1>21. CASE SendPooled
  BY <1>21, LimitsAssumption DEF SendPooled, Fail, flow, LoopTypes, Phases
<1>22. CASE AwaitPooled
  BY <1>22, LimitsAssumption DEF AwaitPooled, Fail, flow, LoopTypes, Phases
<1>23. CASE PooledFails
  BY <1>23, LimitsAssumption DEF PooledFails, Failed, Open, Gone, flow, Fail, LoopTypes, Phases
<1>24. CASE AnswerWithoutBody
  BY <1>24, LimitsAssumption DEF AnswerWithoutBody, Pooled, Open, Gone, ClientConnection, Settle,
     flow, RequestedKeepAlive, LoopTypes, Phases
<1>25. CASE AnswerResetContent
  BY <1>25, LimitsAssumption DEF AnswerResetContent, Pooled, StartCollect, flow, LoopTypes,
     Phases
<1>26. CASE AnswerSmall
  BY <1>26, LimitsAssumption DEF AnswerSmall, Pooled, StartCollect, flow, LoopTypes, Phases
<1>27. CASE AnswerFixed
  BY <1>27, LimitsAssumption DEF AnswerFixed, Pooled, Open, Gone, StartRelay, ClientConnection,
     flow, RequestedKeepAlive, LoopTypes, Phases
<1>28. CASE AnswerChunked
  BY <1>28, LimitsAssumption DEF AnswerChunked, Pooled, Open, Gone, StartRelay, ClientConnection,
     flow, RequestedKeepAlive, LoopTypes, Phases
<1>29. CASE AnswerCloseDelimited
  BY <1>29, LimitsAssumption DEF AnswerCloseDelimited, Pooled, Open, Gone, StartRelay, flow,
     LoopTypes, Phases
<1>30. CASE AnswerSse
  BY <1>30, LimitsAssumption DEF AnswerSse, Pooled, Open, Gone, StartRelay, flow, LoopTypes,
     Phases
<1>31. CASE Dispatch
  BY <1>31, LimitsAssumption DEF Dispatch, H2Answers, flow, Fail, LoopTypes, Phases
<1>32. CASE Connect
  BY <1>32, LimitsAssumption DEF Connect, H2Answers, Fail, flow, LoopTypes, Phases
<1>33. CASE UploadCell
  BY <1>33, LimitsAssumption DEF UploadCell, Open, Gone, flow, LoopTypes, Phases
<1>34. CASE UploadCut
  BY <1>34, LimitsAssumption DEF UploadCut, flow, LoopTypes, Phases
<1>35. CASE UploadDone
  BY <1>35, LimitsAssumption DEF UploadDone, LoopTypes, Phases
<1>36. CASE UploadFails
  BY <1>36, LimitsAssumption DEF UploadFails, Fail, LoopTypes, Phases
<1>37. CASE Await
  BY <1>37, LimitsAssumption DEF Await, Fail, flow, LoopTypes, Phases
<1>38. CASE Upgrade
  BY <1>38, LimitsAssumption DEF Upgrade, Unpooled, LongLived, flow, Open, Gone, Failed,
     StartRelay, Fail, LoopTypes, Phases
<1>39. CASE EventStream
  BY <1>39, LimitsAssumption DEF EventStream, Unpooled, LongLived, flow, Open, Gone, Failed,
     StartRelay, Fail, LoopTypes, Phases
<1>40. CASE AnswerStreamed
  BY <1>40, LimitsAssumption DEF AnswerStreamed, Unpooled, StreamHead, flow,
     ClientConnection, Failed, Open, Gone, StartRelay, RequestedKeepAlive, Fail, LoopTypes, Phases
<1>41. CASE AnswerBuffered
  BY <1>41, LimitsAssumption DEF AnswerBuffered, Unpooled, StartCollect, flow, LoopTypes,
     Phases
<1>42. CASE AnswerH2
  BY <1>42, LimitsAssumption DEF AnswerH2, StartCollect, StreamHead, flow, ClientConnection,
     Failed, Open, Gone, StartRelay, RequestedKeepAlive, Fail, LoopTypes, Phases
<1>43. CASE CollectCell
  BY <1>43, LimitsAssumption DEF CollectCell, flow, LoopTypes, Phases
<1>44. CASE CollectOverflows
  BY <1>44, LimitsAssumption DEF CollectOverflows, StreamHead, flow, ClientConnection,
     Failed, Open, Gone, StartRelay, RequestedKeepAlive, Fail, LoopTypes, Phases
<1>45. CASE CollectFails
  BY <1>45, LimitsAssumption DEF CollectFails, Failed, flow, Fail, LoopTypes, Phases
<1>46. CASE CollectDone
  BY <1>46, LimitsAssumption DEF CollectDone, ClientConnection, Open, Gone, Failed, Settle, flow,
     RequestedKeepAlive, Fail, LoopTypes, Phases
<1>47. CASE RelayCell
  BY <1>47, LimitsAssumption DEF RelayCell, Open, Gone, flow, LoopTypes, Phases
<1>48. CASE StreamCell
  BY <1>48, LimitsAssumption DEF StreamCell, Open, Gone, flow, LoopTypes, Phases
<1>49. CASE SseCell
  BY <1>49, LimitsAssumption DEF SseCell, Open, Gone, flow, LoopTypes, Phases
<1>50. CASE RelayFails
  BY <1>50, LimitsAssumption DEF RelayFails, Open, Gone, Failed, Settle, flow, Fail, LoopTypes,
     Phases
<1>51. CASE RelayDone
  BY <1>51, LimitsAssumption DEF RelayDone, Open, Gone, Failed, Settle, flow, Fail, LoopTypes,
     Phases, RecordTypes, OutType
<1>52. CASE ForwardFails
  BY <1>52, LimitsAssumption DEF ForwardFails, RequestedKeepAlive, Open, Gone, flow, LoopTypes,
     Phases
<1>53. CASE ClientChanges
  BY <1>53, LimitsAssumption DEF ClientChanges, Open, Gone, LoopTypes, Phases
<1>54. CASE DeadlinePasses
  BY <1>54, LimitsAssumption DEF DeadlinePasses, LoopTypes, Phases
<1>55. CASE Closed
  BY <1>55, LimitsAssumption DEF Closed, vars, LoopTypes, Phases
<1>56. CASE UNCHANGED vars
  BY <1>56 DEF vars, LoopTypes, Phases
<1>57. QED
  BY <1>1, <1>2, <1>3, <1>4, <1>5, <1>6, <1>7, <1>8, <1>9, <1>10, <1>11, <1>12,
     <1>13, <1>14, <1>15, <1>16, <1>17, <1>18, <1>19, <1>20, <1>21, <1>22, <1>23,
     <1>24, <1>25, <1>26, <1>27, <1>28, <1>29, <1>30, <1>31, <1>32, <1>33, <1>34,
     <1>35, <1>36, <1>37, <1>38, <1>39, <1>40, <1>41, <1>42, <1>43, <1>44, <1>45,
     <1>46, <1>47, <1>48, <1>49, <1>50, <1>51, <1>52, <1>53, <1>54, <1>55, <1>56 DEF Next, Thread

\* The request, the rule outcome, the body and the response in hand keep their fields.
LEMMA RecordTypesStep ==
    ASSUME RecordTypes, WireTypes, [Next]_vars
    PROVE  RecordTypes'
<1>1. CASE ReadHead
  <2>1. PICK r \in Requests : req' = r /\ body' = [NoBody EXCEPT !.unread = RequestCells(r)]
    BY <1>1 DEF ReadHead
  <2>2. RequestCells(r) \in Nat /\ r \in RequestType /\ NoBody \in BodyType
    BY Messages
  <2>3. [NoBody EXCEPT !.unread = RequestCells(r)] \in BodyType
    BY <2>2 DEF BodyType
  <2> QED
    BY <1>1, <2>1, <2>2, <2>3, Messages DEF ReadHead, RecordTypes
<1>2. CASE HeadMalformed
  <2>1. NoResponse \in OutType /\ 400 \in Nat /\ 431 \in Nat /\ 1 \in Nat /\ FALSE \in BOOLEAN
    BY Messages
  <2> DEFINE bad == ResponseWritten(NoResponse, 400, 1, FALSE)
             long == ResponseWritten(NoResponse, 431, 1, FALSE)
  <2>a. PICK none, one, no : none = NoResponse /\ one = 1 /\ no = FALSE
    OBVIOUS
  <2>b. none \in OutType /\ one \in Nat /\ no \in BOOLEAN
    BY <2>1, <2>a
  <2>c. \A s \in Nat : ResponseWritten(none, s, one, no) \in OutType
    BY ONLY <2>b, WholeType
  <2>2. bad \in OutType /\ long \in OutType
    BY ONLY <2>1, <2>a, <2>c
  <2>3. (out' = bad \/ out' = long) /\ req' = NoRequest /\ body' = NoBody /\ acts' = acts
    BY <1>2 DEF HeadMalformed
  <2> HIDE DEF bad, long
  <2>4. NoRequest \in RequestType /\ NoBody \in BodyType
    BY Messages
  <2>5. out' \in OutType
    BY <2>2, <2>3
  <2> QED
    BY <2>3, <2>4, <2>5 DEF RecordTypes
<1>3. CASE HeadEnds
  BY <1>3 DEF HeadEnds, RecordTypes
<1>4. CASE Unauthorized
  <2> DEFINE K == RequestedKeepAlive(req) /\ ~HasBody(req)
  <2>1. out \in OutType /\ 407 \in Nat /\ 1 \in Nat /\ K \in BOOLEAN
    BY DEF RecordTypes
  <2>2. ResponseWritten(out, 407, 1, K) \in OutType
    <3> HIDE DEF K
    <3> QED BY <2>1, WholeType
  <2>3. out' \in {out, ResponseWritten(out, 407, 1, K)} /\ UNCHANGED <<req, acts, body>>
    BY <1>4 DEF Unauthorized
  <2> QED
    BY <2>1, <2>2, <2>3 DEF RecordTypes
<1>5. CASE HandleHead
  BY <1>5 DEF HandleHead, flow, RecordTypes
<1>6. CASE ReadBody
  <2> DEFINE H == IF req.body = "chunked" /\ body.unread = 1 THEN body.held ELSE body.held + 1
  <2>1. body.unread - 1 \in Nat /\ H \in Nat /\ body \in BodyType
    BY <1>6 DEF ReadBody, RecordTypes, BodyType
  <2>2. body' = [body EXCEPT !.unread = body.unread - 1, !.held = H] /\ UNCHANGED <<req, acts, out>>
    BY <1>6, <2>1 DEF ReadBody, flow, BodyType
  <2> HIDE DEF H
  <2>3. [body EXCEPT !.unread = body.unread - 1, !.held = H] \in BodyType
    BY <2>1 DEF BodyType
  <2> QED
    BY <2>2, <2>3 DEF RecordTypes
<1>7. CASE BodyRead
  BY <1>7 DEF BodyRead, RecordTypes, BodyType, BodyStreams
<1>8. CASE BodyFails
  <2>1. out \in OutType /\ 1 \in Nat /\ FALSE \in BOOLEAN
    BY DEF RecordTypes
  <2>2. \A e : InputErrorStatus(e) \in Nat
    BY DEF InputErrorStatus
  <2>3. \A e : ResponseWritten(out, InputErrorStatus(e), 1, FALSE) \in OutType
    BY <2>1, <2>2, WholeType
  <2>4. out' \in OutType /\ UNCHANGED <<req, acts, body>>
    BY <1>8, <2>1, <2>3 DEF BodyFails
  <2> QED
    BY <2>4 DEF RecordTypes
<1>9. CASE Resolve
  BY <1>9, Messages DEF Resolve, RecordTypes
<1>10. CASE RequestDelay
  BY <1>10 DEF RequestDelay, flow, RecordTypes
<1>11. CASE RequestActions
  BY <1>11 DEF RequestActions, flow, RecordTypes
<1>12. CASE RequestTotalTimeout
  <2>1. out \in OutType /\ 504 \in Nat /\ 1 \in Nat /\ LocalKeepAlive \in BOOLEAN
    BY Relayed DEF RecordTypes
  <2>2. ResponseWritten(out, 504, 1, LocalKeepAlive) \in OutType
    BY <2>1, WholeType
  <2>3. out' \in {out, ResponseWritten(out, 504, 1, LocalKeepAlive)} /\ UNCHANGED <<req, acts, body>>
    BY <1>12 DEF RequestTotalTimeout, flow
  <2> QED
    BY <2>1, <2>2, <2>3 DEF RecordTypes
<1>13. CASE StatusAnswer
  <2>1. out \in OutType /\ acts.local \in Nat /\ 1 \in Nat /\ LocalKeepAlive \in BOOLEAN
        /\ "length" \in Framings
    BY Relayed DEF RecordTypes, OutcomeType, Framings
  <2>2. LocalResponse(acts.local, 1) \in OutType
    BY <2>1, WrittenType, WholeType DEF LocalResponse
  <2>3. out' \in {out, LocalResponse(acts.local, 1)} /\ UNCHANGED <<req, acts, body>>
    BY <1>13 DEF StatusAnswer, Answered, flow
  <2> QED
    BY <2>1, <2>2, <2>3 DEF RecordTypes
<1>14. CASE RedirectAnswer
  <2>1. out \in OutType /\ 302 \in Nat /\ 0 \in Int /\ LocalKeepAlive \in BOOLEAN
    BY Relayed DEF RecordTypes
  <2>2. ResponseWritten(out, 302, 0, LocalKeepAlive) \in OutType
    BY <2>1, WholeType
  <2>3. out' \in {out, ResponseWritten(out, 302, 0, LocalKeepAlive)} /\ UNCHANGED <<req, acts, body>>
    BY <1>14 DEF RedirectAnswer, Answered, flow
  <2> QED
    BY <2>1, <2>2, <2>3 DEF RecordTypes
<1>15. CASE MockAnswer
  <2>1. out \in OutType /\ acts.local \in Nat /\ 2 \in Nat /\ LocalKeepAlive \in BOOLEAN
        /\ "length" \in Framings
    BY Relayed DEF RecordTypes, OutcomeType, Framings
  <2>2. LocalResponse(acts.local, 2) \in OutType
    BY <2>1, WrittenType, WholeType DEF LocalResponse
  <2>3. out' \in {out, LocalResponse(acts.local, 2)} /\ UNCHANGED <<req, acts, body>>
    BY <1>15 DEF MockAnswer, Answered, flow
  <2> QED
    BY <2>1, <2>2, <2>3 DEF RecordTypes
<1>16. CASE RecordSession
  BY <1>16 DEF RecordSession, RecordTypes
<1>17. CASE Abandon
  BY <1>17 DEF Abandon, flow, RecordTypes
<1>18. CASE Forward
  BY <1>18 DEF Forward, flow, RecordTypes
<1>19. CASE Checkout
  BY <1>19 DEF Checkout, flow, RecordTypes
<1>20. CASE ConnectPooled
  BY <1>20 DEF ConnectPooled, flow, RecordTypes
<1>21. CASE SendPooled
  BY <1>21 DEF SendPooled, flow, RecordTypes
<1>22. CASE AwaitPooled
  BY <1>22 DEF AwaitPooled, flow, RecordTypes
<1>23. CASE PooledFails
  BY <1>23 DEF PooledFails, flow, RecordTypes
<1>24. CASE AnswerWithoutBody
  <2> DEFINE F == IF ContentLength(up.head) = NoLength THEN "none" ELSE "length"
             L == ContentLength(up.head)
  <2>1. out \in OutType /\ up.head.status \in Nat /\ F \in Framings /\ L \in Int
        /\ ClientConnection \in BOOLEAN
    BY Relayed DEF HeadType, Framings, ContentLength, NoLength
  <2>2. HeadWritten(out, up.head.status, F, L, ClientConnection) \in OutType
    <3> HIDE DEF F, L
    <3> QED BY <2>1, WrittenType
  <2> QED
    BY <1>24, <2>2 DEF AnswerWithoutBody, Settle, flow, RecordTypes
<1>25. CASE AnswerResetContent
  BY <1>25 DEF AnswerResetContent, StartCollect, flow, RecordTypes
<1>26. CASE AnswerSmall
  BY <1>26 DEF AnswerSmall, StartCollect, flow, RecordTypes
<1>27. CASE AnswerFixed
  <2>1. out \in OutType /\ up.head.status \in Nat /\ "length" \in Framings /\ up.head.size \in Int
        /\ ClientConnection \in BOOLEAN
    BY Relayed DEF HeadType, Framings
  <2>2. HeadWritten(out, up.head.status, "length", up.head.size, ClientConnection) \in OutType
    BY <2>1, WrittenType
  <2> QED
    BY <1>27, <2>2 DEF AnswerFixed, StartRelay, flow, RecordTypes
<1>28. CASE AnswerChunked
  <2>1. out \in OutType /\ up.head.status \in Nat /\ "chunked" \in Framings /\ 0 \in Int
        /\ ClientConnection \in BOOLEAN
    BY Relayed DEF HeadType, Framings
  <2>2. HeadWritten(out, up.head.status, "chunked", 0, ClientConnection) \in OutType
    BY <2>1, WrittenType
  <2> QED
    BY <1>28, <2>2 DEF AnswerChunked, StartRelay, flow, RecordTypes
<1>29. CASE AnswerCloseDelimited
  <2>1. out \in OutType /\ up.head.status \in Nat /\ "none" \in Framings /\ 0 \in Int
        /\ FALSE \in BOOLEAN
    BY Relayed DEF HeadType, Framings
  <2>2. HeadWritten(out, up.head.status, "none", 0, FALSE) \in OutType
    BY <2>1, WrittenType
  <2> QED
    BY <1>29, <2>2 DEF AnswerCloseDelimited, StartRelay, flow, RecordTypes
<1>30. CASE AnswerSse
  <2>1. out \in OutType /\ up.head.status \in Nat /\ "none" \in Framings /\ 0 \in Int
        /\ FALSE \in BOOLEAN
    BY Relayed DEF HeadType, Framings
  <2>2. HeadWritten(out, up.head.status, "none", 0, FALSE) \in OutType
    BY <2>1, WrittenType
  <2> QED
    BY <1>30, <2>2 DEF AnswerSse, StartRelay, flow, RecordTypes
<1>31. CASE Dispatch
  BY <1>31 DEF Dispatch, flow, RecordTypes
<1>32. CASE Connect
  BY <1>32 DEF Connect, flow, RecordTypes
<1>33. CASE UploadCell
  BY <1>33 DEF UploadCell, flow, RecordTypes, BodyType
<1>34. CASE UploadCut
  BY <1>34 DEF UploadCut, flow, RecordTypes, BodyType
<1>35. CASE UploadDone
  BY <1>35 DEF UploadDone, RecordTypes
<1>36. CASE UploadFails
  BY <1>36 DEF UploadFails, RecordTypes
<1>37. CASE Await
  BY <1>37 DEF Await, flow, RecordTypes
<1>38. CASE Upgrade
  <2>1. out \in OutType /\ RelayedStatus \in Nat /\ "none" \in Framings /\ 0 \in Int /\ FALSE \in BOOLEAN
    BY Relayed DEF Framings
  <2>2. HeadWritten(out, RelayedStatus, "none", 0, FALSE) \in OutType
    BY <2>1, WrittenType
  <2> QED
    BY <1>38, <2>2 DEF Upgrade, LongLived, StartRelay, flow, RecordTypes
<1>39. CASE EventStream
  <2>1. out \in OutType /\ RelayedStatus \in Nat /\ "none" \in Framings /\ 0 \in Int /\ FALSE \in BOOLEAN
    BY Relayed DEF Framings
  <2>2. HeadWritten(out, RelayedStatus, "none", 0, FALSE) \in OutType
    BY <2>1, WrittenType
  <2> QED
    BY <1>39, <2>2 DEF EventStream, LongLived, StartRelay, flow, RecordTypes
<1>40. CASE AnswerStreamed
  <2> DEFINE W == IF StreamFraming(req.method, up.head) = "empty" THEN 0 ELSE up.head.size
  <2>1. W \in Nat /\ out \in OutType
    BY Relayed DEF HeadType
  <2>2. StreamHead(W) => out' \in OutType
    <3> HIDE DEF W
    <3> QED BY <2>1, StreamHeadShape
  <2>3. out' \in OutType /\ UNCHANGED <<req, acts, body>>
    BY <1>40, <2>1, <2>2 DEF AnswerStreamed, StartCollect, flow
  <2> QED
    BY <2>3 DEF RecordTypes
<1>41. CASE AnswerBuffered
  BY <1>41 DEF AnswerBuffered, StartCollect, flow, RecordTypes
<1>42. CASE AnswerH2
  <2> DEFINE W == up.left
  <2>1. W \in Nat /\ out \in OutType
    BY Relayed DEF HeadType
  <2>2. StreamHead(W) => out' \in OutType
    <3> HIDE DEF W
    <3> QED BY <2>1, StreamHeadShape
  <2>3. out' \in OutType /\ UNCHANGED <<req, acts, body>>
    BY <1>42, <2>1, <2>2 DEF AnswerH2, StartCollect, flow
  <2> QED
    BY <2>3 DEF RecordTypes
<1>43. CASE CollectCell
  BY <1>43 DEF CollectCell, flow, RecordTypes
<1>44. CASE CollectOverflows
  <2> DEFINE W == up.want
  <2>1. W \in Nat /\ out \in OutType
    BY Relayed DEF HeadType
  <2>2. StreamHead(W) => out' \in OutType
    <3> HIDE DEF W
    <3> QED BY <2>1, StreamHeadShape
  <2>3. out' \in OutType /\ UNCHANGED <<req, acts, body>>
    BY <1>44, <2>1, <2>2 DEF CollectOverflows, StartCollect, flow
  <2> QED
    BY <2>3 DEF RecordTypes
<1>45. CASE CollectFails
  BY <1>45 DEF CollectFails, flow, RecordTypes
<1>46. CASE CollectDone
  <2> DEFINE size == IF up.head.status = 205 THEN 0 ELSE up.got
  <2>1. out \in OutType /\ RelayedStatus \in Nat /\ size \in Nat /\ ClientConnection \in BOOLEAN
        /\ "length" \in Framings
    BY Relayed DEF Framings
  <2>2. /\ ResponseWritten(out, RelayedStatus, size, ClientConnection) \in OutType
        /\ HeadWritten(out, RelayedStatus, "length", size, ClientConnection) \in OutType
    <3> HIDE DEF size
    <3> QED BY <2>1, WrittenType, WholeType
  <2>3. /\ out' \in {out, ResponseWritten(out, RelayedStatus, size, ClientConnection),
                     HeadWritten(out, RelayedStatus, "length", size, ClientConnection)}
        /\ UNCHANGED <<req, acts, body>>
    BY <1>46 DEF CollectDone, flow
  <2> QED
    BY <2>1, <2>2, <2>3 DEF RecordTypes
<1>47. CASE RelayCell
  <2>1. out' \in {out, CellWritten(out), BodyEnded(out)} /\ UNCHANGED <<req, acts, body>>
    BY <1>47 DEF RelayCell, flow
  <2> QED
    BY <2>1, Continued DEF RecordTypes
<1>48. CASE StreamCell
  <2>1. out' \in {out, CellWritten(out), BodyEnded(out)} /\ UNCHANGED <<req, acts, body>>
    BY <1>48 DEF StreamCell, flow
  <2> QED
    BY <2>1, Continued DEF RecordTypes
<1>49. CASE SseCell
  <2>1. out' \in {out, CellWritten(out), BodyEnded(out)} /\ UNCHANGED <<req, acts, body>>
    BY <1>49 DEF SseCell, flow
  <2> QED
    BY <2>1, Continued DEF RecordTypes
<1>50. CASE RelayFails
  BY <1>50 DEF RelayFails, flow, RecordTypes
<1>51. CASE RelayDone
  <2>1. out' \in {out, CellWritten(out), BodyEnded(out)} /\ UNCHANGED <<req, acts, body>>
    BY <1>51 DEF RelayDone, flow
  <2> QED
    BY <2>1, Continued DEF RecordTypes
<1>52. CASE ForwardFails
  <2> DEFINE K == RequestedKeepAlive(req) /\ ~body.streaming
  <2>1. out \in OutType /\ ErrorStatus(err) \in Nat /\ 1 \in Nat /\ K \in BOOLEAN
    BY DEF RecordTypes, ErrorStatus
  <2>2. ResponseWritten(out, ErrorStatus(err), 1, K) \in OutType
    <3> HIDE DEF K
    <3> QED BY <2>1, WholeType
  <2>3. out' \in {out, ResponseWritten(out, ErrorStatus(err), 1, K)} /\ UNCHANGED <<req, acts, body>>
    BY <1>52 DEF ForwardFails, flow
  <2> QED
    BY <2>1, <2>2, <2>3 DEF RecordTypes
<1>53. CASE ClientChanges
  BY <1>53 DEF ClientChanges, RecordTypes
<1>54. CASE DeadlinePasses
  BY <1>54 DEF DeadlinePasses, RecordTypes
<1>55. CASE Closed
  BY <1>55 DEF Closed, vars, RecordTypes
<1>56. CASE UNCHANGED vars
  BY <1>56 DEF vars, RecordTypes
<1>57. QED
  BY <1>1, <1>2, <1>3, <1>4, <1>5, <1>6, <1>7, <1>8, <1>9, <1>10, <1>11, <1>12,
     <1>13, <1>14, <1>15, <1>16, <1>17, <1>18, <1>19, <1>20, <1>21, <1>22, <1>23,
     <1>24, <1>25, <1>26, <1>27, <1>28, <1>29, <1>30, <1>31, <1>32, <1>33, <1>34,
     <1>35, <1>36, <1>37, <1>38, <1>39, <1>40, <1>41, <1>42, <1>43, <1>44, <1>45,
     <1>46, <1>47, <1>48, <1>49, <1>50, <1>51, <1>52, <1>53, <1>54, <1>55, <1>56 DEF Next, Thread

\* session::begin, record_session_if_visible and the destructor of the guard keep the
\* fields of a session.
LEMMA Settlings ==
    ASSUME WireTypes
    PROVE  /\ \A hide \in BOOLEAN : SessionBegun(hide) \in TraceType
           /\ \A t \in TraceType : GuardDropped(t) \in TraceType
           /\ \A taken \in BOOLEAN : Recorded(taken) \in TraceType
           /\ \A taken \in BOOLEAN : GuardDropped(Recorded(taken)) \in TraceType
<1>1. ASSUME NEW hide \in BOOLEAN PROVE SessionBegun(hide) \in TraceType
  BY DEF SessionBegun, NoTrace, TraceType
<1>2. ASSUME NEW t \in TraceType PROVE GuardDropped(t) \in TraceType
  <2>1. ASSUME NEW n \in Nat PROVE [t EXCEPT !.armed = FALSE, !.aborted = n] \in TraceType
    BY DEF TraceType
  <2>2. t.aborted + 1 \in Nat
    BY DEF TraceType
  <2> QED
    BY <2>1, <2>2 DEF GuardDropped
<1>3. ASSUME NEW taken \in BOOLEAN PROVE Recorded(taken) \in TraceType
  <2> DEFINE f == IF trace.hidden \/ ~taken THEN trace.finished ELSE trace.finished + 1
             a == IF trace.hidden /\ taken THEN trace.aborted + 1 ELSE trace.aborted
  <2>1. f \in Nat /\ a \in Nat /\ trace \in TraceType
    BY DEF WireTypes, TraceType
  <2>2. Recorded(taken) = [trace EXCEPT !.finished = f, !.aborted = a, !.armed = ~taken]
    BY <2>1 DEF Recorded, TraceType
  <2> HIDE DEF f, a
  <2> QED
    BY <2>1, <2>2 DEF TraceType
<1> QED
  BY <1>1, <1>2, <1>3

\* The session of the request keeps its fields.
LEMMA TraceTypeStep ==
    ASSUME RecordTypes, WireTypes, [Next]_vars
    PROVE  trace' \in TraceType
<1>1. CASE ReadHead
  BY <1>1, Messages DEF ReadHead, WireTypes
<1>2. CASE HeadMalformed
  BY <1>2, Messages DEF HeadMalformed, WireTypes
<1>3. CASE HeadEnds
  BY <1>3 DEF HeadEnds, WireTypes
<1>4. CASE Unauthorized
  BY <1>4 DEF Unauthorized, WireTypes
<1>5. CASE HandleHead
  BY <1>5 DEF HandleHead, flow, WireTypes
<1>6. CASE ReadBody
  BY <1>6 DEF ReadBody, flow, WireTypes
<1>7. CASE BodyRead
  BY <1>7 DEF BodyRead, WireTypes
<1>8. CASE BodyFails
  BY <1>8 DEF BodyFails, WireTypes
<1>9. CASE Resolve
  <2>1. UNCHANGED trace \/ \E a \in Outcomes : trace' = SessionBegun(a.hide)
    BY <1>9 DEF Resolve
  <2>2. \A a \in Outcomes : a.hide \in BOOLEAN
    BY Messages DEF OutcomeType
  <2> QED
    BY <2>1, <2>2, Settlings DEF WireTypes
<1>10. CASE RequestDelay
  BY <1>10 DEF RequestDelay, flow, WireTypes
<1>11. CASE RequestActions
  BY <1>11 DEF RequestActions, flow, WireTypes
<1>12. CASE RequestTotalTimeout
  <2>1. 504 \in Nat
    BY DEF RecordTypes, OutcomeType, ErrorStatus
  <2>2. UNCHANGED trace \/ trace' = [trace EXCEPT !.status = 504]
    BY <1>12 DEF RequestTotalTimeout
  <2> QED
    BY <2>1, <2>2 DEF WireTypes, TraceType
<1>13. CASE StatusAnswer
  <2>1. acts.local \in Nat
    BY DEF RecordTypes, OutcomeType, ErrorStatus
  <2>2. UNCHANGED trace \/ trace' = [trace EXCEPT !.status = acts.local]
    BY <1>13 DEF StatusAnswer, Answered
  <2> QED
    BY <2>1, <2>2 DEF WireTypes, TraceType
<1>14. CASE RedirectAnswer
  <2>1. 302 \in Nat
    BY DEF RecordTypes, OutcomeType, ErrorStatus
  <2>2. UNCHANGED trace \/ trace' = [trace EXCEPT !.status = 302]
    BY <1>14 DEF RedirectAnswer, Answered
  <2> QED
    BY <2>1, <2>2 DEF WireTypes, TraceType
<1>15. CASE MockAnswer
  <2>1. acts.local \in Nat
    BY DEF RecordTypes, OutcomeType, ErrorStatus
  <2>2. UNCHANGED trace \/ trace' = [trace EXCEPT !.status = acts.local]
    BY <1>15 DEF MockAnswer, Answered
  <2> QED
    BY <2>1, <2>2 DEF WireTypes, TraceType
<1>16. CASE RecordSession
  <2>1. \/ UNCHANGED trace
        \/ \E taken \in BOOLEAN : trace' = GuardDropped(Recorded(taken))
    BY <1>16 DEF RecordSession
  <2> QED
    BY <2>1, Settlings DEF WireTypes
<1>17. CASE Abandon
  BY <1>17, Settlings DEF Abandon, flow, WireTypes
<1>18. CASE Forward
  BY <1>18 DEF Forward, flow, WireTypes
<1>19. CASE Checkout
  BY <1>19 DEF Checkout, flow, WireTypes
<1>20. CASE ConnectPooled
  BY <1>20 DEF ConnectPooled, Fail, flow, WireTypes
<1>21. CASE SendPooled
  BY <1>21 DEF SendPooled, Fail, flow, WireTypes
<1>22. CASE AwaitPooled
  BY <1>22 DEF AwaitPooled, Fail, flow, WireTypes
<1>23. CASE PooledFails
  BY <1>23 DEF PooledFails, Failed, flow, Fail, WireTypes
<1>24. CASE AnswerWithoutBody
  <2>1. up.head.status \in Nat /\ acts.hideResponse \in BOOLEAN
    BY Relayed DEF RecordTypes, OutcomeType, OutType, HeadType
  <2>2. \/ UNCHANGED trace
        \/ trace' = [trace EXCEPT !.status = up.head.status, !.hidden = trace.hidden \/ acts.hideResponse]
    BY <1>24 DEF AnswerWithoutBody, Settle, Failed
  <2> QED
    BY <2>1, <2>2 DEF WireTypes, TraceType
<1>25. CASE AnswerResetContent
  BY <1>25 DEF AnswerResetContent, StartCollect, flow, WireTypes
<1>26. CASE AnswerSmall
  BY <1>26 DEF AnswerSmall, StartCollect, flow, WireTypes
<1>27. CASE AnswerFixed
  BY <1>27 DEF AnswerFixed, StartRelay, flow, WireTypes
<1>28. CASE AnswerChunked
  BY <1>28 DEF AnswerChunked, StartRelay, flow, WireTypes
<1>29. CASE AnswerCloseDelimited
  BY <1>29 DEF AnswerCloseDelimited, StartRelay, flow, WireTypes
<1>30. CASE AnswerSse
  BY <1>30 DEF AnswerSse, StartRelay, flow, WireTypes
<1>31. CASE Dispatch
  BY <1>31 DEF Dispatch, flow, WireTypes
<1>32. CASE Connect
  BY <1>32 DEF Connect, Fail, flow, WireTypes
<1>33. CASE UploadCell
  BY <1>33 DEF UploadCell, flow, WireTypes
<1>34. CASE UploadCut
  BY <1>34 DEF UploadCut, flow, WireTypes
<1>35. CASE UploadDone
  BY <1>35 DEF UploadDone, WireTypes
<1>36. CASE UploadFails
  BY <1>36 DEF UploadFails, Fail, WireTypes
<1>37. CASE Await
  BY <1>37 DEF Await, Fail, flow, WireTypes
<1>38. CASE Upgrade
  BY <1>38 DEF Upgrade, LongLived, flow, Failed, StartRelay, Fail, WireTypes
<1>39. CASE EventStream
  BY <1>39 DEF EventStream, LongLived, flow, Failed, StartRelay, Fail, WireTypes
<1>40. CASE AnswerStreamed
  <2> DEFINE W == IF StreamFraming(req.method, up.head) = "empty" THEN 0 ELSE up.head.size
  <2>1. W \in Nat
    BY Relayed DEF HeadType
  <2>2. StreamHead(W) => UNCHANGED trace
    <3> HIDE DEF W
    <3> QED BY <2>1, StreamHeadShape
  <2>3. UNCHANGED trace
    BY <1>40, <2>2 DEF AnswerStreamed, StartCollect
  <2> HIDE DEF W
  <2> QED
    BY <2>1, <2>3 DEF WireTypes
<1>41. CASE AnswerBuffered
  BY <1>41 DEF AnswerBuffered, StartCollect, flow, WireTypes
<1>42. CASE AnswerH2
  <2> DEFINE W == up.left
  <2>1. W \in Nat
    BY Relayed DEF HeadType
  <2>2. StreamHead(W) => UNCHANGED trace
    <3> HIDE DEF W
    <3> QED BY <2>1, StreamHeadShape
  <2>3. UNCHANGED trace
    BY <1>42, <2>2 DEF AnswerH2, StartCollect
  <2> HIDE DEF W
  <2> QED
    BY <2>1, <2>3 DEF WireTypes
<1>43. CASE CollectCell
  BY <1>43 DEF CollectCell, flow, WireTypes
<1>44. CASE CollectOverflows
  <2> DEFINE W == up.want
  <2>1. W \in Nat
    BY Relayed DEF HeadType
  <2>2. StreamHead(W) => UNCHANGED trace
    <3> HIDE DEF W
    <3> QED BY <2>1, StreamHeadShape
  <2>3. UNCHANGED trace
    BY <1>44, <2>2 DEF CollectOverflows, StartCollect
  <2> HIDE DEF W
  <2> QED
    BY <2>1, <2>3 DEF WireTypes
<1>45. CASE CollectFails
  BY <1>45 DEF CollectFails, Failed, flow, Fail, WireTypes
<1>46. CASE CollectDone
  <2>1. RelayedStatus \in Nat /\ acts.hideResponse \in BOOLEAN
    BY Relayed DEF RecordTypes, OutcomeType, OutType, HeadType
  <2>2. \/ UNCHANGED trace
        \/ trace' = [trace EXCEPT !.status = RelayedStatus, !.hidden = trace.hidden \/ acts.hideResponse]
    BY <1>46 DEF CollectDone, Settle, Failed
  <2> QED
    BY <2>1, <2>2 DEF WireTypes, TraceType
<1>47. CASE RelayCell
  BY <1>47 DEF RelayCell, flow, WireTypes
<1>48. CASE StreamCell
  BY <1>48 DEF StreamCell, flow, WireTypes
<1>49. CASE SseCell
  BY <1>49 DEF SseCell, flow, WireTypes
<1>50. CASE RelayFails
  <2>1. out.status \in Nat /\ acts.hideResponse \in BOOLEAN
    BY Relayed DEF RecordTypes, OutcomeType, OutType, HeadType
  <2>2. \/ UNCHANGED trace
        \/ trace' = [trace EXCEPT !.status = out.status, !.hidden = trace.hidden \/ acts.hideResponse]
    BY <1>50 DEF RelayFails, Settle, Failed
  <2> QED
    BY <2>1, <2>2 DEF WireTypes, TraceType
<1>51. CASE RelayDone
  <2>1. out.status \in Nat /\ acts.hideResponse \in BOOLEAN
    BY Relayed DEF RecordTypes, OutcomeType, OutType, HeadType
  <2>2. \/ UNCHANGED trace
        \/ trace' = [trace EXCEPT !.status = out.status, !.hidden = trace.hidden \/ acts.hideResponse]
    BY <1>51 DEF RelayDone, Settle, Failed
  <2> QED
    BY <2>1, <2>2 DEF WireTypes, TraceType
<1>52. CASE ForwardFails
  <2>1. ErrorStatus(err) \in Nat
    BY DEF RecordTypes, OutcomeType, ErrorStatus
  <2>2. UNCHANGED trace \/ trace' = [trace EXCEPT !.status = ErrorStatus(err)]
    BY <1>52 DEF ForwardFails
  <2> QED
    BY <2>1, <2>2 DEF WireTypes, TraceType
<1>53. CASE ClientChanges
  BY <1>53 DEF ClientChanges, WireTypes
<1>54. CASE DeadlinePasses
  BY <1>54 DEF DeadlinePasses, WireTypes
<1>55. CASE Closed
  BY <1>55 DEF Closed, vars, WireTypes
<1>56. CASE UNCHANGED vars
  BY <1>56 DEF vars, WireTypes
<1>57. QED
  BY <1>1, <1>2, <1>3, <1>4, <1>5, <1>6, <1>7, <1>8, <1>9, <1>10, <1>11, <1>12,
     <1>13, <1>14, <1>15, <1>16, <1>17, <1>18, <1>19, <1>20, <1>21, <1>22, <1>23,
     <1>24, <1>25, <1>26, <1>27, <1>28, <1>29, <1>30, <1>31, <1>32, <1>33, <1>34,
     <1>35, <1>36, <1>37, <1>38, <1>39, <1>40, <1>41, <1>42, <1>43, <1>44, <1>45,
     <1>46, <1>47, <1>48, <1>49, <1>50, <1>51, <1>52, <1>53, <1>54, <1>55, <1>56 DEF Next, Thread

\* The idle connection keeps its fields.
LEMMA IdleTypeStep ==
    ASSUME RecordTypes, WireTypes, [Next]_vars
    PROVE  idle' \in IdleType
<1>1. CASE ReadHead
  BY <1>1 DEF ReadHead, WireTypes
<1>2. CASE HeadMalformed
  BY <1>2 DEF HeadMalformed, WireTypes
<1>3. CASE HeadEnds
  BY <1>3 DEF HeadEnds, WireTypes
<1>4. CASE Unauthorized
  BY <1>4 DEF Unauthorized, WireTypes
<1>5. CASE HandleHead
  BY <1>5 DEF HandleHead, flow, WireTypes
<1>6. CASE ReadBody
  BY <1>6 DEF ReadBody, flow, WireTypes
<1>7. CASE BodyRead
  BY <1>7 DEF BodyRead, WireTypes
<1>8. CASE BodyFails
  BY <1>8 DEF BodyFails, WireTypes
<1>9. CASE Resolve
  BY <1>9 DEF Resolve, WireTypes
<1>10. CASE RequestDelay
  BY <1>10 DEF RequestDelay, flow, WireTypes
<1>11. CASE RequestActions
  BY <1>11 DEF RequestActions, flow, WireTypes
<1>12. CASE RequestTotalTimeout
  BY <1>12 DEF RequestTotalTimeout, flow, WireTypes
<1>13. CASE StatusAnswer
  BY <1>13 DEF StatusAnswer, Answered, flow, WireTypes
<1>14. CASE RedirectAnswer
  BY <1>14 DEF RedirectAnswer, Answered, flow, WireTypes
<1>15. CASE MockAnswer
  BY <1>15 DEF MockAnswer, Answered, flow, WireTypes
<1>16. CASE RecordSession
  BY <1>16 DEF RecordSession, NextTurn, WireTypes
<1>17. CASE Abandon
  BY <1>17 DEF Abandon, flow, WireTypes
<1>18. CASE Forward
  BY <1>18 DEF Forward, flow, WireTypes
<1>19. CASE Checkout
  BY <1>19, Messages DEF Checkout, flow, WireTypes
<1>20. CASE ConnectPooled
  BY <1>20 DEF ConnectPooled, Fail, flow, WireTypes
<1>21. CASE SendPooled
  BY <1>21 DEF SendPooled, Fail, flow, WireTypes
<1>22. CASE AwaitPooled
  BY <1>22 DEF AwaitPooled, Fail, flow, WireTypes
<1>23. CASE PooledFails
  BY <1>23 DEF PooledFails, Failed, flow, Fail, WireTypes
<1>24. CASE AnswerWithoutBody
  <2>1. idle' \in {idle, [left |-> up.left, owed |-> up.owed, stray |-> up.stray]}
    BY <1>24 DEF AnswerWithoutBody, Settle, Failed
  <2> QED
    BY <2>1 DEF WireTypes, UpType, IdleType
<1>25. CASE AnswerResetContent
  BY <1>25 DEF AnswerResetContent, StartCollect, flow, WireTypes
<1>26. CASE AnswerSmall
  BY <1>26 DEF AnswerSmall, StartCollect, flow, WireTypes
<1>27. CASE AnswerFixed
  BY <1>27 DEF AnswerFixed, StartRelay, flow, WireTypes
<1>28. CASE AnswerChunked
  BY <1>28 DEF AnswerChunked, StartRelay, flow, WireTypes
<1>29. CASE AnswerCloseDelimited
  BY <1>29 DEF AnswerCloseDelimited, StartRelay, flow, WireTypes
<1>30. CASE AnswerSse
  BY <1>30 DEF AnswerSse, StartRelay, flow, WireTypes
<1>31. CASE Dispatch
  BY <1>31 DEF Dispatch, flow, WireTypes
<1>32. CASE Connect
  BY <1>32 DEF Connect, Fail, flow, WireTypes
<1>33. CASE UploadCell
  BY <1>33 DEF UploadCell, flow, WireTypes
<1>34. CASE UploadCut
  BY <1>34 DEF UploadCut, flow, WireTypes
<1>35. CASE UploadDone
  BY <1>35 DEF UploadDone, WireTypes
<1>36. CASE UploadFails
  BY <1>36 DEF UploadFails, Fail, WireTypes
<1>37. CASE Await
  BY <1>37 DEF Await, Fail, flow, WireTypes
<1>38. CASE Upgrade
  BY <1>38 DEF Upgrade, LongLived, flow, Failed, StartRelay, Fail, WireTypes
<1>39. CASE EventStream
  BY <1>39 DEF EventStream, LongLived, flow, Failed, StartRelay, Fail, WireTypes
<1>40. CASE AnswerStreamed
  <2> DEFINE W == IF StreamFraming(req.method, up.head) = "empty" THEN 0 ELSE up.head.size
  <2>1. W \in Nat
    BY Relayed DEF HeadType
  <2>2. StreamHead(W) => UNCHANGED idle
    <3> HIDE DEF W
    <3> QED BY <2>1, StreamHeadShape
  <2>3. UNCHANGED idle
    BY <1>40, <2>2 DEF AnswerStreamed, StartCollect
  <2> HIDE DEF W
  <2> QED
    BY <2>1, <2>3 DEF WireTypes
<1>41. CASE AnswerBuffered
  BY <1>41 DEF AnswerBuffered, StartCollect, flow, WireTypes
<1>42. CASE AnswerH2
  <2> DEFINE W == up.left
  <2>1. W \in Nat
    BY Relayed DEF HeadType
  <2>2. StreamHead(W) => UNCHANGED idle
    <3> HIDE DEF W
    <3> QED BY <2>1, StreamHeadShape
  <2>3. UNCHANGED idle
    BY <1>42, <2>2 DEF AnswerH2, StartCollect
  <2> HIDE DEF W
  <2> QED
    BY <2>1, <2>3 DEF WireTypes
<1>43. CASE CollectCell
  BY <1>43 DEF CollectCell, flow, WireTypes
<1>44. CASE CollectOverflows
  <2> DEFINE W == up.want
  <2>1. W \in Nat
    BY Relayed DEF HeadType
  <2>2. StreamHead(W) => UNCHANGED idle
    <3> HIDE DEF W
    <3> QED BY <2>1, StreamHeadShape
  <2>3. UNCHANGED idle
    BY <1>44, <2>2 DEF CollectOverflows, StartCollect
  <2> HIDE DEF W
  <2> QED
    BY <2>1, <2>3 DEF WireTypes
<1>45. CASE CollectFails
  BY <1>45 DEF CollectFails, Failed, flow, Fail, WireTypes
<1>46. CASE CollectDone
  <2>1. idle' \in {idle, [left |-> up.left, owed |-> up.owed, stray |-> up.stray]}
    BY <1>46 DEF CollectDone, Settle, Failed
  <2> QED
    BY <2>1 DEF WireTypes, UpType, IdleType
<1>47. CASE RelayCell
  BY <1>47 DEF RelayCell, flow, WireTypes
<1>48. CASE StreamCell
  BY <1>48 DEF StreamCell, flow, WireTypes
<1>49. CASE SseCell
  BY <1>49 DEF SseCell, flow, WireTypes
<1>50. CASE RelayFails
  <2>1. idle' \in {idle, [left |-> up.left, owed |-> up.owed, stray |-> up.stray]}
    BY <1>50 DEF RelayFails, Settle, Failed
  <2> QED
    BY <2>1 DEF WireTypes, UpType, IdleType
<1>51. CASE RelayDone
  <2>1. idle' \in {idle, [left |-> up.left, owed |-> up.owed, stray |-> up.stray]}
    BY <1>51 DEF RelayDone, Settle, Failed
  <2> QED
    BY <2>1 DEF WireTypes, UpType, IdleType
<1>52. CASE ForwardFails
  BY <1>52 DEF ForwardFails, flow, WireTypes
<1>53. CASE ClientChanges
  BY <1>53 DEF ClientChanges, WireTypes
<1>54. CASE DeadlinePasses
  BY <1>54 DEF DeadlinePasses, WireTypes
<1>55. CASE Closed
  BY <1>55 DEF Closed, vars, WireTypes
<1>56. CASE UNCHANGED vars
  BY <1>56 DEF vars, WireTypes
<1>57. QED
  BY <1>1, <1>2, <1>3, <1>4, <1>5, <1>6, <1>7, <1>8, <1>9, <1>10, <1>11, <1>12,
     <1>13, <1>14, <1>15, <1>16, <1>17, <1>18, <1>19, <1>20, <1>21, <1>22, <1>23,
     <1>24, <1>25, <1>26, <1>27, <1>28, <1>29, <1>30, <1>31, <1>32, <1>33, <1>34,
     <1>35, <1>36, <1>37, <1>38, <1>39, <1>40, <1>41, <1>42, <1>43, <1>44, <1>45,
     <1>46, <1>47, <1>48, <1>49, <1>50, <1>51, <1>52, <1>53, <1>54, <1>55, <1>56 DEF Next, Thread

\* A response head that arrives keeps the fields of the connection.
LEMMA Arrivals ==
    ASSUME NEW h \in Responses
    PROVE  /\ \A m : OriginCells(m, h) \in Nat
           /\ \A u \in UpType : HeadArrives(u, h) \in UpType
<1>1. h \in HeadType /\ h.size \in Nat
  BY Messages DEF HeadType
<1>2. \A m : OriginCells(m, h) \in Nat
  BY <1>1 DEF OriginCells
<1>3. ASSUME NEW u \in UpType PROVE HeadArrives(u, h) \in UpType
  <2>1. ASSUME NEW n \in Nat PROVE [u EXCEPT !.head = h, !.left = n, !.want = n] \in UpType
    BY <1>1 DEF UpType
  <2> QED
    BY <1>2, <2>1 DEF HeadArrives
<1> QED
  BY <1>2, <1>3

\* The upstream connection in use keeps its fields.
LEMMA UpTypeStep ==
    ASSUME RecordTypes, WireTypes, [Next]_vars
    PROVE  up' \in UpType
<1>1. CASE ReadHead
  BY <1>1, Messages DEF ReadHead, WireTypes
<1>2. CASE HeadMalformed
  BY <1>2 DEF HeadMalformed, WireTypes
<1>3. CASE HeadEnds
  BY <1>3 DEF HeadEnds, WireTypes
<1>4. CASE Unauthorized
  BY <1>4 DEF Unauthorized, WireTypes
<1>5. CASE HandleHead
  BY <1>5 DEF HandleHead, flow, WireTypes
<1>6. CASE ReadBody
  BY <1>6 DEF ReadBody, flow, WireTypes
<1>7. CASE BodyRead
  BY <1>7 DEF BodyRead, WireTypes
<1>8. CASE BodyFails
  BY <1>8 DEF BodyFails, WireTypes
<1>9. CASE Resolve
  BY <1>9 DEF Resolve, WireTypes
<1>10. CASE RequestDelay
  BY <1>10 DEF RequestDelay, flow, WireTypes
<1>11. CASE RequestActions
  BY <1>11 DEF RequestActions, flow, WireTypes
<1>12. CASE RequestTotalTimeout
  BY <1>12 DEF RequestTotalTimeout, flow, WireTypes
<1>13. CASE StatusAnswer
  BY <1>13 DEF StatusAnswer, Answered, flow, WireTypes
<1>14. CASE RedirectAnswer
  BY <1>14 DEF RedirectAnswer, Answered, flow, WireTypes
<1>15. CASE MockAnswer
  BY <1>15 DEF MockAnswer, Answered, flow, WireTypes
<1>16. CASE RecordSession
  BY <1>16 DEF RecordSession, NextTurn, WireTypes
<1>17. CASE Abandon
  BY <1>17 DEF Abandon, flow, WireTypes
<1>18. CASE Forward
  BY <1>18 DEF Forward, flow, WireTypes
<1>19. CASE Checkout
  <2>1. \/ UNCHANGED up
        \/ up' = [NoUpstream EXCEPT !.kind = "pooled", !.reused = TRUE,
                                    !.left = idle.left, !.owed = idle.owed, !.stray = idle.stray]
    BY <1>19 DEF Checkout
  <2>2. /\ NoUpstream \in UpType /\ idle.left \in Nat /\ idle.owed \in Int
        /\ idle.stray \in BOOLEAN
    BY Messages DEF WireTypes, IdleType
  <2>3. ASSUME NEW l \in Nat, NEW o \in Int, NEW b \in BOOLEAN
        PROVE  [NoUpstream EXCEPT !.kind = "pooled", !.reused = TRUE, !.left = l, !.owed = o,
                                  !.stray = b] \in UpType
    BY <2>2 DEF UpType
  <2> DEFINE l == idle.left  o == idle.owed  b == idle.stray
             u == [NoUpstream EXCEPT !.kind = "pooled", !.reused = TRUE, !.left = l, !.owed = o,
                                     !.stray = b]
  <2>4. l \in Nat /\ o \in Int /\ b \in BOOLEAN
    BY <2>2
  <2>5. UNCHANGED up \/ up' = u
    BY <2>1
  <2> HIDE DEF l, o, b
  <2>6. u \in UpType
    BY <2>3, <2>4
  <2> HIDE DEF u
  <2> QED
    BY <2>5, <2>6 DEF WireTypes
<1>20. CASE ConnectPooled
  BY <1>20 DEF ConnectPooled, Fail, flow, WireTypes, UpType
<1>21. CASE SendPooled
  <2>1. up' \in {up, [NoUpstream EXCEPT !.tries = 1], [up EXCEPT !.owed = up.owed + 1]}
    BY <1>21 DEF SendPooled, WireTypes, UpType
  <2>2. [NoUpstream EXCEPT !.tries = 1] \in UpType
    BY Messages DEF UpType
  <2>3. [up EXCEPT !.owed = up.owed + 1] \in UpType
    BY DEF WireTypes, UpType
  <2> QED
    BY <2>1, <2>2, <2>3 DEF WireTypes
<1>22. CASE AwaitPooled
  <2>1. \/ UNCHANGED up \/ up' = [NoUpstream EXCEPT !.tries = 1]
        \/ \E h \in Responses :
              up' = [up EXCEPT !.head = h, !.left = up.left + OriginCells(req.method, h),
                               !.owed = IF h.status \in Informational THEN up.owed ELSE up.owed - 1,
                               !.stray = up.stray \/ Misread(h)]
    BY <1>22 DEF AwaitPooled, OriginHeads
  <2>2. CASE up' = [NoUpstream EXCEPT !.tries = 1]
    BY <2>2, Messages DEF UpType
  <2>3. ASSUME NEW h \in Responses,
               up' = [up EXCEPT !.head = h, !.left = up.left + OriginCells(req.method, h),
                                !.owed = IF h.status \in Informational THEN up.owed ELSE up.owed - 1,
                                !.stray = up.stray \/ Misread(h)]
        PROVE  up' \in UpType
    <3> DEFINE o == IF h.status \in Informational THEN up.owed ELSE up.owed - 1
               n == up.left + OriginCells(req.method, h)
               b == up.stray \/ Misread(h)
    <3>1. o \in Int /\ b \in BOOLEAN /\ up \in UpType
      BY DEF WireTypes, UpType
    <3>2. up' = [up EXCEPT !.head = h, !.left = n, !.owed = o, !.stray = b]
      BY <2>3
    <3>3. n \in Nat /\ h \in HeadType
      <4>1. OriginCells(req.method, h) \in Nat /\ up.left \in Nat
        BY Arrivals DEF WireTypes, UpType
      <4> QED
        BY <4>1, Messages
    <3> HIDE DEF o, n, b
    <3> QED
      BY <3>1, <3>2, <3>3 DEF UpType
  <2> QED
    BY <2>1, <2>2, <2>3 DEF WireTypes
<1>23. CASE PooledFails
  BY <1>23 DEF PooledFails, Failed, flow, Fail, WireTypes
<1>24. CASE AnswerWithoutBody
  BY <1>24 DEF AnswerWithoutBody, Settle, flow, WireTypes
<1>25. CASE AnswerResetContent
  <2> DEFINE W == IF up.head.framing = "none" THEN 0 ELSE up.head.size
  <2>1. W \in Nat /\ "discard" \in Modes
    BY Relayed DEF HeadType, Modes
  <2>2. UNCHANGED up \/ up' = [up EXCEPT !.mode = "discard", !.want = W]
    BY <1>25 DEF AnswerResetContent, StartCollect
  <2> HIDE DEF W
  <2> QED
    BY <2>1, <2>2 DEF WireTypes, UpType
<1>26. CASE AnswerSmall
  <2> DEFINE W == up.head.size
  <2>1. W \in Nat /\ "buffer" \in Modes
    BY Relayed DEF HeadType, Modes
  <2>2. UNCHANGED up \/ up' = [up EXCEPT !.mode = "buffer", !.want = W]
    BY <1>26 DEF AnswerSmall, StartCollect
  <2> HIDE DEF W
  <2> QED
    BY <2>1, <2>2 DEF WireTypes, UpType
<1>27. CASE AnswerFixed
  <2> DEFINE W == up.head.size
  <2>1. W \in Nat /\ "length" \in Modes
    BY Relayed DEF HeadType, Modes
  <2>2. UNCHANGED up \/ up' = [up EXCEPT !.mode = "length", !.want = W]
    BY <1>27 DEF AnswerFixed, StartRelay
  <2> HIDE DEF W
  <2> QED
    BY <2>1, <2>2 DEF WireTypes, UpType
<1>28. CASE AnswerChunked
  <2> DEFINE W == up.head.size
  <2>1. W \in Nat /\ "chunked" \in Modes
    BY Relayed DEF HeadType, Modes
  <2>2. UNCHANGED up \/ up' = [up EXCEPT !.mode = "chunked", !.want = W]
    BY <1>28 DEF AnswerChunked, StartRelay
  <2> HIDE DEF W
  <2> QED
    BY <2>1, <2>2 DEF WireTypes, UpType
<1>29. CASE AnswerCloseDelimited
  <2> DEFINE W == up.head.size
  <2>1. W \in Nat /\ "close" \in Modes
    BY Relayed DEF HeadType, Modes
  <2>2. UNCHANGED up \/ up' = [up EXCEPT !.mode = "close", !.want = W]
    BY <1>29 DEF AnswerCloseDelimited, StartRelay
  <2> HIDE DEF W
  <2> QED
    BY <2>1, <2>2 DEF WireTypes, UpType
<1>30. CASE AnswerSse
  <2> DEFINE W == up.head.size
  <2>1. W \in Nat /\ "sse" \in Modes
    BY Relayed DEF HeadType, Modes
  <2>2. UNCHANGED up \/ up' = [up EXCEPT !.mode = "sse", !.want = W]
    BY <1>30 DEF AnswerSse, StartRelay
  <2> HIDE DEF W
  <2> QED
    BY <2>1, <2>2 DEF WireTypes, UpType
<1>31. CASE Dispatch
  <2>1. \/ UNCHANGED up \/ up' \in {[NoUpstream EXCEPT !.kind = "h2"], [NoUpstream EXCEPT !.kind = "h1"]}
        \/ \E h \in Responses : up' = HeadArrives([NoUpstream EXCEPT !.kind = "h2"], h)
    BY <1>31 DEF Dispatch, H2Answers, H2Heads, OriginHeads
  <2>2. NoUpstream \in UpType
    BY Messages
  <2>3. [NoUpstream EXCEPT !.kind = "h2"] \in UpType /\ [NoUpstream EXCEPT !.kind = "h1"] \in UpType
    BY <2>2 DEF UpType
  <2> QED
    BY <2>1, <2>3, Arrivals DEF WireTypes
<1>32. CASE Connect
  <2>1. \/ UNCHANGED up \/ up' \in {[NoUpstream EXCEPT !.kind = "h2"], [NoUpstream EXCEPT !.kind = "h1"]}
        \/ \E h \in Responses : up' = HeadArrives([NoUpstream EXCEPT !.kind = "h2"], h)
    BY <1>32 DEF Connect, H2Answers, H2Heads, OriginHeads
  <2>2. NoUpstream \in UpType
    BY Messages
  <2>3. [NoUpstream EXCEPT !.kind = "h2"] \in UpType /\ [NoUpstream EXCEPT !.kind = "h1"] \in UpType
    BY <2>2 DEF UpType
  <2> QED
    BY <2>1, <2>3, Arrivals DEF WireTypes
<1>33. CASE UploadCell
  BY <1>33 DEF UploadCell, flow, WireTypes
<1>34. CASE UploadCut
  BY <1>34 DEF UploadCut, flow, WireTypes
<1>35. CASE UploadDone
  BY <1>35 DEF UploadDone, WireTypes
<1>36. CASE UploadFails
  BY <1>36 DEF UploadFails, Fail, WireTypes
<1>37. CASE Await
  <2>1. UNCHANGED up \/ \E h \in Responses : up' = HeadArrives(up, h)
    BY <1>37 DEF Await, H2Heads, OriginHeads
  <2> QED
    BY <2>1, Arrivals DEF WireTypes
<1>38. CASE Upgrade
  <2> DEFINE W == up.head.size
  <2>1. W \in Nat /\ "tunnel" \in Modes
    BY Relayed DEF HeadType, Modes
  <2>2. UNCHANGED up \/ up' = [up EXCEPT !.mode = "tunnel", !.want = W]
    BY <1>38 DEF Upgrade, LongLived, StartRelay
  <2> HIDE DEF W
  <2> QED
    BY <2>1, <2>2 DEF WireTypes, UpType
<1>39. CASE EventStream
  <2> DEFINE W == up.head.size
  <2>1. W \in Nat /\ "sse" \in Modes
    BY Relayed DEF HeadType, Modes
  <2>2. UNCHANGED up \/ up' = [up EXCEPT !.mode = "sse", !.want = W]
    BY <1>39 DEF EventStream, LongLived, StartRelay
  <2> HIDE DEF W
  <2> QED
    BY <2>1, <2>2 DEF WireTypes, UpType
<1>40. CASE AnswerStreamed
  <2> DEFINE W == IF StreamFraming(req.method, up.head) = "empty" THEN 0 ELSE up.head.size
  <2>1. W \in Nat
    BY Relayed DEF HeadType
  <2>2. StreamHead(W) => UNCHANGED up \/ up' = [up EXCEPT !.mode = "stream", !.want = W]
    <3> HIDE DEF W
    <3> QED BY <2>1, StreamHeadShape
  <2>3. UNCHANGED up \/ \E m \in Modes : up' = [up EXCEPT !.mode = m, !.want = W]
    BY <1>40, <2>2 DEF AnswerStreamed, StartCollect, Modes
  <2> HIDE DEF W
  <2> QED
    BY <2>1, <2>3 DEF WireTypes, UpType
<1>41. CASE AnswerBuffered
  <2> DEFINE W == up.head.size
  <2>1. W \in Nat /\ "buffer" \in Modes
    BY Relayed DEF HeadType, Modes
  <2>2. UNCHANGED up \/ up' = [up EXCEPT !.mode = "buffer", !.want = W]
    BY <1>41 DEF AnswerBuffered, StartCollect
  <2> HIDE DEF W
  <2> QED
    BY <2>1, <2>2 DEF WireTypes, UpType
<1>42. CASE AnswerH2
  <2> DEFINE W == up.left
  <2>1. W \in Nat
    BY Relayed DEF HeadType
  <2>2. StreamHead(W) => UNCHANGED up \/ up' = [up EXCEPT !.mode = "stream", !.want = W]
    <3> HIDE DEF W
    <3> QED BY <2>1, StreamHeadShape
  <2>3. UNCHANGED up \/ \E m \in Modes : up' = [up EXCEPT !.mode = m, !.want = W]
    BY <1>42, <2>2 DEF AnswerH2, StartCollect, Modes
  <2> HIDE DEF W
  <2> QED
    BY <2>1, <2>3 DEF WireTypes, UpType
<1>43. CASE CollectCell
  <2>1. up \in UpType /\ up.want - 1 \in Nat /\ up.left - 1 \in Nat /\ up.got + 1 \in Nat
    BY <1>43 DEF CollectCell, WireTypes, UpType
  <2>2. ASSUME NEW w \in Nat, NEW l \in Nat, NEW g \in Nat
        PROVE  [up EXCEPT !.want = w, !.left = l, !.got = g] \in UpType
    BY <2>1 DEF UpType
  <2>3. up' = [up EXCEPT !.want = up.want - 1, !.left = up.left - 1, !.got = up.got + 1]
    BY <1>43 DEF CollectCell
  <2> QED
    BY <2>1, <2>2, <2>3
<1>44. CASE CollectOverflows
  <2> DEFINE W == up.want
  <2>1. W \in Nat
    BY Relayed DEF HeadType
  <2>2. StreamHead(W) => UNCHANGED up \/ up' = [up EXCEPT !.mode = "stream", !.want = W]
    <3> HIDE DEF W
    <3> QED BY <2>1, StreamHeadShape
  <2>3. UNCHANGED up \/ \E m \in Modes : up' = [up EXCEPT !.mode = m, !.want = W]
    BY <1>44, <2>2 DEF CollectOverflows, StartCollect, Modes
  <2> HIDE DEF W
  <2> QED
    BY <2>1, <2>3 DEF WireTypes, UpType
<1>45. CASE CollectFails
  BY <1>45 DEF CollectFails, Failed, flow, Fail, WireTypes
<1>46. CASE CollectDone
  BY <1>46 DEF CollectDone, Failed, Settle, flow, Fail, WireTypes
<1>47. CASE RelayCell
  <2>1. up \in UpType /\ up.want - 1 \in Nat /\ up.left - 1 \in Nat
    BY <1>47 DEF RelayCell, WireTypes, UpType
  <2>2. ASSUME NEW w \in Nat, NEW l \in Nat
        PROVE  [up EXCEPT !.want = w, !.left = l] \in UpType
    BY <2>1 DEF UpType
  <2>3. up' = [up EXCEPT !.want = up.want - 1, !.left = up.left - 1]
    BY <1>47 DEF RelayCell
  <2> QED
    BY <2>1, <2>2, <2>3
<1>48. CASE StreamCell
  <2>1. up \in UpType /\ up.want - 1 \in Nat /\ up.left - 1 \in Nat
    BY <1>48 DEF StreamCell, WireTypes, UpType
  <2>2. ASSUME NEW w \in Nat, NEW l \in Nat
        PROVE  [up EXCEPT !.want = w, !.left = l] \in UpType
    BY <2>1 DEF UpType
  <2>3. up' = [up EXCEPT !.want = up.want - 1, !.left = up.left - 1]
    BY <1>48 DEF StreamCell
  <2> QED
    BY <2>1, <2>2, <2>3
<1>49. CASE SseCell
  <2>1. up \in UpType /\ up.want - 1 \in Nat /\ up.left - 1 \in Nat
    BY <1>49 DEF SseCell, WireTypes, UpType
  <2>2. ASSUME NEW w \in Nat, NEW l \in Nat
        PROVE  [up EXCEPT !.want = w, !.left = l] \in UpType
    BY <2>1 DEF UpType
  <2>3. up' = [up EXCEPT !.want = up.want - 1, !.left = up.left - 1]
    BY <1>49 DEF SseCell
  <2> QED
    BY <2>1, <2>2, <2>3
<1>50. CASE RelayFails
  BY <1>50 DEF RelayFails, Failed, Settle, flow, Fail, WireTypes
<1>51. CASE RelayDone
  BY <1>51 DEF RelayDone, Failed, Settle, flow, Fail, WireTypes
<1>52. CASE ForwardFails
  BY <1>52 DEF ForwardFails, flow, WireTypes
<1>53. CASE ClientChanges
  BY <1>53 DEF ClientChanges, WireTypes
<1>54. CASE DeadlinePasses
  BY <1>54 DEF DeadlinePasses, WireTypes
<1>55. CASE Closed
  BY <1>55 DEF Closed, vars, WireTypes
<1>56. CASE UNCHANGED vars
  BY <1>56 DEF vars, WireTypes
<1>57. QED
  BY <1>1, <1>2, <1>3, <1>4, <1>5, <1>6, <1>7, <1>8, <1>9, <1>10, <1>11, <1>12,
     <1>13, <1>14, <1>15, <1>16, <1>17, <1>18, <1>19, <1>20, <1>21, <1>22, <1>23,
     <1>24, <1>25, <1>26, <1>27, <1>28, <1>29, <1>30, <1>31, <1>32, <1>33, <1>34,
     <1>35, <1>36, <1>37, <1>38, <1>39, <1>40, <1>41, <1>42, <1>43, <1>44, <1>45,
     <1>46, <1>47, <1>48, <1>49, <1>50, <1>51, <1>52, <1>53, <1>54, <1>55, <1>56 DEF Next, Thread

\* A session is guarded from the rules to its record, and settled once.
LEMMA GuardStep ==
    ASSUME Types, GuardInv, [Next]_vars
    PROVE  GuardInv'
<1>1. CASE ReadHead
  BY <1>1 DEF ReadHead, GuardInv, SessionBalanced, Unsettled, NoTrace
<1>2. CASE HeadMalformed
  BY <1>2 DEF HeadMalformed, GuardInv, SessionBalanced, Unsettled, NoTrace
<1>3. CASE HeadEnds
  BY <1>3 DEF HeadEnds, GuardInv, SessionBalanced, Unsettled
<1>4. CASE Unauthorized
  BY <1>4 DEF Unauthorized, GuardInv, SessionBalanced, Unsettled, Types, WireTypes,
     TraceType
<1>5. CASE HandleHead
  BY <1>5 DEF HandleHead, flow, GuardInv, SessionBalanced, Unsettled
<1>6. CASE ReadBody
  BY <1>6 DEF ReadBody, flow, GuardInv, SessionBalanced, Unsettled
<1>7. CASE BodyRead
  BY <1>7 DEF BodyRead, GuardInv, SessionBalanced, Unsettled
<1>8. CASE BodyFails
  BY <1>8 DEF BodyFails, GuardInv, SessionBalanced, Unsettled, Types, WireTypes, TraceType
<1>9. CASE Resolve
  BY <1>9 DEF Resolve, GuardInv, SessionBalanced, Unsettled, SessionBegun, NoTrace
<1>10. CASE RequestDelay
  BY <1>10 DEF RequestDelay, flow, GuardInv, SessionBalanced, Unsettled
<1>11. CASE RequestActions
  BY <1>11 DEF RequestActions, flow, GuardInv, SessionBalanced, Unsettled
<1>12. CASE RequestTotalTimeout
  BY <1>12 DEF RequestTotalTimeout, flow, GuardInv, SessionBalanced, Unsettled, Types,
     WireTypes, TraceType
<1>13. CASE StatusAnswer
  BY <1>13 DEF StatusAnswer, Answered, flow, GuardInv, SessionBalanced, Unsettled, Types,
     WireTypes, TraceType
<1>14. CASE RedirectAnswer
  BY <1>14 DEF RedirectAnswer, Answered, flow, GuardInv, SessionBalanced, Unsettled, Types,
     WireTypes, TraceType
<1>15. CASE MockAnswer
  BY <1>15 DEF MockAnswer, Answered, flow, GuardInv, SessionBalanced, Unsettled, Types,
     WireTypes, TraceType
<1>16. CASE RecordSession
  <2>1. pc = "record" /\ trace \in TraceType /\ Unsettled(trace)
    BY <1>16 DEF RecordSession, Types, WireTypes, GuardInv
  <2>2. pc' \in {"head", "closed"}
    BY <1>16 DEF RecordSession, NextTurn
  <2>3. CASE ~trace.started
    BY <1>16, <2>1, <2>2, <2>3 DEF RecordSession, GuardInv, SessionBalanced, Unsettled, TraceType
  <2>4. ASSUME NEW taken \in BOOLEAN, trace.started
        PROVE  LET t == GuardDropped(Recorded(taken))
               IN  /\ ~t.armed /\ t.started /\ t.finished + t.aborted = 1
                   /\ t.hidden => t.finished = 0
    <3> DEFINE f == IF trace.hidden \/ ~taken THEN 0 ELSE 1
               a == IF trace.hidden /\ taken THEN 1 ELSE 0
               r == Recorded(taken)
    <3>1. r = [trace EXCEPT !.finished = f, !.aborted = a, !.armed = ~taken]
      BY <2>1 DEF Recorded, TraceType, Unsettled
    <3>2. f \in Nat /\ a \in Nat /\ r \in TraceType
      BY Settlings DEF Types
    <3> HIDE DEF r
    <3>3. /\ r.finished = f /\ r.aborted = a /\ (r.armed <=> ~taken)
          /\ r.hidden = trace.hidden /\ r.started = trace.started
      <4> HIDE DEF f, a
      <4> QED BY <2>1, <3>1, <3>2 DEF TraceType
    <3>4. CASE taken
      <4>1. GuardDropped(r) = r
        BY <3>3, <3>4 DEF GuardDropped
      <4>2. r.finished + r.aborted = 1 /\ (r.hidden => r.finished = 0) /\ ~r.armed /\ r.started
        BY <2>4, <3>3, <3>4
      <4> QED
        BY <4>1, <4>2 DEF r
    <3>5. CASE ~taken
      <4>1. GuardDropped(r) = [r EXCEPT !.armed = FALSE, !.aborted = r.aborted + 1]
        BY <3>3, <3>5 DEF GuardDropped
      <4>2. r.finished = 0 /\ r.aborted = 0 /\ r.started
        BY <2>4, <3>3, <3>5
      <4>3. LET t == [r EXCEPT !.armed = FALSE, !.aborted = r.aborted + 1]
            IN  ~t.armed /\ t.started /\ t.finished = 0 /\ t.aborted = 1
        BY <3>2, <4>2 DEF TraceType
      <4> QED
        BY <4>1, <4>3 DEF r
    <3> QED
      BY <3>4, <3>5
  <2>5. CASE trace.started
    <3>1. PICK taken \in BOOLEAN : trace' = GuardDropped(Recorded(taken))
      BY <1>16, <2>5 DEF RecordSession
    <3> QED
      BY <2>2, <2>4, <2>5, <3>1 DEF GuardInv, SessionBalanced
  <2> QED
    BY <2>3, <2>5
<1>17. CASE Abandon
  <2>1. trace \in TraceType /\ Unsettled(trace) /\ pc' = "closed" /\ trace' = GuardDropped(trace)
    BY <1>17 DEF Abandon, Types, WireTypes, GuardInv
  <2> QED
    BY <2>1 DEF GuardInv, SessionBalanced, Unsettled, TraceType, GuardDropped
<1>18. CASE Forward
  BY <1>18 DEF Forward, flow, GuardInv, SessionBalanced, Unsettled
<1>19. CASE Checkout
  BY <1>19 DEF Checkout, flow, GuardInv, SessionBalanced, Unsettled
<1>20. CASE ConnectPooled
  BY <1>20 DEF ConnectPooled, Fail, flow, GuardInv, SessionBalanced, Unsettled
<1>21. CASE SendPooled
  BY <1>21 DEF SendPooled, Fail, flow, GuardInv, SessionBalanced, Unsettled
<1>22. CASE AwaitPooled
  BY <1>22 DEF AwaitPooled, Fail, flow, GuardInv, SessionBalanced, Unsettled
<1>23. CASE PooledFails
  BY <1>23 DEF PooledFails, Failed, flow, Fail, GuardInv, SessionBalanced, Unsettled
<1>24. CASE AnswerWithoutBody
  BY <1>24 DEF AnswerWithoutBody, Pooled, Settle, flow, GuardInv, SessionBalanced,
     Unsettled, Types, WireTypes, TraceType
<1>25. CASE AnswerResetContent
  BY <1>25 DEF AnswerResetContent, Pooled, StartCollect, flow, GuardInv, SessionBalanced,
     Unsettled
<1>26. CASE AnswerSmall
  BY <1>26 DEF AnswerSmall, Pooled, StartCollect, flow, GuardInv, SessionBalanced, Unsettled
<1>27. CASE AnswerFixed
  BY <1>27 DEF AnswerFixed, Pooled, StartRelay, flow, GuardInv, SessionBalanced, Unsettled
<1>28. CASE AnswerChunked
  BY <1>28 DEF AnswerChunked, Pooled, StartRelay, flow, GuardInv, SessionBalanced, Unsettled
<1>29. CASE AnswerCloseDelimited
  BY <1>29 DEF AnswerCloseDelimited, Pooled, StartRelay, flow, GuardInv, SessionBalanced,
     Unsettled
<1>30. CASE AnswerSse
  BY <1>30 DEF AnswerSse, Pooled, StartRelay, flow, GuardInv, SessionBalanced, Unsettled
<1>31. CASE Dispatch
  BY <1>31 DEF Dispatch, H2Answers, flow, Fail, GuardInv, SessionBalanced, Unsettled
<1>32. CASE Connect
  BY <1>32 DEF Connect, H2Answers, Fail, flow, GuardInv, SessionBalanced, Unsettled
<1>33. CASE UploadCell
  BY <1>33 DEF UploadCell, flow, GuardInv, SessionBalanced, Unsettled
<1>34. CASE UploadCut
  BY <1>34 DEF UploadCut, flow, GuardInv, SessionBalanced, Unsettled
<1>35. CASE UploadDone
  BY <1>35 DEF UploadDone, GuardInv, SessionBalanced, Unsettled
<1>36. CASE UploadFails
  BY <1>36 DEF UploadFails, Fail, GuardInv, SessionBalanced, Unsettled
<1>37. CASE Await
  BY <1>37 DEF Await, Fail, flow, GuardInv, SessionBalanced, Unsettled
<1>38. CASE Upgrade
  BY <1>38 DEF Upgrade, Unpooled, LongLived, flow, Failed, StartRelay, Fail, GuardInv,
     SessionBalanced, Unsettled
<1>39. CASE EventStream
  BY <1>39 DEF EventStream, Unpooled, LongLived, flow, Failed, StartRelay, Fail, GuardInv,
     SessionBalanced, Unsettled
<1>40. CASE AnswerStreamed
  <2> DEFINE W == IF StreamFraming(req.method, up.head) = "empty" THEN 0 ELSE up.head.size
  <2>1. W \in Nat
    BY Relayed DEF Types, HeadType
  <2>2. StreamHead(W) => pc' \in {"failed", "relay"} /\ trace' = trace
    <3> HIDE DEF W
    <3> QED BY <2>1, StreamHeadShape DEF Types
  <2>3. pc' \in {"failed", "relay", "collect"} /\ trace' = trace /\ pc \in {"answer", "collect"}
    BY <1>40, <2>2 DEF AnswerStreamed, StartCollect, Unpooled
  <2> QED
    BY <2>3 DEF GuardInv, SessionBalanced, Unsettled
<1>41. CASE AnswerBuffered
  BY <1>41 DEF AnswerBuffered, Unpooled, StartCollect, flow, GuardInv, SessionBalanced,
     Unsettled
<1>42. CASE AnswerH2
  <2> DEFINE W == up.left
  <2>1. W \in Nat
    BY Relayed DEF Types, HeadType
  <2>2. StreamHead(W) => pc' \in {"failed", "relay"} /\ trace' = trace
    <3> HIDE DEF W
    <3> QED BY <2>1, StreamHeadShape DEF Types
  <2>3. pc' \in {"failed", "relay", "collect"} /\ trace' = trace /\ pc \in {"answer", "collect"}
    BY <1>42, <2>2 DEF AnswerH2, StartCollect, Unpooled
  <2> QED
    BY <2>3 DEF GuardInv, SessionBalanced, Unsettled
<1>43. CASE CollectCell
  BY <1>43 DEF CollectCell, flow, GuardInv, SessionBalanced, Unsettled
<1>44. CASE CollectOverflows
  <2> DEFINE W == up.want
  <2>1. W \in Nat
    BY Relayed DEF Types, HeadType
  <2>2. StreamHead(W) => pc' \in {"failed", "relay"} /\ trace' = trace
    <3> HIDE DEF W
    <3> QED BY <2>1, StreamHeadShape DEF Types
  <2>3. pc' \in {"failed", "relay", "collect"} /\ trace' = trace /\ pc \in {"answer", "collect"}
    BY <1>44, <2>2 DEF CollectOverflows, StartCollect, Unpooled
  <2> QED
    BY <2>3 DEF GuardInv, SessionBalanced, Unsettled
<1>45. CASE CollectFails
  BY <1>45 DEF CollectFails, Failed, flow, Fail, GuardInv, SessionBalanced, Unsettled
<1>46. CASE CollectDone
  BY <1>46 DEF CollectDone, Failed, Settle, flow, Fail, GuardInv, SessionBalanced,
     Unsettled, Types, WireTypes, TraceType
<1>47. CASE RelayCell
  BY <1>47 DEF RelayCell, flow, GuardInv, SessionBalanced, Unsettled
<1>48. CASE StreamCell
  BY <1>48 DEF StreamCell, flow, GuardInv, SessionBalanced, Unsettled
<1>49. CASE SseCell
  BY <1>49 DEF SseCell, flow, GuardInv, SessionBalanced, Unsettled
<1>50. CASE RelayFails
  BY <1>50 DEF RelayFails, Failed, Settle, flow, Fail, GuardInv, SessionBalanced, Unsettled,
     Types, WireTypes, TraceType
<1>51. CASE RelayDone
  BY <1>51 DEF RelayDone, Failed, Settle, flow, Fail, GuardInv, SessionBalanced, Unsettled,
     Types, WireTypes, TraceType
<1>52. CASE ForwardFails
  BY <1>52 DEF ForwardFails, flow, GuardInv, SessionBalanced, Unsettled, Types, WireTypes,
     TraceType
<1>53. CASE ClientChanges
  BY <1>53 DEF ClientChanges, GuardInv, SessionBalanced, Unsettled
<1>54. CASE DeadlinePasses
  BY <1>54 DEF DeadlinePasses, GuardInv, SessionBalanced, Unsettled
<1>55. CASE Closed
  BY <1>55 DEF Closed, vars, GuardInv, SessionBalanced, Unsettled
<1>56. CASE UNCHANGED vars
  BY <1>56 DEF vars, GuardInv, SessionBalanced, Unsettled
<1>57. QED
  BY <1>1, <1>2, <1>3, <1>4, <1>5, <1>6, <1>7, <1>8, <1>9, <1>10, <1>11, <1>12,
     <1>13, <1>14, <1>15, <1>16, <1>17, <1>18, <1>19, <1>20, <1>21, <1>22, <1>23,
     <1>24, <1>25, <1>26, <1>27, <1>28, <1>29, <1>30, <1>31, <1>32, <1>33, <1>34,
     <1>35, <1>36, <1>37, <1>38, <1>39, <1>40, <1>41, <1>42, <1>43, <1>44, <1>45,
     <1>46, <1>47, <1>48, <1>49, <1>50, <1>51, <1>52, <1>53, <1>54, <1>55, <1>56 DEF Next, Thread

\* The status that is recorded is the one that was written last to a client that can
\* still be written to.
LEMMA StatusStep ==
    ASSUME Types, GuardInv, StatusInv, [Next]_vars
    PROVE  StatusInv'
<1>1. CASE ReadHead
  BY <1>1 DEF ReadHead, Open, Gone, StatusInv, RecordedStatus
<1>2. CASE HeadMalformed
  BY <1>2 DEF HeadMalformed, Open, Gone, StatusInv, RecordedStatus, NoTrace
<1>3. CASE HeadEnds
  BY <1>3 DEF HeadEnds, StatusInv, RecordedStatus, Open, Gone
<1>4. CASE Unauthorized
  <2>1. pc' \in {"head", "closed"} /\ UNCHANGED trace /\ trace.finished = 0
    BY <1>4 DEF Unauthorized, GuardInv, Unsettled
  <2> QED
    BY <2>1 DEF StatusInv, RecordedStatus
<1>5. CASE HandleHead
  BY <1>5 DEF HandleHead, Open, Gone, flow, StatusInv, RecordedStatus
<1>6. CASE ReadBody
  BY <1>6 DEF ReadBody, Open, Gone, flow, StatusInv, RecordedStatus
<1>7. CASE BodyRead
  BY <1>7 DEF BodyRead, StatusInv, RecordedStatus, Open, Gone
<1>8. CASE BodyFails
  <2>1. pc' \in {"head", "closed"} /\ UNCHANGED trace /\ trace.finished = 0
    BY <1>8 DEF BodyFails, GuardInv, Unsettled
  <2> QED
    BY <2>1 DEF StatusInv, RecordedStatus
<1>9. CASE Resolve
  BY <1>9 DEF Resolve, StatusInv, RecordedStatus, Open, Gone
<1>10. CASE RequestDelay
  BY <1>10 DEF RequestDelay, flow, StatusInv, RecordedStatus, Open, Gone
<1>11. CASE RequestActions
  BY <1>11 DEF RequestActions, flow, StatusInv, RecordedStatus, Open, Gone
<1>12. CASE RequestTotalTimeout
  <2>1. out \in OutType /\ 504 \in Nat /\ 1 \in Nat /\ LocalKeepAlive \in BOOLEAN
    BY Relayed DEF Types
  <2>2. ResponseWritten(out, 504, 1, LocalKeepAlive).status = 504
    BY <2>1, WholeFields
  <2>3. \/ pc' = "abandon"
        \/ /\ pc' = "record" /\ out' = ResponseWritten(out, 504, 1, LocalKeepAlive)
           /\ trace' = [trace EXCEPT !.status = 504]
    BY <1>12 DEF RequestTotalTimeout
  <2> QED
    BY <2>2, <2>3 DEF StatusInv, RecordedStatus, Types, WireTypes, TraceType
<1>13. CASE StatusAnswer
  <2>1. /\ out \in OutType /\ acts.local \in Nat /\ 1 \in Nat /\ LocalKeepAlive \in BOOLEAN
        /\ "length" \in Framings
    BY Relayed DEF Types, RecordTypes, OutcomeType, Framings
  <2>2. LocalResponse(acts.local, 1).status = acts.local
    BY <2>1, WholeFields, HeadFields DEF LocalResponse
  <2>3. \/ pc' = "abandon"
        \/ /\ pc' = "record" /\ out' = LocalResponse(acts.local, 1)
           /\ trace' = [trace EXCEPT !.status = acts.local]
    BY <1>13 DEF StatusAnswer, Answered
  <2> QED
    BY <2>2, <2>3 DEF StatusInv, RecordedStatus, Types, WireTypes, TraceType
<1>14. CASE RedirectAnswer
  <2>1. /\ out \in OutType /\ 302 \in Nat /\ 0 \in Nat /\ LocalKeepAlive \in BOOLEAN
        /\ "length" \in Framings
    BY Relayed DEF Types, RecordTypes, OutcomeType, Framings
  <2>2. ResponseWritten(out, 302, 0, LocalKeepAlive).status = 302
    BY <2>1, WholeFields, HeadFields
  <2>3. \/ pc' = "abandon"
        \/ /\ pc' = "record" /\ out' = ResponseWritten(out, 302, 0, LocalKeepAlive)
           /\ trace' = [trace EXCEPT !.status = 302]
    BY <1>14 DEF RedirectAnswer, Answered
  <2> QED
    BY <2>2, <2>3 DEF StatusInv, RecordedStatus, Types, WireTypes, TraceType
<1>15. CASE MockAnswer
  <2>1. /\ out \in OutType /\ acts.local \in Nat /\ 2 \in Nat /\ LocalKeepAlive \in BOOLEAN
        /\ "length" \in Framings
    BY Relayed DEF Types, RecordTypes, OutcomeType, Framings
  <2>2. LocalResponse(acts.local, 2).status = acts.local
    BY <2>1, WholeFields, HeadFields DEF LocalResponse
  <2>3. \/ pc' = "abandon"
        \/ /\ pc' = "record" /\ out' = LocalResponse(acts.local, 2)
           /\ trace' = [trace EXCEPT !.status = acts.local]
    BY <1>15 DEF MockAnswer, Answered
  <2> QED
    BY <2>2, <2>3 DEF StatusInv, RecordedStatus, Types, WireTypes, TraceType
<1>16. CASE RecordSession
  <2>1. trace \in TraceType /\ pc = "record" /\ pc' # "record" /\ UNCHANGED <<out, client>>
    BY <1>16 DEF RecordSession, NextTurn, Types, WireTypes
  <2>2. \A taken \in BOOLEAN : Recorded(taken).status = trace.status /\ Recorded(taken) \in TraceType
    BY <2>1, Settlings DEF Recorded, TraceType, Types
  <2>3. \A t \in TraceType : GuardDropped(t).status = t.status
    BY DEF GuardDropped, TraceType
  <2>4. trace'.status = trace.status
    BY <1>16, <2>1, <2>2, <2>3 DEF RecordSession
  <2> QED
    BY <2>1, <2>4 DEF StatusInv, RecordedStatus, Open, Gone
<1>17. CASE Abandon
  <2>1. trace \in TraceType /\ trace.finished = 0 /\ pc' = "closed" /\ trace' = GuardDropped(trace)
    BY <1>17 DEF Abandon, Types, WireTypes, GuardInv, Unsettled
  <2>2. trace'.finished = 0
    BY <2>1 DEF GuardDropped, TraceType
  <2> QED
    BY <2>1, <2>2 DEF StatusInv, RecordedStatus
<1>18. CASE Forward
  BY <1>18 DEF Forward, flow, StatusInv, RecordedStatus, Open, Gone
<1>19. CASE Checkout
  BY <1>19 DEF Checkout, flow, StatusInv, RecordedStatus, Open, Gone
<1>20. CASE ConnectPooled
  BY <1>20 DEF ConnectPooled, Fail, flow, StatusInv, RecordedStatus, Open, Gone
<1>21. CASE SendPooled
  BY <1>21 DEF SendPooled, Fail, flow, StatusInv, RecordedStatus, Open, Gone
<1>22. CASE AwaitPooled
  BY <1>22 DEF AwaitPooled, Fail, flow, StatusInv, RecordedStatus, Open, Gone
<1>23. CASE PooledFails
  BY <1>23 DEF PooledFails, Failed, Open, Gone, flow, Fail, StatusInv, RecordedStatus
<1>24. CASE AnswerWithoutBody
  <2>1. \A f, l : HeadWritten(out, up.head.status, f, l, ClientConnection).status = up.head.status
    BY DEF HeadWritten
  <2> QED
    BY <1>24, <2>1 DEF AnswerWithoutBody, Settle, StatusInv, RecordedStatus, Types, WireTypes, TraceType
<1>25. CASE AnswerResetContent
  BY <1>25 DEF AnswerResetContent, Pooled, StartCollect, flow, StatusInv, RecordedStatus,
     Open, Gone
<1>26. CASE AnswerSmall
  BY <1>26 DEF AnswerSmall, Pooled, StartCollect, flow, StatusInv, RecordedStatus, Open, Gone
<1>27. CASE AnswerFixed
  BY <1>27 DEF AnswerFixed, Pooled, Open, Gone, StartRelay, flow, StatusInv, RecordedStatus
<1>28. CASE AnswerChunked
  BY <1>28 DEF AnswerChunked, Pooled, Open, Gone, StartRelay, flow, StatusInv, RecordedStatus
<1>29. CASE AnswerCloseDelimited
  BY <1>29 DEF AnswerCloseDelimited, Pooled, Open, Gone, StartRelay, flow, StatusInv,
     RecordedStatus
<1>30. CASE AnswerSse
  BY <1>30 DEF AnswerSse, Pooled, Open, Gone, StartRelay, flow, StatusInv, RecordedStatus
<1>31. CASE Dispatch
  BY <1>31 DEF Dispatch, H2Answers, flow, Fail, StatusInv, RecordedStatus, Open, Gone
<1>32. CASE Connect
  BY <1>32 DEF Connect, H2Answers, Fail, flow, StatusInv, RecordedStatus, Open, Gone
<1>33. CASE UploadCell
  BY <1>33 DEF UploadCell, Open, Gone, flow, StatusInv, RecordedStatus
<1>34. CASE UploadCut
  BY <1>34 DEF UploadCut, flow, StatusInv, RecordedStatus, Open, Gone
<1>35. CASE UploadDone
  BY <1>35 DEF UploadDone, StatusInv, RecordedStatus, Open, Gone
<1>36. CASE UploadFails
  BY <1>36 DEF UploadFails, Fail, StatusInv, RecordedStatus, Open, Gone
<1>37. CASE Await
  BY <1>37 DEF Await, Fail, flow, StatusInv, RecordedStatus, Open, Gone
<1>38. CASE Upgrade
  BY <1>38 DEF Upgrade, Unpooled, LongLived, flow, Open, Gone, Failed, StartRelay, Fail,
     StatusInv, RecordedStatus
<1>39. CASE EventStream
  BY <1>39 DEF EventStream, Unpooled, LongLived, flow, Open, Gone, Failed, StartRelay, Fail,
     StatusInv, RecordedStatus
<1>40. CASE AnswerStreamed
  <2> DEFINE W == IF StreamFraming(req.method, up.head) = "empty" THEN 0 ELSE up.head.size
  <2>1. W \in Nat
    BY Relayed DEF Types, HeadType
  <2>2. StreamHead(W) => pc' \in {"failed", "relay"}
    <3> HIDE DEF W
    <3> QED BY <2>1, StreamHeadShape DEF Types
  <2>3. pc' \in {"failed", "relay", "collect"}
    BY <1>40, <2>2 DEF AnswerStreamed, StartCollect, Unpooled
  <2> QED
    BY <2>3 DEF StatusInv, RecordedStatus
<1>41. CASE AnswerBuffered
  BY <1>41 DEF AnswerBuffered, Unpooled, StartCollect, flow, StatusInv, RecordedStatus, Open, Gone
<1>42. CASE AnswerH2
  <2> DEFINE W == up.left
  <2>1. W \in Nat
    BY Relayed DEF Types, HeadType
  <2>2. StreamHead(W) => pc' \in {"failed", "relay"}
    <3> HIDE DEF W
    <3> QED BY <2>1, StreamHeadShape DEF Types
  <2>3. pc' \in {"failed", "relay", "collect"}
    BY <1>42, <2>2 DEF AnswerH2, StartCollect, Unpooled
  <2> QED
    BY <2>3 DEF StatusInv, RecordedStatus
<1>43. CASE CollectCell
  BY <1>43 DEF CollectCell, flow, StatusInv, RecordedStatus, Open, Gone
<1>44. CASE CollectOverflows
  <2> DEFINE W == up.want
  <2>1. W \in Nat
    BY Relayed DEF Types, HeadType
  <2>2. StreamHead(W) => pc' \in {"failed", "relay"}
    <3> HIDE DEF W
    <3> QED BY <2>1, StreamHeadShape DEF Types
  <2>3. pc' \in {"failed", "relay", "collect"}
    BY <1>44, <2>2 DEF CollectOverflows, StartCollect, Unpooled
  <2> QED
    BY <2>3 DEF StatusInv, RecordedStatus
<1>45. CASE CollectFails
  BY <1>45 DEF CollectFails, Failed, flow, Fail, StatusInv, RecordedStatus, Open, Gone
<1>46. CASE CollectDone
  <2> DEFINE size == IF up.head.status = 205 THEN 0 ELSE up.got
             whole == ResponseWritten(out, RelayedStatus, size, ClientConnection)
             bare == HeadWritten(out, RelayedStatus, "length", size, ClientConnection)
  <2>1. out \in OutType /\ RelayedStatus \in Nat /\ size \in Nat /\ ClientConnection \in BOOLEAN
    BY Relayed DEF Types
  <2>2. whole.status = RelayedStatus
    <3> HIDE DEF size
    <3> QED BY <2>1, WholeFields
  <2>3. bare.status = RelayedStatus
    BY DEF HeadWritten
  <2>4. \/ pc' = "failed"
        \/ /\ pc' = "record" /\ (out' = whole \/ out' = bare)
           /\ trace' = [trace EXCEPT !.status = RelayedStatus,
                                     !.hidden = trace.hidden \/ acts.hideResponse]
    BY <1>46 DEF CollectDone, Settle, Failed, Fail
  <2> HIDE DEF whole, bare
  <2> QED
    BY <2>2, <2>3, <2>4 DEF StatusInv, RecordedStatus, Types, WireTypes, TraceType
<1>47. CASE RelayCell
  BY <1>47 DEF RelayCell, Open, Gone, flow, StatusInv, RecordedStatus
<1>48. CASE StreamCell
  BY <1>48 DEF StreamCell, Open, Gone, flow, StatusInv, RecordedStatus
<1>49. CASE SseCell
  BY <1>49 DEF SseCell, Open, Gone, flow, StatusInv, RecordedStatus
<1>50. CASE RelayFails
  <2>1. \/ pc' = "failed"
        \/ /\ pc' = "record" /\ (out' = out \/ out' = BodyEnded(out))
           /\ trace' = [trace EXCEPT !.status = out.status,
                                     !.hidden = trace.hidden \/ acts.hideResponse]
    BY <1>50 DEF RelayFails, Settle, Failed, Fail
  <2>2. BodyEnded(out).status = out.status
    BY Continued DEF Types, RecordTypes
  <2> QED
    BY <2>1, <2>2 DEF StatusInv, RecordedStatus, Types, WireTypes, TraceType
<1>51. CASE RelayDone
  <2>1. \/ pc' = "failed"
        \/ /\ pc' = "record" /\ (out' = out \/ out' = BodyEnded(out))
           /\ trace' = [trace EXCEPT !.status = out.status,
                                     !.hidden = trace.hidden \/ acts.hideResponse]
    BY <1>51 DEF RelayDone, Settle, Failed, Fail
  <2>2. BodyEnded(out).status = out.status
    BY Continued DEF Types, RecordTypes
  <2> QED
    BY <2>1, <2>2 DEF StatusInv, RecordedStatus, Types, WireTypes, TraceType
<1>52. CASE ForwardFails
  <2> DEFINE K == RequestedKeepAlive(req) /\ ~body.streaming
  <2>1. out \in OutType /\ ErrorStatus(err) \in Nat /\ 1 \in Nat /\ K \in BOOLEAN
    BY DEF Types, RecordTypes, ErrorStatus
  <2>2. ResponseWritten(out, ErrorStatus(err), 1, K).status = ErrorStatus(err)
    <3> HIDE DEF K
    <3> QED BY <2>1, WholeFields
  <2>3. /\ pc' = "record" /\ UNCHANGED client
        /\ ~Gone => out' = ResponseWritten(out, ErrorStatus(err), 1, K)
        /\ trace' = [trace EXCEPT !.status = ErrorStatus(err)]
    BY <1>52 DEF ForwardFails, flow, Open, Stalled, Gone, Types, LoopTypes
  <2> HIDE DEF K
  <2> QED
    BY <2>2, <2>3 DEF StatusInv, RecordedStatus, Gone, Types, WireTypes, TraceType
<1>53. CASE ClientChanges
  BY <1>53 DEF ClientChanges, Open, Gone, StatusInv, RecordedStatus
<1>54. CASE DeadlinePasses
  BY <1>54 DEF DeadlinePasses, StatusInv, RecordedStatus, Open, Gone
<1>55. CASE Closed
  BY <1>55 DEF Closed, vars, StatusInv, RecordedStatus, Open, Gone
<1>56. CASE UNCHANGED vars
  BY <1>56 DEF vars, StatusInv, RecordedStatus, Open, Gone
<1>57. QED
  BY <1>1, <1>2, <1>3, <1>4, <1>5, <1>6, <1>7, <1>8, <1>9, <1>10, <1>11, <1>12,
     <1>13, <1>14, <1>15, <1>16, <1>17, <1>18, <1>19, <1>20, <1>21, <1>22, <1>23,
     <1>24, <1>25, <1>26, <1>27, <1>28, <1>29, <1>30, <1>31, <1>32, <1>33, <1>34,
     <1>35, <1>36, <1>37, <1>38, <1>39, <1>40, <1>41, <1>42, <1>43, <1>44, <1>45,
     <1>46, <1>47, <1>48, <1>49, <1>50, <1>51, <1>52, <1>53, <1>54, <1>55, <1>56 DEF Next, Thread

\* A request without a body leaves nothing in the socket.
LEMMA Bodiless ==
    ASSUME NEW r \in RequestType
    PROVE  ~HasBody(r) => RequestCells(r) = 0
BY DEF RequestType, HasBody, RequestCells

\* What the client still has to send of a request is known, and nothing is left of it where
\* the connection may persist.
LEMMA BodyStep ==
    ASSUME Types, BodyInv, [Next]_vars
    PROVE  BodyInv'
<1>1. CASE ReadHead
  BY <1>1 DEF ReadHead, BodyInv, NoBody
<1>2. CASE HeadMalformed
  BY <1>2 DEF HeadMalformed, BodyInv
<1>3. CASE HeadEnds
  BY <1>3 DEF HeadEnds, BodyInv
<1>4. CASE Unauthorized
  <2>1. \/ pc' = "head" /\ ~HasBody(req) /\ UNCHANGED body
        \/ pc' = "closed"
    BY <1>4 DEF Unauthorized
  <2>2. ~HasBody(req) => RequestCells(req) = 0
    BY Bodiless DEF Types, RecordTypes
  <2> QED
    BY <1>4, <2>1, <2>2 DEF Unauthorized, BodyInv
<1>5. CASE HandleHead
  BY <1>5, Bodiless DEF HandleHead, flow, BodyInv, Types, RecordTypes
<1>6. CASE ReadBody
  BY <1>6 DEF ReadBody, BodyStreams, flow, BodyInv, Types, RecordTypes, BodyType
<1>7. CASE BodyRead
  BY <1>7 DEF BodyRead, BodyStreams, BodyInv, Types, RecordTypes, BodyType
<1>8. CASE BodyFails
  BY <1>8 DEF BodyFails, BodyInv
<1>9. CASE Resolve
  BY <1>9 DEF Resolve, BodyInv
<1>10. CASE RequestDelay
  BY <1>10 DEF RequestDelay, flow, BodyInv
<1>11. CASE RequestActions
  BY <1>11 DEF RequestActions, flow, BodyInv
<1>12. CASE RequestTotalTimeout
  <2>1. /\ pc \in {"delay", "actions"} /\ UNCHANGED body
        /\ pc' = "abandon" \/ (pc' = "record" /\ keep' = LocalKeepAlive)
    BY <1>12 DEF RequestTotalTimeout
  <2> QED
    BY <2>1 DEF BodyInv, LocalKeepAlive
<1>13. CASE StatusAnswer
  BY <1>13 DEF StatusAnswer, Answered, LocalKeepAlive, flow, BodyInv
<1>14. CASE RedirectAnswer
  BY <1>14 DEF RedirectAnswer, Answered, LocalKeepAlive, flow, BodyInv
<1>15. CASE MockAnswer
  BY <1>15 DEF MockAnswer, Answered, LocalKeepAlive, flow, BodyInv
<1>16. CASE RecordSession
  BY <1>16 DEF RecordSession, NextTurn, BodyInv
<1>17. CASE Abandon
  BY <1>17 DEF Abandon, flow, BodyInv
<1>18. CASE Forward
  BY <1>18 DEF Forward, Plan, flow, BodyInv
<1>19. CASE Checkout
  BY <1>19 DEF Checkout, flow, BodyInv
<1>20. CASE ConnectPooled
  BY <1>20 DEF ConnectPooled, Failures, Fail, flow, BodyInv
<1>21. CASE SendPooled
  BY <1>21 DEF SendPooled, Failures, Fail, flow, BodyInv
<1>22. CASE AwaitPooled
  BY <1>22 DEF AwaitPooled, Failures, Fail, flow, BodyInv
<1>23. CASE PooledFails
  BY <1>23 DEF PooledFails, Failed, flow, Fail, BodyInv
<1>24. CASE AnswerWithoutBody
  BY <1>24 DEF AnswerWithoutBody, Pooled, ClientConnection, Settle, flow, BodyInv
<1>25. CASE AnswerResetContent
  BY <1>25 DEF AnswerResetContent, Pooled, StartCollect, flow, BodyInv
<1>26. CASE AnswerSmall
  BY <1>26 DEF AnswerSmall, Pooled, StartCollect, flow, BodyInv
<1>27. CASE AnswerFixed
  BY <1>27 DEF AnswerFixed, Pooled, StartRelay, HeadWritten, ClientConnection, flow, BodyInv
<1>28. CASE AnswerChunked
  BY <1>28 DEF AnswerChunked, Pooled, StartRelay, HeadWritten, ClientConnection, flow,
     BodyInv
<1>29. CASE AnswerCloseDelimited
  BY <1>29 DEF AnswerCloseDelimited, Pooled, StartRelay, HeadWritten, flow, BodyInv
<1>30. CASE AnswerSse
  BY <1>30 DEF AnswerSse, Pooled, StartRelay, HeadWritten, flow, BodyInv
<1>31. CASE Dispatch
  BY <1>31 DEF Dispatch, H2Answers, flow, Failures, Fail, BodyInv
<1>32. CASE Connect
  BY <1>32 DEF Connect, H2Answers, Failures, Fail, flow, BodyInv
<1>33. CASE UploadCell
  BY <1>33 DEF UploadCell, flow, BodyInv, Types, RecordTypes, BodyType
<1>34. CASE UploadCut
  BY <1>34 DEF UploadCut, flow, BodyInv, Types, RecordTypes, BodyType
<1>35. CASE UploadDone
  BY <1>35 DEF UploadDone, BodyInv, Types, RecordTypes, BodyType
<1>36. CASE UploadFails
  BY <1>36 DEF UploadFails, Fail, Failures, BodyInv
<1>37. CASE Await
  BY <1>37 DEF Await, Failures, Fail, flow, BodyInv
<1>38. CASE Upgrade
  BY <1>38 DEF Upgrade, Unpooled, LongLived, flow, Failed, StartRelay, HeadWritten, Fail,
     BodyInv
<1>39. CASE EventStream
  BY <1>39 DEF EventStream, Unpooled, LongLived, flow, Failed, StartRelay, HeadWritten,
     Fail, BodyInv
<1>40. CASE AnswerStreamed
  <2> DEFINE W == IF StreamFraming(req.method, up.head) = "empty" THEN 0 ELSE up.head.size
  <2>1. W \in Nat
    BY Relayed DEF Types, HeadType
  <2>2. StreamHead(W) => \/ pc' = "failed" /\ err' \in {"other", "total"}
                         \/ pc' = "relay" /\ (out'.keep => ClientConnection)
    <3> HIDE DEF W
    <3> QED BY <2>1, StreamHeadShape DEF Types
  <2>3. /\ pc \in {"answer", "collect"} /\ UNCHANGED <<req, body, served>>
        /\ \/ pc' = "failed" /\ err' \in {"other", "total"}
           \/ pc' = "relay" /\ (out'.keep => ClientConnection)
           \/ pc' = "collect"
    BY <1>40, <2>2 DEF AnswerStreamed, StartCollect, Unpooled, flow
  <2> QED
    BY <2>3 DEF BodyInv, ClientConnection
<1>41. CASE AnswerBuffered
  BY <1>41 DEF AnswerBuffered, Unpooled, StartCollect, flow, BodyInv
<1>42. CASE AnswerH2
  <2> DEFINE W == up.left
  <2>1. W \in Nat
    BY Relayed DEF Types, HeadType
  <2>2. StreamHead(W) => \/ pc' = "failed" /\ err' \in {"other", "total"}
                         \/ pc' = "relay" /\ (out'.keep => ClientConnection)
    <3> HIDE DEF W
    <3> QED BY <2>1, StreamHeadShape DEF Types
  <2>3. /\ pc \in {"answer", "collect"} /\ UNCHANGED <<req, body, served>>
        /\ \/ pc' = "failed" /\ err' \in {"other", "total"}
           \/ pc' = "relay" /\ (out'.keep => ClientConnection)
           \/ pc' = "collect"
    BY <1>42, <2>2 DEF AnswerH2, StartCollect, Unpooled, flow
  <2> QED
    BY <2>3 DEF BodyInv, ClientConnection
<1>43. CASE CollectCell
  BY <1>43 DEF CollectCell, flow, BodyInv
<1>44. CASE CollectOverflows
  <2> DEFINE W == up.want
  <2>1. W \in Nat
    BY Relayed DEF Types, HeadType
  <2>2. StreamHead(W) => \/ pc' = "failed" /\ err' \in {"other", "total"}
                         \/ pc' = "relay" /\ (out'.keep => ClientConnection)
    <3> HIDE DEF W
    <3> QED BY <2>1, StreamHeadShape DEF Types
  <2>3. /\ pc \in {"answer", "collect"} /\ UNCHANGED <<req, body, served>>
        /\ \/ pc' = "failed" /\ err' \in {"other", "total"}
           \/ pc' = "relay" /\ (out'.keep => ClientConnection)
           \/ pc' = "collect"
    BY <1>44, <2>2 DEF CollectOverflows, StartCollect, Unpooled, flow
  <2> QED
    BY <2>3 DEF BodyInv, ClientConnection
<1>45. CASE CollectFails
  BY <1>45 DEF CollectFails, Failures, Failed, flow, Fail, BodyInv
<1>46. CASE CollectDone
  BY <1>46 DEF CollectDone, ClientConnection, Failed, Settle, flow, Fail, BodyInv
<1>47. CASE RelayCell
  BY <1>47, Continued DEF RelayCell, flow, BodyInv, Types, RecordTypes
<1>48. CASE StreamCell
  BY <1>48, Continued DEF StreamCell, flow, BodyInv, Types, RecordTypes
<1>49. CASE SseCell
  BY <1>49, Continued DEF SseCell, flow, BodyInv, Types, RecordTypes
<1>50. CASE RelayFails
  BY <1>50 DEF RelayFails, Failed, Settle, flow, Fail, BodyInv
<1>51. CASE RelayDone
  BY <1>51 DEF RelayDone, Failed, Settle, flow, Fail, BodyInv
<1>52. CASE ForwardFails
  BY <1>52 DEF ForwardFails, flow, BodyInv
<1>53. CASE ClientChanges
  BY <1>53 DEF ClientChanges, BodyInv
<1>54. CASE DeadlinePasses
  BY <1>54 DEF DeadlinePasses, BodyInv
<1>55. CASE Closed
  BY <1>55 DEF Closed, vars, BodyInv
<1>56. CASE UNCHANGED vars
  BY <1>56 DEF vars, BodyInv
<1>57. QED
  BY <1>1, <1>2, <1>3, <1>4, <1>5, <1>6, <1>7, <1>8, <1>9, <1>10, <1>11, <1>12,
     <1>13, <1>14, <1>15, <1>16, <1>17, <1>18, <1>19, <1>20, <1>21, <1>22, <1>23,
     <1>24, <1>25, <1>26, <1>27, <1>28, <1>29, <1>30, <1>31, <1>32, <1>33, <1>34,
     <1>35, <1>36, <1>37, <1>38, <1>39, <1>40, <1>41, <1>42, <1>43, <1>44, <1>45,
     <1>46, <1>47, <1>48, <1>49, <1>50, <1>51, <1>52, <1>53, <1>54, <1>55, <1>56 DEF Next, Thread

\* A pooled connection is in step with its reader until it is checked in, and is checked in
\* only then.
LEMMA UpstreamStep ==
    ASSUME Types, UpstreamInv, [Next]_vars
    PROVE  UpstreamInv'
<1>1. CASE ReadHead
  BY <1>1 DEF ReadHead, UpstreamInv, Before, PooledInSync
<1>2. CASE HeadMalformed
  BY <1>2 DEF HeadMalformed, UpstreamInv, Before, PooledInSync
<1>3. CASE HeadEnds
  BY <1>3 DEF HeadEnds, UpstreamInv, Before, PooledInSync
<1>4. CASE Unauthorized
  BY <1>4 DEF Unauthorized, UpstreamInv, Before, PooledInSync
<1>5. CASE HandleHead
  BY <1>5 DEF HandleHead, flow, UpstreamInv, Before, PooledInSync
<1>6. CASE ReadBody
  BY <1>6 DEF ReadBody, flow, UpstreamInv, Before, PooledInSync
<1>7. CASE BodyRead
  BY <1>7 DEF BodyRead, UpstreamInv, Before, PooledInSync
<1>8. CASE BodyFails
  BY <1>8 DEF BodyFails, UpstreamInv, Before, PooledInSync
<1>9. CASE Resolve
  BY <1>9 DEF Resolve, UpstreamInv, Before, PooledInSync
<1>10. CASE RequestDelay
  BY <1>10 DEF RequestDelay, flow, UpstreamInv, Before, PooledInSync
<1>11. CASE RequestActions
  BY <1>11 DEF RequestActions, flow, UpstreamInv, Before, PooledInSync
<1>12. CASE RequestTotalTimeout
  BY <1>12 DEF RequestTotalTimeout, flow, UpstreamInv, Before, PooledInSync
<1>13. CASE StatusAnswer
  BY <1>13 DEF StatusAnswer, Answered, flow, UpstreamInv, Before, PooledInSync
<1>14. CASE RedirectAnswer
  BY <1>14 DEF RedirectAnswer, Answered, flow, UpstreamInv, Before, PooledInSync
<1>15. CASE MockAnswer
  BY <1>15 DEF MockAnswer, Answered, flow, UpstreamInv, Before, PooledInSync
<1>16. CASE RecordSession
  BY <1>16 DEF RecordSession, NextTurn, UpstreamInv, Before, PooledInSync
<1>17. CASE Abandon
  BY <1>17 DEF Abandon, flow, UpstreamInv, Before, PooledInSync
<1>18. CASE Forward
  <2>1. up = NoUpstream /\ UNCHANGED <<up, req, idle>>
    BY <1>18 DEF Forward, UpstreamInv, Before, flow
  <2>3. pc' \in {"checkout", "dispatch", "connect"}
    BY <1>18 DEF Forward
  <2> QED
    BY <2>1, <2>3 DEF UpstreamInv, Before, PooledInSync, NoUpstream
<1>19. CASE Checkout
  <2>1. pc = "checkout" /\ idle' = NoIdle
    BY <1>19 DEF Checkout
  <2>2. idle.stray \/ (idle.left = 0 /\ idle.owed = 0)
    BY <1>19 DEF Checkout, UpstreamInv, PooledInSync
  <2>3. CASE /\ up' = [NoUpstream EXCEPT !.kind = "pooled", !.reused = TRUE,
                         !.left = idle.left, !.owed = idle.owed, !.stray = idle.stray]
             /\ pc' = "send"
    <3>1. up'.kind = "pooled" /\ up'.got = 0
      BY <2>3 DEF NoUpstream
    <3>2. up'.left = idle.left /\ up'.owed = idle.owed /\ up'.stray = idle.stray
      BY <2>3 DEF NoUpstream
    <3> QED
      BY <2>1, <2>2, <2>3, <3>1, <3>2 DEF UpstreamInv, Before, PooledInSync
  <2>4. CASE UNCHANGED <<up, pc>>
    BY <2>1, <2>4 DEF UpstreamInv, Before, PooledInSync
  <2> QED
    BY <1>19, <2>3, <2>4 DEF Checkout
<1>20. CASE ConnectPooled
  BY <1>20 DEF ConnectPooled, Fail, flow, UpstreamInv, Before, PooledInSync, Types,
     WireTypes, UpType
<1>21. CASE SendPooled
  BY <1>21 DEF SendPooled, Fail, flow, UpstreamInv, Before, PooledInSync, Types, WireTypes,
     UpType, NoUpstream
<1>22. CASE AwaitPooled
  <2>1. CASE pc' = "failed"
    BY <1>22, <2>1 DEF AwaitPooled, UpstreamInv, Before, PooledInSync, flow
  <2>2. CASE pc' = "checkout"
    <3>1. up' = [NoUpstream EXCEPT !.tries = 1] /\ UNCHANGED <<req, idle>>
      BY <1>22, <2>2 DEF AwaitPooled, flow, Fail
    <3> QED
      BY <1>22, <2>2, <3>1 DEF AwaitPooled, UpstreamInv, Before, PooledInSync, NoUpstream
  <2>3. CASE pc' = "answer"
    <3>1. /\ pc = "await" /\ up.kind = "pooled" /\ up.got = 0 /\ UNCHANGED <<req, idle>>
          /\ up.stray \/ (up.left = 0 /\ up.owed = 1)
      BY <1>22 DEF AwaitPooled, UpstreamInv, flow
    <3>2. PICK h \in OriginHeads :
             up' = [up EXCEPT !.head = h, !.left = up.left + OriginCells(req.method, h),
                              !.owed = IF h.status \in Informational THEN up.owed ELSE up.owed - 1,
                              !.stray = up.stray \/ Misread(h)]
      BY <1>22, <2>3 DEF AwaitPooled, Fail
    <3>3. h \in Responses /\ h \in HeadType /\ OriginCells(req.method, h) \in Nat
      BY Messages DEF OriginHeads, OriginCells, HeadType
    <3>5. /\ up'.head = h /\ up'.left = up.left + OriginCells(req.method, h)
          /\ up'.owed = IF h.status \in Informational THEN up.owed ELSE up.owed - 1
          /\ up'.stray = (up.stray \/ Misread(h))
          /\ up'.got = up.got /\ up'.kind = up.kind
      BY <3>2 DEF Types, WireTypes, UpType
    <3>7. up'.stray \/ (up'.owed = 0 /\ ~Misread(h) /\ up'.left = OriginCells(req.method, h))
      <4>1. CASE up.stray \/ Misread(h)
        BY <4>1, <3>5
      <4>2. CASE ~up.stray /\ ~Misread(h)
        <5>1. up.left = 0 /\ up.owed = 1 /\ h.status \notin Informational
          BY <4>2, <3>1 DEF Misread
        <5> QED
          BY <5>1, <4>2, <3>3, <3>5
      <4> QED
        BY <4>1, <4>2
    <3>6. Misread(up.head)' <=> Misread(h)
      BY <3>1, <3>5 DEF Misread
    <3> QED
      BY <2>3, <3>1, <3>3, <3>5, <3>6, <3>7 DEF UpstreamInv, Before, PooledInSync
  <2> QED
    BY <1>22, <2>1, <2>2, <2>3 DEF AwaitPooled, Fail
<1>23. CASE PooledFails
  BY <1>23 DEF PooledFails, Failed, flow, Fail, UpstreamInv, Before, PooledInSync
<1>24. CASE AnswerWithoutBody
  <2>1. /\ pc = "answer" /\ up.kind = "pooled" /\ PooledForm = "empty" /\ pc' = "record"
        /\ idle' \in {idle, [left |-> up.left, owed |-> up.owed, stray |-> up.stray]} /\ UNCHANGED <<up, req>>
    BY <1>24 DEF AnswerWithoutBody, Pooled, Settle, flow
  <2>3. up.stray \/ (up.left = 0 /\ up.owed = 0)
    BY <2>1 DEF UpstreamInv, PooledForm, OriginCells
  <2> QED
    BY <2>1, <2>3 DEF UpstreamInv, Before, PooledInSync
<1>25. CASE AnswerResetContent
  <2> DEFINE W == IF up.head.framing = "none" THEN 0 ELSE up.head.size
  <2>1. /\ pc = "answer" /\ up.kind = "pooled" /\ PooledForm = "reset" /\ UNCHANGED <<req, idle>>
        /\ pc' = "collect" /\ up' = [up EXCEPT !.mode = "discard", !.want = W]
    BY <1>25 DEF AnswerResetContent, Pooled, StartCollect, flow
  <2>2. /\ up.head \in HeadType
        /\ up.stray \/ /\ up.owed = 0 /\ ~Misread(up.head)
                       /\ up.left = OriginCells(req.method, up.head)
    BY <2>1 DEF UpstreamInv, Types, WireTypes, UpType
  <2>3. up.stray \/ (up.owed = 0 /\ up.left = W)
    BY <2>1, <2>2 DEF PooledForm, OriginCells, Misread, HeadType
  <2> HIDE DEF W
  <2>4. /\ up'.want = W /\ up'.left = up.left /\ up'.owed = up.owed /\ up'.head = up.head
        /\ up'.kind = up.kind /\ up'.stray = up.stray
    BY <2>1 DEF Types, WireTypes, UpType
  <2> QED
    BY <2>1, <2>2, <2>3, <2>4 DEF UpstreamInv, Before, PooledInSync, InStep
<1>26. CASE AnswerSmall
  <2> DEFINE W == up.head.size
  <2>1. /\ pc = "answer" /\ up.kind = "pooled" /\ PooledForm = "small" /\ UNCHANGED <<req, idle>>
        /\ pc' = "collect" /\ up' = [up EXCEPT !.mode = "buffer", !.want = W]
    BY <1>26 DEF AnswerSmall, Pooled, StartCollect, flow
  <2>2. /\ up.head \in HeadType
        /\ up.stray \/ /\ up.owed = 0 /\ ~Misread(up.head)
                       /\ up.left = OriginCells(req.method, up.head)
    BY <2>1 DEF UpstreamInv, Types, WireTypes, UpType
  <2>3. up.stray \/ (up.owed = 0 /\ up.left = W)
    BY <2>1, <2>2 DEF PooledForm, OriginCells, Misread, HeadType
  <2> HIDE DEF W
  <2>4. /\ up'.want = W /\ up'.left = up.left /\ up'.owed = up.owed /\ up'.head = up.head
        /\ up'.kind = up.kind /\ up'.stray = up.stray
    BY <2>1 DEF Types, WireTypes, UpType
  <2> QED
    BY <2>1, <2>2, <2>3, <2>4 DEF UpstreamInv, Before, PooledInSync, InStep
<1>27. CASE AnswerFixed
  <2> DEFINE W == up.head.size
  <2>1. /\ pc = "answer" /\ up.kind = "pooled" /\ PooledForm = "length" /\ UNCHANGED <<req, idle>>
        /\ pc' = "relay" /\ up' = [up EXCEPT !.mode = "length", !.want = W]
    BY <1>27 DEF AnswerFixed, Pooled, StartRelay, flow
  <2>2. /\ up.head \in HeadType
        /\ up.stray \/ /\ up.owed = 0 /\ ~Misread(up.head)
                       /\ up.left = OriginCells(req.method, up.head)
    BY <2>1 DEF UpstreamInv, Types, WireTypes, UpType
  <2>3. up.stray \/ (up.owed = 0 /\ up.left = W)
    BY <2>1, <2>2 DEF PooledForm, OriginCells, Misread, HeadType
  <2> HIDE DEF W
  <2>4. /\ up'.want = W /\ up'.left = up.left /\ up'.owed = up.owed /\ up'.head = up.head
        /\ up'.kind = up.kind /\ up'.stray = up.stray
    BY <2>1 DEF Types, WireTypes, UpType
  <2> QED
    BY <2>1, <2>2, <2>3, <2>4 DEF UpstreamInv, Before, PooledInSync, InStep
<1>28. CASE AnswerChunked
  <2> DEFINE W == up.head.size
  <2>1. /\ pc = "answer" /\ up.kind = "pooled" /\ PooledForm = "chunked" /\ UNCHANGED <<req, idle>>
        /\ pc' = "relay" /\ up' = [up EXCEPT !.mode = "chunked", !.want = W]
    BY <1>28 DEF AnswerChunked, Pooled, StartRelay, flow
  <2>2. /\ up.head \in HeadType
        /\ up.stray \/ /\ up.owed = 0 /\ ~Misread(up.head)
                       /\ up.left = OriginCells(req.method, up.head)
    BY <2>1 DEF UpstreamInv, Types, WireTypes, UpType
  <2>3. up.stray \/ (up.owed = 0 /\ up.left = W)
    BY <2>1, <2>2 DEF PooledForm, OriginCells, Misread, HeadType
  <2> HIDE DEF W
  <2>4. /\ up'.want = W /\ up'.left = up.left /\ up'.owed = up.owed /\ up'.head = up.head
        /\ up'.kind = up.kind /\ up'.stray = up.stray
    BY <2>1 DEF Types, WireTypes, UpType
  <2> QED
    BY <2>1, <2>2, <2>3, <2>4 DEF UpstreamInv, Before, PooledInSync, InStep
<1>29. CASE AnswerCloseDelimited
  <2> DEFINE W == up.head.size
  <2>1. /\ pc = "answer" /\ up.kind = "pooled" /\ PooledForm = "close" /\ UNCHANGED <<req, idle>>
        /\ pc' = "relay" /\ up' = [up EXCEPT !.mode = "close", !.want = W]
    BY <1>29 DEF AnswerCloseDelimited, Pooled, StartRelay, flow
  <2>2. /\ up.head \in HeadType
        /\ up.stray \/ /\ up.owed = 0 /\ ~Misread(up.head)
                       /\ up.left = OriginCells(req.method, up.head)
    BY <2>1 DEF UpstreamInv, Types, WireTypes, UpType
  <2>3. up.stray \/ (up.owed = 0 /\ up.left = W)
    BY <2>1, <2>2 DEF PooledForm, OriginCells, Misread, HeadType
  <2> HIDE DEF W
  <2>4. /\ up'.want = W /\ up'.left = up.left /\ up'.owed = up.owed /\ up'.head = up.head
        /\ up'.kind = up.kind /\ up'.stray = up.stray
    BY <2>1 DEF Types, WireTypes, UpType
  <2> QED
    BY <2>1, <2>2, <2>3, <2>4 DEF UpstreamInv, Before, PooledInSync, InStep
<1>30. CASE AnswerSse
  <2> DEFINE W == up.head.size
  <2>1. /\ pc = "answer" /\ up.kind = "pooled" /\ PooledForm = "sse" /\ UNCHANGED <<req, idle>>
        /\ pc' = "relay" /\ up' = [up EXCEPT !.mode = "sse", !.want = W]
    BY <1>30 DEF AnswerSse, Pooled, StartRelay, flow
  <2>2. /\ up.head \in HeadType
        /\ up.stray \/ /\ up.owed = 0 /\ ~Misread(up.head)
                       /\ up.left = OriginCells(req.method, up.head)
    BY <2>1 DEF UpstreamInv, Types, WireTypes, UpType
  <2>3. up.stray \/ (up.owed = 0 /\ up.left = W)
    BY <2>1, <2>2 DEF PooledForm, OriginCells, Misread, HeadType
  <2> HIDE DEF W
  <2>4. /\ up'.want = W /\ up'.left = up.left /\ up'.owed = up.owed /\ up'.head = up.head
        /\ up'.kind = up.kind /\ up'.stray = up.stray
    BY <2>1 DEF Types, WireTypes, UpType
  <2> QED
    BY <2>1, <2>2, <2>3, <2>4 DEF UpstreamInv, Before, PooledInSync, InStep
<1>31. CASE Dispatch
  <2>1. up = NoUpstream /\ UNCHANGED <<req, idle>>
    BY <1>31 DEF Dispatch, UpstreamInv, Before, flow
  <2>2. \/ pc' = "failed" \/ (pc' = "connect" /\ UNCHANGED up)
        \/ pc' = "upload" /\ up' \in {[NoUpstream EXCEPT !.kind = "h2"], [NoUpstream EXCEPT !.kind = "h1"]}
        \/ pc' = "answer" /\ \E h \in Responses :
              up' = HeadArrives([NoUpstream EXCEPT !.kind = "h2"], h)
    BY <1>31 DEF Dispatch, H2Answers, H2Heads, OriginHeads, Fail
  <2>3. CASE pc' = "answer"
    <3>1. PICK h \in Responses : up' = HeadArrives([NoUpstream EXCEPT !.kind = "h2"], h)
      BY <2>2, <2>3
    <3>2. /\ up'.head = h /\ up'.left = OriginCells(req.method, h) /\ up'.got = 0
          /\ up'.kind = "h2"
      BY <3>1 DEF HeadArrives, NoUpstream
    <3> QED
      BY <2>1, <2>3, <3>2 DEF UpstreamInv, Before, PooledInSync
  <2>4. CASE pc' # "answer"
    BY <2>1, <2>2, <2>4 DEF UpstreamInv, Before, PooledInSync, NoUpstream
  <2> QED
    BY <2>3, <2>4
<1>32. CASE Connect
  <2>1. up = NoUpstream /\ UNCHANGED <<req, idle>>
    BY <1>32 DEF Connect, UpstreamInv, Before, flow
  <2>2. \/ pc' = "failed" \/ (pc' = "connect" /\ UNCHANGED up)
        \/ pc' = "upload" /\ up' \in {[NoUpstream EXCEPT !.kind = "h2"], [NoUpstream EXCEPT !.kind = "h1"]}
        \/ pc' = "answer" /\ \E h \in Responses :
              up' = HeadArrives([NoUpstream EXCEPT !.kind = "h2"], h)
    BY <1>32 DEF Connect, H2Answers, H2Heads, OriginHeads, Fail
  <2>3. CASE pc' = "answer"
    <3>1. PICK h \in Responses : up' = HeadArrives([NoUpstream EXCEPT !.kind = "h2"], h)
      BY <2>2, <2>3
    <3>2. /\ up'.head = h /\ up'.left = OriginCells(req.method, h) /\ up'.got = 0
          /\ up'.kind = "h2"
      BY <3>1 DEF HeadArrives, NoUpstream
    <3> QED
      BY <2>1, <2>3, <3>2 DEF UpstreamInv, Before, PooledInSync
  <2>4. CASE pc' # "answer"
    BY <2>1, <2>2, <2>4 DEF UpstreamInv, Before, PooledInSync, NoUpstream
  <2> QED
    BY <2>3, <2>4
<1>33. CASE UploadCell
  BY <1>33 DEF UploadCell, flow, UpstreamInv, Before, PooledInSync
<1>34. CASE UploadCut
  BY <1>34 DEF UploadCut, flow, UpstreamInv, Before, PooledInSync
<1>35. CASE UploadDone
  BY <1>35 DEF UploadDone, UpstreamInv, Before, PooledInSync
<1>36. CASE UploadFails
  BY <1>36 DEF UploadFails, Fail, UpstreamInv, Before, PooledInSync
<1>37. CASE Await
  <2>1. /\ pc = "await" /\ up.kind # "pooled" /\ up.got = 0 /\ UNCHANGED <<req, idle>>
        /\ pc' \in {"failed", "answer"}
    BY <1>37 DEF Await, UpstreamInv, flow, Fail
  <2>2. CASE pc' = "failed"
    BY <2>1, <2>2 DEF UpstreamInv, Before, PooledInSync
  <2>3. CASE pc' = "answer"
    <3>1. PICK h \in Responses : up' = HeadArrives(up, h)
      BY <1>37, <2>3 DEF Await, H2Heads, OriginHeads, Fail
    <3>2. /\ up'.head = h /\ up'.left = OriginCells(req.method, h) /\ up'.got = up.got
          /\ up'.kind = up.kind
      BY <3>1 DEF HeadArrives, Types, WireTypes, UpType
    <3> QED
      BY <2>1, <2>3, <3>1, <3>2 DEF UpstreamInv, Before, PooledInSync
  <2> QED
    BY <2>1, <2>2, <2>3
<1>38. CASE Upgrade
  BY <1>38 DEF Upgrade, Unpooled, LongLived, flow, Failed, StartRelay, Fail, UpstreamInv,
     Before, PooledInSync, Types, WireTypes, UpType
<1>39. CASE EventStream
  BY <1>39 DEF EventStream, Unpooled, LongLived, flow, Failed, StartRelay, Fail,
     UpstreamInv, Before, PooledInSync, Types, WireTypes, UpType
<1>40. CASE AnswerStreamed
  <2> DEFINE W == IF StreamFraming(req.method, up.head) = "empty" THEN 0 ELSE up.head.size
  <2>1. W \in Nat
    BY Relayed DEF Types, HeadType
  <2>2. StreamHead(W) => \/ pc' = "failed"
                         \/ pc' = "relay" /\ up' = [up EXCEPT !.mode = "stream", !.want = W]
    <3> HIDE DEF W
    <3> QED BY <2>1, StreamHeadShape DEF Types
  <2>3. StreamHead(W) => UNCHANGED idle
    <3> HIDE DEF W
    <3> QED BY <2>1, StreamHeadShape DEF Types
  <2>4. UNCHANGED <<idle, req>> /\ up.kind # "pooled" /\ pc \in {"answer", "collect"}
    BY <1>40, <2>3 DEF AnswerStreamed, StartCollect, Unpooled, flow
  <2>5. \/ pc' = "failed"
        \/ pc' = "relay" /\ up' = [up EXCEPT !.mode = "stream", !.want = W]
        \/ pc = "answer" /\ pc' = "collect" /\ up' = [up EXCEPT !.mode = "buffer", !.want = up.left]
    BY <1>40, <2>2 DEF AnswerStreamed, StartCollect, Unpooled
  <2> HIDE DEF W
  <2>6. CASE pc' # "collect"
    <3>1. pc' \in {"failed", "relay"} /\ (pc' = "relay" => up'.kind = up.kind)
      BY <2>5, <2>6 DEF Types, WireTypes, UpType
    <3> QED
      BY <2>4, <3>1 DEF UpstreamInv, Before, PooledInSync
  <2>7. CASE pc' = "collect"
    <3>1. /\ pc = "answer" /\ up'.want = up.left /\ up'.got = up.got /\ up'.kind = up.kind
          /\ up'.head = up.head
      BY <2>5, <2>7 DEF Types, WireTypes, UpType
    <3>2. up.left \in Nat
      BY DEF Types, WireTypes, UpType
    <3> QED
      BY <2>4, <2>7, <3>1, <3>2 DEF UpstreamInv, Before, PooledInSync
  <2> QED
    BY <2>6, <2>7
<1>41. CASE AnswerBuffered
  BY <1>41 DEF AnswerBuffered, Unpooled, StartCollect, flow, UpstreamInv, Before,
     PooledInSync, Types, WireTypes, UpType
<1>42. CASE AnswerH2
  <2> DEFINE W == up.left
  <2>1. W \in Nat
    BY Relayed DEF Types, HeadType
  <2>2. StreamHead(W) => \/ pc' = "failed"
                         \/ pc' = "relay" /\ up' = [up EXCEPT !.mode = "stream", !.want = W]
    <3> HIDE DEF W
    <3> QED BY <2>1, StreamHeadShape DEF Types
  <2>3. StreamHead(W) => UNCHANGED idle
    <3> HIDE DEF W
    <3> QED BY <2>1, StreamHeadShape DEF Types
  <2>4. UNCHANGED <<idle, req>> /\ up.kind # "pooled" /\ pc \in {"answer", "collect"}
    BY <1>42, <2>3 DEF AnswerH2, StartCollect, Unpooled, flow
  <2>5. \/ pc' = "failed"
        \/ pc' = "relay" /\ up' = [up EXCEPT !.mode = "stream", !.want = W]
        \/ pc = "answer" /\ pc' = "collect" /\ up' = [up EXCEPT !.mode = "buffer", !.want = up.left]
    BY <1>42, <2>2 DEF AnswerH2, StartCollect, Unpooled
  <2> HIDE DEF W
  <2>6. CASE pc' # "collect"
    <3>1. pc' \in {"failed", "relay"} /\ (pc' = "relay" => up'.kind = up.kind)
      BY <2>5, <2>6 DEF Types, WireTypes, UpType
    <3> QED
      BY <2>4, <3>1 DEF UpstreamInv, Before, PooledInSync
  <2>7. CASE pc' = "collect"
    <3>1. /\ pc = "answer" /\ up'.want = up.left /\ up'.got = up.got /\ up'.kind = up.kind
          /\ up'.head = up.head
      BY <2>5, <2>7 DEF Types, WireTypes, UpType
    <3>2. up.left \in Nat
      BY DEF Types, WireTypes, UpType
    <3> QED
      BY <2>4, <2>7, <3>1, <3>2 DEF UpstreamInv, Before, PooledInSync
  <2> QED
    BY <2>6, <2>7
<1>43. CASE CollectCell
  <2>1. /\ up'.want = up.want - 1 /\ up'.left = up.left - 1 /\ up'.owed = up.owed
        /\ up'.stray = up.stray /\ up'.kind = up.kind /\ up'.mode = up.mode /\ up'.head = up.head /\ up'.got = up.got + 1
    BY <1>43 DEF CollectCell, Types, WireTypes, UpType
  <2>2. up.want \in Nat /\ up.left \in Nat /\ up.got \in Nat
    BY DEF Types, WireTypes, UpType
  <2>3. pc = "collect" /\ UNCHANGED <<pc, req, idle>>
    BY <1>43 DEF CollectCell, flow
  <2> QED
    BY <2>1, <2>2, <2>3 DEF UpstreamInv, Before, PooledInSync, InStep
<1>44. CASE CollectOverflows
  <2> DEFINE W == up.want
  <2>1. W \in Nat
    BY Relayed DEF Types, HeadType
  <2>2. StreamHead(W) => \/ pc' = "failed"
                         \/ pc' = "relay" /\ up' = [up EXCEPT !.mode = "stream", !.want = W]
    <3> HIDE DEF W
    <3> QED BY <2>1, StreamHeadShape DEF Types
  <2>3. StreamHead(W) => UNCHANGED idle
    <3> HIDE DEF W
    <3> QED BY <2>1, StreamHeadShape DEF Types
  <2>4. UNCHANGED <<idle, req>> /\ up.kind # "pooled" /\ pc \in {"answer", "collect"}
    BY <1>44, <2>3 DEF CollectOverflows, StartCollect, Unpooled, flow
  <2>5. \/ pc' = "failed"
        \/ pc' = "relay" /\ up' = [up EXCEPT !.mode = "stream", !.want = W]
        \/ pc = "answer" /\ pc' = "collect" /\ up' = [up EXCEPT !.mode = "buffer", !.want = up.left]
    BY <1>44, <2>2 DEF CollectOverflows, StartCollect, Unpooled
  <2> HIDE DEF W
  <2>6. CASE pc' # "collect"
    <3>1. pc' \in {"failed", "relay"} /\ (pc' = "relay" => up'.kind = up.kind)
      BY <2>5, <2>6 DEF Types, WireTypes, UpType
    <3> QED
      BY <2>4, <3>1 DEF UpstreamInv, Before, PooledInSync
  <2>7. CASE pc' = "collect"
    <3>1. /\ pc = "answer" /\ up'.want = up.left /\ up'.got = up.got /\ up'.kind = up.kind
          /\ up'.head = up.head
      BY <2>5, <2>7 DEF Types, WireTypes, UpType
    <3>2. up.left \in Nat
      BY DEF Types, WireTypes, UpType
    <3> QED
      BY <2>4, <2>7, <3>1, <3>2 DEF UpstreamInv, Before, PooledInSync
  <2> QED
    BY <2>6, <2>7
<1>45. CASE CollectFails
  BY <1>45 DEF CollectFails, Failed, flow, Fail, UpstreamInv, Before, PooledInSync
<1>46. CASE CollectDone
  <2>1. /\ pc = "collect" /\ pc' \in {"failed", "record"} /\ UNCHANGED <<up, req>>
        /\ up.kind = "pooled" => up.want = 0
        /\ \/ idle' = idle
           \/ up.kind = "pooled" /\ idle' = [left |-> up.left, owed |-> up.owed, stray |-> up.stray]
    BY <1>46 DEF CollectDone, Settle, Failed, Fail, flow
  <2>2. up.kind = "pooled" => up.stray \/ (up.left = 0 /\ up.owed = 0)
    BY <2>1 DEF UpstreamInv, InStep
  <2> QED
    BY <2>1, <2>2 DEF UpstreamInv, Before, PooledInSync
<1>47. CASE RelayCell
  <2>1. /\ up'.want = up.want - 1 /\ up'.left = up.left - 1 /\ up'.owed = up.owed
        /\ up'.stray = up.stray /\ up'.kind = up.kind /\ up'.mode = up.mode /\ up'.head = up.head
    BY <1>47 DEF RelayCell, Types, WireTypes, UpType
  <2>2. up.want \in Nat /\ up.left \in Nat /\ up.got \in Nat
    BY DEF Types, WireTypes, UpType
  <2>3. pc = "relay" /\ UNCHANGED <<pc, req, idle>>
    BY <1>47 DEF RelayCell, flow
  <2> QED
    BY <2>1, <2>2, <2>3 DEF UpstreamInv, Before, PooledInSync, InStep
<1>48. CASE StreamCell
  <2>1. /\ up'.want = up.want - 1 /\ up'.left = up.left - 1 /\ up'.owed = up.owed
        /\ up'.stray = up.stray /\ up'.kind = up.kind /\ up'.mode = up.mode /\ up'.head = up.head
    BY <1>48 DEF StreamCell, Types, WireTypes, UpType
  <2>2. up.want \in Nat /\ up.left \in Nat /\ up.got \in Nat
    BY DEF Types, WireTypes, UpType
  <2>3. pc = "relay" /\ UNCHANGED <<pc, req, idle>>
    BY <1>48 DEF StreamCell, flow
  <2> QED
    BY <2>1, <2>2, <2>3 DEF UpstreamInv, Before, PooledInSync, InStep
<1>49. CASE SseCell
  <2>1. /\ up'.want = up.want - 1 /\ up'.left = up.left - 1 /\ up'.owed = up.owed
        /\ up'.stray = up.stray /\ up'.kind = up.kind /\ up'.mode = up.mode /\ up'.head = up.head
    BY <1>49 DEF SseCell, Types, WireTypes, UpType
  <2>2. up.want \in Nat /\ up.left \in Nat /\ up.got \in Nat
    BY DEF Types, WireTypes, UpType
  <2>3. pc = "relay" /\ UNCHANGED <<pc, req, idle>>
    BY <1>49 DEF SseCell, flow
  <2> QED
    BY <2>1, <2>2, <2>3 DEF UpstreamInv, Before, PooledInSync, InStep
<1>50. CASE RelayFails
  BY <1>50 DEF RelayFails, Failed, Settle, flow, Fail, UpstreamInv, Before, PooledInSync
<1>51. CASE RelayDone
  <2>1. /\ pc = "relay" /\ pc' \in {"failed", "record"} /\ UNCHANGED <<up, req>>
        /\ \/ idle' = idle
           \/ /\ up.kind = "pooled" /\ up.mode \in {"length", "chunked"} /\ up.want = 0
              /\ idle' = [left |-> up.left, owed |-> up.owed, stray |-> up.stray]
    BY <1>51 DEF RelayDone, Settle, Failed, Fail, flow
  <2>2. up.kind = "pooled" /\ up.mode \in {"length", "chunked"} /\ up.want = 0
           => up.stray \/ (up.left = 0 /\ up.owed = 0)
    BY <2>1 DEF UpstreamInv, InStep
  <2> QED
    BY <2>1, <2>2 DEF UpstreamInv, Before, PooledInSync
<1>52. CASE ForwardFails
  BY <1>52 DEF ForwardFails, flow, UpstreamInv, Before, PooledInSync
<1>53. CASE ClientChanges
  BY <1>53 DEF ClientChanges, UpstreamInv, Before, PooledInSync, Misread
<1>54. CASE DeadlinePasses
  BY <1>54 DEF DeadlinePasses, UpstreamInv, Before, PooledInSync, Misread
<1>55. CASE Closed
  BY <1>55 DEF Closed, vars, UpstreamInv, Before, PooledInSync, Misread
<1>56. CASE UNCHANGED vars
  BY <1>56 DEF vars, UpstreamInv, Before, PooledInSync, Misread
<1>57. QED
  BY <1>1, <1>2, <1>3, <1>4, <1>5, <1>6, <1>7, <1>8, <1>9, <1>10, <1>11, <1>12,
     <1>13, <1>14, <1>15, <1>16, <1>17, <1>18, <1>19, <1>20, <1>21, <1>22, <1>23,
     <1>24, <1>25, <1>26, <1>27, <1>28, <1>29, <1>30, <1>31, <1>32, <1>33, <1>34,
     <1>35, <1>36, <1>37, <1>38, <1>39, <1>40, <1>41, <1>42, <1>43, <1>44, <1>45,
     <1>46, <1>47, <1>48, <1>49, <1>50, <1>51, <1>52, <1>53, <1>54, <1>55, <1>56 DEF Next, Thread

\* A response head is written once, unless an error escapes from an event stream, a tunnel
\* or a trailer rule.
LEMMA HeadsStep ==
    ASSUME Types, HeadsInv, [Next]_vars
    PROVE  HeadsInv'
<1>1. CASE ReadHead
  BY <1>1 DEF ReadHead, HeadsInv, Escaped, NoResponse
<1>2. CASE HeadMalformed
  <2>2. NoResponse.heads = 0
    BY DEF NoResponse
  <2> DEFINE bad == ResponseWritten(NoResponse, 400, 1, FALSE)
             long == ResponseWritten(NoResponse, 431, 1, FALSE)
  <2>3. bad.heads = 1 /\ long.heads = 1
    BY <2>2 DEF ResponseWritten, HeadWritten
  <2>5. (out' = bad \/ out' = long) /\ pc' = "closed"
    BY <1>2 DEF HeadMalformed
  <2> HIDE DEF bad, long
  <2>4. out'.heads = 1 /\ pc' = "closed"
    BY <2>3, <2>5
  <2> QED
    BY <2>4 DEF HeadsInv
<1>3. CASE HeadEnds
  BY <1>3 DEF HeadEnds, HeadsInv, Escaped
<1>4. CASE Unauthorized
  <2> DEFINE K == RequestedKeepAlive(req) /\ ~HasBody(req)
  <2>1. out \in OutType /\ 407 \in Nat /\ 1 \in Nat /\ K \in BOOLEAN /\ out.heads = 0
    BY <1>4 DEF Types, RecordTypes, Unauthorized, HeadsInv
  <2>2. ResponseWritten(out, 407, 1, K).heads = 1
    <3> HIDE DEF K
    <3> QED BY <2>1, WholeFields
  <2>3. /\ out' \in {out, ResponseWritten(out, 407, 1, K)} /\ pc' \in {"head", "closed"}
    BY <1>4 DEF Unauthorized
  <2> HIDE DEF K
  <2> QED
    BY <2>1, <2>2, <2>3 DEF HeadsInv
<1>5. CASE HandleHead
  BY <1>5 DEF HandleHead, flow, HeadsInv, Escaped
<1>6. CASE ReadBody
  BY <1>6 DEF ReadBody, flow, HeadsInv, Escaped
<1>7. CASE BodyRead
  BY <1>7 DEF BodyRead, HeadsInv, Escaped
<1>8. CASE BodyFails
  <2>1. out \in OutType /\ 1 \in Nat /\ FALSE \in BOOLEAN /\ out.heads = 0
    BY <1>8 DEF Types, RecordTypes, BodyFails, HeadsInv
  <2>2. \A e : InputErrorStatus(e) \in Nat
    BY DEF InputErrorStatus
  <2>3. PICK e : out' = out \/ out' = ResponseWritten(out, InputErrorStatus(e), 1, FALSE)
    BY <1>8 DEF BodyFails
  <2>5. ResponseWritten(out, InputErrorStatus(e), 1, FALSE).heads = 1
    BY <2>1, <2>2, LastHead
  <2>4. out'.heads \in {0, 1} /\ pc' = "closed"
    BY <1>8, <2>1, <2>3, <2>5 DEF BodyFails
  <2> QED
    BY <2>4 DEF HeadsInv
<1>9. CASE Resolve
  BY <1>9 DEF Resolve, HeadsInv, Escaped
<1>10. CASE RequestDelay
  BY <1>10 DEF RequestDelay, flow, HeadsInv, Escaped
<1>11. CASE RequestActions
  BY <1>11 DEF RequestActions, flow, HeadsInv, Escaped
<1>12. CASE RequestTotalTimeout
  <2>1. out \in OutType /\ 504 \in Nat /\ 1 \in Nat /\ LocalKeepAlive \in BOOLEAN /\ out.heads = 0
    BY <1>12, Relayed DEF Types, RequestTotalTimeout, HeadsInv
  <2>2. ResponseWritten(out, 504, 1, LocalKeepAlive).heads = 1
    BY <2>1, WholeFields
  <2>3. \/ pc' = "abandon" /\ UNCHANGED out
        \/ pc' = "record" /\ out' = ResponseWritten(out, 504, 1, LocalKeepAlive)
    BY <1>12 DEF RequestTotalTimeout
  <2> QED
    BY <2>1, <2>2, <2>3 DEF HeadsInv
<1>13. CASE StatusAnswer
  <2>1. /\ out \in OutType /\ acts.local \in Nat /\ 1 \in Nat /\ LocalKeepAlive \in BOOLEAN
        /\ "length" \in Framings /\ out.heads = 0
    BY <1>13, Relayed DEF Types, RecordTypes, OutcomeType, Framings, StatusAnswer, Answered, HeadsInv
  <2>2. LocalResponse(acts.local, 1).heads = 1
    BY <2>1, WholeFields, HeadFields DEF LocalResponse
  <2>3. \/ pc' = "abandon" /\ UNCHANGED out
        \/ pc' = "record" /\ out' = LocalResponse(acts.local, 1)
    BY <1>13 DEF StatusAnswer, Answered
  <2> QED
    BY <2>1, <2>2, <2>3 DEF HeadsInv
<1>14. CASE RedirectAnswer
  <2>1. /\ out \in OutType /\ 302 \in Nat /\ 0 \in Nat /\ LocalKeepAlive \in BOOLEAN
        /\ "length" \in Framings /\ out.heads = 0
    BY <1>14, Relayed DEF Types, RecordTypes, OutcomeType, Framings, RedirectAnswer, Answered, HeadsInv
  <2>2. ResponseWritten(out, 302, 0, LocalKeepAlive).heads = 1
    BY <2>1, WholeFields, HeadFields
  <2>3. \/ pc' = "abandon" /\ UNCHANGED out
        \/ pc' = "record" /\ out' = ResponseWritten(out, 302, 0, LocalKeepAlive)
    BY <1>14 DEF RedirectAnswer, Answered
  <2> QED
    BY <2>1, <2>2, <2>3 DEF HeadsInv
<1>15. CASE MockAnswer
  <2>1. /\ out \in OutType /\ acts.local \in Nat /\ 2 \in Nat /\ LocalKeepAlive \in BOOLEAN
        /\ "length" \in Framings /\ out.heads = 0
    BY <1>15, Relayed DEF Types, RecordTypes, OutcomeType, Framings, MockAnswer, Answered, HeadsInv
  <2>2. LocalResponse(acts.local, 2).heads = 1
    BY <2>1, WholeFields, HeadFields DEF LocalResponse
  <2>3. \/ pc' = "abandon" /\ UNCHANGED out
        \/ pc' = "record" /\ out' = LocalResponse(acts.local, 2)
    BY <1>15 DEF MockAnswer, Answered
  <2> QED
    BY <2>1, <2>2, <2>3 DEF HeadsInv
<1>16. CASE RecordSession
  BY <1>16 DEF RecordSession, NextTurn, HeadsInv, Escaped
<1>17. CASE Abandon
  BY <1>17 DEF Abandon, flow, HeadsInv, Escaped
<1>18. CASE Forward
  BY <1>18 DEF Forward, flow, HeadsInv, Escaped
<1>19. CASE Checkout
  BY <1>19 DEF Checkout, flow, HeadsInv, Escaped
<1>20. CASE ConnectPooled
  BY <1>20 DEF ConnectPooled, Fail, flow, HeadsInv, Escaped
<1>21. CASE SendPooled
  BY <1>21 DEF SendPooled, Fail, flow, HeadsInv, Escaped
<1>22. CASE AwaitPooled
  BY <1>22 DEF AwaitPooled, Fail, flow, HeadsInv, Escaped
<1>23. CASE PooledFails
  BY <1>23 DEF PooledFails, Failed, flow, Fail, HeadsInv, Escaped
<1>24. CASE AnswerWithoutBody
  BY <1>24 DEF AnswerWithoutBody, Pooled, HeadWritten, Settle, flow, HeadsInv, Escaped
<1>25. CASE AnswerResetContent
  BY <1>25 DEF AnswerResetContent, Pooled, StartCollect, flow, HeadsInv, Escaped
<1>26. CASE AnswerSmall
  BY <1>26 DEF AnswerSmall, Pooled, StartCollect, flow, HeadsInv, Escaped
<1>27. CASE AnswerFixed
  BY <1>27 DEF AnswerFixed, Pooled, StartRelay, HeadWritten, flow, HeadsInv, Escaped
<1>28. CASE AnswerChunked
  BY <1>28 DEF AnswerChunked, Pooled, StartRelay, HeadWritten, flow, HeadsInv, Escaped
<1>29. CASE AnswerCloseDelimited
  BY <1>29 DEF AnswerCloseDelimited, Pooled, StartRelay, HeadWritten, flow, HeadsInv,
     Escaped
<1>30. CASE AnswerSse
  BY <1>30 DEF AnswerSse, Pooled, StartRelay, HeadWritten, flow, HeadsInv, Escaped
<1>31. CASE Dispatch
  BY <1>31 DEF Dispatch, H2Answers, flow, Fail, HeadsInv, Escaped
<1>32. CASE Connect
  BY <1>32 DEF Connect, H2Answers, Fail, flow, HeadsInv, Escaped
<1>33. CASE UploadCell
  BY <1>33 DEF UploadCell, flow, HeadsInv, Escaped
<1>34. CASE UploadCut
  BY <1>34 DEF UploadCut, flow, HeadsInv, Escaped
<1>35. CASE UploadDone
  BY <1>35 DEF UploadDone, HeadsInv, Escaped
<1>36. CASE UploadFails
  BY <1>36 DEF UploadFails, Fail, HeadsInv, Escaped
<1>37. CASE Await
  BY <1>37 DEF Await, Fail, flow, HeadsInv, Escaped
<1>38. CASE Upgrade
  BY <1>38 DEF Upgrade, Unpooled, LongLived, flow, Failed, StartRelay, HeadWritten, Fail,
     HeadsInv, Escaped
<1>39. CASE EventStream
  BY <1>39 DEF EventStream, Unpooled, LongLived, flow, Failed, StartRelay, HeadWritten,
     Fail, HeadsInv, Escaped
<1>40. CASE AnswerStreamed
  <2> DEFINE W == IF StreamFraming(req.method, up.head) = "empty" THEN 0 ELSE up.head.size
  <2>1. W \in Nat
    BY Relayed DEF Types, HeadType
  <2>2. StreamHead(W) => \/ pc' = "failed" /\ UNCHANGED out
                         \/ pc' = "relay" /\ out'.heads = out.heads + 1
    <3> HIDE DEF W
    <3> QED BY <2>1, StreamHeadShape DEF Types
  <2>3. \/ pc' = "failed" /\ UNCHANGED out
        \/ pc' = "relay" /\ out'.heads = out.heads + 1
        \/ pc' = "collect" /\ UNCHANGED out
    BY <1>40, <2>2 DEF AnswerStreamed, StartCollect
  <2>4. pc \in {"answer", "collect"}
    BY <1>40 DEF AnswerStreamed, Unpooled
  <2> QED
    BY <2>3, <2>4 DEF HeadsInv, Escaped
<1>41. CASE AnswerBuffered
  BY <1>41 DEF AnswerBuffered, Unpooled, StartCollect, flow, HeadsInv, Escaped
<1>42. CASE AnswerH2
  <2> DEFINE W == up.left
  <2>1. W \in Nat
    BY Relayed DEF Types, HeadType
  <2>2. StreamHead(W) => \/ pc' = "failed" /\ UNCHANGED out
                         \/ pc' = "relay" /\ out'.heads = out.heads + 1
    <3> HIDE DEF W
    <3> QED BY <2>1, StreamHeadShape DEF Types
  <2>3. \/ pc' = "failed" /\ UNCHANGED out
        \/ pc' = "relay" /\ out'.heads = out.heads + 1
        \/ pc' = "collect" /\ UNCHANGED out
    BY <1>42, <2>2 DEF AnswerH2, StartCollect
  <2>4. pc \in {"answer", "collect"}
    BY <1>42 DEF AnswerH2, Unpooled
  <2> QED
    BY <2>3, <2>4 DEF HeadsInv, Escaped
<1>43. CASE CollectCell
  BY <1>43 DEF CollectCell, flow, HeadsInv, Escaped
<1>44. CASE CollectOverflows
  <2> DEFINE W == up.want
  <2>1. W \in Nat
    BY Relayed DEF Types, HeadType
  <2>2. StreamHead(W) => \/ pc' = "failed" /\ UNCHANGED out
                         \/ pc' = "relay" /\ out'.heads = out.heads + 1
    <3> HIDE DEF W
    <3> QED BY <2>1, StreamHeadShape DEF Types
  <2>3. \/ pc' = "failed" /\ UNCHANGED out
        \/ pc' = "relay" /\ out'.heads = out.heads + 1
        \/ pc' = "collect" /\ UNCHANGED out
    BY <1>44, <2>2 DEF CollectOverflows, StartCollect
  <2>4. pc \in {"answer", "collect"}
    BY <1>44 DEF CollectOverflows, Unpooled
  <2> QED
    BY <2>3, <2>4 DEF HeadsInv, Escaped
<1>45. CASE CollectFails
  BY <1>45 DEF CollectFails, Failed, flow, Fail, HeadsInv, Escaped
<1>46. CASE CollectDone
  <2> DEFINE size == IF up.head.status = 205 THEN 0 ELSE up.got
             whole == ResponseWritten(out, RelayedStatus, size, ClientConnection)
             bare == HeadWritten(out, RelayedStatus, "length", size, ClientConnection)
  <2>1. /\ out \in OutType /\ RelayedStatus \in Nat /\ size \in Nat /\ ClientConnection \in BOOLEAN
        /\ out.heads = 0
    BY <1>46, Relayed DEF Types, CollectDone, HeadsInv
  <2>2. whole.heads = 1
    <3> HIDE DEF size
    <3> QED BY <2>1, WholeFields
  <2>3. bare.heads = 1
    BY <2>1 DEF HeadWritten
  <2>4. \/ pc' = "failed" /\ UNCHANGED out
        \/ pc' = "record" /\ (out' = whole \/ out' = bare)
    BY <1>46 DEF CollectDone, Settle, Failed, Fail
  <2> HIDE DEF whole, bare
  <2> QED
    BY <2>1, <2>2, <2>3, <2>4 DEF HeadsInv
<1>47. CASE RelayCell
  BY <1>47, Continued DEF RelayCell, flow, HeadsInv, Escaped, Types, RecordTypes
<1>48. CASE StreamCell
  BY <1>48, Continued DEF StreamCell, flow, HeadsInv, Escaped, Types, RecordTypes
<1>49. CASE SseCell
  BY <1>49, Continued DEF SseCell, flow, HeadsInv, Escaped, Types, RecordTypes
<1>50. CASE RelayFails
  BY <1>50 DEF RelayFails, ErrorEscapes, Failed, Settle, flow, Fail, HeadsInv, Escaped
<1>51. CASE RelayDone
  BY <1>51, Continued DEF RelayDone, Failed, Settle, flow, Fail, HeadsInv, Escaped, Types,
     RecordTypes
<1>52. CASE ForwardFails
  <2> DEFINE K == RequestedKeepAlive(req) /\ ~body.streaming
  <2>1. out \in OutType /\ ErrorStatus(err) \in Nat /\ 1 \in Nat /\ K \in BOOLEAN
    BY DEF Types, RecordTypes, ErrorStatus
  <2>2. ResponseWritten(out, ErrorStatus(err), 1, K).heads = out.heads + 1
    <3> HIDE DEF K
    <3> QED BY <2>1, WholeFields
  <2>3. /\ pc = "failed" /\ pc' = "record" /\ UNCHANGED <<up, acts>>
        /\ out' \in {out, ResponseWritten(out, ErrorStatus(err), 1, K)}
    BY <1>52 DEF ForwardFails, flow
  <2> HIDE DEF K
  <2> QED
    BY <2>2, <2>3 DEF HeadsInv, Escaped
<1>53. CASE ClientChanges
  BY <1>53 DEF ClientChanges, HeadsInv, Escaped
<1>54. CASE DeadlinePasses
  BY <1>54 DEF DeadlinePasses, HeadsInv, Escaped
<1>55. CASE Closed
  BY <1>55 DEF Closed, vars, HeadsInv, Escaped
<1>56. CASE UNCHANGED vars
  BY <1>56 DEF vars, HeadsInv, Escaped
<1>57. QED
  BY <1>1, <1>2, <1>3, <1>4, <1>5, <1>6, <1>7, <1>8, <1>9, <1>10, <1>11, <1>12,
     <1>13, <1>14, <1>15, <1>16, <1>17, <1>18, <1>19, <1>20, <1>21, <1>22, <1>23,
     <1>24, <1>25, <1>26, <1>27, <1>28, <1>29, <1>30, <1>31, <1>32, <1>33, <1>34,
     <1>35, <1>36, <1>37, <1>38, <1>39, <1>40, <1>41, <1>42, <1>43, <1>44, <1>45,
     <1>46, <1>47, <1>48, <1>49, <1>50, <1>51, <1>52, <1>53, <1>54, <1>55, <1>56 DEF Next, Thread

\* A cell of content uses up a length and leaves the rest of the head as it is; the end of
\* a body ends a chunked one.
LEMMA CellShape ==
    ASSUME NEW o \in OutType
    PROVE  /\ CellWritten(o).framing = o.framing /\ CellWritten(o).ended = o.ended
           /\ o.framing = "length" => CellWritten(o).left = o.left - 1
           /\ BodyEnded(o).framing = o.framing /\ BodyEnded(o).left = o.left
           /\ BodyEnded(o).content = o.content /\ BodyEnded(o).ended = (o.framing = "chunked")
<1> DEFINE l == IF o.framing = "length" THEN o.left - 1 ELSE o.left
           c == o.content + 1
<1>1. c \in Nat /\ l \in Int /\ (o.framing = "length" => l = o.left - 1)
  BY DEF OutType
<1>2. CellWritten(o) = Put(o, c, l)
  BY DEF CellWritten, OutType, Put
<1> HIDE DEF c, l
<1>3. Put(o, c, l).framing = o.framing /\ Put(o, c, l).ended = o.ended /\ Put(o, c, l).left = l
  BY <1>1, PutKeeps
<1>4. /\ BodyEnded(o).framing = o.framing /\ BodyEnded(o).left = o.left
      /\ BodyEnded(o).content = o.content /\ BodyEnded(o).ended = (o.framing = "chunked")
  BY DEF BodyEnded, OutType
<1> QED
  BY <1>1, <1>2, <1>3, <1>4

\* The length that the head of a stream announces is what its reader waits for, unless it
\* is not the length of its content.
Awaited(want) ==
    \/ RelayedLength - up.got = want
    \/ RelayedLength # OriginCells(req.method, up.head) \/ up.head.framing = "none"

\* Once finish_streaming_response has written its head, the client waits for what the
\* reader waits for.
LEMMA StreamRelays ==
    ASSUME Types, NEW want \in Nat, StreamHead(want), pc' = "relay", UNCHANGED <<req, acts>>,
           RelayedLength # NoLength => Awaited(want)
    PROVE  RelayShape'
<1>1. /\ up' = [up EXCEPT !.mode = "stream", !.want = want]
      /\ ~out'.ended /\ out'.status = RelayedStatus
  BY StreamHeadShape DEF Types
<1>2. ASSUME Sendable
      PROVE  \/ out'.framing = "chunked" \/ ~out'.keep
             \/ /\ out'.framing = "length" /\ RelayedLength # NoLength
                /\ out'.left = RelayedLength - up.got
  BY <1>2, StreamHeadShape DEF Types
<1>3. ASSUME ~Sendable
      PROVE  /\ out'.content = 0 /\ out'.framing # "chunked"
             /\ ResponseCanSendContent(req.method, RelayedStatus) =>
                   out'.framing = "length" /\ out'.left = 0
  BY <1>3, StreamHeadShape DEF Types
<1>4. up'.mode = "stream" /\ up'.want = want /\ up'.head = up.head
  BY <1>1 DEF Types, WireTypes, UpType
<1>5. Sendable <=> PassOn'
  BY <1>1, <1>4 DEF PassOn, Sendable
<1>8. RelayedLength' = RelayedLength
  BY <1>4 DEF RelayedLength
<1>9. out'.status \in Informational => out'.status = up'.head.status
  BY <1>1, <1>4, Relayed DEF Types
<1>6. CASE Sendable
  <2>1. RelayedLength # NoLength => RelayedLength - up.got = want \/ Misannounced'
    BY <1>4, <1>8 DEF Misannounced, Awaited
  <2>2. StreamedShape'
    BY <1>2, <1>4, <1>5, <1>6, <1>8, <2>1 DEF StreamedShape
  <2> QED
    BY <1>1, <1>4, <1>9, <2>2 DEF RelayShape
<1>7. CASE ~Sendable
  <2>1. StreamedShape'
    BY <1>1, <1>3, <1>5, <1>7 DEF StreamedShape
  <2> QED
    BY <1>1, <1>4, <1>9, <2>1 DEF RelayShape
<1> QED
  BY <1>6, <1>7

\* While content is relayed the client waits for as many cells as the proxy does, wherever
\* it was told that the connection persists.
LEMMA RelayStep ==
    ASSUME Types, UpstreamInv, RelayInv, [Next]_vars
    PROVE  RelayInv'
<1>1. CASE ReadHead
  BY <1>1 DEF ReadHead, RelayInv
<1>2. CASE HeadMalformed
  BY <1>2 DEF HeadMalformed, RelayInv
<1>3. CASE HeadEnds
  BY <1>3 DEF HeadEnds, RelayInv
<1>4. CASE Unauthorized
  BY <1>4 DEF Unauthorized, RelayInv
<1>5. CASE HandleHead
  BY <1>5 DEF HandleHead, RelayInv
<1>6. CASE ReadBody
  BY <1>6 DEF ReadBody, RelayInv
<1>7. CASE BodyRead
  BY <1>7 DEF BodyRead, RelayInv
<1>8. CASE BodyFails
  BY <1>8 DEF BodyFails, RelayInv
<1>9. CASE Resolve
  BY <1>9 DEF Resolve, RelayInv
<1>10. CASE RequestDelay
  BY <1>10 DEF RequestDelay, RelayInv
<1>11. CASE RequestActions
  BY <1>11 DEF RequestActions, RelayInv
<1>12. CASE RequestTotalTimeout
  BY <1>12 DEF RequestTotalTimeout, RelayInv
<1>13. CASE StatusAnswer
  BY <1>13 DEF StatusAnswer, Answered, RelayInv
<1>14. CASE RedirectAnswer
  BY <1>14 DEF RedirectAnswer, Answered, RelayInv
<1>15. CASE MockAnswer
  BY <1>15 DEF MockAnswer, Answered, RelayInv
<1>16. CASE RecordSession
  BY <1>16 DEF RecordSession, NextTurn, RelayInv
<1>17. CASE Abandon
  BY <1>17 DEF Abandon, RelayInv
<1>18. CASE Forward
  BY <1>18 DEF Forward, RelayInv
<1>19. CASE Checkout
  BY <1>19 DEF Checkout, RelayInv
<1>20. CASE ConnectPooled
  BY <1>20 DEF ConnectPooled, Fail, RelayInv
<1>21. CASE SendPooled
  BY <1>21 DEF SendPooled, Fail, RelayInv
<1>22. CASE AwaitPooled
  BY <1>22 DEF AwaitPooled, Fail, RelayInv
<1>23. CASE PooledFails
  BY <1>23 DEF PooledFails, Failed, Fail, RelayInv
<1>24. CASE AnswerWithoutBody
  BY <1>24 DEF AnswerWithoutBody, Settle, RelayInv
<1>25. CASE AnswerResetContent
  BY <1>25 DEF AnswerResetContent, StartCollect, RelayInv
<1>26. CASE AnswerSmall
  BY <1>26 DEF AnswerSmall, StartCollect, RelayInv
<1>27. CASE AnswerFixed
  <2> DEFINE w == HeadWritten(out, up.head.status, "length", up.head.size, ClientConnection)
  <2>1. /\ PooledForm = "length" /\ pc' = "relay" /\ out' = w /\ UNCHANGED req
        /\ up' = [up EXCEPT !.mode = "length", !.want = up.head.size]
    BY <1>27 DEF AnswerFixed, Pooled, StartRelay, flow
  <2>2. up'.mode = "length" /\ up'.want = up.head.size /\ up'.head = up.head
    BY <2>1 DEF Types, WireTypes, UpType
  <2>3. ResponseHasFramedBody(req.method, up.head.status) /\ up.head.status # 205
    BY <2>1 DEF PooledForm
  <2>4. ResponseCanSendContent(req.method, up.head.status) /\ StatusCanSendContent(up.head.status)
    BY <2>3 DEF ResponseCanSendContent, StatusCanSendContent, ResponseHasFramedBody
  <2>5. w.status = up.head.status /\ ~w.ended /\ w.framing = "length" /\ w.left = up.head.size
    BY <2>4 DEF HeadWritten
  <2> HIDE DEF w
  <2>6. PassOn'
    BY <2>1, <2>2, <2>3, <2>4, <2>5 DEF PassOn
  <2> QED
    BY <2>1, <2>2, <2>5, <2>6 DEF RelayInv, RelayShape
<1>28. CASE AnswerChunked
  <2> DEFINE w == HeadWritten(out, up.head.status, "chunked", 0, ClientConnection)
  <2>1. /\ PooledForm = "chunked" /\ pc' = "relay" /\ out' = w /\ UNCHANGED req
        /\ up' = [up EXCEPT !.mode = "chunked", !.want = up.head.size]
    BY <1>28 DEF AnswerChunked, Pooled, StartRelay, flow
  <2>2. up'.mode = "chunked" /\ up'.want = up.head.size /\ up'.head = up.head
    BY <2>1 DEF Types, WireTypes, UpType
  <2>3. ResponseHasFramedBody(req.method, up.head.status) /\ up.head.status # 205
    BY <2>1 DEF PooledForm
  <2>4. ResponseCanSendContent(req.method, up.head.status) /\ StatusCanSendContent(up.head.status)
    BY <2>3 DEF ResponseCanSendContent, StatusCanSendContent, ResponseHasFramedBody
  <2>5. w.status = up.head.status /\ ~w.ended /\ w.framing = "chunked"
    BY <2>4 DEF HeadWritten
  <2> HIDE DEF w
  <2>6. PassOn'
    BY <2>1, <2>2, <2>3, <2>4, <2>5 DEF PassOn
  <2> QED
    BY <2>1, <2>2, <2>5, <2>6 DEF RelayInv, RelayShape
<1>29. CASE AnswerCloseDelimited
  <2> DEFINE w == HeadWritten(out, up.head.status, "none", 0, FALSE)
  <2>1. out' = w /\ up' = [up EXCEPT !.mode = "close", !.want = up.head.size]
    BY <1>29 DEF AnswerCloseDelimited, StartRelay
  <2>2. up'.mode = "close" /\ up'.head = up.head
    BY <2>1 DEF Types, WireTypes, UpType
  <2>3. ~w.keep /\ ~w.ended /\ w.status = up.head.status
    BY DEF HeadWritten
  <2> QED
    BY <2>1, <2>2, <2>3 DEF RelayInv, RelayShape
<1>30. CASE AnswerSse
  <2> DEFINE w == HeadWritten(out, up.head.status, "none", 0, FALSE)
  <2>1. out' = w /\ up' = [up EXCEPT !.mode = "sse", !.want = up.head.size]
    BY <1>30 DEF AnswerSse, StartRelay
  <2>2. up'.mode = "sse" /\ up'.head = up.head
    BY <2>1 DEF Types, WireTypes, UpType
  <2>3. ~w.keep /\ ~w.ended /\ w.status = up.head.status
    BY DEF HeadWritten
  <2> QED
    BY <2>1, <2>2, <2>3 DEF RelayInv, RelayShape
<1>31. CASE Dispatch
  BY <1>31 DEF Dispatch, H2Answers, Fail, RelayInv
<1>32. CASE Connect
  BY <1>32 DEF Connect, H2Answers, Fail, RelayInv
<1>33. CASE UploadCell
  BY <1>33 DEF UploadCell, RelayInv
<1>34. CASE UploadCut
  BY <1>34 DEF UploadCut, RelayInv
<1>35. CASE UploadDone
  BY <1>35 DEF UploadDone, RelayInv
<1>36. CASE UploadFails
  BY <1>36 DEF UploadFails, Fail, RelayInv
<1>37. CASE Await
  BY <1>37 DEF Await, Fail, RelayInv
<1>38. CASE Upgrade
  <2> DEFINE w == HeadWritten(out, RelayedStatus, "none", 0, FALSE)
  <2>1. pc' = "failed" \/ (out' = w /\ up' = [up EXCEPT !.mode = "tunnel", !.want = up.head.size])
    BY <1>38 DEF Upgrade, LongLived, Failed, Fail, StartRelay
  <2>2. pc' = "failed" \/ (out' = w /\ up'.mode = "tunnel" /\ up'.head = up.head)
    BY <2>1 DEF Types, WireTypes, UpType
  <2>3. ~w.keep /\ ~w.ended /\ w.status = RelayedStatus
    BY DEF HeadWritten
  <2>4. RelayedStatus \in Informational => RelayedStatus = up.head.status
    BY Relayed DEF Types
  <2> HIDE DEF w
  <2> QED
    BY <2>2, <2>3, <2>4 DEF RelayInv, RelayShape
<1>39. CASE EventStream
  <2> DEFINE w == HeadWritten(out, RelayedStatus, "none", 0, FALSE)
  <2>1. pc' = "failed" \/ (out' = w /\ up' = [up EXCEPT !.mode = "sse", !.want = up.head.size])
    BY <1>39 DEF EventStream, LongLived, Failed, Fail, StartRelay
  <2>2. pc' = "failed" \/ (out' = w /\ up'.mode = "sse" /\ up'.head = up.head)
    BY <2>1 DEF Types, WireTypes, UpType
  <2>3. ~w.keep /\ ~w.ended /\ w.status = RelayedStatus
    BY DEF HeadWritten
  <2>4. RelayedStatus \in Informational => RelayedStatus = up.head.status
    BY Relayed DEF Types
  <2> HIDE DEF w
  <2> QED
    BY <2>2, <2>3, <2>4 DEF RelayInv, RelayShape
<1>40. CASE AnswerStreamed
  <2> DEFINE W == IF StreamFraming(req.method, up.head) = "empty" THEN 0 ELSE up.head.size
  <2>1. W \in Nat /\ up.head.size \in Nat /\ up.got \in Nat /\ up.want \in Nat
    BY Relayed DEF Types, HeadType
  <2>2. (StreamHead(W) \/ pc' = "collect") /\ UNCHANGED <<req, acts>>
    BY <1>40 DEF AnswerStreamed, StartCollect, flow
  <2>3. SUFFICES ASSUME pc' = "relay" PROVE RelayShape'
    BY DEF RelayInv
  <2>4. Awaited(W)
    <3>1. pc = "answer" /\ up.got = 0
      BY <1>40 DEF AnswerStreamed, Unpooled, UpstreamInv
    <3>2. up.head.framing # "none" => OriginCells(req.method, up.head) = W
      BY DEF OriginCells, StreamFraming, Types, WireTypes, UpType, HeadType
    <3> HIDE DEF W
    <3> QED
      BY <2>1, <3>1, <3>2 DEF Awaited
  <2> HIDE DEF W
  <2> QED
    BY <2>1, <2>2, <2>3, <2>4, StreamRelays
<1>41. CASE AnswerBuffered
  BY <1>41 DEF AnswerBuffered, StartCollect, RelayInv
<1>42. CASE AnswerH2
  <2> DEFINE W == up.left
  <2>1. W \in Nat /\ up.head.size \in Nat /\ up.got \in Nat /\ up.want \in Nat
    BY Relayed DEF Types, HeadType
  <2>2. (StreamHead(W) \/ pc' = "collect") /\ UNCHANGED <<req, acts>>
    BY <1>42 DEF AnswerH2, StartCollect, flow
  <2>3. SUFFICES ASSUME pc' = "relay" PROVE RelayShape'
    BY DEF RelayInv
  <2>4. Awaited(W)
    <3>1. pc = "answer" /\ up.got = 0 /\ up.left = OriginCells(req.method, up.head)
      BY <1>42 DEF AnswerH2, UpstreamInv
    <3> QED
      BY <2>1, <3>1 DEF Awaited
  <2> HIDE DEF W
  <2> QED
    BY <2>1, <2>2, <2>3, <2>4, StreamRelays
<1>43. CASE CollectCell
  BY <1>43 DEF CollectCell, RelayInv
<1>44. CASE CollectOverflows
  <2> DEFINE W == up.want
  <2>1. W \in Nat /\ up.head.size \in Nat /\ up.got \in Nat /\ up.want \in Nat
    BY Relayed DEF Types, HeadType
  <2>2. (StreamHead(W) \/ pc' = "collect") /\ UNCHANGED <<req, acts>>
    BY <1>44 DEF CollectOverflows, StartCollect, flow
  <2>3. SUFFICES ASSUME pc' = "relay" PROVE RelayShape'
    BY DEF RelayInv
  <2>4. Awaited(W)
    <3>1. up.want + up.got = OriginCells(req.method, up.head)
      BY <1>44 DEF CollectOverflows, UpstreamInv
    <3> QED
      BY <2>1, <3>1 DEF Awaited
  <2> HIDE DEF W
  <2> QED
    BY <2>1, <2>2, <2>3, <2>4, StreamRelays
<1>45. CASE CollectFails
  BY <1>45 DEF CollectFails, Failed, Fail, RelayInv
<1>46. CASE CollectDone
  BY <1>46 DEF CollectDone, Failed, Settle, Fail, RelayInv
<1>47. CASE RelayCell
  <2> DEFINE w == CellWritten(out)
  <2>1. /\ pc = "relay" /\ RelayShape /\ UNCHANGED <<req, acts>> /\ up.mode \notin {"sse", "stream"} /\ out' = (IF PassOn THEN w ELSE out)
        /\ up' = [up EXCEPT !.want = up.want - 1, !.left = up.left - 1]
    BY <1>47 DEF RelayCell, RelayInv, flow
  <2>2. /\ up'.mode = up.mode /\ up'.want = up.want - 1 /\ up'.head = up.head
        /\ up.want \in Nat /\ out \in OutType /\ out.left \in Int
    BY <2>1 DEF Types, WireTypes, RecordTypes, UpType, OutType
  <2>3. /\ w.framing = out.framing /\ w.ended = out.ended
        /\ out.framing = "length" => w.left = out.left - 1
        /\ w.status = out.status /\ w.keep = out.keep
    BY <2>2, CellShape, Continued
  <2> HIDE DEF w
  <2>4. out'.status = out.status /\ out'.keep = out.keep /\ out'.framing = out.framing
        /\ out'.ended = out.ended
    BY <2>1, <2>3
  <2>5. (PassOn' <=> PassOn) /\ (Misannounced' <=> Misannounced)
    BY <2>1, <2>2, <2>4 DEF PassOn, Misannounced, RelayedLength
  <2>6. PassOn /\ out.framing = "length" => out'.left = out.left - 1
    BY <2>1, <2>3
  <2>7. ~PassOn /\ up.mode # "sse" => out' = out
    BY <2>1
  <2> QED
    BY <2>1, <2>2, <2>4, <2>5, <2>6 DEF RelayInv, RelayShape
<1>48. CASE StreamCell
  <2> DEFINE w == CellWritten(out)
  <2>1. /\ pc = "relay" /\ RelayShape /\ UNCHANGED <<req, acts>> /\ up.mode = "stream" /\ out' = (IF PassOn THEN w ELSE out)
        /\ up' = [up EXCEPT !.want = up.want - 1, !.left = up.left - 1]
    BY <1>48 DEF StreamCell, RelayInv, flow
  <2>2. /\ up'.mode = up.mode /\ up'.want = up.want - 1 /\ up'.head = up.head
        /\ up.want \in Nat /\ out \in OutType /\ out.left \in Int
    BY <2>1 DEF Types, WireTypes, RecordTypes, UpType, OutType
  <2>3. /\ w.framing = out.framing /\ w.ended = out.ended
        /\ out.framing = "length" => w.left = out.left - 1
        /\ w.status = out.status /\ w.keep = out.keep
    BY <2>2, CellShape, Continued
  <2> HIDE DEF w
  <2>4. out'.status = out.status /\ out'.keep = out.keep /\ out'.framing = out.framing
        /\ out'.ended = out.ended
    BY <2>1, <2>3
  <2>5. (PassOn' <=> PassOn) /\ (Misannounced' <=> Misannounced)
    BY <2>1, <2>2, <2>4 DEF PassOn, Misannounced, RelayedLength
  <2>6. PassOn /\ out.framing = "length" => out'.left = out.left - 1
    BY <2>1, <2>3
  <2>7. ~PassOn /\ up.mode # "sse" => out' = out
    BY <2>1
  <2>9. RelayedLength' = RelayedLength
    BY <2>1, <2>2 DEF RelayedLength
  <2>8. StreamedShape'
    BY <2>1, <2>2, <2>4, <2>5, <2>6, <2>7, <2>9 DEF StreamedShape, RelayShape
  <2> QED
    BY <2>1, <2>2, <2>4, <2>8 DEF RelayInv, RelayShape
<1>49. CASE SseCell
  <2> DEFINE w == CellWritten(out)
  <2>1. /\ pc = "relay" /\ RelayShape /\ UNCHANGED <<req, acts>> /\ up.mode = "sse" /\ out' = w
        /\ up' = [up EXCEPT !.want = up.want - 1, !.left = up.left - 1]
    BY <1>49 DEF SseCell, RelayInv, flow
  <2>2. /\ up'.mode = up.mode /\ up'.want = up.want - 1 /\ up'.head = up.head
        /\ up.want \in Nat /\ out \in OutType /\ out.left \in Int
    BY <2>1 DEF Types, WireTypes, RecordTypes, UpType, OutType
  <2>3. /\ w.framing = out.framing /\ w.ended = out.ended
        /\ out.framing = "length" => w.left = out.left - 1
        /\ w.status = out.status /\ w.keep = out.keep
    BY <2>2, CellShape, Continued
  <2> HIDE DEF w
  <2>4. out'.status = out.status /\ out'.keep = out.keep /\ out'.framing = out.framing
        /\ out'.ended = out.ended
    BY <2>1, <2>3
  <2>5. (PassOn' <=> PassOn) /\ (Misannounced' <=> Misannounced)
    BY <2>1, <2>2, <2>4 DEF PassOn, Misannounced, RelayedLength
  <2>6. PassOn /\ out.framing = "length" => out'.left = out.left - 1
    BY <2>1, <2>3
  <2>7. ~PassOn /\ up.mode # "sse" => out' = out
    BY <2>1
  <2> QED
    BY <2>1, <2>2, <2>4, <2>5, <2>6 DEF RelayInv, RelayShape
<1>50. CASE RelayFails
  BY <1>50 DEF RelayFails, Failed, Settle, Fail, RelayInv
<1>51. CASE RelayDone
  BY <1>51 DEF RelayDone, Failed, Settle, Fail, RelayInv
<1>52. CASE ForwardFails
  BY <1>52 DEF ForwardFails, RelayInv
<1>53. CASE ClientChanges
  BY <1>53 DEF ClientChanges, RelayInv, RelayShape, StreamedShape, PassOn, Misannounced, RelayedLength
<1>54. CASE DeadlinePasses
  BY <1>54 DEF DeadlinePasses, RelayInv, RelayShape, StreamedShape, PassOn, Misannounced, RelayedLength
<1>55. CASE Closed
  BY <1>55 DEF Closed, vars, RelayInv
<1>56. CASE UNCHANGED vars
  BY <1>56 DEF vars, RelayInv, RelayShape, StreamedShape, PassOn, Misannounced, RelayedLength,
     ResponseCanSendContent
<1>57. QED
  BY <1>1, <1>2, <1>3, <1>4, <1>5, <1>6, <1>7, <1>8, <1>9, <1>10, <1>11, <1>12,
     <1>13, <1>14, <1>15, <1>16, <1>17, <1>18, <1>19, <1>20, <1>21, <1>22, <1>23,
     <1>24, <1>25, <1>26, <1>27, <1>28, <1>29, <1>30, <1>31, <1>32, <1>33, <1>34,
     <1>35, <1>36, <1>37, <1>38, <1>39, <1>40, <1>41, <1>42, <1>43, <1>44, <1>45,
     <1>46, <1>47, <1>48, <1>49, <1>50, <1>51, <1>52, <1>53, <1>54, <1>55, <1>56 DEF Next, Thread

\* Content is framed where method and status allow it: Delimited in terms of what may be
\* sent.
LEMMA DelimitedBy ==
    ASSUME NEW m, NEW o
    PROVE  Delimited(m, o) <=>
              /\ o.heads = 1 /\ o.status \notin Informational
              /\ IF ResponseCanSendContent(m, o.status)
                 THEN (o.framing = "length" /\ o.left = 0) \/ (o.framing = "chunked" /\ o.ended)
                 ELSE o.content = 0 /\ ~o.ended
BY DEF Delimited, ResponseCanSendContent, ResponseHasFramedBody, StatusCanSendContent

\* The content of a response written whole is what its length announces.
LEMMA WholeContent ==
    ASSUME NEW o \in OutType, NEW status \in Nat, NEW length \in Nat, NEW k \in BOOLEAN
    PROVE  /\ ResponseWritten(o, status, length, k).left = 0
           /\ ResponseWritten(o, status, length, k).content = length
           /\ ResponseWritten(o, status, length, k).ended = FALSE
           /\ StatusCanSendContent(status) =>
                 ResponseWritten(o, status, length, k).framing = "length"
<1>1. /\ ResponseWritten(o, status, length, k).left = 0
      /\ ResponseWritten(o, status, length, k).content = length
  BY DEF ResponseWritten, HeadWritten
<1>2. ResponseWritten(o, status, length, k).ended = FALSE
  BY DEF ResponseWritten, HeadWritten
<1>3. StatusCanSendContent(status) => ResponseWritten(o, status, length, k).framing = "length"
  BY DEF ResponseWritten, HeadWritten
<1> QED
  BY <1>1, <1>2, <1>3

\* A response written whole is delimited where it may have content, and where it has none.
LEMMA WholeDelimited ==
    ASSUME NEW o \in OutType, NEW status \in Nat, NEW length \in Nat, NEW k \in BOOLEAN, NEW m,
           o.heads = 0, status \notin Informational, ResponseCanSendContent(m, status) \/ length = 0
    PROVE  Delimited(m, ResponseWritten(o, status, length, k))
<1>1. PICK w : w = ResponseWritten(o, status, length, k)
  OBVIOUS
<1>2. w.heads = o.heads + 1 /\ w.status = status
  BY ONLY <1>1, WholeFields, o \in OutType, status \in Nat, length \in Nat, k \in BOOLEAN
<1>3. w.left = 0 /\ w.content = length
  BY <1>1 DEF ResponseWritten, HeadWritten
<1>4. w.ended = FALSE
  BY ONLY <1>1, WholeContent, o \in OutType, status \in Nat, length \in Nat, k \in BOOLEAN
<1>5. StatusCanSendContent(status) => w.framing = "length"
  BY ONLY <1>1, WholeContent, o \in OutType, status \in Nat, length \in Nat, k \in BOOLEAN
<1>6. Delimited(m, w)
  BY <1>2, <1>3, <1>4, <1>5, DelimitedBy DEF ResponseCanSendContent
<1> QED
  BY <1>1, <1>6

\* A head alone is delimited where no content may follow.
LEMMA BareDelimited ==
    ASSUME NEW o \in OutType, NEW status \in Nat, NEW framing \in Framings, NEW length \in Int,
           NEW k \in BOOLEAN, NEW m, o.heads = 0, ~ResponseCanSendContent(m, status),
           status \notin Informational
    PROVE  Delimited(m, HeadWritten(o, status, framing, length, k))
<1> DEFINE w == HeadWritten(o, status, framing, length, k)
<1>1. w.heads = o.heads + 1 /\ w.status = status
  BY HeadFields
<1>2. w.content = 0 /\ w.ended = FALSE
  BY DEF HeadWritten
<1> HIDE DEF w
<1>3. Delimited(m, w)
  BY <1>1, <1>2, DelimitedBy
<1> QED
  BY <1>3 DEF w

\* The statuses of the proxy's own error answers carry content, and are final.
LEMMA ErrorsCarryContent ==
    ASSUME NEW m, m # "HEAD", NEW s \in {400, 407, 502, 504}
    PROVE  ResponseCanSendContent(m, s) /\ s \notin Informational
BY DEF ResponseCanSendContent, StatusCanSendContent, Informational

\* Where the connection persists the client was told so and can tell where its answer ended.
LEMMA AnswersStep ==
    ASSUME Types, HeadsInv, BodyInv, RelayInv, AnswersInv, [Next]_vars
    PROVE  AnswersInv'
<1>1. CASE ReadHead
  BY <1>1 DEF ReadHead, AnswersInv
<1>2. CASE HeadMalformed
  BY <1>2 DEF HeadMalformed, AnswersInv
<1>3. CASE HeadEnds
  BY <1>3 DEF HeadEnds, AnswersInv
<1>4. CASE Unauthorized
  <2> DEFINE K == RequestedKeepAlive(req) /\ ~HasBody(req)
             w == ResponseWritten(out, 407, 1, K)
  <2>1. out \in OutType /\ 407 \in Nat /\ 1 \in Nat /\ K \in BOOLEAN /\ out.heads = 0
    BY <1>4 DEF Types, RecordTypes, Unauthorized, HeadsInv
  <2>2. w.status = 407 /\ w.keep = K
    <3> HIDE DEF K
    <3> QED BY <2>1, WholeFields
  <2>3. req.method # "HEAD" => Delimited(req.method, w)
    <3> HIDE DEF K
    <3> QED BY <2>1, ErrorsCarryContent, WholeDelimited
  <2>4. /\ UNCHANGED <<req, up>>
        /\ \/ pc' = "closed"
           \/ pc' = "head" /\ out' = w /\ K
    BY <1>4 DEF Unauthorized
  <2> HIDE DEF w, K
  <2> QED
    BY <2>2, <2>3, <2>4 DEF AnswersInv, KnownMisframing
<1>5. CASE HandleHead
  BY <1>5 DEF HandleHead, flow, AnswersInv
<1>6. CASE ReadBody
  BY <1>6 DEF ReadBody, flow, AnswersInv
<1>7. CASE BodyRead
  BY <1>7 DEF BodyRead, AnswersInv
<1>8. CASE BodyFails
  BY <1>8 DEF BodyFails, AnswersInv
<1>9. CASE Resolve
  BY <1>9 DEF Resolve, AnswersInv
<1>10. CASE RequestDelay
  BY <1>10 DEF RequestDelay, flow, AnswersInv
<1>11. CASE RequestActions
  BY <1>11 DEF RequestActions, flow, AnswersInv
<1>12. CASE RequestTotalTimeout
  <2> DEFINE w == ResponseWritten(out, 504, 1, LocalKeepAlive)
  <2>1. out \in OutType /\ 504 \in Nat /\ 1 \in Nat /\ LocalKeepAlive \in BOOLEAN /\ out.heads = 0
    BY <1>12, Relayed DEF Types, RequestTotalTimeout, HeadsInv
  <2>2. w.status = 504 /\ w.keep = LocalKeepAlive
    BY <2>1, WholeFields
  <2>3. req.method # "HEAD" => Delimited(req.method, w)
    BY <2>1, ErrorsCarryContent, WholeDelimited
  <2>4. /\ UNCHANGED <<req, up>>
        /\ \/ pc' = "abandon"
           \/ pc' = "record" /\ out' = w /\ keep' = LocalKeepAlive
    BY <1>12 DEF RequestTotalTimeout, flow
  <2> HIDE DEF w
  <2> QED
    BY <2>2, <2>3, <2>4 DEF AnswersInv, KnownMisframing
<1>13. CASE StatusAnswer
  <2>1. /\ out \in OutType /\ acts.local \in Nat /\ 1 \in Nat /\ LocalKeepAlive \in BOOLEAN
        /\ "length" \in Framings /\ out.heads = 0 /\ acts.local \notin Informational
    BY <1>13, Relayed DEF Types, RecordTypes, OutcomeType, Framings, StatusAnswer, Answered, HeadsInv
  <2>2. LocalResponse(acts.local, 1).keep = LocalKeepAlive
    BY <2>1, WholeFields, HeadFields DEF LocalResponse
  <2>3. Delimited(req.method, LocalResponse(acts.local, 1))
    BY <2>1, WholeDelimited, BareDelimited DEF LocalResponse
  <2>4. /\ UNCHANGED req
        /\ \/ pc' = "abandon"
           \/ pc' = "record" /\ out' = LocalResponse(acts.local, 1) /\ keep' = LocalKeepAlive
    BY <1>13 DEF StatusAnswer, Answered, flow
  <2> QED
    BY <2>2, <2>3, <2>4 DEF AnswersInv
<1>14. CASE RedirectAnswer
  <2>1. /\ out \in OutType /\ 302 \in Nat /\ 0 \in Nat /\ LocalKeepAlive \in BOOLEAN
        /\ "length" \in Framings /\ out.heads = 0 /\ 302 \notin Informational
    BY <1>14, Relayed DEF Types, Framings, RedirectAnswer, Answered, HeadsInv, Informational
  <2>2. ResponseWritten(out, 302, 0, LocalKeepAlive).keep = LocalKeepAlive
    BY <2>1, WholeFields
  <2>3. Delimited(req.method, ResponseWritten(out, 302, 0, LocalKeepAlive))
    BY <2>1, WholeDelimited
  <2>4. /\ UNCHANGED req
        /\ \/ pc' = "abandon"
           \/ pc' = "record" /\ out' = ResponseWritten(out, 302, 0, LocalKeepAlive) /\ keep' = LocalKeepAlive
    BY <1>14 DEF RedirectAnswer, Answered, flow
  <2> QED
    BY <2>2, <2>3, <2>4 DEF AnswersInv
<1>15. CASE MockAnswer
  <2>1. /\ out \in OutType /\ acts.local \in Nat /\ 2 \in Nat /\ LocalKeepAlive \in BOOLEAN
        /\ "length" \in Framings /\ out.heads = 0 /\ acts.local \notin Informational
    BY <1>15, Relayed DEF Types, RecordTypes, OutcomeType, Framings, MockAnswer, Answered, HeadsInv
  <2>2. LocalResponse(acts.local, 2).keep = LocalKeepAlive
    BY <2>1, WholeFields, HeadFields DEF LocalResponse
  <2>3. Delimited(req.method, LocalResponse(acts.local, 2))
    BY <2>1, WholeDelimited, BareDelimited DEF LocalResponse
  <2>4. /\ UNCHANGED req
        /\ \/ pc' = "abandon"
           \/ pc' = "record" /\ out' = LocalResponse(acts.local, 2) /\ keep' = LocalKeepAlive
    BY <1>15 DEF MockAnswer, Answered, flow
  <2> QED
    BY <2>2, <2>3, <2>4 DEF AnswersInv
<1>16. CASE RecordSession
  BY <1>16 DEF RecordSession, NextTurn, AnswersInv, KnownMisframing, Misannounced, RelayedLength, Gone
<1>17. CASE Abandon
  BY <1>17 DEF Abandon, flow, AnswersInv
<1>18. CASE Forward
  BY <1>18 DEF Forward, flow, AnswersInv
<1>19. CASE Checkout
  BY <1>19 DEF Checkout, flow, AnswersInv
<1>20. CASE ConnectPooled
  BY <1>20 DEF ConnectPooled, Fail, flow, AnswersInv
<1>21. CASE SendPooled
  BY <1>21 DEF SendPooled, Fail, flow, AnswersInv
<1>22. CASE AwaitPooled
  BY <1>22 DEF AwaitPooled, Fail, flow, AnswersInv
<1>23. CASE PooledFails
  BY <1>23 DEF PooledFails, Failed, flow, Fail, AnswersInv
<1>24. CASE AnswerWithoutBody
  <2> DEFINE F == IF ContentLength(up.head) = NoLength THEN "none" ELSE "length"
             L == ContentLength(up.head)
             w == HeadWritten(out, up.head.status, F, L, ClientConnection)
  <2>1. /\ out \in OutType /\ up.head.status \in Nat /\ F \in Framings
        /\ L \in Int /\ ClientConnection \in BOOLEAN
    BY Relayed DEF Types, HeadType, Framings, ContentLength, NoLength
  <2>2. /\ pc = "answer" /\ PooledForm = "empty" /\ UNCHANGED <<req, up>>
        /\ pc' = "record" /\ out' = w /\ keep' = ClientConnection
    BY <1>24 DEF AnswerWithoutBody, Pooled, Settle, flow
  <2>3. out.heads = 0
    BY <2>2 DEF HeadsInv
  <2>4. ~ResponseCanSendContent(req.method, up.head.status)
    BY <2>1, <2>2 DEF PooledForm, Framings, ResponseHasFramedBody, ResponseCanSendContent,
                      StatusCanSendContent
  <2> HIDE DEF F, L
  <2>5. up.head.status \notin Informational => Delimited(req.method, w)
    BY <2>1, <2>3, <2>4, BareDelimited
  <2>6. w.keep = ClientConnection /\ w.status = up.head.status
    BY <2>1, HeadFields
  <2> HIDE DEF w
  <2>7. up.head.status \in Informational => KnownMisframing'
    BY <2>2, <2>6 DEF KnownMisframing
  <2> QED
    BY <2>2, <2>5, <2>6, <2>7 DEF AnswersInv
<1>25. CASE AnswerResetContent
  BY <1>25 DEF AnswerResetContent, StartCollect, flow, AnswersInv
<1>26. CASE AnswerSmall
  BY <1>26 DEF AnswerSmall, StartCollect, flow, AnswersInv
<1>27. CASE AnswerFixed
  BY <1>27 DEF AnswerFixed, StartRelay, flow, AnswersInv
<1>28. CASE AnswerChunked
  BY <1>28 DEF AnswerChunked, StartRelay, flow, AnswersInv
<1>29. CASE AnswerCloseDelimited
  BY <1>29 DEF AnswerCloseDelimited, StartRelay, flow, AnswersInv
<1>30. CASE AnswerSse
  BY <1>30 DEF AnswerSse, StartRelay, flow, AnswersInv
<1>31. CASE Dispatch
  BY <1>31 DEF Dispatch, H2Answers, flow, Fail, AnswersInv
<1>32. CASE Connect
  BY <1>32 DEF Connect, H2Answers, Fail, flow, AnswersInv
<1>33. CASE UploadCell
  BY <1>33 DEF UploadCell, flow, AnswersInv
<1>34. CASE UploadCut
  BY <1>34 DEF UploadCut, flow, AnswersInv
<1>35. CASE UploadDone
  BY <1>35 DEF UploadDone, AnswersInv
<1>36. CASE UploadFails
  BY <1>36 DEF UploadFails, Fail, AnswersInv
<1>37. CASE Await
  BY <1>37 DEF Await, Fail, flow, AnswersInv
<1>38. CASE Upgrade
  BY <1>38 DEF Upgrade, LongLived, flow, Failed, StartRelay, Fail, AnswersInv
<1>39. CASE EventStream
  BY <1>39 DEF EventStream, LongLived, flow, Failed, StartRelay, Fail, AnswersInv
<1>40. CASE AnswerStreamed
  <2>1. pc' \in {"failed", "relay", "collect"}
    BY <1>40 DEF AnswerStreamed, StreamHead, StartRelay, StartCollect, Failed, Fail
  <2> QED
    BY <2>1 DEF AnswersInv
<1>41. CASE AnswerBuffered
  BY <1>41 DEF AnswerBuffered, StartCollect, flow, AnswersInv
<1>42. CASE AnswerH2
  <2>1. pc' \in {"failed", "relay", "collect"}
    BY <1>42 DEF AnswerH2, StreamHead, StartRelay, StartCollect, Failed, Fail
  <2> QED
    BY <2>1 DEF AnswersInv
<1>43. CASE CollectCell
  BY <1>43 DEF CollectCell, flow, AnswersInv
<1>44. CASE CollectOverflows
  <2>1. pc' \in {"failed", "relay", "collect"}
    BY <1>44 DEF CollectOverflows, StreamHead, StartRelay, StartCollect, Failed, Fail
  <2> QED
    BY <2>1 DEF AnswersInv
<1>45. CASE CollectFails
  BY <1>45 DEF CollectFails, Failed, flow, Fail, AnswersInv
<1>46. CASE CollectDone
  <2> DEFINE size == IF up.head.status = 205 THEN 0 ELSE up.got
             whole == ResponseWritten(out, RelayedStatus, size, ClientConnection)
             bare == HeadWritten(out, RelayedStatus, "length", size, ClientConnection)
  <2>1. /\ out \in OutType /\ RelayedStatus \in Nat /\ size \in Nat /\ ClientConnection \in BOOLEAN
        /\ out.heads = 0 /\ "length" \in Framings
    BY <1>46, Relayed DEF Types, CollectDone, HeadsInv, Framings
  <2>2. /\ UNCHANGED <<req, up>>
        /\ \/ pc' = "failed"
           \/ /\ pc' = "record" /\ keep' = ClientConnection
              /\ out' = IF ResponseCanSendContent(req.method, RelayedStatus) THEN whole ELSE bare
    BY <1>46 DEF CollectDone, Settle, Failed, Fail, flow
  <2> HIDE DEF size
  <2>3. whole.keep = ClientConnection /\ whole.status = RelayedStatus
    BY <2>1, WholeFields
  <2>4. bare.keep = ClientConnection /\ bare.status = RelayedStatus
    BY <2>1, HeadFields
  <2>5. RelayedStatus \notin Informational /\ ResponseCanSendContent(req.method, RelayedStatus) =>
           Delimited(req.method, whole)
    BY <2>1, WholeDelimited
  <2>6. RelayedStatus \notin Informational /\ ~ResponseCanSendContent(req.method, RelayedStatus) =>
           Delimited(req.method, bare)
    BY <2>1, BareDelimited
  <2>7. RelayedStatus \in Informational => RelayedStatus = up.head.status
    BY Relayed DEF Types
  <2> HIDE DEF whole, bare
  <2>8. pc' = "record" /\ RelayedStatus \in Informational => KnownMisframing'
    BY <2>2, <2>3, <2>4, <2>7 DEF KnownMisframing
  <2> QED
    BY <2>2, <2>3, <2>4, <2>5, <2>6, <2>8 DEF AnswersInv
<1>47. CASE RelayCell
  BY <1>47 DEF RelayCell, AnswersInv
<1>48. CASE StreamCell
  BY <1>48 DEF StreamCell, AnswersInv
<1>49. CASE SseCell
  BY <1>49 DEF SseCell, AnswersInv
<1>50. CASE RelayFails
  BY <1>50 DEF RelayFails, Failed, Settle, flow, Fail, AnswersInv
<1>51. CASE RelayDone
  <2> DEFINE w == BodyEnded(out)
  <2>1. /\ pc = "relay" /\ RelayShape /\ out.heads = 1 /\ out \in OutType
        /\ UNCHANGED <<req, acts, up>>
        /\ up.want = 0 \/ up.mode = "close" \/ (up.mode \in {"sse", "stream"} /\ up.head.framing = "none")
    BY <1>51 DEF RelayDone, RelayInv, HeadsInv, Types, RecordTypes, flow
  <2>2. \/ pc' = "failed"
        \/ pc' = "record" /\ out' = w /\ keep' = out.keep
    BY <1>51 DEF RelayDone, Settle, Failed, Fail
  <2>3. w.heads = 1 /\ w.status = out.status /\ w.keep = out.keep
    BY <2>1, Continued
  <2>4. /\ w.framing = out.framing /\ w.left = out.left /\ w.content = out.content
        /\ w.ended = (out.framing = "chunked")
    BY <2>1, CellShape
  <2> HIDE DEF w
  <2>5. SUFFICES ASSUME out.keep, pc' = "record", out' = w
                 PROVE  Delimited(req.method, w) \/ KnownMisframing'
    BY <2>1, <2>2, <2>3 DEF AnswersInv
  <2>6. CASE up.mode \in {"length", "chunked"}
    <3>1. ResponseCanSendContent(req.method, out.status) /\ up.want = 0
      BY <2>1, <2>6 DEF RelayShape, PassOn
    <3>2. (w.framing = "length" /\ w.left = 0) \/ (w.framing = "chunked" /\ w.ended)
      BY <2>1, <2>4, <2>6, <3>1 DEF RelayShape
    <3>3. out.status \notin Informational
      BY <3>1 DEF ResponseCanSendContent, StatusCanSendContent
    <3> QED
      BY <2>3, <3>1, <3>2, <3>3, DelimitedBy
  <2>7. CASE up.mode = "stream" /\ PassOn
    <3>1. \/ out.framing = "chunked"
          \/ out.framing = "length" /\ out.left = 0
          \/ Misannounced
      BY <2>1, <2>5, <2>7 DEF RelayShape, StreamedShape, Misannounced
    <3>2. Misannounced => KnownMisframing'
      BY <2>1 DEF Misannounced, KnownMisframing, RelayedLength
    <3>3. ~Misannounced => (w.framing = "length" /\ w.left = 0) \/ (w.framing = "chunked" /\ w.ended)
      BY <2>4, <3>1
    <3>5. out.status \notin Informational /\ ResponseCanSendContent(req.method, out.status)
      BY <2>7 DEF PassOn, ResponseCanSendContent, StatusCanSendContent
    <3>4. ~Misannounced => Delimited(req.method, w)
      BY <2>3, <3>3, <3>5, DelimitedBy
    <3> QED
      BY <3>2, <3>4
  <2>8. CASE up.mode = "stream" /\ ~PassOn
    <3>1. /\ w.content = 0 /\ ~w.ended
          /\ ResponseCanSendContent(req.method, w.status) => w.framing = "length" /\ w.left = 0
      BY <2>1, <2>3, <2>4, <2>8 DEF RelayShape, StreamedShape
    <3>2. w.status \in Informational => KnownMisframing'
      BY <2>1, <2>3, <2>5 DEF RelayShape, KnownMisframing
    <3>3. w.status \notin Informational => Delimited(req.method, w)
      BY <2>3, <3>1, DelimitedBy
    <3> QED
      BY <3>2, <3>3
  <2> QED
    BY <2>1, <2>5, <2>6, <2>7, <2>8 DEF RelayShape
<1>52. CASE ForwardFails
  <2> DEFINE K == RequestedKeepAlive(req) /\ ~body.streaming
             w == ResponseWritten(out, ErrorStatus(err), 1, K)
  <2>1. /\ out \in OutType /\ ErrorStatus(err) \in Nat /\ 1 \in Nat /\ K \in BOOLEAN
        /\ ErrorStatus(err) \in {400, 407, 502, 504}
    BY DEF Types, RecordTypes, ErrorStatus
  <2>2. /\ pc = "failed" /\ pc' = "record" /\ keep' = K /\ UNCHANGED <<req, up>>
        /\ ~Gone' => out' = w
    BY <1>52 DEF ForwardFails, flow, Open, Stalled, Gone, Types, LoopTypes
  <2>3. out.heads \in {0, 1}
    BY <2>2 DEF HeadsInv
  <2>4. ErrorStatus(err) = 400 => ~K
    BY <2>2 DEF ErrorStatus, BodyInv
  <2> HIDE DEF K
  <2>5. w.heads = out.heads + 1 /\ w.status = ErrorStatus(err) /\ w.keep = K
    BY <2>1, WholeFields
  <2>6. out.heads = 0 /\ req.method # "HEAD" => Delimited(req.method, w)
    BY <2>1, ErrorsCarryContent, WholeDelimited
  <2>7. ErrorStatus(err) \in {400, 502, 504}
    BY DEF ErrorStatus
  <2> HIDE DEF w
  <2>8. SUFFICES ASSUME K, out' = w PROVE Delimited(req.method, w) \/ KnownMisframing'
    BY <2>2, <2>5 DEF AnswersInv
  <2>9. CASE out.heads = 1
    BY <2>5, <2>8, <2>9 DEF KnownMisframing
  <2>10. CASE out.heads = 0
    BY <2>2, <2>4, <2>5, <2>6, <2>7, <2>8, <2>10 DEF KnownMisframing
  <2> QED
    BY <2>3, <2>9, <2>10
<1>53. CASE ClientChanges
  BY <1>53 DEF ClientChanges, AnswersInv, Gone, KnownMisframing, Misannounced, RelayedLength
<1>54. CASE DeadlinePasses
  BY <1>54 DEF DeadlinePasses, AnswersInv, Gone, KnownMisframing, Misannounced, RelayedLength
<1>55. CASE Closed
  BY <1>55 DEF Closed, vars, AnswersInv
<1>56. CASE UNCHANGED vars
  BY <1>56 DEF vars, AnswersInv, Gone, KnownMisframing, Misannounced, RelayedLength
<1>57. QED
  BY <1>1, <1>2, <1>3, <1>4, <1>5, <1>6, <1>7, <1>8, <1>9, <1>10, <1>11, <1>12,
     <1>13, <1>14, <1>15, <1>16, <1>17, <1>18, <1>19, <1>20, <1>21, <1>22, <1>23,
     <1>24, <1>25, <1>26, <1>27, <1>28, <1>29, <1>30, <1>31, <1>32, <1>33, <1>34,
     <1>35, <1>36, <1>37, <1>38, <1>39, <1>40, <1>41, <1>42, <1>43, <1>44, <1>45,
     <1>46, <1>47, <1>48, <1>49, <1>50, <1>51, <1>52, <1>53, <1>54, <1>55, <1>56 DEF Next, Thread

(***************************************************************************)
(* The connection thread.                                                  *)
(***************************************************************************)

\* A connection that was accepted has the invariant: no request is in hand, nothing was
\* written and no pooled connection is held.
LEMMA FlowInit ==
    ASSUME Init
    PROVE  FlowInv
<1>1. Types
  <2>1. LoopTypes
    <3>1. 0 \in 0..MaxRequests
      BY LimitsAssumption
    <3>2. pc \in Phases /\ pc = "head"
      BY DEF Init, Phases
    <3> QED
      BY <3>1, <3>2 DEF Init, LoopTypes
  <2>2. RecordTypes /\ WireTypes
    BY Messages DEF Init, RecordTypes, WireTypes
  <2> QED
    BY <2>1, <2>2 DEF Types
<1>2. SessionInv
  BY DEF Init, SessionInv, GuardInv, StatusInv, SessionBalanced, RecordedStatus, NoTrace
<1>3. UpstreamInv
  BY DEF Init, UpstreamInv, Before, PooledInSync
<1>4. BodyInv
  BY DEF Init, BodyInv
<1>5. ResponseInv
  BY DEF Init, ResponseInv, HeadsInv, RelayInv, AnswersInv, NoResponse
<1> QED
  BY <1>1, <1>2, <1>3, <1>4, <1>5 DEF FlowInv

\* Every step of the thread, of its peers and of the clock keeps the invariant.
LEMMA FlowStep ==
    ASSUME FlowInv, [Next]_vars
    PROVE  FlowInv'
<1>1. Types /\ GuardInv /\ StatusInv /\ UpstreamInv /\ BodyInv /\ HeadsInv /\ RelayInv /\ AnswersInv
  BY DEF FlowInv, SessionInv, ResponseInv
<1>2. LoopTypes /\ RecordTypes /\ WireTypes
  BY <1>1 DEF Types
<1>3. LoopTypes' /\ RecordTypes'
  BY <1>2, LoopTypesStep, RecordTypesStep
<1>4. WireTypes'
  BY <1>2, TraceTypeStep, IdleTypeStep, UpTypeStep DEF WireTypes
<1>5. Types'
  BY <1>3, <1>4 DEF Types
<1>6. GuardInv' /\ StatusInv'
  BY <1>1, GuardStep, StatusStep
<1>7. UpstreamInv' /\ BodyInv'
  BY <1>1, UpstreamStep, BodyStep
<1>8. HeadsInv' /\ RelayInv' /\ AnswersInv'
  BY <1>1, HeadsStep, RelayStep, AnswersStep
<1> QED
  BY <1>5, <1>6, <1>7, <1>8 DEF FlowInv, SessionInv, ResponseInv

\* The inductive invariant of handle_client and the flow of its requests: what each phase
\* knows of the session, of the upstream connection, of the request body and of what the
\* client has been sent.
THEOREM FlowInvariant == Spec => []FlowInv
<1>1. Init => FlowInv
  BY FlowInit
<1>2. FlowInv /\ [Next]_vars => FlowInv'
  BY FlowStep
<1> QED
  BY <1>1, <1>2, PTL DEF Spec

\* What the invariant says of a connection whose loop goes on: the request body is read, the
\* client knows that the connection persists and where its answer ended.
LEMMA FlowAligned ==
    ASSUME FlowInv
    PROVE  ClientInSync
<1>1. LoopTypes /\ HeadsInv /\ BodyInv /\ AnswersInv /\ GuardInv /\ RecordTypes /\ WireTypes
  BY DEF FlowInv, Types, SessionInv, ResponseInv
<1>2. TypeOK
  <2>1. /\ pc \in Phases /\ served \in 0..MaxRequests /\ client \in {"open", "stalled", "gone"}
        /\ timer \in BOOLEAN /\ keep \in BOOLEAN /\ expired \in BOOLEAN
    BY <1>1 DEF LoopTypes
  <2>2. /\ up.left \in Nat /\ up.want \in Nat /\ body.unread \in Nat
        /\ trace.finished \in Nat /\ trace.aborted \in Nat
    BY <1>1 DEF RecordTypes, WireTypes, UpType, BodyType, TraceType
  <2>3. out.heads \in 0..2
    BY <1>1 DEF HeadsInv
  <2>4. trace.finished \in 0..1 /\ trace.aborted \in 0..1
    BY <1>1, <2>2 DEF GuardInv, SessionBalanced, Unsettled
  <2> QED
    BY <2>1, <2>2, <2>3, <2>4 DEF TypeOK, Phases
<1>3. KeepAliveAligned
  BY <1>1 DEF BodyInv, AnswersInv, KeepAliveAligned, LoopTypes, Open, Gone
<1>4. OneResponse
  BY <1>1 DEF HeadsInv, OneResponse, Escaped
<1> QED
  BY <1>2, <1>3, <1>4 DEF ClientInSync

\* The loop of handle_client reads another head only from behind a request body that was
\* read and a response that was delimited and announced persistence, and a request is
\* answered once, up to the answers that KnownMisframing and OneResponse name.
THEOREM ClientsInSync == Spec => []ClientInSync
<1>1. FlowInv => ClientInSync
  BY FlowAligned
<1> QED
  BY <1>1, FlowInvariant, PTL

\* try_pooled leaves behind only connections on which nothing of an earlier response is
\* in flight or to come, whatever the origin sends, unless read_response_head took an
\* interim response for the final one or a 205 had content that it did not announce.
THEOREM PoolInSync == Spec => []PooledInSync
<1>1. FlowInv => PooledInSync
  BY DEF FlowInv, UpstreamInv
<1> QED
  BY <1>1, FlowInvariant, PTL

\* The session of a request is settled once, by record_session_if_visible or by the guard,
\* and with the status the client was sent.
THEOREM SessionsTrue == Spec => []SessionTruth
<1>1. FlowInv => SessionTruth
  BY DEF FlowInv, SessionInv, GuardInv, StatusInv, SessionTruth
<1> QED
  BY <1>1, FlowInvariant, PTL
=============================================================================
