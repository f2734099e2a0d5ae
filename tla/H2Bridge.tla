------------------------------ MODULE H2Bridge ------------------------------
(***************************************************************************)
(* One stream of an inspected HTTP/2 connection: the server task that owns *)
(* the stream (rsproxy-net downstream_h2/), the task that pumps the        *)
(* request body, and the blocking worker that runs the HTTP/1 pipeline     *)
(* over H2BridgeIo (proxy/h2_bridge.rs and h2_bridge/), joined by two      *)
(* bounded channels and a one-shot for the response head.                  *)
(***************************************************************************)
EXTENDS Naturals, Sequences, FiniteSets, SequencesExt

CONSTANTS
    Responses,    \* what a worker may write: framing, and the tokens that follow the head
    MaxFrames,    \* bound on request data frames
    Capacity      \* H2_REQUEST_CHANNEL_CAPACITY and H2_BRIDGE_CHANNEL_CAPACITY

None == "none"
Err == "err"

\* The tokens of a body as the pipeline writes it, and which of them a chunked one
\* has where: size line, data and CRLF of each chunk; the last one, then trailers or the end.
Tokens == {"size", "data", "crlf", "last", "trailers"}
Chunked(tokens) ==
    /\ tokens # <<>> /\ tokens[1] \in {"size", "last"}
    /\ \A i \in 1..Len(tokens) - 1 :
         /\ tokens[i] = "size" => tokens[i + 1] = "data"
         /\ tokens[i] = "data" => tokens[i + 1] = "crlf"
         /\ tokens[i] = "crlf" => tokens[i + 1] \in {"size", "last"}
         /\ tokens[i] = "last" => tokens[i + 1] \in {"crlf", "trailers"} /\ i + 1 = Len(tokens)
         /\ tokens[i] # "trailers"

ASSUME H2BridgeAssumption ==
    /\ MaxFrames \in Nat /\ Capacity \in Nat \ {0}
    /\ \A r \in Responses :
         /\ r.framing \in {"none", "length", "chunked", "close", "upgrade"}
         /\ r.tokens \in Seq(Tokens)
         /\ r.framing = "length" => \A i \in 1..Len(r.tokens) : r.tokens[i] = "data"
         /\ r.framing = "chunked" => Chunked(r.tokens)

VARIABLES
    client,     \* the peer: its request so far and how it ended, what it has received,
                \* whether it still opens its window
    pump,       \* pump_request_body: running, or how it ended; the frame it holds
    reqChan, reqOpen,      \* request channel, and whether its sender lives
    reader,     \* H2RequestReader: frames handed to the pipeline, and the end it reported
    head,       \* the one-shot: empty, a status, an error, or dropped
    bodyChan, bodyOpen,    \* response channel, and whether its sender lives
    listening,  \* whether the server task still holds the receivers
    writer,     \* H2ResponseWriter: its ResponseState and the units left in it
    worker      \* the blocking worker: what it writes, how far it is, how it ended

vars == <<client, pump, reqChan, reqOpen, reader, head, bodyChan, bodyOpen, listening,
          writer, worker>>

\* A frame is known by the place of its token in the response, 0 is an error in its stead.
IsContent(token) == token \in {"data", "trailers"}
ErrFrame == 0
DataLen(tokens) == Cardinality({ i \in 1..Len(tokens) : tokens[i] = "data" })

\* H2RequestReader::new and H2ResponseWriter::new; the channels are created with them.
NewReader == [read |-> <<>>, end |-> None]
NewWriter == [state |-> "head", left |-> 0]

Init ==
    \E body \in BOOLEAN, expects \in BOOLEAN, r \in Responses :
      /\ expects => body
      /\ client = [sent |-> 0, end |-> IF body THEN None ELSE "end", status |-> None,
                   got |-> <<>>, over |-> None, reads |-> TRUE]
      /\ pump = [state |-> IF body THEN "run" ELSE "done", taken |-> 0]
      /\ reqChan = <<>> /\ reqOpen = body
      /\ reader = NewReader
      /\ head = None
      /\ bodyChan = <<>> /\ bodyOpen = TRUE /\ listening = TRUE
      /\ writer = NewWriter
      /\ worker = [pc |-> "run", body |-> body, expects |-> expects, response |-> r,
                   interim |-> FALSE, headed |-> FALSE, pos |-> 0]

-----------------------------------------------------------------------------
(***************************************************************************)
(* The client: sends frames, ends its request, stops reading, or resets    *)
(* the stream, upon which the server task is dropped with its receivers.   *)
(* "cancel" is RST_STREAM with CANCEL or NO_ERROR, "reset" any other       *)
(* reason or the loss of the connection.                                   *)
(***************************************************************************)
ClientSends ==
    /\ client.over = None /\ client.end = None
    /\ \/ client.sent < MaxFrames /\ client' = [client EXCEPT !.sent = @ + 1]
       \/ client' = [client EXCEPT !.end = "end"]
       \/ client' = [client EXCEPT !.end = "trailers"]
       \/ client' = [client EXCEPT !.end = "bad-trailers"]
    /\ UNCHANGED <<pump, reqChan, reqOpen, reader, head, bodyChan, bodyOpen, listening,
                   writer, worker>>

Cuts == {"reset", "cancel"}
ClientResets ==
    /\ client.over = None
    /\ \E cut \in Cuts :
         client' = [client EXCEPT !.over = "reset", !.end = IF @ = None THEN cut ELSE @]
    /\ listening' = FALSE
    /\ UNCHANGED <<pump, reqChan, reqOpen, reader, head, bodyChan, bodyOpen, writer, worker>>

\* It never opens its flow-control window again, and does not reset the stream either.
ClientStalls ==
    /\ client.over = None /\ client.reads
    /\ client' = [client EXCEPT !.reads = FALSE]
    /\ UNCHANGED <<pump, reqChan, reqOpen, reader, head, bodyChan, bodyOpen, listening,
                   writer, worker>>

\* The worker has dropped the bridge, and the receiver of the request channel with it.
Gone == worker.pc = "gone"

\* The pump: wait for a frame, then for room in the channel.  A reset or
\* trailers that request_trailers refuses become an error, and a reset may overtake
\* data; a cancelled stream ends hyper's Incoming as the end of the body does.
PumpFrame ==
    \E data \in BOOLEAN :
    LET last == CASE client.end = "trailers" -> "trailers"
                  [] client.end \in {"reset", "bad-trailers"} -> Err
                  [] OTHER -> None
    IN  /\ pump.state = "run"
        /\ IF data THEN pump.taken < client.sent
           ELSE client.end # None /\ (pump.taken = client.sent \/ client.end \in Cuts)
        /\ IF ~data /\ client.end \in {"end", "cancel"}
           THEN /\ pump' = [pump EXCEPT !.state = "done"]
                /\ reqOpen' = FALSE
                /\ UNCHANGED reqChan
           ELSE /\ Gone \/ Len(reqChan) < Capacity
                /\ reqChan' = IF Gone THEN reqChan
                              ELSE Append(reqChan, IF data THEN pump.taken + 1 ELSE 0)
                /\ LET ends == ~data \/ Gone
                   IN  /\ pump' = [state |-> IF ends THEN (IF data THEN "done" ELSE last) ELSE "run",
                                   taken |-> IF data THEN pump.taken + 1 ELSE pump.taken]
                       /\ reqOpen' = ~ends
        /\ UNCHANGED <<client, reader, head, bodyChan, bodyOpen, listening, writer, worker>>

-----------------------------------------------------------------------------
(***************************************************************************)
(* H2RequestReader: data frames become chunks, trailers and the end of the *)
(* channel the terminal chunk.  A read with a timeout may give up.         *)
(***************************************************************************)
Running == worker.pc = "run" /\ ~(worker.expects /\ ~worker.interim)

ReadRequest ==
    /\ Running /\ worker.body /\ reader.end = None
    /\ \/ /\ reqChan # <<>>
          /\ reqChan' = Tail(reqChan)
          /\ reader' = IF Head(reqChan) # 0 THEN [reader EXCEPT !.read = Append(@, Head(reqChan))]
                       ELSE [reader EXCEPT !.end = IF pump.state = Err THEN Err ELSE "terminal"]
       \/ /\ reqChan = <<>> /\ ~reqOpen
          /\ reader' = [reader EXCEPT !.end = "terminal"]
          /\ UNCHANGED reqChan
       \/ /\ reqChan = <<>> /\ reqOpen
          /\ reader' = [reader EXCEPT !.end = "timeout"]
          /\ UNCHANGED reqChan
    /\ UNCHANGED <<client, pump, reqOpen, head, bodyChan, bodyOpen, listening, writer, worker>>

-----------------------------------------------------------------------------
(***************************************************************************)
(* H2ResponseWriter.  A write drains its whole buffer, so the writer is a  *)
(* state machine over tokens: a head, chunk sizes and terminators, data.   *)
(***************************************************************************)

\* signal_error: to the head if it is still owed, else to the body, for which it
\* waits until there is room or nobody listens.
CanSignal == head = None \/ ~bodyOpen \/ ~listening \/ Len(bodyChan) < Capacity
SignalError ==
    /\ writer' = [state |-> "failed", left |-> 0]
    /\ IF head = None THEN head' = Err /\ UNCHANGED <<bodyChan, bodyOpen>>
       ELSE /\ bodyChan' = IF bodyOpen /\ listening THEN Append(bodyChan, ErrFrame) ELSE bodyChan
            /\ bodyOpen' = FALSE
            /\ UNCHANGED head

\* The state after the head of a response, parse_head.
StateOf(framing, tokens) ==
    CASE framing = "none"    -> "discard"
      [] framing = "chunked" -> "size"
      [] framing = "length"  -> IF DataLen(tokens) = 0 THEN "done" ELSE "counted"
      [] framing = "close"   -> "until-close"

\* A head: send_head fails when the server task is gone; 101 is refused.
WriteHead(status, framing, tokens) ==
    LET state == StateOf(framing, tokens)
    IN  IF writer.state # "head"
        THEN \* a second head falls to the state the first one left
             IF writer.state = "discard" THEN UNCHANGED <<writer, head, bodyChan, bodyOpen>>
             ELSE CanSignal /\ SignalError
        ELSE IF framing = "upgrade" THEN CanSignal /\ SignalError
        ELSE IF ~listening
        THEN /\ head' = "dropped" /\ bodyOpen' = FALSE
             /\ writer' = [state |-> "failed", left |-> 0]
             /\ UNCHANGED bodyChan
        ELSE /\ head' = status
             /\ writer' = [state |-> state, left |-> DataLen(tokens)]
             /\ bodyOpen' = (state \notin {"discard", "done"})
             /\ UNCHANGED bodyChan

\* What the state machine does with one token of the body.
TokenState(token) ==
    LET s == writer.state
        after == writer.left - 1
    IN  CASE s = "counted" /\ token = "data" ->
                 [state |-> IF after = 0 THEN "done" ELSE "counted", left |-> after]
          [] s = "size" /\ token = "size" -> [writer EXCEPT !.state = "data"]
          [] s = "size" /\ token = "last" -> [writer EXCEPT !.state = "trailer"]
          [] s = "data" /\ token = "data" -> [writer EXCEPT !.state = "crlf"]
          [] s = "crlf" /\ token = "crlf" -> [writer EXCEPT !.state = "size"]
          [] s = "trailer" /\ token \in {"crlf", "trailers"} -> [writer EXCEPT !.state = "done"]
          [] s \in {"until-close", "discard"} -> writer

\* Bug: send_body waits for room whether or not anyone is left to make it.
WriteTokenStubborn(token) ==
    LET next == TokenState(token)
        sends == IsContent(token) /\ writer.state # "discard"
    IN  IF writer.state = "done" THEN CanSignal /\ SignalError
        ELSE IF writer.state = "failed" THEN UNCHANGED <<writer, head, bodyChan, bodyOpen>>
        ELSE /\ sends => Len(bodyChan) < Capacity
             /\ bodyChan' = IF sends THEN Append(bodyChan, worker.pos + 1) ELSE bodyChan
             /\ bodyOpen' = (bodyOpen /\ next.state # "done")
             /\ writer' = next
             /\ UNCHANGED head

\* send_body waits for room and fails once the receiver is gone.
WriteToken(token) ==
    LET next == TokenState(token)
        sends == IsContent(token) /\ writer.state # "discard"
    IN  IF writer.state = "done" THEN CanSignal /\ SignalError
        ELSE IF writer.state = "failed" \/ (sends /\ ~listening)
        THEN UNCHANGED <<writer, head, bodyChan, bodyOpen>>
        ELSE /\ sends => Len(bodyChan) < Capacity
             /\ bodyChan' = IF sends THEN Append(bodyChan, worker.pos + 1) ELSE bodyChan
             /\ bodyOpen' = (bodyOpen /\ next.state # "done")
             /\ writer' = next
             /\ UNCHANGED head
WriteFails(token) ==
    \/ writer.state \in {"failed", "done"}
    \/ ~listening /\ writer.state # "discard" /\ IsContent(token)

-----------------------------------------------------------------------------
(***************************************************************************)
(* process_h2_request.  handle_http_head is module HttpFlow; here it is    *)
(* what it may do to the bridge: read, write the interim response an       *)
(* expectation asks for, write a response, and return at any point.        *)
(***************************************************************************)
Interim ==
    /\ worker.pc = "run" /\ worker.expects /\ ~worker.interim
    /\ WriteHead("100", "none", <<>>)
    /\ worker' = [worker EXCEPT !.interim = TRUE,
                                !.pc = IF writer'.state = "failed" THEN "failing" ELSE "run"]
    /\ UNCHANGED <<client, pump, reqChan, reqOpen, reader, listening>>

Respond ==
    /\ Running /\ ~worker.headed
    /\ WriteHead("200", worker.response.framing, worker.response.tokens)
    /\ worker' = [worker EXCEPT !.headed = TRUE,
                                !.pc = IF writer'.state = "failed" THEN "failing" ELSE "run"]
    /\ UNCHANGED <<client, pump, reqChan, reqOpen, reader, listening>>

\* The worker sets out to write a token, and cannot turn back while it waits.
StartWrite ==
    /\ Running /\ worker.headed /\ worker.pos < Len(worker.response.tokens)
    /\ worker' = [worker EXCEPT !.pc = "writing"]
    /\ UNCHANGED <<client, pump, reqChan, reqOpen, reader, head, bodyChan, bodyOpen,
                   listening, writer>>

\* A failed write makes the pipeline return an error, or note it and return.
WriteBody ==
    LET token == worker.response.tokens[worker.pos + 1]
    IN  /\ worker.pc = "writing"
        /\ WriteToken(token)
        /\ IF WriteFails(token)
           THEN \E pc \in {"failing", "finishing"} : worker' = [worker EXCEPT !.pc = pc]
           ELSE worker' = [worker EXCEPT !.pos = @ + 1, !.pc = "run"]
        /\ UNCHANGED <<client, pump, reqChan, reqOpen, reader, listening>>

\* The pipeline returns: with an error at any point, without one when it has
\* written its response or an error cut the body short.
Return ==
    /\ Running
    /\ worker' \in { [worker EXCEPT !.pc = "failing"] } \cup
          (IF worker.headed THEN { [worker EXCEPT !.pc = "finishing"] } ELSE {})
    /\ UNCHANGED <<client, pump, reqChan, reqOpen, reader, head, bodyChan, bodyOpen,
                   listening, writer>>

\* Bug: finish accepts a body whose framing is incomplete.
EndLenient ==
    /\ \/ worker.pc = "failing" /\ CanSignal /\ SignalError
       \/ /\ worker.pc = "finishing"
          /\ writer' = [writer EXCEPT !.state = "done"]
          /\ UNCHANGED <<head, bodyChan, bodyOpen>>
    /\ worker' = [worker EXCEPT !.pc = "dropping"]
    /\ UNCHANGED <<client, pump, reqChan, reqOpen, reader, listening>>

\* fail_response, or H2ResponseWriter::finish; then the bridge is dropped.
FinishStates == {"done", "until-close", "discard", "failed"}
End ==
    /\ \/ worker.pc = "failing" /\ CanSignal /\ SignalError
       \/ /\ worker.pc = "finishing" /\ writer.state \in FinishStates
          /\ writer' = [writer EXCEPT !.state = IF @ = "failed" THEN @ ELSE "done"]
          /\ UNCHANGED <<head, bodyChan, bodyOpen>>
       \/ worker.pc = "finishing" /\ writer.state \notin FinishStates /\ CanSignal /\ SignalError
    /\ worker' = [worker EXCEPT !.pc = "dropping"]
    /\ UNCHANGED <<client, pump, reqChan, reqOpen, reader, listening>>

Drop ==
    /\ worker.pc = "dropping"
    /\ worker' = [worker EXCEPT !.pc = "gone"]
    /\ bodyOpen' = FALSE
    /\ head' = IF head = None THEN "dropped" ELSE head
    /\ UNCHANGED <<client, pump, reqChan, reqOpen, reader, bodyChan, listening, writer>>

-----------------------------------------------------------------------------
(***************************************************************************)
(* dispatch_request and DownstreamH2ChannelBody: the head, or a 502 in its *)
(* place, then the frames as the client's window lets hyper poll for them; *)
(* an error frame resets the stream.                                       *)
(***************************************************************************)
TakeHead ==
    /\ listening /\ client.status = None /\ head # None
    /\ client' = IF head \in {Err, "dropped"}
                 THEN [client EXCEPT !.status = "502", !.over = "clean"]
                 ELSE [client EXCEPT !.status = head]
    /\ listening' = (head \notin {Err, "dropped"})
    /\ UNCHANGED <<pump, reqChan, reqOpen, reader, head, bodyChan, bodyOpen, writer, worker>>

TakeFrame ==
    /\ listening /\ client.status # None /\ client.reads
    /\ IF bodyChan # <<>>
       THEN /\ bodyChan' = Tail(bodyChan)
            /\ client' = IF Head(bodyChan) = ErrFrame THEN [client EXCEPT !.over = "reset-by-proxy"]
                         ELSE [client EXCEPT !.got = Append(@, Head(bodyChan))]
            /\ listening' = (Head(bodyChan) # ErrFrame)
       ELSE /\ ~bodyOpen
            /\ client' = [client EXCEPT !.over = "clean"]
            /\ listening' = FALSE
            /\ UNCHANGED bodyChan
    /\ UNCHANGED <<pump, reqChan, reqOpen, reader, head, bodyOpen, writer, worker>>

Worker == Interim \/ Respond \/ StartWrite \/ WriteBody \/ Return \/ End \/ Drop
Server == TakeHead \/ TakeFrame
Next == ClientSends \/ ClientResets \/ ClientStalls \/ PumpFrame \/ ReadRequest \/ Worker \/ Server

\* The runtime polls its tasks and the worker's thread runs; a worker that only
\* reads gives up at the request's deadline.  Nothing is asked of the client.
Fairness == WF_vars(PumpFrame) /\ WF_vars(Worker) /\ WF_vars(Server)

Spec == Init /\ [][Next]_vars /\ Fairness
-----------------------------------------------------------------------------
(***************************************************************************)
(* Properties.                                                             *)
(***************************************************************************)

\* The places of the frames that make up a response.
FramesOf(response) ==
    IF response.framing = "none" THEN {}
    ELSE { i \in 1..Len(response.tokens) : IsContent(response.tokens[i]) }
Owed == FramesOf(worker.response)

\* The frames are the first of those in owed, each once and in order.
FirstOf(frames, owed) ==
    /\ ToSet(frames) \subseteq owed
    /\ \A i, j \in 1..Len(frames) : i < j => frames[i] < frames[j]
    /\ \A p \in owed, q \in ToSet(frames) : p < q => p \in ToSet(frames)

\* A stream ends cleanly only with a whole message: the bridge's own 502 in place
\* of a response, or the response with every byte its framing promised.  A worker
\* that stops short, fails, or is refused resets the stream instead; a response
\* that only its end delimits may be cut.  What has arrived is always its first frames, in order.
\* Requests that expect 100-continue are left out: their interim response takes
\* the place of the final one (h2_bridge/response.rs finish and signal_error).
StreamTruth ==
    ~worker.expects =>
        /\ FirstOf(client.got, Owed)
        /\ client.over = "clean" =>
             \/ client.status = "502" /\ client.got = <<>>
             \/ client.status = "200" /\
                  (ToSet(client.got) = Owed \/ worker.response.framing = "close")

\* The request body the pipeline reads is a prefix of the client's, and it sees
\* the terminal chunk only when the client has ended its request and all of it
\* has been read: a reset, a lost connection or refused trailers never look like
\* the end of the body.  A stream the client cancels is the named exception: its
\* cut body reaches the pipeline with a terminal chunk (server.rs
\* pump_request_body, h2_bridge/request.rs refill).
RequestTruth ==
    /\ reader.read = [i \in 1..Len(reader.read) |-> i]
    /\ reader.end = "terminal" =>
         \/ client.end \in {"end", "trailers"} /\ Len(reader.read) = client.sent
         \/ client.end = "cancel"

\* A worker that waits for room which only the window of a client that neither reads
\* nor resets could make: blocking_send has no timeout.
Held ==
    /\ client.over = None /\ ~client.reads
    /\ Len(bodyChan) = Capacity /\ worker.pc \in {"writing", "failing", "finishing"}

\* However the pipeline behaves, the worker leaves its thread and the stream ends.
\* Only a client that stops reading without a reset can prevent it: it holds its own
\* stream, and the worker once the channel is full.  Nobody waits for room in a channel
\* that has lost its receiver (response.rs send_body and signal_error, server.rs
\* pump_request_body).
StreamEnds ==
    /\ <>[](worker.pc = "gone" \/ Held)
    /\ <>[](client.over # None \/ ~client.reads)

\* Neither side of the bridge is deceived about the end of a body: a cut request never
\* looks whole to the pipeline, unless the client cancelled its stream, nor a cut
\* response to the client (h2_bridge/request.rs,
\* h2_bridge/response.rs).
BridgeTruth == RequestTruth /\ StreamTruth

=============================================================================
