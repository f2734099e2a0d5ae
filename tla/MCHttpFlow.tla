----------------------------- MODULE MCHttpFlow -----------------------------
(***************************************************************************)
(* Heads and rule outcomes for HttpFlow: one of each kind the flow tells   *)
(* apart. Bodies of 2 cells exceed the buffer limit of 1.                  *)
(***************************************************************************)
EXTENDS HttpFlow

Get == NoRequest
Post(framing, size) == [NoRequest EXCEPT !.method = "POST", !.body = framing, !.size = size]

MCRequests == {
    Get, [Get EXCEPT !.version = "1.0", !.keep = TRUE], [Get EXCEPT !.method = "HEAD"],
    [Get EXCEPT !.close = TRUE], [Get EXCEPT !.ws = TRUE], [Get EXCEPT !.sse = TRUE],
    [Get EXCEPT !.tls = TRUE], [Get EXCEPT !.auth = FALSE], [Get EXCEPT !.target = FALSE],
    Post("length", 1), Post("chunked", 2), [Post("length", 2) EXCEPT !.expect = TRUE],
    [Post("length", 2) EXCEPT !.tls = TRUE], [Post("length", 1) EXCEPT !.auth = FALSE]}

Reply(status, framing, size) ==
    [status |-> status, framing |-> framing, size |-> size, also |-> NoLength,
     persistent |-> framing # "none" \/ status \in {101, 103, 204}, sse |-> FALSE, trailer |-> FALSE]

MCResponses == {
    Reply(200, "length", 1), Reply(200, "length", 2), Reply(200, "none", 1),
    [Reply(200, "chunked", 2) EXCEPT !.trailer = TRUE],
    [Reply(200, "none", 1) EXCEPT !.sse = TRUE], [Reply(200, "chunked", 1) EXCEPT !.sse = TRUE],
    Reply(204, "none", 0), Reply(205, "length", 1), Reply(304, "length", 1), Reply(101, "none", 0),
    Reply(103, "none", 0), [Reply(205, "none", 1) EXCEPT !.persistent = TRUE],
    [Reply(200, "chunked", 1) EXCEPT !.also = 2]}

Some == [NoActs EXCEPT !.empty = FALSE]

MCOutcomes == {
    NoActs, [Some EXCEPT !.hide = TRUE], [Some EXCEPT !.by = "status", !.local = 204],
    [Some EXCEPT !.by = "mock", !.local = 200], [Some EXCEPT !.by = "redirect"],
    [Some EXCEPT !.body = {"rewrite"}, !.delay = TRUE], [Some EXCEPT !.body = {"delete"}],
    [Some EXCEPT !.body = {"trailer"}], [Some EXCEPT !.length = 2], [Some EXCEPT !.length = NoLength],
    [Some EXCEPT !.status = 200],
    [Some EXCEPT !.status = 204, !.hideResponse = TRUE],
    [Some EXCEPT !.fails = "request"], [Some EXCEPT !.fails = "local", !.by = "mock", !.local = 200],
    [Some EXCEPT !.fails = "response"], [Some EXCEPT !.fails = "trailer"]}
=============================================================================
