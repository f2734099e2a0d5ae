------------------------------ MODULE HttpWire ------------------------------
(***************************************************************************)
(* Framing of HTTP/1 messages as the proxy computes it: which responses    *)
(* carry content, how the length of a body is found, what the head writers *)
(* announce, and what the peer expects to follow.                          *)
(*                                                                         *)
(* A body is a number of cells. A request is a record                      *)
(*   [method, version, close, keep, body, size, expect, auth, target, ws,  *)
(*    sse, tls]                                                            *)
(* and a response head as an origin sends it is a record                   *)
(*   [status, framing, size, also, persistent, sse, trailer]               *)
(* where framing is "length", "chunked" or "none" as the readers see it: a *)
(* transfer coding wins over a Content-Length that came with it, which is  *)
(* kept in also.                                                           *)
(***************************************************************************)
EXTENDS Integers

Informational == 100..199

StatusCanSendContent(status) == status \notin Informational \cup {204, 205, 304}

ResponseHasFramedBody(method, status) ==
    method # "HEAD" /\ status \notin Informational \cup {204, 304}

ResponseCanSendContent(method, status) ==
    method # "HEAD" /\ StatusCanSendContent(status)

NoLength == -1

(* http::header(headers, "content-length") *)
ContentLength(head) ==
    CASE head.framing = "length" -> head.size [] head.framing = "chunked" -> head.also
      [] head.framing = "none" -> NoLength

(* What an origin really sends after its head. *)
OriginCells(method, head) ==
    IF ResponseHasFramedBody(method, head.status) THEN head.size ELSE 0

(* requested_client_connection: an explicit close wins, HTTP/1.1 persists,  *)
(* HTTP/1.0 only when it asks for it.                                      *)
RequestedKeepAlive(r) == ~r.close /\ (r.version = "1.1" \/ r.keep)

HasBody(r) == r.body # "none" /\ ~(r.body = "length" /\ r.size = 0)

(* Cells of the request body in the socket; a chunked body ends with one   *)
(* more, its last chunk.                                                   *)
RequestCells(r) ==
    CASE r.body = "none" -> 0 [] r.body = "length" -> r.size [] r.body = "chunked" -> r.size + 1

(* H1BodyStream::new: the streaming reader honours method and status.      *)
StreamFraming(method, head) ==
    IF ~ResponseHasFramedBody(method, head.status) THEN "empty"
    ELSE IF head.framing # "none" THEN head.framing
    ELSE IF head.status = 205 THEN "empty" ELSE "close"

(* response_is_persistent, as the head states it.                          *)
Persistent(head) == head.persistent

---------------------------------------------------------------------------
(* What has been written to the client for the request in hand: the number *)
(* of response heads, the last one's status, framing, announced            *)
(* persistence and remaining length, and the content cells after it.       *)
NoResponse == [heads |-> 0, status |-> 0, framing |-> "none", left |-> 0, keep |-> FALSE,
               content |-> 0, ended |-> FALSE]

(* write_response_head_with_connection: a Content-Length only for statuses *)
(* with content, zero for 205.                                             *)
HeadWritten(out, status, framing, length, keep) ==
    [heads |-> out.heads + 1, status |-> status,
     framing |-> IF StatusCanSendContent(status) THEN framing
                 ELSE IF status = 205 THEN "length" ELSE "none",
     left |-> IF StatusCanSendContent(status) /\ framing = "length" THEN length ELSE 0,
     keep |-> keep, content |-> 0, ended |-> FALSE]

(* write_response_with_version_and_connection: head and body in one call.  *)
ResponseWritten(out, status, length, keep) ==
    [HeadWritten(out, status, "length", length, keep) EXCEPT !.left = 0, !.content = length]

CellWritten(out) ==
    [out EXCEPT !.content = @ + 1, !.left = IF out.framing = "length" THEN @ - 1 ELSE @]

BodyEnded(out) == [out EXCEPT !.ended = (out.framing = "chunked")]

(* The client has a final response, knows where it ends, and nothing       *)
(* follows it: it can read the next one from the same connection.          *)
Delimited(method, out) ==
    /\ out.heads = 1 /\ out.status \notin Informational
    /\ IF ResponseHasFramedBody(method, out.status) /\ StatusCanSendContent(out.status)
       THEN (out.framing = "length" /\ out.left = 0) \/ (out.framing = "chunked" /\ out.ended)
       ELSE out.content = 0 /\ ~out.ended
=============================================================================
