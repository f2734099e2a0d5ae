-------------------------------- MODULE Relay --------------------------------
(***************************************************************************)
(* The four relays that join a client and an upstream once the exchange is *)
(* no longer HTTP (proxy/tunnel.rs, proxy/websocket/):                     *)
(*   "tcp"   tunnel_copy_tcp, a thread per direction                       *)
(*   "tls"   tunnel_copy_tls_inner, one loop over non-blocking sockets     *)
(*   "ws"    websocket_tunnel_concurrent, a thread per direction           *)
(*   "wsnb"  websocket_tunnel_nonblocking_inner, one loop                  *)
(* The endpoints send, finish and go away whenever they like.              *)
(***************************************************************************)
EXTENDS Naturals, Sequences, SequencesExt

CONSTANTS
    MaxUnits,      \* bound on what is sent, per direction
    PendingCap,    \* the 1 MiB at which a loop stops reading
    RecordCap      \* record_ws_frame keeps 512 frames

ASSUME RelayAssumption == MaxUnits \in [{"up", "down"} -> Nat] /\ PendingCap \in Nat \ {0} /\ RecordCap \in Nat

Modes == {"tcp", "tls", "ws", "wsnb"}
Directions == {"up", "down"}
Other(d) == IF d = "up" THEN "down" ELSE "up"

\* A unit is a piece of the stream; a WebSocket frame is two of them.  A "bad"
\* unit is a frame over the size limit, or a record TLS rejects.
Unit(n, kind) == [n |-> n, kind |-> kind]
Notify == Unit(0, "notify")
FrameSize == 2

VARIABLES
    mode,
    src,        \* per direction, its sending endpoint: "open", "fin" or "gone"
    fed,        \* what that endpoint has sent
    net,        \* sent and not yet read by the relay
    pend,       \* read and not yet written
    part,       \* the decoder's incomplete frame
    tlsq,       \* accepted by the TLS session and not yet written
    got,        \* received by the other endpoint
    eof,        \* the other endpoint has seen the end of the direction
    counted,    \* bytes reported for the session
    thread,     \* "tcp" and "ws": state of the direction's thread
    pc,         \* "tls" and "wsnb": step of the loop
    closed, closeSeen,
    records,    \* recorded frames
    lapsed,     \* history: the direction met a timeout or undecodable input
    cut         \* history: units that were still pending when close_notify was queued

loopVars == <<part, tlsq, closed, closeSeen, pc>>
relayVars == <<pend, got, eof, counted, thread, records, lapsed, cut, loopVars>>
vars == <<mode, src, fed, net, relayVars>>

Each(x) == [d \in Directions |-> x]
Threaded == mode \in {"tcp", "ws"}
Framed == mode \in {"ws", "wsnb"}

Init ==
    /\ mode \in Modes
    /\ src = Each("open") /\ fed = Each(<<>>) /\ net = Each(<<>>)
    /\ pend = Each(<<>>) /\ part = Each(<<>>) /\ tlsq = <<>>
    /\ got = Each(<<>>) /\ eof = Each(FALSE) /\ counted = Each(0)
    /\ thread = Each(IF Threaded THEN "read" ELSE "none")
    /\ pc = CASE mode = "tls" -> "flush" [] mode = "wsnb" -> "up" [] OTHER -> "none"
    /\ closed = Each(FALSE) /\ closeSeen = Each(FALSE)
    /\ records = <<>> /\ lapsed = Each(FALSE) /\ cut = Each(0)

\* The endpoint that receives direction d is the one that sends the other.
Gone(d) == src[Other(d)] = "gone"

Finished ==
    IF Threaded THEN \A d \in Directions : thread[d] = "done" ELSE pc = "done"

-----------------------------------------------------------------------------
(***************************************************************************)
(* The endpoints.                                                          *)
(***************************************************************************)
Kinds(d) ==
    CASE Framed -> {"data", "close", "bad"}
      [] mode = "tls" /\ d = "down" -> {"data", "bad"}
      [] OTHER -> {"data"}

Send(d) ==
    LET n == Len(fed[d]) + 1
        inFrame == Framed /\ n % FrameSize = 0
    IN  /\ src[d] = "open" /\ n <= MaxUnits[d]
        /\ \E k \in IF inFrame THEN {Last(fed[d]).kind} ELSE Kinds(d) :
              /\ fed' = [fed EXCEPT ![d] = Append(@, Unit(n, k))]
              /\ net' = [net EXCEPT ![d] = Append(@, Unit(n, k))]
        /\ UNCHANGED <<mode, src, relayVars>>

EndpointEnds(d) ==
    /\ \/ src[d] = "open" /\ src' = [src EXCEPT ![d] = "fin"] /\ UNCHANGED net
       \/ src[d] # "gone" /\ src' = [src EXCEPT ![d] = "gone"]
            /\ net' \in {net, [net EXCEPT ![d] = <<>>]}
    /\ UNCHANGED <<mode, fed, relayVars>>

-----------------------------------------------------------------------------
(***************************************************************************)
(* A thread per direction: copy_tunnel_direction and                       *)
(* websocket_copy_frames_shared.                                           *)
(***************************************************************************)
\* record_ws_frame, once for each of the whole frames in `units`; the frame is
\* named by its last unit.
NewRecords(old, d, units) ==
    LET marks == [i \in 1..(Len(units) \div FrameSize) |-> <<d, units[FrameSize * i].n>>]
        count == Len(old) + Len(marks)
    IN  SubSeq(old \o marks, 1, IF count > RecordCap THEN RecordCap ELSE count)

\* What one read can return: some of the bytes, or for read_ws_frame a frame.
Readable(d) ==
    IF mode = "tcp" THEN 1..Len(net[d])
    ELSE IF Len(net[d]) < FrameSize THEN {} ELSE {FrameSize}

ThreadRead(d) ==
    /\ Threaded /\ thread[d] = "read"
    /\ \/ \E k \in Readable(d) :
            /\ net' = [net EXCEPT ![d] = SubSeq(@, k + 1, Len(@))]
            /\ IF net[d][k].kind = "bad"
               THEN /\ thread' = [thread EXCEPT ![d] = "shut"]
                    /\ lapsed' = [lapsed EXCEPT ![d] = TRUE]
                    /\ UNCHANGED <<pend, counted>>
               ELSE /\ thread' = [thread EXCEPT ![d] = "write"]
                    /\ pend' = [pend EXCEPT ![d] = SubSeq(net[d], 1, k)]
                    /\ counted' = [counted EXCEPT ![d] = @ + IF mode = "ws" THEN k ELSE 0]
                    /\ UNCHANGED lapsed
       \* the end of the stream, inside a frame or not, or an error
       \/ /\ src[d] = "gone" \/ (Readable(d) = {} /\ src[d] = "fin")
          /\ thread' = [thread EXCEPT ![d] = "shut"]
          /\ UNCHANGED <<net, pend, counted, lapsed>>
       \* the socket's read timeout
       \/ /\ Readable(d) = {} /\ src[d] = "open"
          /\ thread' = [thread EXCEPT ![d] = "shut"]
          /\ lapsed' = [lapsed EXCEPT ![d] = TRUE]
          /\ UNCHANGED <<net, pend, counted>>
    /\ UNCHANGED <<mode, src, fed, got, eof, records, cut, loopVars>>

ThreadWrite(d) ==
    /\ Threaded /\ thread[d] = "write"
    /\ pend' = [pend EXCEPT ![d] = <<>>]
    /\ \/ /\ Gone(d)
          /\ thread' = [thread EXCEPT ![d] = "shut"]
          /\ UNCHANGED <<got, counted, records>>
       \/ /\ ~Gone(d)
          /\ got' = [got EXCEPT ![d] = @ \o pend[d]]
          /\ counted' = [counted EXCEPT ![d] = @ + IF mode = "tcp" THEN Len(pend[d]) ELSE 0]
          /\ records' = IF mode = "ws" THEN NewRecords(records, d, pend[d]) ELSE records
          /\ thread' = [thread EXCEPT ![d] =
                           IF Last(pend[d]).kind = "close" THEN "shut" ELSE "read"]
    /\ UNCHANGED <<mode, src, fed, net, eof, lapsed, cut, loopVars>>

\* shutdown(Write): the endpoint sees the end of the direction.
Shutdown(d) == eof' = [eof EXCEPT ![d] = TRUE]

\* The other socket is shut down whatever ended the copy.
ThreadShut(d) ==
    /\ Threaded /\ thread[d] = "shut"
    /\ thread' = [thread EXCEPT ![d] = "done"]
    /\ Shutdown(d)
    /\ UNCHANGED <<mode, src, fed, net, pend, got, counted, records, lapsed, cut, loopVars>>

-----------------------------------------------------------------------------
(***************************************************************************)
(* tunnel_copy_tls_inner.                                                  *)
(***************************************************************************)
\* Bug: the last byte that was written stays in the buffer.
AfterShort(s, p) == SubSeq(s, IF p = <<>> THEN 1 ELSE Len(p), Len(s))

After(s, p) == SubSeq(s, Len(p) + 1, Len(s))

\* A TLS peer ignores what follows close_notify.
BeforeNotify(s) ==
    LET at == { i \in 1..Len(s) : s[i] = Notify }
    IN  IF at = {} THEN s ELSE SubSeq(s, 1, (CHOOSE i \in at : \A j \in at : i <= j) - 1)

\* flush_tls_plaintext and flush_tls_records: any part of it fits.
TlsFlush(next) ==
    \E p \in Prefixes(pend["up"]) :
      LET queue == tlsq \o p
      IN  \E w \in IF Gone("up") THEN {<<>>} ELSE Prefixes(queue) :
            /\ pend' = [pend EXCEPT !["up"] = After(@, p)]
            /\ tlsq' = After(queue, w)
            /\ got' = [got EXCEPT !["up"] = IF eof["up"] THEN @ ELSE @ \o BeforeNotify(w)]
            /\ eof' = [eof EXCEPT !["up"] = @ \/ Notify \in ToSet(w)]
            /\ pc' = next
            /\ UNCHANGED <<mode, src, fed, net, counted, thread, records, lapsed, cut,
                           part, closed, closeSeen>>

TlsFlushes ==
    /\ mode = "tls"
    /\ \/ pc = "flush" /\ TlsFlush("up")
       \/ pc = "reflush" /\ TlsFlush("down")

\* The read loop runs until the socket would block, the end, or the cap.
TlsReadClient ==
    LET d == "up"
        room == PendingCap - Len(pend[d])
        k == IF Len(net[d]) < room THEN Len(net[d]) ELSE room
        ends == k < room /\ src[d] # "open"
    IN  /\ mode = "tls" /\ pc = "up"
        /\ pc' = "reflush"
        /\ IF closed[d] \/ Len(pend[d]) >= PendingCap
           THEN UNCHANGED <<net, pend, counted, closed, tlsq, cut>>
           ELSE /\ net' = [net EXCEPT ![d] = SubSeq(@, k + 1, Len(@))]
                /\ pend' = [pend EXCEPT ![d] = @ \o SubSeq(net[d], 1, k)]
                /\ counted' = [counted EXCEPT ![d] = @ + k]
                /\ closed' = [closed EXCEPT ![d] = ends]
                /\ tlsq' = IF ends THEN Append(tlsq, Notify) ELSE tlsq
                /\ cut' = IF ends THEN [cut EXCEPT ![d] = Len(pend'[d])] ELSE cut
        /\ UNCHANGED <<mode, src, fed, got, eof, thread, records, lapsed, part, closeSeen>>

TlsReadUpstream ==
    LET d == "down"
    IN  /\ mode = "tls" /\ pc = "down"
        /\ IF closed[d] THEN pc' = "deliver" /\ UNCHANGED <<net, pend, closed, lapsed>>
           ELSE IF \E i \in 1..Len(net[d]) : net[d][i].kind = "bad"
           THEN /\ pc' = "drop"
                /\ lapsed' = [lapsed EXCEPT ![d] = TRUE]
                /\ UNCHANGED <<net, pend, closed>>
           ELSE /\ pc' = "deliver"
                /\ net' = [net EXCEPT ![d] = <<>>]
                /\ pend' = [pend EXCEPT ![d] = @ \o net[d]]
                /\ closed' = [closed EXCEPT ![d] = src[d] # "open"]
                /\ UNCHANGED lapsed
        /\ UNCHANGED <<mode, src, fed, got, eof, counted, thread, records, cut, part, tlsq,
                       closeSeen>>

\* flush_pending_to_stream, then the end of the pass.
TlsDeliver ==
    /\ mode = "tls" /\ pc = "deliver"
    /\ \E w \in IF Gone("down") THEN {<<>>} ELSE Prefixes(pend["down"]) :
          /\ pend' = [pend EXCEPT !["down"] = After(@, w)]
          /\ got' = [got EXCEPT !["down"] = @ \o w]
          /\ counted' = [counted EXCEPT !["down"] = @ + Len(w)]
          /\ pc' = IF closed["down"] /\ pend'["down"] = <<>> THEN "drop" ELSE "flush"
    /\ UNCHANGED <<mode, src, fed, net, eof, thread, records, lapsed, cut, part, tlsq,
                   closed, closeSeen>>

\* Both sockets are shut down, or dropped.
LoopDrop ==
    /\ pc = "drop"
    /\ pc' = "done"
    /\ eof' = Each(TRUE)
    /\ UNCHANGED <<mode, src, fed, net, pend, got, counted, thread, records, lapsed, cut,
                   part, tlsq, closed, closeSeen>>

-----------------------------------------------------------------------------
(***************************************************************************)
(* websocket_tunnel_nonblocking_inner.                                     *)
(***************************************************************************)

\* WsFrameDecoder::push: the whole frames at the front, and the rest.
Whole(s) == SubSeq(s, 1, Len(s) - (Len(s) % FrameSize))

\* Counts, queues and records whole frames, and notices a close frame.
append_frames(d, frames) ==
    /\ counted' = [counted EXCEPT ![d] = @ + Len(frames)]
    /\ pend' = [pend EXCEPT ![d] = @ \o frames]
    /\ records' = NewRecords(records, d, frames)
    /\ closeSeen' = [closeSeen EXCEPT ![d] = @ \/ \E i \in 1..Len(frames) : frames[i].kind = "close"]

\* read_ws_frames_nonblocking; `sawEnd` when the end follows the last byte within
\* one call.
NbRead(d, next) ==
    /\ mode = "wsnb" /\ pc = d
    /\ IF closed[d] \/ Len(pend[d]) >= PendingCap \/ (net[d] = <<>> /\ src[d] = "open")
       THEN pc' = next /\ UNCHANGED <<net, pend, part, counted, records, closed, closeSeen, lapsed>>
       ELSE \/ \E k \in 1..Len(net[d]), sawEnd \in BOOLEAN :
                 LET buffer == part[d] \o SubSeq(net[d], 1, k)
                     frames == Whole(buffer)
                 IN  /\ sawEnd => k = Len(net[d]) /\ src[d] = "fin"
                     /\ net' = [net EXCEPT ![d] = SubSeq(@, k + 1, Len(@))]
                     /\ IF \E i \in 1..Len(frames) : frames[i].kind = "bad"
                        THEN /\ pc' = "drop"
                             /\ lapsed' = [lapsed EXCEPT ![d] = TRUE]
                             /\ UNCHANGED <<pend, part, counted, records, closed, closeSeen>>
                        ELSE /\ pc' = next
                             /\ part' = [part EXCEPT ![d] = After(buffer, frames)]
                             /\ append_frames(d, frames)
                             /\ closed' = [closed EXCEPT ![d] = sawEnd]
                             /\ UNCHANGED lapsed
            \/ /\ src[d] = "gone" \/ net[d] = <<>>
               /\ pc' = next
               /\ closed' = [closed EXCEPT ![d] = TRUE]
               /\ UNCHANGED <<net, pend, part, counted, records, closeSeen, lapsed>>
    /\ UNCHANGED <<mode, src, fed, got, eof, thread, cut, tlsq>>

\* flush_pending_nonblocking for both sockets.
NbFlush ==
    /\ mode = "wsnb" /\ pc = "write"
    /\ \E u \in IF Gone("up") THEN {<<>>} ELSE Prefixes(pend["up"]),
          v \in IF Gone("down") THEN {<<>>} ELSE Prefixes(pend["down"]) :
          LET w == [d \in Directions |-> IF d = "up" THEN u ELSE v]
          IN  /\ pend' = [d \in Directions |-> After(pend[d], w[d])]
              /\ got' = [d \in Directions |-> got[d] \o w[d]]
    /\ pc' = "check"
    /\ UNCHANGED <<mode, src, fed, net, part, eof, counted, thread, records, lapsed, cut,
                   tlsq, closed, closeSeen>>

\* Bug: the close frame ends its direction before it has been passed on.
NbCheckEarly ==
    LET over == \/ \A d \in Directions : closed[d] \/ closeSeen[d]
                \/ \A d \in Directions : closeSeen[d]
    IN  /\ mode = "wsnb" /\ pc = "check"
        /\ eof' = [d \in Directions |-> eof[d] \/ closeSeen[d]]
        /\ closed' = [d \in Directions |-> closed[d] \/ closeSeen[d]]
        /\ pc' = IF over THEN "drop" ELSE "up"
        /\ UNCHANGED <<mode, src, fed, net, pend, part, got, counted, thread, records, lapsed,
                       cut, tlsq, closeSeen>>

\* Bug: only close frames end the tunnel.
NbCheckCloseOnly ==
    LET ends(d) == closeSeen[d] /\ pend[d] = <<>>
    IN  /\ mode = "wsnb" /\ pc = "check"
        /\ eof' = [d \in Directions |-> eof[d] \/ ends(d)]
        /\ closed' = [d \in Directions |-> closed[d] \/ ends(d)]
        /\ pc' = IF \A d \in Directions : ends(d) THEN "drop" ELSE "up"
        /\ UNCHANGED <<mode, src, fed, net, pend, part, got, counted, thread, records, lapsed,
                       cut, tlsq, closeSeen>>

\* A close frame that has been passed on ends its direction.
NbCheck ==
    LET ends(d) == closeSeen[d] /\ pend[d] = <<>>
        over == /\ (\A d \in Directions : closed[d] \/ ends(d))
                     \/ (\A d \in Directions : closeSeen[d])
                /\ \A d \in Directions : pend[d] = <<>>
    IN  /\ mode = "wsnb" /\ pc = "check"
        /\ eof' = [d \in Directions |-> eof[d] \/ ends(d)]
        /\ closed' = [d \in Directions |-> closed[d] \/ ends(d)]
        /\ pc' = IF over THEN "drop" ELSE "up"
        /\ UNCHANGED <<mode, src, fed, net, pend, part, got, counted, thread, records, lapsed,
                       cut, tlsq, closeSeen>>

-----------------------------------------------------------------------------
Thread(d) == ThreadRead(d) \/ ThreadWrite(d) \/ ThreadShut(d)
Loop ==
    \/ TlsFlushes \/ TlsReadClient \/ TlsReadUpstream \/ TlsDeliver
    \/ NbRead("up", "down") \/ NbRead("down", "write") \/ NbFlush \/ NbCheck \/ LoopDrop

Endpoint(d) == Send(d) \/ EndpointEnds(d)

Next == (\E d \in Directions : Endpoint(d) \/ Thread(d)) \/ Loop

\* The relay's threads run on, and a socket whose peer reads accepts bytes again
\* and again.
DeliverAll ==
    \/ TlsDeliver /\ (Gone("down") \/ pend'["down"] = <<>>)
    \/ NbFlush /\ \A d \in Directions : Gone(d) \/ pend'[d] = <<>>
Fairness ==
    /\ \A d \in Directions : WF_vars(Thread(d))
    /\ WF_vars(Loop) /\ SF_vars(DeliverAll)

Spec == Init /\ [][Next]_vars /\ Fairness

-----------------------------------------------------------------------------
(***************************************************************************)
(* Properties.                                                             *)
(***************************************************************************)
Up == INSTANCE Pipe WITH src <- fed["up"], dst <- got["up"], ended <- eof["up"]
Down == INSTANCE Pipe WITH src <- fed["down"], dst <- got["down"], ended <- eof["down"]

\* Each direction of each relay is a pipe: in order, nothing twice, nothing left
\* out of the middle, nothing after the end (tunnel.rs and websocket/ with their
\* pending buffers and partial writes).
ImplementsPipe == Up!Spec /\ Down!Spec

\* What the direction owes: everything, or for WebSocket the whole frames up to
\* and including the first close frame.
Owed(d) ==
    LET s == IF Framed THEN Whole(fed[d]) ELSE fed[d]
        c == { i \in 1..Len(s) : s[i].kind = "close" /\ i % FrameSize = 0 }
    IN  IF Framed /\ c # {}
        THEN SubSeq(s, 1, CHOOSE i \in c : \A j \in c : i <= j) ELSE s

\* Nothing but the sender's own orderly end can have ended direction d.
Orderly(d) ==
    /\ \A e \in Directions : src[e] # "gone" /\ ~lapsed[e]
    /\ mode = "tls" /\ d = "up" => src["down"] = "open"

\* An end that is not the result of a failure hides no loss: when the receiver
\* sees one, everything the direction owes has arrived and has been counted and,
\* up to the cap, recorded.  The exception is the TLS relay, which queues
\* close_notify ahead of the bytes read in the same pass as the end of the
\* client's stream (tunnel.rs:153).
NoSilentLoss ==
    \A d \in Directions :
        eof[d] /\ Orderly(d) =>
            /\ IsPrefix(Owed(d), got[d]) \/ cut[d] > 0
            /\ counted[d] >= Len(got[d])
            /\ Framed /\ Len(records) < RecordCap =>
                 \A i \in 1..Len(got[d]) :
                     i % FrameSize = 0 => <<d, i>> \in ToSet(records)

\* A relay whose peers have both ended comes to an end and releases its threads
\* and sockets, except for a loop that holds bytes for a peer that has gone away:
\* its flush reports no error and its pending buffer never empties
\* (tunnel.rs:232, nonblocking.rs:125).
Wedged ==
    /\ ~Threaded
    /\ \/ Gone("down") /\ pend["down"] # <<>>
       \/ mode = "wsnb" /\ Gone("up") /\ pend["up"] # <<>>
RelayEnds == (\A d \in Directions : src[d] # "open") ~> (Finished \/ Wedged)
=============================================================================
