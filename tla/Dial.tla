-------------------------------- MODULE Dial --------------------------------
(***************************************************************************)
(* How the proxy reaches an origin: the route a rule selects               *)
(* (routing.rs, routing/model.rs) and the transport it builds along that   *)
(* route (connect.rs, connect_proxy.rs, connect_tls/).                     *)
(*                                                                         *)
(* A dial touches nothing that another thread can see, so it is one        *)
(* computation here: the layers the finished transport is made of, and the *)
(* ways in which a dial along those layers can fail.  Hop i of a route is  *)
(* known by its index; Origin is the host and port the client asked for    *)
(* (or the one a host rule put in its place).                              *)
(***************************************************************************)
EXTENDS Naturals, Sequences, FiniteSets, SequencesExt

CONSTANTS MaxHops      \* rsproxy_rules::MAX_RULE_UPSTREAM_HOPS

ASSUME MaxHopsAssumption == MaxHops \in Nat \ {0}

Origin == 0

\* ProxyHop: what an entry of an upstream rule parses to.  "bad" is an entry
\* whose scheme parse_proxy_hop does not know.
HopKinds == {"http", "https", "socks5"}
EntryKinds == HopKinds \cup {"bad"}

\* UpstreamRoute: its variant and, for a chain, every hop.
Direct == [kind |-> "direct", hops |-> <<>>]
Route(entries) == [kind |-> Head(entries), hops |-> <<Head(entries)>>]
Chain(entries) == [kind |-> "chain", hops |-> entries]
NoRoute == [kind |-> "error", hops |-> <<>>]

\* What the for loop of upstream_route makes of one upstream action: NoRoute
\* for too many entries, a chain when every entry parses, the first entry on
\* its own when not all do, and Direct to go on with the next action.
ActionRoute(entries) ==
    IF Len(entries) > MaxHops THEN NoRoute
    ELSE IF Len(entries) > 1 /\ \A i \in 1..Len(entries) : entries[i] # "bad"
         THEN Chain(entries)
    ELSE IF entries # <<>> /\ Head(entries) # "bad" THEN Route(entries)
    ELSE Direct

\* upstream_route: `direct` wins over every upstream action, then the first
\* upstream action that yields a route, then a direct connection.
UpstreamRoute(direct, actions) ==
    LET usable == { i \in 1..Len(actions) : ActionRoute(actions[i]) # Direct }
    IN  IF direct \/ usable = {} THEN Direct
        ELSE ActionRoute(actions[CHOOSE i \in usable :
                                     \A j \in usable : i <= j])

-----------------------------------------------------------------------------
\* One layer of a transport: a TCP connection to a peer, a TLS session with
\* it, or a request to the hop reached so far to open a connection onwards.
Tcp(peer) == [layer |-> "tcp", peer |-> peer]
Tls(peer) == [layer |-> "tls", peer |-> peer]
ProxyConnect(peer) == [layer |-> "connect", peer |-> peer]
Socks(peer) == [layer |-> "socks", peer |-> peer]

\* connect_tcp_with_timeouts: resolve, then try every address in turn.
ConnectTcp(peer) == <<Tcp(peer)>>

\* http_proxy_connect_tunnel and socks5_connect, chosen by the hop that is asked.
AskHop(kind, peer) ==
    IF kind = "socks5" THEN <<Socks(peer)>> ELSE <<ProxyConnect(peer)>>

\* Bug: only the first hop of a chain is spoken to over TLS.
ChainToFinalPlain(hops) ==
    LET upto[i \in 1..Len(hops)] ==
            IF i = 1 THEN ConnectTcp(1) \o (IF hops[1] = "https" THEN <<Tls(1)>> ELSE <<>>)
            ELSE upto[i - 1] \o AskHop(hops[i - 1], i)
    IN  upto[Len(hops)]

\* connect_proxy_chain_to_final: TCP and, for an https hop, TLS to the first
\* hop; then every next hop is asked for through the previous one.
ChainToFinal(hops) ==
    LET tls(i) == IF hops[i] = "https" THEN <<Tls(i)>> ELSE <<>>
        upto[i \in 1..Len(hops)] ==
            IF i = 1 THEN ConnectTcp(1) \o tls(1)
            ELSE upto[i - 1] \o AskHop(hops[i - 1], i) \o tls(i)
    IN  upto[Len(hops)]

\* connect_tunnel_upstream_recorded: a transport to the origin itself.
TunnelUpstream(route) ==
    CASE route.kind = "direct" -> ConnectTcp(Origin)
      [] route.kind = "socks5" -> ConnectTcp(1) \o <<Socks(Origin)>>
      [] route.kind = "http"   -> ConnectTcp(1) \o <<ProxyConnect(Origin)>>
      [] route.kind = "https"  -> ConnectTcp(1) \o <<Tls(1), ProxyConnect(Origin)>>
      [] route.kind = "chain"  -> ChainToFinal(route.hops)
                                    \o AskHop(Last(route.hops), Origin)

\* UpstreamRoute::uses_proxy_tunnel_for_https_origin
UsesProxyTunnel(scheme, route) ==
    scheme = "https" /\ route.kind \in {"http", "chain", "https"}

\* origin_tls_supported
OriginTlsSupported(scheme, route) ==
    /\ scheme = "https"
    /\ route.kind \in {"direct", "socks5"} \/ UsesProxyTunnel(scheme, route)

\* UpstreamRoute::uses_absolute_form_for_url: the request line names the origin
\* because the peer of the transport is a proxy.
UsesAbsoluteForm(scheme, route) ==
    /\ \/ route.kind \in {"http", "https"}
       \/ route.kind = "chain" /\ Last(route.hops) \in {"http", "https"}
    /\ ~UsesProxyTunnel(scheme, route)

\* connect_upstream_stream: the transport a forwarded request is written to.
UpstreamStream(scheme, route) ==
    IF UsesProxyTunnel(scheme, route)
    THEN TunnelUpstream(route) \o <<Tls(Origin)>>
    ELSE IF route.kind = "chain"
    THEN ChainToFinal(route.hops)
           \o (IF Last(route.hops) = "socks5" THEN <<Socks(Origin)>> ELSE <<>>)
    ELSE ConnectTcp(IF route.kind = "direct" THEN Origin ELSE 1)
           \o (IF route.kind = "socks5" THEN <<Socks(Origin)>> ELSE <<>>)
           \o (IF route.kind = "https" THEN <<Tls(1)>>
               ELSE IF OriginTlsSupported(scheme, route) THEN <<Tls(Origin)>>
               ELSE <<>>)

\* The classes of error a layer can fail with.  A stage's budget is clipped to
\* the request's (RequestDeadline::budget), so each can be the total timeout.
LayerErrors(layer) ==
    IF layer = "tcp" THEN {"dns-timeout", "connect-timeout", "total-timeout", "other"}
    ELSE {"total-timeout", "other"}
DialErrors(layers) == UNION { LayerErrors(layers[i].layer) : i \in 1..Len(layers) }

-----------------------------------------------------------------------------
(***************************************************************************)
(* What the layers mean, independently of how they were put together.      *)
(***************************************************************************)

\* Whom the last layer talks to.
PeerOf(layers) == Last(layers).peer

\* A TLS session is only ever opened with the peer reached at that point.
TlsWithPeer(layers) ==
    \A i \in 1..Len(layers) :
        layers[i].layer = "tls" => i > 1 /\ layers[i - 1].peer = layers[i].peer

\* Every hop of the route is passed, in order, before the origin.
HopsPassed(route, layers) ==
    \A i \in 1..Len(route.hops) :
        \E a \in 1..Len(layers) :
            /\ layers[a].peer = i /\ layers[a].layer # "tls"
            /\ \A b \in 1..a - 1 : layers[b].peer \in 1..i - 1
            /\ route.hops[i] = "https" =>
                 a < Len(layers) /\ layers[a + 1] = Tls(i)
=============================================================================
