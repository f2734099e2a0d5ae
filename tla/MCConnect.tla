----------------------------- MODULE MCConnect -----------------------------
(***************************************************************************)
(* Instances of Connect for TLC: one host spelled in two ways and another, *)
(* and CONNECT requests that between them meet every branch of the policy, *)
(* of the probe and of the routes.                                         *)
(***************************************************************************)
EXTENDS Connect, TLC

MCHosts == {"a", "A", "b"}
MCHostKey == [h \in MCHosts |-> IF h = "A" THEN "a" ELSE h]

TlsHello == <<"hs", "v", "v">>

Req(host, input, bypass, hidden, actions) ==
    [host |-> host, parses |-> TRUE, input |-> input, bypass |-> bypass,
     hidden |-> hidden, actions |-> actions]

\* Certificates and remembered failures: TLS only, direct.  The first and the
\* last request are for "a", the one between them for any host.
MitmRequests ==
    { Req(h, TlsHello, FALSE, FALSE, <<>>) : h \in MCHosts }

\* The first bytes a tunnel may carry.
ProbeInputs ==
    { TlsHello, TlsHello \o <<"x">>, <<"hs", "x", "v">>, <<"t", "sp", "/">>, <<"t", "sp", "h", "s", ":", "/">>,
      <<"t", "sp", "h", ":", "/">>, <<"t", "sp", "h", "s", "x">>, <<"t", "t", "t", "sp">>,
      <<"t", "t">>, <<"sp", "t">>, <<"x">>, <<>> }
ProbeRequests ==
    { Req("a", i, b, h, <<>>) : i \in ProbeInputs, b \in BOOLEAN, h \in BOOLEAN }

\* Targets such as host:0, which have a host for the policy and are no URL authority.
BadTargets ==
    { [Req("a", i, b, h, <<>>) EXCEPT !.parses = FALSE] :
          i \in {TlsHello, <<"x">>}, b \in BOOLEAN, h \in BOOLEAN }

\* Routes: a single proxy of each kind, chains, a value that does not parse,
\* one that partly does, one that is too long.
RouteActions ==
    { <<<<k>>>> : k \in EntryKinds } \cup { <<<<k, l>>>> : k \in HopKinds, l \in EntryKinds }
    \cup { <<<<"https", "socks5", "https">>>>, <<<<"bad">>, <<"socks5">>>>,
           <<<<"http", "http", "http", "http">>>> }
RouteRequests ==
    { Req("A", i, b, FALSE, a) : i \in {TlsHello, <<"t", "sp", "/">>}, b \in BOOLEAN,
                                 a \in RouteActions }

MCRequests(n) ==
    CASE n = 1 -> ProbeRequests \cup BadTargets \cup RouteRequests
      [] n = 2 -> MitmRequests
      [] OTHER -> { r \in MitmRequests : r.host = "a" }

Symmetric == Permutations(Conns)

\* The probe and the dial of a connection are its own affair: requests that
\* exercise them are explored on their own, the others in any number.
Scope ==
    \A c \in Conns :
        /\ conn[c].pc # "idle"
        /\ conn[c].input # TlsHello \/ conn[c].route # Direct \/ conn[c].hidden
              \/ conn[c].reason = "bypass" \/ ~conn[c].parses
        => connects = 1
=============================================================================
