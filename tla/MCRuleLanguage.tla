--------------------------- MODULE MCRuleLanguage ---------------------------
(***************************************************************************)
(* Bounds for RuleLoad: sources of two rules over a small web (hosts x,    *)
(* a.x, b.a.x and y), and sources of up to four lines, in one or two       *)
(* groups, that run into every diagnostic and budget.                      *)
(***************************************************************************)
EXTENDS RuleLoad

MCWordLen == [w \in {"http", "https", "x", "a", "b", "y", "api", "v1", "docs", "", "p=1", "q=1", "1",
                    "ip(1)", "client.ip(1)"} |->
                 IF w \in {"http", "https", "docs"} THEN 4 ELSE IF w = "api" THEN 3 ELSE 1]

(* URLs and requests. *)
NoPort == [k |-> "none"]
Number(n) == [k |-> "number", n |-> n]

Url(scheme, host, path, query) ==
    [scheme |-> scheme, user |-> FALSE, host |-> host, form |-> "name", port |-> NoPort,
     path |-> path, query |-> query, fragment |-> FALSE]

Urls == {
    Url("http", <<"x">>, <<>>, NoQuery),
    Url("https", <<"a", "x">>, <<"api", "v1">>, NoQuery),
    Url("http", <<"b", "a", "x">>, <<"docs">>, <<"p=1", "q=1">>),
    Url("http", <<"y">>, <<"api">>, <<"p=1">>)}

Req(url, method, body, lucky) ==
    [url |-> url, method |-> method, headers |-> {"h"}, ip |-> "10.0.0.1", server |-> "none",
     body |-> body, lucky |-> lucky, env |-> [E |-> "1"]]

MCRequests ==
    {Req(u, "GET", {"lit"}, {}) : u \in Urls}
    \cup {Req(CHOOSE u \in Urls : u.host = <<"x">>, "POST", b, {1, 2}) : b \in {{}, {"lit"}}}
    \cup {Req(Url("", <<"x">>, <<>>, NoQuery), "GET", {}, {}),
          [Req([Url("http", <<"1", "x">>, <<"api">>, NoQuery) EXCEPT !.port = Number(443)],
               "GET", {}, {}) EXCEPT !.server = "1.x"]}

MCResponses == {[status |-> "200", headers |-> {"r"}], [status |-> "404", headers |-> {}]}

(* Matchers. *)
Matcher(sigil, text) == [bangs |-> 0, sigil |-> sigil, text |-> text]
Glob(host) == Matcher("", Url("", host, <<>>, NoQuery))
Anywhere == Glob(<<"*">>)
Lit(w) == [k |-> "lit", words |-> <<w>>]
Regex(re, flags) == Matcher("/", [closed |-> TRUE, flags |-> flags, engine |-> "linear", re |-> re])
Not1(m) == [m EXCEPT !.bangs = 1]

Matchers == {
    Anywhere, Glob(<<"**">>), Glob(<<"x">>), Glob(<<"*", "x">>), Glob(<<"**", "x">>),
    Glob(<<"*", "a", "x">>), Glob(<<"a", "*">>), Glob(<<"", "x">>),
    [Glob(<<"*">>) EXCEPT !.text.path = <<"api">>],
    [Glob(<<"*">>) EXCEPT !.text.path = <<"api", "**">>, !.text.scheme = "https"],
    [Glob(<<"**", "x">>) EXCEPT !.text.query = <<"*">>],
    [Glob(<<"x">>) EXCEPT !.text.port = Number(80)],
    [Glob(<<"**", "x">>) EXCEPT !.text.port = [k |-> "stars", ports |-> {443, 8443}]],
    Matcher(":", Number(443)),
    Not1(Glob(<<"**", "x">>)),
    Matcher("=", Url("http", <<"x">>, <<>>, NoQuery)),
    Matcher("=", Url("http", <<"b", "a", "x">>, <<"docs">>, NoQuery)),
    Regex(Lit("api"), {}), Regex(Lit("api"), {"i"}), Regex(Lit("a"), {}),
    Regex([k |-> "alt", l |-> Lit("docs"), r |-> Lit("api")], {}),
    Regex([k |-> "cat", l |-> [k |-> "opt", l |-> Lit("docs")], r |-> Lit("api")], {}),
    Regex([k |-> "plus", l |-> Lit("docs")], {})}

\* One matcher for every way to be refused.
WrongMatchers == {
    [Anywhere EXCEPT !.bangs = 4],
    [Anywhere EXCEPT !.text.scheme = IllFormed],
    Glob(<<>>), Glob(<<"x", IllFormed>>),
    [Glob(<<"x">>) EXCEPT !.text.query = <<IllFormed>>],
    [Glob(<<"x">>) EXCEPT !.text.form = "colons"],
    [Glob(<<"x">>) EXCEPT !.text.port = [k |-> "junk"]],
    [Glob(<<"x">>) EXCEPT !.text.port = Number(0)],
    Matcher("=", Url("", <<"x">>, <<>>, NoQuery)),
    Matcher("=", [Url("http", <<"x">>, <<>>, NoQuery) EXCEPT !.fragment = TRUE]),
    Matcher("=", [Url("http", <<"x">>, <<>>, NoQuery) EXCEPT !.user = TRUE]),
    Matcher("=", [Url("http", <<"x">>, <<>>, NoQuery) EXCEPT !.form = "bad v6"]),
    Matcher("=", [Url("http", <<"x">>, <<>>, NoQuery) EXCEPT !.port = [k |-> "stars", ports |-> {80}]]),
    Matcher("=", Url("http", <<"x">>, <<IllFormed>>, NoQuery)),
    Matcher("/", [Regex(Lit("a"), {}).text EXCEPT !.closed = FALSE]),
    Regex(Lit("a"), {"i", "x"}),
    Matcher("/", [Regex(Lit("a"), {}).text EXCEPT !.engine = "neither"]),
    Matcher(":", Number(65536))}

(* Conditions. *)
Body == [k |-> "body", literal |-> <<"lit", "lower">>]
UpperBody == [k |-> "body", literal |-> <<"lit", "UPPER">>]
Method(s) == [k |-> "method", set |-> s]
Status(s) == [k |-> "status", set |-> s]
Not(c) == [k |-> "not", inner |-> c]
Any2(a, b) == [k |-> "any", list |-> <<a, b>>]
All2(a, b) == [k |-> "all", list |-> <<a, b>>]
Chance(p) == [k |-> "chance", permille |-> p]
ClientIp == [k |-> "client.ip", set |-> {"*"}]
Env(v) == [k |-> "env", name |-> "E", value |-> v]

Conditions == {
    Body, Method({"GET"}), Status({"200"}), [k |-> "res.header", name |-> "r"],
    [k |-> "header", name |-> "h"], Not([k |-> "header", name |-> "h"]),
    Not(Body), Not(Status({"200"})), Not(All2(Body, Status({"200"}))), Not(Any2(Body, Method({"GET"}))),
    Any2(Body, Method({"GET"})), All2(UpperBody, Not(Body)), UpperBody, Any2(Status({"200"}), Method({"GET"})), All2(Body, Method({"POST"})),
    Any2(Status({"200"}), [k |-> "res.header", name |-> "r"]),
    All2(Method({"GET"}), Not(Method({"GET", "PUT"}))), All2(Status({"200"}), Status({"404"})),
    Chance(0), Chance(500), Not(Chance(1000)), Any2(Chance(0), Method({"POST"})),
    Env("present"), All2(Env("1"), Not(Env("present"))), All2(Env("1"), Env("2")), Not(Env("2")),
    [k |-> "host", pattern |-> <<"*", "x">>], [k |-> "client.ip", set |-> {"*"}],
    [k |-> "server.ip", set |-> {"*"}],
    [k |-> "url", pattern |-> <<"http", "**">>]}

(* Tokens. *)
Act(fam) == [fam |-> fam, ops |-> <<>>, fams |-> {}, status |-> "none"]
A(fam) == [t |-> "action", name |-> fam, args |-> "good", value |-> "v", slash |-> "none",
           action |-> Act(fam), skips |-> {}]
Del(ops) == [A(<<"delete">>) EXCEPT !.action.ops = ops]
Skip(prefixes) == [A(<<"skip">>) EXCEPT !.skips = prefixes]
ResStatus(status) == [A(<<"res", "status">>) EXCEPT !.action.status = status]
ConditionName(k) ==
    CASE k = "client.ip" -> <<"client", "ip">>
      [] k = "server.ip" -> <<"server", "ip">>
      [] k = "res.header" -> <<"res", "header">>
      [] OTHER -> <<k>>
RECURSIVE Text(_)
Text(c) ==
    [bangs |-> 0, name |-> ConditionName(c.k), good |-> TRUE,
     args |-> IF c.k \in {"any", "all"} THEN [i \in DOMAIN c.list |-> Text(c.list[i])]
              ELSE IF c.k = "not" THEN <<Text(c.inner)>> ELSE <<>>,
     leaf |-> IF c.k \in {"any", "all", "not"} THEN Bad ELSE c]
When(c) == [t |-> "when", text |-> Text(c)]
Prop(word, rest) == [t |-> "property", word |-> word, rest |-> rest]
R(m, tokens) == [k |-> "rule", matcher |-> m, tokens |-> tokens]

Host == A(<<"host">>)
ReqHeader == A(<<"req", "header">>)

ActionLists == {
    <<Host>>, <<Host, Host>>, <<ReqHeader, Host>>, <<A(<<"req", "body", "set">>), ReqHeader>>,
    <<Del(<<"reqBody", "resHeaders">>)>>, <<Del(<<"reqBody">>), A(<<"tag">>)>>,
    <<Skip({<<"host">>}), Host, ReqHeader>>, <<Skip({}), Host>>, <<Skip({<<"req">>}), Host, ReqHeader>>,
    <<ResStatus("200"), ReqHeader>>, <<Host, Prop("@important", "")>>, <<Host, Prop("@disabled", "")>>,
    <<A(<<"mock">>), A(<<"redirect">>), A(<<"res", "header">>)>>, <<A(<<"direct">>), A(<<"upstream">>)>>,
    <<ResStatus("204"), A(<<"res", "body", "set">>), A(<<"tag">>)>>}

ByMatcher == {R(m, <<Host>>) : m \in Matchers}
ByCondition == {R(Anywhere, <<Host, ReqHeader, When(c)>>) : c \in Conditions}
ByAction == {R(Anywhere, acts) : acts \in ActionLists}

\* Lines for the parser: every way to go wrong.
WrongRules == {R(m, <<Host>>) : m \in WrongMatchers} \cup {
    R(Anywhere, <<>>), R(Anywhere, <<Prop("@tag:", "")>>), R(Anywhere, <<Host, Prop("@important", "x")>>),
    R(Anywhere, <<[Host EXCEPT !.args = "bad"], When(Body)>>),
    R(Anywhere, <<Host, [When(Body) EXCEPT !.text.name = <<"bodies">>]>>),
    R(Anywhere, <<Host, [When(Body) EXCEPT !.text.bangs = 4]>>),
    R(Anywhere, <<Host, When(Not(Not(Not(Body))))>>),
    R(Anywhere, <<Host, [When(Any2(Body, Body)) EXCEPT !.text.args[2].good = FALSE]>>),
    R(Anywhere, <<Host, [When(Any2(Body, ClientIp)) EXCEPT !.text.args[2].name = <<"ip">>]>>),
    R(Anywhere, <<Host, [When(Any2(Body, Body)) EXCEPT !.text.args = <<>>]>>),
    R(Anywhere, <<Host, [When(Not(Body)) EXCEPT !.text.args = <<Text(Body), Text(Body)>>]>>),
    R(Anywhere, <<Skip({<<"nothing">>})>>)}
AliasRule == R(Anywhere, <<[A(<<"mock">>) EXCEPT !.name = <<"mock-raw">>],
                           [When(ClientIp) EXCEPT !.text.name = <<"ip">>]>>)

\* Lines to migrate: aliases in nested conditions, and words that hold a call where the
\* migration looks for one and where it does not.
MCCallWords == "ip(1)" :> "client.ip(1)"
Aliased(c) == [When(Not(c)) EXCEPT !.text.args[1].args[1].name = <<"ip">>]
MapRemote(slash) == [A(<<"map", "remote">>) EXCEPT !.name = <<"mapRemote">>, !.slash = slash]
MigratedRules == {
    R(Anywhere, <<Host, Aliased(Any2(ClientIp, Body))>>),
    R(Anywhere, <<Host, [When(ClientIp) EXCEPT !.text.name = <<"ip">>, !.text.bangs = 3]>>),
    R(Regex(Lit("ip(1)"), {}), <<MapRemote("closes")>>),
    R(Regex(Lit("ip(1)"), {"i"}), <<MapRemote("none")>>),
    R(Regex(Lit("api"), {"i"}), <<MapRemote("none")>>),
    R(Regex([k |-> "cat", l |-> Lit("api"), r |-> [k |-> "opt", l |-> Lit("ip(1)")]], {"i"}),
      <<Host, MapRemote("closes"), MapRemote("none")>>),
    R(Anywhere, <<MapRemote("opens"), MapRemote("closes"), MapRemote("none")>>),
    R(Anywhere, <<MapRemote("opens"), When([k |-> "url", pattern |-> <<"http", "ip(1)">>])>>),
    R([Anywhere EXCEPT !.text.path = <<"ip(1)">>], <<Host>>),
    R(Anywhere, <<[Host EXCEPT !.value = "ip(1)"], Prop("@tag:", "ip(1)")>>),
    R(Anywhere, <<Host, When([k |-> "body", literal |-> <<"ip(1)", "lower">>])>>)}
BigRule == R(Anywhere, <<Host, ReqHeader, When(Body), When(Not(Body)), Prop("@tag:", "name")>>)
Good == R(Anywhere, <<Host>>)
Comment == [k |-> "comment"]
Long == [k |-> "long"]
WrongHeader == [k |-> "language", good |-> FALSE]

Group(lines) == [named |-> TRUE, bytes |-> Len(lines), lines |-> lines]

Pairs == (ByMatcher \X ByMatcher) \cup (ByCondition \X ByAction) \cup (ByAction \X ByAction)
Lines == {Header, WrongHeader, Comment, Long, Good, AliasRule, BigRule,
          R(Anywhere, <<[Host EXCEPT !.args = "bad"], When(Body)>>)}

MCSources ==
    {<<Group(<<Header, p[1], p[2]>>)>> : p \in Pairs}
    \cup {<<Group(<<a, b, c>>)>> : a, b, c \in Lines}
    \cup {<<Group(<<h, r>>)>> : h \in {Header, Comment}, r \in WrongRules \cup MigratedRules}
    \cup {<<Group(<<a>>), Group(<<b, c>>)>> : a, b, c \in {Header, WrongHeader, Comment, AliasRule, BigRule}}
    \cup {<<[Group(<<Good>>) EXCEPT !.named = FALSE], Group(<<Long, Good>>), Group(<<Good>>)>>,
          <<Group(<<>>), Group(<<Comment>>), Group(<<Good>>)>>,
          <<[Group(<<Good>>) EXCEPT !.bytes = 9]>>}

=============================================================================
