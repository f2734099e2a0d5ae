---------------------------- MODULE RuleLanguage ----------------------------
(***************************************************************************)
(* What a compiled rule snapshot answers, as pure operators: the action    *)
(* families and their policies, the matchers and conditions, the candidate *)
(* index with its literal prefilter, the resolver, the request-body plan   *)
(* and the two lints.                                                      *)
(*                                                                         *)
(* Texts are split at their separator: a host is the sequence of its       *)
(* labels, a path that of its segments, a query that of its parameters     *)
(* (an empty text is <<"">>), and a glob is the same sequence with the     *)
(* components "*" (one component) and "**" (one or more).  A regex is a    *)
(* small syntax tree over the words of the raw URL.                        *)
(***************************************************************************)
EXTENDS Integers, SequencesExt, FiniteSetsExt

(***************************************************************************)
(* Action families.                                                        *)
(***************************************************************************)
\* A family is the sequence of the parts of its dotted name.
StackableFamilies == {
    <<"req", "header">>, <<"res", "header">>, <<"req", "cookie">>, <<"res", "cookie">>,
    <<"res", "merge">>, <<"res", "trailer">>, <<"url", "query">>, <<"delete">>,
    <<"req", "body", "set">>, <<"req", "body", "prepend">>, <<"req", "body", "append">>,
    <<"req", "body", "replace">>, <<"res", "body", "set">>, <<"res", "body", "prepend">>,
    <<"res", "body", "append">>, <<"res", "body", "replace">>, <<"inject">>, <<"tag">>, <<"skip">>}

SingleFamilies == {
    <<"host">>, <<"upstream">>, <<"direct">>, <<"mock">>, <<"map", "remote">>, <<"status">>,
    <<"redirect">>, <<"res", "status">>, <<"req", "method">>, <<"req", "ua">>,
    <<"req", "referer">>, <<"req", "auth">>, <<"req", "forwarded">>, <<"req", "type">>,
    <<"req", "charset">>, <<"res", "cors">>, <<"res", "type">>, <<"res", "charset">>,
    <<"attachment">>, <<"cache">>, <<"tls">>, <<"url", "rewrite">>, <<"delay", "req">>,
    <<"delay", "res">>, <<"throttle", "req">>, <<"throttle", "res">>, <<"bypass">>, <<"hide">>}

ActionFamily == StackableFamilies \cup SingleFamilies

is_single(action) == action.fam \in SingleFamilies

\* The phases of a family: the response families, those of both, and the rest.
phases(fam) ==
    IF fam \in {<<"delete">>, <<"hide">>, <<"tag">>, <<"skip">>} THEN {"req", "res"}
    ELSE IF \/ fam[1] = "res"
            \/ fam \in {<<"attachment">>, <<"cache">>, <<"inject">>,
                        <<"delay", "res">>, <<"throttle", "res">>}
         THEN {"res"}
    ELSE {"req"}

\* A delete action is placed by its operations, whose names begin with the message they edit.
RequestDeletes == {"pathname", "urlParams", "reqHeaders", "reqBody", "reqBodyPath", "reqCookies"}
RequestBodyDeletes == {"reqBody", "reqBodyPath"}

applies_in(action, phase) ==
    IF action.fam = <<"delete">>
    THEN \E op \in ToSet(action.ops) : (phase = "req") <=> (op \in RequestDeletes)
    ELSE phase \in phases(action.fam)

\* skip(p): every family that is p or nested under it; skip() stands for all of them.
from_prefix(prefix) ==
    IF prefix = <<"all">> THEN ActionFamily ELSE {f \in ActionFamily : IsPrefix(prefix, f)}

observe(skip, action) ==
    IF action.fam # <<"skip">> THEN skip
    ELSE IF action.fams = {} THEN ActionFamily ELSE skip \cup action.fams

\* The positions of a rule's actions that its own earlier skips leave alone.
RECURSIVE EffectiveFrom(_, _, _)
EffectiveFrom(actions, i, skip) ==
    IF i > Len(actions) THEN {}
    ELSE IF actions[i].fam \in skip THEN EffectiveFrom(actions, i + 1, skip)
    ELSE {i} \cup EffectiveFrom(actions, i + 1, observe(skip, actions[i]))

effective_actions(rule) == EffectiveFrom(rule.actions, 1, {})

(***************************************************************************)
(* Matchers.                                                               *)
(***************************************************************************)
NoQuery == <<"no query">>

effective_port(url) ==
    IF url.port # 0 THEN url.port
    ELSE IF url.scheme \in {"http", "ws"} THEN 80
    ELSE IF url.scheme \in {"https", "wss"} THEN 443 ELSE 0

QueryText(url) == IF url.query = NoQuery THEN <<"">> ELSE url.query

glob_syntax_is_active(pattern) == \E i \in DOMAIN pattern : pattern[i] \in {"*", "**"}

\* A compiled glob is anchored at both ends.
RECURSIVE glob_match(_, _)
glob_match(pattern, text) ==
    IF pattern = <<>> THEN text = <<>>
    ELSE /\ text # <<>>
         /\ \/ /\ Head(pattern) \in {"*", Head(text)}
               /\ glob_match(Tail(pattern), Tail(text))
            \/ /\ Head(pattern) = "**"
               /\ \E n \in 1 .. Len(text) :
                      glob_match(Tail(pattern), SubSeq(text, n + 1, Len(text)))

\* The labels before a dotted suffix, or <<"none">>.
dotted_suffix_prefix(host, base) ==
    IF Len(host) > Len(base) /\ IsSuffix(base, host)
    THEN SubSeq(host, 1, Len(host) - Len(base)) ELSE <<"none">>

host_matches(pattern, host) ==
    IF pattern \in {<<"*">>, <<"**">>} THEN TRUE
    ELSE IF Head(pattern) = "**"
         THEN host = Tail(pattern) \/ dotted_suffix_prefix(host, Tail(pattern)) # <<"none">>
    ELSE IF Head(pattern) = "*"
         THEN LET prefix == dotted_suffix_prefix(host, Tail(pattern))
              IN prefix # <<"none">> /\ Len(prefix) = 1
    ELSE IF glob_syntax_is_active(pattern) THEN glob_match(pattern, host)
    ELSE pattern = host

path_prefix_matches(pattern, path) ==
    \/ pattern = <<"">>
    \/ IsPrefix(pattern, path)
    \/ Last(pattern) = "" /\ Len(path) >= Len(pattern) /\ IsPrefix(Front(pattern), path)

exact_url_matches(expected, url) ==
    /\ expected.scheme = url.scheme
    /\ expected.host = url.host
    /\ effective_port(expected) = effective_port(url)
    /\ expected.path = url.path
    /\ expected.query \in {NoQuery, url.query}

\* <<>> stands for a part the glob leaves out; a port pattern is the set of ports it accepts.
GlobMatches(glob, url) ==
    /\ glob.scheme \in {"", url.scheme}
    /\ host_matches(glob.host, url.host)
    /\ glob.port = {} \/ effective_port(url) \in glob.port
    /\ \/ glob.path = <<>>
       \/ IF glob_syntax_is_active(glob.path) THEN glob_match(glob.path, url.path)
                                              ELSE path_prefix_matches(glob.path, url.path)
    /\ glob.query = <<>> \/ glob_match(glob.query, QueryText(url))

\* The raw URL as the words a regex sees.
Words(url) ==
    <<url.scheme>> \o url.host \o url.path \o (IF url.query = NoQuery THEN <<>> ELSE url.query)

Concat(as, bs) == {p[1] \o p[2] : p \in as \X bs}

\* The word sequences a regex matches (a repetition is cut at two rounds).
RECURSIVE Language(_)
Language(re) ==
    CASE re.k = "lit" -> {re.words}
      [] re.k = "cat" -> Concat(Language(re.l), Language(re.r))
      [] re.k = "alt" -> Language(re.l) \cup Language(re.r)
      [] re.k = "opt" -> Language(re.l) \cup {<<>>}
      [] re.k = "plus" -> Language(re.l) \cup Concat(Language(re.l), Language(re.l))

Occurs(part, text) ==
    \E i \in 0 .. Len(text) - Len(part) : SubSeq(text, i + 1, i + Len(part)) = part

RegexMatches(re, url) == \E s \in Language(re) : Occurs(s, Words(url))

RECURSIVE MatcherMatches(_, _)
MatcherMatches(m, url) ==
    CASE m.k = "exact" -> exact_url_matches(m.url, url)
      [] m.k = "glob" -> GlobMatches(m, url)
      [] m.k = "port" -> effective_port(url) = m.port
      [] m.k = "regex" -> RegexMatches(m.re, url)
      [] m.k = "not" -> ~MatcherMatches(m.inner, url)

(***************************************************************************)
(* Conditions.  A request is [url, method, headers, ip, server, body,      *)
(* lucky, env]: the body is the set of literals found in it, lucky the     *)
(* lines for which the hash of the request falls below a chance strictly   *)
(* between 0 and 1.  A literal is <<its lower-case text, its spelling>>.   *)
(***************************************************************************)
NoResponse == [status |-> "none", headers |-> {}]

RECURSIVE depends_on_request_body(_)
depends_on_request_body(c) ==
    CASE c.k = "body" -> TRUE
      [] c.k \in {"any", "all"} -> \E i \in DOMAIN c.list : depends_on_request_body(c.list[i])
      [] c.k = "not" -> depends_on_request_body(c.inner)
      [] OTHER -> FALSE

RECURSIVE depends_on_response(_)
depends_on_response(c) ==
    CASE c.k \in {"res.header", "status"} -> TRUE
      [] c.k \in {"any", "all"} -> \E i \in DOMAIN c.list : depends_on_response(c.list[i])
      [] c.k = "not" -> depends_on_response(c.inner)
      [] OTHER -> FALSE

chance(req, line, permille) ==
    permille >= 1000 \/ (permille > 0 /\ line \in req.lucky)

RECURSIVE ConditionMatches(_, _, _, _)
ConditionMatches(c, req, res, line) ==
    CASE c.k = "method" -> req.method \in c.set
      [] c.k = "host" -> host_matches(c.pattern, req.url.host)
      [] c.k = "url" -> glob_match(c.pattern, Words(req.url))
      [] c.k = "client.ip" -> c.set \cap {"*", req.ip} # {}
      [] c.k = "server.ip" -> req.server # "none" /\ c.set \cap {"*", req.server} # {}
      [] c.k = "header" -> c.name \in req.headers
      [] c.k = "res.header" -> res # NoResponse /\ c.name \in res.headers
      [] c.k = "body" -> c.literal \in req.body
      [] c.k = "status" -> res # NoResponse /\ res.status \in c.set
      [] c.k = "chance" -> chance(req, line, c.permille)
      [] c.k = "env" -> c.name \in DOMAIN req.env /\ c.value \in {"present", req.env[c.name]}
      [] c.k = "any" -> \E i \in DOMAIN c.list : ConditionMatches(c.list[i], req, res, line)
      [] c.k = "all" -> \A i \in DOMAIN c.list : ConditionMatches(c.list[i], req, res, line)
      [] c.k = "not" -> /\ ~(res = NoResponse /\ depends_on_response(c.inner))
                        /\ ~ConditionMatches(c.inner, req, res, line)

\* Mutant: a negation is judged by the empty body instead of being left open.
RECURSIVE MayMatchJudgesNegation(_, _, _)
MayMatchJudgesNegation(c, req, line) ==
    CASE c.k \in {"body", "res.header", "status"} -> TRUE
      [] c.k = "any" -> \E i \in DOMAIN c.list : MayMatchJudgesNegation(c.list[i], req, line)
      [] c.k = "all" -> \A i \in DOMAIN c.list : MayMatchJudgesNegation(c.list[i], req, line)
      [] c.k = "not" -> ~MayMatchJudgesNegation(c.inner, req, line)
      [] OTHER -> ConditionMatches(c, req, NoResponse, line)

\* Could the condition still hold once the body and the response are known?
RECURSIVE may_match_before_request_body(_, _, _)
may_match_before_request_body(c, req, line) ==
    CASE c.k \in {"body", "res.header", "status"} -> TRUE
      [] c.k = "any" ->
             \E i \in DOMAIN c.list : may_match_before_request_body(c.list[i], req, line)
      [] c.k = "all" ->
             \A i \in DOMAIN c.list : may_match_before_request_body(c.list[i], req, line)
      [] c.k = "not" /\ (depends_on_request_body(c.inner) \/ depends_on_response(c.inner)) -> TRUE
      [] OTHER -> ConditionMatches(c, req, NoResponse, line)

(***************************************************************************)
(* The candidate index.                                                    *)
(***************************************************************************)
CONSTANT WordLen    \* a word's length in bytes, for the prefilter

LiteralLen(words) == FoldLeft(LAMBDA n, w : n + WordLen[w], 0, words)

\* Mutant: the left branch of an alternation is taken for required.
RECURSIVE LongestOfEither(_)
LongestOfEither(re) ==
    CASE re.k = "lit" -> re.words
      [] re.k = "cat" -> LET l == LongestOfEither(re.l)
                             r == LongestOfEither(re.r)
                         IN IF LiteralLen(l) > LiteralLen(r) THEN l ELSE r
      [] re.k \in {"plus", "alt"} -> LongestOfEither(re.l)
      [] OTHER -> <<>>

\* The longest literal every match must contain, or <<>>.
RECURSIVE longest_required(_)
longest_required(re) ==
    CASE re.k = "lit" -> re.words
      [] re.k = "cat" -> LET l == longest_required(re.l)
                             r == longest_required(re.r)
                         IN IF LiteralLen(l) > LiteralLen(r) THEN l ELSE r
      [] re.k = "plus" -> longest_required(re.l)
      [] OTHER -> <<>>

required_regex_literal(m) ==
    IF m.nocase \/ LiteralLen(longest_required(m.re)) < 3 THEN <<>> ELSE longest_required(m.re)

is_plain_domain(pattern) == pattern # <<>> /\ ~glob_syntax_is_active(pattern)

glob_index_key(glob) ==
    IF glob.host = <<"*">> THEN [k |-> "global"]
    ELSE IF Head(glob.host) \in {"**", "*", ""} /\ Len(glob.host) > 1
         THEN IF is_plain_domain(Tail(glob.host))
              THEN [k |-> "suffix", host |-> Tail(glob.host)] ELSE [k |-> "global"]
    ELSE IF is_plain_domain(glob.host)
         THEN [k |-> "exact", host |-> glob.host] ELSE [k |-> "global"]

matcher_index_key(m) ==
    CASE m.k = "exact" -> [k |-> "exact", host |-> m.url.host]
      [] m.k = "glob" -> glob_index_key(m)
      [] m.k = "regex" /\ required_regex_literal(m) # <<>> ->
             [k |-> "literal", words |-> required_regex_literal(m)]
      [] OTHER -> [k |-> "global"]

RECURSIVE BodyLiterals(_)
BodyLiterals(c) ==
    CASE c.k = "body" -> {c.literal}
      [] c.k \in {"any", "all"} -> UNION {BodyLiterals(c.list[i]) : i \in DOMAIN c.list}
      [] c.k = "not" -> BodyLiterals(c.inner)
      [] OTHER -> {}

collect_body_literals(rules) ==
    UNION {BodyLiterals(c) : c \in UNION {ToSet(rules[i].conditions) : i \in DOMAIN rules}}

\* Spellings that differ in case share one automaton entry, whose place is their id.
from_literals(sources) ==
    LET literals == SetToSeq({l[1] : l \in sources})
    IN [literals |-> literals,
        literal_ids |-> [l \in sources |-> CHOOSE id \in DOMAIN literals : literals[id] = l[1]]]

\* One pass over the body finds the ids of all the snapshot's literals.
scan(set, body) == {id \in DOMAIN set.literals : set.literals[id] \in body}

\* What the conditions may ask for: the literals whose id the pass has found.
body_contains(set, body) ==
    {l \in DOMAIN set.literal_ids : set.literal_ids[l] \in scan(set, body)}

RuleIndexBuild(rules) ==
    [keys |-> [i \in DOMAIN rules |-> matcher_index_key(rules[i].matcher)],
     bodies |-> from_literals(collect_body_literals(rules))]

host_suffixes(host) == {SubSeq(host, n, Len(host)) : n \in DOMAIN host}

prefilter_matches(index, url) ==
    {i \in DOMAIN index.keys : index.keys[i].k = "literal" /\ Occurs(index.keys[i].words, Words(url))}

candidate_rule_indices(index, url) ==
    {i \in DOMAIN index.keys : LET key == index.keys[i] IN
        \/ key.k = "exact" /\ key.host = url.host
        \/ key.k = "suffix" /\ key.host \in host_suffixes(url.host)
        \/ key.k = "global"} \cup prefilter_matches(index, url)

(***************************************************************************)
(* The resolver.                                                           *)
(***************************************************************************)
\* Candidates in resolution order: important rules first, then source order.
Ordered(rules, indices) ==
    SetToSortSeq(indices, LAMBDA i, j :
        IF rules[i].important # rules[j].important THEN rules[i].important ELSE i < j)

\* An action without its request-body work; delete(...) keeps its other operations.
action_for_body_availability(action, bodyAvailable) ==
    IF bodyAvailable THEN {action}
    ELSE IF action.fam[1] = "req" /\ Len(action.fam) = 3 THEN {}
    ELSE IF action.fam # <<"delete">> THEN {action}
    ELSE LET ops == SelectSeq(action.ops, LAMBDA op : op \notin RequestBodyDeletes)
         IN IF ops = <<>> THEN {} ELSE {[action EXCEPT !.ops = ops]}

RuleMatches(rule, req, res, bodyAvailable) ==
    /\ ~rule.disabled
    /\ MatcherMatches(rule.matcher, req.url)
    /\ bodyAvailable \/ ~\E c \in ToSet(rule.conditions) : depends_on_request_body(c)
    /\ \A c \in ToSet(rule.conditions) : ConditionMatches(c, req, res, rule.line)

\* One action of a matching rule: dropped, or appended with what it claims and skips.
TakeAction(acc, i, action) ==
    IF \/ action.fam \in acc.skip
       \/ is_single(action) /\ action.fam \in acc.single
    THEN acc
    ELSE [skip |-> observe(acc.skip, action),
          single |-> acc.single \cup (IF is_single(action) THEN {action.fam} ELSE {}),
          out |-> Append(acc.out, [rule |-> i, action |-> action])]

\* The candidate actions of the matching rules, in resolution order.
ActionsOf(rules, order, req, res, bodyAvailable) ==
    FlattenSeq([n \in DOMAIN order |->
        LET rule == rules[order[n]] IN
        IF ~RuleMatches(rule, req, res, bodyAvailable) THEN <<>>
        ELSE FlattenSeq([a \in DOMAIN rule.actions |->
                 SetToSeq({[rule |-> order[n], action |-> act] :
                     act \in action_for_body_availability(rule.actions[a], bodyAvailable)})])])

ResolveOver(rules, order, req, res, bodyAvailable) ==
    FoldLeft(LAMBDA acc, item : TakeAction(acc, item.rule, item.action),
            [skip |-> {}, single |-> {}, out |-> <<>>],
            ActionsOf(rules, order, req, res, bodyAvailable)).out

resolve_inner(rules, index, req, res, bodyAvailable) ==
    IF ~req.url.valid THEN <<>>
    ELSE ResolveOver(rules, Ordered(rules, candidate_rule_indices(index, req.url)),
                     [req EXCEPT !.body = body_contains(index.bodies, @)], res, bodyAvailable)

action_requires_request_body(action) == action_for_body_availability(action, FALSE) # {action}

\* Asked before the body is read: does a rule that may still match need it?
request_body_required(rules, index, req) ==
    req.url.valid /\ \E i \in candidate_rule_indices(index, req.url) :
        /\ ~rules[i].disabled
        /\ MatcherMatches(rules[i].matcher, req.url)
        /\ \A c \in ToSet(rules[i].conditions) :
               may_match_before_request_body(c, [req EXCEPT !.body = {}], rules[i].line)
        /\ \/ \E c \in ToSet(rules[i].conditions) : depends_on_request_body(c)
           \/ \E a \in ToSet(rules[i].actions) : action_requires_request_body(a)

(***************************************************************************)
(* The shadow lint: a later rule never wins a single-action family that an *)
(* earlier unconditional rule with a broader matcher claims.               *)
(***************************************************************************)
single_families(rule) ==
    {rule.actions[a].fam : a \in {b \in effective_actions(rule) : is_single(rule.actions[b])}}

\* Mutant: a one-label wildcard is taken to cover deeper hosts.
HostSubsumesDeeper(a, b) ==
    IF a = b \/ a \in {<<"*">>, <<"**">>} THEN TRUE
    ELSE IF ~glob_syntax_is_active(b) THEN host_matches(a, b)
    ELSE /\ Head(a) \in {"*", "**"} /\ Len(a) > 1
         /\ Head(b) \in {"*", "**"} /\ Len(b) > 1
         /\ ~glob_syntax_is_active(Tail(b))
         /\ \/ Tail(b) = Tail(a)
            \/ dotted_suffix_prefix(Tail(b), Tail(a)) # <<"none">>

host_pattern_subsumes(a, b) ==
    IF a = b \/ a \in {<<"*">>, <<"**">>} THEN TRUE
    ELSE IF ~glob_syntax_is_active(b) THEN host_matches(a, b)
    ELSE /\ Head(a) = "**" /\ Len(a) > 1
         /\ Head(b) \in {"*", "**"} /\ Len(b) > 1
         /\ ~glob_syntax_is_active(Tail(b))
         /\ \/ Tail(b) = Tail(a)
            \/ dotted_suffix_prefix(Tail(b), Tail(a)) # <<"none">>

glob_subsumes(a, b) ==
    /\ a.scheme \in {"", b.scheme}
    /\ host_pattern_subsumes(a.host, b.host)
    /\ a.port \in {{}, b.port}
    /\ a.path \in {<<>>, b.path}
    /\ a.query \in {<<>>, b.query}

matcher_subsumes(a, b) ==
    \/ a.k = "glob" /\ b.k = "glob" /\ glob_subsumes(a, b)
    \/ a.k = "glob" /\ b.k = "exact" /\ GlobMatches(a, b.url)
    \/ a.k = "exact" /\ b.k = "exact" /\ a.url = b.url

\* Each family is reported for the first rule that claims it.
lint_report(rules) ==
    LET order == Ordered(rules, {i \in DOMAIN rules : ~rules[i].disabled})
        Claims(e, l, fam) ==
            /\ rules[order[e]].conditions = <<>>
            /\ fam \in single_families(rules[order[e]])
            /\ matcher_subsumes(rules[order[e]].matcher, rules[order[l]].matcher)
        First(l, fam) == {e \in 1 .. l - 1 : Claims(e, l, fam) /\ ~\E d \in 1 .. e - 1 : Claims(d, l, fam)}
    IN UNION {UNION {{[rule |-> order[l], by |-> order[e], fam |-> fam] : e \in First(l, fam)} :
                 fam \in single_families(rules[order[l]])} : l \in DOMAIN order}

(***************************************************************************)
(* The semantic lint: what cannot happen within one rule.                  *)
(***************************************************************************)
duplicate_single_families(rule) ==
    LET eff == effective_actions(rule) IN
    {rule.actions[a].fam : a \in {b \in eff :
        is_single(rule.actions[b]) /\ \E c \in eff : c < b /\ rule.actions[c].fam = rule.actions[b].fam}}

actions_after_skip(rule) ==
    {a \in DOMAIN rule.actions : a \notin effective_actions(rule)}

RECURSIVE condition_requires_response(_)
condition_requires_response(c) ==
    CASE c.k \in {"res.header", "status"} -> TRUE
      [] c.k = "all" -> \E i \in DOMAIN c.list : condition_requires_response(c.list[i])
      [] c.k = "any" -> \A i \in DOMAIN c.list : condition_requires_response(c.list[i])
      [] c.k = "not" -> depends_on_response(c.inner)
      [] OTHER -> FALSE

request_actions_requiring_response(rule) ==
    IF ~\E c \in ToSet(rule.conditions) : condition_requires_response(c) THEN {}
    ELSE {rule.actions[a].fam : a \in {b \in effective_actions(rule) :
             applies_in(rule.actions[b], "req") /\ ~applies_in(rule.actions[b], "res")}}

RECURSIVE constant_truth(_)
constant_truth(c) ==
    LET Of(v) == \E i \in DOMAIN c.list : constant_truth(c.list[i]) = v IN
    CASE c.k = "chance" -> IF c.permille = 0 THEN "false"
                           ELSE IF c.permille = 1000 THEN "true" ELSE "unknown"
      [] c.k = "any" -> IF Of("true") THEN "true" ELSE IF Of("unknown") THEN "unknown" ELSE "false"
      [] c.k = "all" -> IF Of("false") THEN "false" ELSE IF Of("unknown") THEN "unknown" ELSE "true"
      [] c.k = "not" -> LET inner == constant_truth(c.inner)
                        IN IF inner = "true" THEN "false"
                           ELSE IF inner = "false" THEN "true" ELSE "unknown"
      [] OTHER -> "unknown"

RECURSIVE flatten_conjunction(_)
flatten_conjunction(c) ==
    IF c.k = "all" THEN UNION {flatten_conjunction(c.list[i]) : i \in DOMAIN c.list} ELSE {c}

\* The values every positive constraint of a kind allows, minus the forbidden ones, are none.
constraints_are_empty(conjunction, kind) ==
    LET positive == {c.set : c \in {d \in conjunction : d.k = kind}}
        forbidden == UNION {c.inner.set : c \in {d \in conjunction : d.k = "not" /\ d.inner.k = kind}}
    IN positive # {} /\ (\A v \in UNION positive : (\A s \in positive : v \in s) => v \in forbidden)

environment_contradiction(conjunction) ==
    LET required == {c \in conjunction : c.k = "env"}
        forbidden == {c.inner : c \in {d \in conjunction : d.k = "not" /\ d.inner.k = "env"}}
    IN \/ \E c, d \in required : /\ c.name = d.name /\ c.value # d.value
                                  /\ "present" \notin {c.value, d.value}
       \/ \E c \in required, d \in forbidden :
              c.name = d.name /\ d.value \in {"present", c.value}

unsatisfiable_conditions(rule) ==
    LET conjunction == UNION {flatten_conjunction(c) : c \in ToSet(rule.conditions)} IN
    \/ \E c \in ToSet(rule.conditions) : constant_truth(c) = "false"
    \/ constraints_are_empty(conjunction, "method")
    \/ constraints_are_empty(conjunction, "status")
    \/ environment_contradiction(conjunction)

\* The families that answer the request locally, and those that only edit a response.
LocalFamilies == {<<"status">>, <<"redirect">>, <<"mock">>}

EffectiveFamilies(rule) == {rule.actions[a].fam : a \in effective_actions(rule)}

terminal_families(rule) == LocalFamilies \cap EffectiveFamilies(rule)

response_actions_with_local_response(rule) ==
    IF terminal_families(rule) = {} THEN {}
    ELSE {rule.actions[a].fam : a \in {b \in effective_actions(rule) :
             applies_in(rule.actions[b], "res") /\ ~applies_in(rule.actions[b], "req")}}

BodylessStatuses == {"204", "205", "304"}
ContentFamilies == {<<"res", "body", "set">>, <<"res", "body", "prepend">>, <<"res", "body", "append">>,
                    <<"res", "body", "replace">>, <<"inject">>, <<"res", "merge">>}

body_actions_with_bodyless_status(rule) ==
    IF \E a \in effective_actions(rule) :
          rule.actions[a].fam = <<"res", "status">> /\ rule.actions[a].status \in BodylessStatuses
    THEN ContentFamilies \cap EffectiveFamilies(rule) ELSE {}

\* The findings of one rule, in the order of their kinds.
SemanticFindings(rules, i) ==
    LET rule == rules[i]
        Finding(kind, found, fams) ==
            IF found THEN <<[rule |-> i, kind |-> kind, fams |-> fams]>> ELSE <<>>
        Families(kind, fams) == Finding(kind, fams # {}, fams)
        terminal == terminal_families(rule)
        overridden == {<<"direct">>, <<"upstream">>}
    IN IF rule.disabled THEN <<>>
       ELSE Families("DuplicateSingleFamily", duplicate_single_families(rule))
            \o Finding("UnsatisfiableConditions", unsatisfiable_conditions(rule), {})
            \o Families("RequestActionRequiresResponse", request_actions_requiring_response(rule))
            \o Families("ActionAfterSkip", {rule.actions[a].fam : a \in actions_after_skip(rule)})
            \o Finding("ConflictingTerminalActions", Cardinality(terminal) > 1, terminal)
            \o Families("ResponseActionWithLocalResponse", response_actions_with_local_response(rule))
            \o Finding("UpstreamOverriddenByDirect", overridden \subseteq EffectiveFamilies(rule), overridden)
            \o Families("BodyActionWithBodylessStatus", body_actions_with_bodyless_status(rule))

\* A report is cut at the finding budget, and says so.
semantic_lint_report(rules, maxFindings) ==
    LET all == FlattenSeq([i \in DOMAIN rules |-> SemanticFindings(rules, i)])
    IN [findings |-> SubSeq(all, 1, IF Len(all) > maxFindings THEN maxFindings ELSE Len(all)),
        complete |-> Len(all) <= maxFindings]

=============================================================================
