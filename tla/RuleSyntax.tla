----------------------------- MODULE RuleSyntax -----------------------------
(***************************************************************************)
(* How the texts of the rule language are read: absolute URLs, matchers,   *)
(* and the names of actions, conditions and properties with their aliases. *)
(*                                                                         *)
(* A text keeps the structure its parser looks for.  An address is         *)
(* [scheme, user, host, form, port, path, query, fragment]: the form says  *)
(* how the host is written, the port is a text of its own, a path <<>> and *)
(* a query NoQuery are absent.  A matcher is [bangs, sigil, text].  A name *)
(* is the sequence of its dotted parts.  A condition is [bangs, name, args,*)
(* good, leaf]: args are the conditions it combines, leaf what a simple one*)
(* tests and good whether its arguments can be read.                       *)
(***************************************************************************)
EXTENDS RuleLanguage

CONSTANT MaxParseNesting

Bad == [k |-> "bad"]

\* Stands for any scheme that does not begin with a letter and any pattern that ends in an
\* escape.
IllFormed == "ill-formed"

valid_scheme(scheme) == scheme # IllFormed

(***************************************************************************)
(* Authorities and URLs.                                                   *)
(***************************************************************************)
\* Zero and numbers over 16 bits are no ports.
PortNumber(port) == port.k = "number" /\ port.n \in 1 .. 2^16 - 1

parse_absolute_port(port) == IF PortNumber(port) THEN port.n ELSE -1

\* A host is a name, a bracketed IPv6 address (well written or not), or one of the wrong forms:
\* an open bracket, a bracket elsewhere, a tail after the bracket, IPv6 without brackets.
\* Returns the port, 0 if there is none, -1 if the authority is wrong.
parse_absolute_authority(text) ==
    IF text.form \notin {"name", "blank", "v6"} THEN -1
    ELSE IF text.port.k = "none" THEN 0
    ELSE parse_absolute_port(text.port)

\* The request's URL, and that of an exact matcher.
UrlPartsParse(text) ==
    LET port == parse_absolute_authority(text) IN
    [valid |-> /\ text.scheme # "" /\ valid_scheme(text.scheme)
               /\ ~text.fragment /\ ~text.user
               /\ text.host # <<>> /\ text.form # "blank"
               /\ port >= 0,
     scheme |-> text.scheme, host |-> text.host, port |-> port,
     path |-> IF text.path = <<>> THEN <<"">> ELSE text.path,
     query |-> text.query]

(***************************************************************************)
(* Matchers.                                                               *)
(***************************************************************************)
validate_glob_pattern(pattern) == pattern = <<>> \/ Last(pattern) # IllFormed

\* The ports a pattern stands for: all digits and stars, or one number.
parse_port_pattern(port) ==
    IF port.k = "stars" THEN [k |-> "ok", ports |-> port.ports]
    ELSE IF PortNumber(port) THEN [k |-> "ok", ports |-> {port.n}]
    ELSE Bad

\* What is between the brackets is not looked at; "bad v6" is no address.
parse_glob_authority(text) ==
    IF text.form \notin {"name", "blank", "v6", "bad v6"} THEN Bad
    ELSE IF text.port.k = "none" THEN [k |-> "ok", ports |-> {}]
    ELSE parse_port_pattern(text.port)

parse_glob_matcher(text) ==
    LET authority == parse_glob_authority(text)
        query == IF text.query = NoQuery THEN <<>> ELSE text.query
    IN IF \/ ~valid_scheme(text.scheme)
          \/ text.host = <<>>
          \/ authority = Bad
          \/ \E pattern \in {text.host, text.path, query} : ~validate_glob_pattern(pattern)
       THEN Bad
       ELSE [k |-> "glob", scheme |-> text.scheme, host |-> text.host, port |-> authority.ports,
             path |-> text.path, query |-> query]

\* The text between the first and the last slash; the linear engine is tried before the
\* backtracking one.
parse_regex_matcher(text) ==
    IF \/ ~text.closed
       \/ ~(text.flags \subseteq {"i"})
       \/ text.engine = "neither"
    THEN Bad
    ELSE [k |-> "regex", re |-> text.re, nocase |-> "i" \in text.flags]

ParseUnnegated(matcher) ==
    CASE matcher.sigil = "=" ->
           IF /\ UrlPartsParse(matcher.text).valid
              /\ parse_glob_matcher(matcher.text) # Bad
           THEN [k |-> "exact", url |-> UrlPartsParse(matcher.text)] ELSE Bad
      [] matcher.sigil = "/" -> parse_regex_matcher(matcher.text)
      [] matcher.sigil = ":" ->
           IF PortNumber(matcher.text) THEN [k |-> "port", port |-> matcher.text.n] ELSE Bad
      [] matcher.sigil = "" -> parse_glob_matcher(matcher.text)

\* Every `!` is one level of nesting.
RECURSIVE parse_matcher_at_depth(_, _)
parse_matcher_at_depth(matcher, depth) ==
    IF depth > MaxParseNesting THEN Bad
    ELSE IF depth = matcher.bangs THEN ParseUnnegated(matcher)
    ELSE LET inner == parse_matcher_at_depth(matcher, depth + 1)
         IN IF inner = Bad THEN Bad ELSE [k |-> "not", inner |-> inner]

parse_matcher(matcher) == parse_matcher_at_depth(matcher, 0)

(***************************************************************************)
(* Names.                                                                  *)
(***************************************************************************)
NoName == <<>>

\* The aliases of every canonical action name: the families', except that the phase of a
\* delay or a throttle is an argument and a raw mock has a name of its own.
ACTION_SYNTAX ==
    LET names == {f \in ActionFamily : Head(f) \notin {"delay", "throttle"}}
                 \cup {<<"delay">>, <<"throttle">>, <<"mock", "raw">>}
    IN [n \in names |->
          CASE n = <<"mock", "raw">> -> {<<"mockRaw">>, <<"mock_raw">>, <<"mock-raw">>}
            [] n = <<"map", "remote">> -> {<<"mapRemote">>, <<"map_remote">>, <<"map-remote">>}
            [] OTHER -> {}]

CONDITION_SYNTAX ==
    [n \in {<<"method">>, <<"host">>, <<"url">>, <<"client", "ip">>, <<"server", "ip">>,
            <<"header">>, <<"res", "header">>, <<"body">>, <<"status">>, <<"chance">>, <<"env">>,
            <<"any">>, <<"all">>, <<"not">>} |->
        CASE n = <<"client", "ip">> -> {<<"clientIp">>, <<"ip">>, <<"client_ip">>, <<"client-ip">>}
          [] n = <<"server", "ip">> -> {<<"serverIp">>, <<"server_ip">>, <<"server-ip">>}
          [] n = <<"res", "header">> -> {<<"resHeader">>, <<"res_header">>, <<"res-header">>}
          [] OTHER -> {}]

accepts(syntax, canonical, name) == name = canonical \/ name \in syntax[canonical]

canonical_name(syntax, name) ==
    LET found == {c \in DOMAIN syntax : accepts(syntax, c, name)}
    IN IF found = {} THEN NoName ELSE CHOOSE c \in found : TRUE

canonical_v3_name(syntax, name) == IF name \in DOMAIN syntax THEN name ELSE NoName

\* v3 sources accept canonical names only.
NameIn(syntax, name, profile) ==
    IF profile = "Compatible" THEN canonical_name(syntax, name) ELSE canonical_v3_name(syntax, name)

(***************************************************************************)
(* Conditions.                                                             *)
(***************************************************************************)
Negation(c) == IF c = Bad THEN Bad ELSE [k |-> "not", inner |-> c]

\* Every `!` and every call is one level of nesting; any and all combine one condition or
\* more, not exactly one, and one bad argument spoils the whole.
RECURSIVE parse_condition_at_depth(_, _, _)
parse_condition_at_depth(text, depth, profile) ==
    LET name == NameIn(CONDITION_SYNTAX, text.name, profile)
        args == [i \in DOMAIN text.args |-> parse_condition_at_depth(text.args[i], depth + 1, profile)]
    IN CASE depth > MaxParseNesting -> Bad
         [] depth <= MaxParseNesting /\ text.bangs > 0 ->
              Negation(parse_condition_at_depth([text EXCEPT !.bangs = @ - 1], depth + 1, profile))
         [] OTHER ->
              IF name = NoName THEN Bad
              ELSE IF name = <<"not">> THEN IF Len(args) = 1 THEN Negation(args[1]) ELSE Bad
              ELSE IF name \in {<<"any">>, <<"all">>}
                   THEN IF args = <<>> \/ Bad \in ToSet(args) THEN Bad
                        ELSE [k |-> Head(name), list |-> args]
              ELSE IF text.good THEN text.leaf ELSE Bad

parse_condition(text, profile) == parse_condition_at_depth(text, 0, profile)

\* How deep the parentheses of a condition go.
RECURSIVE Parentheses(_)
Parentheses(text) ==
    1 + Max({0} \cup {Parentheses(text.args[i]) : i \in DOMAIN text.args})

\* Two properties are words, the third a prefix whose rest may be empty here.
PROPERTY_SYNTAX == [named |-> {"@important", "@disabled"}, prefixed |-> {"@tag:"}]

canonical_property(tok) ==
    IF \/ tok.word \in PROPERTY_SYNTAX.named /\ tok.rest = ""
       \/ tok.word \in PROPERTY_SYNTAX.prefixed
    THEN tok.word ELSE "none"

=============================================================================
