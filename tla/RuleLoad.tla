------------------------------ MODULE RuleLoad ------------------------------
(***************************************************************************)
(* Loading a rule source and answering requests with it: the parser's pass *)
(* over groups and lines with its budgets and its bounded diagnostics, the *)
(* all-or-nothing publication of the snapshot, and the two resolutions of  *)
(* a request, before and after the response head, with or without its body.*)
(*                                                                         *)
(* A source is a sequence of groups [named, bytes, lines].  A line is a    *)
(* comment, over-long, a language directive (good or not) or a rule: a     *)
(* matcher text and tokens, each with the name it is written with.  An     *)
(* action's arguments are a word.                                          *)
(***************************************************************************)
EXTENDS RuleSyntax

CONSTANTS
    Sources, Requests, Responses,
    MaxGroups, MaxBytes, MaxRules, MaxDiagnostics,
    MaxActionsPerRule, MaxNodesPerRule, MaxPropsPerRule,
    MaxActions, MaxNodes, MaxBodyConditions,
    MaxLintFindings,
    CallWords   \* the words with an alias before a parenthesis outside quotes, each with
                \* the word in which the alias is replaced by its canonical name

VARIABLES
    src,        \* the groups handed to the parser
    versioned,  \* parse_versioned_groups: every group needs its header
    pos,        \* [g, l, first, profile]: the group, its line (0: not begun), header state
    charged,    \* the snapshot budgets used so far
    rules, errors, stage,
    index,      \* the candidate index of the loaded snapshot
    served      \* the request being answered and the actions resolved for it

vars == <<src, versioned, pos, charged, rules, errors, stage, index, served>>

(***************************************************************************)
(* One rule.                                                               *)
(***************************************************************************)
RECURSIVE condition_nodes(_, _)
condition_nodes(c, kinds) ==
    (IF c.k \in kinds THEN 1 ELSE 0)
    + (IF c.k \in {"any", "all"} THEN SumFunction([i \in DOMAIN c.list |-> condition_nodes(c.list[i], kinds)])
       ELSE IF c.k = "not" THEN condition_nodes(c.inner, kinds) ELSE 0)

AllKinds == {"method", "host", "url", "client.ip", "server.ip", "header", "res.header", "body", "status",
             "chance", "env", "any", "all", "not"}
condition_node_count(c) == condition_nodes(c, AllKinds)
body_condition_count(c) == condition_nodes(c, {"body"})

\* Besides the name, an action's arguments must parse; an unknown skip family does not.
parse_action(tok, profile) ==
    /\ NameIn(ACTION_SYNTAX, tok.name, profile) # NoName
    /\ tok.args = "good"
    /\ tok.action.fam = <<"skip">> => \A p \in tok.skips : from_prefix(p) # {}

Tokens(line, type) == SelectSeq(line.tokens, LAMBDA t : t.t = type)
Upto(line, i) == [line EXCEPT !.tokens = SubSeq(line.tokens, 1, i)]

\* What token i makes of the rule: "ok" or the code of its error.
TokenError(line, i, profile) ==
    LET tok == line.tokens[i]
        before == Upto(line, i)
    IN CASE tok.t = "when" ->
              IF parse_condition(tok.text, profile) = Bad THEN "condition"
              ELSE IF SumFunction([n \in DOMAIN Tokens(before, "when") |->
                        condition_node_count(parse_condition(Tokens(before, "when")[n].text, profile))])
                      > MaxNodesPerRule
                   THEN "condition" ELSE "ok"
         [] tok.t = "property" ->
              IF \/ Len(Tokens(before, "property")) > MaxPropsPerRule
                 \/ canonical_property(tok) = "none"
                 \/ canonical_property(tok) = "@tag:" /\ tok.rest = ""
              THEN "property" ELSE "ok"
         [] tok.t = "action" ->
              IF \/ Len(Tokens(before, "action")) > MaxActionsPerRule
                 \/ ~parse_action(tok, profile)
              THEN "action" ELSE "ok"

\* The lexer counts parentheses, those of a nested condition among them.
tokenize(line) ==
    \A tok \in ToSet(line.tokens) : tok.t = "when" => Parentheses(tok.text) <= MaxParseNesting

\* The first error of a rule, the lexer's first, then the matcher's, token by token, an
\* empty action list last.
parse_rule(line, profile) ==
    LET bad == {i \in DOMAIN line.tokens : TokenError(line, i, profile) # "ok"}
    IN IF ~tokenize(line) THEN "syntax"
       ELSE IF parse_matcher(line.matcher) = Bad THEN "matcher"
       ELSE IF bad # {} THEN TokenError(line, Min(bad), profile)
       ELSE IF Tokens(line, "action") = <<>> THEN "action" ELSE "ok"

ParsedAction(tok) ==
    [value |-> tok.value] @@
    (IF tok.action.fam # <<"skip">> THEN tok.action
     ELSE [tok.action EXCEPT !.fams = UNION {from_prefix(p) : p \in tok.skips}])

Rule(line, number, profile) ==
    [line |-> number,
     matcher |-> parse_matcher(line.matcher),
     actions |-> [n \in DOMAIN Tokens(line, "action") |-> ParsedAction(Tokens(line, "action")[n])],
     conditions |-> [n \in DOMAIN Tokens(line, "when") |->
                        parse_condition(Tokens(line, "when")[n].text, profile)],
     tags |-> {t.rest : t \in {p \in ToSet(line.tokens) : p.t = "property" /\ p.word = "@tag:"}},
     important |-> \E t \in ToSet(line.tokens) : t.t = "property" /\ canonical_property(t) = "@important",
     disabled |-> \E t \in ToSet(line.tokens) : t.t = "property" /\ canonical_property(t) = "@disabled"]

NodesOf(rule) == SumFunction([n \in DOMAIN rule.conditions |-> condition_node_count(rule.conditions[n])])
BodiesOf(rule) == SumFunction([n \in DOMAIN rule.conditions |-> body_condition_count(rule.conditions[n])])

(***************************************************************************)
(* The pass over the source.                                               *)
(***************************************************************************)
\* At the cap the last entry says that the rest was not parsed; further ones are dropped.
push_parse_diagnostic(errs, error) ==
    IF Len(errs) < MaxDiagnostics - 1 THEN Append(errs, error)
    ELSE IF Len(errs) < MaxDiagnostics THEN Append(errs, [error EXCEPT !.code = "truncated"])
    ELSE errs

\* What push_parse_diagnostic returns: the pass must stop.
Full(errs) == Len(errs) >= MaxDiagnostics - 1

At(g, l) == [g |-> g, l |-> l, first |-> FALSE, profile |-> "Compatible"]
End == At(Len(src) + 1, 0)
Error(code) == [g |-> pos.g, l |-> pos.l, code |-> code]

NoCharge == [bytes |-> 0, lines |-> 0, actions |-> 0, nodes |-> 0, bodies |-> 0]
NotServed == [req |-> "none", res |-> NoResponse, overflow |-> FALSE, flagged |-> FALSE,
              request |-> <<>>, response |-> <<>>]

Init ==
    /\ src \in Sources
    /\ versioned \in BOOLEAN
    /\ pos = At(1, 0)
    /\ charged = NoCharge
    /\ rules = <<>> /\ errors = <<>> /\ index = <<>>
    /\ stage = "parsing"
    /\ served = NotServed

\* Records a diagnostic at the current place and goes on at next, or gives up where told to.
Diagnose(code, next, stopWhenFull) ==
    /\ errors' = push_parse_diagnostic(errors, Error(code))
    /\ pos' = IF stopWhenFull /\ Full(errors) THEN End ELSE next

\* The head of the group loop: the group and byte limits, then the name.
BeginGroup ==
    /\ stage = "parsing" /\ pos.g <= Len(src) /\ pos.l = 0
    /\ LET bytes == charged.bytes + src[pos.g].bytes IN
       IF pos.g > MaxGroups \/ bytes > MaxBytes
       THEN Diagnose("limit", End, FALSE) /\ UNCHANGED charged
       ELSE /\ charged' = [charged EXCEPT !.bytes = bytes]
            /\ IF src[pos.g].named
               THEN pos' = [pos EXCEPT !.l = 1] /\ UNCHANGED errors
               ELSE Diagnose("group", At(pos.g + 1, 0), TRUE)
    /\ UNCHANGED <<src, versioned, rules, stage, index, served>>

EndGroup ==
    /\ stage = "parsing" /\ pos.g <= Len(src) /\ pos.l > Len(src[pos.g].lines)
    /\ pos' = At(pos.g + 1, 0)
    /\ UNCHANGED <<src, versioned, charged, rules, errors, stage, index, served>>

Line == src[pos.g].lines[pos.l]
AtLine == stage = "parsing" /\ pos.g <= Len(src) /\ pos.l \in DOMAIN src[pos.g].lines
NextLine == [pos EXCEPT !.l = @ + 1]

\* Over-long lines are diagnosed before anything is read of them, comments skipped.
SkipLine ==
    /\ AtLine /\ Line.k \in {"comment", "long"}
    /\ IF Line.k = "long" THEN Diagnose("long", NextLine, TRUE)
       ELSE pos' = NextLine /\ UNCHANGED errors
    /\ UNCHANGED <<src, versioned, charged, rules, stage, index, served>>

\* Mutant: the header is accepted but does not switch to the canonical spellings.
LanguageLineKeepsProfile ==
    /\ AtLine
    /\ \/ Line.k = "language"
       \/ Line.k = "rule" /\ ~pos.first /\ versioned
    /\ IF pos.first THEN Diagnose("language", NextLine, TRUE)
       ELSE IF Line.k = "language" /\ Line.good
            THEN pos' = [NextLine EXCEPT !.first = TRUE] /\ UNCHANGED errors
       ELSE Diagnose("language", At(pos.g + 1, 0), FALSE)
    /\ UNCHANGED <<src, versioned, charged, rules, stage, index, served>>

\* The first effective line may be the header, must be it for a versioned source, and a
\* wrong or missing header ends the group; a later directive is an error of its own.
LanguageLine ==
    /\ AtLine
    /\ \/ Line.k = "language"
       \/ Line.k = "rule" /\ ~pos.first /\ versioned
    /\ IF pos.first THEN Diagnose("language", NextLine, TRUE)
       ELSE IF Line.k = "language" /\ Line.good
            THEN /\ pos' = [NextLine EXCEPT !.first = TRUE, !.profile = "CanonicalV3"]
                 /\ UNCHANGED errors
       ELSE Diagnose("language", At(pos.g + 1, 0), FALSE)
    /\ UNCHANGED <<src, versioned, charged, rules, stage, index, served>>

\* The snapshot budgets after one more rule.
Charge(rule) ==
    [charged EXCEPT !.lines = @ + 1, !.actions = @ + Len(rule.actions),
                    !.nodes = @ + NodesOf(rule), !.bodies = @ + BodiesOf(rule)]

OverBudget(c) == c.actions > MaxActions \/ c.nodes > MaxNodes \/ c.bodies > MaxBodyConditions

RuleLine ==
    /\ AtLine /\ Line.k = "rule" /\ (pos.first \/ ~versioned)
    /\ LET code == parse_rule(Line, pos.profile)
           rule == Rule(Line, pos.l, pos.profile)
           next == [NextLine EXCEPT !.first = TRUE]
       IN IF charged.lines = MaxRules
          THEN Diagnose("limit", End, FALSE) /\ UNCHANGED <<charged, rules>>
          ELSE IF code # "ok"
          THEN /\ Diagnose(code, next, TRUE)
               /\ charged' = [charged EXCEPT !.lines = @ + 1]
               /\ UNCHANGED rules
          ELSE /\ charged' = Charge(rule)
               /\ IF OverBudget(Charge(rule))
                  THEN Diagnose("limit", End, FALSE) /\ UNCHANGED rules
                  ELSE rules' = Append(rules, rule) /\ pos' = next /\ UNCHANGED errors
    /\ UNCHANGED <<src, versioned, stage, index, served>>

\* Any error rejects the whole source; otherwise the index is built once.
Finish ==
    /\ stage = "parsing" /\ pos.g > Len(src)
    /\ IF errors = <<>> THEN stage' = "loaded" /\ index' = RuleIndexBuild(rules)
                        ELSE stage' = "rejected" /\ UNCHANGED index
    /\ UNCHANGED <<src, versioned, pos, charged, rules, errors, served>>

(***************************************************************************)
(* A request.                                                              *)
(***************************************************************************)
\* A body over the buffer limit is streamed: the rules are resolved without it, and the
\* session is flagged when the plan says that a rule needed it.
Serve(text, overflow) ==
    LET req == [text EXCEPT !.url = UrlPartsParse(@)] IN
    /\ stage = "loaded"
    /\ stage' = "served"
    /\ served' = [req |-> req, res |-> NoResponse, overflow |-> overflow,
                  flagged |-> overflow /\ request_body_required(rules, index, req),
                  request |-> resolve_inner(rules, index, req, NoResponse, ~overflow),
                  response |-> <<>>]
    /\ UNCHANGED <<src, versioned, pos, charged, rules, errors, index>>

FamiliesOf(actions) == {actions[n].action.fam : n \in DOMAIN actions}

\* A locally answered request has no response phase; otherwise the response head resolves
\* the rules again, still without a streamed body.
Respond(res) ==
    /\ stage = "served" /\ FamiliesOf(served.request) \cap LocalFamilies = {}
    /\ stage' = "responded"
    /\ served' = [served EXCEPT
          !.res = res,
          !.response = resolve_inner(rules, index, served.req, res, ~served.overflow)]
    /\ UNCHANGED <<src, versioned, pos, charged, rules, errors, index>>

Next ==
    \/ BeginGroup \/ EndGroup \/ SkipLine \/ LanguageLine \/ RuleLine \/ Finish
    \/ \E req \in Requests, overflow \in BOOLEAN : Serve(req, overflow)
    \/ \E res \in Responses : Respond(res)

Spec == Init /\ [][Next]_vars

(***************************************************************************)
(* Migration of a headerless source to the versioned language.             *)
(***************************************************************************)
\* Every call is looked up among the actions first, then among the conditions.
CanonicalCall(name) ==
    IF canonical_name(ACTION_SYNTAX, name) # NoName THEN canonical_name(ACTION_SYNTAX, name)
    ELSE IF canonical_name(CONDITION_SYNTAX, name) # NoName THEN canonical_name(CONDITION_SYNTAX, name)
    ELSE name

\* It is looked for in every word that is not quoted, whatever the word is part of.
CanonicalWord(w) == IF w \in DOMAIN CallWords THEN CallWords[w] ELSE w
CanonicalWords(seq) == [i \in DOMAIN seq |-> CanonicalWord(seq[i])]

RECURSIVE CanonicalRegex(_), CanonicalCondition(_)
CanonicalRegex(re) ==
    CASE re.k = "lit" -> [re EXCEPT !.words = CanonicalWords(@)]
      [] re.k \in {"alt", "cat"} -> [re EXCEPT !.l = CanonicalRegex(@), !.r = CanonicalRegex(@)]
      [] OTHER -> [re EXCEPT !.l = CanonicalRegex(@)]

CanonicalLeaf(c) ==
    CASE c.k \in {"host", "url"} -> [c EXCEPT !.pattern = CanonicalWords(@)]
      [] c.k = "body" -> [c EXCEPT !.literal[1] = CanonicalWord(@)]
      [] OTHER -> c

CanonicalCondition(text) ==
    [text EXCEPT !.name = CanonicalCall(@), !.leaf = CanonicalLeaf(@),
                 !.args = [i \in DOMAIN @ |-> CanonicalCondition(@[i])]]

CanonicalMatcher(m) ==
    CASE m.sigil = "/" -> [m EXCEPT !.text.re = CanonicalRegex(@)]
      [] m.sigil \in {"", "="} ->
           [m EXCEPT !.text.path = CanonicalWords(@),
                     !.text.query = IF @ = NoQuery THEN @ ELSE CanonicalWords(@)]
      [] OTHER -> m

(***************************************************************************)
(* A regex is left alone up to a slash with a separator behind it.  One    *)
(* with a flag has none of its own: it ends at the next such slash of the  *)
(* line, in the arguments of a later token, or is no regex if there is     *)
(* none.  So does an argument that begins with a slash.  Position 0 is the *)
(* matcher's.                                                              *)
(***************************************************************************)
Closes(line, i) == line.tokens[i].t = "action" /\ line.tokens[i].slash = "closes"

begins_regex(line, i) ==
    IF i = 0 THEN line.matcher.sigil = "/"
    ELSE line.tokens[i].t = "action" /\ line.tokens[i].slash = "opens"

Bounded(line, i) == i = 0 /\ line.matcher.sigil = "/" /\ line.matcher.text.flags = {}

\* The token in which the regex that begins at token i ends; 0: nowhere.
regex_end_at_boundary(line, i) ==
    LET ends == {j \in i + 1 .. Len(line.tokens) : Closes(line, j)}
    IN IF ends = {} THEN 0 ELSE Min(ends)

\* The tokens taken for part of a regex that is not theirs.
Swallowed(line) ==
    UNION {i + 1 .. regex_end_at_boundary(line, i) :
             i \in {o \in 0 .. Len(line.tokens) : begins_regex(line, o) /\ ~Bounded(line, o)}}

Left(line, i) == Bounded(line, i) \/ (begins_regex(line, i) /\ regex_end_at_boundary(line, i) > 0)

CanonicalToken(line, i) ==
    LET tok == line.tokens[i]
    IN CASE i \in Swallowed(line) -> tok
         [] i \notin Swallowed(line) /\ tok.t = "when" -> [tok EXCEPT !.text = CanonicalCondition(@)]
         [] i \notin Swallowed(line) /\ tok.t = "property" -> [tok EXCEPT !.rest = CanonicalWord(@)]
         [] OTHER -> [tok EXCEPT !.name = CanonicalCall(@),
                                 !.value = IF Left(line, i) THEN @ ELSE CanonicalWord(@)]

canonicalize_call_names(line) ==
    IF line.k # "rule" THEN line
    ELSE [line EXCEPT !.matcher = IF Left(line, 0) THEN @ ELSE CanonicalMatcher(@),
                      !.tokens = [i \in DOMAIN @ |-> CanonicalToken(line, i)]]

Header == [k |-> "language", good |-> TRUE]


\* The first line that is not a comment is replaced if it is a directive, else preceded
\* by the header; a source without one gets the header at its end.
migrate_rule_source_v3(group) ==
    LET effective == {i \in DOMAIN group.lines : group.lines[i].k # "comment"}
        names == [i \in DOMAIN group.lines |-> canonicalize_call_names(group.lines[i])]
    IN IF effective = {} THEN [group EXCEPT !.lines = Append(names, Header), !.bytes = @ + 1]
       ELSE IF group.lines[Min(effective)].k = "language"
            THEN [group EXCEPT !.lines = [names EXCEPT ![Min(effective)] = Header]]
       ELSE [group EXCEPT !.lines = InsertAt(names, Min(effective), Header), !.bytes = @ + 1]

(***************************************************************************)
(* Properties.                                                             *)
(***************************************************************************)
Effective(group) == {i \in DOMAIN group.lines : group.lines[i].k \in {"language", "rule"}}
RuleLines(group) == {i \in DOMAIN group.lines : group.lines[i].k = "rule"}

HasHeader(group) ==
    Effective(group) # {} /\ group.lines[Min(Effective(group))] = Header

ProfileOf(group) == IF HasHeader(group) THEN "CanonicalV3" ELSE "Compatible"

\* The first effective line of the group is a wrong directive, or a rule where a header must be.
HeaderWrong(group, needed) ==
    Effective(group) # {} /\
        LET first == group.lines[Min(Effective(group))]
        IN (first.k = "language" /\ ~first.good) \/ (first.k = "rule" /\ needed)

\* The lines of a group that must be reported.
WrongLines(group, needed) ==
    {i \in DOMAIN group.lines :
        /\ HeaderWrong(group, needed) => i <= Min(Effective(group))
        /\ \/ group.lines[i].k = "long"
           \/ group.lines[i].k = "language" /\ i # Min(Effective(group))
           \/ HeaderWrong(group, needed) /\ i = Min(Effective(group))
           \/ group.lines[i].k = "rule" /\ parse_rule(group.lines[i], ProfileOf(group)) # "ok"}

RulesOfGroup(group) ==
    LET order == SetToSortSeq(RuleLines(group), <)
    IN [n \in DOMAIN order |-> Rule(group.lines[order[n]], order[n], ProfileOf(group))]

RulesOf(source) == FlattenSeq([g \in DOMAIN source |-> RulesOfGroup(source[g])])

WithinBudgets(source) ==
    LET all == RulesOf(source)
        Total(Op(_)) == SumFunction([n \in DOMAIN all |-> Op(all[n])])
    IN /\ Len(source) <= MaxGroups
       /\ SumFunction([g \in DOMAIN source |-> source[g].bytes]) <= MaxBytes
       /\ Len(all) <= MaxRules
       /\ Total(LAMBDA r : Len(r.actions)) <= MaxActions
       /\ Total(NodesOf) <= MaxNodes
       /\ Total(BodiesOf) <= MaxBodyConditions

Acceptable(source, needed) ==
    /\ \A g \in DOMAIN source : source[g].named /\ WrongLines(source[g], needed) = {}
    /\ WithinBudgets(source)

Accepted == stage \in {"loaded", "served", "responded"}

\* A source is published whole or not at all: accepted exactly when every line is right and
\* every budget holds, with the rules in source order; a rejected one carries between one
\* and MAX_RULE_DIAGNOSTICS diagnostics, each for a line that is wrong (or a group name or a
\* limit), and all of them unless the pass was cut short (RuleSet::parse_groups_with_profile).
LoadExact ==
    /\ Accepted => Acceptable(src, versioned) /\ rules = RulesOf(src)
    /\ stage = "rejected" =>
         /\ ~Acceptable(src, versioned)
         /\ Len(errors) \in 1 .. MaxDiagnostics
         /\ \A e \in ToSet(errors) :
               e.code \notin {"limit", "group", "truncated"} => e.l \in WrongLines(src[e.g], versioned)
         /\ {e.code : e \in ToSet(errors)} \cap {"limit", "truncated"} = {} =>
               \A g \in DOMAIN src : src[g].named =>
                   {e.l : e \in {x \in ToSet(errors) : x.g = g}} = WrongLines(src[g], versioned)

RECURSIVE RegexWords(_), ConditionWords(_)
RegexWords(re) ==
    CASE re.k = "lit" -> ToSet(re.words)
      [] re.k \in {"alt", "cat"} -> RegexWords(re.l) \cup RegexWords(re.r)
      [] OTHER -> RegexWords(re.l)
ConditionWords(text) ==
    UNION {ConditionWords(text.args[i]) : i \in DOMAIN text.args}
    \cup (IF text.leaf.k \in {"host", "url"} THEN ToSet(text.leaf.pattern)
          ELSE IF text.leaf.k = "body" THEN {text.leaf.literal[1]} ELSE {})

\* An alias stands before a parenthesis in a path, a regex with flags, an argument or a tag.
HoldsCall(line) ==
    LET m == line.matcher
        words == UNION {CASE t.t = "when" -> ConditionWords(t.text)
                          [] t.t = "property" -> {t.rest}
                          [] OTHER -> {t.value} : t \in ToSet(line.tokens)}
                 \cup (IF m.sigil \in {"", "="}
                       THEN ToSet(m.text.path) \cup (IF m.text.query = NoQuery THEN {} ELSE ToSet(m.text.query))
                       ELSE IF m.sigil = "/" /\ m.text.flags # {} THEN RegexWords(m.text.re) ELSE {})
    IN words \cap DOMAIN CallWords # {}


\* What the rules say, without index or plan: every rule, the whole body, each literal
\* looked for by itself and regardless of case.
Reference(req, res) ==
    IF ~req.url.valid THEN <<>>
    ELSE ResolveOver(rules, Ordered(rules, DOMAIN rules),
                     [req EXCEPT !.body = @ \X {"lower", "UPPER"}], res, TRUE)

\* The candidate index loses no rule: with its host buckets, literal prefilter and shared
\* body automaton a request whose body is at hand resolves, in both phases, to what a scan
\* of all rules gives (RuleSet::candidate_rule_indices, CompiledBodyContainsSet).
IndexComplete ==
    /\ stage = "served" /\ ~served.overflow => served.request = Reference(served.req, NoResponse)
    /\ stage = "responded" /\ ~served.overflow =>
         served.response = Reference(served.req, served.res)

\* A streamed body changes what the rules do only if the session is flagged: when the plan
\* said no rule needs the body, resolving without it is resolving with it, for the request
\* and for every response (RuleSet::request_body_required).
SkipReported ==
    stage = "served" /\ served.overflow /\ ~served.flagged =>
        /\ served.request = Reference(served.req, NoResponse)
        /\ \A res \in Responses :
              resolve_inner(rules, index, served.req, res, FALSE) = Reference(served.req, res)

\* An exact URL without a query accepts any query, a query glob need not.
QueryBlind(f) == rules[f.by].matcher.k = "glob" /\ rules[f.by].matcher.query # <<>>
                 /\ rules[f.rule].matcher.k = "exact"

\* A skip of another rule can take the action away on which a finding rests.
SkippedElsewhere(i) ==
    \E j \in DOMAIN rules \ {i} : \E a \in ToSet(rules[j].actions) : a.fam = <<"skip">>

\* A lint finding is never wrong: a family reported as shadowed, repeated, suppressed by a
\* skip of its own rule, out of phase or behind a local answer never comes out of that rule,
\* an overridden upstream is never used, a content action behind a bodyless status never
\* meets a status with a body, and a rule reported as unsatisfiable never matches
\* (RuleSet::lint_report, RuleSet::semantic_lint_report).
LintSound ==
    stage \in {"served", "responded"} =>
        LET actions == IF stage = "served" THEN served.request ELSE served.response
            report == semantic_lint_report(rules, MaxLintFindings)
            Found(kind) == {f \in ToSet(report.findings) : f.kind = kind}
            Taken(i, fam) == Cardinality({n \in DOMAIN actions :
                                            actions[n].rule = i /\ actions[n].action.fam = fam})
            Named(i, fam) == Cardinality({b \in effective_actions(rules[i]) : rules[i].actions[b].fam = fam})
            Silent(f) == \A fam \in f.fams : Taken(f.rule, fam) = 0
        IN /\ \A f \in lint_report(rules) : QueryBlind(f) \/ Taken(f.rule, f.fam) = 0
           /\ \A f \in Found("DuplicateSingleFamily") : \A fam \in f.fams : Taken(f.rule, fam) <= 1
           /\ \A f \in Found("ActionAfterSkip") :
                 \A fam \in f.fams : Taken(f.rule, fam) <= Named(f.rule, fam)
           /\ \A f \in Found("RequestActionRequiresResponse") : stage = "served" => Silent(f)
           /\ \A f \in Found("UnsatisfiableConditions") : \A fam \in ActionFamily : Taken(f.rule, fam) = 0
           /\ \A f \in Found("ResponseActionWithLocalResponse") :
                 \/ SkippedElsewhere(f.rule)
                 \/ \E c \in ToSet(rules[f.rule].conditions) : depends_on_response(c)
                 \/ stage = "responded" => Silent(f)
           /\ \A f \in Found("UpstreamOverriddenByDirect") :
                 \/ SkippedElsewhere(f.rule)
                 \/ Taken(f.rule, <<"upstream">>) > 0 => <<"direct">> \in FamiliesOf(actions)
           /\ \A f \in Found("BodyActionWithBodylessStatus") :
                 \/ SkippedElsewhere(f.rule) \/ Silent(f)
                 \/ \E n \in DOMAIN actions :
                       /\ actions[n].action.fam = <<"res", "status">>
                       /\ actions[n].action.status \in BodylessStatuses \/ actions[n].rule # f.rule
                 \/ <<"res", "status">> \in duplicate_single_families(rules[f.rule])

=============================================================================
