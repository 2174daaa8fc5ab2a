------------------------------- MODULE Policy -------------------------------
(***************************************************************************)
(* The approval policy (gwennol-cli/src/policy.rs): rules compiled for one *)
(* workspace, tried in order, and the answers a person gave for the rest   *)
(* of the session, tried after them.  The requests are spelled the way the *)
(* host steps spell them, from the path a plugin named.                    *)
(*                                                                         *)
(* A path is the sequence of its components.  The file system is small and *)
(* does not change: the workspace /w with a directory a, a file f and a    *)
(* link l to a directory outside whose name is a star, where d is a link   *)
(* that leads nowhere.  n is never there.                                  *)
(***************************************************************************)
EXTENDS Naturals, Sequences, SequencesExt, FiniteSets

CONSTANTS
  Plugin,
  MaxAnswers   \* bound: answers given for the session

ASSUME AnswersAssumption == MaxAnswers \in Nat

VARIABLES
  policy,      \* Policy::rules, or the error that refused them
  session,     \* the session rules
  request,     \* the request judged last
  verdict,     \* its judgement
  answered     \* history: the answers given for the session, in order

policyVars == <<policy, session, request, verdict, answered>>

Root == <<"w">>
Outside == <<"*">>
Links == [p \in {<<"w", "l">>, <<"*", "d">>} |-> IF p[1] = "w" THEN Outside ELSE <<"n">>]
Exists == {<<>>, Root, Outside, <<"w", "a">>, <<"w", "f">>, <<"*", "f">>}

-----------------------------------------------------------------------------
(* How the host spells a path. *)

(* resolve_path: rooted, `.` and `..` folded without looking. *)
Fold(from, comps) ==
  FoldLeft(LAMBDA p, c : IF c = ".." THEN (IF p = <<>> THEN p ELSE Front(p)) ELSE Append(p, c),
           from, comps)

resolve_path(raw) == Fold(IF raw.absolute THEN <<>> ELSE Root, raw.comps)

(* deepest_canonical: the deepest ancestor that canonicalises, the rest as spelled. *)
deepest_canonical(path) ==
  LET Walk(s, c) ==
        LET next == Append(s.at, c)
        IN  CASE ~s.there -> [s EXCEPT !.at = next]
              [] s.there /\ next \in DOMAIN Links /\ Links[next] \in Exists ->
                   [s EXCEPT !.at = Links[next]]
              [] OTHER -> [at |-> next, there |-> next \in Exists]
  IN  FoldLeft(Walk, [at |-> <<>>, there |-> TRUE], path).at

is_symlink(path) ==
  path # <<>> /\ Append(deepest_canonical(Front(path)), Last(path)) \in DOMAIN Links

(* The path an approval names: a write to a link names the link. *)
Submitted(kind, raw) ==
  LET path == resolve_path(raw)
  IN  IF kind = "write" /\ is_symlink(path)
      THEN Append(deepest_canonical(Front(path)), Last(path))
      ELSE deepest_canonical(path)

-----------------------------------------------------------------------------
(* Rules. *)

PathKind == {"read", "write", "list"}
Kind == PathKind \cup {"spawn", "http", "any"}
NoPattern == [none |-> TRUE]

Glob == {"*x", "**"}                   \* `*x` stands for a component with a single star
Glued == "**x"

(* has_method_prefix *)
MethodOk(p) == p.method \in {"*", "GET", "POST"} /\ p.url # ""

Refused(why) == [refused |-> why]
IsRefused(c) == "refused" \in DOMAIN c

Lit(c) == [literal |-> c]
Wild(c) == [glob |-> c]

(* root_pattern: the literal prefix as the host would spell it, and escaped; then the rest. *)
GlobAt(comps) == {i \in 1..Len(comps) : comps[i] \in Glob}
Prefix(comps) ==
  IF GlobAt(comps) = {} THEN comps
  ELSE SubSeq(comps, 1, (CHOOSE i \in GlobAt(comps) : \A j \in GlobAt(comps) : i <= j) - 1)

(* Mutant: a write rule for a link is walked through it. *)
root_pattern_ThroughLink(kind, pattern) ==
  LET prefix == Prefix(pattern.comps)
      rest == SubSeq(pattern.comps, Len(prefix) + 1, Len(pattern.comps))
      walked == deepest_canonical(Fold(IF pattern.absolute THEN <<>> ELSE Root, prefix))
      Element(c) == IF c \in Glob THEN Wild(c) ELSE Lit(c)
  IN  [i \in 1..Len(walked) |-> Lit(walked[i])] \o [i \in 1..Len(rest) |-> Element(rest[i])]

root_pattern(kind, pattern) ==
  LET prefix == Prefix(pattern.comps)
      rest == SubSeq(pattern.comps, Len(prefix) + 1, Len(pattern.comps))
      literal == Fold(IF pattern.absolute THEN <<>> ELSE Root, prefix)
      walked == IF kind = "write" /\ rest = <<>> /\ is_symlink(literal)
                THEN Append(deepest_canonical(Front(literal)), Last(literal))
                ELSE deepest_canonical(literal)
      Element(c) == IF c \in Glob THEN Wild(c) ELSE Lit(c)
  IN  [i \in 1..Len(walked) |-> Lit(walked[i])] \o [i \in 1..Len(rest) |-> Element(rest[i])]

DotDotAfterGlob(comps) ==
  \E i \in 1..Len(comps) : comps[i] = ".." /\ \E j \in GlobAt(comps) : j < i

(* A pattern that ends in `/**` compiles to a second glob, for the directory itself. *)
Globs(kind, pattern) ==
  LET rooted == root_pattern(kind, pattern)
  IN  IF rooted # <<>> /\ Last(rooted) = Wild("**") THEN {rooted, Front(rooted)} ELSE {rooted}

CompileRule(spec) ==
  LET p == spec.pattern
      Compiled(matcher) == [spec |-> spec, kind |-> spec.kind, matcher |-> matcher]
  IN  CASE spec.kind \notin Kind -> Refused("UnknownKind")
        [] spec.kind = "any" -> IF p = NoPattern THEN Compiled({}) ELSE Refused("AnyWithPattern")
        [] spec.kind \in Kind \ {"any"} /\ p = NoPattern -> Refused("MissingPattern")
        [] spec.kind \in PathKind /\ p # NoPattern ->
             IF Contains(p.comps, Glued) THEN Refused("GluedDoubleStar")
             ELSE IF DotDotAfterGlob(p.comps) THEN Refused("DotDotAfterGlob")
             ELSE Compiled(Globs(spec.kind, p))
        [] spec.kind = "http" /\ p # NoPattern ->
             IF MethodOk(p) THEN Compiled({p}) ELSE Refused("HttpMethod")
        [] spec.kind = "spawn" /\ p # NoPattern -> Compiled({p})

(* Policy::compile: the first rule that does not compile refuses them all. *)
Compile(specs) ==
  LET bad == {i \in 1..Len(specs) : IsRefused(CompileRule(specs[i]))}
  IN  IF bad = {} THEN [i \in 1..Len(specs) |-> CompileRule(specs[i])]
      ELSE <<CompileRule(specs[CHOOSE i \in bad : \A j \in bad : i <= j])>>

Started == \A i \in 1..Len(policy) : ~IsRefused(policy[i])

-----------------------------------------------------------------------------
(* Matching (globset): `*` within a component; `**` any number of them, at least one at the
   end of a pattern.                                                                     *)
GlobMatches(glob, path) ==
  LET at[i \in 0..Len(glob), j \in 0..Len(path)] ==
        CASE i = Len(glob) -> j = Len(path)
          [] i < Len(glob) /\ glob[i + 1] = Wild("**") ->
               IF i + 1 = Len(glob) THEN j < Len(path)
               ELSE at[i + 1, j] \/ (j < Len(path) /\ at[i, j + 1])
          [] OTHER -> /\ j < Len(path)
                      /\ glob[i + 1] \in {Wild("*x"), Lit(path[j + 1])}
                      /\ at[i + 1, j + 1]
  IN  at[0, 0]

(* A command line is its arguments joined by spaces; an argument is the words in it. *)
Line(argv) == FlattenSeq(argv)

Whole(url) == ~url.query /\ ~url.user

SubjectMatches(rule, access) ==
  \E p \in rule.matcher :
    CASE rule.kind \in PathKind -> GlobMatches(p, access.path)
      [] rule.kind = "spawn" ->
           IF p.star THEN IsPrefix(p.words, Line(access.argv)) ELSE p.words = Line(access.argv)
      [] rule.kind = "http" -> /\ p.method \in {"*", access.method}
                               /\ p.url = "*" \/ (p.url = access.url.base /\ Whole(access.url))

(* Spawns with stdin or elsewhere, and accesses nobody knows: only `any` reaches them. *)
unjudgeable(access) ==
  CASE access.kind = "spawn" -> access.stdin \/ deepest_canonical(access.cwd) # Root
    [] access.kind \in PathKind \cup {"http"} -> FALSE
    [] OTHER -> TRUE

RuleMatches(rule, r) ==
  /\ rule.spec.plugin \in {"every", r.plugin}
  /\ \/ rule.kind = "any"
     \/ ~unjudgeable(r.access) /\ rule.kind = r.access.kind /\ SubjectMatches(rule, r.access)

-----------------------------------------------------------------------------
(* Session rules: the exact text the prompt showed (show::subject). *)
NoSubject == <<>>

(* Mutant: what is cut of a URL leaves no mark. *)
http_subject_Unmarked(access) == <<access.method, access.url.base>>

http_subject(access) == <<access.method, access.url.base, access.url.query, access.url.user>>
spawn_subject(access) == <<access.argv, IF access.cwd = Root THEN <<>> ELSE access.cwd>>

subject(access) ==
  CASE access.kind \in PathKind -> IF access.utf8 THEN <<access.path>> ELSE NoSubject
    [] access.kind = "spawn" -> IF access.stdin THEN NoSubject ELSE spawn_subject(access)
    [] access.kind = "http" -> http_subject(access)
    [] OTHER -> NoSubject

SessionMatches(s, r) ==
  /\ s.plugin = r.plugin /\ s.kind = r.access.kind
  /\ subject(r.access) # NoSubject /\ s.subject = subject(r.access)

(* remember: the later answer replaces the earlier one of the same subject. *)
remember(list, s) ==
  LET same == {i \in 1..Len(list) : [list[i] EXCEPT !.decision = s.decision] = s}
  IN  IF same = {} THEN Append(list, s) ELSE [list EXCEPT ![CHOOSE i \in same : TRUE] = s]

FirstOf(hits) == IF hits = {} THEN 0 ELSE CHOOSE i \in hits : \A j \in hits : i <= j

(* judge_with: the first rule, else the session's, else denied by default. *)
judge_with(r) ==
  LET rule == FirstOf({i \in 1..Len(policy) : RuleMatches(policy[i], r)})
      answer == FirstOf({i \in 1..Len(session) : SessionMatches(session[i], r)})
  IN  CASE rule # 0 -> [by |-> "rule", index |-> rule, decision |-> policy[rule].spec.decision]
        [] rule = 0 /\ answer # 0 ->
             [by |-> "session", index |-> answer, decision |-> session[answer].decision]
        [] OTHER -> [by |-> "default", index |-> 0, decision |-> "deny"]

-----------------------------------------------------------------------------
(* What is asked. *)
Raw == [absolute : BOOLEAN, comps : UNION {[1..k -> {"a", "l", "d", "f", "n", ".."}] : k \in 1..2}]

PathAccess(kind, raw) == [kind |-> kind, path |-> Submitted(kind, raw), utf8 |-> TRUE]
OddPaths == [kind: {"read"}, path: {<<"w", "?1">>, <<"w", "?2">>}, utf8: {FALSE}]
Argvs == {<< <<"cargo">>, <<"test">> >>, << <<"cargo", "test">> >>}
Spawns == [kind: {"spawn"}, argv: Argvs, cwd: {Root, <<"w", "a">>}, stdin: BOOLEAN]
Requests == {a \in [kind: {"http"}, method: {"GET", "POST"},
                     url: [base: {"u"}, query: BOOLEAN, user: BOOLEAN]] :
               a.method = "GET" => Whole(a.url)}
Unknown == [kind |-> "unknown"]

(* Bound: policies of one path rule meet every path, the others every other access. *)
PathSpecs ==
  { <<[decision |-> "allow", plugin |-> "every", kind |-> k,
       pattern |-> [absolute |-> raw.absolute,
                    comps |-> IF below THEN Append(raw.comps, "**") ELSE raw.comps]]>> :
      k \in PathKind, raw \in Raw, below \in BOOLEAN }

Spec1(d, k, p) == [decision |-> d, plugin |-> "every", kind |-> k, pattern |-> p]
Cargo == [words |-> <<"cargo">>, star |-> TRUE]
Dir(comps) == [absolute |-> FALSE, comps |-> comps]

OtherSpecs ==
  { <<>>,
    <<Spec1("deny", "spawn", Cargo), Spec1("allow", "any", NoPattern)>>,
    <<Spec1("allow", "http", [method |-> "POST", url |-> "u"])>>,
    <<Spec1("deny", "http", [method |-> "*", url |-> "*"])>>,
    <<[Spec1("allow", "any", NoPattern) EXCEPT !.plugin = CHOOSE p \in Plugin : TRUE]>>,
    <<Spec1("allow", "read", Dir(<<"**">>)), Spec1("allow", "bogus", NoPattern)>>,
    <<Spec1("allow", "http", [method |-> "post", url |-> "u"])>>,
    <<Spec1("allow", "read", Dir(<<Glued>>))>>,
    <<Spec1("allow", "read", Dir(<<"*x", "..">>))>>,
    <<Spec1("allow", "any", Cargo)>>,
    <<Spec1("allow", "list", NoPattern)>> }

OnePathRule == Started /\ Len(policy) = 1 /\ policy[1].kind \in PathKind

Accesses ==
  IF OnePathRule
  THEN {PathAccess(policy[1].kind, raw) : raw \in Raw}
  ELSE OddPaths \cup Spawns \cup Requests \cup {Unknown}
         \cup {PathAccess(k, Dir(<<"f">>)) : k \in {"read", "write"}}

NotJudged == [by |-> "none", index |-> 0, decision |-> "deny"]
NoRequest == [plugin |-> "none", access |-> Unknown]

PolicyInit ==
  /\ policy \in {Compile(specs) : specs \in PathSpecs \cup OtherSpecs}
  /\ session = <<>> /\ answered = <<>>
  /\ request = NoRequest
  /\ verdict = NotJudged

Judge ==
  /\ Started /\ verdict = NotJudged
  /\ \E p \in Plugin, a \in Accesses :
       /\ request' = [plugin |-> p, access |-> a]
       /\ verdict' = judge_with([plugin |-> p, access |-> a])
  /\ UNCHANGED <<policy, session, answered>>

(* The person answers for the session what nothing else decided when the prompt opened: an
   answer to the same question at another prompt may have been given since.  (Bound: not
   under the policies of one path rule.)                                                  *)
AnswerForSession ==
  /\ verdict.by \in {"default", "session"} /\ subject(request.access) # NoSubject
  /\ Len(answered) < MaxAnswers /\ ~OnePathRule
  /\ \E d \in {"allow", "deny"} :
       /\ session' = remember(session, [decision |-> d, plugin |-> request.plugin,
                                        kind |-> request.access.kind,
                                        subject |-> subject(request.access)])
       /\ answered' = Append(answered, [decision |-> d, request |-> request])
  /\ request' = NoRequest /\ verdict' = NotJudged
  /\ UNCHANGED policy

Settle ==
  /\ verdict # NotJudged
  /\ request' = NoRequest /\ verdict' = NotJudged
  /\ UNCHANGED <<policy, session, answered>>

PolicyNext == Judge \/ AnswerForSession \/ Settle

PolicySpec == PolicyInit /\ [][PolicyNext]_policyVars

-----------------------------------------------------------------------------
(* A path rule means the file its pattern names, however the pattern and the plugin spell
   it: relative or not, with `..`, through a link, or where nothing is yet.  One without
   globs admits the path the host submits for its own text and no other; one that ends in
   `/**`, that path and what is below it.                                               *)
RuleMeansItsPath ==
  (verdict # NotJudged /\ OnePathRule) =>
    LET pattern == policy[1].spec.pattern
        written == [pattern EXCEPT !.comps = SelectSeq(@, LAMBDA c : c # "**")]
    IN  verdict.by = "rule" <=>
          IF Contains(pattern.comps, "**")
          THEN IsPrefix(deepest_canonical(resolve_path(written)), request.access.path)
          ELSE request.access.path = Submitted(policy[1].kind, written)

(* An answer given for the session decides only what the person was shown: the same plugin
   asking for the same path, or the same command in the same place without input, or the
   same URL but for what was cut of it, and cut of both.  The last answer stands, and none
   comes before a compiled rule.                                                         *)
SameQuestion(a, b) ==
  /\ a.plugin = b.plugin
  /\ IF a.access.kind = "http" /\ b.access.kind = "http"
     THEN /\ a.access.method = b.access.method
          /\ a.access.url = b.access.url
     ELSE a.access = b.access

AnswersStayNarrow ==
  /\ verdict.by = "session" =>
       /\ ~\E i \in 1..Len(policy) : RuleMatches(policy[i], request)
       /\ \E i \in 1..Len(answered) :
            /\ SameQuestion(answered[i].request, request)
            /\ answered[i].decision = verdict.decision
            /\ \A j \in (i + 1)..Len(answered) : ~SameQuestion(answered[j].request, request)
  /\ verdict.by = "default" =>
       ~\E i \in 1..Len(answered) : SameQuestion(answered[i].request, request)
=============================================================================
