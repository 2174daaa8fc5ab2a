---------------------------- MODULE ProviderTurn ----------------------------
(***************************************************************************)
(* A conversation as the vendor sees it: the agent loop's rounds and       *)
(* retries (gwennol-core/src/agent/mod.rs), the provider's request and     *)
(* what it makes of the answer (provider-anthropic/src/lib.rs, wire.rs),   *)
(* and the vendor behind it.  Buffered turns; StreamTranslator has the     *)
(* streamed form of the same answer, AgentLoop the cancellations and how a *)
(* tool call is run.                                                       *)
(*                                                                         *)
(* What a block says does not matter, only whose it is: block <<n, i>> is  *)
(* the i-th of the vendor's n-th answer.                                   *)
(***************************************************************************)
EXTENDS Naturals, Sequences, SequencesExt, FiniteSets, FiniteSetsExt

CONSTANTS
  MaxRounds,       \* SessionConfig::max_rounds
  MaxAttempts,     \* RetryPolicy::max_attempts
  InitialBackoff,  \* RetryPolicy::initial_backoff
  MaxBackoff,      \* RetryPolicy::max_backoff
  MaxTurns,        \* bound: user turns
  LongestAnswer,   \* bound: blocks of an answer
  MaxRequests      \* bound: requests of a session, two if its settings are special

ASSUME TurnAssumption ==
  /\ MaxRounds \in Nat /\ MaxAttempts \in Nat /\ InitialBackoff \in Nat /\ MaxBackoff \in Nat
  /\ MaxTurns \in Nat /\ LongestAnswer \in Nat /\ MaxRequests \in Nat

VARIABLES
  given,       \* the session's settings: system, tools, max_tokens
  config,      \* the provider's $config
  messages,    \* Transcript::messages
  step,        \* where the turn is
  turn,        \* how many turns were started
  round,       \* round_no
  attempt,     \* attempt
  backoff,     \* backoff
  waited,      \* what was waited before this attempt
  result,      \* RoundResult of the last attempt
  asked,        \* history: the requests the vendor got, and what was waited before each
  said,        \* history: what the vendor answered to each
  failed       \* what the last turn returned

settings == <<given, config>>
providerVars == <<settings, messages, step, turn, round, attempt, backoff, waited, result, asked, said, failed>>

Key == {"model", "max_tokens", "stream", "thinking", "messages", "system", "tools", "temperature"}

(* Bound: at most one key of $config is set, to what the provider takes or to what it does
   not; `extra` is a set of keys.                                                        *)
NoConfig == [model |-> "none", max_tokens |-> "none", thinking |-> "none",
             base_url |-> "none", extra |-> {}]

Configs ==
  {[NoConfig EXCEPT ![k] = v] : k \in DOMAIN NoConfig \ {"extra"}, v \in {"none", "good", "bad"}}
    \cup {[NoConfig EXCEPT !.extra = keys] :
            keys \in {{"model", "temperature"}, {"system", "tools"}, {"stream", "messages"}, {"bad"}}}

NoSettings == [system |-> FALSE, tools |-> FALSE, max_tokens |-> "none"]

TurnInit ==
  /\ given \in [system: BOOLEAN, tools: BOOLEAN, max_tokens: {"none", "good", "bad"}]
  /\ given.system = given.tools
  /\ config \in Configs
  /\ given.max_tokens = "none" \/ config = [NoConfig EXCEPT !.max_tokens = config.max_tokens]
  /\ messages = <<>>
  /\ step = "idle"
  /\ turn = 0 /\ round = 0 /\ attempt = 0 /\ backoff = 0 /\ waited = 0
  /\ result = [is |-> "none"]
  /\ asked = <<>> /\ said = <<>>
  /\ failed = "none"

-----------------------------------------------------------------------------
(* The transcript. *)

UserText(n) == [type |-> "text", of |-> <<0, n>>]
Part(type, of) == [type |-> type, of |-> of]

push_user_text(n) ==
  IF messages # <<>> /\ Last(messages).role = "user"
  THEN [messages EXCEPT ![Len(messages)].content = Append(@, UserText(n))]
  ELSE Append(messages, [role |-> "user", content |-> <<UserText(n)>>])

(* The blocks of one type, in order. *)
OfType(content, type) ==
  FlattenSeq([i \in 1..Len(content) |-> IF content[i].type = type THEN <<content[i]>> ELSE <<>>])

Calls(content) == OfType(content, "tool_use")

Results(content) ==
  LET calls == Calls(content)
  IN  [i \in 1..Len(calls) |-> Part("tool_result", calls[i].of)]

-----------------------------------------------------------------------------
(* build_request: the keys of the request, and where each value is from.  An `opaque` block
   of this provider is unwrapped where it is.                                            *)
Replayed(block) == IF block.type = "opaque" THEN Part("thinking", block.of) ELSE block

replay_messages ==
  [i \in 1..Len(messages) |->
     IF messages[i].role # "assistant" THEN messages[i]
     ELSE [messages[i] EXCEPT !.content = [j \in DOMAIN @ |-> Replayed(@[j])]]]

(* What build_request or messages_url refuses: the step fails, and nothing is sent. *)
Refused ==
  \/ \E k \in DOMAIN config \ {"extra", "max_tokens"} : config[k] = "bad"
  \/ "bad" \in config.extra
  \/ given.max_tokens = "bad"
  \/ given.max_tokens = "none" /\ config.max_tokens = "bad"

Owned ==
  [model      |-> IF config.model = "none" THEN "default" ELSE "config",
   max_tokens |-> IF given.max_tokens = "good" THEN "input"
                  ELSE IF config.max_tokens = "good" THEN "config" ELSE "default",
   stream     |-> "input",
   messages   |-> "input",
   thinking   |-> IF config.thinking = "none" THEN "unset" ELSE "config",
   system     |-> IF given.system THEN "input" ELSE "unset",
   tools      |-> IF given.tools THEN "input" ELSE "unset"]

(* `extra` fills the keys nobody set. *)
Origin(key) ==
  IF key \in DOMAIN Owned /\ Owned[key] # "unset" THEN Owned[key]
  ELSE IF key \in config.extra THEN "extra" ELSE "unset"

build_request == [messages |-> replay_messages, from |-> [k \in Key |-> Origin(k)]]

-----------------------------------------------------------------------------
(* What the vendor may answer: an HTTP status, and a message, an error document or what is
   no document.                                                                          *)
Contents ==
  UNION {[1..k -> {"text", "thinking", "tool_use", "unknown"}] : k \in 0..LongestAnswer}

Stop == {"end_turn", "tool_use", "refusal"}

Message(contents, stops) ==
  [status: {"ok"}, body: {"message"}, content: contents, stop: stops, usage: {TRUE}]

Answers ==
  Message(Contents, Stop)
    \cup Message({<<"malformed", "text">>, <<"tool_use", "malformed">>}, {"end_turn"})
    \cup Message({<<"text">>}, {"pause_turn"})
    \cup [status: {"ok"}, body: {"message"}, content: {<<"text">>}, stop: {"end_turn"}, usage: {FALSE}]
    \cup [status: {"ok", "busy", "refused"}, body: {"overloaded", "invalid", "text"},
          content: {<<>>}, stop: {"end_turn"}, usage: {FALSE}]

NoAnswer == [status |-> "none", body |-> "none", content |-> <<>>, stop |-> "none", usage |-> FALSE]

(* The types of error that say whether to repeat the request, and the statuses. *)
retryable_kind(body) ==
  IF body = "overloaded" THEN "yes" ELSE IF body = "invalid" THEN "no" ELSE "unknown"

retryable_status(status) == status = "busy"

RoundFailed(retryable) == [is |-> "failed", retryable |-> retryable]

(* Mutant: the status alone decides. *)
http_failure_ByStatus(answer) == RoundFailed(IF retryable_status(answer.status) THEN "yes" ELSE "no")

http_failure(answer) ==
  RoundFailed(IF retryable_status(answer.status) \/ retryable_kind(answer.body) = "yes"
              THEN "yes" ELSE "no")

(* Mutant: what cannot be shown is not kept. *)
contract_content_Shown(n, content) ==
  LET shown == SelectSeq([i \in DOMAIN content |-> Part(content[i], <<n, i>>)],
                         LAMBDA b : b.type \notin {"thinking", "unknown"})
  IN  shown

(* Contract blocks: a thinking block becomes `opaque`, one of an unknown kind is skipped. *)
contract_content(n, content) ==
  LET Mapped(i) ==
        IF content[i] = "unknown" THEN <<>>
        ELSE IF content[i] = "thinking" THEN <<Part("opaque", <<n, i>>)>>
        ELSE <<Part(content[i], <<n, i>>)>>
  IN  FlattenSeq([i \in 1..Len(content) |-> Mapped(i)])

translate_message(n, answer) ==
  IF answer.body # "message" THEN RoundFailed(retryable_kind(answer.body))
  ELSE IF "malformed" \in Range(answer.content) \/ answer.stop = "pause_turn"
  THEN RoundFailed("no")
  ELSE IF ~answer.usage THEN RoundFailed("unknown")
  ELSE [is |-> "message", content |-> contract_content(n, answer.content), stop |-> answer.stop]

(* A body cut at the host's cap is no document. *)
buffered_output(n, answer, truncated) ==
  IF truncated THEN RoundFailed("no")
  ELSE IF answer.status # "ok" THEN http_failure(answer)
  ELSE translate_message(n, answer)

-----------------------------------------------------------------------------
AtLeastOne(n) == IF n = 0 THEN 1 ELSE n

(* Every turn, and every round, starts with a first attempt. *)
StartRound(n) ==
  /\ round' = n
  /\ attempt' = 1
  /\ backoff' = InitialBackoff
  /\ waited' = 0

Turn ==
  /\ step = "idle" /\ turn < MaxTurns
  /\ turn' = turn + 1
  /\ messages' = push_user_text(turn + 1)
  /\ StartRound(1)
  /\ step' = "ask"
  /\ failed' = "none"
  /\ UNCHANGED <<settings, result, asked, said>>

TurnEnds(how) ==
  /\ failed' = how
  /\ step' = "idle"

(* round, chat: a request that cannot be built fails the step. *)
Chat ==
  /\ step = "ask"
  /\ Len(asked) < IF config = NoConfig /\ given = NoSettings THEN MaxRequests ELSE 2
  /\ IF Refused THEN TurnEnds("step") /\ UNCHANGED asked
     ELSE /\ asked' = Append(asked, [turn |-> turn, round |-> round, attempt |-> attempt,
                                   waited |-> waited, request |-> build_request])
          /\ step' = "vendor"
          /\ UNCHANGED failed
  /\ UNCHANGED <<settings, messages, turn, round, attempt, backoff, waited, result, said>>

Answer ==
  /\ step = "vendor"
  /\ \E answer \in Answers, truncated \in BOOLEAN :
       /\ truncated => answer.content = <<>>
       /\ said' = Append(said, [answer |-> answer, truncated |-> truncated])
       /\ result' = buffered_output(Len(asked), answer, truncated)
  /\ step' = "judge"
  /\ UNCHANGED <<settings, messages, turn, round, attempt, backoff, waited, asked, failed>>

(* The fetch itself fails: the operator denied it, or nothing answered. *)
FetchFails ==
  /\ step = "vendor"
  /\ said' = Append(said, [answer |-> NoAnswer, truncated |-> FALSE])
  /\ TurnEnds("step")
  /\ UNCHANGED <<settings, messages, turn, round, attempt, backoff, waited, result, asked>>

(* round_with_retry *)
RetryRound ==
  /\ step = "judge" /\ result.is = "failed"
  /\ result.retryable = "yes" /\ attempt < AtLeastOne(MaxAttempts)
  /\ step' = "wait"
  /\ UNCHANGED <<settings, messages, turn, round, attempt, backoff, waited, result, asked, said, failed>>

GiveUp ==
  /\ step = "judge" /\ result.is = "failed"
  /\ result.retryable # "yes" \/ attempt >= AtLeastOne(MaxAttempts)
  /\ TurnEnds("provider")
  /\ UNCHANGED <<settings, messages, turn, round, attempt, backoff, waited, result, asked, said>>

(* The wait is clamped, the backoff is not. *)
Wait ==
  /\ step = "wait"
  /\ waited' = Min({backoff, MaxBackoff})
  /\ backoff' = 2 * backoff
  /\ attempt' = attempt + 1
  /\ step' = "ask"
  /\ UNCHANGED <<settings, messages, turn, round, result, asked, said, failed>>

(* Session::turn, once the round has a message. *)
NoCalls ==
  /\ step = "judge" /\ result.is = "message" /\ Calls(result.content) = <<>>
  /\ IF result.stop = "tool_use" THEN TurnEnds("contract") /\ UNCHANGED messages
     ELSE /\ messages' = IF result.content = <<>> THEN messages
                         ELSE Append(messages, [role |-> "assistant", content |-> result.content])
          /\ TurnEnds("none")
  /\ UNCHANGED <<settings, turn, round, attempt, backoff, waited, result, asked, said>>

AnswerCalls ==
  /\ step = "judge" /\ result.is = "message" /\ Calls(result.content) # <<>>
  /\ messages' = messages \o <<[role |-> "assistant", content |-> result.content],
                               [role |-> "user", content |-> Results(result.content)]>>
  /\ IF result.stop = "refusal" THEN TurnEnds("none") /\ UNCHANGED <<round, attempt, backoff, waited>>
     ELSE IF round >= AtLeastOne(MaxRounds)
     THEN TurnEnds("round_limit") /\ UNCHANGED <<round, attempt, backoff, waited>>
     ELSE StartRound(round + 1) /\ step' = "ask" /\ UNCHANGED failed
  /\ UNCHANGED <<settings, turn, result, asked, said>>

TurnNext ==
  \/ Turn \/ Chat \/ Answer \/ FetchFails
  \/ RetryRound \/ GiveUp \/ Wait
  \/ NoCalls \/ AnswerCalls

TurnSpec == TurnInit /\ [][TurnNext]_providerVars
-----------------------------------------------------------------------------
(* The vendor is shown its own words.  Each request holds every message the vendor completed
   before it, in order, each block of a kind the provider knows as the vendor made it and
   where it made it, a thinking block before the call it led to; every call is answered
   right behind its message and nothing else is; everything the user said is there; and no
   two messages of one role meet.                                                          *)
Completed(n) ==
  /\ ~said[n].truncated
  /\ LET a == said[n].answer
     IN  /\ a.status = "ok" /\ a.body = "message" /\ a.usage /\ a.stop # "pause_turn"
         /\ "malformed" \notin Range(a.content)
         /\ a.stop = "tool_use" => "tool_use" \in Range(a.content)
         /\ \E i \in DOMAIN a.content : a.content[i] # "unknown"

Own(n) ==
  LET content == said[n].answer.content
      Known(i) == IF content[i] = "unknown" THEN <<>> ELSE <<Part(content[i], <<n, i>>)>>
  IN  FlattenSeq([i \in 1..Len(content) |-> Known(i)])

Spoken(shown, role) ==
  FlattenSeq([i \in 1..Len(shown) |-> IF shown[i].role = role THEN <<shown[i].content>> ELSE <<>>])

VendorSeesItsOwn ==
  asked # <<>> =>
    LET n == Len(asked)
        shown == asked[n].request.messages
        Done(k) == IF Completed(k) THEN <<Own(k)>> ELSE <<>>
        heard == FlattenSeq(Spoken(shown, "user"))
    IN  /\ Spoken(shown, "assistant") = FlattenSeq([k \in 1..(n - 1) |-> Done(k)])
        /\ Len(shown) % 2 = 1
        /\ \A i \in DOMAIN shown : shown[i].role = (IF i % 2 = 1 THEN "user" ELSE "assistant")
        /\ \A i \in DOMAIN shown : shown[i].role = "user" =>
             OfType(shown[i].content, "tool_result")
               = IF i = 1 THEN <<>> ELSE Results(shown[i - 1].content)
        /\ \A i \in DOMAIN shown : \A j, k \in DOMAIN shown[i].content :
             shown[i].content[j].of[1] = 0 /\ shown[i].content[k].type = "tool_result" => k < j
        /\ OfType(heard, "text")
             = [t \in 1..asked[n].turn |-> UserText(t)]

(* A round is repeated only when the vendor's answer, by its status or by the type of its
   error, says that repeating may help, and never past the attempts; the request repeated is
   the same request, after a wait that doubles up to its ceiling.  A turn given up for the
   provider's failure was not worth another attempt, or had no more.  And what `extra` adds
   to a request replaces nothing.                                                          *)
WorthRepeating(n) ==
  /\ ~said[n].truncated
  /\ said[n].answer.body = "overloaded" \/ said[n].answer.status = "busy"
  /\ ~Completed(n)

RetryRepeats ==
  /\ \A n \in 1..(Len(asked) - 1) :
       (asked[n + 1].turn = asked[n].turn /\ asked[n + 1].round = asked[n].round) =>
         /\ asked[n + 1].request = asked[n].request
         /\ WorthRepeating(n)
         /\ asked[n + 1].attempt = asked[n].attempt + 1
         /\ asked[n + 1].waited =
              Min({IF asked[n].attempt = 1 THEN InitialBackoff ELSE 2 * asked[n].waited, MaxBackoff})
  /\ \A n \in DOMAIN asked :
       /\ asked[n].attempt <= AtLeastOne(MaxAttempts)
       /\ \A k \in {"model", "max_tokens", "stream", "messages"} :
            asked[n].request.from[k] # "extra"
  /\ failed = "provider" =>
       ~WorthRepeating(Len(asked)) \/ Last(asked).attempt = AtLeastOne(MaxAttempts)
=============================================================================
