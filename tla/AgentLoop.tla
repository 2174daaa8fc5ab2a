----------------------------- MODULE AgentLoop -----------------------------
(***************************************************************************)
(* The agent loop of gwennol-core (agent/mod.rs): one conversation with a  *)
(* provider, driven a user turn at a time.  A turn is a bounded number of  *)
(* provider rounds; a round is retried while the provider marks its        *)
(* failure retryable; the tool calls a round makes are answered one at a   *)
(* time; and a cancellation token, fired by somebody else at any moment,   *)
(* may cut all of it.                                                      *)
(*                                                                         *)
(* Around the loop the module models what it awaits: the provider          *)
(* invocation and its event stream, and the tool invocation as the kernel  *)
(* runs it, a series of host steps each of which asks the operator first.  *)
(* Message contents are abstracted as in Conversation; time (the backoff)  *)
(* and token usage are left out.                                           *)
(***************************************************************************)
EXTENDS Naturals, Sequences

CONSTANTS
  Chunk,         \* pieces of model text
  Call,          \* identifiers a model may give to a tool call
  Streaming,     \* SessionConfig::stream
  MaxRounds,     \* SessionConfig::max_rounds
  MaxAttempts,   \* RetryPolicy::max_attempts
  MaxTurns,      \* bound: user turns explored
  MaxEvents,     \* bound: text chunks and calls in one provider round
  MaxSteps       \* bound: host steps one tool action makes

ASSUME ParametersAssumption ==
  /\ Streaming \in BOOLEAN
  /\ MaxRounds \in Nat
  /\ MaxAttempts \in Nat
  /\ MaxTurns \in Nat
  /\ MaxEvents \in Nat
  /\ MaxSteps \in Nat

VARIABLES
  transcript,   \* Transcript::messages
  pc,           \* where Session::turn is
  turns,        \* how many turns were started
  round,        \* round_no of the turn
  attempt,      \* attempt of the round
  draft,        \* the assistant message being received, then the round's
  results,      \* results of the round's calls so far
  tool,         \* the tool invocation the loop awaits
  cancelled,    \* the turn's token has fired
  outcome,      \* what the last turn returned
  log           \* every event emitted to the operator

vars == <<transcript, pc, turns, round, attempt, draft, results, tool,
          cancelled, outcome, log>>

-----------------------------------------------------------------------------
(* Messages, as the conversation has them. *)

C == INSTANCE Conversation WITH conversation <- transcript, Turn <- 1..MaxTurns

Event ==
  [ev: {"Text"}, chunk: Chunk]
    \cup [ev: {"ToolCall", "ToolResult", "ToolFailed"}, id: Call]
    \cup [ev: {"Retry", "TurnComplete"}]

Text(c) == [ev |-> "Text", chunk |-> c]
ToolCall(c) == [ev |-> "ToolCall", id |-> c]
ToolResult(c) == [ev |-> "ToolResult", id |-> c]
ToolFailed(c) == [ev |-> "ToolFailed", id |-> c]
Retry == [ev |-> "Retry"]
TurnComplete == [ev |-> "TurnComplete"]

NoDraft == [role |-> "assistant", text |-> <<>>, opaque |-> FALSE, calls |-> <<>>]

(* What a message holds; the bound MaxEvents is on this. *)
Received(d) == Len(d.text) + Len(d.calls) + (IF d.opaque THEN 1 ELSE 0)

AtMost(n, S) == UNION {[1..m -> S] : m \in 0..n}

(* The messages a buffered provider may answer with. *)
Drafts ==
  {d \in [role: {"assistant"}, text: AtMost(MaxEvents, Chunk),
          opaque: BOOLEAN, calls: AtMost(MaxEvents, Call)] :
     Received(d) <= MaxEvents}

(* Every stop reason but these two is handled alike. *)
StopReason == {"end_turn", "tool_use", "refusal"}

(* .max(1) on both limits *)
AtLeastOne(n) == IF n = 0 THEN 1 ELSE n
Rounds == AtLeastOne(MaxRounds)
Attempts == AtLeastOne(MaxAttempts)

(***************************************************************************)
(* A tool invocation: how many of its host steps were let run, whether one *)
(* is asking or working or the kernel is between two of them, and how the  *)
(* invocation ended.                                                       *)
(***************************************************************************)
NoTool == [phase |-> "none", ran |-> 0, end |-> "none"]

ToolEnd == {"ok", "malformed", "failed", "withdrawn", "cancelled"}

Tool == [phase: {"none", "between", "asking", "working", "ended"},
         ran: 0..MaxSteps, end: ToolEnd \cup {"none"}]

TurnError == {"cancelled", "step", "contract", "stream_ended", "stream_failed",
              "provider", "round_limit"}

Outcome == TurnError \cup {"none", "completed"}

(* The state holds what the loop's types admit, and neither limit on rounds *)
(* and attempts is ever passed (Session::turn, Session::round_with_retry).  *)
TypeOK ==
  /\ transcript \in Seq(C!Message)
  /\ pc \in {"idle", "round", "chat", "stream", "backoff", "answer", "tool"}
  /\ turns \in 0..MaxTurns
  /\ round \in 0..Rounds
  /\ attempt \in 0..Attempts
  /\ draft \in C!AssistantMessage
  /\ results \in Seq(C!Result)
  /\ tool \in Tool
  /\ cancelled \in BOOLEAN
  /\ outcome \in Outcome
  /\ log \in Seq(Event)

Init ==
  /\ transcript = <<>>
  /\ pc = "idle"
  /\ turns = 0
  /\ round = 0
  /\ attempt = 0
  /\ draft = NoDraft
  /\ results = <<>>
  /\ tool = NoTool
  /\ cancelled = FALSE
  /\ outcome = "none"
  /\ log = <<>>

-----------------------------------------------------------------------------
(* The turn. *)

(***************************************************************************)
(* Session::turn is called: the user's text enters the transcript and the  *)
(* first round begins.  The frontend hands every turn a fresh token.       *)
(***************************************************************************)
StartTurn ==
  /\ pc = "idle"
  /\ turns < MaxTurns
  /\ turns' = turns + 1
  /\ transcript' = C!WithUserText(transcript, turns + 1)
  /\ pc' = "round"
  /\ round' = 1
  /\ attempt' = 1
  /\ draft' = NoDraft
  /\ results' = <<>>
  /\ tool' = NoTool
  /\ cancelled' = FALSE
  /\ outcome' = "none"
  /\ UNCHANGED log

(* Whoever holds the token fires it, at any point of the turn. *)
Cancel ==
  /\ pc # "idle"
  /\ ~cancelled
  /\ cancelled' = TRUE
  /\ UNCHANGED <<transcript, pc, turns, round, attempt, draft, results, tool,
                 outcome, log>>

(* The turn returns: the round in progress is dropped with its draft. *)
Return(how) ==
  /\ pc' = "idle"
  /\ outcome' = how
  /\ round' = 0
  /\ attempt' = 0
  /\ draft' = NoDraft
  /\ results' = <<>>
  /\ tool' = NoTool
  /\ UNCHANGED <<turns, cancelled>>

Fail(error) ==
  /\ Return(error)
  /\ UNCHANGED <<transcript, log>>

-----------------------------------------------------------------------------
(* One provider round. *)

(* The kernel starts the provider's chat action, or refuses it because the *)
(* token has fired.                                                        *)
BeginRound ==
  /\ pc = "round"
  /\ IF cancelled
     THEN Fail("cancelled")
     ELSE /\ pc' = "chat"
          /\ draft' = NoDraft
          /\ UNCHANGED <<transcript, turns, round, attempt, results, tool,
                         cancelled, outcome, log>>

(* Mutant: the provider's step error is reported without asking the token. *)
ChatStepError_TokenUnread ==
  /\ pc = "chat"
  /\ Fail("step")

(* A step error of the provider is fatal; after the token it is the cut. *)
ChatStepError ==
  /\ pc = "chat"
  /\ Fail(IF cancelled THEN "cancelled" ELSE "step")

(* The provider answers with something its contract does not allow. *)
ChatContract ==
  /\ pc = "chat"
  /\ Fail("contract")

ChatStreamHandle ==
  /\ pc = "chat"
  /\ Streaming
  /\ pc' = "stream"
  /\ UNCHANGED <<transcript, turns, round, attempt, draft, results, tool,
                 cancelled, outcome, log>>

(***************************************************************************)
(* The round returned a whole message m: the part of Session::turn between *)
(* round_with_retry and the first tool call.  Streamed text was shown as   *)
(* it came; a buffered round's is shown here.                              *)
(***************************************************************************)
TextOf(m) == [k \in 1..Len(m.text) |-> Text(m.text[k])]

Shown(m) == IF Streaming THEN log ELSE log \o TextOf(m)

(* Mutant: an empty message is stored like any other. *)
AcceptNoCalls_StoresEmpty(m, stop) ==
  /\ m.calls = <<>>
  /\ IF stop = "tool_use"
     THEN /\ Return("contract")
          /\ log' = Shown(m)
          /\ UNCHANGED transcript
     ELSE /\ Return("completed")
          /\ log' = Append(Shown(m), TurnComplete)
          /\ transcript' = Append(transcript, m)

AcceptNoCalls(m, stop) ==
  /\ m.calls = <<>>
  /\ IF stop = "tool_use"
     THEN /\ Return("contract")
          /\ log' = Shown(m)
          /\ UNCHANGED transcript
     ELSE /\ Return("completed")
          /\ log' = Append(Shown(m), TurnComplete)
          /\ transcript' = IF C!IsEmpty(m) THEN transcript ELSE Append(transcript, m)

NotRun(cs) == [k \in 1..Len(cs) |-> [id |-> cs[k], how |-> "refused", ran |-> 0]]

(* Mutant: the calls of a refused round are answered without an event. *)
AcceptRefusal_Silent(m, stop) ==
  /\ m.calls # <<>>
  /\ stop = "refusal"
  /\ Return("completed")
  /\ log' = Append(Shown(m), TurnComplete)
  /\ transcript' =
       transcript \o <<m, [role |-> "user", results |-> NotRun(m.calls), text |-> <<>>]>>

AcceptRefusal(m, stop) ==
  /\ m.calls # <<>>
  /\ stop = "refusal"
  /\ Return("completed")
  /\ log' = (Shown(m) \o [k \in 1..Len(m.calls) |-> ToolFailed(m.calls[k])])
              \o <<TurnComplete>>
  /\ transcript' =
       transcript \o <<m, [role |-> "user", results |-> NotRun(m.calls), text |-> <<>>]>>

(* Mutant: the assistant message is stored before its calls are answered. *)
AcceptCalls_StoresEarly(m, stop) ==
  /\ m.calls # <<>>
  /\ stop # "refusal"
  /\ pc' = "answer"
  /\ draft' = m
  /\ log' = Shown(m)
  /\ results' = <<>>
  /\ transcript' = Append(transcript, m)
  /\ UNCHANGED <<turns, round, attempt, tool, cancelled, outcome>>

AcceptCalls(m, stop) ==
  /\ m.calls # <<>>
  /\ stop # "refusal"
  /\ pc' = "answer"
  /\ draft' = m
  /\ log' = Shown(m)
  /\ results' = <<>>
  /\ UNCHANGED <<transcript, turns, round, attempt, tool, cancelled, outcome>>

Accept(m, stop) ==
  \/ AcceptNoCalls(m, stop)
  \/ AcceptRefusal(m, stop)
  \/ AcceptCalls(m, stop)

ChatMessage ==
  /\ pc = "chat"
  /\ ~Streaming
  /\ \E m \in Drafts, stop \in StopReason : Accept(m, stop)

(***************************************************************************)
(* The provider reported a failure as data.  One it marked retryable is    *)
(* announced and waited out while attempts remain; any other ends the turn.*)
(***************************************************************************)
Failed(retryable) ==
  IF retryable /\ attempt < Attempts
  THEN /\ pc' = "backoff"
       /\ log' = Append(log, Retry)
       /\ draft' = NoDraft
       /\ UNCHANGED <<transcript, turns, round, attempt, results, tool,
                      cancelled, outcome>>
  ELSE Fail("provider")

ChatFailed ==
  /\ pc = "chat"
  /\ ~Streaming
  /\ \E retryable \in BOOLEAN : Failed(retryable)

(* Mutant: the wait ends by the token alone. *)
BackoffOver_NeverElapses ==
  /\ pc = "backoff"
  /\ cancelled
  /\ Fail("cancelled")

(* The backoff wait, raced with the token: a fired token wins the race. *)
BackoffOver ==
  /\ pc = "backoff"
  /\ IF cancelled
     THEN Fail("cancelled")
     ELSE /\ pc' = "round"
          /\ attempt' = attempt + 1
          /\ UNCHANGED <<transcript, turns, round, draft, results, tool,
                         cancelled, outcome, log>>

-----------------------------------------------------------------------------
(* The event stream of a streamed round. *)

StreamText ==
  /\ pc = "stream"
  /\ Received(draft) < MaxEvents
  /\ \E c \in Chunk :
       /\ draft' = [draft EXCEPT !.text = Append(@, c)]
       /\ log' = Append(log, Text(c))
  /\ UNCHANGED <<transcript, pc, turns, round, attempt, results, tool,
                 cancelled, outcome>>

StreamBlock ==
  /\ pc = "stream"
  /\ Received(draft) < MaxEvents
  /\ \/ \E c \in Call : draft' = [draft EXCEPT !.calls = Append(@, c)]
     \/ ~draft.opaque /\ draft' = [draft EXCEPT !.opaque = TRUE]
  /\ UNCHANGED <<transcript, pc, turns, round, attempt, results, tool,
                 cancelled, outcome, log>>

StreamEnd ==
  /\ pc = "stream"
  /\ \E stop \in StopReason : Accept(draft, stop)

StreamError ==
  /\ pc = "stream"
  /\ \E retryable \in BOOLEAN : Failed(retryable)

(* An event the contract does not allow, a line that is not JSON or has no *)
(* end in sight.                                                           *)
StreamContract ==
  /\ pc = "stream"
  /\ Fail("contract")

(* The reader met the stream's end or its source's failure, or gave up on  *)
(* it because of the token; with the token fired each is the cut.          *)
StreamOver ==
  /\ pc = "stream"
  /\ IF cancelled
     THEN Fail("cancelled")
     ELSE \E error \in {"stream_ended", "stream_failed"} : Fail(error)

-----------------------------------------------------------------------------
(* Answering the calls of a round. *)

(* The call to answer next. *)
Asked == draft.calls[Len(results) + 1]

AnswerWith(event, how, ran) ==
  /\ results' = Append(results, [id |-> Asked, how |-> how, ran |-> ran])
  /\ log' = Append(log, event)
  /\ pc' = "answer"
  /\ tool' = NoTool
  /\ UNCHANGED <<transcript, turns, round, attempt, draft, cancelled, outcome>>

(* A call found by the cut before it was dispatched. *)
SkipCall ==
  /\ pc = "answer"
  /\ Len(results) < Len(draft.calls)
  /\ cancelled
  /\ AnswerWith(ToolFailed(Asked), "before_start", 0)

(* Mutant: the token is not read before the call is looked at. *)
RejectCall_TokenUnread ==
  /\ pc = "answer"
  /\ Len(results) < Len(draft.calls)
  /\ results' = Append(results, [id |-> Asked, how |-> "failed", ran |-> 0])
  /\ log' = log \o <<ToolCall(Asked), ToolFailed(Asked)>>
  /\ UNCHANGED <<transcript, pc, turns, round, attempt, draft, tool, cancelled,
                 outcome>>

(* The model named no tool of the session, or its arguments do not match   *)
(* the tool's schema: announced, and answered without being dispatched.    *)
RejectCall ==
  /\ pc = "answer"
  /\ Len(results) < Len(draft.calls)
  /\ ~cancelled
  /\ results' = Append(results, [id |-> Asked, how |-> "failed", ran |-> 0])
  /\ log' = log \o <<ToolCall(Asked), ToolFailed(Asked)>>
  /\ UNCHANGED <<transcript, pc, turns, round, attempt, draft, tool, cancelled,
                 outcome>>

DispatchCall ==
  /\ pc = "answer"
  /\ Len(results) < Len(draft.calls)
  /\ ~cancelled
  /\ pc' = "tool"
  /\ log' = Append(log, ToolCall(Asked))
  /\ tool' = [NoTool EXCEPT !.phase = "between"]
  /\ UNCHANGED <<transcript, turns, round, attempt, draft, results, cancelled,
                 outcome>>

(* Cut::from_error: only a withdrawn approval says nothing was done. *)
CutOf(end) == IF end = "withdrawn" THEN "before_start" ELSE "while_running"

(***************************************************************************)
(* The invocation has ended and the loop reads its outcome.  An output is  *)
(* used whatever the token says; an error is read as the cut once the      *)
(* token has fired.                                                        *)
(***************************************************************************)
SettleCall ==
  /\ pc = "tool"
  /\ tool.phase = "ended"
  /\ \/ /\ tool.end = "ok"
        /\ AnswerWith(ToolResult(Asked), "answered", tool.ran)
     \/ /\ tool.end = "malformed"
        /\ AnswerWith(ToolFailed(Asked), "failed", tool.ran)
     \/ /\ tool.end \in {"failed", "withdrawn", "cancelled"}
        /\ AnswerWith(ToolFailed(Asked),
                      IF cancelled THEN CutOf(tool.end) ELSE "failed", tool.ran)

(***************************************************************************)
(* Every call is answered: the exchange is stored whole, and only then may *)
(* the cut or the round limit end the turn.                                *)
(***************************************************************************)
StoreRound ==
  /\ pc = "answer"
  /\ Len(results) = Len(draft.calls)
  /\ transcript' =
       transcript \o <<draft, [role |-> "user", results |-> results, text |-> <<>>]>>
  /\ UNCHANGED log
  /\ IF cancelled
     THEN Return("cancelled")
     ELSE IF round = Rounds
          THEN Return("round_limit")
          ELSE /\ pc' = "round"
               /\ round' = round + 1
               /\ attempt' = 1
               /\ draft' = NoDraft
               /\ results' = <<>>
               /\ UNCHANGED <<turns, tool, cancelled, outcome>>

-----------------------------------------------------------------------------
(* The tool invocation, as the kernel and the host steps run it. *)

ToolStep(t) ==
  /\ tool' = t
  /\ UNCHANGED <<transcript, pc, turns, round, attempt, draft, results,
                 cancelled, outcome, log>>

EndTool(end) == ToolStep([tool EXCEPT !.phase = "ended", !.end = end])

(* The kernel's check of the token before a step. *)
KernelStops ==
  /\ pc = "tool" /\ tool.phase = "between"
  /\ cancelled
  /\ EndTool("cancelled")

(* The action's next host step reaches its approval. *)
StepAsks ==
  /\ pc = "tool" /\ tool.phase = "between"
  /\ ~cancelled
  /\ tool.ran < MaxSteps
  /\ ToolStep([tool EXCEPT !.phase = "asking"])

(* The action returns, possibly something that is no result, or throws. *)
ToolReturns ==
  /\ pc = "tool" /\ tool.phase = "between"
  /\ \E end \in {"ok", "malformed", "failed"} : EndTool(end)

(* Mutant: an answer that races the token wins. *)
Allow_Unbiased ==
  /\ pc = "tool" /\ tool.phase = "asking"
  /\ ToolStep([tool EXCEPT !.phase = "working", !.ran = @ + 1])

(* host::approve: the operator's decision counts only if the token has not *)
(* fired when the two are polled.                                          *)
Allow ==
  /\ pc = "tool" /\ tool.phase = "asking"
  /\ ~cancelled
  /\ ToolStep([tool EXCEPT !.phase = "working", !.ran = @ + 1])

Deny ==
  /\ pc = "tool" /\ tool.phase = "asking"
  /\ ~cancelled
  /\ EndTool("failed")

(* Mutant: the question is not raced with the token. *)
Withdraw_Never == FALSE

Withdraw ==
  /\ pc = "tool" /\ tool.phase = "asking"
  /\ cancelled
  /\ EndTool("withdrawn")

(* The kernel's action ceiling: it withdraws a held approval without the   *)
(* turn's token, or its timeout arrives as a failure.                      *)
Ceiling ==
  /\ pc = "tool"
  /\ \/ tool.phase = "asking" /\ EndTool("withdrawn")
     \/ tool.phase \in {"asking", "working"} /\ EndTool("failed")

WorkDone ==
  /\ pc = "tool" /\ tool.phase = "working"
  /\ ToolStep([tool EXCEPT !.phase = "between"])

WorkCut ==
  /\ pc = "tool" /\ tool.phase = "working"
  /\ cancelled
  /\ EndTool("cancelled")

-----------------------------------------------------------------------------
Loop ==
  \/ BeginRound \/ BackoffOver
  \/ SkipCall \/ RejectCall \/ DispatchCall \/ SettleCall \/ StoreRound

Provider ==
  \/ ChatStepError \/ ChatContract \/ ChatStreamHandle \/ ChatMessage \/ ChatFailed
  \/ StreamText \/ StreamBlock \/ StreamEnd \/ StreamError \/ StreamContract
  \/ StreamOver

ToolRun ==
  \/ KernelStops \/ StepAsks \/ ToolReturns
  \/ Allow \/ Deny \/ Withdraw \/ Ceiling \/ WorkDone \/ WorkCut

Next == StartTurn \/ Cancel \/ Loop \/ Provider \/ ToolRun

Spec == Init /\ [][Next]_vars

-----------------------------------------------------------------------------
(* Safety. *)

(***************************************************************************)
(* The transcript can be sent to the provider at any moment: it begins     *)
(* with the user, the roles alternate, no assistant message is empty, and  *)
(* every call is answered, in order, in the message right after it         *)
(* (agent/transcript.rs, Session::turn).                                   *)
(***************************************************************************)
Replayable == C!IsReplayable(transcript)

(* Nothing partial is kept: while a turn runs, and after one that did not   *)
(* complete, the transcript ends in a user message (TurnError's callers     *)
(* rely on it to start the next turn).                                      *)
EndsInUser ==
  transcript # <<>> /\ (pc # "idle" \/ outcome # "completed")
    => C!EndsInUser(transcript)

(***************************************************************************)
(* What the model is told of a cut: the calls after the one the token      *)
(* caught are all answered as not started, and did not start; and a cut    *)
(* exchange is the last of its turn: what follows it in the transcript is  *)
(* the text of another turn, inside the same message (the for loop over    *)
(* round.calls, and the token read after it, in Session::turn).            *)
(***************************************************************************)
CutHow == {"before_start", "while_running"}

CutInOrder(rs) ==
  \A j, k \in 1..Len(rs) :
    j < k /\ rs[j].how \in CutHow => rs[k].how = "before_start" /\ rs[k].ran = 0

IsCut(rs) == \E k \in 1..Len(rs) : rs[k].how \in CutHow

AfterTheCut ==
  /\ CutInOrder(results)
  /\ \A i \in 1..Len(transcript) : transcript[i].role = "user" =>
       /\ CutInOrder(transcript[i].results)
       /\ IsCut(transcript[i].results) =>
            \/ transcript[i].text # <<>>
            \/ i = Len(transcript) /\ pc = "idle" /\ outcome = "cancelled"

(***************************************************************************)
(* Once the token has fired, a step's error, a stream's end or failure and *)
(* the round limit are read as the cut: no turn whose token fired returns  *)
(* one of them (the "authority" paragraph of agent/mod.rs).                *)
(***************************************************************************)
TokenIsAuthority ==
  pc = "idle" /\ cancelled =>
    outcome \notin {"step", "stream_ended", "stream_failed", "round_limit"}

(***************************************************************************)
(* A call the model is told was never started did not act: none of its     *)
(* host steps was let run (Cut::BeforeStart, steps::CANCELLED_AT_APPROVAL).*)
(* True of tools that make one host step; see the README for the others.   *)
(***************************************************************************)
BeforeStartIsTrue ==
  /\ \A k \in 1..Len(results) :
       results[k].how = "before_start" => results[k].ran = 0
  /\ \A i \in 1..Len(transcript) :
       transcript[i].role = "user" =>
         \A k \in 1..Len(transcript[i].results) :
           transcript[i].results[k].how = "before_start"
             => transcript[i].results[k].ran = 0

-----------------------------------------------------------------------------
(* Steps. *)

(***************************************************************************)
(* From the moment the token fires to the end of the turn nothing is       *)
(* started: no provider round, no tool, no host step's work (the checks in *)
(* Session::turn, round_with_retry and host::approve).                     *)
(***************************************************************************)
Announced == {k \in 1..Len(log) : log[k].ev = "ToolCall"}

CutIsFinal ==
  [][cancelled /\ cancelled' =>
       /\ pc # "chat" => pc' # "chat"
       /\ Announced' = Announced
       /\ tool'.ran <= tool.ran]_vars

-----------------------------------------------------------------------------
(* Refinement and liveness. *)

(* The transcript changes only as a conversation does: by whole exchanges. *)
Implements == C!Spec

(***************************************************************************)
(* The loop runs when it can, and what the token reaches gives way to it:  *)
(* a chat invocation, the stream reader, the kernel between two steps, a   *)
(* held approval and a host step's work all race the token.                *)
(***************************************************************************)
CutFairness ==
  /\ WF_vars(Loop)
  /\ WF_vars(cancelled /\ ChatStepError)
  /\ WF_vars(cancelled /\ StreamOver)
  /\ WF_vars(KernelStops)
  /\ WF_vars(Withdraw)
  /\ WF_vars(WorkCut)

(* Besides, provider, operator and tools answer when asked. *)
AnswerFairness ==
  /\ WF_vars(pc = "chat" /\ Provider)
  /\ WF_vars(StreamEnd)
  /\ WF_vars(Allow \/ Deny)
  /\ WF_vars(WorkDone)
  /\ WF_vars(ToolReturns)

FairSpec == Spec /\ CutFairness

(* A cancelled turn ends, even when nobody answers the open prompt and the  *)
(* provider says nothing more (the cancellation paragraph of agent/mod.rs). *)
CancelEndsTurn == cancelled ~> pc = "idle"

(* A turn ends if everyone it asks answers: a provider that keeps failing   *)
(* and a model that keeps asking for tools run into the limits              *)
(* (RetryPolicy::max_attempts, SessionConfig::max_rounds).                  *)
TurnEnds == AnswerFairness => (pc # "idle" ~> pc = "idle")
=============================================================================
