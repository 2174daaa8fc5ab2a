--------------------------- MODULE AgentLoopProofs ---------------------------
(***************************************************************************)
(* What the agent loop keeps for every choice of its limits, its provider  *)
(* and its tools: the types and limits of its state, that the transcript   *)
(* ends in a user message while a turn runs, that it changes only as a     *)
(* Conversation does, and so can always be replayed; that the token has    *)
(* authority over what a turn returns, starts nothing once it fired, and   *)
(* leaves its cut in order in what the model is told; and of its frontends, *)
(* that they hear of every result, that the stdout of a printing process    *)
(* is the text in the transcript, and that all of the transcript is shown   *)
(* in the pane of the terminal.                                            *)
(*                                                                         *)
(* Hardly any of it is inductive alone.  What is missing is in LoopInv: how *)
(* far the answering of a round has come, which the exchange stored at the *)
(* end depends on, and the limits that the counters have not yet reached;  *)
(* in CutInv: that the token is behind every cut; in StartInv: what a      *)
(* withdrawn approval had let run; in AnswerInv: that the log ends in a    *)
(* ToolCall just while that call's tool runs; in HeldInv: what the print    *)
(* frontend holds back at each place of the turn; and in PaneInv: how much  *)
(* of the transcript and of the round under way the pane says so far, and   *)
(* which of its entries is open for more.                                  *)
(***************************************************************************)
EXTENDS HeadlessOutput, InteractivePane, SequenceFacts

CP == INSTANCE ConversationProofs
        WITH conversation <- transcript, Turn <- 1..MaxTurns

(* The results so far answer the first calls of the round, in their order. *)
AnsweredSoFar ==
  /\ draft.calls # <<>>
  /\ Len(results) <= Len(draft.calls)
  /\ \A k \in 1..Len(results) : results[k].id = draft.calls[k]

LoopInv ==
  /\ pc # "idle" \/ (outcome # "completed" /\ transcript # <<>>) => C!EndsInUser(transcript)
  /\ pc \in {"answer", "tool"} => AnsweredSoFar
  /\ pc = "tool" => Len(results) < Len(draft.calls)
  /\ pc = "backoff" => attempt < Attempts
  /\ tool.phase = "asking" => tool.ran < MaxSteps

IInv == TypeOK /\ LoopInv

-----------------------------------------------------------------------------
(* Types of what the actions build. *)

LEMMA Limits == Rounds \in Nat /\ Rounds > 0 /\ Attempts \in Nat /\ Attempts > 0
BY ParametersAssumption DEF Rounds, Attempts, AtLeastOne

LEMMA MessageTypes ==
  /\ C!Message = C!UserMessage \cup C!AssistantMessage
  /\ \A m \in C!AssistantMessage :
       m.role = "assistant" /\ m.text \in Seq(Chunk) /\ m.calls \in Seq(Call)
  /\ \A rs \in Seq(C!Result) :
       [role |-> "user", results |-> rs, text |-> <<>>] \in C!UserMessage
  /\ NoDraft \in C!AssistantMessage
BY DEF C!Message, C!UserMessage, C!AssistantMessage, NoDraft

LEMMA DraftTypes == Drafts \subseteq C!AssistantMessage
<1> SUFFICES ASSUME NEW d \in Drafts
             PROVE  d \in C!AssistantMessage
  OBVIOUS
<1>1. d \in [role: {"assistant"}, text: AtMost(MaxEvents, Chunk),
             opaque: BOOLEAN, calls: AtMost(MaxEvents, Call)]
  BY DEF Drafts
<1>2. ASSUME NEW S, NEW s \in AtMost(MaxEvents, S)
      PROVE  s \in Seq(S)
  BY <1>2, SeqDef, ParametersAssumption DEF AtMost
<1>3. d.text \in Seq(Chunk) /\ d.calls \in Seq(Call)
  BY <1>1, <1>2
<1> QED
  BY <1>1, <1>3 DEF C!AssistantMessage

LEMMA NoToolTypes == NoTool \in Tool
BY ParametersAssumption DEF NoTool, Tool, ToolEnd

LEMMA EventTypes ==
  /\ \A c \in Chunk : Text(c) \in Event
  /\ \A c \in Call : ToolCall(c) \in Event /\ ToolResult(c) \in Event /\ ToolFailed(c) \in Event
  /\ Retry \in Event /\ TurnComplete \in Event
BY DEF Event, Text, ToolCall, ToolResult, ToolFailed, Retry, TurnComplete

LEMMA ShownTypes ==
  ASSUME TypeOK, NEW m \in C!AssistantMessage
  PROVE  Shown(m) \in Seq(Event)
<1>1. m.text \in Seq(Chunk)
  BY MessageTypes
<1>2. TextOf(m) \in [1..Len(m.text) -> Event]
  BY <1>1, EventTypes DEF TextOf
<1>3. TextOf(m) \in Seq(Event)
  BY <1>1, <1>2, SeqDef
<1> QED
  BY <1>3 DEF Shown, TypeOK

(* A refused round answers every call it asks for. *)
LEMMA NotRunAnswers ==
  ASSUME NEW cs \in Seq(Call)
  PROVE  /\ NotRun(cs) \in Seq(C!Result)
         /\ C!Answers(NotRun(cs), cs)
         /\ [k \in 1..Len(cs) |-> ToolFailed(cs[k])] \in Seq(Event)
<1>1. \A k \in 1..Len(cs) : [id |-> cs[k], how |-> "refused", ran |-> 0] \in C!Result
  BY DEF C!Result, C!How
<1>2. NotRun(cs) \in [1..Len(cs) -> C!Result]
  BY <1>1 DEF NotRun
<1>3. [k \in 1..Len(cs) |-> ToolFailed(cs[k])] \in [1..Len(cs) -> Event]
  BY EventTypes
<1>4. Len(NotRun(cs)) = Len(cs)
  BY <1>2 DEF NotRun
<1>5. \A k \in 1..Len(cs) : NotRun(cs)[k].id = cs[k]
  BY DEF NotRun
<1> QED
  BY <1>2, <1>3, <1>4, <1>5, SeqDef DEF C!Answers

(* The user's text makes the transcript end in a user message, and goes   *)
(* into the last message when that is a user's.                            *)
LEMMA UserTextTypes ==
  ASSUME NEW msgs \in Seq(C!Message), NEW n \in 1..MaxTurns
  PROVE  /\ C!WithUserText(msgs, n) \in Seq(C!Message)
         /\ C!EndsInUser(C!WithUserText(msgs, n))
         /\ C!EndsInUser(msgs) =>
              /\ Len(C!WithUserText(msgs, n)) = Len(msgs)
              /\ \A i \in 1..(Len(msgs) - 1) : C!WithUserText(msgs, n)[i] = msgs[i]
              /\ C!WithUserText(msgs, n)[Len(msgs)].results = msgs[Len(msgs)].results
              /\ C!WithUserText(msgs, n)[Len(msgs)].text # <<>>
         /\ ~C!EndsInUser(msgs) =>
              C!WithUserText(msgs, n)
                = Append(msgs, [role |-> "user", results |-> <<>>, text |-> <<n>>])
<1>1. C!Message = CP!Message
  BY DEF C!Message, CP!Message, C!UserMessage, CP!UserMessage, C!AssistantMessage,
         CP!AssistantMessage, C!Result, CP!Result, C!How, CP!How
<1>2. \A ms : C!EndsInUser(ms) <=> CP!EndsInUser(ms)
  BY DEF C!EndsInUser, CP!EndsInUser, C!Last, CP!Last
<1>3. C!WithUserText(msgs, n) = CP!WithUserText(msgs, n)
  BY DEF C!WithUserText, CP!WithUserText, C!EndsInUser, CP!EndsInUser, C!Last, CP!Last,
         C!Joined, CP!Joined
<1> QED
  BY <1>1, <1>2, <1>3, CP!WithUserTextProperties

(* A whole exchange ends in its results. *)
LEMMA ExchangeTypes ==
  ASSUME NEW msgs \in Seq(C!Message), NEW m \in C!AssistantMessage,
         NEW rs \in Seq(C!Result)
  PROVE  LET u == [role |-> "user", results |-> rs, text |-> <<>>]
             new == msgs \o <<m, u>>
         IN /\ new \in Seq(C!Message)
            /\ Len(new) = Len(msgs) + 2
            /\ new[Len(msgs) + 1] = m
            /\ new[Len(msgs) + 2] = u
            /\ C!EndsInUser(new)
<1> DEFINE u == [role |-> "user", results |-> rs, text |-> <<>>]
           new == msgs \o <<m, u>>
<1>1. m \in C!Message /\ u \in C!Message /\ u.role = "user"
  BY MessageTypes
<1> HIDE DEF u
<1>2. /\ new \in Seq(C!Message) /\ Len(new) = Len(msgs) + 2
      /\ new[Len(msgs) + 1] = m /\ new[Len(msgs) + 2] = u
  BY <1>1
<1> HIDE DEF new
<1>3. C!EndsInUser(new)
  BY <1>1, <1>2 DEF C!EndsInUser, C!Last
<1> QED
  BY <1>2, <1>3 DEF new, u
-----------------------------------------------------------------------------
(* The inductive invariant. *)

LEMMA InitInv == Init => IInv
<1> SUFFICES ASSUME Init PROVE IInv
  OBVIOUS
<1>1. 0 \in 0..MaxTurns /\ 0 \in 0..Rounds /\ 0 \in 0..Attempts
  BY ParametersAssumption, Limits
<1>2. TypeOK
  <2>1. cancelled \in BOOLEAN
    BY DEF Init
  <2>2. outcome \in Outcome
    BY DEF Init, Outcome
  <2> QED
    BY <1>1, <2>1, <2>2, MessageTypes, NoToolTypes DEF Init, TypeOK
<1>3. LoopInv
  BY DEF Init, LoopInv, NoTool
<1> QED
  BY <1>2, <1>3 DEF IInv

(* Every way out of a turn forgets the round. *)
LEMMA ReturnInv ==
  ASSUME IInv, NEW how \in Outcome, Return(how),
         transcript' \in Seq(C!Message), log' \in Seq(Event),
         how # "completed" => C!EndsInUser(transcript')
  PROVE  IInv'
<1>1. 0 \in 0..Rounds /\ 0 \in 0..Attempts
  BY ParametersAssumption, Limits
<1>2. TypeOK'
  BY <1>1, MessageTypes, NoToolTypes DEF IInv, TypeOK, Return
<1>3. LoopInv'
  BY DEF LoopInv, Return, NoTool
<1> QED
  BY <1>2, <1>3 DEF IInv

LEMMA FailInv ==
  ASSUME IInv, pc # "idle", NEW error \in TurnError, Fail(error)
  PROVE  IInv'
<1>1. error \in Outcome /\ error # "completed"
  BY DEF Outcome, TurnError
<1>2. transcript' = transcript /\ log' = log /\ Return(error)
  BY DEF Fail
<1>3. transcript' \in Seq(C!Message) /\ log' \in Seq(Event) /\ C!EndsInUser(transcript')
  BY <1>2 DEF IInv, TypeOK, LoopInv
<1> QED
  BY <1>1, <1>2, <1>3, ReturnInv

LEMMA StartTurnInv == IInv /\ StartTurn => IInv'
<1> SUFFICES ASSUME IInv, StartTurn PROVE IInv'
  OBVIOUS
<1>1. turns + 1 \in 1..MaxTurns /\ turns + 1 \in 0..MaxTurns
  BY ParametersAssumption DEF IInv, TypeOK, StartTurn
<1>2. transcript' \in Seq(C!Message) /\ C!EndsInUser(transcript')
  BY <1>1, UserTextTypes DEF IInv, TypeOK, StartTurn
<1>3. 1 \in 0..Rounds /\ 1 \in 0..Attempts
  BY ParametersAssumption, Limits
<1>4. TypeOK'
  <2>1. cancelled' \in BOOLEAN
    BY DEF StartTurn
  <2>2. outcome' \in Outcome
    BY DEF StartTurn, Outcome
  <2> QED
    BY <1>1, <1>2, <1>3, <2>1, <2>2, MessageTypes, NoToolTypes DEF IInv, TypeOK, StartTurn
<1>5. LoopInv'
  BY <1>2 DEF LoopInv, StartTurn, NoTool
<1> QED
  BY <1>4, <1>5 DEF IInv

(* A message without calls completes the turn or breaks the contract. *)
LEMMA AcceptNoCallsInv ==
  ASSUME IInv, pc # "idle", NEW m \in C!AssistantMessage, NEW stop, AcceptNoCalls(m, stop)
  PROVE  IInv'
<1>1. Shown(m) \in Seq(Event)
  BY ShownTypes DEF IInv
<1>2. transcript \in Seq(C!Message) /\ C!EndsInUser(transcript)
  BY DEF IInv, TypeOK, LoopInv
<1>3. CASE stop = "tool_use"
  BY <1>1, <1>2, <1>3, ReturnInv DEF AcceptNoCalls, Outcome, TurnError
<1>4. CASE stop # "tool_use"
  <2>1. Append(Shown(m), TurnComplete) \in Seq(Event)
    BY <1>1, EventTypes
  <2>2. Append(transcript, m) \in Seq(C!Message)
    BY <1>2, MessageTypes
  <2> QED
    BY <1>2, <1>4, <2>1, <2>2, ReturnInv DEF AcceptNoCalls, Outcome
<1> QED
  BY <1>3, <1>4

LEMMA AcceptRefusalInv ==
  ASSUME IInv, pc # "idle", NEW m \in C!AssistantMessage, NEW stop, AcceptRefusal(m, stop)
  PROVE  IInv'
<1> DEFINE failures == [k \in 1..Len(m.calls) |-> ToolFailed(m.calls[k])]
<1>1. m.calls \in Seq(Call)
  BY MessageTypes
<1>2. failures \in Seq(Event) /\ NotRun(m.calls) \in Seq(C!Result)
  BY <1>1, NotRunAnswers
<1>3. Shown(m) \in Seq(Event)
  BY ShownTypes DEF IInv
<1>4. log' = (Shown(m) \o failures) \o <<TurnComplete>>
  BY DEF AcceptRefusal
<1> HIDE DEF failures
<1>5. log' \in Seq(Event)
  BY <1>2, <1>3, <1>4, EventTypes
<1>6. transcript' \in Seq(C!Message)
  BY <1>2, ExchangeTypes DEF AcceptRefusal, IInv, TypeOK
<1> QED
  BY <1>5, <1>6, ReturnInv DEF AcceptRefusal, Outcome

LEMMA AcceptCallsInv ==
  ASSUME IInv, pc \in {"chat", "stream"}, NEW m \in C!AssistantMessage, NEW stop,
         AcceptCalls(m, stop)
  PROVE  IInv'
<1>1. Shown(m) \in Seq(Event)
  BY ShownTypes DEF IInv
<1>2. m.calls \in Seq(Call) /\ Len(<<>>) = 0
  BY MessageTypes
<1>3. TypeOK'
  BY <1>1 DEF IInv, TypeOK, AcceptCalls
<1>4. LoopInv'
  BY <1>2 DEF IInv, LoopInv, AcceptCalls, AnsweredSoFar
<1> QED
  BY <1>3, <1>4 DEF IInv

LEMMA AcceptInv ==
  ASSUME IInv, pc \in {"chat", "stream"}, NEW m \in C!AssistantMessage, NEW stop,
         Accept(m, stop)
  PROVE  IInv'
BY AcceptNoCallsInv, AcceptRefusalInv, AcceptCallsInv DEF Accept

(* A failure is waited out, or ends the turn. *)
LEMMA FailedInv ==
  ASSUME IInv, pc \in {"chat", "stream"}, NEW retryable \in BOOLEAN, Failed(retryable)
  PROVE  IInv'
<1>1. CASE retryable /\ attempt < Attempts
  <2>1. Append(log, Retry) \in Seq(Event)
    BY EventTypes DEF IInv, TypeOK
  <2>2. TypeOK'
    BY <1>1, <2>1, MessageTypes DEF IInv, TypeOK, Failed
  <2>3. LoopInv'
    BY <1>1 DEF IInv, LoopInv, Failed
  <2> QED
    BY <2>2, <2>3 DEF IInv
<1>2. CASE ~(retryable /\ attempt < Attempts)
  BY <1>2, FailInv DEF Failed, TurnError
<1> QED
  BY <1>1, <1>2

(* One more answer, to the next call, keeps the results in order. *)
LEMMA OneMoreAnswer ==
  ASSUME IInv, pc \in {"answer", "tool"}, Len(results) < Len(draft.calls),
         NEW r \in C!Result, r.id = Asked,
         results' = Append(results, r), draft' = draft
  PROVE  results' \in Seq(C!Result) /\ AnsweredSoFar'
<1>1. /\ results \in Seq(C!Result) /\ draft.calls \in Seq(Call) /\ AnsweredSoFar
      /\ Len(results) \in Nat /\ Len(draft.calls) \in Nat
  BY MessageTypes DEF IInv, TypeOK, LoopInv
<1>2. /\ results' \in Seq(C!Result) /\ Len(results') = Len(results) + 1
      /\ results'[Len(results) + 1] = r
      /\ \A k \in 1..Len(results) : results'[k] = results[k]
  BY <1>1
<1>3. \A k \in 1..Len(results') : results'[k].id = draft.calls[k]
  <2> SUFFICES ASSUME NEW k \in 1..(Len(results) + 1)
               PROVE  results'[k].id = draft.calls[k]
    BY <1>2
  <2>1. CASE k = Len(results) + 1
    BY <2>1, <1>2 DEF Asked
  <2>2. CASE k # Len(results) + 1
    <3>1. k \in 1..Len(results)
      BY <2>2, <1>1
    <3> QED
      BY <3>1, <1>1, <1>2 DEF AnsweredSoFar
  <2> QED
    BY <2>1, <2>2
<1> QED
  BY <1>1, <1>2, <1>3 DEF AnsweredSoFar

(* The loop's own steps. *)
LEMMA LoopStepInv == IInv /\ Loop => IInv'
<1> SUFFICES ASSUME IInv, Loop PROVE IInv'
  OBVIOUS
<1> USE DEF IInv
<1>1. CASE BeginRound
  <2>1. CASE cancelled
    BY <1>1, <2>1, FailInv DEF BeginRound, TurnError
  <2>2. CASE ~cancelled
    BY <1>1, <2>2, MessageTypes DEF BeginRound, TypeOK, LoopInv
  <2> QED
    BY <2>1, <2>2
<1>2. CASE BackoffOver
  <2>1. CASE cancelled
    BY <1>2, <2>1, FailInv DEF BackoffOver, TurnError
  <2>2. CASE ~cancelled
    <3>1. attempt + 1 \in 0..Attempts
      BY <1>2, Limits DEF BackoffOver, TypeOK, LoopInv
    <3> QED
      BY <1>2, <2>2, <3>1 DEF BackoffOver, TypeOK, LoopInv
  <2> QED
    BY <2>1, <2>2
<1>3. ASSUME NEW event \in Event, NEW how \in C!How, NEW ran \in Nat,
             pc \in {"answer", "tool"}, Len(results) < Len(draft.calls),
             AnswerWith(event, how, ran)
      PROVE  IInv'
  <2> DEFINE r == [id |-> Asked, how |-> how, ran |-> ran]
  <2>1. draft.calls \in Seq(Call) /\ log \in Seq(Event) /\ Len(results) + 1 \in 1..Len(draft.calls)
    BY <1>3, MessageTypes DEF TypeOK
  <2>2. r \in C!Result /\ r.id = Asked
    BY <2>1, <1>3 DEF C!Result, Asked
  <2>3. results' = Append(results, r) /\ draft' = draft
    BY <1>3 DEF AnswerWith
  <2> HIDE DEF r
  <2>4. results' \in Seq(C!Result) /\ AnsweredSoFar'
    BY <2>2, <2>3, <1>3, OneMoreAnswer
  <2>5. log' \in Seq(Event)
    BY <2>1, <1>3 DEF AnswerWith
  <2>6. TypeOK'
    BY <2>4, <2>5, <1>3, NoToolTypes DEF TypeOK, AnswerWith
  <2>7. LoopInv'
    BY <2>4, <1>3 DEF LoopInv, AnswerWith, NoTool
  <2> QED
    BY <2>6, <2>7
<1>4. pc \in {"answer", "tool"} /\ Len(results) < Len(draft.calls) => Asked \in Call
  BY MessageTypes DEF TypeOK, Asked
<1>5. CASE SkipCall
  <2>1. ToolFailed(Asked) \in Event /\ "before_start" \in C!How /\ 0 \in Nat
    BY <1>4, <1>5, EventTypes DEF SkipCall, C!How
  <2> QED
    BY <1>3, <1>5, <2>1 DEF SkipCall
<1>6. CASE RejectCall
  <2> DEFINE r == [id |-> Asked, how |-> "failed", ran |-> 0]
  <2>1. r \in C!Result /\ r.id = Asked
    BY <1>4, <1>6 DEF RejectCall, C!Result, C!How
  <2>2. ToolCall(Asked) \in Event /\ ToolFailed(Asked) \in Event /\ log \in Seq(Event)
    BY <1>4, <1>6, EventTypes DEF RejectCall, TypeOK
  <2>3. /\ pc = "answer" /\ Len(results) < Len(draft.calls)
        /\ results' = Append(results, r) /\ draft' = draft
        /\ log' = log \o <<ToolCall(Asked), ToolFailed(Asked)>>
    BY <1>6 DEF RejectCall
  <2> HIDE DEF r
  <2>4. results' \in Seq(C!Result) /\ AnsweredSoFar'
    BY <2>1, <2>3, OneMoreAnswer
  <2>5. log' \in Seq(Event)
    BY <2>2, <2>3
  <2>6. TypeOK'
    BY <2>4, <2>5, <1>6 DEF TypeOK, RejectCall
  <2>7. LoopInv'
    BY <2>4, <1>6 DEF LoopInv, RejectCall
  <2> QED
    BY <2>6, <2>7
<1>7. CASE DispatchCall
  <2>1. Append(log, ToolCall(Asked)) \in Seq(Event)
    BY <1>4, <1>7, EventTypes DEF DispatchCall, TypeOK
  <2>2. [NoTool EXCEPT !.phase = "between"] \in Tool
    BY NoToolTypes DEF NoTool, Tool
  <2>3. TypeOK'
    BY <1>7, <2>1, <2>2 DEF DispatchCall, TypeOK
  <2>4. LoopInv'
    BY <1>7 DEF DispatchCall, LoopInv, AnsweredSoFar, NoTool
  <2> QED
    BY <2>3, <2>4
<1>8. CASE SettleCall
  <2>1. tool.ran \in Nat /\ pc = "tool" /\ Len(results) < Len(draft.calls)
    BY <1>8, ParametersAssumption DEF SettleCall, TypeOK, Tool, LoopInv
  <2>2. ToolFailed(Asked) \in Event /\ ToolResult(Asked) \in Event
    BY <1>4, <2>1, EventTypes
  <2>3. /\ "answered" \in C!How /\ "failed" \in C!How
        /\ (IF cancelled THEN CutOf(tool.end) ELSE "failed") \in C!How
    BY DEF C!How, CutOf
  <2>4. \E event \in Event, how \in C!How : AnswerWith(event, how, tool.ran)
    BY <1>8, <2>2, <2>3 DEF SettleCall
  <2> QED
    BY <1>3, <2>1, <2>4
<1>9. CASE StoreRound
  <2>1. /\ transcript \in Seq(C!Message) /\ draft \in C!AssistantMessage
        /\ results \in Seq(C!Result) /\ log \in Seq(Event)
    BY DEF TypeOK
  <2>2. transcript' \in Seq(C!Message) /\ C!EndsInUser(transcript') /\ log' = log
    BY <1>9, <2>1, ExchangeTypes DEF StoreRound
  <2>3. CASE cancelled
    BY <1>9, <2>1, <2>2, <2>3, ReturnInv DEF StoreRound, Outcome, TurnError
  <2>4. CASE ~cancelled /\ round = Rounds
    BY <1>9, <2>1, <2>2, <2>4, ReturnInv DEF StoreRound, Outcome, TurnError
  <2>5. CASE ~cancelled /\ round # Rounds
    <3>1. round + 1 \in 0..Rounds /\ 1 \in 0..Attempts
      BY <2>5, Limits DEF TypeOK
    <3>2. TypeOK'
      BY <1>9, <2>2, <2>5, <3>1, MessageTypes DEF StoreRound, TypeOK
    <3>3. LoopInv'
      BY <1>9, <2>2, <2>5 DEF StoreRound, LoopInv
    <3> QED
      BY <3>2, <3>3
  <2> QED
    BY <2>3, <2>4, <2>5
<1> QED
  BY <1>1, <1>2, <1>5, <1>6, <1>7, <1>8, <1>9 DEF Loop

(* What the provider does. *)
LEMMA ProviderStepInv == IInv /\ Provider => IInv'
<1> SUFFICES ASSUME IInv, Provider PROVE IInv'
  OBVIOUS
<1>1. CASE ChatStepError
  BY <1>1, FailInv DEF ChatStepError, TurnError
<1>2. CASE ChatContract
  BY <1>2, FailInv DEF ChatContract, TurnError
<1>3. CASE ChatStreamHandle
  BY <1>3 DEF ChatStreamHandle, IInv, TypeOK, LoopInv
<1>4. CASE ChatMessage
  BY <1>4, AcceptInv, DraftTypes DEF ChatMessage
<1>5. CASE ChatFailed
  BY <1>5, FailedInv DEF ChatFailed
<1>6. ASSUME pc = "stream",
             draft' \in C!AssistantMessage, log' \in Seq(Event),
             UNCHANGED <<transcript, pc, turns, round, attempt, results, tool,
                         cancelled, outcome>>
      PROVE  IInv'
  BY <1>6 DEF IInv, TypeOK, LoopInv
<1>7. draft \in C!AssistantMessage /\ log \in Seq(Event)
  BY DEF IInv, TypeOK
<1>8. CASE StreamText
  <2> PICK c \in Chunk : /\ draft' = [draft EXCEPT !.text = Append(@, c)]
                         /\ log' = Append(log, Text(c))
    BY <1>8 DEF StreamText
  <2>1. draft' \in C!AssistantMessage
    <3> DEFINE longer == Append(draft.text, c)
    <3>1. longer \in Seq(Chunk)
      BY <1>7, MessageTypes
    <3> HIDE DEF longer
    <3>2. [draft EXCEPT !.text = longer] \in C!AssistantMessage
      BY <1>7, <3>1 DEF C!AssistantMessage
    <3> QED
      BY <3>2 DEF longer
  <2>2. log' \in Seq(Event)
    BY <1>7, EventTypes
  <2> QED
    BY <1>6, <1>8, <2>1, <2>2 DEF StreamText
<1>9. CASE StreamBlock
  <2>1. CASE \E c \in Call : draft' = [draft EXCEPT !.calls = Append(@, c)]
    <3> PICK c \in Call : draft' = [draft EXCEPT !.calls = Append(@, c)]
      BY <2>1
    <3> DEFINE longer == Append(draft.calls, c)
    <3>1. longer \in Seq(Call)
      BY <1>7, MessageTypes
    <3> HIDE DEF longer
    <3>2. [draft EXCEPT !.calls = longer] \in C!AssistantMessage
      BY <1>7, <3>1 DEF C!AssistantMessage
    <3> QED
      BY <1>6, <1>7, <1>9, <3>2 DEF StreamBlock, longer
  <2>2. CASE draft' = [draft EXCEPT !.opaque = TRUE]
    <3>1. draft' \in C!AssistantMessage
      BY <1>7, <2>2 DEF C!AssistantMessage
    <3> QED
      BY <1>6, <1>7, <1>9, <3>1 DEF StreamBlock
  <2> QED
    BY <1>9, <2>1, <2>2 DEF StreamBlock
<1>10. CASE StreamEnd
  BY <1>7, <1>10, AcceptInv DEF StreamEnd
<1>11. CASE StreamError
  BY <1>11, FailedInv DEF StreamError
<1>12. CASE StreamContract
  BY <1>12, FailInv DEF StreamContract, TurnError
<1>13. CASE StreamOver
  BY <1>13, FailInv DEF StreamOver, TurnError
<1> QED
  BY <1>1, <1>2, <1>3, <1>4, <1>5, <1>8, <1>9, <1>10, <1>11, <1>12, <1>13 DEF Provider

(* What the kernel, the operator and the host steps do to a tool call. *)
LEMMA ToolRunStepInv == IInv /\ ToolRun => IInv'
<1> SUFFICES ASSUME IInv, ToolRun PROVE IInv'
  OBVIOUS
<1>1. ASSUME NEW t \in Tool, ToolStep(t), t.phase = "asking" => t.ran < MaxSteps
      PROVE  IInv'
  <2>1. TypeOK'
    BY <1>1 DEF IInv, TypeOK, ToolStep
  <2>2. LoopInv'
    BY <1>1 DEF IInv, LoopInv, ToolStep, AnsweredSoFar
  <2> QED
    BY <2>1, <2>2 DEF IInv
<1>2. tool \in Tool /\ tool.ran \in 0..MaxSteps /\ (tool.phase = "asking" => tool.ran < MaxSteps)
  BY DEF IInv, TypeOK, LoopInv, Tool
<1>3. ASSUME NEW end \in ToolEnd, EndTool(end)
      PROVE  IInv'
  <2>1. [tool EXCEPT !.phase = "ended", !.end = end] \in Tool
    BY <1>2, <1>3 DEF Tool
  <2>2. [tool EXCEPT !.phase = "ended", !.end = end].phase = "ended"
    BY <1>2 DEF Tool
  <2> QED
    BY <1>1, <1>3, <2>1, <2>2 DEF EndTool
<1>4. CASE KernelStops
  BY <1>3, <1>4 DEF KernelStops, ToolEnd
<1>5. CASE StepAsks
  <2>1. /\ [tool EXCEPT !.phase = "asking"] \in Tool
        /\ [tool EXCEPT !.phase = "asking"].ran = tool.ran
    BY <1>2 DEF Tool
  <2> QED
    BY <1>1, <1>5, <2>1 DEF StepAsks
<1>6. CASE ToolReturns
  BY <1>3, <1>6 DEF ToolReturns, ToolEnd
<1>7. CASE Allow
  <2>1. tool.ran + 1 \in 0..MaxSteps
    BY <1>2, <1>7, ParametersAssumption DEF Allow
  <2>2. /\ [tool EXCEPT !.phase = "working", !.ran = @ + 1] \in Tool
        /\ [tool EXCEPT !.phase = "working", !.ran = @ + 1].phase = "working"
    BY <1>2, <2>1 DEF Tool
  <2> QED
    BY <1>1, <1>7, <2>2 DEF Allow
<1>8. CASE Deny
  BY <1>3, <1>8 DEF Deny, ToolEnd
<1>9. CASE Withdraw
  BY <1>3, <1>9 DEF Withdraw, ToolEnd
<1>10. CASE Ceiling
  BY <1>3, <1>10 DEF Ceiling, ToolEnd
<1>11. CASE WorkDone
  <2>1. /\ [tool EXCEPT !.phase = "between"] \in Tool
        /\ [tool EXCEPT !.phase = "between"].phase = "between"
    BY <1>2 DEF Tool
  <2> QED
    BY <1>1, <1>11, <2>1 DEF WorkDone
<1>12. CASE WorkCut
  BY <1>3, <1>12 DEF WorkCut, ToolEnd
<1> QED
  BY <1>4, <1>5, <1>6, <1>7, <1>8, <1>9, <1>10, <1>11, <1>12 DEF ToolRun

LEMMA NextInv == IInv /\ [Next]_vars => IInv'
<1> SUFFICES ASSUME IInv, [Next]_vars PROVE IInv'
  OBVIOUS
<1>1. CASE StartTurn
  BY <1>1, StartTurnInv
<1>2. CASE Cancel
  BY <1>2 DEF Cancel, IInv, TypeOK, LoopInv, AnsweredSoFar
<1>3. CASE Loop
  BY <1>3, LoopStepInv
<1>4. CASE Provider
  BY <1>4, ProviderStepInv
<1>5. CASE ToolRun
  BY <1>5, ToolRunStepInv
<1>6. CASE UNCHANGED vars
  BY <1>6 DEF vars, IInv, TypeOK, LoopInv, AnsweredSoFar
<1> QED
  BY <1>1, <1>2, <1>3, <1>4, <1>5, <1>6 DEF Next

-----------------------------------------------------------------------------
(* Theorems. *)

LEMMA InductiveInvariant == Spec => []IInv
BY InitInv, NextInv, PTL DEF Spec

(* The state of the loop keeps its types, and no turn passes its limits on *)
(* rounds and attempts, whatever they are.                                 *)
THEOREM TypeCorrect == Spec => []TypeOK
<1>1. IInv => TypeOK
  BY DEF IInv
<1> QED
  BY InductiveInvariant, <1>1, PTL

(* While a turn runs, and after every turn that did not complete, the      *)
(* transcript ends in a user message: nothing of the cut round is in it.   *)
THEOREM AlwaysEndsInUser == Spec => []EndsInUser
<1>1. IInv => EndsInUser
  BY DEF IInv, LoopInv, EndsInUser
<1> QED
  BY InductiveInvariant, <1>1, PTL

(* Each step changes the transcript as a conversation may change, or not.  *)
LEMMA StepImplements == IInv /\ [Next]_vars => [C!Next]_transcript
<1> SUFFICES ASSUME IInv, [Next]_vars PROVE C!Next \/ UNCHANGED transcript
  OBVIOUS
<1>1. transcript \in Seq(C!Message) /\ (pc # "idle" => C!EndsInUser(transcript))
  BY DEF IInv, TypeOK, LoopInv
<1>2. ASSUME NEW m \in C!AssistantMessage, NEW rs \in Seq(C!Result),
             pc # "idle", m.calls # <<>>, C!Answers(rs, m.calls),
             transcript' = transcript \o <<m, [role |-> "user", results |-> rs, text |-> <<>>]>>
      PROVE  C!Exchange
  <2> DEFINE u == [role |-> "user", results |-> rs, text |-> <<>>]
  <2>1. u \in C!UserMessage /\ u.text = <<>> /\ u.results = rs
    BY MessageTypes
  <2>2. /\ Len(transcript') = Len(transcript) + 2
        /\ transcript'[Len(transcript) + 1] = m
        /\ transcript'[Len(transcript) + 2] = u
    BY <1>1, <1>2, ExchangeTypes
  <2>3. transcript' = transcript \o <<m, u>>
    BY <1>2
  <2> HIDE DEF u
  <2> QED
    BY <1>1, <1>2, <2>1, <2>2, <2>3 DEF C!Exchange
<1>3. ASSUME NEW m \in C!AssistantMessage, NEW stop, pc # "idle", Accept(m, stop)
      PROVE  C!Next \/ UNCHANGED transcript
  <2>1. CASE AcceptNoCalls(m, stop)
    <3>1. CASE transcript' = transcript
      BY <3>1
    <3>2. CASE transcript' # transcript
      <4>1. transcript' = Append(transcript, m) /\ ~C!IsEmpty(m) /\ m.calls = <<>>
        BY <2>1, <3>2 DEF AcceptNoCalls
      <4>2. m \in C!Message
        BY MessageTypes
      <4>3. C!Last(transcript') = m
        BY <1>1, <4>1, <4>2 DEF C!Last
      <4> QED
        BY <1>1, <1>3, <4>1, <4>3 DEF C!Reply, C!Next
    <3> QED
      BY <3>1, <3>2
  <2>2. CASE AcceptRefusal(m, stop)
    BY <1>2, <1>3, <2>2, MessageTypes, NotRunAnswers DEF AcceptRefusal, C!Next
  <2>3. CASE AcceptCalls(m, stop)
    BY <2>3 DEF AcceptCalls
  <2> QED
    BY <1>3, <2>1, <2>2, <2>3 DEF Accept
<1>4. CASE StartTurn
  <2>1. turns + 1 \in 1..MaxTurns
    BY <1>4, ParametersAssumption DEF IInv, TypeOK, StartTurn
  <2> QED
    BY <1>4, <2>1 DEF StartTurn, C!Say, C!Next
<1>5. CASE Loop
  <2>1. CASE StoreRound
    <3>1. /\ pc = "answer" /\ Len(results) = Len(draft.calls) /\ AnsweredSoFar
          /\ draft \in C!AssistantMessage /\ results \in Seq(C!Result)
          /\ transcript' =
               transcript \o <<draft, [role |-> "user", results |-> results, text |-> <<>>]>>
      BY <2>1 DEF StoreRound, IInv, TypeOK, LoopInv
    <3>2. draft.calls # <<>> /\ C!Answers(results, draft.calls)
      BY <3>1 DEF AnsweredSoFar, C!Answers
    <3> QED
      BY <1>2, <3>1, <3>2 DEF C!Next
  <2>2. CASE Loop /\ ~StoreRound
    BY <2>2 DEF Loop, BeginRound, BackoffOver, SkipCall, RejectCall, DispatchCall, SettleCall,
                AnswerWith, Fail
  <2> QED
    BY <1>5, <2>1, <2>2
<1>6. CASE Provider
  <2>1. CASE ChatMessage
    BY <1>3, <2>1, DraftTypes DEF ChatMessage
  <2>2. CASE StreamEnd
    BY <1>3, <2>2 DEF StreamEnd, IInv, TypeOK
  <2>3. CASE Provider /\ ~ChatMessage /\ ~StreamEnd
    BY <2>3 DEF Provider, ChatStepError, ChatContract, ChatStreamHandle, ChatFailed, StreamText,
                StreamBlock, StreamError, StreamContract, StreamOver, Failed, Fail
  <2> QED
    BY <1>6, <2>1, <2>2, <2>3
<1>7. CASE ToolRun
  BY <1>7 DEF ToolRun, KernelStops, StepAsks, ToolReturns, Allow, Deny, Withdraw, Ceiling,
              WorkDone, WorkCut, EndTool, ToolStep
<1>8. CASE Cancel \/ UNCHANGED vars
  BY <1>8 DEF Cancel, vars
<1> QED
  BY <1>4, <1>5, <1>6, <1>7, <1>8 DEF Next

(* The loop implements the conversation: the transcript only ever gains a  *)
(* user's text, a whole reply, or a round with an answer to each call.     *)
THEOREM Refinement == Spec => Implements
<1>1. Init => C!Init
  BY DEF Init, C!Init
<1> QED
  BY <1>1, InductiveInvariant, StepImplements, PTL DEF Spec, Implements, C!Spec

(* At every moment the transcript can be replayed to the provider. *)
THEOREM AlwaysReplayable == Spec => []Replayable
<1>1. C!Init <=> CP!Init
  BY DEF C!Init, CP!Init
<1>2. [C!Next]_transcript => [CP!Next]_transcript
  BY DEF C!Next, CP!Next, C!Say, CP!Say, C!Reply, CP!Reply, C!Exchange, CP!Exchange,
         C!WithUserText, CP!WithUserText, C!EndsInUser, CP!EndsInUser, C!Last, CP!Last,
         C!Joined, CP!Joined, C!IsEmpty, CP!IsEmpty, C!Answers, CP!Answers,
         C!UserMessage, CP!UserMessage, C!AssistantMessage, CP!AssistantMessage,
         C!Result, CP!Result, C!How, CP!How
<1>3. CP!Replayable => Replayable
  BY DEF Replayable, CP!Replayable, C!IsReplayable, CP!IsReplayable,
         C!BeginsWithUser, CP!BeginsWithUser, C!Alternates, CP!Alternates,
         C!CallsAnswered, CP!CallsAnswered, C!IsEmpty, CP!IsEmpty, C!Answers, CP!Answers
<1>4. Implements => CP!Spec
  BY <1>1, <1>2, PTL DEF Implements, C!Spec, CP!Spec
<1> QED
  BY <1>3, <1>4, Refinement, CP!AlwaysReplayable, PTL

-----------------------------------------------------------------------------
(* The token's authority. *)

(* A turn that returned with its token fired did not call the cut another  *)
(* thing: no step changes what the last turn returned but a return, and    *)
(* each return reads the token of its own turn.                            *)
THEOREM TokenHasAuthority == Spec => []TokenIsAuthority
<1>1. Init => TokenIsAuthority
  BY DEF Init, TokenIsAuthority
<1>2. TokenIsAuthority /\ [Next]_vars => TokenIsAuthority'
  <2> SUFFICES ASSUME TokenIsAuthority, [Next]_vars
               PROVE  TokenIsAuthority'
    OBVIOUS
  <2>1. CASE StartTurn
    BY <2>1 DEF StartTurn, TokenIsAuthority
  <2>2. CASE Cancel
    BY <2>2 DEF Cancel, TokenIsAuthority
  <2>3. CASE Loop
    BY <2>3 DEF Loop, BeginRound, BackoffOver, SkipCall, RejectCall, DispatchCall, SettleCall,
                StoreRound, AnswerWith, Fail, Return, TokenIsAuthority
  <2>4. CASE Provider
    <3>1. ASSUME NEW m, NEW stop, Accept(m, stop)
          PROVE  TokenIsAuthority'
      BY <3>1 DEF Accept, AcceptNoCalls, AcceptRefusal, AcceptCalls, Return, TokenIsAuthority
    <3>2. CASE ChatMessage \/ StreamEnd
      BY <3>1, <3>2 DEF ChatMessage, StreamEnd
    <3>3. CASE Provider /\ ~ChatMessage /\ ~StreamEnd
      BY <3>3 DEF Provider, ChatStepError, ChatContract, ChatStreamHandle, ChatFailed, StreamText,
                  StreamBlock, StreamError, StreamContract, StreamOver, Failed, Fail, Return,
                  TokenIsAuthority
    <3> QED
      BY <2>4, <3>2, <3>3
  <2>5. CASE ToolRun
    BY <2>5 DEF ToolRun, KernelStops, StepAsks, ToolReturns, Allow, Deny, Withdraw, Ceiling,
                WorkDone, WorkCut, EndTool, ToolStep, TokenIsAuthority
  <2>6. CASE UNCHANGED vars
    BY <2>6 DEF vars, TokenIsAuthority
  <2> QED
    BY <2>1, <2>2, <2>3, <2>4, <2>5, <2>6 DEF Next
<1> QED
  BY <1>1, <1>2, PTL DEF Spec

-----------------------------------------------------------------------------
(* The answers a cut leaves. *)

(***************************************************************************)
(* What a step does to the answers, of the round and of the transcript.    *)
(* The lemma is what every invariant about them starts from.               *)
(***************************************************************************)
StoresNoAnswer ==
  \/ transcript' = transcript
  \/ \E m \in C!AssistantMessage : transcript' = Append(transcript, m)

StoresRefusal ==
  \E m \in C!AssistantMessage :
    transcript' =
      transcript \o <<m, [role |-> "user", results |-> NotRun(m.calls), text |-> <<>>]>>

KeepsAnswers ==
  /\ results' = results
  /\ cancelled => cancelled'
  /\ pc' = "tool" => pc = "tool" \/ ~cancelled

LEMMA AnswerSteps ==
  ASSUME IInv, [Next]_vars
  PROVE  \/ StartTurn
         \/ pc # "idle" /\ (StoresNoAnswer \/ StoresRefusal) /\ (KeepsAnswers \/ results' = <<>>)
         \/ StoreRound
         \/ transcript' = transcript /\ (SkipCall \/ RejectCall \/ SettleCall)
         \/ UNCHANGED vars
<1> DEFINE Goal == pc # "idle" /\ (StoresNoAnswer \/ StoresRefusal)
                     /\ (KeepsAnswers \/ results' = <<>>)
<1>1. CASE Cancel
  BY <1>1 DEF Cancel, StoresNoAnswer, KeepsAnswers
<1>2. CASE Loop
  BY <1>2 DEF Loop, BeginRound, BackoffOver, SkipCall, RejectCall, DispatchCall, SettleCall,
              AnswerWith, Fail, Return, StoresNoAnswer, KeepsAnswers
<1>3. CASE Provider
  <2>1. ASSUME NEW m \in C!AssistantMessage, NEW stop, pc \in {"chat", "stream"}, Accept(m, stop)
        PROVE  Goal
    <3>1. CASE AcceptNoCalls(m, stop)
      BY <2>1, <3>1 DEF AcceptNoCalls, Return, StoresNoAnswer
    <3>2. CASE AcceptRefusal(m, stop)
      BY <2>1, <3>2 DEF AcceptRefusal, Return, StoresRefusal
    <3>3. CASE AcceptCalls(m, stop)
      BY <2>1, <3>3 DEF AcceptCalls, StoresNoAnswer
    <3> QED
      BY <2>1, <3>1, <3>2, <3>3 DEF Accept
  <2>2. CASE ChatMessage
    BY <2>1, <2>2, DraftTypes DEF ChatMessage
  <2>3. CASE StreamEnd
    BY <2>1, <2>3 DEF StreamEnd, IInv, TypeOK
  <2>4. CASE Provider /\ ~ChatMessage /\ ~StreamEnd
    BY <2>4 DEF Provider, ChatStepError, ChatContract, ChatStreamHandle, ChatFailed, StreamText,
                StreamBlock, StreamError, StreamContract, StreamOver, Failed, Fail, Return,
                StoresNoAnswer, KeepsAnswers
  <2> QED
    BY <1>3, <2>2, <2>3, <2>4
<1>4. CASE ToolRun
  BY <1>4 DEF ToolRun, KernelStops, StepAsks, ToolReturns, Allow, Deny, Withdraw, Ceiling,
              WorkDone, WorkCut, EndTool, ToolStep, StoresNoAnswer, KeepsAnswers
<1> QED
  BY <1>1, <1>2, <1>3, <1>4 DEF Next

(* What is stored of a cut, seen from anywhere but the end of its turn. *)
CutTold(m) ==
  m.role = "user" => CutInOrder(m.results) /\ (IsCut(m.results) => m.text # <<>>)

(* The token is behind every cut answer, and no tool starts after one. *)
CutInv ==
  /\ AfterTheCut
  /\ IsCut(results) => cancelled
  /\ pc = "tool" => ~IsCut(results)

(* One more answer to a list of them. *)
LEMMA OneMoreCut ==
  ASSUME NEW rs \in Seq(C!Result), NEW r \in C!Result, CutInOrder(rs),
         IsCut(rs) => r.how = "before_start" /\ r.ran = 0
  PROVE  /\ CutInOrder(Append(rs, r))
         /\ IsCut(Append(rs, r)) <=> IsCut(rs) \/ r.how \in CutHow
<1> DEFINE new == Append(rs, r)
<1>1. /\ Len(rs) \in Nat /\ Len(new) = Len(rs) + 1 /\ new[Len(rs) + 1] = r
      /\ \A k \in 1..Len(rs) : new[k] = rs[k]
  OBVIOUS
<1> HIDE DEF new
<1>2. CutInOrder(new)
  <2> SUFFICES ASSUME NEW j \in 1..Len(new), NEW k \in 1..Len(new), j < k, new[j].how \in CutHow
               PROVE  new[k].how = "before_start" /\ new[k].ran = 0
    BY DEF CutInOrder
  <2>1. j \in 1..Len(rs) /\ new[j] = rs[j]
    BY <1>1
  <2>2. CASE k = Len(rs) + 1
    BY <1>1, <2>1, <2>2 DEF IsCut
  <2>3. CASE k # Len(rs) + 1
    <3>1. k \in 1..Len(rs) /\ new[k] = rs[k]
      BY <1>1, <2>3
    <3> QED
      BY <2>1, <3>1 DEF CutInOrder
  <2> QED
    BY <2>2, <2>3
<1>3. ASSUME IsCut(new)
      PROVE  IsCut(rs) \/ r.how \in CutHow
  <2> PICK k \in 1..Len(new) : new[k].how \in CutHow
    BY <1>3 DEF IsCut
  <2>1. k = Len(rs) + 1 \/ k \in 1..Len(rs)
    BY <1>1
  <2> QED
    BY <1>1, <2>1 DEF IsCut
<1>4. ASSUME IsCut(rs)
      PROVE  IsCut(new)
  <2> PICK k \in 1..Len(rs) : rs[k].how \in CutHow
    BY <1>4 DEF IsCut
  <2>1. k \in 1..Len(new) /\ new[k] = rs[k]
    BY <1>1
  <2> QED
    BY <2>1 DEF IsCut
<1>5. ASSUME r.how \in CutHow
      PROVE  IsCut(new)
  <2>1. Len(rs) + 1 \in 1..Len(new)
    BY <1>1
  <2> QED
    BY <1>1, <1>5, <2>1 DEF IsCut
<1> QED
  BY <1>2, <1>3, <1>4, <1>5 DEF new

(* A round of which nothing was asked, or all was refused, was not cut. *)
LEMMA NothingCut ==
  /\ CutInOrder(<<>>) /\ ~IsCut(<<>>)
  /\ \A cs \in Seq(Call) : CutInOrder(NotRun(cs)) /\ ~IsCut(NotRun(cs))
<1>1. CutInOrder(<<>>) /\ ~IsCut(<<>>)
  BY DEF CutInOrder, IsCut
<1>2. ASSUME NEW cs \in Seq(Call)
      PROVE  CutInOrder(NotRun(cs)) /\ ~IsCut(NotRun(cs))
  <2>1. Len(NotRun(cs)) = Len(cs) /\ \A k \in 1..Len(cs) : NotRun(cs)[k].how \notin CutHow
    BY <1>2, NotRunAnswers DEF NotRun, CutHow, C!Answers
  <2> QED
    BY <2>1 DEF CutInOrder, IsCut
<1> QED
  BY <1>1, <1>2

(* While a turn runs, every cut in the transcript is behind a text. *)
LEMMA CutsAreTold ==
  ASSUME CutInv, pc # "idle"
  PROVE  \A i \in 1..Len(transcript) : CutTold(transcript[i])
BY DEF CutInv, AfterTheCut, CutTold

(* Whatever is known of all messages of a list and of those added to it. *)
LEMMA CutToldGrows ==
  ASSUME NEW old \in Seq(C!Message), NEW new \in Seq(C!Message), NEW a \in Nat,
         Len(new) = Len(old) + a,
         \A i \in 1..Len(old) : new[i] = old[i] /\ CutTold(old[i]),
         \A i \in (Len(old) + 1)..Len(new) : CutTold(new[i])
  PROVE  \A i \in 1..Len(new) : CutTold(new[i])
<1> SUFFICES ASSUME NEW i \in 1..Len(new)
             PROVE  CutTold(new[i])
  OBVIOUS
<1>1. i \in 1..Len(old) \/ i \in (Len(old) + 1)..Len(new)
  OBVIOUS
<1> QED
  BY <1>1

(* The round's answers: each is appended under the token it was read with. *)
LEMMA AnswersCutInOrder ==
  ASSUME IInv, CutInv, [Next]_vars
  PROVE  /\ CutInOrder(results')
         /\ IsCut(results') => cancelled'
         /\ pc' = "tool" => ~IsCut(results')
<1> USE DEF CutInv
<1>1. results \in Seq(C!Result) /\ CutInOrder(results)
  BY DEF IInv, TypeOK, AfterTheCut
<1>2. CASE results' = <<>>
  BY <1>2, NothingCut
<1>3. CASE KeepsAnswers
  BY <1>1, <1>3 DEF KeepsAnswers
<1>4. Len(results) < Len(draft.calls) => Asked \in Call
  BY MessageTypes DEF IInv, TypeOK, Asked
<1>5. CASE SkipCall
  <2> DEFINE r == [id |-> Asked, how |-> "before_start", ran |-> 0]
  <2>1. r \in C!Result
    BY <1>4, <1>5 DEF SkipCall, C!Result, C!How
  <2>2. results' = Append(results, r) /\ pc' = "answer" /\ cancelled' /\ r.how = "before_start"
        /\ r.ran = 0
    BY <1>5 DEF SkipCall, AnswerWith
  <2> HIDE DEF r
  <2> QED
    BY <1>1, <2>1, <2>2, OneMoreCut
<1>6. CASE RejectCall
  <2> DEFINE r == [id |-> Asked, how |-> "failed", ran |-> 0]
  <2>1. r \in C!Result /\ r.how \notin CutHow
    BY <1>4, <1>6 DEF RejectCall, C!Result, C!How, CutHow
  <2>2. results' = Append(results, r) /\ pc' = "answer" /\ ~IsCut(results)
    BY <1>6 DEF RejectCall
  <2> HIDE DEF r
  <2> QED
    BY <1>1, <2>1, <2>2, OneMoreCut
<1>7. CASE SettleCall
  <2>1. pc = "tool" /\ ~IsCut(results) /\ tool.ran \in Nat /\ Asked \in Call
    BY <1>4, <1>7, ParametersAssumption DEF SettleCall, IInv, TypeOK, Tool, LoopInv
  <2>2. \E how \in C!How :
          /\ results' = Append(results, [id |-> Asked, how |-> how, ran |-> tool.ran])
          /\ how \in CutHow => cancelled
    BY <1>7 DEF SettleCall, AnswerWith, C!How, CutHow, CutOf
  <2> PICK how \in C!How :
          /\ results' = Append(results, [id |-> Asked, how |-> how, ran |-> tool.ran])
          /\ how \in CutHow => cancelled
    BY <2>2
  <2> DEFINE r == [id |-> Asked, how |-> how, ran |-> tool.ran]
  <2>3. r \in C!Result /\ r.how = how
    BY <2>1 DEF C!Result
  <2>4. pc' = "answer" /\ cancelled' = cancelled /\ results' = Append(results, r)
    BY <1>7 DEF SettleCall, AnswerWith
  <2> HIDE DEF r
  <2> QED
    BY <1>1, <2>1, <2>3, <2>4, OneMoreCut
<1>8. CASE StoreRound \/ StartTurn
  <2>1. results' = <<>>
    BY <1>8 DEF StoreRound, Return, StartTurn
  <2> QED
    BY <1>2, <2>1
<1>9. CASE UNCHANGED vars
  BY <1>1, <1>9 DEF vars
<1> QED
  BY <1>2, <1>3, <1>5, <1>6, <1>7, <1>8, <1>9, AnswerSteps

(* The user's text is put behind the results of a cut it follows. *)
LEMMA TextAfterCut ==
  ASSUME NEW msgs \in Seq(C!Message), NEW n \in 1..MaxTurns,
         \A i \in 1..Len(msgs) : msgs[i].role = "user" =>
            CutInOrder(msgs[i].results) /\ (IsCut(msgs[i].results) => msgs[i].text # <<>> \/ i = Len(msgs))
  PROVE  \A i \in 1..Len(C!WithUserText(msgs, n)) : CutTold(C!WithUserText(msgs, n)[i])
<1> DEFINE new == C!WithUserText(msgs, n)
<1>1. /\ new \in Seq(C!Message)
      /\ C!EndsInUser(msgs) =>
           /\ Len(new) = Len(msgs)
           /\ \A i \in 1..(Len(msgs) - 1) : new[i] = msgs[i]
           /\ new[Len(msgs)].results = msgs[Len(msgs)].results
           /\ new[Len(msgs)].text # <<>>
      /\ ~C!EndsInUser(msgs) =>
           new = Append(msgs, [role |-> "user", results |-> <<>>, text |-> <<n>>])
  BY UserTextTypes
<1> HIDE DEF new
<1>2. CASE C!EndsInUser(msgs)
  <2> SUFFICES ASSUME NEW i \in 1..Len(new)
               PROVE  CutTold(new[i])
    BY DEF new
  <2>1. msgs[Len(msgs)].role = "user" /\ Len(msgs) \in Nat /\ Len(msgs) # 0
    BY <1>2 DEF C!EndsInUser, C!Last
  <2>2. CASE i = Len(msgs)
    BY <1>1, <1>2, <2>1, <2>2 DEF CutTold
  <2>3. CASE i # Len(msgs)
    <3>1. i \in 1..(Len(msgs) - 1) /\ i \in 1..Len(msgs)
      BY <1>1, <1>2, <2>1, <2>3
    <3> QED
      BY <1>1, <1>2, <2>3, <3>1 DEF CutTold
  <2> QED
    BY <2>2, <2>3
<1>3. CASE ~C!EndsInUser(msgs)
  <2> DEFINE u == [role |-> "user", results |-> <<>>, text |-> <<n>>]
  <2>1. CutTold(u)
    BY NothingCut DEF CutTold
  <2>2. new = Append(msgs, u)
    BY <1>1, <1>3
  <2> HIDE DEF u
  <2>3. /\ Len(new) = Len(msgs) + 1 /\ Len(msgs) \in Nat
        /\ \A i \in 1..Len(msgs) : new[i] = msgs[i]
        /\ new[Len(msgs) + 1] = u
    BY <2>2
  <2>4. \A i \in 1..Len(msgs) : CutTold(msgs[i])
    <3> SUFFICES ASSUME NEW i \in 1..Len(msgs)
                 PROVE  CutTold(msgs[i])
      OBVIOUS
    <3>1. CASE i = Len(msgs)
      BY <1>3, <3>1 DEF C!EndsInUser, C!Last, CutTold
    <3>2. CASE i # Len(msgs)
      BY <3>2 DEF CutTold
    <3> QED
      BY <3>1, <3>2
  <2>5. \A i \in (Len(msgs) + 1)..Len(new) : CutTold(new[i])
    BY <2>1, <2>3
  <2> QED
    BY <1>1, <2>3, <2>4, <2>5, CutToldGrows DEF new
<1> QED
  BY <1>2, <1>3

(* The transcript: a cut exchange is stored as the last of its turn. *)
LEMMA StoredCutInOrder ==
  ASSUME IInv, IInv', CutInv, [Next]_vars
  PROVE  \A i \in 1..Len(transcript') : transcript'[i].role = "user" =>
           /\ CutInOrder(transcript'[i].results)
           /\ IsCut(transcript'[i].results) =>
                \/ transcript'[i].text # <<>>
                \/ i = Len(transcript') /\ pc' = "idle" /\ outcome' = "cancelled"
<1>1. transcript \in Seq(C!Message) /\ transcript' \in Seq(C!Message) /\ Len(transcript) \in Nat
  BY DEF IInv, TypeOK
<1>2. SUFFICES ASSUME pc # "idle" \/ StartTurn, ~StoreRound
               PROVE  \A i \in 1..Len(transcript') : CutTold(transcript'[i])
  <2>1. CASE pc # "idle" /\ StoreRound
    <3> DEFINE u == [role |-> "user", results |-> results, text |-> <<>>]
    <3>1. /\ transcript' = transcript \o <<draft, u>>
          /\ (pc' = "idle" /\ outcome' = "cancelled") \/ ~cancelled
      BY <2>1 DEF StoreRound, Return
    <3>2. draft \in C!AssistantMessage /\ results \in Seq(C!Result)
      BY DEF IInv, TypeOK
    <3>3. /\ Len(transcript') = Len(transcript) + 2
          /\ transcript'[Len(transcript) + 1] = draft
          /\ transcript'[Len(transcript) + 2] = u
          /\ \A i \in 1..Len(transcript) : transcript'[i] = transcript[i]
      <4>1. u \in C!Message /\ draft \in C!Message
        BY <3>2, MessageTypes
      <4> HIDE DEF u
      <4> QED
        BY <1>1, <3>1, <4>1
    <3>4. \A i \in 1..Len(transcript) : CutTold(transcript[i])
      BY <2>1, CutsAreTold
    <3>5. CutTold(draft)
      BY <3>2, MessageTypes DEF CutTold
    <3>6. CutInOrder(results) /\ (IsCut(results) => cancelled)
      BY DEF CutInv, AfterTheCut
    <3> SUFFICES ASSUME NEW i \in 1..Len(transcript'), transcript'[i].role = "user"
                 PROVE  /\ CutInOrder(transcript'[i].results)
                        /\ IsCut(transcript'[i].results) =>
                             \/ transcript'[i].text # <<>>
                             \/ i = Len(transcript') /\ pc' = "idle" /\ outcome' = "cancelled"
      OBVIOUS
    <3>7. i \in 1..Len(transcript) \/ i = Len(transcript) + 1 \/ i = Len(transcript) + 2
      BY <1>1, <3>3
    <3>8. CASE i \in 1..Len(transcript)
      BY <3>3, <3>4, <3>8 DEF CutTold
    <3>9. CASE i = Len(transcript) + 1
      BY <3>3, <3>5, <3>9 DEF CutTold
    <3>10. CASE i = Len(transcript) + 2
      BY <3>1, <3>3, <3>6, <3>10
    <3> QED
      BY <3>7, <3>8, <3>9, <3>10
  <2>2. CASE UNCHANGED vars
    BY <2>2 DEF vars, CutInv, AfterTheCut
  <2>3. CASE (pc # "idle" \/ StartTurn) /\ ~StoreRound
    BY <1>2, <2>3 DEF CutTold
  <2> QED
    BY <2>1, <2>2, <2>3, AnswerSteps DEF StoreRound, SkipCall, RejectCall, SettleCall
<1>3. CASE StartTurn
  <2>1. turns + 1 \in 1..MaxTurns
    BY <1>3, ParametersAssumption DEF StartTurn, IInv, TypeOK
  <2>2. transcript' = C!WithUserText(transcript, turns + 1)
    BY <1>3 DEF StartTurn
  <2> QED
    BY <1>1, <2>1, <2>2, TextAfterCut DEF CutInv, AfterTheCut
<1>4. CASE pc # "idle"
  <2>1. \A i \in 1..Len(transcript) : CutTold(transcript[i])
    BY <1>4, CutsAreTold
  <2>2. CASE transcript' = transcript
    BY <2>1, <2>2
  <2>3. ASSUME NEW m \in C!AssistantMessage, transcript' = Append(transcript, m)
        PROVE  \A i \in 1..Len(transcript') : CutTold(transcript'[i])
    <3>1. m \in C!Message /\ CutTold(m)
      BY <2>3, MessageTypes DEF CutTold
    <3>2. /\ Len(transcript') = Len(transcript) + 1
          /\ transcript'[Len(transcript) + 1] = m
          /\ \A i \in 1..Len(transcript) : transcript'[i] = transcript[i]
      BY <1>1, <2>3, <3>1
    <3>3. \A i \in (Len(transcript) + 1)..Len(transcript') : CutTold(transcript'[i])
      BY <1>1, <3>1, <3>2
    <3> QED
      BY <1>1, <2>1, <3>2, <3>3, CutToldGrows
  <2>4. ASSUME NEW m \in C!AssistantMessage,
               transcript' =
                 transcript \o <<m, [role |-> "user", results |-> NotRun(m.calls), text |-> <<>>]>>
        PROVE  \A i \in 1..Len(transcript') : CutTold(transcript'[i])
    <3> DEFINE u == [role |-> "user", results |-> NotRun(m.calls), text |-> <<>>]
    <3>1. m.role = "assistant" /\ m.calls \in Seq(Call) /\ NotRun(m.calls) \in Seq(C!Result)
      BY MessageTypes, NotRunAnswers
    <3>2. m \in C!Message /\ u \in C!Message /\ CutTold(m) /\ CutTold(u)
      BY <3>1, MessageTypes, NothingCut DEF CutTold
    <3>3. transcript' = transcript \o <<m, u>>
      BY <2>4
    <3> HIDE DEF u
    <3>4. /\ Len(transcript') = Len(transcript) + 2
          /\ transcript'[Len(transcript) + 1] = m
          /\ transcript'[Len(transcript) + 2] = u
          /\ \A i \in 1..Len(transcript) : transcript'[i] = transcript[i]
      BY <1>1, <3>2, <3>3
    <3>5. \A i \in (Len(transcript) + 1)..Len(transcript') : CutTold(transcript'[i])
      BY <1>1, <3>2, <3>4
    <3> QED
      BY <1>1, <2>1, <3>4, <3>5, CutToldGrows
  <2>5. CASE StoresNoAnswer
    BY <2>2, <2>3, <2>5 DEF StoresNoAnswer
  <2>6. CASE StoresRefusal
    BY <2>4, <2>6 DEF StoresRefusal
  <2>7. transcript' = transcript \/ StoresNoAnswer \/ StoresRefusal
    <3>1. ~StartTurn
      BY <1>4 DEF StartTurn
    <3>2. CASE UNCHANGED vars
      BY <3>2 DEF vars
    <3> QED
      BY <1>2, <3>1, <3>2, AnswerSteps
  <2> QED
    BY <2>2, <2>5, <2>6, <2>7
<1> QED
  BY <1>2, <1>3, <1>4

(* What the model is told of a cut is told in order, and the exchange that  *)
(* was cut is the last of its turn, in any conversation.                    *)
THEOREM CutIsTold == Spec => []AfterTheCut
<1>1. Init => CutInv
  BY NothingCut DEF Init, CutInv, AfterTheCut
<1>2. IInv /\ IInv' /\ CutInv /\ [Next]_vars => CutInv'
  BY AnswersCutInOrder, StoredCutInOrder DEF CutInv, AfterTheCut
<1>3. CutInv => AfterTheCut
  BY DEF CutInv
<1> QED
  BY <1>1, <1>2, <1>3, InductiveInvariant, PTL DEF Spec

-----------------------------------------------------------------------------
(* What a fired token stops. *)

(* The events a step adds to the log announce no call. *)
AnnouncesNothing ==
  \E new \in Seq(Event) :
    log' = log \o new /\ \A k \in 1..Len(new) : new[k].ev # "ToolCall"

LEMMA NothingAnnounced ==
  ASSUME IInv, AnnouncesNothing
  PROVE  Announced' = Announced
<1> PICK new \in Seq(Event) : /\ log' = log \o new
                              /\ \A k \in 1..Len(new) : new[k].ev # "ToolCall"
  BY DEF AnnouncesNothing
<1>1. /\ log \in Seq(Event) /\ Len(log) \in Nat /\ Len(new) \in Nat
      /\ Len(log') = Len(log) + Len(new)
      /\ \A k \in 1..Len(log) : log'[k] = log[k]
      /\ \A k \in 1..Len(new) : log'[Len(log) + k] = new[k]
  BY DEF IInv, TypeOK
<1>2. ASSUME NEW k \in 1..Len(log'), log'[k].ev = "ToolCall"
      PROVE  k \in 1..Len(log) /\ log[k].ev = "ToolCall"
  <2>1. CASE k \in 1..Len(log)
    BY <1>1, <1>2, <2>1
  <2>2. CASE k \notin 1..Len(log)
    <3> DEFINE j == k - Len(log)
    <3>1. j \in 1..Len(new) /\ k = Len(log) + j
      BY <1>1, <2>2
    <3> QED
      BY <1>1, <1>2, <3>1
  <2> QED
    BY <2>1, <2>2
<1>3. ASSUME NEW k \in 1..Len(log), log[k].ev = "ToolCall"
      PROVE  k \in 1..Len(log') /\ log'[k].ev = "ToolCall"
  BY <1>1, <1>3
<1> QED
  BY <1>2, <1>3 DEF Announced

LEMMA AppendAndConcat ==
  ASSUME NEW S, NEW s \in Seq(S), NEW t \in Seq(S), NEW e \in S
  PROVE  /\ Append(s, e) = s \o <<e>> /\ <<e>> \in Seq(S)
         /\ Len(<<e>>) = 1 /\ <<e>>[1] = e
         /\ Append(s \o t, e) = s \o Append(t, e) /\ Append(t, e) \in Seq(S)
BY SMTT(30)

LEMMA QuietEvents ==
  ASSUME IInv
  PROVE  /\ log' = log => AnnouncesNothing
         /\ \A e \in Event : log' = Append(log, e) /\ e.ev # "ToolCall" => AnnouncesNothing
<1>1. log \in Seq(Event)
  BY DEF IInv, TypeOK
<1>2. ASSUME log' = log
      PROVE  AnnouncesNothing
  <2> DEFINE none == <<>>
  <2>1. /\ none \in Seq(Event) /\ log \o none = log
        /\ \A k \in 1..Len(none) : none[k].ev # "ToolCall"
    BY <1>1
  <2> HIDE DEF none
  <2>2. log' = log \o none
    BY <1>2, <2>1
  <2> QED
    BY <2>1, <2>2 DEF AnnouncesNothing
<1>3. ASSUME NEW e \in Event, log' = Append(log, e), e.ev # "ToolCall"
      PROVE  AnnouncesNothing
  <2>1. <<e>> \in Seq(Event) /\ log \o <<e>> = Append(log, e) /\ Len(<<e>>) = 1 /\ <<e>>[1] = e
    BY <1>1, AppendAndConcat
  <2>2. \A k \in 1..Len(<<e>>) : <<e>>[k].ev # "ToolCall"
    BY <1>3, <2>1
  <2> QED
    BY <1>3, <2>1, <2>2 DEF AnnouncesNothing
<1> QED
  BY <1>2, <1>3

LEMMA AcceptQuiet ==
  ASSUME IInv, NEW m \in C!AssistantMessage, NEW stop, Accept(m, stop)
  PROVE  AnnouncesNothing
<1> DEFINE failures == [k \in 1..Len(m.calls) |-> ToolFailed(m.calls[k])]
           shown == IF Streaming THEN <<>> ELSE TextOf(m)
<1>1. /\ log \in Seq(Event) /\ m.text \in Seq(Chunk) /\ m.calls \in Seq(Call)
  BY MessageTypes DEF IInv, TypeOK
<1>2. shown \in Seq(Event) /\ \A k \in 1..Len(shown) : shown[k].ev # "ToolCall"
  <2>1. TextOf(m) \in [1..Len(m.text) -> Event] /\ Len(m.text) \in Nat
    BY <1>1, EventTypes DEF TextOf
  <2>2. TextOf(m) \in Seq(Event) /\ Len(TextOf(m)) = Len(m.text)
    BY <2>1, SeqDef DEF TextOf
  <2>3. \A k \in 1..Len(m.text) : TextOf(m)[k].ev = "Text"
    BY DEF TextOf, Text
  <2> QED
    BY <2>2, <2>3
<1>3. Shown(m) = log \o shown
  BY <1>1 DEF Shown
<1>4. failures \in Seq(Event) /\ \A k \in 1..Len(failures) : failures[k].ev # "ToolCall"
  <2>1. failures \in Seq(Event) /\ Len(failures) = Len(m.calls)
    BY <1>1, NotRunAnswers
  <2> QED
    BY <2>1 DEF ToolFailed
<1>5. TurnComplete \in Event /\ TurnComplete.ev # "ToolCall"
  BY EventTypes DEF TurnComplete
<1> HIDE DEF failures, shown
<1>6. ASSUME NEW new \in Seq(Event), \A k \in 1..Len(new) : new[k].ev # "ToolCall"
      PROVE  /\ log' = log \o new => AnnouncesNothing
             /\ log' = Append(log \o new, TurnComplete) => AnnouncesNothing
  <2> DEFINE longer == Append(new, TurnComplete)
  <2>1. longer \in Seq(Event) /\ Append(log \o new, TurnComplete) = log \o longer
    <3>1. log \in Seq(Event) /\ new \in Seq(Event) /\ TurnComplete \in Event
      BY <1>1, <1>5
    <3>2. /\ Append(log \o new, TurnComplete) = log \o Append(new, TurnComplete)
          /\ Append(new, TurnComplete) \in Seq(Event)
      BY <3>1, AppendAndConcat
    <3> QED
      BY <3>2
  <2>2. Len(longer) = Len(new) + 1 /\ Len(new) \in Nat /\ longer[Len(new) + 1] = TurnComplete
        /\ \A k \in 1..Len(new) : longer[k] = new[k]
    BY <1>5, <1>6
  <2> HIDE DEF longer
  <2>3. \A k \in 1..Len(longer) : longer[k].ev # "ToolCall"
    <3> SUFFICES ASSUME NEW k \in 1..Len(longer)
                 PROVE  longer[k].ev # "ToolCall"
      OBVIOUS
    <3>1. CASE k = Len(new) + 1
      BY <1>5, <2>2, <3>1
    <3>2. CASE k # Len(new) + 1
      BY <1>6, <2>2, <3>2
    <3> QED
      BY <3>1, <3>2
  <2> QED
    BY <1>6, <2>1, <2>3 DEF AnnouncesNothing
<1>7. CASE AcceptNoCalls(m, stop)
  BY <1>2, <1>3, <1>6, <1>7 DEF AcceptNoCalls
<1>8. CASE AcceptRefusal(m, stop)
  <2> DEFINE both == shown \o failures
  <2>1. /\ both \in Seq(Event) /\ Len(both) = Len(shown) + Len(failures)
        /\ Len(shown) \in Nat /\ Len(failures) \in Nat
        /\ \A k \in 1..Len(shown) : both[k] = shown[k]
        /\ \A k \in 1..Len(failures) : both[Len(shown) + k] = failures[k]
    BY <1>2, <1>4
  <2>2. log' = Append(log \o both, TurnComplete)
    <3>1. log' = (Shown(m) \o failures) \o <<TurnComplete>>
      BY <1>8 DEF AcceptRefusal, failures
    <3>2. (log \o shown) \o failures = log \o both
      BY <1>1, <1>2, <1>4
    <3>3. (log \o both) \o <<TurnComplete>> = Append(log \o both, TurnComplete)
      BY <1>1, <1>5, <2>1
    <3> QED
      BY <1>3, <3>1, <3>2, <3>3
  <2> HIDE DEF both
  <2>3. \A k \in 1..Len(both) : both[k].ev # "ToolCall"
    <3> SUFFICES ASSUME NEW k \in 1..Len(both)
                 PROVE  both[k].ev # "ToolCall"
      OBVIOUS
    <3>1. CASE k \in 1..Len(shown)
      BY <1>2, <2>1, <3>1
    <3>2. CASE k \notin 1..Len(shown)
      <4>1. k - Len(shown) \in 1..Len(failures) /\ k = Len(shown) + (k - Len(shown))
        BY <2>1, <3>2
      <4> QED
        BY <1>4, <2>1, <4>1
    <3> QED
      BY <3>1, <3>2
  <2> QED
    BY <1>6, <2>1, <2>2, <2>3
<1>9. CASE AcceptCalls(m, stop)
  BY <1>2, <1>3, <1>6, <1>9 DEF AcceptCalls
<1> QED
  BY <1>7, <1>8, <1>9 DEF Accept

(* After the token, and to the end of the turn, nothing is started. *)
LEMMA CutStep ==
  ASSUME IInv, [Next]_vars, cancelled, cancelled'
  PROVE  /\ pc # "chat" => pc' # "chat"
         /\ AnnouncesNothing
         /\ tool'.ran <= tool.ran
<1>1. tool.ran \in Nat /\ NoTool.ran = 0 /\ tool \in Tool
  BY ParametersAssumption DEF IInv, TypeOK, Tool, NoTool
<1>2. (pc \in {"answer", "tool"} /\ Len(results) < Len(draft.calls)) =>
         /\ ToolFailed(Asked) \in Event /\ ToolFailed(Asked).ev # "ToolCall"
         /\ ToolResult(Asked) \in Event /\ ToolResult(Asked).ev # "ToolCall"
  <2>1. Len(results) < Len(draft.calls) => Asked \in Call
    BY MessageTypes DEF IInv, TypeOK, Asked
  <2> QED
    BY <2>1, EventTypes DEF ToolFailed, ToolResult
<1>3. /\ Retry \in Event /\ Retry.ev # "ToolCall"
      /\ \A c \in Chunk : Text(c) \in Event /\ Text(c).ev # "ToolCall"
  BY EventTypes DEF Retry, Text
<1>4. CASE Loop
  <2>1. CASE SkipCall
    BY <1>1, <1>2, <2>1, QuietEvents DEF SkipCall, AnswerWith
  <2>2. CASE SettleCall
    BY <1>1, <1>2, <2>2, QuietEvents DEF SettleCall, AnswerWith, IInv, LoopInv
  <2>3. CASE BeginRound \/ BackoffOver \/ StoreRound
    BY <1>1, <2>3, QuietEvents DEF BeginRound, BackoffOver, StoreRound, Fail, Return
  <2>4. ~RejectCall /\ ~DispatchCall
    BY DEF RejectCall, DispatchCall
  <2> QED
    BY <1>4, <2>1, <2>2, <2>3, <2>4 DEF Loop
<1>5. CASE Provider
  <2>1. ASSUME NEW m \in C!AssistantMessage, NEW stop, pc \in {"chat", "stream"}, Accept(m, stop)
        PROVE  pc' # "chat" /\ tool'.ran <= tool.ran
    BY <1>1, <2>1 DEF Accept, AcceptNoCalls, AcceptRefusal, AcceptCalls, Return
  <2>2. CASE ChatMessage
    BY <2>1, <2>2, DraftTypes, AcceptQuiet DEF ChatMessage
  <2>3. CASE StreamEnd
    BY <2>1, <2>3, AcceptQuiet DEF StreamEnd, IInv, TypeOK
  <2>4. ASSUME NEW retryable \in BOOLEAN, Failed(retryable), pc \in {"chat", "stream"}
        PROVE  pc' # "chat" /\ AnnouncesNothing /\ tool'.ran <= tool.ran
    BY <1>1, <1>3, <2>4, QuietEvents DEF Failed, Fail, Return
  <2>5. CASE ChatFailed \/ StreamError
    BY <2>4, <2>5 DEF ChatFailed, StreamError
  <2>6. CASE StreamText
    BY <1>1, <1>3, <2>6, QuietEvents DEF StreamText
  <2>7. CASE ChatStepError \/ ChatContract \/ ChatStreamHandle \/ StreamBlock
               \/ StreamContract \/ StreamOver
    BY <1>1, <2>7, QuietEvents DEF ChatStepError, ChatContract, ChatStreamHandle, StreamBlock,
                                   StreamContract, StreamOver, Fail, Return
  <2> QED
    BY <1>5, <2>2, <2>3, <2>5, <2>6, <2>7 DEF Provider
<1>6. CASE ToolRun
  <2>1. ASSUME NEW end, EndTool(end)
        PROVE  pc' = pc /\ log' = log /\ tool'.ran = tool.ran
    BY <1>1, <2>1 DEF EndTool, ToolStep, Tool
  <2>2. CASE KernelStops \/ ToolReturns \/ Deny \/ Withdraw \/ Ceiling \/ WorkCut
    <3>1. pc' = pc /\ log' = log /\ tool'.ran = tool.ran
      BY <2>1, <2>2 DEF KernelStops, ToolReturns, Deny, Withdraw, Ceiling, WorkCut
    <3> QED
      BY <1>1, <3>1, QuietEvents
  <2>3. CASE WorkDone
    <3>1. pc' = pc /\ log' = log /\ tool'.ran = tool.ran
      BY <1>1, <2>3 DEF WorkDone, ToolStep, Tool
    <3> QED
      BY <1>1, <3>1, QuietEvents
  <2>4. ~StepAsks /\ ~Allow
    BY DEF StepAsks, Allow
  <2> QED
    BY <1>6, <2>2, <2>3, <2>4 DEF ToolRun
<1>7. CASE UNCHANGED vars
  BY <1>1, <1>7, QuietEvents DEF vars
<1>8. ~StartTurn /\ ~Cancel
  BY DEF StartTurn, Cancel
<1> QED
  BY <1>4, <1>5, <1>6, <1>7, <1>8 DEF Next

(* From the token's firing to the end of the turn no provider round, no    *)
(* tool and no host step's work is started, whatever is in flight.         *)
THEOREM NothingStartsAfterTheCut == Spec => CutIsFinal
<1>1. ASSUME IInv, [Next]_vars
      PROVE  [cancelled /\ cancelled' =>
                /\ pc # "chat" => pc' # "chat"
                /\ Announced' = Announced
                /\ tool'.ran <= tool.ran]_vars
  BY <1>1, CutStep, NothingAnnounced
<1> QED
  BY <1>1, InductiveInvariant, PTL DEF Spec, CutIsFinal

-----------------------------------------------------------------------------
(* What "never started" is worth. *)

TrueOf(m) ==
  m.role = "user" =>
    \A k \in 1..Len(m.results) : m.results[k].how = "before_start" => m.results[k].ran = 0

(* A withdrawn approval of a tool's only step found nothing done before it. *)
StartInv ==
  /\ BeforeStartIsTrue
  /\ tool.phase = "ended" /\ tool.end = "withdrawn" => tool.ran = 0

LEMMA WithdrawnStep ==
  ASSUME MaxSteps <= 1, IInv, StartInv, [Next]_vars
  PROVE  tool'.phase = "ended" /\ tool'.end = "withdrawn" => tool'.ran = 0
<1>1. /\ tool \in Tool /\ MaxSteps \in Nat /\ tool.ran \in Nat
      /\ tool.phase = "asking" => tool.ran < MaxSteps
      /\ NoTool.phase = "none"
  BY ParametersAssumption DEF IInv, TypeOK, LoopInv, Tool, NoTool
<1>2. CASE tool' = tool \/ tool' = NoTool
  BY <1>1, <1>2 DEF StartInv
<1>3. CASE DispatchCall
  BY <1>3, <1>1 DEF DispatchCall, NoTool
<1>4. ASSUME NEW end, EndTool(end), end = "withdrawn" => tool.phase = "asking"
      PROVE  tool'.phase = "ended" /\ tool'.end = "withdrawn" => tool'.ran = 0
  <2>1. tool'.end = end /\ tool'.ran = tool.ran
    BY <1>1, <1>4 DEF EndTool, ToolStep, Tool
  <2> QED
    BY <1>1, <1>4, <2>1
<1>5. CASE KernelStops \/ ToolReturns \/ Deny \/ Withdraw \/ Ceiling \/ WorkCut
  BY <1>4, <1>5 DEF KernelStops, ToolReturns, Deny, Withdraw, Ceiling, WorkCut
<1>6. CASE StepAsks \/ Allow \/ WorkDone
  <2>1. tool'.phase \in {"asking", "working", "between"}
    BY <1>1, <1>6 DEF StepAsks, Allow, WorkDone, ToolStep, Tool
  <2> QED
    BY <2>1
<1>7. CASE StartTurn \/ Cancel \/ UNCHANGED vars
  BY <1>2, <1>7 DEF StartTurn, Cancel, vars
<1>8. CASE Loop /\ ~DispatchCall
  BY <1>2, <1>8 DEF Loop, BeginRound, BackoffOver, SkipCall, RejectCall, SettleCall, StoreRound,
                    AnswerWith, Fail, Return
<1>9. CASE Provider
  <2>1. ASSUME NEW m, NEW stop, Accept(m, stop)
        PROVE  tool' = tool \/ tool' = NoTool
    BY <2>1 DEF Accept, AcceptNoCalls, AcceptRefusal, AcceptCalls, Return
  <2>2. CASE ChatMessage \/ StreamEnd
    BY <1>2, <2>1, <2>2 DEF ChatMessage, StreamEnd
  <2>3. CASE Provider /\ ~ChatMessage /\ ~StreamEnd
    BY <1>2, <2>3 DEF Provider, ChatStepError, ChatContract, ChatStreamHandle, ChatFailed,
                StreamText, StreamBlock, StreamError, StreamContract, StreamOver, Failed, Fail,
                Return
  <2> QED
    BY <1>9, <2>2, <2>3
<1> QED
  BY <1>3, <1>5, <1>6, <1>7, <1>8, <1>9 DEF Next, ToolRun

LEMMA TrueAnswers ==
  ASSUME IInv, StartInv, [Next]_vars
  PROVE  \A k \in 1..Len(results') : results'[k].how = "before_start" => results'[k].ran = 0
<1>1. /\ results \in Seq(C!Result) /\ Len(results) \in Nat
      /\ \A k \in 1..Len(results) : results[k].how = "before_start" => results[k].ran = 0
  BY DEF IInv, TypeOK, StartInv, BeforeStartIsTrue
<1>2. CASE results' = <<>>
  BY <1>2
<1>3. CASE results' = results
  BY <1>1, <1>3
<1>4. ASSUME NEW r \in C!Result, results' = Append(results, r),
             r.how = "before_start" => r.ran = 0
      PROVE  \A k \in 1..Len(results') : results'[k].how = "before_start" => results'[k].ran = 0
  <2>1. /\ Len(results') = Len(results) + 1 /\ results'[Len(results) + 1] = r
        /\ \A k \in 1..Len(results) : results'[k] = results[k]
    BY <1>1, <1>4
  <2>2. \A k \in 1..Len(results') : k \in 1..Len(results) \/ k = Len(results) + 1
    BY <1>1, <2>1
  <2> QED
    BY <1>1, <1>4, <2>1, <2>2
<1>5. Len(results) < Len(draft.calls) => Asked \in Call
  BY MessageTypes DEF IInv, TypeOK, Asked
<1>6. ASSUME NEW how \in C!How, NEW n \in Nat, Len(results) < Len(draft.calls),
             results' = Append(results, [id |-> Asked, how |-> how, ran |-> n]),
             how = "before_start" => n = 0
      PROVE  \A k \in 1..Len(results') : results'[k].how = "before_start" => results'[k].ran = 0
  <2> DEFINE r == [id |-> Asked, how |-> how, ran |-> n]
  <2>1. r \in C!Result /\ r.how = how /\ r.ran = n
    BY <1>5, <1>6 DEF C!Result
  <2>2. results' = Append(results, r)
    BY <1>6
  <2> HIDE DEF r
  <2> QED
    BY <1>4, <1>6, <2>1, <2>2
<1>7. CASE SkipCall
  BY <1>6, <1>7 DEF SkipCall, AnswerWith, C!How
<1>8. CASE RejectCall
  BY <1>6, <1>8 DEF RejectCall, C!How
<1>9. CASE SettleCall
  <2>1. tool.ran \in Nat /\ Len(results) < Len(draft.calls)
    BY <1>9, ParametersAssumption DEF SettleCall, IInv, TypeOK, LoopInv, Tool
  <2>2. \E how \in C!How :
          /\ results' = Append(results, [id |-> Asked, how |-> how, ran |-> tool.ran])
          /\ how = "before_start" => tool.ran = 0
    BY <1>9 DEF SettleCall, AnswerWith, C!How, CutOf, StartInv
  <2> QED
    BY <1>6, <2>1, <2>2
<1>10. CASE StoreRound \/ StartTurn
  <2>1. results' = <<>>
    BY <1>10 DEF StoreRound, Return, StartTurn
  <2> QED
    BY <1>2, <2>1
<1>11. CASE KeepsAnswers \/ UNCHANGED vars
  BY <1>3, <1>11 DEF KeepsAnswers, vars
<1> QED
  BY <1>2, <1>7, <1>8, <1>9, <1>10, <1>11, AnswerSteps

LEMMA TrueTranscript ==
  ASSUME IInv, StartInv, [Next]_vars
  PROVE  \A i \in 1..Len(transcript') : TrueOf(transcript'[i])
<1>1. /\ transcript \in Seq(C!Message) /\ Len(transcript) \in Nat
      /\ \A i \in 1..Len(transcript) : TrueOf(transcript[i])
  BY DEF IInv, TypeOK, StartInv, BeforeStartIsTrue, TrueOf
<1>2. CASE transcript' = transcript
  BY <1>1, <1>2
<1>3. ASSUME NEW m \in C!AssistantMessage, transcript' = Append(transcript, m)
      PROVE  \A i \in 1..Len(transcript') : TrueOf(transcript'[i])
  <2>1. m \in C!Message /\ TrueOf(m)
    BY <1>3, MessageTypes DEF TrueOf
  <2>2. /\ Len(transcript') = Len(transcript) + 1
        /\ transcript'[Len(transcript) + 1] = m
        /\ \A i \in 1..Len(transcript) : transcript'[i] = transcript[i]
    BY <1>1, <1>3, <2>1
  <2>3. \A i \in 1..Len(transcript') : i \in 1..Len(transcript) \/ i = Len(transcript) + 1
    BY <1>1, <2>2
  <2> QED
    BY <1>1, <2>1, <2>2, <2>3
<1>4. ASSUME NEW m \in C!AssistantMessage, NEW rs \in Seq(C!Result),
             transcript' = transcript \o <<m, [role |-> "user", results |-> rs, text |-> <<>>]>>,
             \A k \in 1..Len(rs) : rs[k].how = "before_start" => rs[k].ran = 0
      PROVE  \A i \in 1..Len(transcript') : TrueOf(transcript'[i])
  <2> DEFINE u == [role |-> "user", results |-> rs, text |-> <<>>]
  <2>1. m \in C!Message /\ u \in C!Message /\ TrueOf(m) /\ TrueOf(u)
    BY <1>4, MessageTypes DEF TrueOf
  <2>2. transcript' = transcript \o <<m, u>>
    BY <1>4
  <2> HIDE DEF u
  <2>3. /\ Len(transcript') = Len(transcript) + 2
        /\ transcript'[Len(transcript) + 1] = m
        /\ transcript'[Len(transcript) + 2] = u
        /\ \A i \in 1..Len(transcript) : transcript'[i] = transcript[i]
    BY <1>1, <2>1, <2>2
  <2>4. \A i \in 1..Len(transcript') :
          i \in 1..Len(transcript) \/ i = Len(transcript) + 1 \/ i = Len(transcript) + 2
    BY <1>1, <2>3
  <2> QED
    BY <1>1, <2>1, <2>3, <2>4
<1>5. CASE StoresNoAnswer
  BY <1>2, <1>3, <1>5 DEF StoresNoAnswer
<1>6. CASE StoresRefusal
  <2> PICK m \in C!AssistantMessage :
        transcript' =
          transcript \o <<m, [role |-> "user", results |-> NotRun(m.calls), text |-> <<>>]>>
    BY <1>6 DEF StoresRefusal
  <2>1. m.calls \in Seq(Call) /\ NotRun(m.calls) \in Seq(C!Result)
        /\ Len(NotRun(m.calls)) = Len(m.calls)
    BY MessageTypes, NotRunAnswers DEF C!Answers
  <2>2. \A k \in 1..Len(NotRun(m.calls)) : NotRun(m.calls)[k].how = "refused"
    BY <2>1 DEF NotRun
  <2> QED
    BY <1>4, <2>1, <2>2
<1>7. CASE StoreRound
  BY <1>4, <1>7 DEF StoreRound, IInv, TypeOK, StartInv, BeforeStartIsTrue
<1>8. CASE StartTurn
  <2> DEFINE new == C!WithUserText(transcript, turns + 1)
             u == [role |-> "user", results |-> <<>>, text |-> <<turns + 1>>]
  <2>1. turns + 1 \in 1..MaxTurns /\ transcript' = new
    BY <1>8, ParametersAssumption DEF StartTurn, IInv, TypeOK
  <2>2. /\ C!EndsInUser(transcript) =>
             /\ Len(new) = Len(transcript)
             /\ \A i \in 1..(Len(transcript) - 1) : new[i] = transcript[i]
             /\ new[Len(transcript)].results = transcript[Len(transcript)].results
        /\ ~C!EndsInUser(transcript) => new = Append(transcript, u)
    BY <1>1, <2>1, UserTextTypes
  <2> HIDE DEF new
  <2>3. CASE C!EndsInUser(transcript)
    <3>1. Len(transcript) # 0 /\ transcript[Len(transcript)].role = "user"
      BY <1>1, <2>3 DEF C!EndsInUser, C!Last
    <3>2. \A i \in 1..Len(new) : i \in 1..(Len(transcript) - 1) \/ i = Len(transcript)
      BY <1>1, <2>2, <2>3
    <3>3. TrueOf(new[Len(transcript)])
      BY <1>1, <2>2, <2>3, <3>1 DEF TrueOf
    <3>4. \A i \in 1..(Len(transcript) - 1) : TrueOf(new[i])
      BY <1>1, <2>2, <2>3
    <3> QED
      BY <2>1, <3>2, <3>3, <3>4
  <2>4. CASE ~C!EndsInUser(transcript)
    <3>1. TrueOf(u)
      BY DEF TrueOf
    <3>2. new = Append(transcript, u)
      BY <2>2, <2>4
    <3> HIDE DEF u
    <3>3. /\ Len(new) = Len(transcript) + 1
          /\ new[Len(transcript) + 1] = u
          /\ \A i \in 1..Len(transcript) : new[i] = transcript[i]
      BY <1>1, <3>2
    <3>4. \A i \in 1..Len(new) : i \in 1..Len(transcript) \/ i = Len(transcript) + 1
      BY <1>1, <3>3
    <3> QED
      BY <1>1, <2>1, <3>1, <3>3, <3>4
  <2> QED
    BY <2>3, <2>4
<1>9. CASE UNCHANGED vars
  BY <1>2, <1>9 DEF vars
<1> QED
  BY <1>2, <1>5, <1>6, <1>7, <1>8, <1>9, AnswerSteps

(* A tool that makes one host step and is answered as never started did    *)
(* not act.  The hypothesis is needed: with two steps the code tells the   *)
(* model so after the first has run.                                       *)
THEOREM BeforeStartOfOneStep ==
  ASSUME MaxSteps <= 1
  PROVE  Spec => []BeforeStartIsTrue
<1>1. Init => StartInv
  BY DEF Init, StartInv, BeforeStartIsTrue, NoTool
<1>2. IInv /\ StartInv /\ [Next]_vars => StartInv'
  BY WithdrawnStep, TrueAnswers, TrueTranscript DEF StartInv, BeforeStartIsTrue, TrueOf
<1>3. StartInv => BeforeStartIsTrue
  BY DEF StartInv
<1> QED
  BY <1>1, <1>2, <1>3, InductiveInvariant, PTL DEF Spec

-----------------------------------------------------------------------------
(* Events and the results they tell of. *)

(* Counting the answers among events. *)
LEMMA OrdinalTypes ==
  ASSUME NEW e, NEW n \in Nat
  PROVE  /\ Ordinal(e, n) \in Nat
         /\ \A i \in 0..n : Ordinal(e, i) \in Nat /\ Ordinal(e, i) <= Ordinal(e, n)
         /\ \A i \in 1..n : IsAnswer(e[i]) => Ordinal(e, i) >= 1
<1> DEFINE A(i) == {j \in 1..i : IsAnswer(e[j])}
<1>1. ASSUME NEW i \in 0..n
      PROVE  IsFiniteSet(A(i)) /\ Cardinality(A(i)) \in Nat
  <2>1. IsFiniteSet(1..i) /\ A(i) \subseteq 1..i
    BY FS_Interval
  <2> HIDE DEF A
  <2> QED BY <2>1, FS_Subset, FS_CardinalityType
<1>2. ASSUME NEW i \in 0..n
      PROVE  Cardinality(A(i)) <= Cardinality(A(n))
  <2>1. A(i) \subseteq A(n) /\ n \in 0..n
    OBVIOUS
  <2> HIDE DEF A
  <2> QED BY <1>1, <2>1, FS_Subset
<1>3. ASSUME NEW i \in 1..n, IsAnswer(e[i])
      PROVE  Cardinality(A(i)) >= 1
  <2>1. i \in A(i) /\ i \in 0..n
    BY <1>3
  <2>2. IsFiniteSet({i}) /\ Cardinality({i}) = 1 /\ {i} \subseteq A(i)
    BY <2>1, FS_Singleton
  <2> HIDE DEF A
  <2> QED BY <1>1, <2>1, <2>2, FS_Subset
<1>4. \A i : Ordinal(e, i) = Cardinality(A(i))
  BY DEF Ordinal
<1>5. n \in 0..n /\ 1..n \subseteq 0..n
  OBVIOUS
<1> HIDE DEF A
<1> QED BY <1>1, <1>2, <1>3, <1>4, <1>5

LEMMA OrdinalSame ==
  ASSUME NEW e, NEW f, NEW n \in Nat, \A j \in 1..n : e[j] = f[j]
  PROVE  \A i \in 0..n : Ordinal(e, i) = Ordinal(f, i)
<1> TAKE i \in 0..n
<1>1. {j \in 1..i : IsAnswer(e[j])} = {j \in 1..i : IsAnswer(f[j])}
  OBVIOUS
<1> QED BY <1>1 DEF Ordinal

LEMMA OrdinalGrows ==
  ASSUME NEW e, NEW n \in Nat, NEW d \in Nat
  PROVE  /\ (\A j \in (n + 1)..(n + d) : ~IsAnswer(e[j])) => Ordinal(e, n + d) = Ordinal(e, n)
         /\ (\A j \in (n + 1)..(n + d) : IsAnswer(e[j])) => Ordinal(e, n + d) = Ordinal(e, n) + d
<1> DEFINE A(i) == {j \in 1..i : IsAnswer(e[j])}
           B == (n + 1)..(n + d)
<1>1. IsFiniteSet(A(n)) /\ Cardinality(A(n)) \in Nat
  <2>1. IsFiniteSet(1..n) /\ A(n) \subseteq 1..n
    BY FS_Interval
  <2> HIDE DEF A
  <2> QED BY <2>1, FS_Subset, FS_CardinalityType
<1>2. IsFiniteSet(B) /\ Cardinality(B) = d
  <2>1. n + 1 \in Int /\ n + d \in Int
    OBVIOUS
  <2>2. IsFiniteSet(B) /\ Cardinality(B) = IF n + 1 > n + d THEN 0 ELSE (n + d) - (n + 1) + 1
    BY <2>1, FS_Interval
  <2> HIDE DEF B
  <2> QED BY <2>2
<1>3. A(n) \cap B = {}
  OBVIOUS
<1>4. \A i : Ordinal(e, i) = Cardinality(A(i))
  BY DEF Ordinal
<1>5. CASE \A j \in B : ~IsAnswer(e[j])
  <2>1. A(n + d) = A(n)
    BY <1>5
  <2> HIDE DEF A
  <2>2. Ordinal(e, n + d) = Ordinal(e, n)
    BY <1>4, <2>1
  <2>3. (\A j \in B : IsAnswer(e[j])) => B = {}
    BY <1>5
  <2>4. B = {} => d = 0
    BY <1>2, FS_EmptySet
  <2> QED BY <1>5, <2>2, <2>3, <2>4, <1>4, <1>1
<1>6. CASE \A j \in B : IsAnswer(e[j])
  <2>1. A(n + d) = A(n) \cup B
    BY <1>6
  <2>2. (\A j \in B : ~IsAnswer(e[j])) => d = 0
    <3>1. (\A j \in B : ~IsAnswer(e[j])) => B = {}
      BY <1>6
    <3> HIDE DEF B
    <3> QED BY <3>1, <1>2, FS_EmptySet
  <2> HIDE DEF A, B
  <2>3. Cardinality(A(n) \cup B) = Cardinality(A(n)) + d
    <3> DEFINE S == A(n)
    <3> HIDE DEF S
    <3>1. IsFiniteSet(S) /\ Cardinality(S) \in Nat /\ S \cap B = {}
      BY <1>1, <1>3 DEF S
    <3>2. Cardinality(S \cup B) = Cardinality(S) + Cardinality(B) - Cardinality(S \cap B)
      BY ONLY <3>1, <1>2, FS_Union
    <3>3. Cardinality({}) = 0
      BY FS_EmptySet
    <3>4. Cardinality(S \cap B) = 0
      BY ONLY <3>1, <3>3
    <3>5. Cardinality(S \cup B) = Cardinality(S) + d
      BY ONLY <3>1, <3>2, <3>4, <1>2
    <3> QED BY <3>5 DEF S
  <2>4. Ordinal(e, n + d) = Ordinal(e, n) + d /\ Ordinal(e, n) \in Nat
    BY <1>1, <1>4, <2>1, <2>3
  <2>5. d = 0 => Ordinal(e, n + d) = Ordinal(e, n)
    BY <2>4
  <2> QED BY <2>2, <2>4, <2>5, <1>6 DEF B
<1>7. CASE (\E j \in B : IsAnswer(e[j])) /\ (\E j \in B : ~IsAnswer(e[j]))
  BY <1>7
<1> QED BY <1>5, <1>6, <1>7

EndsInCall(e) == Len(e) > 0 /\ e[Len(e)].ev = "ToolCall"

(* What a longer log tells of the old one. *)
LEMMA LongerLog ==
  ASSUME NEW E, NEW e \in Seq(E), NEW t \in Seq(E)
  PROVE  /\ e \o t \in Seq(E) /\ Len(e \o t) = Len(e) + Len(t) /\ Len(e) \in Nat /\ Len(t) \in Nat
         /\ \A i \in 1..Len(e) : (e \o t)[i] = e[i]
         /\ \A i \in 1..Len(t) : (e \o t)[Len(e) + i] = t[i]
         /\ \A j \in (Len(e) + 1)..(Len(e) + Len(t)) :
              j - Len(e) \in 1..Len(t) /\ (e \o t)[j] = t[j - Len(e)]
<1>1. /\ e \o t \in Seq(E) /\ Len(e \o t) = Len(e) + Len(t) /\ Len(e) \in Nat /\ Len(t) \in Nat
      /\ \A i \in 1..Len(e) : (e \o t)[i] = e[i]
      /\ \A i \in 1..Len(t) : (e \o t)[Len(e) + i] = t[i]
  OBVIOUS
<1>2. ASSUME NEW j \in (Len(e) + 1)..(Len(e) + Len(t))
      PROVE  j - Len(e) \in 1..Len(t) /\ (e \o t)[j] = t[j - Len(e)]
  <2>1. j - Len(e) \in 1..Len(t) /\ Len(e) + (j - Len(e)) = j
    BY <1>1
  <2> QED BY <1>1, <2>1
<1> QED BY <1>1, <1>2

LEMMA TellsNothing == Tells(<<>>, <<>>)
<1>1. {j \in 1..0 : IsAnswer(<<>>[j])} = {} /\ Len(<<>>) = 0
  OBVIOUS
<1>2. Ordinal(<<>>, 0) = 0
  BY <1>1, FS_EmptySet DEF Ordinal
<1> QED BY <1>1, <1>2 DEF Tells

(* The result an answer is to. *)
Fits(e, i, r) ==
  /\ e[i].id = r.id
  /\ e[i].ev = "ToolResult" <=> r.how = "answered"
  /\ r.ran > 0 => WasAnnounced(e, i)
  /\ r.how = "refused" => ~WasAnnounced(e, i)

LEMMA TellsFits ==
  ASSUME NEW e, NEW rs
  PROVE  Tells(e, rs) <=>
           /\ Ordinal(e, Len(e)) = Len(rs)
           /\ \A i \in 1..Len(e) : IsAnswer(e[i]) => Fits(e, i, rs[Ordinal(e, i)])
BY DEF Tells, Fits

LEMMA TellsOn ==
  ASSUME NEW E, NEW e \in Seq(E), NEW t \in Seq(E), NEW R, NEW rs \in Seq(R), NEW us \in Seq(R),
         Tells(e, rs), NEW i \in 1..Len(e), IsAnswer((e \o t)[i])
  PROVE  Fits(e \o t, i, (rs \o us)[Ordinal(e \o t, i)])
<1> DEFINE f == e \o t
<1>1. f[i] = e[i] /\ (i > 1 => f[i - 1] = e[i - 1]) /\ Len(e) \in Nat /\ i \in 0..Len(e)
      /\ \A j \in 1..Len(e) : e[j] = f[j]
  <2>1. i > 1 => i - 1 \in 1..Len(e)
    OBVIOUS
  <2> HIDE DEF f
  <2> QED BY <2>1, LongerLog DEF f
<1> HIDE DEF f
<1>2. Ordinal(f, i) = Ordinal(e, i)
  BY <1>1, OrdinalSame
<1>3. Ordinal(e, i) \in 1..Len(rs)
  <2>1. Ordinal(e, i) \in Nat /\ Ordinal(e, i) <= Ordinal(e, Len(e)) /\ Ordinal(e, i) >= 1
    BY <1>1, OrdinalTypes DEF f
  <2>2. Ordinal(e, Len(e)) = Len(rs)
    BY DEF Tells
  <2> QED BY <2>1, <2>2
<1>4. (rs \o us)[Ordinal(e, i)] = rs[Ordinal(e, i)]
  BY <1>3
<1>5. Fits(e, i, rs[Ordinal(e, i)])
  BY <1>1, TellsFits DEF f
<1>6. WasAnnounced(f, i) <=> WasAnnounced(e, i)
  BY <1>1 DEF WasAnnounced
<1>7. Fits(f, i, rs[Ordinal(e, i)])
  BY <1>1, <1>5, <1>6 DEF Fits
<1> QED BY <1>2, <1>4, <1>7 DEF f

(* Events that answer nothing. *)
Silent(t) == \A k \in 1..Len(t) : ~IsAnswer(t[k]) /\ t[k].ev # "ToolCall"

LEMMA TellsAfterOther ==
  ASSUME NEW E, NEW e \in Seq(E), NEW t \in Seq(E), NEW R, NEW rs \in Seq(R), Tells(e, rs),
         \A k \in 1..Len(t) : ~IsAnswer(t[k])
  PROVE  Tells(e \o t, rs)
<1> DEFINE f == e \o t
<1>1. /\ Len(e) \in Nat /\ Len(t) \in Nat /\ Len(f) = Len(e) + Len(t)
      /\ \A j \in 1..Len(e) : e[j] = f[j]
      /\ \A j \in (Len(e) + 1)..(Len(e) + Len(t)) : ~IsAnswer(f[j])
  BY LongerLog
<1>2. Ordinal(f, Len(f)) = Len(rs)
  <2>1. Ordinal(f, Len(e) + Len(t)) = Ordinal(f, Len(e))
    <3> HIDE DEF f
    <3> QED BY <1>1, OrdinalGrows
  <2>2. Len(e) \in 0..Len(e)
    BY <1>1
  <2>3. Ordinal(f, Len(e)) = Ordinal(e, Len(e))
    <3> HIDE DEF f
    <3> QED BY <1>1, <2>2, OrdinalSame
  <2> HIDE DEF f
  <2> QED BY <1>1, <2>1, <2>3 DEF Tells
<1>3. rs \o <<>> = rs /\ <<>> \in Seq(R)
  OBVIOUS
<1>4. ASSUME NEW i \in 1..Len(f), IsAnswer(f[i])
      PROVE  Fits(f, i, rs[Ordinal(f, i)])
  <2>1. i \in 1..Len(e)
    <3> HIDE DEF f
    <3> QED BY <1>1, <1>4
  <2>2. Fits(f, i, (rs \o <<>>)[Ordinal(f, i)])
    BY <1>3, <1>4, <2>1, TellsOn
  <2> HIDE DEF f
  <2> QED BY <2>2, <1>3
<1> HIDE DEF f
<1>5. Tells(f, rs)
  BY <1>2, <1>4, TellsFits
<1> QED BY <1>5 DEF f

(* Events that answer results, each its own. *)
LEMMA TellsAfterAnswers ==
  ASSUME NEW E, NEW e \in Seq(E), NEW t \in Seq(E), NEW R, NEW rs \in Seq(R), NEW us \in Seq(R),
         Tells(e, rs), Len(t) = Len(us),
         \A k \in 1..Len(t) :
           /\ IsAnswer(t[k]) /\ t[k].id = us[k].id
           /\ t[k].ev = "ToolResult" <=> us[k].how = "answered"
           /\ us[k].ran > 0 => k = 1 /\ EndsInCall(e)
           /\ us[k].how = "refused" => ~EndsInCall(e)
  PROVE  Tells(e \o t, rs \o us)
<1> DEFINE f == e \o t
           n == Len(e)
<1>1. /\ n \in Nat /\ Len(t) \in Nat /\ Len(f) = n + Len(t)
      /\ \A j \in 1..n : e[j] = f[j]
      /\ \A j \in (n + 1)..(n + Len(t)) : j - n \in 1..Len(t) /\ f[j] = t[j - n]
  <2>1. /\ Len(e) \in Nat /\ Len(t) \in Nat /\ Len(e \o t) = Len(e) + Len(t)
        /\ \A j \in 1..Len(e) : (e \o t)[j] = e[j]
        /\ \A j \in (Len(e) + 1)..(Len(e) + Len(t)) :
             j - Len(e) \in 1..Len(t) /\ (e \o t)[j] = t[j - Len(e)]
    <3>1. e \in Seq(E) /\ t \in Seq(E)
      OBVIOUS
    <3> QED BY ONLY <3>1, LongerLog
  <2> QED BY <2>1
<1>2. Ordinal(f, n) = Len(rs) /\ Len(rs) \in Nat /\ Len(rs \o us) = Len(rs) + Len(us)
  <2>1. n \in 0..n /\ Ordinal(e, n) = Len(rs)
    BY <1>1 DEF Tells
  <2> HIDE DEF f
  <2>2. Ordinal(f, n) = Ordinal(e, n)
    <3> HIDE DEF n
    <3> QED BY <1>1, <2>1, OrdinalSame, ZenonT(40)
  <2> QED BY <2>1, <2>2
<1>3. \A d \in 0..Len(t) : Ordinal(f, n + d) = Len(rs) + d
  <2> TAKE d \in 0..Len(t)
  <2>1. \A j \in (n + 1)..(n + d) : IsAnswer(f[j])
    <3> TAKE j \in (n + 1)..(n + d)
    <3>1. j \in (n + 1)..(n + Len(t))
      <4> HIDE DEF f, n
      <4> QED BY <1>1
    <3> HIDE DEF f, n
    <3> QED BY <3>1, <1>1
  <2> HIDE DEF f, n
  <2>2. d \in Nat
    BY <1>1
  <2>3. Ordinal(f, n + d) = Ordinal(f, n) + d
    BY <1>1, <2>1, <2>2, OrdinalGrows
  <2> QED BY <2>3, <1>2
<1>4. Ordinal(f, Len(f)) = Len(rs \o us)
  <2> HIDE DEF f, n
  <2>1. Len(t) \in 0..Len(t)
    BY <1>1
  <2> QED BY <1>1, <1>2, <1>3, <2>1
<1>5. ASSUME NEW i \in 1..Len(f), IsAnswer(f[i])
      PROVE  Fits(f, i, (rs \o us)[Ordinal(f, i)])
  <2>1. CASE i \in 1..n
    BY <1>5, <2>1, TellsOn
  <2>2. CASE i \notin 1..n
    <3> DEFINE k == i - n
    <3>1. k \in 1..Len(t) /\ i = n + k /\ f[i] = t[k] /\ k \in 0..Len(t) /\ k \in Nat
      <4> HIDE DEF f, n
      <4>1. i \in (n + 1)..(n + Len(t))
        BY <1>1, <2>2
      <4> QED BY <1>1, <4>1
    <3>2. (rs \o us)[Ordinal(f, i)] = us[k]
      <4>1. Ordinal(f, i) = Len(rs) + k
        <5> HIDE DEF f, n, k
        <5> QED BY <3>1, <1>3
      <4>2. (rs \o us)[Len(rs) + k] = us[k]
        <5> HIDE DEF f, n, k
        <5> QED BY <3>1
      <4> HIDE DEF f, n, k
      <4> QED BY <4>1, <4>2
    <3>3. WasAnnounced(f, i) <=> k = 1 /\ EndsInCall(e)
      <4>1. CASE k = 1
        <5>1. i - 1 = n /\ (i > 1 <=> n > 0)
          BY <4>1, <3>1, <1>1
        <5>2. n > 0 => f[n] = e[n]
          <6> HIDE DEF f, n
          <6> QED BY <1>1
        <5> QED BY <5>1, <5>2, <4>1 DEF WasAnnounced, EndsInCall
      <4>2. CASE k # 1
        <5>1. k - 1 \in 1..Len(t) /\ f[i - 1] = t[k - 1]
          <6> HIDE DEF f, n
          <6>1. i - 1 \in (n + 1)..(n + Len(t)) /\ (i - 1) - n = k - 1
            BY <3>1, <1>1, <4>2
          <6> QED BY <6>1, <1>1
        <5>2. IsAnswer(t[k - 1])
          BY <5>1
        <5> HIDE DEF f, n, k
        <5> QED BY <5>1, <5>2, <4>2 DEF WasAnnounced, IsAnswer
      <4> QED BY <4>1, <4>2
    <3> HIDE DEF f, n, k
    <3>4. Fits(f, i, us[k])
      BY <3>1, <3>3 DEF Fits
    <3> QED BY <3>2, <3>4
  <2> QED BY <2>1, <2>2
<1> HIDE DEF f
<1>6. Tells(f, rs \o us)
  BY <1>4, <1>5, TellsFits
<1> QED BY <1>6 DEF f

-----------------------------------------------------------------------------
(* What the transcript holds. *)

(* What one message adds to the results, and to the text. *)
OwnResults(m) == IF m.role = "user" THEN m.results ELSE <<>>
OwnText(m) == IF m.role = "assistant" THEN m.text ELSE <<>>

LEMMA OwnTypes ==
  ASSUME NEW m \in C!Message
  PROVE  OwnResults(m) \in Seq(C!Result) /\ OwnText(m) \in Seq(Chunk)
BY DEF OwnResults, OwnText, C!Message, C!UserMessage, C!AssistantMessage

LEMMA HeldTypes ==
  ASSUME NEW msgs \in Seq(C!Message)
  PROVE  ResultsIn(msgs) \in Seq(C!Result) /\ TextIn(msgs) \in Seq(Chunk)
<1> DEFINE r == [i \in 1..Len(msgs) |-> OwnResults(msgs[i])]
           t == [i \in 1..Len(msgs) |-> OwnText(msgs[i])]
<1>1. \A i \in 1..Len(msgs) : msgs[i] \in C!Message
  OBVIOUS
<1>2. r \in [1..Len(msgs) -> Seq(C!Result)] /\ t \in [1..Len(msgs) -> Seq(Chunk)] /\ Len(msgs) \in Nat
  BY <1>1, OwnTypes
<1>3. ResultsIn(msgs) = FlattenSeq(r) /\ TextIn(msgs) = FlattenSeq(t)
  BY DEF ResultsIn, TextIn, OwnResults, OwnText
<1> HIDE DEF r, t
<1>4. r \in Seq(Seq(C!Result)) /\ t \in Seq(Seq(Chunk))
  <2>1. \A S, f : f \in [1..Len(msgs) -> S] => f \in Seq(S)
    BY <1>2, SeqDef
  <2> QED BY ONLY <1>2, <2>1
<1> QED BY <1>3, <1>4, FlattenType

LEMMA NothingHeld == ResultsIn(<<>>) = <<>> /\ TextIn(<<>>) = <<>>
<1>1. [i \in 1..Len(<<>>) |-> OwnResults(<<>>[i])] = <<>> /\ [i \in 1..Len(<<>>) |-> OwnText(<<>>[i])] = <<>>
  OBVIOUS
<1>2. ResultsIn(<<>>) = FlattenSeq([i \in 1..Len(<<>>) |-> OwnResults(<<>>[i])])
  BY DEF ResultsIn, OwnResults
<1>3. TextIn(<<>>) = FlattenSeq([i \in 1..Len(<<>>) |-> OwnText(<<>>[i])])
  BY DEF TextIn, OwnText
<1> QED BY <1>1, <1>2, <1>3, FlattenEmpty

LEMMA HeldOneMore ==
  ASSUME NEW msgs \in Seq(C!Message), NEW m \in C!Message
  PROVE  /\ ResultsIn(Append(msgs, m)) = ResultsIn(msgs) \o OwnResults(m)
         /\ TextIn(Append(msgs, m)) = TextIn(msgs) \o OwnText(m)
<1> DEFINE n == Len(msgs)
           new == Append(msgs, m)
           r == [i \in 1..n |-> OwnResults(msgs[i])]
           t == [i \in 1..n |-> OwnText(msgs[i])]
           rr == [i \in 1..Len(new) |-> OwnResults(new[i])]
           tt == [i \in 1..Len(new) |-> OwnText(new[i])]
<1>1. /\ n \in Nat /\ Len(new) = n + 1 /\ new[n + 1] = m
      /\ \A i \in 1..n : new[i] = msgs[i] /\ msgs[i] \in C!Message
      /\ \A i \in 1..(n + 1) : new[i] \in C!Message
  OBVIOUS
<1>2. ResultsIn(msgs) = FlattenSeq(r) /\ TextIn(msgs) = FlattenSeq(t)
      /\ ResultsIn(new) = FlattenSeq(rr) /\ TextIn(new) = FlattenSeq(tt)
  BY DEF ResultsIn, TextIn, OwnResults, OwnText
<1> HIDE DEF n, new
<1>3. /\ r \in [1..n -> Seq(C!Result)] /\ rr \in [1..(n + 1) -> Seq(C!Result)]
      /\ t \in [1..n -> Seq(Chunk)] /\ tt \in [1..(n + 1) -> Seq(Chunk)]
  BY <1>1, OwnTypes
<1>4. rr[n + 1] = OwnResults(m) /\ tt[n + 1] = OwnText(m)
  BY <1>1
<1>5. \A i \in 1..n : r[i] = rr[i] /\ t[i] = tt[i]
  <2> TAKE i \in 1..n
  <2>1. i \in 1..Len(new) /\ new[i] = msgs[i]
    BY <1>1
  <2> QED BY <2>1
<1> HIDE DEF r, t, rr, tt
<1>6. /\ r \in Seq(Seq(C!Result)) /\ t \in Seq(Seq(Chunk)) /\ Len(r) = n /\ Len(t) = n
      /\ rr \in Seq(Seq(C!Result)) /\ tt \in Seq(Seq(Chunk)) /\ Len(rr) = n + 1 /\ Len(tt) = n + 1
  BY <1>1, <1>3, SeqDef
<1>7. FlattenSeq(rr) = FlattenSeq(r) \o rr[n + 1]
  BY <1>1, <1>5, <1>6, FlattenExtended
<1>8. FlattenSeq(tt) = FlattenSeq(t) \o tt[n + 1]
  BY <1>1, <1>5, <1>6, FlattenExtended
<1> QED BY <1>2, <1>4, <1>7, <1>8 DEF new

(* A stored exchange adds its results and its text; a reply its text. *)
LEMMA HeldAfterExchange ==
  ASSUME NEW msgs \in Seq(C!Message), NEW m \in C!AssistantMessage, NEW rs \in Seq(C!Result)
  PROVE  LET new == msgs \o <<m, [role |-> "user", results |-> rs, text |-> <<>>]>>
         IN  ResultsIn(new) = ResultsIn(msgs) \o rs /\ TextIn(new) = TextIn(msgs) \o m.text
<1> DEFINE u == [role |-> "user", results |-> rs, text |-> <<>>]
<1>1. /\ m \in C!Message /\ u \in C!Message
      /\ OwnResults(m) = <<>> /\ OwnText(m) = m.text /\ OwnResults(u) = rs /\ OwnText(u) = <<>>
  BY MessageTypes DEF OwnResults, OwnText
<1> HIDE DEF u
<1>2. msgs \o <<m, u>> = Append(Append(msgs, m), u) /\ Append(msgs, m) \in Seq(C!Message)
  BY <1>1, AddOneOrTwo
<1>3. /\ ResultsIn(msgs \o <<m, u>>) = (ResultsIn(msgs) \o <<>>) \o rs
      /\ TextIn(msgs \o <<m, u>>) = (TextIn(msgs) \o m.text) \o <<>>
  BY <1>1, <1>2, HeldOneMore
<1>4. ResultsIn(msgs) \in Seq(C!Result) /\ TextIn(msgs) \in Seq(Chunk) /\ m.text \in Seq(Chunk)
  BY HeldTypes, MessageTypes
<1>5. ResultsIn(msgs) \o <<>> = ResultsIn(msgs) /\ (TextIn(msgs) \o m.text) \o <<>> = TextIn(msgs) \o m.text
  BY <1>4
<1> QED BY <1>3, <1>5 DEF u

LEMMA HeldAfterReply ==
  ASSUME NEW msgs \in Seq(C!Message), NEW m \in C!AssistantMessage
  PROVE  ResultsIn(Append(msgs, m)) = ResultsIn(msgs) /\ TextIn(Append(msgs, m)) = TextIn(msgs) \o m.text
<1>1. m \in C!Message /\ OwnResults(m) = <<>> /\ OwnText(m) = m.text
  BY MessageTypes DEF OwnResults, OwnText
<1>2. ResultsIn(msgs) \in Seq(C!Result)
  BY HeldTypes
<1>3. /\ ResultsIn(Append(msgs, m)) = ResultsIn(msgs) \o <<>>
      /\ TextIn(Append(msgs, m)) = TextIn(msgs) \o m.text
  BY <1>1, HeldOneMore
<1> QED BY ONLY <1>2, <1>3

(* The user's text adds neither. *)
LEMMA HeldAfterUser ==
  ASSUME NEW msgs \in Seq(C!Message), NEW n \in 1..MaxTurns
  PROVE  /\ ResultsIn(C!WithUserText(msgs, n)) = ResultsIn(msgs)
         /\ TextIn(C!WithUserText(msgs, n)) = TextIn(msgs)
<1> DEFINE new == C!WithUserText(msgs, n)
<1>1. CASE C!EndsInUser(msgs)
  <2>1. /\ Len(new) = Len(msgs) /\ \A i \in 1..(Len(msgs) - 1) : new[i] = msgs[i]
        /\ new[Len(msgs)].results = msgs[Len(msgs)].results
        /\ C!EndsInUser(new)
    BY <1>1, UserTextTypes
  <2> HIDE DEF new
  <2>2. msgs[Len(msgs)].role = "user" /\ new[Len(msgs)].role = "user" /\ Len(msgs) \in Nat
    BY <1>1, <2>1 DEF C!EndsInUser, C!Last
  <2>3. \A i \in 1..Len(msgs) : OwnResults(new[i]) = OwnResults(msgs[i]) /\ OwnText(new[i]) = OwnText(msgs[i])
    <3> TAKE i \in 1..Len(msgs)
    <3>1. CASE i = Len(msgs)
      BY <3>1, <2>1, <2>2 DEF OwnResults, OwnText
    <3>2. CASE i # Len(msgs)
      <4>1. i \in 1..(Len(msgs) - 1)
        BY <2>2, <3>2
      <4> QED BY <4>1, <2>1
    <3> QED BY <3>1, <3>2
  <2>4. [i \in 1..Len(new) |-> OwnResults(new[i])] = [i \in 1..Len(msgs) |-> OwnResults(msgs[i])]
    BY <2>1, <2>3
  <2>5. [i \in 1..Len(new) |-> OwnText(new[i])] = [i \in 1..Len(msgs) |-> OwnText(msgs[i])]
    BY <2>1, <2>3
  <2>6. \A ms : /\ ResultsIn(ms) = FlattenSeq([i \in 1..Len(ms) |-> OwnResults(ms[i])])
                /\ TextIn(ms) = FlattenSeq([i \in 1..Len(ms) |-> OwnText(ms[i])])
    BY DEF ResultsIn, TextIn, OwnResults, OwnText
  <2>7. ResultsIn(new) = ResultsIn(msgs) /\ TextIn(new) = TextIn(msgs)
    BY <2>4, <2>5, <2>6
  <2> QED BY <2>7 DEF new
<1>2. CASE ~C!EndsInUser(msgs)
  <2> DEFINE u == [role |-> "user", results |-> <<>>, text |-> <<n>>]
  <2>1. new = Append(msgs, u)
    BY <1>2, UserTextTypes
  <2>2. u \in C!Message /\ OwnResults(u) = <<>> /\ OwnText(u) = <<>>
    BY DEF OwnResults, OwnText, C!Message, C!UserMessage
  <2> HIDE DEF u, new
  <2>3. ResultsIn(msgs) \in Seq(C!Result) /\ TextIn(msgs) \in Seq(Chunk)
    BY HeldTypes
  <2>4. ResultsIn(new) = ResultsIn(msgs) \o <<>> /\ TextIn(new) = TextIn(msgs) \o <<>>
    BY <2>1, <2>2, HeldOneMore
  <2>5. ResultsIn(new) = ResultsIn(msgs) /\ TextIn(new) = TextIn(msgs)
    BY <2>3, <2>4
  <2> QED BY <2>5 DEF new
<1> QED BY <1>1, <1>2

-----------------------------------------------------------------------------
(* Every result is told: the inductive invariant. *)

(* Besides: outside of answering no results are held, and the log ends in  *)
(* a ToolCall just while that call's tool runs.                            *)
AnswerInv ==
  /\ AnswersShown
  /\ pc \notin {"answer", "tool"} => results = <<>>
  /\ EndsInCall(log) <=> pc = "tool"

LEMMA LastOfLonger ==
  ASSUME NEW E, NEW e \in Seq(E), NEW t \in Seq(E)
  PROVE  /\ t = <<>> => EndsInCall(e \o t) = EndsInCall(e)
         /\ t # <<>> => (EndsInCall(e \o t) <=> t[Len(t)].ev = "ToolCall")
<1>1. CASE t = <<>>
  BY <1>1
<1>2. CASE t # <<>>
  <2>1. /\ Len(e \o t) = Len(e) + Len(t) /\ Len(t) \in 1..Len(t) /\ Len(e) \in Nat /\ Len(t) > 0
        /\ (e \o t)[Len(e) + Len(t)] = t[Len(t)]
    BY <1>2
  <2> QED BY <1>2, <2>1 DEF EndsInCall
<1> QED BY <1>1, <1>2

LEMMA EventKinds ==
  /\ \A c : ~IsAnswer(Text(c)) /\ Text(c).ev # "ToolCall"
  /\ ~IsAnswer(Retry) /\ Retry.ev # "ToolCall"
  /\ ~IsAnswer(TurnComplete) /\ TurnComplete.ev # "ToolCall"
  /\ \A c : ~IsAnswer(ToolCall(c)) /\ ToolCall(c).ev = "ToolCall"
  /\ \A c : IsAnswer(ToolResult(c)) /\ ToolResult(c).ev = "ToolResult" /\ ToolResult(c).id = c
  /\ \A c : IsAnswer(ToolFailed(c)) /\ ToolFailed(c).ev = "ToolFailed" /\ ToolFailed(c).id = c
BY DEF IsAnswer, Text, Retry, TurnComplete, ToolCall, ToolResult, ToolFailed

(* Events that are neither calls nor answers tell of the same results. *)
LEMMA SilentTells ==
  ASSUME NEW e \in Seq(Event), NEW t \in Seq(Event), NEW rs \in Seq(C!Result),
         Tells(e, rs), ~EndsInCall(e), Silent(t)
  PROVE  e \o t \in Seq(Event) /\ Tells(e \o t, rs) /\ ~EndsInCall(e \o t)
<1>1. \A k \in 1..Len(t) : ~IsAnswer(t[k])
  BY DEF Silent
<1>2. Tells(e \o t, rs)
  BY <1>1, TellsAfterOther
<1>3. t # <<>> => t[Len(t)].ev # "ToolCall"
  <2>1. t # <<>> => Len(t) \in 1..Len(t)
    OBVIOUS
  <2> QED BY <2>1 DEF Silent
<1>4. e \o t \in Seq(Event)
  OBVIOUS
<1> QED BY <1>2, <1>3, <1>4, LastOfLonger

LEMMA OneEvent ==
  ASSUME NEW E, NEW e \in Seq(E), NEW x \in E
  PROVE  /\ Append(e, x) = e \o <<x>> /\ Append(e, x) \in Seq(E)
         /\ <<x>> \in Seq(E) /\ <<x>> # <<>> /\ Len(<<x>>) = 1 /\ <<x>>[1] = x
<1>1. Append(e, x) = e \o <<x>>
  OBVIOUS
<1>2. Append(e, x) \in Seq(E) /\ <<x>> \in Seq(E) /\ <<x>> # <<>>
  OBVIOUS
<1>3. Len(<<x>>) = 1 /\ <<x>>[1] = x
  OBVIOUS
<1> QED BY <1>1, <1>2, <1>3

(* A ToolCall alone answers nothing. *)
LEMMA CallTells ==
  ASSUME NEW e \in Seq(Event), NEW c \in Call, NEW rs \in Seq(C!Result), Tells(e, rs)
  PROVE  /\ Append(e, ToolCall(c)) \in Seq(Event) /\ EndsInCall(Append(e, ToolCall(c)))
         /\ Tells(Append(e, ToolCall(c)), rs)
<1> DEFINE a == ToolCall(c)
<1>1. a \in Event /\ ~IsAnswer(a) /\ a.ev = "ToolCall"
  BY EventTypes, EventKinds
<1> HIDE DEF a
<1>2. /\ Append(e, a) = e \o <<a>> /\ Append(e, a) \in Seq(Event)
      /\ <<a>> \in Seq(Event) /\ <<a>> # <<>> /\ Len(<<a>>) = 1 /\ <<a>>[1] = a
  BY <1>1, OneEvent
<1>3. \A k \in 1..Len(<<a>>) : ~IsAnswer(<<a>>[k])
  BY <1>1, <1>2
<1>4. Tells(e \o <<a>>, rs)
  BY <1>2, <1>3, TellsAfterOther
<1>5. EndsInCall(e \o <<a>>)
  BY <1>1, <1>2, LastOfLonger
<1> QED BY <1>2, <1>4, <1>5 DEF a

LEMMA OneSilent ==
  ASSUME NEW e \in Seq(Event), NEW x \in Event, NEW rs \in Seq(C!Result),
         Tells(e, rs), ~EndsInCall(e), ~IsAnswer(x), x.ev # "ToolCall"
  PROVE  Append(e, x) \in Seq(Event) /\ Tells(Append(e, x), rs) /\ ~EndsInCall(Append(e, x))
<1>1. <<x>> \in Seq(Event) /\ Append(e, x) = e \o <<x>>
  OBVIOUS
<1>2. Silent(<<x>>)
  BY DEF Silent
<1> QED BY <1>1, <1>2, SilentTells

LEMMA ShownTells ==
  ASSUME TypeOK, NEW m \in C!AssistantMessage, NEW rs \in Seq(C!Result),
         Tells(log, rs), ~EndsInCall(log)
  PROVE  Shown(m) \in Seq(Event) /\ Tells(Shown(m), rs) /\ ~EndsInCall(Shown(m))
<1>1. log \in Seq(Event) /\ m.text \in Seq(Chunk)
  BY MessageTypes DEF TypeOK
<1>2. TextOf(m) \in [1..Len(m.text) -> Event] /\ Len(m.text) \in Nat
  BY <1>1, EventTypes DEF TextOf
<1>3. TextOf(m) \in Seq(Event) /\ Len(TextOf(m)) = Len(m.text)
  BY <1>2, SeqDef
<1>4. Silent(TextOf(m))
  <2>1. \A k \in 1..Len(m.text) : TextOf(m)[k] = Text(m.text[k])
    BY DEF TextOf
  <2> QED BY <1>3, <2>1, EventKinds DEF Silent
<1> QED BY <1>1, <1>3, <1>4, SilentTells DEF Shown

(* Steps that store, answer and emit nothing. *)
LEMMA StillTold ==
  ASSUME AnswerInv, UNCHANGED <<transcript, results, log>>,
         pc' = pc \/ (pc \notin {"answer", "tool"} /\ pc' \notin {"answer", "tool"})
  PROVE  AnswerInv'
<1>1. log' = log /\ results' = results /\ transcript' = transcript
  OBVIOUS
<1>2. AnswersShown'
  BY <1>1 DEF AnswerInv, AnswersShown, StoredResults
<1> QED BY <1>1, <1>2 DEF AnswerInv

(* The ways out of a turn, with everything told. *)
LEMMA ReturnTold ==
  ASSUME NEW how, Return(how), transcript' \in Seq(C!Message),
         Tells(log', ResultsIn(transcript')), ~EndsInCall(log')
  PROVE  AnswerInv'
<1>1. results' = <<>> /\ pc' = "idle"
  BY DEF Return
<1>2. ResultsIn(transcript') \o <<>> = ResultsIn(transcript')
  BY HeldTypes
<1>3. AnswersShown'
  BY <1>1, <1>2 DEF AnswersShown, StoredResults
<1> QED BY <1>1, <1>3 DEF AnswerInv

LEMMA OutsideAnswering ==
  ASSUME IInv, AnswerInv, pc \notin {"answer", "tool"}
  PROVE  /\ results = <<>> /\ ~EndsInCall(log) /\ log \in Seq(Event)
         /\ transcript \in Seq(C!Message) /\ ResultsIn(transcript) \in Seq(C!Result)
         /\ Tells(log, ResultsIn(transcript))
<1>1. transcript \in Seq(C!Message) /\ log \in Seq(Event)
  BY DEF IInv, TypeOK
<1>2. ResultsIn(transcript) \in Seq(C!Result)
  BY <1>1, HeldTypes
<1>3. ResultsIn(transcript) \o <<>> = ResultsIn(transcript)
  BY <1>2
<1> QED BY <1>1, <1>2, <1>3 DEF AnswerInv, AnswersShown, StoredResults

LEMMA FailTold ==
  ASSUME IInv, AnswerInv, pc \notin {"answer", "tool"}, NEW error, Fail(error)
  PROVE  AnswerInv'
<1>1. Return(error) /\ transcript' = transcript /\ log' = log
  BY DEF Fail
<1>2. /\ transcript' \in Seq(C!Message) /\ ~EndsInCall(log')
      /\ Tells(log', ResultsIn(transcript'))
  BY <1>1, OutsideAnswering
<1> QED BY <1>1, <1>2, ReturnTold

LEMMA AcceptTold ==
  ASSUME IInv, AnswerInv, pc \in {"chat", "stream"}, NEW m \in C!AssistantMessage, NEW stop,
         Accept(m, stop)
  PROVE  AnswerInv'
<1> DEFINE rs == ResultsIn(transcript)
<1>1. /\ results = <<>> /\ ~EndsInCall(log) /\ log \in Seq(Event)
      /\ transcript \in Seq(C!Message) /\ rs \in Seq(C!Result) /\ Tells(log, rs)
  BY OutsideAnswering
<1>2. Shown(m) \in Seq(Event) /\ Tells(Shown(m), rs) /\ ~EndsInCall(Shown(m))
  BY <1>1, ShownTells DEF IInv
<1>3. m.calls \in Seq(Call) /\ m \in C!Message
  BY MessageTypes
<1>4. TurnComplete \in Event /\ ~IsAnswer(TurnComplete) /\ TurnComplete.ev # "ToolCall"
  BY EventTypes, EventKinds
<1>5. CASE AcceptNoCalls(m, stop)
  <2>1. \E how : Return(how)
    BY <1>5 DEF AcceptNoCalls
  <2>2. /\ transcript' \in Seq(C!Message)
        /\ ResultsIn(transcript') = rs
    <3>1. transcript' = transcript \/ transcript' = Append(transcript, m)
      BY <1>5 DEF AcceptNoCalls
    <3>2. CASE transcript' = Append(transcript, m)
      <4>1. Append(transcript, m) \in Seq(C!Message)
        BY <1>1, <1>3
      <4> QED BY <1>1, <3>2, <4>1, HeldAfterReply
    <3> QED BY <1>1, <3>1, <3>2
  <2>3. Tells(log', rs) /\ ~EndsInCall(log')
    <3>1. log' = Shown(m) \/ log' = Append(Shown(m), TurnComplete)
      BY <1>5 DEF AcceptNoCalls
    <3>2. CASE log' = Append(Shown(m), TurnComplete)
      <4> HIDE DEF rs
      <4>1. Tells(Append(Shown(m), TurnComplete), rs) /\ ~EndsInCall(Append(Shown(m), TurnComplete))
        BY <1>1, <1>2, <1>4, OneSilent
      <4> QED BY <3>2, <4>1
    <3> QED BY <1>2, <3>1, <3>2
  <2> QED BY <2>1, <2>2, <2>3, ReturnTold
<1>6. CASE AcceptRefusal(m, stop)
  <2> DEFINE failures == [k \in 1..Len(m.calls) |-> ToolFailed(m.calls[k])]
             us == NotRun(m.calls)
  <2>1. failures \in Seq(Event) /\ us \in Seq(C!Result)
    BY <1>3, NotRunAnswers
  <2>2. Len(failures) = Len(us) /\ m.calls # <<>> /\ Len(failures) = Len(m.calls)
    BY <1>3, <1>6 DEF NotRun, AcceptRefusal
  <2>3. \A k \in 1..Len(failures) :
           /\ failures[k] = ToolFailed(m.calls[k])
           /\ us[k].id = m.calls[k] /\ us[k].ran = 0 /\ us[k].how = "refused"
    BY <2>2 DEF NotRun
  <2>4. /\ log' = (Shown(m) \o failures) \o <<TurnComplete>>
        /\ transcript' =
             transcript \o <<m, [role |-> "user", results |-> us, text |-> <<>>]>>
        /\ Return("completed")
    BY <1>6 DEF AcceptRefusal
  <2> HIDE DEF failures, us, rs
  <2>5. \A k \in 1..Len(failures) :
           /\ IsAnswer(failures[k]) /\ failures[k].id = us[k].id
           /\ failures[k].ev = "ToolResult" <=> us[k].how = "answered"
           /\ us[k].ran > 0 => k = 1 /\ EndsInCall(Shown(m))
           /\ us[k].how = "refused" => ~EndsInCall(Shown(m))
    BY <1>2, <2>3, EventKinds
  <2>6. Tells(Shown(m) \o failures, rs \o us)
    BY <1>1, <1>2, <2>1, <2>2, <2>5, TellsAfterAnswers
  <2>7. ~EndsInCall(Shown(m) \o failures) /\ Shown(m) \o failures \in Seq(Event) /\ rs \o us \in Seq(C!Result)
    <3>1. failures # <<>> /\ Len(failures) \in 1..Len(failures)
      BY <1>3, <2>1, <2>2
    <3>2. failures[Len(failures)].ev # "ToolCall"
      BY <3>1, <2>3, EventKinds
    <3> QED BY <1>1, <1>2, <2>1, <3>1, <3>2, LastOfLonger
  <2>8. Tells(log', rs \o us) /\ ~EndsInCall(log')
    <3> DEFINE e == Shown(m) \o failures
    <3>1. e \in Seq(Event) /\ Append(e, TurnComplete) = e \o <<TurnComplete>>
      BY <1>4, <2>7
    <3> HIDE DEF e
    <3>2. Tells(Append(e, TurnComplete), rs \o us) /\ ~EndsInCall(Append(e, TurnComplete))
      BY <1>4, <2>6, <2>7, <3>1, OneSilent DEF e
    <3> QED BY <2>4, <3>1, <3>2 DEF e
  <2>9. ResultsIn(transcript') = rs \o us /\ transcript' \in Seq(C!Message)
    BY <1>1, <2>1, <2>4, HeldAfterExchange, ExchangeTypes DEF rs
  <2> QED BY <2>4, <2>8, <2>9, ReturnTold
<1>7. CASE AcceptCalls(m, stop)
  <2>1. pc' = "answer" /\ results' = <<>> /\ transcript' = transcript /\ log' = Shown(m)
    BY <1>7 DEF AcceptCalls
  <2>2. rs \o <<>> = rs
    BY <1>1
  <2>3. AnswersShown'
    BY <1>2, <2>1, <2>2 DEF AnswersShown, StoredResults
  <2> QED BY <1>2, <2>1, <2>3 DEF AnswerInv
<1> QED BY <1>5, <1>6, <1>7 DEF Accept

LEMMA FailedTold ==
  ASSUME IInv, AnswerInv, pc \in {"chat", "stream"}, NEW retryable, Failed(retryable)
  PROVE  AnswerInv'
<1>1. CASE retryable /\ attempt < Attempts
  <2>1. pc' = "backoff" /\ log' = Append(log, Retry) /\ transcript' = transcript /\ results' = results
    BY <1>1 DEF Failed
  <2>2. /\ results = <<>> /\ ~EndsInCall(log) /\ log \in Seq(Event)
        /\ ResultsIn(transcript) \in Seq(C!Result) /\ Tells(log, ResultsIn(transcript))
    BY OutsideAnswering
  <2>3. Tells(log', ResultsIn(transcript)) /\ ~EndsInCall(log')
    BY <2>1, <2>2, EventTypes, EventKinds, OneSilent
  <2>4. ResultsIn(transcript) \o <<>> = ResultsIn(transcript)
    BY <2>2
  <2>5. AnswersShown'
    BY <2>1, <2>2, <2>3, <2>4 DEF AnswersShown, StoredResults
  <2> QED BY <2>1, <2>2, <2>3, <2>5 DEF AnswerInv
<1>2. CASE ~(retryable /\ attempt < Attempts)
  BY <1>2, FailTold DEF Failed
<1> QED BY <1>1, <1>2

(* One more answer, to the call of a tool that ran or to one that did not. *)
LEMMA OneMoreTold ==
  ASSUME NEW rs \in Seq(C!Result), NEW done \in Seq(C!Result), NEW e \in Seq(Event),
         Tells(e, rs \o done), NEW r \in C!Result, NEW x \in Event,
         IsAnswer(x), x.id = r.id, x.ev = "ToolResult" <=> r.how = "answered",
         r.ran > 0 => EndsInCall(e), r.how # "refused"
  PROVE  /\ Append(e, x) \in Seq(Event) /\ ~EndsInCall(Append(e, x))
         /\ Tells(Append(e, x), rs \o Append(done, r))
<1> DEFINE t == <<x>>
           us == <<r>>
           so == rs \o done
<1>1. /\ t \in Seq(Event) /\ us \in Seq(C!Result) /\ Len(t) = Len(us) /\ Len(t) = 1
      /\ t[1] = x /\ us[1] = r /\ t # <<>>
      /\ Append(e, x) = e \o t /\ Append(e, x) \in Seq(Event)
      /\ rs \o Append(done, r) = so \o us /\ so \in Seq(C!Result)
  <2>1. /\ t \in Seq(Event) /\ us \in Seq(C!Result) /\ Len(t) = Len(us) /\ Len(t) = 1
        /\ t[1] = x /\ us[1] = r /\ t # <<>>
    OBVIOUS
  <2>2. Append(e, x) = e \o t /\ Append(e, x) \in Seq(Event)
    BY OneEvent
  <2>3. rs \o Append(done, r) = so \o us
    <3>1. rs \in Seq(C!Result) /\ done \in Seq(C!Result) /\ r \in C!Result
      OBVIOUS
    <3> QED BY ONLY <3>1, SMTT(30)
  <2>4. so \in Seq(C!Result)
    OBVIOUS
  <2> HIDE DEF t, us, so
  <2> QED BY <2>1, <2>2, <2>3, <2>4
<1> HIDE DEF t, us, so
<1>2. Tells(e, so)
  BY DEF so
<1>3. \A k \in 1..Len(t) :
           /\ IsAnswer(t[k]) /\ t[k].id = us[k].id
           /\ t[k].ev = "ToolResult" <=> us[k].how = "answered"
           /\ us[k].ran > 0 => k = 1 /\ EndsInCall(e)
           /\ us[k].how = "refused" => ~EndsInCall(e)
  <2> TAKE k \in 1..Len(t)
  <2>1. k = 1
    BY <1>1
  <2> QED BY <1>1, <2>1
<1>4. Tells(e \o t, so \o us)
  BY <1>1, <1>2, <1>3, TellsAfterAnswers
<1>5. x.ev # "ToolCall"
  BY DEF IsAnswer
<1>6. ~EndsInCall(e \o t)
  BY <1>1, <1>5, LastOfLonger
<1> QED BY <1>1, <1>4, <1>6

LEMMA AnswerWithTold ==
  ASSUME IInv, AnswerInv, pc \in {"answer", "tool"}, Len(results) < Len(draft.calls),
         NEW event \in {ToolResult(Asked), ToolFailed(Asked)},
         NEW how \in C!How \ {"refused"}, event = ToolResult(Asked) <=> how = "answered",
         NEW ran \in Nat, ran > 0 => pc = "tool", AnswerWith(event, how, ran)
  PROVE  AnswerInv'
<1> DEFINE r == [id |-> Asked, how |-> how, ran |-> ran]
           rs == ResultsIn(transcript)
<1>1. /\ transcript \in Seq(C!Message) /\ log \in Seq(Event) /\ results \in Seq(C!Result)
      /\ draft.calls \in Seq(Call)
  BY MessageTypes DEF IInv, TypeOK
<1>2. Asked \in Call
  BY <1>1 DEF Asked
<1>3. r \in C!Result /\ r.id = Asked /\ r.how = how /\ r.ran = ran
  BY <1>2 DEF C!Result
<1>4. /\ event \in Event /\ IsAnswer(event) /\ event.id = Asked
      /\ event.ev = "ToolResult" <=> how = "answered"
  <2>1. event \in Event
    BY <1>2, EventTypes
  <2>2. ToolResult(Asked) # ToolFailed(Asked)
    BY DEF ToolResult, ToolFailed
  <2> QED BY <2>1, <2>2, EventKinds
<1>5. /\ results' = Append(results, r) /\ log' = Append(log, event) /\ pc' = "answer"
      /\ transcript' = transcript
  BY DEF AnswerWith
<1>6. rs \in Seq(C!Result) /\ Tells(log, rs \o results) /\ (EndsInCall(log) <=> pc = "tool")
  BY <1>1, HeldTypes DEF AnswerInv, AnswersShown, StoredResults
<1> HIDE DEF r, rs
<1>7. ~EndsInCall(Append(log, event)) /\ Tells(Append(log, event), rs \o Append(results, r))
  BY <1>1, <1>3, <1>4, <1>6, OneMoreTold
<1>8. AnswersShown'
  BY <1>5, <1>7 DEF AnswersShown, StoredResults, rs
<1> QED BY <1>5, <1>7, <1>8 DEF AnswerInv

LEMMA StepTold == IInv /\ AnswerInv /\ [Next]_vars => AnswerInv'
<1> SUFFICES ASSUME IInv, AnswerInv, [Next]_vars PROVE AnswerInv'
  OBVIOUS
<1>1. /\ transcript \in Seq(C!Message) /\ log \in Seq(Event) /\ results \in Seq(C!Result)
      /\ draft \in C!AssistantMessage /\ draft.calls \in Seq(Call)
      /\ ResultsIn(transcript) \in Seq(C!Result)
  BY MessageTypes, HeldTypes DEF IInv, TypeOK
<1>2. CASE StartTurn
  <2>1. turns + 1 \in 1..MaxTurns
    BY <1>2, ParametersAssumption DEF IInv, TypeOK, StartTurn
  <2>2. /\ pc = "idle" /\ pc' = "round" /\ log' = log /\ results' = <<>>
        /\ transcript' = C!WithUserText(transcript, turns + 1)
    BY <1>2 DEF StartTurn
  <2>3. ResultsIn(transcript') = ResultsIn(transcript)
    BY <1>1, <2>1, <2>2, HeldAfterUser
  <2>4. results = <<>> /\ ~EndsInCall(log)
    BY <2>2, OutsideAnswering
  <2>5. AnswersShown'
    BY <2>2, <2>3, <2>4 DEF AnswerInv, AnswersShown, StoredResults
  <2> QED BY <2>2, <2>4, <2>5 DEF AnswerInv
<1>3. CASE BeginRound \/ BackoffOver
  <2>1. CASE cancelled
    BY <1>3, <2>1, FailTold DEF BeginRound, BackoffOver
  <2>2. CASE ~cancelled
    BY <1>3, <2>2, StillTold DEF BeginRound, BackoffOver
  <2> QED BY <2>1, <2>2
<1>4. CASE SkipCall
  <2>1. "before_start" \in C!How \ {"refused"} /\ 0 \in Nat
    BY DEF C!How
  <2>2. ToolFailed(Asked) # ToolResult(Asked)
    BY DEF ToolFailed, ToolResult
  <2> QED BY <1>4, <2>1, <2>2, AnswerWithTold DEF SkipCall
<1>5. CASE RejectCall
  <2> DEFINE r == [id |-> Asked, how |-> "failed", ran |-> 0]
             a == ToolCall(Asked)
             c == ToolFailed(Asked)
             rs == ResultsIn(transcript)
  <2>1. /\ pc = "answer" /\ Len(results) < Len(draft.calls) /\ results' = Append(results, r)
        /\ log' = log \o <<a, c>> /\ pc' = pc /\ transcript' = transcript
    BY <1>5 DEF RejectCall
  <2>2. Asked \in Call
    BY <1>1, <2>1 DEF Asked
  <2>3. r \in C!Result /\ r.id = Asked /\ r.how = "failed" /\ r.ran = 0
    BY <2>2 DEF C!Result, C!How
  <2>4. /\ a \in Event /\ ~IsAnswer(a)
        /\ c \in Event /\ IsAnswer(c) /\ c.id = Asked /\ c.ev = "ToolFailed"
    BY <2>2, EventTypes, EventKinds
  <2> HIDE DEF r, a, c, rs
  <2>5. log' = Append(Append(log, a), c) /\ Append(log, a) \in Seq(Event)
    BY <1>1, <2>1, <2>4, AddOneOrTwo
  <2>6. Tells(Append(log, a), rs \o results) /\ rs \in Seq(C!Result)
    <3>1. Tells(log, rs \o results) /\ rs \o results \in Seq(C!Result)
      BY <1>1 DEF AnswerInv, AnswersShown, StoredResults, rs
    <3> QED BY <1>1, <2>2, <3>1, CallTells DEF rs, a
  <2>7. ~EndsInCall(log') /\ Tells(log', rs \o Append(results, r))
    <3>1. (c.ev = "ToolResult" <=> r.how = "answered") /\ ~(r.ran > 0) /\ r.how # "refused" /\ c.id = r.id
      BY <2>3, <2>4
    <3> QED BY <1>1, <2>3, <2>4, <2>5, <2>6, <3>1, OneMoreTold
  <2>8. AnswersShown'
    BY <2>1, <2>7 DEF AnswersShown, StoredResults, rs
  <2> QED BY <2>1, <2>7, <2>8 DEF AnswerInv
<1>6. CASE DispatchCall
  <2> DEFINE a == ToolCall(Asked)
             rs == ResultsIn(transcript) \o results
  <2>1. /\ pc = "answer" /\ Len(results) < Len(draft.calls) /\ results' = results
        /\ log' = Append(log, a) /\ pc' = "tool" /\ transcript' = transcript
    BY <1>6 DEF DispatchCall
  <2>2. Asked \in Call
    BY <1>1, <2>1 DEF Asked
  <2>3. rs \in Seq(C!Result) /\ Tells(log, rs)
    BY <1>1 DEF AnswerInv, AnswersShown, StoredResults
  <2> HIDE DEF rs
  <2>7. Tells(log', rs) /\ EndsInCall(log')
    BY <1>1, <2>1, <2>2, <2>3, CallTells
  <2>8. AnswersShown'
    BY <2>1, <2>7 DEF AnswersShown, StoredResults, rs
  <2> QED BY <2>1, <2>7, <2>8 DEF AnswerInv
<1>7. CASE SettleCall
  <2>1. /\ tool.ran \in Nat /\ pc = "tool" /\ Len(results) < Len(draft.calls)
    BY <1>7, ParametersAssumption DEF SettleCall, IInv, TypeOK, Tool, LoopInv
  <2>2. /\ "answered" \in C!How /\ "failed" \in C!How
        /\ (IF cancelled THEN CutOf(tool.end) ELSE "failed") \in C!How \ {"refused", "answered"}
    BY DEF C!How, CutOf
  <2>3. ToolFailed(Asked) # ToolResult(Asked)
    BY DEF ToolFailed, ToolResult
  <2>4. CASE AnswerWith(ToolResult(Asked), "answered", tool.ran)
    BY <2>1, <2>2, <2>4, AnswerWithTold
  <2>5. CASE AnswerWith(ToolFailed(Asked), "failed", tool.ran)
    BY <2>1, <2>2, <2>3, <2>5, AnswerWithTold
  <2>6. CASE AnswerWith(ToolFailed(Asked), IF cancelled THEN CutOf(tool.end) ELSE "failed", tool.ran)
    <3> DEFINE how == IF cancelled THEN CutOf(tool.end) ELSE "failed"
    <3>1. how \in C!How \ {"refused", "answered"} /\ AnswerWith(ToolFailed(Asked), how, tool.ran)
      BY <2>2, <2>6
    <3> HIDE DEF how
    <3> QED BY <2>1, <2>3, <3>1, AnswerWithTold
  <2> QED BY <1>7, <2>4, <2>5, <2>6 DEF SettleCall
<1>8. CASE StoreRound
  <2>1. /\ pc = "answer" /\ log' = log
        /\ transcript' =
             transcript \o <<draft, [role |-> "user", results |-> results, text |-> <<>>]>>
    BY <1>8 DEF StoreRound
  <2>2. ResultsIn(transcript') = ResultsIn(transcript) \o results /\ transcript' \in Seq(C!Message)
    BY <1>1, <2>1, HeldAfterExchange, ExchangeTypes
  <2>3. Tells(log', ResultsIn(transcript')) /\ ~EndsInCall(log')
    BY <2>1, <2>2 DEF AnswerInv, AnswersShown, StoredResults
  <2>4. CASE \E how : Return(how)
    BY <2>2, <2>3, <2>4, ReturnTold
  <2>5. CASE pc' = "round" /\ results' = <<>>
    <3>1. ResultsIn(transcript') \o <<>> = ResultsIn(transcript')
      BY <2>2, HeldTypes
    <3>2. AnswersShown'
      BY <2>3, <2>5, <3>1 DEF AnswersShown, StoredResults
    <3> QED BY <2>3, <2>5, <3>2 DEF AnswerInv
  <2> QED BY <1>8, <2>4, <2>5 DEF StoreRound
<1>9. CASE ChatMessage \/ StreamEnd
  BY <1>1, <1>9, AcceptTold, DraftTypes DEF ChatMessage, StreamEnd
<1>10. CASE ChatFailed \/ StreamError
  BY <1>10, FailedTold DEF ChatFailed, StreamError
<1>11. CASE ChatStepError \/ ChatContract \/ StreamContract \/ StreamOver
  BY <1>11, FailTold DEF ChatStepError, ChatContract, StreamContract, StreamOver
<1>12. CASE ChatStreamHandle \/ StreamBlock
  BY <1>12, StillTold DEF ChatStreamHandle, StreamBlock
<1>13. CASE StreamText
  <2>1. PICK c \in Chunk : log' = Append(log, Text(c))
    BY <1>13 DEF StreamText
  <2>2. pc = "stream" /\ pc' = pc /\ results' = results /\ transcript' = transcript
    BY <1>13 DEF StreamText
  <2>3. results = <<>> /\ ~EndsInCall(log) /\ Tells(log, ResultsIn(transcript))
    BY <2>2, OutsideAnswering
  <2>4. Tells(log', ResultsIn(transcript)) /\ ~EndsInCall(log')
    BY <1>1, <2>1, <2>3, EventTypes, EventKinds, OneSilent
  <2>5. ResultsIn(transcript) \o <<>> = ResultsIn(transcript)
    BY <1>1
  <2>6. AnswersShown'
    BY <2>2, <2>3, <2>4, <2>5 DEF AnswersShown, StoredResults
  <2> QED BY <2>2, <2>3, <2>4, <2>6 DEF AnswerInv
<1>14. CASE ToolRun
  BY <1>14, StillTold DEF ToolRun, KernelStops, StepAsks, ToolReturns, Allow, Deny, Withdraw, Ceiling,
       WorkDone, WorkCut, EndTool, ToolStep
<1>15. CASE Cancel \/ UNCHANGED vars
  BY <1>15, StillTold DEF Cancel, vars
<1> QED
  BY <1>2, <1>3, <1>4, <1>5, <1>6, <1>7, <1>8, <1>9, <1>10, <1>11, <1>12, <1>13, <1>14, <1>15
  DEF Next, Loop, Provider

(* The frontend hears of every result the model gets, once, in its order   *)
(* and as what it was, and of no tool that acts unannounced.               *)
THEOREM AllAnswersShown == Spec => []AnswersShown
<1>1. Init => AnswerInv
  <2> SUFFICES ASSUME Init PROVE AnswerInv
    OBVIOUS
  <2>1. transcript = <<>> /\ log = <<>> /\ results = <<>> /\ pc = "idle"
    BY DEF Init
  <2>2. ResultsIn(transcript) \o results = <<>>
    BY <2>1, NothingHeld
  <2>3. AnswersShown
    BY <2>1, <2>2, TellsNothing DEF AnswersShown, StoredResults
  <2>4. ~EndsInCall(log)
    BY <2>1 DEF EndsInCall
  <2> QED BY <2>1, <2>3, <2>4 DEF AnswerInv
<1>2. AnswerInv => AnswersShown
  BY DEF AnswerInv
<1> QED
  BY <1>1, <1>2, StepTold, InductiveInvariant, PTL DEF Spec

-----------------------------------------------------------------------------
(* What the print frontend holds is a function of the events. *)

(* What the print frontend holds. *)
Hearing == [pending: Seq(Chunk), stdout: Seq(Chunk)]

LEMMA EmitTypes ==
  ASSUME NEW s \in Hearing, NEW x \in Event
  PROVE  Emit(s, x) \in Hearing
<1>1. s.pending \in Seq(Chunk) /\ s.stdout \in Seq(Chunk)
  BY DEF Hearing
<1>2. CASE x.ev = "Text"
  <2>1. x.chunk \in Chunk
    BY <1>2 DEF Event
  <2> DEFINE longer == Append(s.pending, x.chunk)
  <2>2. longer \in Seq(Chunk)
    BY <1>1, <2>1
  <2>3. Emit(s, x) = [s EXCEPT !.pending = longer]
    BY <1>2 DEF Emit
  <2> HIDE DEF longer
  <2>4. [s EXCEPT !.pending = longer] \in Hearing
    BY <2>2 DEF Hearing
  <2> QED BY <2>3, <2>4
<1>3. CASE x.ev = "Retry"
  <2> DEFINE none == <<>>
  <2>1. Emit(s, x) = [s EXCEPT !.pending = none] /\ none \in Seq(Chunk)
    BY <1>3 DEF Emit
  <2> HIDE DEF none
  <2>2. [s EXCEPT !.pending = none] \in Hearing
    BY <2>1 DEF Hearing
  <2> QED BY <2>1, <2>2
<1>4. CASE x.ev = "ToolResult"
  BY <1>4 DEF Emit
<1>5. CASE x.ev \in {"ToolCall", "ToolFailed", "TurnComplete"}
  <2>1. Emit(s, x) = Flushed(s)
    BY <1>5 DEF Emit
  <2>2. s.stdout \o s.pending \in Seq(Chunk)
    BY <1>1
  <2> QED BY <2>1, <2>2 DEF Flushed, Hearing
<1>6. x.ev \in {"Text", "Retry", "ToolResult", "ToolCall", "ToolFailed", "TurnComplete"}
  BY DEF Event
<1> QED BY <1>2, <1>3, <1>4, <1>5, <1>6

(* The function Heard is read from: f[n] is what is held after n events. *)
Hears(e, f) == f = [n \in 0..Len(e) |-> IF n = 0 THEN New ELSE Emit(f[n - 1], e[n])]

LEMMA HearsAt ==
  ASSUME NEW e \in Seq(Event), NEW f, Hears(e, f)
  PROVE  f[0] = New /\ \A k \in 0..(Len(e) - 1) : f[k + 1] = Emit(f[k], e[k + 1])
<1> DEFINE F == [n \in 0..Len(e) |-> IF n = 0 THEN New ELSE Emit(f[n - 1], e[n])]
<1>1. f = F
  BY DEF Hears
<1>2. F[0] = New
  OBVIOUS
<1>3. ASSUME NEW k \in 0..(Len(e) - 1)
      PROVE  F[k + 1] = Emit(f[k], e[k + 1])
  <2>1. k + 1 \in 0..Len(e) /\ k + 1 # 0 /\ k + 1 - 1 = k
    OBVIOUS
  <2>2. F[k + 1] = IF k + 1 = 0 THEN New ELSE Emit(f[k + 1 - 1], e[k + 1])
    BY <2>1
  <2> QED BY <2>1, <2>2
<1> HIDE DEF F
<1> QED BY <1>1, <1>2, <1>3

LEMMA HearsTypes ==
  ASSUME NEW e \in Seq(Event), NEW f, Hears(e, f)
  PROVE  \A n \in 0..Len(e) : f[n] \in Hearing
<1> DEFINE Good == {n \in 0..Len(e) : f[n] \in Hearing}
<1>1. Len(e) \in Nat /\ 0 \in 0..Len(e) /\ \A k \in 0..(Len(e) - 1) : k + 1 \in 0..Len(e) /\ e[k + 1] \in Event
  OBVIOUS
<1>2. 0 \in Good
  <2>1. f[0] = New /\ New \in Hearing
    BY HearsAt DEF New, Hearing
  <2> QED BY <1>1, <2>1
<1>3. ASSUME NEW k \in 0..(Len(e) - 1), k \in Good
      PROVE  k + 1 \in Good
  <2>1. f[k + 1] = Emit(f[k], e[k + 1])
    BY HearsAt
  <2>2. f[k + 1] \in Hearing
    BY <1>1, <1>3, <2>1, EmitTypes
  <2> QED BY <1>1, <2>2
<1> HIDE DEF Good
<1>4. 0..Len(e) \subseteq Good
  BY <1>1, <1>2, <1>3, BySteps
<1> QED BY <1>4 DEF Good

LEMMA SomethingHears ==
  ASSUME NEW e \in Seq(Event)
  PROVE  \E f : Hears(e, f)
<1> DEFINE n == Len(e)
           Upto(f, m) == \A i \in 0..m : f[i] = IF i = 0 THEN New ELSE Emit(f[i - 1], e[i])
           Good == {m \in 0..n : \E f \in [0..m -> Hearing] : Upto(f, m)}
<1>1. 0 \in Good
  <2> DEFINE f == [i \in 0..0 |-> New]
  <2>1. New \in Hearing /\ 0 \in 0..n
    BY DEF New, Hearing
  <2>2. f \in [0..0 -> Hearing]
    BY <2>1
  <2>3. \A i \in 0..0 : i = 0 /\ f[i] = New
    OBVIOUS
  <2> HIDE DEF f
  <2>4. Upto(f, 0)
    BY <2>3
  <2> HIDE DEF Upto
  <2>5. \E h \in [0..0 -> Hearing] : Upto(h, 0)
    BY <2>2, <2>4
  <2> QED BY <2>1, <2>5
<1>2. ASSUME NEW m \in 0..(n - 1), m \in Good
      PROVE  m + 1 \in Good
  <2>1. PICK f \in [0..m -> Hearing] : Upto(f, m)
    BY <1>2
  <2> DEFINE v == Emit(f[m], e[m + 1])
             g == [i \in 0..(m + 1) |-> IF i <= m THEN f[i] ELSE v]
  <2>2. v \in Hearing
    <3>1. m + 1 \in 1..n /\ e[m + 1] \in Event /\ m \in 0..m
      OBVIOUS
    <3>2. f[m] \in Hearing
      BY <3>1
    <3> QED BY <3>1, <3>2, EmitTypes
  <2>3. g \in [0..(m + 1) -> Hearing]
    <3> HIDE DEF v
    <3> QED BY <2>2
  <2>4. ASSUME NEW i \in 0..(m + 1)
        PROVE  g[i] = IF i = 0 THEN New ELSE Emit(g[i - 1], e[i])
    <3>1. CASE i <= m
      <4>1. i \in 0..m /\ (i # 0 => i - 1 \in 0..m /\ i - 1 \in 0..(m + 1) /\ i - 1 <= m)
        BY <3>1
      <4>2. g[i] = f[i] /\ (i # 0 => g[i - 1] = f[i - 1])
        <5> HIDE DEF v
        <5> QED BY <4>1, <3>1
      <4>3. f[i] = IF i = 0 THEN New ELSE Emit(f[i - 1], e[i])
        BY <2>1, <4>1
      <4> HIDE DEF g
      <4> QED BY <4>2, <4>3
    <3>2. CASE i = m + 1
      <4>1. i # 0 /\ ~(i <= m) /\ i - 1 = m /\ i - 1 \in 0..(m + 1) /\ i - 1 <= m
        BY <3>2
      <4>2. g[i] = v /\ g[i - 1] = f[m]
        <5> HIDE DEF v
        <5> QED BY <4>1
      <4>3. v = Emit(f[m], e[i])
        BY <3>2
      <4> HIDE DEF g, v
      <4> QED BY <4>1, <4>2, <4>3
    <3>3. i <= m \/ i = m + 1
      OBVIOUS
    <3> QED BY <3>1, <3>2, <3>3
  <2>5. m + 1 \in 0..n
    OBVIOUS
  <2>6. Upto(g, m + 1)
    <3> HIDE DEF g
    <3> QED BY <2>4
  <2> HIDE DEF g, Upto
  <2> QED BY <2>3, <2>6, <2>5
<1>3. n \in Good
  <2>1. n \in Nat /\ n \in 0..n
    OBVIOUS
  <2> HIDE DEF Good, n
  <2>2. 0..n \subseteq Good
    BY <2>1, <1>1, <1>2, BySteps
  <2> QED BY <2>1, <2>2
<1>4. PICK f \in [0..n -> Hearing] : Upto(f, n)
  BY <1>3
<1>5. f = [i \in 0..Len(e) |-> IF i = 0 THEN New ELSE Emit(f[i - 1], e[i])]
  BY <1>4
<1> QED BY <1>5 DEF Hears

LEMMA HeardHears ==
  ASSUME NEW e \in Seq(Event)
  PROVE  \E f : Hears(e, f) /\ Heard(e) = f[Len(e)]
<1> DEFINE f == CHOOSE f : Hears(e, f)
<1>1. Heard(e) = f[Len(e)]
  BY DEF Heard, Hears
<1>2. \E g : Hears(e, g)
  BY SomethingHears
<1>3. Hears(e, f)
  BY <1>2
<1> QED BY <1>1, <1>3

LEMMA HeardTypes ==
  ASSUME NEW e \in Seq(Event)
  PROVE  Heard(e) \in Hearing /\ Heard(e).pending \in Seq(Chunk) /\ Heard(e).stdout \in Seq(Chunk)
<1>1. PICK f : Hears(e, f) /\ Heard(e) = f[Len(e)]
  BY HeardHears
<1>2. Len(e) \in 0..Len(e)
  OBVIOUS
<1>3. Heard(e) \in Hearing
  BY <1>1, <1>2, HearsTypes
<1> QED BY <1>3 DEF Hearing

LEMMA HeardNothing == Heard(<<>>) = New
<1>1. <<>> \in Seq(Event) /\ Len(<<>>) = 0
  OBVIOUS
<1>2. PICK f : Hears(<<>>, f) /\ Heard(<<>>) = f[0]
  BY <1>1, HeardHears
<1> QED BY <1>1, <1>2, HearsAt

LEMMA HeardOneMore ==
  ASSUME NEW e \in Seq(Event), NEW x \in Event
  PROVE  Heard(Append(e, x)) = Emit(Heard(e), x)
<1> DEFINE n == Len(e)
           d == Append(e, x)
<1>1. /\ n \in Nat /\ d \in Seq(Event) /\ Len(d) = n + 1 /\ d[n + 1] = x /\ n \in 0..(Len(d) - 1)
      /\ \A k \in 0..(n - 1) : d[k + 1] = e[k + 1] /\ k \in 0..(Len(d) - 1) /\ k + 1 \in 0..n
  OBVIOUS
<1> HIDE DEF d
<1>2. PICK f : Hears(e, f) /\ Heard(e) = f[n]
  BY HeardHears
<1>3. PICK g : Hears(d, g) /\ Heard(d) = g[n + 1]
  BY <1>1, HeardHears
<1> DEFINE Good == {k \in 0..n : f[k] = g[k]}
<1>4. 0 \in Good
  BY <1>1, <1>2, <1>3, HearsAt
<1>5. ASSUME NEW k \in 0..(n - 1), k \in Good
      PROVE  k + 1 \in Good
  <2>1. f[k + 1] = Emit(f[k], e[k + 1])
    BY <1>2, HearsAt
  <2>2. g[k + 1] = Emit(g[k], d[k + 1])
    BY <1>1, <1>3, HearsAt
  <2> QED BY <1>1, <1>5, <2>1, <2>2
<1>6. n \in Good
  <2> HIDE DEF Good, n
  <2>1. 0..n \subseteq Good
    BY <1>1, <1>4, <1>5, BySteps
  <2>2. n \in 0..n
    BY <1>1
  <2> QED BY <2>1, <2>2
<1>7. g[n + 1] = Emit(g[n], x)
  BY <1>1, <1>3, HearsAt
<1> QED BY <1>2, <1>3, <1>6, <1>7 DEF d

-----------------------------------------------------------------------------
(* What is written to stdout: the inductive invariant. *)

Holds(e, p, out) == Heard(e).pending = p /\ Heard(e).stdout = out

(* What one event, and a message's text, does to what is held. *)
LEMMA AfterText ==
  ASSUME NEW e \in Seq(Event), NEW c \in Chunk
  PROVE  Holds(Append(e, Text(c)), Append(Heard(e).pending, c), Heard(e).stdout)
<1> DEFINE s == Heard(e)
           longer == Append(s.pending, c)
<1>1. Text(c) \in Event /\ Text(c).ev = "Text" /\ Text(c).chunk = c
  BY EventTypes DEF Text
<1>2. Heard(Append(e, Text(c))) = Emit(s, Text(c)) /\ s \in Hearing
  BY <1>1, HeardOneMore, HeardTypes
<1> HIDE DEF s
<1>3. Emit(s, Text(c)) = [s EXCEPT !.pending = longer]
  BY <1>1 DEF Emit
<1> HIDE DEF longer
<1>4. [s EXCEPT !.pending = longer].pending = longer /\ [s EXCEPT !.pending = longer].stdout = s.stdout
  BY <1>2 DEF Hearing
<1> QED BY <1>2, <1>3, <1>4 DEF Holds, s, longer

LEMMA AfterRetry ==
  ASSUME NEW e \in Seq(Event)
  PROVE  Holds(Append(e, Retry), <<>>, Heard(e).stdout)
<1> DEFINE s == Heard(e)
           none == <<>>
<1>1. Retry \in Event /\ Retry.ev = "Retry"
  BY EventTypes DEF Retry
<1>2. Heard(Append(e, Retry)) = Emit(s, Retry) /\ s \in Hearing
  BY <1>1, HeardOneMore, HeardTypes
<1> HIDE DEF s
<1>3. Emit(s, Retry) = [s EXCEPT !.pending = none]
  BY <1>1 DEF Emit
<1> HIDE DEF none
<1>4. [s EXCEPT !.pending = none].pending = none /\ [s EXCEPT !.pending = none].stdout = s.stdout
  BY <1>2 DEF Hearing
<1> QED BY <1>2, <1>3, <1>4 DEF Holds, s, none

LEMMA AfterFlush ==
  ASSUME NEW e \in Seq(Event), NEW x \in Event, x.ev \in {"ToolCall", "ToolFailed", "TurnComplete"}
  PROVE  Holds(Append(e, x), <<>>, Heard(e).stdout \o Heard(e).pending)
<1>1. Heard(Append(e, x)) = Emit(Heard(e), x)
  BY HeardOneMore
<1>2. Emit(Heard(e), x) = Flushed(Heard(e))
  BY DEF Emit
<1>3. /\ Flushed(Heard(e)).pending = <<>>
      /\ Flushed(Heard(e)).stdout = Heard(e).stdout \o Heard(e).pending
  BY DEF Flushed
<1> QED BY <1>1, <1>2, <1>3 DEF Holds

LEMMA AfterResult ==
  ASSUME NEW e \in Seq(Event), NEW x \in Event, x.ev = "ToolResult"
  PROVE  Heard(Append(e, x)) = Heard(e)
<1>1. Heard(Append(e, x)) = Emit(Heard(e), x)
  BY HeardOneMore
<1> QED BY <1>1 DEF Emit

LEMMA AfterTexts ==
  ASSUME NEW e \in Seq(Event), NEW m \in C!AssistantMessage, Heard(e).pending = <<>>
  PROVE  Holds(e \o TextOf(m), m.text, Heard(e).stdout)
<1> DEFINE n == Len(m.text)
           b == TextOf(m)
           Good == {k \in 0..n : Holds(e \o SubSeq(b, 1, k), SubSeq(m.text, 1, k), Heard(e).stdout)}
<1>1. m.text \in Seq(Chunk) /\ n \in Nat
  BY MessageTypes
<1>2. b \in [1..n -> Event] /\ \A k \in 1..n : b[k] = Text(m.text[k])
  BY <1>1, EventTypes DEF TextOf
<1> HIDE DEF b
<1>3. b \in Seq(Event) /\ Len(b) = n
  BY <1>1, <1>2, SeqDef, SMTT(30)
<1>4. 0 \in Good
  <2>1. SubSeq(b, 1, 0) = <<>> /\ SubSeq(m.text, 1, 0) = <<>> /\ 0 \in 0..n
    BY <1>1, <1>3
  <2>2. e \o SubSeq(b, 1, 0) = e
    BY <2>1
  <2> QED BY <2>1, <2>2 DEF Holds
<1>5. ASSUME NEW k \in 0..(n - 1), k \in Good
      PROVE  k + 1 \in Good
  <2> DEFINE sofar == SubSeq(b, 1, k)
             texts == SubSeq(m.text, 1, k)
  <2>1. /\ k \in Nat /\ 0 + k < Len(b) /\ 0 + k < Len(m.text) /\ 0 \in Nat
        /\ 0 + 1 = 1 /\ 0 + (k + 1) = k + 1 /\ 0 + k = k /\ 0 + k + 1 = k + 1
        /\ k + 1 \in 1..n /\ k + 1 \in 0..n
    BY <1>1, <1>3
  <2>2. SubSeq(b, 0 + 1, 0 + (k + 1)) = SubSeq(b, 0 + 1, 0 + k) \o <<b[0 + k + 1]>>
    BY <1>3, <2>1, OneMore
  <2>3. SubSeq(m.text, 0 + 1, 0 + (k + 1)) = SubSeq(m.text, 0 + 1, 0 + k) \o <<m.text[0 + k + 1]>>
    BY <1>1, <2>1, OneMore
  <2>4. SubSeq(b, 1, k + 1) = sofar \o <<b[k + 1]>> /\ SubSeq(m.text, 1, k + 1) = texts \o <<m.text[k + 1]>>
    BY ONLY <2>1, <2>2, <2>3
  <2>5. sofar \in Seq(Event) /\ texts \in Seq(Chunk) /\ m.text[k + 1] \in Chunk
    <3>1. k \in 0..Len(b) /\ k \in 0..Len(m.text)
      BY <2>1, <1>3, <1>1
    <3> QED BY <1>1, <1>3, <2>1, <3>1, CutIsPrefix
  <2>6. Holds(e \o sofar, texts, Heard(e).stdout)
    BY <1>5
  <2> HIDE DEF sofar, texts
  <2>7. b[k + 1] = Text(m.text[k + 1]) /\ b[k + 1] \in Event
    BY <1>2, <2>1
  <2>8. e \o (sofar \o <<b[k + 1]>>) = Append(e \o sofar, b[k + 1]) /\ e \o sofar \in Seq(Event)
    <3> DEFINE x == b[k + 1]
    <3>1. e \in Seq(Event) /\ sofar \in Seq(Event) /\ x \in Event
      BY <2>5, <2>7
    <3> HIDE DEF x
    <3>2. e \o (sofar \o <<x>>) = Append(e \o sofar, x) /\ e \o sofar \in Seq(Event)
      BY ONLY <3>1, SMTT(30)
    <3> QED BY <3>2 DEF x
  <2>9. Holds(Append(e \o sofar, Text(m.text[k + 1])), Append(texts, m.text[k + 1]), Heard(e).stdout)
    BY <2>5, <2>6, <2>8, AfterText DEF Holds
  <2>10. Append(texts, m.text[k + 1]) = texts \o <<m.text[k + 1]>>
    BY <2>5, OneEvent
  <2>11. Holds(e \o SubSeq(b, 1, k + 1), SubSeq(m.text, 1, k + 1), Heard(e).stdout)
    BY <2>4, <2>7, <2>8, <2>9, <2>10
  <2> QED BY <2>1, <2>11
<1>6. n \in Good
  <2>1. n \in 0..n
    BY <1>1
  <2> HIDE DEF Good, n
  <2>2. 0..n \subseteq Good
    BY <1>1, <1>4, <1>5, BySteps
  <2> QED BY <2>1, <2>2
<1>7. SubSeq(b, 1, n) = b /\ SubSeq(m.text, 1, n) = m.text
  BY <1>1, <1>3
<1> QED BY <1>6, <1>7 DEF b

(* The failures of a refused round write out what is held, and no more. *)
LEMMA AfterFailures ==
  ASSUME NEW e \in Seq(Event), NEW t \in Seq(Event), \A k \in 1..Len(t) : t[k].ev = "ToolFailed"
  PROVE  Holds(Append(e \o t, TurnComplete), <<>>, Heard(e).stdout \o Heard(e).pending)
<1> DEFINE n == Len(t)
           all == Heard(e).stdout \o Heard(e).pending
           Whole(d) == Heard(d).stdout \o Heard(d).pending
           Good == {k \in 0..n : Whole(e \o SubSeq(t, 1, k)) = all}
<1>1. n \in Nat
  OBVIOUS
<1>2. 0 \in Good
  <2>1. e \o SubSeq(t, 1, 0) = e /\ 0 \in 0..n
    OBVIOUS
  <2> QED BY <2>1
<1>3. ASSUME NEW d \in Seq(Event), NEW x \in Event, x.ev \in {"ToolFailed", "TurnComplete"}
      PROVE  Whole(Append(d, x)) = Whole(d) /\ Holds(Append(d, x), <<>>, Whole(d))
  <2>1. Holds(Append(d, x), <<>>, Whole(d))
    BY <1>3, AfterFlush
  <2>2. Whole(d) \in Seq(Chunk)
    BY HeardTypes
  <2> HIDE DEF Whole
  <2>3. Whole(d) \o <<>> = Whole(d)
    BY <2>2
  <2>4. Whole(Append(d, x)) = Whole(d) \o <<>>
    BY <2>1 DEF Holds, Whole
  <2> QED BY <2>1, <2>3, <2>4
<1>4. ASSUME NEW k \in 0..(n - 1), k \in Good
      PROVE  k + 1 \in Good
  <2> DEFINE sofar == SubSeq(t, 1, k)
             x == t[k + 1]
  <2>1. /\ k \in Nat /\ 0 + k < Len(t) /\ 0 \in Nat
        /\ 0 + 1 = 1 /\ 0 + (k + 1) = k + 1 /\ 0 + k = k /\ 0 + k + 1 = k + 1
        /\ k + 1 \in 1..n /\ k + 1 \in 0..n /\ k \in 0..Len(t)
    BY <1>1
  <2>2. SubSeq(t, 0 + 1, 0 + (k + 1)) = SubSeq(t, 0 + 1, 0 + k) \o <<t[0 + k + 1]>>
    BY <2>1, OneMore
  <2>3. SubSeq(t, 1, k + 1) = sofar \o <<x>>
    BY ONLY <2>1, <2>2
  <2>4. sofar \in Seq(Event) /\ x \in Event /\ x.ev = "ToolFailed"
    BY <2>1, CutIsPrefix
  <2>5. Whole(e \o sofar) = all
    BY <1>4
  <2> HIDE DEF sofar, x, Whole, all
  <2>6. e \o (sofar \o <<x>>) = Append(e \o sofar, x) /\ e \o sofar \in Seq(Event)
    <3>1. e \in Seq(Event)
      OBVIOUS
    <3> QED BY ONLY <2>4, <3>1, SMTT(30)
  <2>7. Whole(Append(e \o sofar, x)) = all
    BY <1>3, <2>4, <2>5, <2>6
  <2> QED BY <2>1, <2>3, <2>6, <2>7
<1>5. n \in Good
  <2>1. n \in 0..n
    BY <1>1
  <2> HIDE DEF Good, n
  <2>2. 0..n \subseteq Good
    BY <1>1, <1>2, <1>4, BySteps
  <2> QED BY <2>1, <2>2
<1>6. Whole(e \o t) = all
  <2>1. SubSeq(t, 1, n) = t
    OBVIOUS
  <2> HIDE DEF Whole, all
  <2> QED BY <1>5, <2>1
<1>7. e \o t \in Seq(Event) /\ TurnComplete \in Event /\ TurnComplete.ev = "TurnComplete"
  BY EventTypes DEF TurnComplete
<1> HIDE DEF Whole
<1> QED BY <1>3, <1>6, <1>7

(* What is held at each place of a process's only turn: nothing once a     *)
(* round is over, and the text of the round in progress until it is        *)
(* accepted.                                                               *)
HeldInv ==
  /\ turns = 0 => pc = "idle" /\ log = <<>> /\ transcript = <<>>
  /\ pc = "stream" => Streaming
  /\ pc = "chat" => draft.text = <<>>
  /\ pc \in {"round", "chat", "backoff"} => Holds(log, <<>>, StoredText)
  /\ pc = "stream" \/ (pc = "answer" /\ results = <<>>) => Holds(log, draft.text, StoredText)
  /\ pc = "tool" \/ (pc = "answer" /\ results # <<>>) => Holds(log, <<>>, StoredText \o draft.text)
  /\ pc = "idle" => Heard(log).stdout = StoredText

LEMMA StillHeld ==
  ASSUME HeldInv, UNCHANGED <<transcript, pc, turns, results, log>>, draft'.text = draft.text
  PROVE  HeldInv'
<1>1. log' = log /\ transcript' = transcript /\ pc' = pc /\ turns' = turns /\ results' = results
  OBVIOUS
<1>2. StoredText' = StoredText
  BY <1>1 DEF StoredText
<1> QED BY <1>1, <1>2 DEF HeldInv, Holds

LEMMA ReturnHeld ==
  ASSUME HeldInv, NEW how, Return(how), pc # "idle", Heard(log').stdout = TextIn(transcript')
  PROVE  HeldInv'
<1>1. pc' = "idle" /\ turns' = turns /\ turns # 0
  BY DEF Return, HeldInv
<1> QED BY <1>1 DEF HeldInv, StoredText

LEMMA FailHeld ==
  ASSUME HeldInv, pc \in {"round", "chat", "backoff", "stream"}, NEW error, Fail(error)
  PROVE  HeldInv'
<1>1. Return(error) /\ transcript' = transcript /\ log' = log
  BY DEF Fail
<1>2. Heard(log).stdout = TextIn(transcript)
  BY DEF HeldInv, Holds, StoredText
<1> QED BY <1>1, <1>2, ReturnHeld

LEMMA AcceptHeld ==
  ASSUME IInv, HeldInv, NEW m \in C!AssistantMessage, NEW stop, Accept(m, stop),
         (pc = "stream" /\ m = draft) \/ (pc = "chat" /\ ~Streaming)
  PROVE  HeldInv'
<1> DEFINE out == TextIn(transcript)
<1>1. /\ transcript \in Seq(C!Message) /\ log \in Seq(Event) /\ out \in Seq(Chunk)
      /\ m.text \in Seq(Chunk) /\ m.calls \in Seq(Call) /\ Shown(m) \in Seq(Event) /\ m \in C!Message
  BY HeldTypes, MessageTypes, ShownTypes DEF IInv, TypeOK
<1>2. Holds(Shown(m), m.text, out)
  <2>1. CASE pc = "stream" /\ m = draft
    <3>1. Shown(m) = log /\ Holds(log, m.text, out)
      BY <2>1 DEF HeldInv, Shown, StoredText
    <3> QED BY <3>1
  <2>2. CASE pc = "chat" /\ ~Streaming
    <3>1. Shown(m) = log \o TextOf(m) /\ Heard(log).pending = <<>> /\ Heard(log).stdout = out
      BY <2>2 DEF HeldInv, Shown, StoredText, Holds
    <3> HIDE DEF out
    <3>2. Holds(log \o TextOf(m), m.text, Heard(log).stdout)
      BY <1>1, <3>1, AfterTexts
    <3> QED BY <3>1, <3>2
  <2> QED BY <2>1, <2>2
<1>3. pc # "idle" /\ turns # 0
  BY DEF HeldInv
<1>4. CASE AcceptNoCalls(m, stop)
  <2>1. CASE stop = "tool_use"
    <3>1. Return("contract") /\ log' = Shown(m) /\ transcript' = transcript
      BY <1>4, <2>1 DEF AcceptNoCalls
    <3> QED BY <1>2, <1>3, <3>1, ReturnHeld DEF Holds
  <2>2. CASE stop # "tool_use"
    <3>1. /\ Return("completed") /\ log' = Append(Shown(m), TurnComplete)
          /\ transcript' = (IF C!IsEmpty(m) THEN transcript ELSE Append(transcript, m))
      BY <1>4, <2>2 DEF AcceptNoCalls
    <3>2. Heard(log').stdout = out \o m.text
      <4>1. TurnComplete \in Event /\ TurnComplete.ev = "TurnComplete"
        BY EventTypes DEF TurnComplete
      <4> HIDE DEF out
      <4> QED BY <1>1, <1>2, <3>1, <4>1, AfterFlush DEF Holds
    <3>3. TextIn(transcript') = out \o m.text
      <4>1. CASE C!IsEmpty(m)
        <5>1. m.text = <<>> /\ transcript' = transcript
          BY <3>1, <4>1 DEF C!IsEmpty
        <5> QED BY <1>1, <5>1
      <4>2. CASE ~C!IsEmpty(m)
        BY <1>1, <3>1, <4>2, HeldAfterReply
      <4> QED BY <4>1, <4>2
    <3> QED BY <1>3, <3>1, <3>2, <3>3, ReturnHeld
  <2> QED BY <2>1, <2>2
<1>5. CASE AcceptRefusal(m, stop)
  <2> DEFINE failures == [k \in 1..Len(m.calls) |-> ToolFailed(m.calls[k])]
             us == NotRun(m.calls)
  <2>1. failures \in Seq(Event) /\ us \in Seq(C!Result)
    BY <1>1, NotRunAnswers
  <2>2. \A k \in 1..Len(failures) : failures[k].ev = "ToolFailed"
    <3>1. Len(failures) = Len(m.calls)
      BY <1>1
    <3> QED BY <3>1 DEF ToolFailed
  <2>3. /\ log' = (Shown(m) \o failures) \o <<TurnComplete>>
        /\ transcript' =
             transcript \o <<m, [role |-> "user", results |-> us, text |-> <<>>]>>
        /\ Return("completed")
    BY <1>5 DEF AcceptRefusal
  <2> HIDE DEF failures, us, out
  <2>4. TextIn(transcript') = out \o m.text
    BY <1>1, <2>1, <2>3, HeldAfterExchange DEF out
  <2>5. Holds(Append(Shown(m) \o failures, TurnComplete), <<>>, Heard(Shown(m)).stdout \o Heard(Shown(m)).pending)
    BY <1>1, <2>1, <2>2, AfterFailures
  <2>6. log' = Append(Shown(m) \o failures, TurnComplete)
    <3>1. Shown(m) \o failures \in Seq(Event) /\ TurnComplete \in Event
      BY <1>1, <2>1, EventTypes
    <3> QED BY <2>3, <3>1, OneEvent
  <2>7. Heard(log').stdout = out \o m.text
    BY <1>2, <2>5, <2>6 DEF Holds
  <2> QED BY <1>3, <2>3, <2>4, <2>7, ReturnHeld
<1>6. CASE AcceptCalls(m, stop)
  <2>1. /\ pc' = "answer" /\ results' = <<>> /\ transcript' = transcript /\ log' = Shown(m)
        /\ draft' = m /\ turns' = turns
    BY <1>6 DEF AcceptCalls
  <2> QED BY <1>2, <1>3, <2>1 DEF HeldInv, StoredText
<1> QED BY <1>4, <1>5, <1>6 DEF Accept

LEMMA FailedHeld ==
  ASSUME IInv, HeldInv, pc \in {"chat", "stream"}, NEW retryable, Failed(retryable)
  PROVE  HeldInv'
<1>1. CASE retryable /\ attempt < Attempts
  <2>1. /\ pc' = "backoff" /\ log' = Append(log, Retry) /\ transcript' = transcript /\ turns' = turns
        /\ log \in Seq(Event) /\ turns # 0
    BY <1>1 DEF Failed, HeldInv, IInv, TypeOK
  <2>2. Heard(log).stdout = StoredText
    BY DEF HeldInv, Holds
  <2>3. Holds(log', <<>>, StoredText)
    BY <2>1, <2>2, AfterRetry
  <2> QED BY <2>1, <2>3 DEF HeldInv, StoredText
<1>2. CASE ~(retryable /\ attempt < Attempts)
  BY <1>2, FailHeld DEF Failed
<1> QED BY <1>1, <1>2

(* A call or an answer shown while a round is answered: its text is out. *)
LEMMA AnsweringHeld ==
  ASSUME IInv, HeldInv, pc \in {"answer", "tool"}
  PROVE  /\ Heard(log).stdout \o Heard(log).pending = StoredText \o draft.text
         /\ log \in Seq(Event) /\ (StoredText \o draft.text) \o <<>> = StoredText \o draft.text
<1>1. StoredText \in Seq(Chunk) /\ draft.text \in Seq(Chunk) /\ log \in Seq(Event)
  BY HeldTypes, MessageTypes DEF IInv, TypeOK, StoredText
<1>2. (StoredText \o draft.text) \o <<>> = StoredText \o draft.text
  BY <1>1
<1> QED BY <1>1, <1>2 DEF HeldInv, Holds

LEMMA AnswerWithHeld ==
  ASSUME IInv, HeldInv, Len(results) < Len(draft.calls), NEW how, NEW ran,
         \/ pc = "tool" /\ AnswerWith(ToolResult(Asked), how, ran)
         \/ pc \in {"answer", "tool"} /\ AnswerWith(ToolFailed(Asked), how, ran)
  PROVE  HeldInv'
<1>1. Asked \in Call /\ results \in Seq(C!Result) /\ log \in Seq(Event) /\ turns # 0
  BY MessageTypes DEF IInv, TypeOK, Asked, HeldInv
<1>2. /\ pc' = "answer" /\ transcript' = transcript /\ draft' = draft /\ turns' = turns
      /\ \E r : results' = Append(results, r)
  BY DEF AnswerWith
<1>3. results' # <<>>
  BY <1>1, <1>2
<1>4. Holds(log', <<>>, StoredText \o draft.text)
  <2>1. CASE pc = "tool" /\ AnswerWith(ToolResult(Asked), how, ran)
    <3>1. log' = Append(log, ToolResult(Asked)) /\ Holds(log, <<>>, StoredText \o draft.text)
      BY <2>1 DEF AnswerWith, HeldInv
    <3>2. ToolResult(Asked) \in Event /\ ToolResult(Asked).ev = "ToolResult"
      BY <1>1, EventTypes, EventKinds
    <3> QED BY <1>1, <3>1, <3>2, AfterResult DEF Holds
  <2>2. CASE pc \in {"answer", "tool"} /\ AnswerWith(ToolFailed(Asked), how, ran)
    <3>1. log' = Append(log, ToolFailed(Asked))
      BY <2>2 DEF AnswerWith
    <3>2. ToolFailed(Asked) \in Event /\ ToolFailed(Asked).ev = "ToolFailed"
      BY <1>1, EventTypes, EventKinds
    <3> QED BY <1>1, <2>2, <3>1, <3>2, AnsweringHeld, AfterFlush
  <2> QED BY <2>1, <2>2
<1> QED BY <1>1, <1>2, <1>3, <1>4 DEF HeldInv, StoredText

LEMMA StepHeld ==
  ASSUME MaxTurns <= 1, IInv, HeldInv, [Next]_vars
  PROVE  HeldInv'
<1>1. /\ transcript \in Seq(C!Message) /\ log \in Seq(Event) /\ results \in Seq(C!Result)
      /\ draft \in C!AssistantMessage /\ draft.calls \in Seq(Call) /\ draft.text \in Seq(Chunk)
      /\ turns \in 0..MaxTurns /\ MaxTurns \in Nat
  BY MessageTypes, ParametersAssumption DEF IInv, TypeOK
<1>2. CASE StartTurn
  <2>1. turns = 0 /\ turns + 1 \in 1..MaxTurns /\ turns + 1 # 0
    BY <1>1, <1>2 DEF StartTurn
  <2>2. log = <<>> /\ transcript = <<>>
    BY <2>1 DEF HeldInv
  <2>3. /\ pc' = "round" /\ log' = log /\ turns' = turns + 1
        /\ transcript' = C!WithUserText(transcript, turns + 1)
    BY <1>2 DEF StartTurn
  <2>4. TextIn(transcript') = <<>>
    BY <1>1, <2>1, <2>2, <2>3, HeldAfterUser, NothingHeld
  <2>5. Holds(log', <<>>, <<>>)
    BY <2>2, <2>3, HeardNothing DEF Holds, New
  <2> QED BY <2>1, <2>3, <2>4, <2>5 DEF HeldInv, StoredText
<1>3. CASE BeginRound \/ BackoffOver
  <2>1. CASE cancelled
    BY <1>3, <2>1, FailHeld DEF BeginRound, BackoffOver
  <2>2. CASE ~cancelled
    <3>1. /\ pc \in {"round", "backoff"} /\ pc' \in {"chat", "round"} /\ log' = log
          /\ transcript' = transcript /\ turns' = turns /\ (pc' = "chat" => draft' = NoDraft)
      BY <1>3, <2>2 DEF BeginRound, BackoffOver
    <3>2. NoDraft.text = <<>>
      BY DEF NoDraft
    <3>3. Holds(log, <<>>, StoredText) /\ turns # 0
      BY <3>1 DEF HeldInv
    <3> QED BY <3>1, <3>2, <3>3 DEF HeldInv, StoredText
  <2> QED BY <2>1, <2>2
<1>4. CASE SkipCall
  BY <1>4, AnswerWithHeld DEF SkipCall
<1>5. CASE SettleCall
  <2>1. pc = "tool" /\ Len(results) < Len(draft.calls)
    BY <1>5 DEF SettleCall, IInv, LoopInv
  <2> QED BY <1>5, <2>1, AnswerWithHeld DEF SettleCall
<1>6. CASE RejectCall
  <2> DEFINE a == ToolCall(Asked)
             c == ToolFailed(Asked)
             out == StoredText \o draft.text
  <2>1. /\ pc = "answer" /\ Len(results) < Len(draft.calls)
        /\ \E r : results' = Append(results, r)
        /\ log' = log \o <<a, c>> /\ pc' = pc /\ transcript' = transcript
        /\ draft' = draft /\ turns' = turns /\ turns # 0
    BY <1>6 DEF RejectCall, HeldInv
  <2>2. Asked \in Call
    BY <1>1, <2>1 DEF Asked
  <2>3. /\ a \in Event /\ a.ev = "ToolCall" /\ c \in Event /\ c.ev = "ToolFailed"
    BY <2>2, EventTypes, EventKinds
  <2>4. Heard(log).stdout \o Heard(log).pending = out /\ out \o <<>> = out
    BY <2>1, AnsweringHeld
  <2>5. results' # <<>>
    BY <1>1, <2>1
  <2> HIDE DEF a, c, out
  <2>6. log' = Append(Append(log, a), c) /\ Append(log, a) \in Seq(Event)
    BY <1>1, <2>1, <2>3, AddOneOrTwo
  <2>7. Holds(Append(log, a), <<>>, out)
    BY <1>1, <2>3, <2>4, AfterFlush
  <2>8. Holds(log', <<>>, out \o <<>>)
    <3> DEFINE e == Append(log, a)
    <3>1. e \in Seq(Event) /\ log' = Append(e, c) /\ Heard(e).stdout = out /\ Heard(e).pending = <<>>
      BY <2>6, <2>7 DEF Holds
    <3> HIDE DEF e
    <3>2. Holds(Append(e, c), <<>>, Heard(e).stdout \o Heard(e).pending)
      BY <2>3, <3>1, AfterFlush
    <3> QED BY <3>1, <3>2
  <2> QED BY <2>1, <2>4, <2>5, <2>8 DEF HeldInv, StoredText, out
<1>7. CASE DispatchCall
  <2> DEFINE a == ToolCall(Asked)
  <2>1. /\ pc = "answer" /\ Len(results) < Len(draft.calls) /\ log' = Append(log, a) /\ pc' = "tool"
        /\ transcript' = transcript /\ draft' = draft /\ turns' = turns /\ turns # 0
    BY <1>7 DEF DispatchCall, HeldInv
  <2>2. Asked \in Call
    BY <1>1, <2>1 DEF Asked
  <2>3. a \in Event /\ a.ev = "ToolCall"
    BY <2>2, EventTypes, EventKinds
  <2>4. Heard(log).stdout \o Heard(log).pending = StoredText \o draft.text
    BY <2>1, AnsweringHeld
  <2> HIDE DEF a
  <2>5. Holds(log', <<>>, StoredText \o draft.text)
    BY <1>1, <2>1, <2>3, <2>4, AfterFlush
  <2> QED BY <2>1, <2>5 DEF HeldInv, StoredText
<1>8. CASE StoreRound
  <2>1. /\ pc = "answer" /\ log' = log /\ turns # 0 /\ turns' = turns /\ AnsweredSoFar
        /\ Len(results) = Len(draft.calls)
        /\ transcript' =
             transcript \o <<draft, [role |-> "user", results |-> results, text |-> <<>>]>>
    BY <1>8 DEF StoreRound, Return, HeldInv, IInv, LoopInv
  <2>2. TextIn(transcript') = StoredText \o draft.text
    BY <1>1, <2>1, HeldAfterExchange DEF StoredText
  <2>3. results # <<>>
    <3>1. Len(draft.calls) # 0
      BY <1>1, <2>1 DEF AnsweredSoFar
    <3> QED BY <2>1, <3>1
  <2>4. Holds(log', <<>>, TextIn(transcript'))
    BY <2>1, <2>2, <2>3 DEF HeldInv
  <2>5. CASE \E how : Return(how)
    BY <2>1, <2>4, <2>5, ReturnHeld DEF Holds
  <2>6. CASE pc' = "round"
    BY <2>1, <2>4, <2>6 DEF HeldInv, StoredText
  <2> QED BY <1>8, <2>5, <2>6 DEF StoreRound
<1>9. CASE ChatMessage \/ StreamEnd
  BY <1>1, <1>9, AcceptHeld, DraftTypes DEF ChatMessage, StreamEnd
<1>10. CASE ChatFailed \/ StreamError
  BY <1>10, FailedHeld DEF ChatFailed, StreamError
<1>11. CASE ChatStepError \/ ChatContract \/ StreamContract \/ StreamOver
  BY <1>11, FailHeld DEF ChatStepError, ChatContract, StreamContract, StreamOver
<1>12. CASE ChatStreamHandle
  <2>1. /\ pc = "chat" /\ Streaming /\ pc' = "stream" /\ log' = log /\ transcript' = transcript
        /\ draft' = draft /\ turns' = turns /\ turns # 0
    BY <1>12 DEF ChatStreamHandle, HeldInv
  <2>2. Holds(log, draft.text, StoredText)
    BY <2>1 DEF HeldInv
  <2> QED BY <2>1, <2>2 DEF HeldInv, StoredText
<1>13. CASE StreamText
  <2>1. PICK c \in Chunk : draft' = [draft EXCEPT !.text = Append(@, c)] /\ log' = Append(log, Text(c))
    BY <1>13 DEF StreamText
  <2>2. /\ pc = "stream" /\ pc' = pc /\ Streaming /\ transcript' = transcript /\ turns' = turns /\ turns # 0
    BY <1>13 DEF StreamText, HeldInv
  <2>3. Holds(log, draft.text, StoredText)
    BY <2>2 DEF HeldInv
  <2>4. draft'.text = Append(draft.text, c)
    <3> DEFINE longer == Append(draft.text, c)
    <3>1. draft' = [draft EXCEPT !.text = longer]
      BY <2>1
    <3> HIDE DEF longer
    <3>2. draft'.text = longer
      BY <1>1, <3>1 DEF C!AssistantMessage
    <3> QED BY <3>2 DEF longer
  <2>5. Holds(log', draft'.text, StoredText)
    BY <1>1, <2>1, <2>3, <2>4, AfterText DEF Holds
  <2> QED BY <2>2, <2>5 DEF HeldInv, StoredText
<1>14. CASE StreamBlock
  <2>1. draft'.text = draft.text
    <3>1. CASE \E c \in Call : draft' = [draft EXCEPT !.calls = Append(@, c)]
      <4> PICK c \in Call : draft' = [draft EXCEPT !.calls = Append(@, c)]
        BY <3>1
      <4> DEFINE longer == Append(draft.calls, c)
      <4>1. draft' = [draft EXCEPT !.calls = longer]
        OBVIOUS
      <4> HIDE DEF longer
      <4> QED BY <1>1, <4>1 DEF C!AssistantMessage
    <3>2. CASE draft' = [draft EXCEPT !.opaque = TRUE]
      BY <1>1, <3>2 DEF C!AssistantMessage
    <3> QED BY <1>14, <3>1, <3>2 DEF StreamBlock
  <2> QED BY <1>14, <2>1, StillHeld DEF StreamBlock
<1>15. CASE ToolRun
  BY <1>15, StillHeld DEF ToolRun, KernelStops, StepAsks, ToolReturns, Allow, Deny, Withdraw, Ceiling,
       WorkDone, WorkCut, EndTool, ToolStep
<1>16. CASE Cancel \/ UNCHANGED vars
  BY <1>16, StillHeld DEF Cancel, vars
<1> QED
  BY <1>2, <1>3, <1>4, <1>5, <1>6, <1>7, <1>8, <1>9, <1>10, <1>11, <1>12, <1>13, <1>14, <1>15, <1>16
  DEF Next, Loop, Provider

(* What a printing process, which runs one turn, has written to stdout is  *)
(* exactly the model text in the transcript, and while a round is answered *)
(* at most that round's text besides (operator.rs, Headless).              *)
THEOREM StdoutAlwaysTranscript ==
  ASSUME MaxTurns <= 1
  PROVE  Spec => []StdoutIsTranscript
<1>1. Init => HeldInv
  <2> SUFFICES ASSUME Init PROVE HeldInv
    OBVIOUS
  <2>1. transcript = <<>> /\ log = <<>> /\ pc = "idle"
    BY DEF Init
  <2>2. StoredText = <<>> /\ Heard(log).stdout = <<>>
    BY <2>1, NothingHeld, HeardNothing DEF StoredText, New
  <2> QED BY <2>1, <2>2 DEF HeldInv
<1>2. IInv /\ HeldInv /\ [Next]_vars => HeldInv'
  BY StepHeld
<1>3. IInv /\ HeldInv => StdoutIsTranscript
  <2> SUFFICES ASSUME IInv, HeldInv PROVE StdoutIsTranscript
    OBVIOUS
  <2>1. pc \in {"idle", "round", "chat", "stream", "backoff", "answer", "tool"}
    BY DEF IInv, TypeOK
  <2> QED BY <2>1 DEF HeldInv, Holds, StdoutIsTranscript, stdout
<1> QED
  BY <1>1, <1>2, <1>3, InductiveInvariant, PTL DEF Spec

-----------------------------------------------------------------------------
(* Leaving out. *)

LEMMA NothingWithin ==
  ASSUME NEW T, NEW ys \in Seq(T)
  PROVE  IsWithin(<<>>, ys)
<1> DEFINE at == [i \in 1..0 |-> i]
<1>1. at \in [1..Len(<<>>) -> 1..Len(ys)] /\ 1..Len(<<>>) = {}
  OBVIOUS
<1> HIDE DEF at
<1> QED
  BY <1>1 DEF IsWithin

LEMMA WithinMore ==
  ASSUME NEW T, NEW xs \in Seq(T), NEW ys \in Seq(T), NEW zs \in Seq(T), IsWithin(xs, ys)
  PROVE  IsWithin(xs, ys \o zs)
<1>1. PICK at \in [1..Len(xs) -> 1..Len(ys)] :
        /\ \A i, j \in 1..Len(xs) : i < j => at[i] < at[j]
        /\ \A i \in 1..Len(xs) : xs[i] = ys[at[i]]
  BY DEF IsWithin
<1>2. /\ Len(ys \o zs) = Len(ys) + Len(zs) /\ Len(ys) \in Nat /\ Len(zs) \in Nat
      /\ \A i \in 1..Len(ys) : (ys \o zs)[i] = ys[i]
  OBVIOUS
<1>3. at \in [1..Len(xs) -> 1..Len(ys \o zs)]
  <2>1. 1..Len(ys) \subseteq 1..Len(ys \o zs)
    BY <1>2
  <2> QED
    BY <1>1, <2>1
<1>4. \A i \in 1..Len(xs) : xs[i] = (ys \o zs)[at[i]]
  BY <1>1, <1>2
<1> QED
  BY <1>1, <1>3, <1>4 DEF IsWithin

LEMMA WithinBoth ==
  ASSUME NEW T, NEW xs \in Seq(T), NEW ys \in Seq(T), NEW zs \in Seq(T), IsWithin(xs, ys)
  PROVE  IsWithin(xs \o zs, ys \o zs)
<1>1. PICK at \in [1..Len(xs) -> 1..Len(ys)] :
        /\ \A i, j \in 1..Len(xs) : i < j => at[i] < at[j]
        /\ \A i \in 1..Len(xs) : xs[i] = ys[at[i]]
  BY DEF IsWithin
<1> DEFINE l == Len(xs)
           m == Len(ys)
           n == Len(zs)
           x == xs \o zs
           y == ys \o zs
           to == [i \in 1..(l + n) |-> IF i <= l THEN at[i] ELSE i - l + m]
<1>2. l \in Nat /\ m \in Nat /\ n \in Nat
  OBVIOUS
<1>3. /\ Len(x) = l + n /\ Len(y) = m + n
      /\ \A i \in 1..l : x[i] = xs[i]
      /\ \A i \in 1..m : y[i] = ys[i]
      /\ \A i \in 1..n : x[l + i] = zs[i] /\ y[m + i] = zs[i]
  OBVIOUS
<1>4. at \in [1..l -> 1..m]
  OBVIOUS
<1> HIDE DEF l, m, n, x, y
<1>5. to \in [1..(l + n) -> 1..(m + n)]
  <2> SUFFICES ASSUME NEW i \in 1..(l + n)
               PROVE  (IF i <= l THEN at[i] ELSE i - l + m) \in 1..(m + n)
    OBVIOUS
  <2>1. CASE i <= l
    <3>1. at[i] \in 1..m
      BY <1>2, <1>4, <2>1
    <3> QED
      BY <1>2, <2>1, <3>1
  <2>2. CASE ~(i <= l)
    BY <1>2, <2>2
  <2> QED
    BY <2>1, <2>2
<1>6. ASSUME NEW i \in 1..(l + n), NEW j \in 1..(l + n), i < j
      PROVE  to[i] < to[j]
  <2>1. i \in Nat /\ j \in Nat
    BY <1>2
  <2>2. CASE j <= l
    <3>1. i \in 1..l /\ j \in 1..l /\ to[i] = at[i] /\ to[j] = at[j]
      BY <1>2, <1>6, <2>1, <2>2
    <3> QED
      BY <1>1, <1>6, <3>1 DEF l
  <2>3. CASE i <= l /\ ~(j <= l)
    <3>1. i \in 1..l /\ to[i] = at[i] /\ to[j] = j - l + m
      BY <1>2, <2>1, <2>3
    <3>2. at[i] \in 1..m
      BY <1>4, <3>1
    <3> HIDE DEF to
    <3> QED
      BY <1>2, <2>1, <2>3, <3>1, <3>2
  <2>4. CASE ~(i <= l) /\ ~(j <= l)
    <3>1. to[i] = i - l + m /\ to[j] = j - l + m
      BY <2>4
    <3> HIDE DEF to
    <3> QED
      BY <1>2, <1>6, <2>1, <3>1
  <2> QED
    BY <1>6, <2>1, <2>2, <2>3, <2>4, <1>2
<1>7. ASSUME NEW i \in 1..(l + n)
      PROVE  x[i] = y[to[i]]
  <2>1. CASE i <= l
    <3>1. i \in 1..l /\ to[i] = at[i] /\ at[i] \in 1..m
      BY <1>2, <1>4, <2>1
    <3>2. xs[i] = ys[at[i]]
      BY <1>1, <3>1 DEF l
    <3> QED
      BY <1>3, <3>1, <3>2
  <2>2. CASE ~(i <= l)
    <3>1. to[i] = i - l + m /\ i - l \in 1..n /\ l + (i - l) = i /\ m + (i - l) = i - l + m
      BY <1>2, <2>2
    <3>2. x[l + (i - l)] = zs[i - l] /\ y[m + (i - l)] = zs[i - l]
      BY <1>3, <3>1
    <3> QED
      BY <3>1, <3>2
  <2> QED
    BY <2>1, <2>2
<1> HIDE DEF to
<1>8. IsWithin(x, y)
  BY <1>3, <1>5, <1>6, <1>7 DEF IsWithin
<1> QED
  BY <1>8 DEF x, y

LEMMA WithinLess ==
  ASSUME NEW T, NEW xs \in Seq(T), NEW ys \in Seq(T), NEW zs \in Seq(T), IsWithin(xs \o zs, ys)
  PROVE  IsWithin(xs, ys)
<1>1. PICK at \in [1..Len(xs \o zs) -> 1..Len(ys)] :
        /\ \A i, j \in 1..Len(xs \o zs) : i < j => at[i] < at[j]
        /\ \A i \in 1..Len(xs \o zs) : (xs \o zs)[i] = ys[at[i]]
  BY DEF IsWithin
<1>2. /\ Len(xs \o zs) = Len(xs) + Len(zs) /\ Len(xs) \in Nat /\ Len(zs) \in Nat
      /\ \A i \in 1..Len(xs) : (xs \o zs)[i] = xs[i]
  OBVIOUS
<1> DEFINE to == [i \in 1..Len(xs) |-> at[i]]
<1>3. 1..Len(xs) \subseteq 1..Len(xs \o zs)
  BY <1>2
<1>4. to \in [1..Len(xs) -> 1..Len(ys)] /\ \A i \in 1..Len(xs) : to[i] = at[i]
  BY <1>3
<1> HIDE DEF to
<1>5. \A i, j \in 1..Len(xs) : i < j => to[i] < to[j]
  BY ONLY <1>1, <1>3, <1>4
<1>6. \A i \in 1..Len(xs) : xs[i] = ys[to[i]]
  <2> TAKE i \in 1..Len(xs)
  <2>1. i \in 1..Len(xs \o zs) /\ xs[i] = (xs \o zs)[i]
    BY <1>2, <1>3
  <2>2. (xs \o zs)[i] = ys[at[i]]
    BY <1>1, <2>1
  <2> QED
    BY <1>4, <2>1, <2>2
<1> QED
  BY <1>4, <1>5, <1>6 DEF IsWithin

-----------------------------------------------------------------------------
(* What the terminal's pane shows: the text of its entries from the k-th on. *)

Kinds == EntryKind \cup {"Assistant"}
Entry == [kind: Kinds, text: Seq(Chunk)]

(* Only the last entry may be open, and it is the model's. *)
Panes ==
  {u \in [entries: Seq(Entry), open: Nat] :
     u.open # 0 => u.open = Len(u.entries) /\ u.entries[u.open].kind = "Assistant"}

Joined(es, k, n) == FlattenSeq([j \in 1..(n - k + 1) |-> es[k + j - 1].text])

AllText(u, k) == Joined(u.entries, k, Len(u.entries))
ClosedText(u, k) ==
  Joined(u.entries, k, IF u.open = 0 THEN Len(u.entries) ELSE Len(u.entries) - 1)

Covers(u, k) == k \in 1..(Len(u.entries) + 1) /\ (u.open # 0 => k <= u.open)

(* The entry, and the message, that a turn began with. *)
UserAt(es, k) ==
  /\ k \in 1..Len(es) /\ es[k].kind = "User"
  /\ \A j \in (k + 1)..Len(es) : es[j].kind # "User"

Says(m, n) == m.role = "user" /\ \E j \in 1..Len(m.text) : m.text[j] = n

TurnAt(msgs, s, n) ==
  /\ s \in 1..Len(msgs) /\ Says(msgs[s], n)
  /\ \A i \in 1..Len(msgs) : Says(msgs[i], n) => i = s

TextSince(msgs, s) == FlattenSeq([k \in 1..(Len(msgs) - s) |-> OwnText(msgs[s + k])])

(* All of the messages' text, and t after it, is on the pane in order; and *)
(* since the last turn began there is nothing else.  The same of the pane  *)
(* without its open entry.                                                 *)
InOrder(u, msgs, t) == IsWithin(TextIn(msgs) \o t, AllText(u, 1))
InOrderClosed(u, msgs) == IsWithin(TextIn(msgs), ClosedText(u, 1))

Exactly(u, msgs, n, t) ==
  \E k \in 1..Len(u.entries), s \in 1..Len(msgs) :
    UserAt(u.entries, k) /\ TurnAt(msgs, s, n) /\ AllText(u, k) = TextSince(msgs, s) \o t

ExactlyClosed(u, msgs, n) ==
  \E k \in 1..Len(u.entries), s \in 1..Len(msgs) :
    UserAt(u.entries, k) /\ TurnAt(msgs, s, n) /\ ClosedText(u, k) = TextSince(msgs, s)

SaysUpTo(msgs, n) == \A i \in 1..Len(msgs), j \in Nat : Says(msgs[i], j) => j <= n

PaneInv ==
  /\ ui \in Panes /\ traces \in Nat
  /\ open # 0 => pc = "stream" \/ (pc = "answer" /\ results = <<>>)
  /\ pc \in {"idle", "round", "chat", "backoff"} => draft.text = <<>>
  /\ SaysUpTo(transcript, turns)
  /\ InOrder(ui, transcript, draft.text)
  /\ pc = "stream" => Streaming /\ InOrderClosed(ui, transcript)
  /\ traces = 0 /\ (pc # "idle" \/ outcome = "completed") =>
       /\ Exactly(ui, transcript, turns, draft.text)
       /\ pc = "stream" => ExactlyClosed(ui, transcript, turns)

-----------------------------------------------------------------------------
(* Text of entries, one entry more or another at the end. *)

(* Entries k to n + 1 are the entries k to n and one more. *)
LEMMA JoinedOneMore ==
  ASSUME NEW es \in Seq(Entry), NEW fs \in Seq(Entry), NEW n \in Nat, NEW k \in 1..(n + 1),
         n <= Len(es), n + 1 <= Len(fs), \A i \in 1..n : es[i] = fs[i]
  PROVE  /\ Joined(es, k, n) \in Seq(Chunk)
         /\ Joined(fs, k, n) = Joined(es, k, n)
         /\ Joined(fs, k, n + 1) = Joined(es, k, n) \o fs[n + 1].text
<1> DEFINE d == n - k + 1
           a == [j \in 1..d |-> es[k + j - 1].text]
           b == [j \in 1..d |-> fs[k + j - 1].text]
           c == [j \in 1..(d + 1) |-> fs[k + j - 1].text]
<1>1. /\ d \in Nat /\ k + (d + 1) - 1 = n + 1
      /\ \A j \in 1..d : k + j - 1 \in 1..n /\ k + j - 1 \in 1..Len(es) /\ k + j - 1 \in 1..Len(fs)
      /\ \A j \in 1..(d + 1) : k + j - 1 \in 1..Len(fs)
  OBVIOUS
<1>2. \A e \in Entry : e.text \in Seq(Chunk)
  BY DEF Entry
<1>3. (\A i \in 1..Len(es) : es[i] \in Entry) /\ (\A i \in 1..Len(fs) : fs[i] \in Entry)
  OBVIOUS
<1>4. n + 1 - k + 1 = d + 1
  OBVIOUS
<1>5. /\ Joined(es, k, n) = FlattenSeq(a) /\ Joined(fs, k, n) = FlattenSeq(b)
      /\ Joined(fs, k, n + 1) = FlattenSeq(c)
  <2>1. Joined(es, k, n) = FlattenSeq(a)
    BY ONLY DEF Joined
  <2>2. Joined(fs, k, n) = FlattenSeq(b)
    BY ONLY DEF Joined
  <2>3. [j \in 1..(n + 1 - k + 1) |-> fs[k + j - 1].text] = c
    BY ONLY <1>4
  <2>4. Joined(fs, k, n + 1) = FlattenSeq([j \in 1..(n + 1 - k + 1) |-> fs[k + j - 1].text])
    BY ONLY DEF Joined
  <2> QED
    BY ONLY <2>1, <2>2, <2>3, <2>4
<1> HIDE DEF d
<1>6. a \in [1..d -> Seq(Chunk)] /\ c \in [1..(d + 1) -> Seq(Chunk)]
  BY <1>1, <1>2, <1>3
<1>7. a = b /\ \A j \in 1..d : a[j] = c[j]
  <2>1. \A j \in 1..d : es[k + j - 1] = fs[k + j - 1]
    BY <1>1
  <2>2. a = b
    BY <2>1
  <2>3. \A j \in 1..d : j \in 1..(d + 1)
    BY <1>1
  <2>4. \A j \in 1..d : b[j] = c[j]
    BY <2>3
  <2> QED
    BY <2>2, <2>4
<1>8. c[d + 1] = fs[n + 1].text
  BY <1>1
<1> HIDE DEF a, b, c
<1>9. /\ a \in Seq(Seq(Chunk)) /\ c \in Seq(Seq(Chunk)) /\ Len(a) = d /\ Len(c) = d + 1
  BY <1>1, <1>6, SeqDef
<1>10. FlattenSeq(c) = FlattenSeq(a) \o c[d + 1]
  BY <1>1, <1>7, <1>9, FlattenExtended
<1>11. FlattenSeq(a) \in Seq(Chunk)
  BY <1>9, FlattenType
<1> QED
  BY <1>5, <1>7, <1>8, <1>10, <1>11

LEMMA PaneShape ==
  ASSUME NEW u \in Panes
  PROVE  /\ u.entries \in Seq(Entry) /\ Len(u.entries) \in Nat /\ u.open \in Nat
         /\ u = [entries |-> u.entries, open |-> u.open]
         /\ u.open # 0 => /\ u.open = Len(u.entries) /\ Len(u.entries) > 0
                          /\ u.entries[u.open].kind = "Assistant" /\ u.entries[u.open] \in Entry
                          /\ u.entries[u.open].text \in Seq(Chunk)
<1>1. /\ u \in [entries: Seq(Entry), open: Nat]
      /\ u.open # 0 => u.open = Len(u.entries) /\ u.entries[u.open].kind = "Assistant"
  BY DEF Panes
<1>2. u.entries \in Seq(Entry) /\ u.open \in Nat /\ u = [entries |-> u.entries, open |-> u.open]
  BY <1>1
<1>3. Len(u.entries) \in Nat
  BY <1>2
<1>4. u.open # 0 => u.entries[u.open] \in Entry /\ Len(u.entries) > 0
  BY <1>1, <1>2, <1>3
<1>5. \A e \in Entry : e.text \in Seq(Chunk)
  BY DEF Entry
<1> QED
  BY <1>1, <1>2, <1>3, <1>4, <1>5

LEMMA JoinedLast ==
  ASSUME NEW es \in Seq(Entry), NEW n \in Nat, n # 0, n <= Len(es), NEW k \in 1..n
  PROVE  /\ Joined(es, k, n - 1) \in Seq(Chunk) /\ es[n].text \in Seq(Chunk)
         /\ Joined(es, k, n) = Joined(es, k, n - 1) \o es[n].text
<1> DEFINE m == n - 1
<1>1. m \in Nat /\ k \in 1..(m + 1) /\ n = m + 1 /\ m <= Len(es) /\ n \in 1..Len(es)
  OBVIOUS
<1>2. es[n] \in Entry
  BY <1>1
<1> HIDE DEF m
<1>3. /\ Joined(es, k, m) \in Seq(Chunk)
      /\ Joined(es, k, m + 1) = Joined(es, k, m) \o es[m + 1].text
  BY <1>1, JoinedOneMore
<1> QED
  BY <1>1, <1>2, <1>3 DEF Entry, m

(* The text is the closed entries' and the open one's. *)
LEMMA TextOfPane ==
  ASSUME NEW u \in Panes, NEW k, Covers(u, k)
  PROVE  /\ AllText(u, k) \in Seq(Chunk) /\ ClosedText(u, k) \in Seq(Chunk)
         /\ u.open = 0 => AllText(u, k) = ClosedText(u, k)
         /\ u.open # 0 => AllText(u, k) = ClosedText(u, k) \o u.entries[u.open].text
<1> DEFINE es == u.entries
           n == Len(es)
<1>1. /\ es \in Seq(Entry) /\ n \in Nat
      /\ u.open # 0 => u.open = n /\ n > 0 /\ es[u.open].text \in Seq(Chunk)
  BY PaneShape
<1>2. k \in 1..(n + 1) /\ (u.open # 0 => k <= u.open)
  BY DEF Covers
<1>3. CASE u.open = 0
  <2>1. AllText(u, k) = Joined(es, k, n) /\ ClosedText(u, k) = Joined(es, k, n)
    BY <1>3 DEF AllText, ClosedText
  <2>2. Joined(es, k, n) \in Seq(Chunk)
    <3>1. CASE n = 0
      <4>1. k = 1
        BY <1>1, <1>2, <3>1
      <4>2. [j \in 1..(n - k + 1) |-> es[k + j - 1].text] = <<>>
        BY <3>1, <4>1
      <4>3. <<>> \in Seq(Chunk)
        OBVIOUS
      <4> QED
        BY <4>2, <4>3, FlattenEmpty DEF Joined
    <3>2. CASE n # 0 /\ k <= n
      <4>1. k \in 1..n /\ n <= Len(es)
        BY <1>1, <1>2, <3>2
      <4> HIDE DEF es, n
      <4>2. /\ Joined(es, k, n - 1) \in Seq(Chunk) /\ es[n].text \in Seq(Chunk)
            /\ Joined(es, k, n) = Joined(es, k, n - 1) \o es[n].text
        BY <1>1, <3>2, <4>1, JoinedLast
      <4> QED
        BY <4>2
    <3>3. CASE k = n + 1
      <4>1. n - k + 1 = 0
        BY <1>1, <3>3
      <4>2. [j \in 1..(n - k + 1) |-> es[k + j - 1].text] = <<>>
        BY <4>1
      <4>3. <<>> \in Seq(Chunk)
        OBVIOUS
      <4> QED
        BY <4>2, <4>3, FlattenEmpty DEF Joined
    <3> QED
      BY <1>1, <1>2, <3>1, <3>2, <3>3
  <2> QED
    BY <1>3, <2>1, <2>2
<1>4. CASE u.open # 0
  <2>1. AllText(u, k) = Joined(es, k, n) /\ ClosedText(u, k) = Joined(es, k, n - 1)
    BY <1>4 DEF AllText, ClosedText
  <2>2. /\ Joined(es, k, n - 1) \in Seq(Chunk) /\ es[n].text \in Seq(Chunk)
        /\ Joined(es, k, n) = Joined(es, k, n - 1) \o es[n].text
    <3>1. k \in 1..n /\ n # 0 /\ n <= Len(es)
      BY <1>1, <1>2, <1>4
    <3> HIDE DEF es, n
    <3> QED
      BY <1>1, <3>1, JoinedLast
  <2>3. u.open = n
    BY <1>1, <1>4
  <2> HIDE DEF es, n
  <2>4. AllText(u, k) \in Seq(Chunk)
    BY <2>1, <2>2
  <2> QED
    BY <1>4, <2>1, <2>2, <2>3, <2>4 DEF es
<1> QED
  BY <1>3, <1>4

-----------------------------------------------------------------------------
(* What one event does to the pane. *)

(* The turn's own entry stays where it is. *)
Keeps(u, v, k) == Covers(v, k) /\ (UserAt(u.entries, k) => UserAt(v.entries, k))

LEMMA PushShows ==
  ASSUME NEW u \in Panes, NEW k, Covers(u, k), NEW e \in Entry
  PROVE  LET v == Push(u, e)
         IN  /\ v \in Panes /\ Covers(v, k)
             /\ Len(v.entries) = Len(u.entries) + 1 /\ v.entries[Len(u.entries) + 1] = e
             /\ e.kind # "User" => Keeps(u, v, k)
             /\ AllText(v, k) = AllText(u, k) \o e.text
             /\ v.open = IF e.kind = "Assistant" THEN Len(u.entries) + 1 ELSE 0
             /\ e.kind = "Assistant" => ClosedText(v, k) = AllText(u, k)
<1> DEFINE es == u.entries
           n == Len(es)
           fs == Append(es, e)
           o == IF e.kind = "Assistant" THEN n + 1 ELSE 0
           v == [entries |-> fs, open |-> o]
<1>1. es \in Seq(Entry) /\ n \in Nat
  BY PaneShape
<1>2. k \in 1..(n + 1)
  BY DEF Covers
<1>3. /\ fs \in Seq(Entry) /\ Len(fs) = n + 1 /\ fs[n + 1] = e
      /\ \A i \in 1..n : es[i] = fs[i]
  BY <1>1
<1>4. o \in Nat /\ (o # 0 => o = n + 1 /\ e.kind = "Assistant") /\ (e.kind = "Assistant" => o # 0)
  BY <1>1
<1>5. Push(u, e) = v /\ v.entries = fs /\ v.open = o
  BY DEF Push
<1>6. AllText(u, k) = Joined(es, k, n)
  BY DEF AllText
<1> HIDE DEF es, fs, n, v
<1>7. /\ Joined(es, k, n) \in Seq(Chunk) /\ Joined(fs, k, n) = Joined(es, k, n)
      /\ Joined(fs, k, n + 1) = Joined(es, k, n) \o fs[n + 1].text
  <2>1. n <= Len(es) /\ n + 1 <= Len(fs)
    BY <1>1, <1>3 DEF n
  <2> QED
    BY <1>1, <1>2, <1>3, <2>1, JoinedOneMore
<1> HIDE DEF o
<1>8. v \in Panes
  BY <1>3, <1>4, <1>5 DEF Panes, v
<1>9. Covers(v, k)
  BY <1>1, <1>2, <1>3, <1>4, <1>5 DEF Covers
<1>10. AllText(v, k) = AllText(u, k) \o e.text
  BY <1>3, <1>5, <1>6, <1>7 DEF AllText
<1>11. e.kind = "Assistant" => ClosedText(v, k) = AllText(u, k)
  <2> SUFFICES ASSUME e.kind = "Assistant" PROVE ClosedText(v, k) = AllText(u, k)
    OBVIOUS
  <2>1. v.open # 0 /\ v.entries = fs /\ Len(fs) - 1 = n
    BY <1>1, <1>3, <1>4, <1>5
  <2>2. ClosedText(v, k) = Joined(fs, k, n)
    BY ONLY <2>1 DEF ClosedText
  <2> QED
    BY ONLY <1>6, <1>7, <2>2
<1>12. ASSUME e.kind # "User", UserAt(es, k)
       PROVE  UserAt(fs, k)
  <2>1. /\ k \in 1..n /\ es[k].kind = "User"
        /\ \A j \in (k + 1)..n : es[j].kind # "User"
    BY <1>12 DEF UserAt, n
  <2>2. k \in 1..(n + 1) /\ fs[k] = es[k]
    BY <1>1, <1>3, <2>1
  <2>3. ASSUME NEW j \in (k + 1)..(n + 1)
        PROVE  fs[j].kind # "User"
    <3>1. CASE j = n + 1
      BY <1>3, <1>12, <3>1
    <3>2. CASE j # n + 1
      <4>1. j \in (k + 1)..n /\ j \in 1..n
        BY <1>1, <2>1, <3>2
      <4> QED
        BY <1>3, <2>1, <4>1
    <3> QED
      BY <3>1, <3>2
  <2> QED
    BY <1>3, <2>1, <2>2, <2>3 DEF UserAt
<1>13. e.kind # "User" => Keeps(u, v, k)
  BY <1>5, <1>9, <1>12 DEF Keeps, es
<1> QED
  BY <1>3, <1>5, <1>8, <1>9, <1>10, <1>11, <1>13 DEF es, n, o

(* The last entry, when it is open, is another. *)
LEMMA ReplaceShows ==
  ASSUME NEW u \in Panes, NEW k, Covers(u, k), u.open # 0, NEW e \in Entry, e.kind # "User",
         NEW o \in {0, u.open}, o # 0 => e.kind = "Assistant"
  PROVE  LET v == [entries |-> [u.entries EXCEPT ![u.open] = e], open |-> o]
         IN  /\ v \in Panes /\ Keeps(u, v, k)
             /\ AllText(v, k) = ClosedText(u, k) \o e.text
             /\ o # 0 => ClosedText(v, k) = ClosedText(u, k)
<1> DEFINE es == u.entries
           n == Len(es)
           fs == [es EXCEPT ![u.open] = e]
           v == [entries |-> fs, open |-> o]
<1>1. /\ es \in Seq(Entry) /\ n \in Nat /\ n > 0 /\ u.open = n /\ es[n].kind = "Assistant"
  BY PaneShape
<1>2. k \in 1..n
  BY <1>1 DEF Covers
<1>3. /\ fs \in Seq(Entry) /\ Len(fs) = n /\ fs[n] = e
      /\ \A i \in 1..(n - 1) : es[i] = fs[i]
  BY <1>1
<1>4. v.entries = fs /\ v.open = o
  OBVIOUS
<1>5. ClosedText(u, k) = Joined(es, k, n - 1)
  BY <1>1 DEF ClosedText
<1> DEFINE m == n - 1
<1>6. m \in Nat /\ n = m + 1 /\ m <= n /\ k \in 1..(m + 1)
  BY <1>1, <1>2
<1>7. Len(es) = n
  OBVIOUS
<1> HIDE DEF es, n, m, fs, v
<1>8. /\ Joined(es, k, m) \in Seq(Chunk) /\ Joined(fs, k, m) = Joined(es, k, m)
      /\ Joined(fs, k, m + 1) = Joined(es, k, m) \o fs[m + 1].text
  <2>1. m <= Len(es) /\ m + 1 <= Len(fs) /\ (\A i \in 1..m : es[i] = fs[i])
    BY ONLY <1>1, <1>3, <1>6, <1>7 DEF m
  <2> QED
    BY ONLY <1>1, <1>3, <1>6, <2>1, JoinedOneMore
<1>9. v \in Panes
  BY <1>1, <1>3, <1>4 DEF Panes, v
<1>10. Covers(v, k)
  BY <1>1, <1>2, <1>3, <1>4 DEF Covers
<1>11. AllText(v, k) = ClosedText(u, k) \o e.text
  BY <1>3, <1>4, <1>5, <1>6, <1>8 DEF AllText, m
<1>12. o # 0 => ClosedText(v, k) = ClosedText(u, k)
  BY <1>3, <1>4, <1>5, <1>6, <1>8 DEF ClosedText, m
<1>13. ASSUME UserAt(es, k)
       PROVE  UserAt(fs, k)
  <2>1. /\ k \in 1..n /\ es[k].kind = "User"
        /\ \A j \in (k + 1)..n : es[j].kind # "User"
    BY <1>13 DEF UserAt, n
  <2>2. k # n
    BY <1>1, <2>1
  <2>3. k \in 1..(n - 1) /\ fs[k] = es[k]
    BY <1>1, <1>3, <2>1, <2>2
  <2>4. ASSUME NEW j \in (k + 1)..n
        PROVE  fs[j].kind # "User"
    <3>1. CASE j = n
      BY <1>3, <3>1
    <3>2. CASE j # n
      <4>1. j \in 1..(n - 1)
        BY <1>1, <2>1, <3>2
      <4> QED
        BY <1>3, <2>1, <4>1
    <3> QED
      BY <3>1, <3>2
  <2> QED
    BY <1>3, <2>1, <2>3, <2>4 DEF UserAt
<1>14. Keeps(u, v, k)
  BY <1>4, <1>10, <1>13 DEF Keeps, es
<1> QED
  BY <1>9, <1>11, <1>12, <1>14 DEF v, fs, es

(* Ui::apply, event by event. *)
Quiet == {"ToolCall", "ToolResult", "ToolFailed", "TurnComplete"}

LEMMA OtherIsEntry ==
  ASSUME NEW kind \in EntryKind
  PROVE  Other(kind) \in Entry /\ Other(kind).kind = kind /\ Other(kind).kind # "Assistant"
         /\ Other(kind).text = <<>>
BY DEF Other, Entry, Kinds, EntryKind

LEMMA OtherShows ==
  ASSUME NEW u \in Panes, NEW k, Covers(u, k), NEW kind \in EntryKind
  PROVE  LET v == Push(u, Other(kind))
         IN  /\ v \in Panes /\ Covers(v, k) /\ v.open = 0
             /\ Len(v.entries) = Len(u.entries) + 1 /\ v.entries[Len(u.entries) + 1].kind = kind
             /\ AllText(v, k) = AllText(u, k)
             /\ kind # "User" => Keeps(u, v, k)
<1> DEFINE e == Other(kind)
           v == Push(u, e)
<1>1. e \in Entry /\ e.kind = kind /\ e.kind # "Assistant" /\ e.text = <<>>
  BY OtherIsEntry
<1> HIDE DEF e
<1>2. /\ v \in Panes /\ Covers(v, k)
      /\ Len(v.entries) = Len(u.entries) + 1 /\ v.entries[Len(u.entries) + 1] = e
      /\ e.kind # "User" => Keeps(u, v, k)
      /\ AllText(v, k) = AllText(u, k) \o e.text
      /\ v.open = IF e.kind = "Assistant" THEN Len(u.entries) + 1 ELSE 0
  BY <1>1, PushShows
<1>3. AllText(u, k) \in Seq(Chunk)
  BY TextOfPane
<1> HIDE DEF v
<1>4. AllText(u, k) \o <<>> = AllText(u, k)
  BY <1>3
<1> QED
  BY <1>1, <1>2, <1>4 DEF v, e

LEMMA JoinAssoc ==
  ASSUME NEW T, NEW s \in Seq(T), NEW t \in Seq(T), NEW y \in Seq(T)
  PROVE  s \o (t \o y) = (s \o t) \o y
OBVIOUS

LEMMA TextEventShows ==
  ASSUME NEW u \in Panes, NEW k, Covers(u, k), NEW c \in Chunk
  PROVE  LET v == Apply(u, Text(c))
         IN  /\ v \in Panes /\ Keeps(u, v, k) /\ v.open # 0
             /\ AllText(v, k) = AllText(u, k) \o <<c>> /\ ClosedText(v, k) = ClosedText(u, k)
<1> DEFINE v == Apply(u, Text(c))
<1>1. v = ApplyText(u, c)
  <2>1. Text(c).ev = "Text" /\ Text(c).chunk = c
    BY DEF Text
  <2> QED
    BY <2>1, Zenon DEF Apply
<1>3. CASE u.open # 0
  <2> DEFINE last == u.entries[u.open]
             longer == Append(last.text, c)
             e == [kind |-> "Assistant", text |-> longer]
  <2>1. /\ u.open = Len(u.entries) /\ Len(u.entries) > 0 /\ last.kind = "Assistant" /\ last \in Entry
        /\ last.text \in Seq(Chunk) /\ u = [entries |-> u.entries, open |-> u.open]
        /\ u.entries \in Seq(Entry)
    BY <1>3, PaneShape
  <2>2. e \in Entry /\ e.kind = "Assistant" /\ e.text = longer /\ longer = last.text \o <<c>>
    <3>1. longer \in Seq(Chunk) /\ longer = last.text \o <<c>>
      BY <2>1, OneEvent
    <3> HIDE DEF longer, last
    <3> QED
      BY <3>1 DEF Entry, Kinds
  <2>3. v = [entries |-> [u.entries EXCEPT ![u.open] = e], open |-> u.open]
    <3>1. v = [u EXCEPT !.entries[u.open].text = longer]
      BY <1>1, <1>3 DEF ApplyText
    <3>2. [last EXCEPT !.text = longer] = e
      <4>1. last = [kind |-> last.kind, text |-> last.text]
        BY <2>1 DEF Entry
      <4> HIDE DEF longer, last
      <4> QED
        BY <2>1, <4>1
    <3>3. [u EXCEPT !.entries[u.open].text = longer] = [u EXCEPT !.entries = [u.entries EXCEPT ![u.open] = [last EXCEPT !.text = longer]]]
      OBVIOUS
    <3> HIDE DEF e, longer, last
    <3> DEFINE fs == [u.entries EXCEPT ![u.open] = e]
    <3>4. v = [u EXCEPT !.entries = fs]
      BY <3>1, <3>2, <3>3
    <3> HIDE DEF fs, v
    <3>5. [u EXCEPT !.entries = fs] = [entries |-> fs, open |-> u.open]
      BY ONLY <2>1
    <3> QED
      BY <3>4, <3>5 DEF fs
  <2> HIDE DEF e, longer, v
  <2>4. /\ v \in Panes /\ Keeps(u, v, k)
        /\ AllText(v, k) = ClosedText(u, k) \o e.text
        /\ ClosedText(v, k) = ClosedText(u, k)
    BY <1>3, <2>2, <2>3, ReplaceShows
  <2>5. AllText(u, k) = ClosedText(u, k) \o last.text /\ ClosedText(u, k) \in Seq(Chunk)
    BY <1>3, TextOfPane
  <2> HIDE DEF last
  <2>6. ClosedText(u, k) \o (last.text \o <<c>>) = (ClosedText(u, k) \o last.text) \o <<c>>
    <3> DEFINE a == ClosedText(u, k)
               b == last.text
               y == <<c>>
    <3>1. b \in Seq(Chunk) /\ a \in Seq(Chunk) /\ y \in Seq(Chunk)
      BY <2>1, <2>5
    <3> HIDE DEF a, b, y
    <3>2. a \o (b \o y) = (a \o b) \o y
      BY ONLY <3>1, JoinAssoc
    <3> QED
      BY <3>2 DEF a, b, y
  <2>7. v.open # 0
    BY <1>3, <2>3
  <2> QED
    BY <2>2, <2>4, <2>5, <2>6, <2>7 DEF v
<1>4. CASE u.open = 0
  <2> DEFINE e == Assistant(<<c>>)
  <2>1. e \in Entry /\ e.kind = "Assistant" /\ e.text = <<c>> /\ e.kind # "User"
    BY DEF Assistant, Entry, Kinds
  <2>2. v = Push(u, e)
    BY <1>1, <1>4 DEF ApplyText
  <2> HIDE DEF e, v
  <2> DEFINE w == Push(u, e)
  <2>3. /\ w \in Panes /\ Keeps(u, w, k)
        /\ AllText(w, k) = AllText(u, k) \o e.text
        /\ w.open = Len(u.entries) + 1
        /\ ClosedText(w, k) = AllText(u, k)
    <3>1. /\ w \in Panes /\ (e.kind # "User" => Keeps(u, w, k))
          /\ AllText(w, k) = AllText(u, k) \o e.text
          /\ w.open = IF e.kind = "Assistant" THEN Len(u.entries) + 1 ELSE 0
          /\ e.kind = "Assistant" => ClosedText(w, k) = AllText(u, k)
      <4>1. e \in Entry
        BY <2>1
      <4> QED
        BY ONLY u \in Panes, Covers(u, k), <4>1, PushShows
    <3> HIDE DEF w
    <3> QED
      BY ONLY <2>1, <3>1
  <2>4. AllText(u, k) = ClosedText(u, k) /\ Len(u.entries) \in Nat
    BY <1>4, TextOfPane, PaneShape
  <2> HIDE DEF w
  <2> QED
    BY <2>1, <2>2, <2>3, <2>4 DEF v, w
<1> QED
  BY <1>3, <1>4

LEMMA RetryEventShows ==
  ASSUME NEW u \in Panes, NEW k, Covers(u, k)
  PROVE  LET v == Apply(u, Retry)
         IN  /\ v \in Panes /\ Keeps(u, v, k) /\ v.open = 0
             /\ AllText(v, k) = ClosedText(u, k)
<1> DEFINE v == Apply(u, Retry)
           e == Other("Trace")
<1>1. v = ApplyRetry(u)
  <2>1. Retry.ev = "Retry"
    BY DEF Retry
  <2> QED
    BY <2>1, Zenon DEF Apply
<1>2. "Trace" \in EntryKind /\ "Trace" # "User"
  BY DEF EntryKind
<1>3. CASE u.open # 0
  <2>1. v = [entries |-> [u.entries EXCEPT ![u.open] = e], open |-> 0]
    BY <1>1, <1>3 DEF ApplyRetry
  <2>2. e \in Entry /\ e.kind # "User" /\ e.text = <<>>
    BY <1>2, OtherIsEntry
  <2> HIDE DEF e, v
  <2>3. /\ v \in Panes /\ Keeps(u, v, k)
        /\ AllText(v, k) = ClosedText(u, k) \o e.text
    BY <1>3, <2>1, <2>2, ReplaceShows
  <2>4. ClosedText(u, k) \in Seq(Chunk)
    BY TextOfPane
  <2>5. ClosedText(u, k) \o <<>> = ClosedText(u, k)
    BY <2>4
  <2>6. v.open = 0
    BY <2>1
  <2> QED
    BY <2>2, <2>3, <2>5, <2>6 DEF v
<1>4. CASE u.open = 0
  <2>1. v = Push(u, e)
    BY <1>1, <1>4 DEF ApplyRetry
  <2>2. /\ Push(u, e) \in Panes /\ Keeps(u, Push(u, e), k) /\ Push(u, e).open = 0
        /\ AllText(Push(u, e), k) = AllText(u, k)
    BY <1>2, OtherShows
  <2>3. AllText(u, k) = ClosedText(u, k)
    BY <1>4, TextOfPane
  <2> QED
    BY <2>1, <2>2, <2>3
<1> QED
  BY <1>3, <1>4

LEMMA QuietEventShows ==
  ASSUME NEW u \in Panes, NEW k, Covers(u, k), NEW x, x.ev \in Quiet
  PROVE  LET v == Apply(u, x)
         IN  /\ v \in Panes /\ Keeps(u, v, k) /\ v.open = 0
             /\ AllText(v, k) = AllText(u, k)
<1> DEFINE v == Apply(u, x)
<1>1. CASE x.ev \in {"ToolCall", "ToolResult", "ToolFailed"}
  <2>1. PICK kd \in EntryKind : kd # "User" /\ v = Push(u, Other(kd))
    <3>1. {"ToolCall", "ToolResult", "Trace"} \subseteq EntryKind
      BY DEF EntryKind
    <3>2. CASE x.ev = "ToolCall"
      BY <3>1, <3>2, Zenon DEF Apply
    <3>3. CASE x.ev = "ToolResult"
      BY <3>1, <3>3, Zenon DEF Apply
    <3>4. CASE x.ev = "ToolFailed"
      BY <3>1, <3>4, Zenon DEF Apply
    <3> QED
      BY <1>1, <3>2, <3>3, <3>4
  <2> HIDE DEF v
  <2>2. /\ v \in Panes /\ Keeps(u, v, k) /\ v.open = 0 /\ AllText(v, k) = AllText(u, k)
    BY <2>1, OtherShows
  <2> QED
    BY <2>2 DEF v
<1>2. CASE x.ev = "TurnComplete"
  <2>1. v = [u EXCEPT !.open = 0]
    BY <1>2, Zenon DEF Apply
  <2>2. u = [entries |-> u.entries, open |-> u.open] /\ u.entries \in Seq(Entry)
    BY PaneShape
  <2> HIDE DEF v
  <2>3. v.entries = u.entries /\ v.open = 0 /\ v = [entries |-> u.entries, open |-> 0]
    BY ONLY <2>1, <2>2
  <2>4. v \in Panes
    BY ONLY <2>2, <2>3 DEF Panes
  <2>5. Keeps(u, v, k) /\ AllText(v, k) = AllText(u, k)
    BY <2>3 DEF Keeps, Covers, AllText
  <2> QED
    BY <2>3, <2>4, <2>5 DEF v
<1> QED
  BY <1>1, <1>2 DEF Quiet

-----------------------------------------------------------------------------
(* The pane after some events. *)

LEMMA EveryEvent ==
  ASSUME NEW x \in Event
  PROVE  (\E c \in Chunk : x = Text(c)) \/ x = Retry \/ x.ev \in Quiet
<1>1. CASE x \in [ev: {"Text"}, chunk: Chunk]
  <2>1. x.chunk \in Chunk /\ x = [ev |-> "Text", chunk |-> x.chunk]
    BY <1>1
  <2> QED
    BY <2>1 DEF Text
<1>2. CASE x \in [ev: {"ToolCall", "ToolResult", "ToolFailed"}, id: Call]
  BY <1>2 DEF Quiet
<1>3. CASE x \in [ev: {"Retry", "TurnComplete"}]
  <2>1. x = [ev |-> x.ev] /\ x.ev \in {"Retry", "TurnComplete"}
    BY <1>3
  <2> QED
    BY <2>1 DEF Retry, Quiet
<1> QED
  BY <1>1, <1>2, <1>3 DEF Event

LEMMA CoversAll ==
  ASSUME NEW u \in Panes
  PROVE  Covers(u, 1)
<1>1. Len(u.entries) \in Nat /\ (u.open # 0 => u.open = Len(u.entries) /\ Len(u.entries) > 0)
  BY PaneShape
<1> QED
  BY <1>1 DEF Covers

LEMMA ApplyTypes ==
  ASSUME NEW u \in Panes, NEW x \in Event
  PROVE  Apply(u, x) \in Panes
<1>1. Covers(u, 1)
  BY CoversAll
<1> QED
  BY <1>1, EveryEvent, TextEventShows, RetryEventShows, QuietEventShows

(* The function Applied is read from: f[n] is the pane after n events. *)
Listens(u, e, f) == f = [n \in 0..Len(e) |-> IF n = 0 THEN u ELSE Apply(f[n - 1], e[n])]

LEMMA ListensAt ==
  ASSUME NEW u \in Panes, NEW e \in Seq(Event), NEW f, Listens(u, e, f)
  PROVE  f[0] = u /\ \A k \in 0..(Len(e) - 1) : f[k + 1] = Apply(f[k], e[k + 1])
<1> DEFINE F == [n \in 0..Len(e) |-> IF n = 0 THEN u ELSE Apply(f[n - 1], e[n])]
<1>1. f = F
  BY DEF Listens
<1>2. F[0] = u
  OBVIOUS
<1>3. ASSUME NEW k \in 0..(Len(e) - 1)
      PROVE  F[k + 1] = Apply(f[k], e[k + 1])
  <2>1. k + 1 \in 0..Len(e) /\ k + 1 # 0 /\ k + 1 - 1 = k
    OBVIOUS
  <2>2. F[k + 1] = IF k + 1 = 0 THEN u ELSE Apply(f[k + 1 - 1], e[k + 1])
    BY <2>1
  <2> QED BY <2>1, <2>2
<1> HIDE DEF F
<1> QED BY <1>1, <1>2, <1>3

LEMMA ListensTypes ==
  ASSUME NEW u \in Panes, NEW e \in Seq(Event), NEW f, Listens(u, e, f)
  PROVE  \A n \in 0..Len(e) : f[n] \in Panes
<1> DEFINE Good == {n \in 0..Len(e) : f[n] \in Panes}
<1>1. Len(e) \in Nat /\ 0 \in 0..Len(e) /\ \A k \in 0..(Len(e) - 1) : k + 1 \in 0..Len(e) /\ e[k + 1] \in Event
  OBVIOUS
<1>2. 0 \in Good
  <2>1. f[0] = u /\ u \in Panes
    BY ListensAt
  <2> QED BY <1>1, <2>1
<1>3. ASSUME NEW k \in 0..(Len(e) - 1), k \in Good
      PROVE  k + 1 \in Good
  <2>1. f[k + 1] = Apply(f[k], e[k + 1])
    BY ListensAt
  <2>2. f[k + 1] \in Panes
    BY <1>1, <1>3, <2>1, ApplyTypes
  <2> QED BY <1>1, <2>2
<1> HIDE DEF Good
<1>4. 0..Len(e) \subseteq Good
  BY <1>1, <1>2, <1>3, BySteps
<1> QED BY <1>4 DEF Good

LEMMA SomethingListens ==
  ASSUME NEW u \in Panes, NEW e \in Seq(Event)
  PROVE  \E f : Listens(u, e, f)
<1> DEFINE n == Len(e)
           Upto(f, m) == \A i \in 0..m : f[i] = IF i = 0 THEN u ELSE Apply(f[i - 1], e[i])
           Good == {m \in 0..n : \E f \in [0..m -> Panes] : Upto(f, m)}
<1>1. 0 \in Good
  <2> DEFINE f == [i \in 0..0 |-> u]
  <2>1. u \in Panes /\ 0 \in 0..n
    OBVIOUS
  <2>2. f \in [0..0 -> Panes]
    BY <2>1
  <2>3. \A i \in 0..0 : i = 0 /\ f[i] = u
    OBVIOUS
  <2> HIDE DEF f
  <2>4. Upto(f, 0)
    BY <2>3
  <2> HIDE DEF Upto
  <2>5. \E h \in [0..0 -> Panes] : Upto(h, 0)
    BY <2>2, <2>4
  <2> QED BY <2>1, <2>5
<1>2. ASSUME NEW m \in 0..(n - 1), m \in Good
      PROVE  m + 1 \in Good
  <2>1. PICK f \in [0..m -> Panes] : Upto(f, m)
    BY <1>2
  <2> DEFINE v == Apply(f[m], e[m + 1])
             g == [i \in 0..(m + 1) |-> IF i <= m THEN f[i] ELSE v]
  <2>2. v \in Panes
    <3>1. m + 1 \in 1..n /\ e[m + 1] \in Event /\ m \in 0..m
      OBVIOUS
    <3>2. f[m] \in Panes
      BY <3>1
    <3> QED BY <3>1, <3>2, ApplyTypes
  <2>3. g \in [0..(m + 1) -> Panes]
    <3> HIDE DEF v
    <3> QED BY <2>2
  <2>4. ASSUME NEW i \in 0..(m + 1)
        PROVE  g[i] = IF i = 0 THEN u ELSE Apply(g[i - 1], e[i])
    <3>1. CASE i <= m
      <4>1. i \in 0..m /\ (i # 0 => i - 1 \in 0..m /\ i - 1 \in 0..(m + 1) /\ i - 1 <= m)
        BY <3>1
      <4>2. g[i] = f[i] /\ (i # 0 => g[i - 1] = f[i - 1])
        <5> HIDE DEF v
        <5> QED BY <4>1, <3>1
      <4>3. f[i] = IF i = 0 THEN u ELSE Apply(f[i - 1], e[i])
        BY <2>1, <4>1
      <4> HIDE DEF g
      <4> QED BY <4>2, <4>3
    <3>2. CASE i = m + 1
      <4>1. i # 0 /\ ~(i <= m) /\ i - 1 = m /\ i - 1 \in 0..(m + 1) /\ i - 1 <= m
        BY <3>2
      <4>2. g[i] = v /\ g[i - 1] = f[m]
        <5> HIDE DEF v
        <5> QED BY <4>1
      <4>3. v = Apply(f[m], e[i])
        BY <3>2
      <4> HIDE DEF g, v
      <4> QED BY <4>1, <4>2, <4>3
    <3>3. i <= m \/ i = m + 1
      OBVIOUS
    <3> QED BY <3>1, <3>2, <3>3
  <2>5. m + 1 \in 0..n
    OBVIOUS
  <2>6. Upto(g, m + 1)
    <3> HIDE DEF g
    <3> QED BY <2>4
  <2> HIDE DEF g, Upto
  <2> QED BY <2>3, <2>6, <2>5
<1>3. n \in Good
  <2>1. n \in Nat /\ n \in 0..n
    OBVIOUS
  <2> HIDE DEF Good, n
  <2>2. 0..n \subseteq Good
    BY <2>1, <1>1, <1>2, BySteps
  <2> QED BY <2>1, <2>2
<1>4. PICK f \in [0..n -> Panes] : Upto(f, n)
  BY <1>3
<1>5. f = [i \in 0..Len(e) |-> IF i = 0 THEN u ELSE Apply(f[i - 1], e[i])]
  BY <1>4
<1> QED BY <1>5 DEF Listens

LEMMA AppliedListens ==
  ASSUME NEW u \in Panes, NEW e \in Seq(Event)
  PROVE  \E f : Listens(u, e, f) /\ Applied(u, e) = f[Len(e)]
<1> DEFINE f == CHOOSE f : Listens(u, e, f)
<1>1. Applied(u, e) = f[Len(e)]
  BY DEF Applied, Listens
<1>2. \E g : Listens(u, e, g)
  BY SomethingListens
<1>3. Listens(u, e, f)
  BY <1>2
<1> QED BY <1>1, <1>3

LEMMA AppliedTypes ==
  ASSUME NEW u \in Panes, NEW e \in Seq(Event)
  PROVE  Applied(u, e) \in Panes
<1>1. PICK f : Listens(u, e, f) /\ Applied(u, e) = f[Len(e)]
  BY AppliedListens
<1>2. Len(e) \in 0..Len(e)
  OBVIOUS
<1> QED BY <1>1, <1>2, ListensTypes

LEMMA AppliedNothing ==
  ASSUME NEW u \in Panes
  PROVE  Applied(u, <<>>) = u
<1>1. <<>> \in Seq(Event) /\ Len(<<>>) = 0
  OBVIOUS
<1>2. PICK f : Listens(u, <<>>, f) /\ Applied(u, <<>>) = f[0]
  BY <1>1, AppliedListens
<1> QED BY <1>1, <1>2, ListensAt

LEMMA AppliedOneMore ==
  ASSUME NEW u \in Panes, NEW e \in Seq(Event), NEW x \in Event
  PROVE  Applied(u, Append(e, x)) = Apply(Applied(u, e), x)
<1> DEFINE n == Len(e)
           d == Append(e, x)
<1>1. /\ n \in Nat /\ d \in Seq(Event) /\ Len(d) = n + 1 /\ d[n + 1] = x /\ n \in 0..(Len(d) - 1)
      /\ \A k \in 0..(n - 1) : d[k + 1] = e[k + 1] /\ k \in 0..(Len(d) - 1) /\ k + 1 \in 0..n
  OBVIOUS
<1> HIDE DEF d
<1>2. PICK f : Listens(u, e, f) /\ Applied(u, e) = f[n]
  BY AppliedListens
<1>3. PICK g : Listens(u, d, g) /\ Applied(u, d) = g[n + 1]
  BY <1>1, AppliedListens
<1> DEFINE Good == {k \in 0..n : f[k] = g[k]}
<1>4. 0 \in Good
  BY <1>1, <1>2, <1>3, ListensAt
<1>5. ASSUME NEW k \in 0..(n - 1), k \in Good
      PROVE  k + 1 \in Good
  <2>1. f[k + 1] = Apply(f[k], e[k + 1])
    BY <1>2, ListensAt
  <2>2. g[k + 1] = Apply(g[k], d[k + 1])
    <3>1. k \in 0..(Len(d) - 1) /\ d \in Seq(Event) /\ u \in Panes /\ Listens(u, d, g)
      BY <1>1, <1>3
    <3> QED BY ONLY <3>1, ListensAt
  <2> QED BY <1>1, <1>5, <2>1, <2>2
<1>6. n \in Good
  <2> HIDE DEF Good, n
  <2>1. 0..n \subseteq Good
    BY <1>1, <1>4, <1>5, BySteps
  <2>2. n \in 0..n
    BY <1>1
  <2> QED BY <2>1, <2>2
<1>7. g[n + 1] = Apply(g[n], x)
  BY <1>1, <1>3, ListensAt
<1> QED BY <1>2, <1>3, <1>6, <1>7 DEF d

-----------------------------------------------------------------------------
(* What a message's text, and events that show none, do to the pane. *)

LEMMA OneFurther ==
  ASSUME NEW T, NEW e \in Seq(T), NEW t \in Seq(T), NEW k \in 0..(Len(t) - 1)
  PROVE  /\ k + 1 \in 1..Len(t) /\ k + 1 \in 0..Len(t) /\ t[k + 1] \in T
         /\ e \o SubSeq(t, 1, k) \in Seq(T) /\ SubSeq(t, 1, k) \in Seq(T)
         /\ e \o SubSeq(t, 1, k + 1) = Append(e \o SubSeq(t, 1, k), t[k + 1])
         /\ SubSeq(t, 1, k + 1) = SubSeq(t, 1, k) \o <<t[k + 1]>>
<1> DEFINE x == t[k + 1]
           sofar == SubSeq(t, 1, k)
<1>1. /\ k \in Nat /\ 0 + k < Len(t) /\ 0 \in Nat
      /\ 0 + 1 = 1 /\ 0 + (k + 1) = k + 1 /\ 0 + k = k /\ 0 + k + 1 = k + 1
      /\ k + 1 \in 1..Len(t) /\ k + 1 \in 0..Len(t) /\ k \in 0..Len(t) /\ x \in T
  OBVIOUS
<1>2. SubSeq(t, 0 + 1, 0 + (k + 1)) = SubSeq(t, 0 + 1, 0 + k) \o <<t[0 + k + 1]>>
  BY <1>1, OneMore
<1>3. SubSeq(t, 1, k + 1) = sofar \o <<x>>
  BY ONLY <1>1, <1>2
<1>4. sofar \in Seq(T)
  BY <1>1, CutIsPrefix
<1> HIDE DEF sofar, x
<1>5. e \o (sofar \o <<x>>) = Append(e \o sofar, x) /\ e \o sofar \in Seq(T)
  <2>1. e \in Seq(T)
    OBVIOUS
  <2> QED BY ONLY <1>1, <1>4, <2>1, SMTT(30)
<1> QED
  BY <1>1, <1>3, <1>4, <1>5 DEF sofar, x

LEMMA KeepsOn ==
  ASSUME NEW u, NEW v, NEW w, NEW k, Keeps(u, v, k), Keeps(v, w, k)
  PROVE  Keeps(u, w, k)
BY DEF Keeps

LEMMA KeepsItself ==
  ASSUME NEW u, NEW k, Covers(u, k)
  PROVE  Keeps(u, u, k)
BY DEF Keeps

LEMMA TextsShow ==
  ASSUME NEW u \in Panes, NEW k, Covers(u, k), NEW m \in C!AssistantMessage
  PROVE  LET w == Applied(u, TextOf(m))
         IN  Keeps(u, w, k) /\ AllText(w, k) = AllText(u, k) \o m.text
<1> DEFINE n == Len(m.text)
           b == TextOf(m)
           none == <<>>
           Upto(i) == Applied(u, none \o SubSeq(b, 1, i))
           Good == {i \in 0..n : /\ Keeps(u, Upto(i), k)
                                 /\ AllText(Upto(i), k) = AllText(u, k) \o SubSeq(m.text, 1, i)}
<1>1. m.text \in Seq(Chunk) /\ n \in Nat
  BY MessageTypes
<1>2. b \in [1..n -> Event] /\ \A i \in 1..n : b[i] = Text(m.text[i])
  BY <1>1, EventTypes DEF TextOf
<1> HIDE DEF b
<1>3. b \in Seq(Event) /\ Len(b) = n /\ none \in Seq(Event)
  BY <1>1, <1>2, SeqDef
<1>4. AllText(u, k) \in Seq(Chunk)
  BY TextOfPane
<1>5. 0 \in Good
  <2>1. none \o SubSeq(b, 1, 0) = <<>> /\ SubSeq(m.text, 1, 0) = <<>> /\ 0 \in 0..n
    BY <1>1, <1>3
  <2>2. Upto(0) = u
    BY <2>1, AppliedNothing
  <2> DEFINE a == AllText(u, k)
  <2>3. a \in Seq(Chunk)
    BY <1>4
  <2> HIDE DEF a, Upto
  <2>4. a \o <<>> = a
    BY ONLY <2>3
  <2> QED BY <2>1, <2>2, <2>4, KeepsItself DEF a
<1>6. ASSUME NEW i \in 0..(n - 1), i \in Good
      PROVE  i + 1 \in Good
  <2> DEFINE d == none \o SubSeq(b, 1, i)
             c == m.text[i + 1]
             v == Applied(u, d)
             texts == SubSeq(m.text, 1, i)
  <2>1. /\ i + 1 \in 1..n /\ i + 1 \in 0..n /\ d \in Seq(Event)
        /\ none \o SubSeq(b, 1, i + 1) = Append(d, b[i + 1]) /\ b[i + 1] \in Event
    BY <1>3, OneFurther
  <2>2. c \in Chunk /\ texts \in Seq(Chunk) /\ SubSeq(m.text, 1, i + 1) = texts \o <<c>>
    BY <1>1, OneFurther
  <2>3. b[i + 1] = Text(c)
    BY <1>2, <2>1
  <2>4. Keeps(u, v, k) /\ AllText(v, k) = AllText(u, k) \o texts
    BY <1>6
  <2>5. v \in Panes /\ Covers(v, k)
    BY <2>1, <2>4, AppliedTypes DEF Keeps
  <2>6. Upto(i + 1) = Apply(v, Text(c))
    <3> HIDE DEF d, c
    <3>1. Applied(u, Append(d, Text(c))) = Apply(Applied(u, d), Text(c))
      BY <2>1, <2>3, AppliedOneMore
    <3> QED BY <2>1, <2>3, <3>1
  <2> HIDE DEF v, d, c, texts
  <2> DEFINE w == Apply(v, Text(c))
  <2>7. Keeps(v, w, k) /\ AllText(w, k) = AllText(v, k) \o <<c>>
    BY <2>2, <2>5, TextEventShows
  <2> HIDE DEF w, Upto
  <2>8. Keeps(u, w, k)
    BY <2>4, <2>7, KeepsOn
  <2>9. AllText(w, k) = AllText(u, k) \o (texts \o <<c>>)
    <3> DEFINE a == AllText(u, k)
               y == <<c>>
    <3>1. a \in Seq(Chunk) /\ y \in Seq(Chunk) /\ texts \in Seq(Chunk)
      BY <1>4, <2>2
    <3>2. AllText(w, k) = (a \o texts) \o y
      BY <2>4, <2>7
    <3> HIDE DEF a, y
    <3>3. a \o (texts \o y) = (a \o texts) \o y
      BY ONLY <3>1, JoinAssoc
    <3> QED BY <3>2, <3>3 DEF a, y
  <2>10. Upto(i + 1) = w
    BY <2>6 DEF w
  <2> QED BY <2>1, <2>2, <2>8, <2>9, <2>10
<1>7. n \in Good
  <2>1. n \in 0..n
    BY <1>1
  <2> HIDE DEF Good, n
  <2>2. 0..n \subseteq Good
    BY <1>1, <1>5, <1>6, BySteps
  <2> QED BY <2>1, <2>2
<1>8. none \o SubSeq(b, 1, n) = b /\ SubSeq(m.text, 1, n) = m.text
  BY <1>1, <1>3
<1> QED BY <1>7, <1>8 DEF b

(* Events that show no text: the calls, their answers, the turn's end. *)
LEMMA QuietShow ==
  ASSUME NEW u \in Panes, NEW e \in Seq(Event), NEW k, Covers(Applied(u, e), k),
         NEW t \in Seq(Event), \A i \in 1..Len(t) : t[i].ev \in Quiet
  PROVE  LET w == Applied(u, e \o t)
         IN  /\ Keeps(Applied(u, e), w, k) /\ AllText(w, k) = AllText(Applied(u, e), k)
             /\ t # <<>> => w.open = 0
<1> DEFINE n == Len(t)
           o == Applied(u, e)
           Upto(i) == Applied(u, e \o SubSeq(t, 1, i))
           Good == {i \in 0..n : /\ Keeps(o, Upto(i), k) /\ AllText(Upto(i), k) = AllText(o, k)
                                 /\ i # 0 => Upto(i).open = 0}
<1>1. n \in Nat
  OBVIOUS
<1>2. 0 \in Good
  <2>1. e \o SubSeq(t, 1, 0) = e /\ 0 \in 0..n
    OBVIOUS
  <2>2. Upto(0) = o
    BY <2>1
  <2> HIDE DEF Upto
  <2> QED BY <2>1, <2>2, KeepsItself
<1>3. ASSUME NEW i \in 0..(n - 1), i \in Good
      PROVE  i + 1 \in Good
  <2> DEFINE d == e \o SubSeq(t, 1, i)
             x == t[i + 1]
             v == Applied(u, d)
  <2>1. /\ i + 1 \in 1..n /\ i + 1 \in 0..n /\ d \in Seq(Event)
        /\ e \o SubSeq(t, 1, i + 1) = Append(d, x) /\ x \in Event
    BY OneFurther
  <2>2. x.ev \in Quiet
    BY <2>1
  <2>3. Keeps(o, v, k) /\ AllText(v, k) = AllText(o, k)
    BY <1>3
  <2>4. v \in Panes /\ Covers(v, k)
    BY <2>1, <2>3, AppliedTypes DEF Keeps
  <2>5. Upto(i + 1) = Apply(v, x)
    <3> HIDE DEF d, x
    <3>1. Applied(u, Append(d, x)) = Apply(Applied(u, d), x)
      BY <2>1, AppliedOneMore
    <3> QED BY <2>1, <3>1
  <2> HIDE DEF v, d, x, o
  <2> DEFINE w == Apply(v, x)
  <2>6. Keeps(v, w, k) /\ AllText(w, k) = AllText(v, k) /\ w.open = 0
    BY <2>2, <2>4, QuietEventShows
  <2> HIDE DEF w, Upto
  <2>7. Keeps(o, w, k)
    BY <2>3, <2>6, KeepsOn
  <2>8. Upto(i + 1) = w
    BY <2>5 DEF w
  <2> QED BY <2>1, <2>3, <2>6, <2>7, <2>8
<1>4. n \in Good
  <2>1. n \in 0..n
    BY <1>1
  <2> HIDE DEF Good, n
  <2>2. 0..n \subseteq Good
    BY <1>1, <1>2, <1>3, BySteps
  <2> QED BY <2>1, <2>2
<1>5. SubSeq(t, 1, n) = t /\ (t # <<>> => n # 0)
  OBVIOUS
<1> HIDE DEF o
<1> QED BY <1>4, <1>5 DEF o

-----------------------------------------------------------------------------
(* The message a turn began with, and the model's text since. *)

LEMMA SinceTypes ==
  ASSUME NEW msgs \in Seq(C!Message), NEW s \in 1..Len(msgs)
  PROVE  TextSince(msgs, s) \in Seq(Chunk)
<1> DEFINE d == Len(msgs) - s
           t == [k \in 1..d |-> OwnText(msgs[s + k])]
<1>1. d \in Nat /\ \A k \in 1..d : s + k \in 1..Len(msgs) /\ msgs[s + k] \in C!Message
  OBVIOUS
<1>2. t \in [1..d -> Seq(Chunk)]
  BY <1>1, OwnTypes
<1>3. TextSince(msgs, s) = FlattenSeq(t)
  BY DEF TextSince
<1> HIDE DEF t, d
<1>4. t \in Seq(Seq(Chunk))
  <2>1. \A S, f : f \in [1..d -> S] => f \in Seq(S)
    BY <1>1, SeqDef
  <2> QED BY ONLY <1>2, <2>1
<1> QED BY ONLY <1>3, <1>4, FlattenType

LEMMA SinceOneMore ==
  ASSUME NEW msgs \in Seq(C!Message), NEW m \in C!Message, NEW s \in 1..Len(msgs)
  PROVE  TextSince(Append(msgs, m), s) = TextSince(msgs, s) \o OwnText(m)
<1> DEFINE new == Append(msgs, m)
           d == Len(msgs) - s
           t == [k \in 1..d |-> OwnText(msgs[s + k])]
           u == [k \in 1..(d + 1) |-> OwnText(new[s + k])]
<1>1. /\ d \in Nat /\ Len(new) - s = d + 1 /\ new[s + (d + 1)] = m
      /\ \A k \in 1..d : new[s + k] = msgs[s + k] /\ msgs[s + k] \in C!Message
      /\ \A k \in 1..(d + 1) : new[s + k] \in C!Message
  OBVIOUS
<1>2. TextSince(msgs, s) = FlattenSeq(t) /\ TextSince(new, s) = FlattenSeq(u)
  BY <1>1 DEF TextSince
<1> HIDE DEF d, new
<1>3. t \in [1..d -> Seq(Chunk)] /\ u \in [1..(d + 1) -> Seq(Chunk)]
  BY <1>1, OwnTypes
<1>4. u[d + 1] = OwnText(m)
  BY <1>1
<1>5. \A k \in 1..d : t[k] = u[k]
  <2> TAKE k \in 1..d
  <2>1. k \in 1..(d + 1)
    BY <1>1
  <2> QED BY <2>1, <1>1
<1> HIDE DEF t, u
<1>6. t \in Seq(Seq(Chunk)) /\ u \in Seq(Seq(Chunk)) /\ Len(t) = d /\ Len(u) = d + 1
  <2>1. \A S, f, n : n \in Nat /\ f \in [1..n -> S] => f \in Seq(S) /\ Len(f) = n
    BY SeqDef
  <2>2. d + 1 \in Nat
    BY <1>1
  <2> QED BY ONLY <1>1, <1>3, <2>1, <2>2
<1>7. FlattenSeq(u) = FlattenSeq(t) \o u[d + 1]
  <2>1. /\ d \in Nat /\ d = Len(t) /\ Len(u) = d + 1 /\ \A i \in 1..d : t[i] = u[i]
        /\ t \in Seq(Seq(Chunk)) /\ u \in Seq(Seq(Chunk))
    BY <1>1, <1>5, <1>6
  <2> QED BY ONLY <2>1, FlattenExtended
<1> QED BY <1>2, <1>4, <1>7 DEF new

LEMMA SinceItself ==
  ASSUME NEW msgs \in Seq(C!Message)
  PROVE  TextSince(msgs, Len(msgs)) = <<>>
<1>1. [k \in 1..(Len(msgs) - Len(msgs)) |-> OwnText(msgs[Len(msgs) + k])] = <<>>
  OBVIOUS
<1> QED BY <1>1, FlattenEmpty DEF TextSince

(* A message in which the user says nothing belongs to the same turn. *)
LEMMA SameTurn ==
  ASSUME NEW msgs \in Seq(C!Message), NEW m \in C!Message, \A n \in Nat : ~Says(m, n),
         NEW s, NEW n \in Nat, TurnAt(msgs, s, n)
  PROVE  /\ TurnAt(Append(msgs, m), s, n)
         /\ TextSince(Append(msgs, m), s) = TextSince(msgs, s) \o OwnText(m)
<1>1. s \in 1..Len(msgs)
  BY DEF TurnAt
<1>2. /\ Len(Append(msgs, m)) = Len(msgs) + 1 /\ Append(msgs, m)[Len(msgs) + 1] = m
      /\ \A i \in 1..Len(msgs) : Append(msgs, m)[i] = msgs[i]
      /\ Len(msgs) \in Nat
  OBVIOUS
<1>3. \A i \in 1..(Len(msgs) + 1) : i = Len(msgs) + 1 \/ i \in 1..Len(msgs)
  BY <1>2
<1>4. s \in 1..(Len(msgs) + 1)
  BY <1>1, <1>2
<1>5. TurnAt(Append(msgs, m), s, n)
  BY <1>1, <1>2, <1>3, <1>4 DEF TurnAt
<1> QED BY <1>1, <1>5, SinceOneMore

LEMMA SaysNothing ==
  /\ \A m \in C!AssistantMessage, n \in Nat : ~Says(m, n)
  /\ \A rs, n : ~Says([role |-> "user", results |-> rs, text |-> <<>>], n)
<1>1. ASSUME NEW m \in C!AssistantMessage, NEW n \in Nat
      PROVE  ~Says(m, n)
  <2>1. m.role = "assistant"
    BY MessageTypes
  <2> QED BY <2>1 DEF Says
<1>2. ASSUME NEW rs, NEW n
      PROVE  ~Says([role |-> "user", results |-> rs, text |-> <<>>], n)
  <2>1. Len(<<>>) = 0
    OBVIOUS
  <2> QED BY <2>1 DEF Says
<1> QED BY <1>1, <1>2

(* The list grows by a message, or by an exchange: the turn says no more. *)
LEMMA ReplySaid ==
  ASSUME NEW msgs \in Seq(C!Message), NEW m \in C!AssistantMessage,
         NEW s, NEW n \in Nat, TurnAt(msgs, s, n)
  PROVE  /\ TurnAt(Append(msgs, m), s, n)
         /\ TextSince(Append(msgs, m), s) = TextSince(msgs, s) \o m.text
<1>1. m \in C!Message /\ OwnText(m) = m.text
  BY MessageTypes DEF OwnText
<1>2. \A j \in Nat : ~Says(m, j)
  BY SaysNothing
<1>3. /\ TurnAt(Append(msgs, m), s, n)
      /\ TextSince(Append(msgs, m), s) = TextSince(msgs, s) \o OwnText(m)
  BY <1>1, <1>2, SameTurn
<1> QED BY <1>1, <1>3

LEMMA ExchangeSaid ==
  ASSUME NEW msgs \in Seq(C!Message), NEW m \in C!AssistantMessage, NEW rs \in Seq(C!Result),
         NEW s, NEW n \in Nat, TurnAt(msgs, s, n)
  PROVE  LET new == msgs \o <<m, [role |-> "user", results |-> rs, text |-> <<>>]>>
         IN  TurnAt(new, s, n) /\ TextSince(new, s) = TextSince(msgs, s) \o m.text
<1> DEFINE u == [role |-> "user", results |-> rs, text |-> <<>>]
           mid == Append(msgs, m)
<1>1. m \in C!Message /\ u \in C!Message /\ OwnText(u) = <<>> /\ \A j \in Nat : ~Says(u, j)
  BY MessageTypes, SaysNothing DEF OwnText
<1> HIDE DEF u
<1>2. msgs \o <<m, u>> = Append(mid, u) /\ mid \in Seq(C!Message)
  BY <1>1, AddOneOrTwo
<1>3. TurnAt(mid, s, n) /\ TextSince(mid, s) = TextSince(msgs, s) \o m.text
  BY ReplySaid
<1> HIDE DEF mid
<1>4. TurnAt(Append(mid, u), s, n) /\ TextSince(Append(mid, u), s) = TextSince(mid, s) \o <<>>
  <2>1. /\ TurnAt(Append(mid, u), s, n)
        /\ TextSince(Append(mid, u), s) = TextSince(mid, s) \o OwnText(u)
    BY <1>1, <1>2, <1>3, SameTurn
  <2> QED BY <1>1, <2>1
<1>5. TextSince(mid, s) \in Seq(Chunk)
  <2>1. s \in 1..Len(mid)
    BY <1>3 DEF TurnAt
  <2> QED BY <1>2, <2>1, SinceTypes
<1>6. TextSince(mid, s) \o <<>> = TextSince(mid, s)
  BY ONLY <1>5
<1> QED BY <1>2, <1>3, <1>4, <1>6 DEF u

(* The user's text begins a turn. *)
LEMMA UserTextSays ==
  ASSUME NEW msgs \in Seq(C!Message), NEW n \in 1..MaxTurns
  PROVE  LET new == C!WithUserText(msgs, n)
         IN  /\ new \in Seq(C!Message) /\ Len(new) \in 1..Len(new) /\ Says(new[Len(new)], n)
             /\ \A i \in 1..(Len(new) - 1) : i \in 1..Len(msgs) /\ new[i] = msgs[i]
             /\ \A j : Says(new[Len(new)], j) =>
                  j = n \/ (Len(new) \in 1..Len(msgs) /\ Says(msgs[Len(new)], j))
<1> DEFINE new == C!WithUserText(msgs, n)
<1>1. new \in Seq(C!Message)
  BY UserTextTypes
<1>2. CASE C!EndsInUser(msgs)
  <2> DEFINE l == Len(msgs)
             m == msgs[l]
             longer == Append(m.text, n)
             e == [m EXCEPT !.text = longer]
  <2>1. l \in 1..l /\ m.role = "user" /\ m \in C!Message
    BY <1>2 DEF C!EndsInUser, C!Last
  <2>2. m \in C!UserMessage /\ m.text \in Seq(1..MaxTurns)
    BY <2>1, MessageTypes DEF C!UserMessage
  <2>3. new = [msgs EXCEPT ![l] = e]
    BY <1>2 DEF C!WithUserText, C!Joined, C!Last
  <2>4. /\ Len(longer) = Len(m.text) + 1 /\ longer[Len(m.text) + 1] = n /\ Len(m.text) \in Nat
        /\ \A j \in 1..Len(m.text) : longer[j] = m.text[j]
    BY <2>2
  <2>5. e.role = "user" /\ e.text = longer
    <3> HIDE DEF longer, m
    <3> QED BY <2>1, <2>2 DEF C!UserMessage
  <2>6. Says(e, n) /\ \A j : Says(e, j) => j = n \/ Says(m, j)
    <3> HIDE DEF e, longer, m
    <3>1. Len(m.text) + 1 \in 1..Len(longer)
      BY <2>4
    <3>2. \A i \in 1..Len(longer) : i = Len(m.text) + 1 \/ i \in 1..Len(m.text)
      BY <2>4
    <3> QED BY <2>1, <2>4, <2>5, <3>1, <3>2 DEF Says
  <2> HIDE DEF e
  <2>7. Len(new) = l /\ new[l] = e /\ \A i \in 1..(l - 1) : i \in 1..l /\ new[i] = msgs[i]
    <3>1. [msgs EXCEPT ![l] = e][l] = e
      BY <2>1
    <3>2. Len([msgs EXCEPT ![l] = e]) = l
      BY <2>1
    <3>3. \A i \in 1..(l - 1) : i \in 1..l /\ i # l
      BY <2>1
    <3>4. \A i \in 1..(l - 1) : [msgs EXCEPT ![l] = e][i] = msgs[i]
      BY <2>1, <3>3
    <3> HIDE DEF new
    <3> QED BY <2>3, <3>1, <3>2, <3>3, <3>4
  <2> HIDE DEF new
  <2> QED BY <1>1, <2>1, <2>6, <2>7 DEF new
<1>3. CASE ~C!EndsInUser(msgs)
  <2> DEFINE e == [role |-> "user", results |-> <<>>, text |-> <<n>>]
  <2>1. new = Append(msgs, e)
    BY <1>3, UserTextTypes
  <2>2. Says(e, n) /\ \A j : Says(e, j) => j = n
    <3>1. e.role = "user" /\ e.text = <<n>> /\ Len(<<n>>) = 1 /\ <<n>>[1] = n
      OBVIOUS
    <3>2. \A i \in 1..1 : i = 1
      OBVIOUS
    <3> HIDE DEF e
    <3> QED BY <3>1, <3>2 DEF Says
  <2> HIDE DEF e
  <2>3. /\ Len(new) = Len(msgs) + 1 /\ new[Len(msgs) + 1] = e /\ Len(msgs) \in Nat
        /\ \A i \in 1..Len(msgs) : new[i] = msgs[i]
    BY <2>1
  <2> HIDE DEF new
  <2>4. \A i \in 1..(Len(new) - 1) : i \in 1..Len(msgs) /\ new[i] = msgs[i]
    <3>1. Len(new) - 1 = Len(msgs)
      BY <2>3
    <3> QED BY <2>3, <3>1
  <2>5. Len(new) \in 1..Len(new)
    BY <2>3
  <2> QED BY <1>1, <2>2, <2>3, <2>4, <2>5 DEF new
<1> QED BY <1>2, <1>3

LEMMA TurnBegins ==
  ASSUME NEW msgs \in Seq(C!Message), NEW n \in 1..MaxTurns,
         \A i \in 1..Len(msgs), j \in Nat : Says(msgs[i], j) => j < n
  PROVE  LET new == C!WithUserText(msgs, n)
         IN  /\ TurnAt(new, Len(new), n) /\ TextSince(new, Len(new)) = <<>>
             /\ \A i \in 1..Len(new), j \in Nat : Says(new[i], j) => j <= n
<1> DEFINE new == C!WithUserText(msgs, n)
           l == Len(new)
<1>1. /\ new \in Seq(C!Message) /\ l \in 1..l /\ Says(new[l], n)
      /\ \A i \in 1..(l - 1) : i \in 1..Len(msgs) /\ new[i] = msgs[i]
      /\ \A j : Says(new[l], j) => j = n \/ (l \in 1..Len(msgs) /\ Says(msgs[l], j))
  BY UserTextSays
<1> HIDE DEF new
<1>2. l \in Nat /\ TextSince(new, l) = <<>> /\ n \in Nat
  BY <1>1, SinceItself
<1>3. \A i \in 1..l : i = l \/ i \in 1..(l - 1)
  BY <1>2
<1>4. ~(n < n)
  BY <1>2
<1>5. TurnAt(new, l, n)
  <2>1. \A i \in 1..l : Says(new[i], n) => i = l
    BY <1>1, <1>2, <1>3, <1>4
  <2> QED BY <1>1, <2>1 DEF TurnAt
<1>6. ASSUME NEW i \in 1..l, NEW j \in Nat, Says(new[i], j)
      PROVE  j <= n
  <2>1. j = n \/ j < n
    BY <1>1, <1>3, <1>6
  <2> QED BY <1>2, <2>1
<1> QED BY <1>2, <1>5, <1>6 DEF new

-----------------------------------------------------------------------------
(* What is shown of the messages, as the pane and the messages grow. *)

LEMMA CoversUser ==
  ASSUME NEW u \in Panes, NEW k, UserAt(u.entries, k)
  PROVE  Covers(u, k) /\ k \in 1..Len(u.entries)
<1>1. /\ Len(u.entries) \in Nat /\ (u.open # 0 => u.open = Len(u.entries) /\ Len(u.entries) > 0)
      /\ k \in 1..Len(u.entries)
  BY PaneShape DEF UserAt
<1> QED BY <1>1 DEF Covers

(* Text follows on both sides. *)
LEMMA ShowsMore ==
  ASSUME NEW u \in Panes, NEW v \in Panes, NEW msgs \in Seq(C!Message), NEW n,
         NEW t \in Seq(Chunk), NEW y \in Seq(Chunk),
         \A k : Covers(u, k) => Keeps(u, v, k) /\ AllText(v, k) = AllText(u, k) \o y
  PROVE  /\ InOrder(u, msgs, t) => InOrder(v, msgs, t \o y)
         /\ Exactly(u, msgs, n, t) => Exactly(v, msgs, n, t \o y)
<1>1. ASSUME InOrder(u, msgs, t)
      PROVE  InOrder(v, msgs, t \o y)
  <2> DEFINE a == TextIn(msgs)
             b == AllText(u, 1)
  <2>1. a \in Seq(Chunk) /\ b \in Seq(Chunk) /\ AllText(v, 1) = b \o y
    BY HeldTypes, CoversAll, TextOfPane
  <2>2. IsWithin(a \o t, b)
    BY <1>1 DEF InOrder
  <2> HIDE DEF a, b
  <2>3. a \o t \in Seq(Chunk) /\ y \in Seq(Chunk) /\ a \o (t \o y) = (a \o t) \o y
    <3>1. t \in Seq(Chunk) /\ y \in Seq(Chunk)
      OBVIOUS
    <3> QED BY ONLY <2>1, <3>1, JoinAssoc, SMTT(30)
  <2>4. IsWithin((a \o t) \o y, b \o y)
    BY ONLY <2>1, <2>2, <2>3, WithinBoth
  <2> QED BY <2>1, <2>3, <2>4 DEF InOrder, a
<1>2. ASSUME Exactly(u, msgs, n, t)
      PROVE  Exactly(v, msgs, n, t \o y)
  <2>1. PICK k \in 1..Len(u.entries), s \in 1..Len(msgs) :
          UserAt(u.entries, k) /\ TurnAt(msgs, s, n) /\ AllText(u, k) = TextSince(msgs, s) \o t
    BY <1>2 DEF Exactly
  <2>2. Covers(u, k)
    BY <2>1, CoversUser
  <2>3. Keeps(u, v, k) /\ AllText(v, k) = AllText(u, k) \o y
    BY <2>2
  <2>4. UserAt(v.entries, k) /\ k \in 1..Len(v.entries)
    BY <2>1, <2>3 DEF Keeps, UserAt
  <2> DEFINE a == TextSince(msgs, s)
  <2>5. a \in Seq(Chunk) /\ t \in Seq(Chunk) /\ y \in Seq(Chunk)
    BY SinceTypes
  <2>6. AllText(v, k) = (a \o t) \o y
    BY <2>1, <2>3
  <2> HIDE DEF a
  <2>7. a \o (t \o y) = (a \o t) \o y
    BY ONLY <2>5, JoinAssoc, SMTT(30)
  <2> QED BY <2>1, <2>4, <2>6, <2>7 DEF Exactly, a
<1> QED BY <1>1, <1>2

LEMMA ShowsSame ==
  ASSUME NEW u \in Panes, NEW v \in Panes, NEW msgs, NEW n, NEW t,
         \A k : Covers(u, k) => Keeps(u, v, k) /\ AllText(v, k) = AllText(u, k)
  PROVE  /\ InOrder(u, msgs, t) => InOrder(v, msgs, t)
         /\ Exactly(u, msgs, n, t) => Exactly(v, msgs, n, t)
<1>1. AllText(v, 1) = AllText(u, 1)
  BY CoversAll
<1>2. ASSUME Exactly(u, msgs, n, t)
      PROVE  Exactly(v, msgs, n, t)
  <2>1. PICK k \in 1..Len(u.entries), s \in 1..Len(msgs) :
          UserAt(u.entries, k) /\ TurnAt(msgs, s, n) /\ AllText(u, k) = TextSince(msgs, s) \o t
    BY <1>2 DEF Exactly
  <2>2. Keeps(u, v, k) /\ AllText(v, k) = AllText(u, k)
    BY <2>1, CoversUser
  <2>3. UserAt(v.entries, k) /\ k \in 1..Len(v.entries)
    BY <2>1, <2>2 DEF Keeps, UserAt
  <2> QED BY <2>1, <2>2, <2>3 DEF Exactly
<1> QED BY <1>1, <1>2 DEF InOrder

(* The same of the pane without its open entry: it stays, or all of it is  *)
(* what is left.                                                           *)
LEMMA ShowsClosed ==
  ASSUME NEW u \in Panes, NEW v \in Panes, NEW msgs, NEW n,
         \A k : Covers(u, k) => Keeps(u, v, k) /\ ClosedText(v, k) = ClosedText(u, k)
  PROVE  /\ InOrderClosed(u, msgs) => InOrderClosed(v, msgs)
         /\ ExactlyClosed(u, msgs, n) => ExactlyClosed(v, msgs, n)
<1>1. ClosedText(v, 1) = ClosedText(u, 1)
  BY CoversAll
<1>2. ASSUME ExactlyClosed(u, msgs, n)
      PROVE  ExactlyClosed(v, msgs, n)
  <2>1. PICK k \in 1..Len(u.entries), s \in 1..Len(msgs) :
          UserAt(u.entries, k) /\ TurnAt(msgs, s, n) /\ ClosedText(u, k) = TextSince(msgs, s)
    BY <1>2 DEF ExactlyClosed
  <2>2. Keeps(u, v, k) /\ ClosedText(v, k) = ClosedText(u, k)
    BY <2>1, CoversUser
  <2>3. UserAt(v.entries, k) /\ k \in 1..Len(v.entries)
    BY <2>1, <2>2 DEF Keeps, UserAt
  <2> QED BY <2>1, <2>2, <2>3 DEF ExactlyClosed
<1> QED BY <1>1, <1>2 DEF InOrderClosed

LEMMA NothingAdded ==
  ASSUME NEW msgs \in Seq(C!Message)
  PROVE  /\ TextIn(msgs) \o <<>> = TextIn(msgs)
         /\ \A s \in 1..Len(msgs) : TextSince(msgs, s) \o <<>> = TextSince(msgs, s)
<1>1. \A a \in Seq(Chunk) : a \o <<>> = a
  OBVIOUS
<1>2. TextIn(msgs) \in Seq(Chunk) /\ \A s \in 1..Len(msgs) : TextSince(msgs, s) \in Seq(Chunk)
  BY HeldTypes, SinceTypes
<1> QED BY <1>1, <1>2

LEMMA ShowsTakenBack ==
  ASSUME NEW u \in Panes, NEW v \in Panes, NEW msgs \in Seq(C!Message), NEW n,
         \A k : Covers(u, k) => Keeps(u, v, k) /\ AllText(v, k) = ClosedText(u, k)
  PROVE  /\ InOrderClosed(u, msgs) => InOrder(v, msgs, <<>>)
         /\ ExactlyClosed(u, msgs, n) => Exactly(v, msgs, n, <<>>)
<1>1. AllText(v, 1) = ClosedText(u, 1)
  BY CoversAll
<1>2. ASSUME ExactlyClosed(u, msgs, n)
      PROVE  Exactly(v, msgs, n, <<>>)
  <2>1. PICK k \in 1..Len(u.entries), s \in 1..Len(msgs) :
          UserAt(u.entries, k) /\ TurnAt(msgs, s, n) /\ ClosedText(u, k) = TextSince(msgs, s)
    BY <1>2 DEF ExactlyClosed
  <2>2. Keeps(u, v, k) /\ AllText(v, k) = ClosedText(u, k)
    BY <2>1, CoversUser
  <2>3. UserAt(v.entries, k) /\ k \in 1..Len(v.entries)
    BY <2>1, <2>2 DEF Keeps, UserAt
  <2> QED BY <2>1, <2>2, <2>3, NothingAdded DEF Exactly
<1> QED BY <1>1, <1>2, NothingAdded DEF InOrder, InOrderClosed

LEMMA NothingOpen ==
  ASSUME NEW u \in Panes, u.open = 0, NEW msgs \in Seq(C!Message), NEW n
  PROVE  /\ InOrder(u, msgs, <<>>) => InOrderClosed(u, msgs)
         /\ Exactly(u, msgs, n, <<>>) => ExactlyClosed(u, msgs, n)
<1>1. AllText(u, 1) = ClosedText(u, 1)
  BY CoversAll, TextOfPane
<1>2. ASSUME Exactly(u, msgs, n, <<>>)
      PROVE  ExactlyClosed(u, msgs, n)
  <2>1. PICK k \in 1..Len(u.entries), s \in 1..Len(msgs) :
          /\ UserAt(u.entries, k) /\ TurnAt(msgs, s, n)
          /\ AllText(u, k) = TextSince(msgs, s) \o <<>>
    BY <1>2 DEF Exactly
  <2>2. AllText(u, k) = ClosedText(u, k)
    BY <2>1, CoversUser, TextOfPane
  <2> QED BY <2>1, <2>2, NothingAdded DEF ExactlyClosed
<1> QED BY <1>1, <1>2, NothingAdded DEF InOrder, InOrderClosed

(* Dropping the draft leaves what the messages hold. *)
LEMMA ShowsLess ==
  ASSUME NEW u \in Panes, NEW msgs \in Seq(C!Message), NEW t \in Seq(Chunk), InOrder(u, msgs, t)
  PROVE  InOrder(u, msgs, <<>>)
<1> DEFINE a == TextIn(msgs)
           b == AllText(u, 1)
<1>1. a \in Seq(Chunk) /\ b \in Seq(Chunk) /\ IsWithin(a \o t, b)
  BY HeldTypes, CoversAll, TextOfPane DEF InOrder
<1> HIDE DEF a, b
<1>2. IsWithin(a, b)
  BY <1>1, WithinLess
<1> QED BY <1>2, NothingAdded DEF InOrder, a, b

(* Text that was shown is stored. *)
LEMMA ShowsReply ==
  ASSUME NEW u \in Panes, NEW msgs \in Seq(C!Message), NEW m \in C!AssistantMessage, NEW n \in Nat
  PROVE  /\ InOrder(u, msgs, m.text) => InOrder(u, Append(msgs, m), <<>>)
         /\ Exactly(u, msgs, n, m.text) => Exactly(u, Append(msgs, m), n, <<>>)
         /\ SaysUpTo(msgs, n) => SaysUpTo(Append(msgs, m), n)
<1> DEFINE new == Append(msgs, m)
<1>1. /\ m \in C!Message /\ new \in Seq(C!Message) /\ Len(new) = Len(msgs) + 1 /\ Len(msgs) \in Nat
      /\ new[Len(msgs) + 1] = m /\ \A i \in 1..Len(msgs) : new[i] = msgs[i]
  BY MessageTypes
<1>2. TextIn(new) = TextIn(msgs) \o m.text
  BY HeldAfterReply
<1> HIDE DEF new
<1>3. InOrder(u, msgs, m.text) => InOrder(u, new, <<>>)
  BY <1>1, <1>2, NothingAdded DEF InOrder
<1>4. ASSUME Exactly(u, msgs, n, m.text)
      PROVE  Exactly(u, new, n, <<>>)
  <2>1. PICK k \in 1..Len(u.entries), s \in 1..Len(msgs) :
          UserAt(u.entries, k) /\ TurnAt(msgs, s, n) /\ AllText(u, k) = TextSince(msgs, s) \o m.text
    BY <1>4 DEF Exactly
  <2>2. TurnAt(new, s, n) /\ TextSince(new, s) = TextSince(msgs, s) \o m.text
    BY <2>1, ReplySaid DEF new
  <2>3. s \in 1..Len(new)
    BY <1>1
  <2> QED BY <1>1, <2>1, <2>2, <2>3, NothingAdded DEF Exactly
<1>5. SaysUpTo(msgs, n) => SaysUpTo(new, n)
  <2>1. \A i \in 1..Len(new) : i = Len(msgs) + 1 \/ i \in 1..Len(msgs)
    BY <1>1
  <2>2. \A j \in Nat : ~Says(m, j)
    BY SaysNothing
  <2> QED BY <1>1, <2>1, <2>2 DEF SaysUpTo
<1> QED BY <1>3, <1>4, <1>5 DEF new

LEMMA ShowsExchange ==
  ASSUME NEW u \in Panes, NEW msgs \in Seq(C!Message), NEW m \in C!AssistantMessage,
         NEW rs \in Seq(C!Result), NEW n \in Nat
  PROVE  LET new == msgs \o <<m, [role |-> "user", results |-> rs, text |-> <<>>]>>
         IN  /\ InOrder(u, msgs, m.text) => InOrder(u, new, <<>>)
             /\ Exactly(u, msgs, n, m.text) => Exactly(u, new, n, <<>>)
             /\ SaysUpTo(msgs, n) => SaysUpTo(new, n)
<1> DEFINE e == [role |-> "user", results |-> rs, text |-> <<>>]
           new == msgs \o <<m, e>>
<1>1. /\ new \in Seq(C!Message) /\ Len(new) = Len(msgs) + 2 /\ Len(msgs) \in Nat
      /\ new[Len(msgs) + 1] = m /\ new[Len(msgs) + 2] = e
  <2>1. Len(msgs) \in Nat
    OBVIOUS
  <2>2. /\ new \in Seq(C!Message) /\ Len(new) = Len(msgs) + 2
        /\ new[Len(msgs) + 1] = m /\ new[Len(msgs) + 2] = e
    BY ExchangeTypes
  <2> HIDE DEF new
  <2> QED BY <2>1, <2>2
<1>2. TextIn(new) = TextIn(msgs) \o m.text
  BY HeldAfterExchange
<1>3. \A j \in Nat : ~Says(m, j) /\ ~Says(e, j)
  BY SaysNothing
<1>4. \A s : TurnAt(msgs, s, n) => TurnAt(new, s, n) /\ TextSince(new, s) = TextSince(msgs, s) \o m.text
  BY ExchangeSaid
<1>5. \A i \in 1..Len(msgs) : new[i] = msgs[i]
  <2>1. m \in C!Message /\ e \in C!Message
    BY MessageTypes
  <2> HIDE DEF e
  <2> QED BY <2>1
<1> HIDE DEF new, e
<1>6. InOrder(u, msgs, m.text) => InOrder(u, new, <<>>)
  BY <1>1, <1>2, NothingAdded DEF InOrder
<1>7. ASSUME Exactly(u, msgs, n, m.text)
      PROVE  Exactly(u, new, n, <<>>)
  <2>1. PICK k \in 1..Len(u.entries), s \in 1..Len(msgs) :
          UserAt(u.entries, k) /\ TurnAt(msgs, s, n) /\ AllText(u, k) = TextSince(msgs, s) \o m.text
    BY <1>7 DEF Exactly
  <2>2. TurnAt(new, s, n) /\ TextSince(new, s) = TextSince(msgs, s) \o m.text
    BY <1>4, <2>1
  <2>3. s \in 1..Len(new)
    BY <1>1
  <2> QED BY <1>1, <2>1, <2>2, <2>3, NothingAdded DEF Exactly
<1>8. SaysUpTo(msgs, n) => SaysUpTo(new, n)
  <2>1. \A i \in 1..Len(new) : i = Len(msgs) + 1 \/ i = Len(msgs) + 2 \/ i \in 1..Len(msgs)
    BY <1>1
  <2> QED BY <1>1, <1>3, <1>5, <2>1 DEF SaysUpTo
<1> QED BY <1>6, <1>7, <1>8 DEF new, e

-----------------------------------------------------------------------------
(* The steps of the loop, as the pane hears them. *)

LEMMA NewOnes ==
  ASSUME log \in Seq(Event), NEW t \in Seq(Event), log' = log \o t
  PROVE  NewEvents = t
<1>1. /\ Len(log') = Len(log) + Len(t) /\ Len(log) \in Nat /\ Len(t) \in Nat
      /\ \A i \in 1..Len(t) : log'[Len(log) + i] = t[i]
  OBVIOUS
<1>2. log' \in Seq(Event)
  OBVIOUS
<1> DEFINE c == Len(log)
           d == Len(t)
<1>3. /\ SubSeq(log', c + 1, c + d) \in Seq(Event)
      /\ Len(SubSeq(log', c + 1, c + d)) = d
      /\ \A i \in 1..d : SubSeq(log', c + 1, c + d)[i] = log'[c + i]
  <2>1. c \in Nat /\ d \in Nat /\ c + d <= Len(log') /\ log' \in Seq(Event)
    BY <1>1, <1>2
  <2> HIDE DEF c, d
  <2> QED BY ONLY <2>1, SubSeqAt, SubSeqType
<1>4. NewEvents = SubSeq(log', c + 1, c + d)
  BY <1>1 DEF NewEvents
<1> HIDE DEF NewEvents, c, d
<1>5. \A i \in 1..d : NewEvents[i] = t[i]
  BY <1>1, <1>3, <1>4 DEF c, d
<1>6. NewEvents \in Seq(Event) /\ Len(NewEvents) = d
  BY <1>3, <1>4
<1> QED BY <1>5, <1>6 DEF d

LEMMA NoneNew ==
  ASSUME IInv, ui \in Panes, log' = log
  PROVE  Applied(ui, NewEvents) = ui
<1>1. log \in Seq(Event) /\ <<>> \in Seq(Event) /\ log \o <<>> = log
  BY DEF IInv, TypeOK
<1>2. NewEvents = <<>>
  BY <1>1, NewOnes
<1> QED BY <1>2, AppliedNothing

LEMMA OneNew ==
  ASSUME IInv, ui \in Panes, NEW x \in Event, log' = Append(log, x)
  PROVE  Applied(ui, NewEvents) = Apply(ui, x)
<1> DEFINE t == <<x>>
           none == <<>>
<1>1. log \in Seq(Event) /\ t \in Seq(Event) /\ log \o t = log' /\ none \in Seq(Event) /\ t = Append(none, x)
  <2>1. log \in Seq(Event)
    BY DEF IInv, TypeOK
  <2> QED BY <2>1, OneEvent
<1> HIDE DEF t
<1>2. NewEvents = t
  BY <1>1, NewOnes
<1>3. Applied(ui, Append(none, x)) = Apply(Applied(ui, none), x)
  BY <1>1, AppliedOneMore
<1>4. Applied(ui, none) = ui
  BY AppliedNothing
<1> QED BY <1>1, <1>2, <1>3, <1>4

(* The pane shows what was heard. *)
LEMMA ShowIs ==
  ASSUME NEW v \in Panes, Show(v)
  PROVE  ui' = v
<1>1. v = [entries |-> v.entries, open |-> v.open]
  BY PaneShape
<1> QED BY <1>1 DEF Show, ui

(* A turn that goes on, and one that returns. *)
LEMMA PaneGoesOn ==
  ASSUME PaneInv, pc # "idle", pc' # "idle", traces' = traces, turns' = turns,
         NEW v \in Panes, Show(v), SaysUpTo(transcript', turns),
         pc' \in {"round", "chat", "backoff"} => draft'.text = <<>>,
         v.open # 0 => pc' = "stream" \/ (pc' = "answer" /\ results' = <<>>),
         InOrder(v, transcript', draft'.text),
         traces = 0 => Exactly(v, transcript', turns, draft'.text),
         pc' = "stream" => Streaming /\ InOrderClosed(v, transcript'),
         pc' = "stream" /\ traces = 0 => ExactlyClosed(v, transcript', turns)
  PROVE  PaneInv'
<1>1. ui' = v /\ open' = v.open
  BY ShowIs DEF Show
<1>2. traces \in Nat
  BY DEF PaneInv
<1> QED BY <1>1, <1>2 DEF PaneInv

LEMMA PaneStops ==
  ASSUME PaneInv, pc # "idle", traces' = traces, NEW how, Return(how),
         NEW v \in Panes, Show(Push(v, Other("Outcome"))), SaysUpTo(transcript', turns),
         InOrder(v, transcript', <<>>),
         traces = 0 /\ how = "completed" => Exactly(v, transcript', turns, <<>>)
  PROVE  PaneInv'
<1> DEFINE w == Push(v, Other("Outcome"))
<1>1. "Outcome" \in EntryKind /\ "Outcome" # "User" /\ traces \in Nat
  BY DEF EntryKind, PaneInv
<1>2. Covers(v, 1)
  BY CoversAll
<1>3. w \in Panes /\ w.open = 0
  BY <1>1, <1>2, OtherShows
<1>4. \A k : Covers(v, k) => Keeps(v, w, k) /\ AllText(w, k) = AllText(v, k)
  BY <1>1, OtherShows
<1> HIDE DEF w
<1>5. InOrder(w, transcript', <<>>) /\ (Exactly(v, transcript', turns, <<>>) => Exactly(w, transcript', turns, <<>>))
  BY <1>3, <1>4, ShowsSame
<1>6. Show(w)
  BY DEF w
<1>7. ui' = w /\ open' = 0
  BY <1>3, <1>6, ShowIs DEF Show
<1>8. pc' = "idle" /\ draft'.text = <<>> /\ turns' = turns /\ outcome' = how
  BY DEF Return, NoDraft
<1> QED BY <1>1, <1>3, <1>5, <1>7, <1>8 DEF PaneInv

(* A step of the turn shows the pane after its events. *)
ListensTo(v) ==
  /\ traces' = traces
  /\ Show(IF pc' = "idle" THEN Push(v, Other("Outcome")) ELSE v)

LEMMA PaneStays ==
  ASSUME PaneInv, pc # "idle", UNCHANGED <<transcript, pc, turns, results>>, draft'.text = draft.text,
         ListensTo(ui)
  PROVE  PaneInv'
<1>1. /\ transcript' = transcript /\ pc' = pc /\ turns' = turns /\ results' = results
      /\ traces' = traces /\ Show(ui) /\ ui.open = open
  BY DEF ListensTo, ui
<1>2. /\ ui \in Panes /\ SaysUpTo(transcript, turns) /\ InOrder(ui, transcript, draft.text)
      /\ traces = 0 => Exactly(ui, transcript, turns, draft.text)
      /\ pc = "stream" => Streaming /\ InOrderClosed(ui, transcript)
      /\ pc = "stream" /\ traces = 0 => ExactlyClosed(ui, transcript, turns)
      /\ pc \in {"round", "chat", "backoff"} => draft.text = <<>>
      /\ open # 0 => pc = "stream" \/ (pc = "answer" /\ results = <<>>)
  BY DEF PaneInv
<1>3. ui' = ui /\ open' = open
  BY <1>1, <1>2, ShowIs DEF Show
<1> QED BY <1>1, <1>2, <1>3 DEF PaneInv

LEMMA PaneTypes ==
  ASSUME IInv
  PROVE  /\ transcript \in Seq(C!Message) /\ log \in Seq(Event) /\ results \in Seq(C!Result)
         /\ draft \in C!AssistantMessage /\ draft.calls \in Seq(Call) /\ draft.text \in Seq(Chunk)
         /\ turns \in Nat
<1>1. turns \in 0..MaxTurns /\ MaxTurns \in Nat
  BY ParametersAssumption DEF IInv, TypeOK
<1> QED BY <1>1, MessageTypes DEF IInv, TypeOK

LEMMA PaneFails ==
  ASSUME IInv, PaneInv, pc # "idle", NEW error, error # "completed", Fail(error), ListensTo(Applied(ui, NewEvents))
  PROVE  PaneInv'
<1>1. Return(error) /\ transcript' = transcript /\ log' = log /\ pc' = "idle"
  BY DEF Fail, Return
<1>2. ui \in Panes /\ SaysUpTo(transcript, turns) /\ InOrder(ui, transcript, draft.text)
  BY DEF PaneInv
<1>3. Applied(ui, NewEvents) = ui
  BY <1>1, <1>2, NoneNew
<1>4. InOrder(ui, transcript, <<>>)
  BY <1>2, PaneTypes, ShowsLess
<1>5. traces' = traces /\ Show(Push(ui, Other("Outcome")))
  BY <1>1, <1>3 DEF ListensTo
<1> QED BY <1>1, <1>2, <1>4, <1>5, PaneStops

(* Events that show no text, of a turn that goes on with the same draft. *)
LEMMA PaneQuiet ==
  ASSUME IInv, PaneInv, pc \in {"answer", "tool"}, pc' \in {"answer", "tool"},
         UNCHANGED <<transcript, turns, draft>>,
         NEW t \in Seq(Event), t # <<>>, \A i \in 1..Len(t) : t[i].ev \in Quiet, log' = log \o t,
         ListensTo(Applied(ui, NewEvents))
  PROVE  PaneInv'
<1> DEFINE none == <<>>
           v == Applied(ui, none \o t)
<1>1. /\ ui \in Panes /\ SaysUpTo(transcript, turns) /\ InOrder(ui, transcript, draft.text)
      /\ traces = 0 => Exactly(ui, transcript, turns, draft.text)
  BY DEF PaneInv
<1>2. NewEvents = t /\ none \o t = t /\ none \in Seq(Event) /\ Applied(ui, none) = ui
  <2>1. log \in Seq(Event)
    BY PaneTypes
  <2>2. NewEvents = t
    BY <2>1, NewOnes
  <2>3. none \o t = t /\ none \in Seq(Event)
    OBVIOUS
  <2> QED BY <1>1, <2>2, <2>3, AppliedNothing
<1>3. v \in Panes
  BY <1>1, <1>2, AppliedTypes
<1>4. \A k : Covers(ui, k) => Keeps(ui, v, k) /\ AllText(v, k) = AllText(ui, k) /\ v.open = 0
  <2> SUFFICES ASSUME NEW k, Covers(ui, k)
               PROVE  Keeps(ui, v, k) /\ AllText(v, k) = AllText(ui, k) /\ v.open = 0
    OBVIOUS
  <2> HIDE DEF none
  <2>1. Covers(Applied(ui, none), k)
    BY <1>2
  <2>2. /\ Keeps(Applied(ui, none), v, k) /\ AllText(v, k) = AllText(Applied(ui, none), k)
        /\ t # <<>> => v.open = 0
    BY <1>1, <1>2, <2>1, QuietShow
  <2> QED BY <1>2, <2>2
<1>5. v.open = 0
  BY <1>1, <1>4, CoversAll
<1> HIDE DEF v
<1>6. /\ InOrder(v, transcript, draft.text)
      /\ traces = 0 => Exactly(v, transcript, turns, draft.text)
  BY <1>1, <1>3, <1>4, ShowsSame
<1>7. traces' = traces /\ Show(v)
  <2>1. v = Applied(ui, NewEvents)
    BY <1>2 DEF v
  <2> QED BY <2>1 DEF ListensTo
<1> QED BY <1>1, <1>3, <1>5, <1>6, <1>7, PaneGoesOn

(* The round is accepted: its text is on the pane by now. *)
LEMMA PaneHasRound ==
  ASSUME IInv, PaneInv, NEW m \in C!AssistantMessage,
         (pc = "stream" /\ m = draft) \/ (pc = "chat" /\ ~Streaming)
  PROVE  LET e == IF Streaming THEN <<>> ELSE TextOf(m)
             v == Applied(ui, e)
         IN  /\ e \in Seq(Event) /\ Shown(m) = log \o e /\ v \in Panes
             /\ InOrder(v, transcript, m.text)
             /\ traces = 0 => Exactly(v, transcript, turns, m.text)
<1> DEFINE e == IF Streaming THEN <<>> ELSE TextOf(m)
           v == Applied(ui, e)
<1>1. /\ ui \in Panes /\ InOrder(ui, transcript, draft.text)
      /\ traces = 0 => Exactly(ui, transcript, turns, draft.text)
      /\ pc = "stream" => Streaming
      /\ pc = "chat" => draft.text = <<>>
  BY DEF PaneInv
<1>2. transcript \in Seq(C!Message) /\ log \in Seq(Event) /\ m.text \in Seq(Chunk)
  BY PaneTypes, MessageTypes
<1>3. CASE Streaming
  <2>1. e = <<>> /\ m = draft /\ log \o <<>> = log /\ <<>> \in Seq(Event)
    BY <1>2, <1>3
  <2>2. Shown(m) = log \o e
    BY <1>3, <2>1 DEF Shown
  <2>3. v = ui
    BY <1>1, <2>1, AppliedNothing
  <2> HIDE DEF e, v
  <2> QED BY <1>1, <2>1, <2>2, <2>3 DEF e, v
<1>4. CASE ~Streaming
  <2>1. e = TextOf(m) /\ pc = "chat" /\ draft.text = <<>>
    BY <1>1, <1>4
  <2>2. Shown(m) = log \o e
    BY <1>4, <2>1 DEF Shown
  <2>3. e \in Seq(Event)
    <3> DEFINE b == TextOf(m)
               n == Len(m.text)
    <3>1. b \in [1..n -> Event] /\ n \in Nat
      BY <1>2, EventTypes DEF TextOf
    <3> HIDE DEF b, n
    <3>2. b \in Seq(Event)
      BY ONLY <3>1, SeqDef
    <3> QED BY <2>1, <3>2 DEF b
  <2>4. v \in Panes
    BY <1>1, <2>3, AppliedTypes
  <2>5. \A k : Covers(ui, k) => Keeps(ui, v, k) /\ AllText(v, k) = AllText(ui, k) \o m.text
    BY <1>1, <2>1, TextsShow
  <2> HIDE DEF e, v
  <2>6. <<>> \in Seq(Chunk) /\ <<>> \o m.text = m.text
    BY <1>2
  <2>7. /\ InOrder(ui, transcript, <<>>) => InOrder(v, transcript, <<>> \o m.text)
        /\ Exactly(ui, transcript, turns, <<>>) => Exactly(v, transcript, turns, <<>> \o m.text)
    BY <1>1, <1>2, <2>4, <2>5, <2>6, ShowsMore
  <2> QED BY <1>1, <2>1, <2>2, <2>3, <2>4, <2>6, <2>7 DEF e, v
<1> QED BY <1>3, <1>4

LEMMA PaneAccepts ==
  ASSUME IInv, PaneInv, NEW m \in C!AssistantMessage, NEW stop, Accept(m, stop),
         (pc = "stream" /\ m = draft) \/ (pc = "chat" /\ ~Streaming),
         ListensTo(Applied(ui, NewEvents))
  PROVE  PaneInv'
<1> DEFINE e == IF Streaming THEN <<>> ELSE TextOf(m)
           v == Applied(ui, e)
<1>1. /\ e \in Seq(Event) /\ Shown(m) = log \o e /\ v \in Panes
      /\ InOrder(v, transcript, m.text)
      /\ traces = 0 => Exactly(v, transcript, turns, m.text)
  BY PaneHasRound
<1> HIDE DEF e
<1>2. /\ transcript \in Seq(C!Message) /\ log \in Seq(Event) /\ turns \in Nat
      /\ m.text \in Seq(Chunk) /\ m.calls \in Seq(Call) /\ m \in C!Message
      /\ SaysUpTo(transcript, turns) /\ ui \in Panes
  BY PaneTypes, MessageTypes DEF PaneInv
<1>3. ASSUME NEW t \in Seq(Event), \A i \in 1..Len(t) : t[i].ev \in Quiet, log' = Shown(m) \o t
      PROVE  LET w == Applied(ui, NewEvents)
             IN  /\ w \in Panes
                 /\ InOrder(w, transcript, m.text)
                 /\ traces = 0 => Exactly(w, transcript, turns, m.text)
                 /\ t # <<>> => w.open = 0
  <2> DEFINE w == Applied(ui, e \o t)
  <2>1. e \o t \in Seq(Event) /\ log' = log \o (e \o t)
    <3>1. log' = (log \o e) \o t
      BY <1>1, <1>3
    <3>2. log \in Seq(Event) /\ e \in Seq(Event) /\ t \in Seq(Event)
      BY <1>1, <1>2
    <3>3. log \o (e \o t) = (log \o e) \o t
      BY ONLY <3>2, JoinAssoc
    <3> QED BY <3>1, <3>2, <3>3
  <2>2. NewEvents = e \o t
    BY <1>2, <2>1, NewOnes
  <2>3. w \in Panes
    BY <1>2, <2>1, AppliedTypes
  <2>4. \A k : Covers(v, k) => Keeps(v, w, k) /\ AllText(w, k) = AllText(v, k) /\ (t # <<>> => w.open = 0)
    BY <1>1, <1>2, <1>3, QuietShow
  <2>5. Covers(v, 1)
    BY <1>1, CoversAll
  <2> HIDE DEF v, w
  <2>6. /\ InOrder(v, transcript, m.text) => InOrder(w, transcript, m.text)
        /\ Exactly(v, transcript, turns, m.text) => Exactly(w, transcript, turns, m.text)
    BY <1>1, <2>3, <2>4, ShowsSame
  <2> QED BY <1>1, <2>2, <2>3, <2>4, <2>5, <2>6 DEF w
<1> HIDE DEF v
<1>4. pc # "idle"
  OBVIOUS
<1> DEFINE w == Applied(ui, NewEvents)
<1>5. ASSUME NEW how, Return(how), w \in Panes, SaysUpTo(transcript', turns), InOrder(w, transcript', <<>>),
             traces = 0 /\ how = "completed" => Exactly(w, transcript', turns, <<>>)
      PROVE  PaneInv'
  <2>1. pc' = "idle"
    BY <1>5 DEF Return
  <2>2. traces' = traces /\ Show(Push(w, Other("Outcome")))
    BY <2>1 DEF ListensTo
  <2> HIDE DEF w
  <2> QED BY <1>4, <1>5, <2>2, PaneStops
<1>6. CASE AcceptNoCalls(m, stop) /\ stop = "tool_use"
  <2>1. Return("contract") /\ log' = Shown(m) /\ transcript' = transcript
    BY <1>6 DEF AcceptNoCalls
  <2>2. <<>> \in Seq(Event) /\ log' = Shown(m) \o <<>> /\ \A i \in 1..Len(<<>>) : <<>>[i].ev \in Quiet
    BY <1>1, <1>2, <2>1
  <2>3. w \in Panes /\ InOrder(w, transcript, m.text)
    BY <1>3, <2>2
  <2> HIDE DEF w
  <2>4. InOrder(w, transcript, <<>>)
    BY <1>2, <2>3, ShowsLess
  <2> QED BY <1>2, <1>5, <2>1, <2>3, <2>4
<1>7. CASE AcceptNoCalls(m, stop) /\ stop # "tool_use"
  <2> DEFINE t == <<TurnComplete>>
  <2>1. /\ Return("completed") /\ log' = Append(Shown(m), TurnComplete)
        /\ transcript' = (IF C!IsEmpty(m) THEN transcript ELSE Append(transcript, m))
    BY <1>7 DEF AcceptNoCalls
  <2>2. TurnComplete \in Event /\ TurnComplete.ev \in Quiet
    BY EventTypes DEF TurnComplete, Quiet
  <2>3. t \in Seq(Event) /\ log' = Shown(m) \o t /\ \A i \in 1..Len(t) : t[i].ev \in Quiet
    <3> DEFINE x == TurnComplete
    <3>1. Shown(m) \in Seq(Event)
      BY <1>1, <1>2
    <3>2. x \in Event /\ x.ev \in Quiet
      BY <2>2
    <3> HIDE DEF x
    <3>3. <<x>> \in Seq(Event) /\ Len(<<x>>) = 1 /\ <<x>>[1] = x /\ Append(Shown(m), x) = Shown(m) \o <<x>>
      BY <3>1, <3>2, OneEvent
    <3>4. \A i \in 1..Len(<<x>>) : <<x>>[i].ev \in Quiet
      BY <3>2, <3>3
    <3> QED BY <2>1, <3>3, <3>4 DEF x
  <2> HIDE DEF t
  <2>4. /\ w \in Panes /\ InOrder(w, transcript, m.text)
        /\ traces = 0 => Exactly(w, transcript, turns, m.text)
    BY <1>3, <2>3
  <2> HIDE DEF w
  <2>5. CASE C!IsEmpty(m)
    <3>1. m.text = <<>> /\ transcript' = transcript
      BY <2>1, <2>5 DEF C!IsEmpty
    <3> QED BY <1>2, <1>5, <2>1, <2>4, <3>1
  <2>6. CASE ~C!IsEmpty(m)
    <3>1. transcript' = Append(transcript, m)
      BY <2>1, <2>6
    <3>2. /\ InOrder(w, transcript, m.text) => InOrder(w, Append(transcript, m), <<>>)
          /\ Exactly(w, transcript, turns, m.text) => Exactly(w, Append(transcript, m), turns, <<>>)
          /\ SaysUpTo(transcript, turns) => SaysUpTo(Append(transcript, m), turns)
      BY <1>2, <2>4, ShowsReply
    <3> QED BY <1>2, <1>5, <2>1, <2>4, <3>1, <3>2
  <2> QED BY <2>5, <2>6
<1>8. CASE AcceptRefusal(m, stop)
  <2> DEFINE failures == [k \in 1..Len(m.calls) |-> ToolFailed(m.calls[k])]
             us == NotRun(m.calls)
             t == failures \o <<TurnComplete>>
  <2>1. failures \in Seq(Event) /\ us \in Seq(C!Result)
    BY <1>2, NotRunAnswers
  <2>2. /\ log' = (Shown(m) \o failures) \o <<TurnComplete>>
        /\ transcript' =
             transcript \o <<m, [role |-> "user", results |-> us, text |-> <<>>]>>
        /\ Return("completed")
    BY <1>8 DEF AcceptRefusal
  <2>3. \A k \in 1..Len(failures) : failures[k].ev \in Quiet
    <3>1. Len(failures) = Len(m.calls)
      BY <1>2
    <3> QED BY <3>1 DEF ToolFailed, Quiet
  <2> HIDE DEF failures, us
  <2>4. t \in Seq(Event) /\ log' = Shown(m) \o t /\ \A i \in 1..Len(t) : t[i].ev \in Quiet
    <3> DEFINE x == TurnComplete
               y == <<x>>
               s == Shown(m)
    <3>1. s \in Seq(Event) /\ x \in Event /\ x.ev \in Quiet
      BY <1>1, <1>2, EventTypes DEF TurnComplete, Quiet
    <3> HIDE DEF x
    <3>2. y \in Seq(Event) /\ Len(y) = 1 /\ y[1] = x
      BY <3>1
    <3> HIDE DEF y, s
    <3> DEFINE f == failures
    <3>3. s \o (f \o y) = (s \o f) \o y
      <4>1. s \in Seq(Event) /\ f \in Seq(Event) /\ y \in Seq(Event)
        BY <2>1, <3>1, <3>2
      <4> HIDE DEF f
      <4> QED BY ONLY <4>1, JoinAssoc
    <3>4. \A i \in 1..Len(failures \o y) : (failures \o y)[i].ev \in Quiet
      <4>1. /\ Len(failures \o y) = Len(failures) + Len(y) /\ Len(failures) \in Nat
            /\ \A i \in 1..Len(failures) : (failures \o y)[i] = failures[i]
            /\ \A j \in (Len(failures) + 1)..(Len(failures) + Len(y)) :
                 j - Len(failures) \in 1..Len(y) /\ (failures \o y)[j] = y[j - Len(failures)]
        BY ONLY <2>1, <3>2, LongerLog, SMTT(30)
      <4>2. \A j \in 1..Len(y) : y[j].ev \in Quiet
        BY ONLY <3>1, <3>2
      <4>3. \A j \in 1..(Len(failures) + Len(y)) :
              j \in 1..Len(failures) \/ j \in (Len(failures) + 1)..(Len(failures) + Len(y))
        BY ONLY <4>1
      <4> QED BY ONLY <2>3, <4>1, <4>2, <4>3
    <3>5. t = failures \o y /\ log' = (s \o failures) \o y
      BY <2>2 DEF x, y, s
    <3>6. failures \o y \in Seq(Event)
      BY <2>1, <3>2
    <3> HIDE DEF t
    <3> QED BY <3>3, <3>4, <3>5, <3>6 DEF s
  <2> HIDE DEF t
  <2>5. /\ w \in Panes /\ InOrder(w, transcript, m.text)
        /\ traces = 0 => Exactly(w, transcript, turns, m.text)
    BY <1>3, <2>4
  <2> HIDE DEF w
  <2>6. /\ InOrder(w, transcript, m.text) => InOrder(w, transcript', <<>>)
        /\ Exactly(w, transcript, turns, m.text) => Exactly(w, transcript', turns, <<>>)
        /\ SaysUpTo(transcript, turns) => SaysUpTo(transcript', turns)
    BY <1>2, <2>1, <2>2, <2>5, ShowsExchange
  <2> QED BY <1>2, <1>5, <2>2, <2>5, <2>6
<1>9. CASE AcceptCalls(m, stop)
  <2>1. /\ pc' = "answer" /\ results' = <<>> /\ transcript' = transcript /\ log' = Shown(m)
        /\ draft' = m /\ turns' = turns
    BY <1>9 DEF AcceptCalls
  <2>2. <<>> \in Seq(Event) /\ log' = Shown(m) \o <<>> /\ \A i \in 1..Len(<<>>) : <<>>[i].ev \in Quiet
    BY <1>1, <1>2, <2>1
  <2>3. /\ w \in Panes /\ InOrder(w, transcript, m.text)
        /\ traces = 0 => Exactly(w, transcript, turns, m.text)
    BY <1>3, <2>2
  <2>4. traces' = traces /\ Show(w)
    BY <2>1 DEF ListensTo
  <2> HIDE DEF w
  <2> QED BY <1>2, <1>4, <2>1, <2>3, <2>4, PaneGoesOn
<1> QED BY <1>6, <1>7, <1>8, <1>9 DEF Accept

(* A failed attempt is taken back whole. *)
LEMMA PaneRetries ==
  ASSUME IInv, PaneInv, pc \in {"chat", "stream"}, NEW retryable, Failed(retryable),
         ListensTo(Applied(ui, NewEvents))
  PROVE  PaneInv'
<1>1. CASE retryable /\ attempt < Attempts
  <2> DEFINE v == Apply(ui, Retry)
  <2>1. /\ pc' = "backoff" /\ log' = Append(log, Retry) /\ draft' = NoDraft
        /\ transcript' = transcript /\ turns' = turns
    BY <1>1 DEF Failed
  <2>2. /\ ui \in Panes /\ SaysUpTo(transcript, turns) /\ InOrder(ui, transcript, draft.text)
        /\ traces = 0 => Exactly(ui, transcript, turns, draft.text)
        /\ pc = "chat" => draft.text = <<>> /\ ui.open = 0
        /\ pc = "stream" => InOrderClosed(ui, transcript)
        /\ pc = "stream" /\ traces = 0 => ExactlyClosed(ui, transcript, turns)
    BY DEF PaneInv, ui
  <2>3. InOrderClosed(ui, transcript) /\ (traces = 0 => ExactlyClosed(ui, transcript, turns))
    BY <2>2, PaneTypes, NothingOpen
  <2>4. Retry \in Event
    BY EventTypes
  <2>5. Applied(ui, NewEvents) = v
    BY <2>1, <2>2, <2>4, OneNew
  <2>6. v \in Panes /\ v.open = 0
    BY <2>2, CoversAll, RetryEventShows
  <2>7. \A k : Covers(ui, k) => Keeps(ui, v, k) /\ AllText(v, k) = ClosedText(ui, k)
    BY <2>2, RetryEventShows
  <2> HIDE DEF v
  <2>8. InOrder(v, transcript, <<>>) /\ (traces = 0 => Exactly(v, transcript, turns, <<>>))
    BY <2>2, <2>3, <2>6, <2>7, PaneTypes, ShowsTakenBack
  <2>9. traces' = traces /\ Show(v) /\ draft'.text = <<>>
    BY <2>1, <2>5 DEF ListensTo, NoDraft
  <2>10. pc # "idle" /\ pc' # "idle" /\ pc' # "stream"
    BY <2>1
  <2> QED BY <2>1, <2>2, <2>6, <2>8, <2>9, <2>10, PaneGoesOn
<1>2. CASE ~(retryable /\ attempt < Attempts)
  BY <1>2, PaneFails DEF Failed
<1> QED BY <1>1, <1>2

(* One more piece of text. *)
LEMMA PaneReads ==
  ASSUME IInv, PaneInv, StreamText, ListensTo(Applied(ui, NewEvents))
  PROVE  PaneInv'
<1>1. PICK c \in Chunk : draft' = [draft EXCEPT !.text = Append(@, c)] /\ log' = Append(log, Text(c))
  BY DEF StreamText
<1> DEFINE v == Apply(ui, Text(c))
<1>2. pc = "stream" /\ pc' = "stream" /\ transcript' = transcript /\ turns' = turns
  BY DEF StreamText
<1>3. /\ ui \in Panes /\ SaysUpTo(transcript, turns) /\ InOrder(ui, transcript, draft.text)
      /\ traces = 0 => Exactly(ui, transcript, turns, draft.text)
      /\ Streaming /\ InOrderClosed(ui, transcript)
      /\ traces = 0 => ExactlyClosed(ui, transcript, turns)
  BY <1>2 DEF PaneInv
<1>4. draft'.text = draft.text \o <<c>> /\ <<c>> \in Seq(Chunk) /\ draft.text \in Seq(Chunk)
  <2> DEFINE longer == Append(draft.text, c)
  <2>1. draft \in C!AssistantMessage /\ draft.text \in Seq(Chunk)
    BY PaneTypes
  <2>2. draft' = [draft EXCEPT !.text = longer] /\ longer = draft.text \o <<c>> /\ <<c>> \in Seq(Chunk)
    BY <1>1, <2>1, OneEvent
  <2> HIDE DEF longer
  <2>3. draft'.text = longer
    BY <2>1, <2>2 DEF C!AssistantMessage
  <2> QED BY <2>1, <2>2, <2>3
<1>5. Applied(ui, NewEvents) = v
  <2>1. Text(c) \in Event
    BY EventTypes
  <2> QED BY <1>1, <1>3, <2>1, OneNew
<1>6. v \in Panes
  BY <1>3, CoversAll, TextEventShows
<1>7. \A k : Covers(ui, k) =>
        Keeps(ui, v, k) /\ AllText(v, k) = AllText(ui, k) \o <<c>> /\ ClosedText(v, k) = ClosedText(ui, k)
  BY <1>3, TextEventShows
<1> DEFINE y == <<c>>
<1>8. /\ y \in Seq(Chunk) /\ draft'.text = draft.text \o y
      /\ \A k : Covers(ui, k) => Keeps(ui, v, k) /\ AllText(v, k) = AllText(ui, k) \o y
      /\ \A k : Covers(ui, k) => Keeps(ui, v, k) /\ ClosedText(v, k) = ClosedText(ui, k)
  BY <1>4, <1>7
<1> HIDE DEF y, v
<1>9. /\ InOrder(v, transcript, draft.text \o y)
      /\ traces = 0 => Exactly(v, transcript, turns, draft.text \o y)
  BY <1>3, <1>4, <1>6, <1>8, PaneTypes, ShowsMore
<1>10. InOrderClosed(v, transcript) /\ (traces = 0 => ExactlyClosed(v, transcript, turns))
  BY <1>3, <1>6, <1>8, ShowsClosed
<1>11. traces' = traces /\ Show(v)
  BY <1>2, <1>5 DEF ListensTo
<1> QED BY <1>2, <1>3, <1>6, <1>8, <1>9, <1>10, <1>11, PaneGoesOn

(* The exchange is stored, and the next round begins or the turn returns. *)
LEMMA PaneStores ==
  ASSUME IInv, PaneInv, StoreRound, ListensTo(Applied(ui, NewEvents))
  PROVE  PaneInv'
<1>1. /\ pc = "answer" /\ log' = log /\ turns' = turns /\ AnsweredSoFar
      /\ Len(results) = Len(draft.calls)
      /\ transcript' =
           transcript \o <<draft, [role |-> "user", results |-> results, text |-> <<>>]>>
  BY DEF StoreRound, Return, IInv, LoopInv
<1>2. /\ ui \in Panes /\ SaysUpTo(transcript, turns) /\ InOrder(ui, transcript, draft.text)
      /\ traces = 0 => Exactly(ui, transcript, turns, draft.text)
      /\ open # 0 => results = <<>>
  BY <1>1 DEF PaneInv
<1>3. open = 0 /\ ui.open = 0
  <2>1. Len(draft.calls) # 0
    BY <1>1, PaneTypes DEF AnsweredSoFar
  <2>2. results # <<>>
    BY <1>1, <2>1
  <2> QED BY <1>2, <2>2 DEF ui
<1>4. Applied(ui, NewEvents) = ui
  BY <1>1, <1>2, NoneNew
<1>5. /\ InOrder(ui, transcript', <<>>)
      /\ traces = 0 => Exactly(ui, transcript', turns, <<>>)
      /\ SaysUpTo(transcript', turns)
  BY <1>1, <1>2, PaneTypes, ShowsExchange
<1>6. CASE \E how : Return(how)
  <2> PICK how : Return(how)
    BY <1>6
  <2>1. pc' = "idle" /\ pc # "idle"
    BY <1>1 DEF Return
  <2>2. traces' = traces /\ Show(Push(ui, Other("Outcome")))
    BY <1>4, <2>1 DEF ListensTo
  <2> QED BY <1>2, <1>5, <2>1, <2>2, PaneStops
<1>7. CASE pc' = "round" /\ draft' = NoDraft
  <2>1. traces' = traces /\ Show(ui) /\ draft'.text = <<>>
    BY <1>4, <1>7 DEF ListensTo, NoDraft
  <2>2. pc # "idle" /\ pc' # "idle" /\ pc' # "stream"
    BY <1>1, <1>7
  <2> QED BY <1>1, <1>2, <1>3, <1>5, <2>1, <2>2, PaneGoesOn
<1> QED BY <1>6, <1>7 DEF StoreRound

(* drive shows the user's text before the turn begins. *)
LEMMA PaneSubmits ==
  ASSUME IInv, PaneInv, Submit
  PROVE  PaneInv'
<1> DEFINE v == Push(ui, Other("User"))
           n == Len(entries) + 1
           new == C!WithUserText(transcript, turns + 1)
<1>1. /\ pc = "idle" /\ pc' = "round" /\ draft'.text = <<>> /\ turns' = turns + 1
      /\ transcript' = new /\ Show(v) /\ traces' = traces
  BY DEF Submit, StartTurn, NoDraft
<1>2. /\ ui \in Panes /\ SaysUpTo(transcript, turns) /\ InOrder(ui, transcript, <<>>)
      /\ open = 0 /\ traces \in Nat /\ ui.entries = entries /\ ui.open = open
  BY <1>1 DEF PaneInv, ui
<1>3. turns \in Nat /\ turns + 1 \in 1..MaxTurns /\ transcript \in Seq(C!Message)
  <2>1. turns < MaxTurns /\ MaxTurns \in Nat /\ turns \in Nat
    BY PaneTypes, ParametersAssumption DEF Submit, StartTurn
  <2> QED BY <2>1, PaneTypes
<1>4. /\ TurnAt(new, Len(new), turns + 1) /\ TextSince(new, Len(new)) = <<>>
      /\ SaysUpTo(new, turns + 1)
  <2>1. \A i \in 1..Len(transcript), j \in Nat : Says(transcript[i], j) => j < turns + 1
    BY <1>2, <1>3 DEF SaysUpTo
  <2> QED BY <1>3, <2>1, TurnBegins DEF SaysUpTo
<1>5. TextIn(new) = TextIn(transcript)
  BY <1>3, HeldAfterUser
<1> HIDE DEF new
<1>6. "User" \in EntryKind /\ Len(entries) \in Nat /\ entries \in Seq(Entry)
  BY <1>2, PaneShape DEF EntryKind
<1>7. Covers(ui, 1) /\ Covers(ui, n)
  BY <1>2, <1>6, CoversAll DEF Covers
<1>8. /\ v \in Panes /\ v.open = 0 /\ AllText(v, 1) = AllText(ui, 1)
      /\ AllText(v, n) = AllText(ui, n)
      /\ Len(v.entries) = n /\ v.entries[n].kind = "User"
  BY <1>2, <1>6, <1>7, OtherShows
<1>9. AllText(ui, n) = <<>>
  <2>1. [j \in 1..(Len(entries) - n + 1) |-> entries[n + j - 1].text] = <<>>
    BY <1>6
  <2>2. AllText(ui, n) = FlattenSeq([j \in 1..(Len(entries) - n + 1) |-> entries[n + j - 1].text])
    BY <1>2 DEF AllText, Joined
  <2> QED BY <2>1, <2>2, FlattenEmpty
<1> HIDE DEF v
<1>10. InOrder(v, transcript', <<>>)
  BY <1>1, <1>2, <1>5, <1>8 DEF InOrder
<1>11. Exactly(v, transcript', turns', <<>>)
  <2>1. n \in 1..Len(v.entries) /\ UserAt(v.entries, n)
    <3>1. n \in 1..n /\ (n + 1)..n = {}
      BY <1>6
    <3> HIDE DEF n
    <3> QED BY <1>8, <3>1 DEF UserAt
  <2>2. Len(new) \in 1..Len(new)
    BY <1>4 DEF TurnAt
  <2>3. AllText(v, n) = TextSince(new, Len(new)) \o <<>>
    <3>1. <<>> \o <<>> = <<>>
      OBVIOUS
    <3> QED BY <1>4, <1>8, <1>9, <3>1
  <2> HIDE DEF n
  <2> QED BY <1>1, <1>4, <2>1, <2>2, <2>3 DEF Exactly
<1>12. ui' = v /\ open' = 0
  BY <1>1, <1>8, ShowIs DEF Show
<1> QED BY <1>1, <1>2, <1>4, <1>8, <1>10, <1>11, <1>12 DEF PaneInv

(* Somebody else's line: the loop stands where it stood. *)
LEMMA PaneInterjects ==
  ASSUME IInv, PaneInv, Interject
  PROVE  PaneInv'
<1> DEFINE v == Push(ui, Other("Trace"))
<1>1. /\ traces' = traces + 1 /\ Show(v) /\ transcript' = transcript /\ pc' = pc /\ turns' = turns
      /\ draft' = draft
  BY DEF Interject, vars
<1>2. /\ ui \in Panes /\ SaysUpTo(transcript, turns) /\ InOrder(ui, transcript, draft.text)
      /\ traces \in Nat /\ (pc = "stream" => Streaming)
      /\ pc \in {"idle", "round", "chat", "backoff"} => draft.text = <<>>
  BY DEF PaneInv
<1>3. "Trace" \in EntryKind /\ "Trace" # "User"
  BY DEF EntryKind
<1>4. v \in Panes /\ v.open = 0
  BY <1>2, <1>3, CoversAll, OtherShows
<1>5. \A k : Covers(ui, k) => Keeps(ui, v, k) /\ AllText(v, k) = AllText(ui, k)
  BY <1>2, <1>3, OtherShows
<1> HIDE DEF v
<1>6. InOrder(v, transcript, draft.text)
  BY <1>2, <1>4, <1>5, ShowsSame
<1>7. InOrderClosed(v, transcript)
  <2>1. InOrder(v, transcript, <<>>)
    BY <1>4, <1>6, PaneTypes, ShowsLess
  <2> QED BY <1>4, <2>1, PaneTypes, NothingOpen
<1>8. ui' = v /\ open' = 0
  BY <1>1, <1>4, ShowIs DEF Show
<1>9. traces' \in Nat /\ traces' # 0
  BY <1>1, <1>2
<1> QED BY <1>1, <1>2, <1>4, <1>6, <1>7, <1>8, <1>9 DEF PaneInv

LEMMA PaneListens ==
  ASSUME IInv, PaneInv, Listen
  PROVE  PaneInv'
<1>1. ListensTo(Applied(ui, NewEvents)) /\ (Cancel \/ Loop \/ Provider \/ ToolRun)
  BY DEF Listen, ListensTo
<1>2. /\ transcript \in Seq(C!Message) /\ log \in Seq(Event) /\ results \in Seq(C!Result)
      /\ draft \in C!AssistantMessage /\ draft.calls \in Seq(Call) /\ draft.text \in Seq(Chunk)
      /\ ui \in Panes
  BY PaneTypes DEF PaneInv
<1>3. ASSUME pc # "idle", UNCHANGED <<transcript, pc, turns, results, log>>, draft'.text = draft.text
      PROVE  PaneInv'
  <2>1. ListensTo(ui)
    BY <1>1, <1>2, <1>3, NoneNew
  <2> QED BY <1>3, <2>1, PaneStays
<1>4. ASSUME pc # "idle", NEW error, error # "completed", Fail(error)
      PROVE  PaneInv'
  BY <1>1, <1>4, PaneFails
<1>5. ASSUME pc \in {"answer", "tool"}, pc' \in {"answer", "tool"}, UNCHANGED <<transcript, turns, draft>>,
             NEW x \in Event, x.ev \in Quiet, log' = Append(log, x)
      PROVE  PaneInv'
  <2> DEFINE t == <<x>>
  <2>1. t \in Seq(Event) /\ t # <<>> /\ Len(t) = 1 /\ t[1] = x /\ log' = log \o t
    BY <1>2, <1>5, OneEvent
  <2> HIDE DEF t
  <2>2. \A i \in 1..Len(t) : t[i].ev \in Quiet
    BY <1>5, <2>1
  <2> QED BY <1>1, <1>5, <2>1, <2>2, PaneQuiet
<1>6. ASSUME Len(results) < Len(draft.calls)
      PROVE  /\ ToolFailed(Asked) \in Event /\ ToolFailed(Asked).ev \in Quiet
             /\ ToolResult(Asked) \in Event /\ ToolResult(Asked).ev \in Quiet
             /\ ToolCall(Asked) \in Event /\ ToolCall(Asked).ev \in Quiet
  <2>1. Asked \in Call
    BY <1>2, <1>6 DEF Asked
  <2> QED BY <2>1, EventTypes DEF ToolFailed, ToolResult, ToolCall, Quiet
<1>7. CASE Cancel
  BY <1>3, <1>7 DEF Cancel
<1>8. CASE ToolRun
  <2>1. pc # "idle" /\ UNCHANGED <<transcript, pc, turns, results, log>> /\ draft' = draft
    BY <1>8 DEF ToolRun, KernelStops, StepAsks, ToolReturns, Allow, Deny, Withdraw, Ceiling,
                WorkDone, WorkCut, EndTool, ToolStep
  <2> QED BY <1>3, <2>1
<1>9. CASE BeginRound \/ BackoffOver
  <2>1. CASE cancelled
    <3>1. pc # "idle" /\ Fail("cancelled") /\ "cancelled" # "completed"
      BY <1>9, <2>1 DEF BeginRound, BackoffOver
    <3> QED BY <1>4, <3>1
  <2>2. CASE ~cancelled
    <3>1. /\ pc \in {"round", "backoff"} /\ pc' \in {"chat", "round"} /\ draft'.text = <<>>
          /\ log' = log /\ transcript' = transcript /\ turns' = turns
      <4>1. draft.text = <<>> \/ ~(pc = "backoff")
        BY DEF PaneInv
      <4> QED BY <1>9, <2>2, <4>1 DEF BeginRound, BackoffOver, NoDraft
    <3>2. /\ SaysUpTo(transcript, turns) /\ InOrder(ui, transcript, <<>>) /\ ui.open = 0
          /\ traces = 0 => Exactly(ui, transcript, turns, <<>>)
      BY <3>1 DEF PaneInv, ui
    <3>3. traces' = traces /\ Show(ui)
      <4>1. Applied(ui, NewEvents) = ui /\ pc' # "idle"
        BY <1>2, <3>1, NoneNew
      <4> QED BY <1>1, <4>1 DEF ListensTo
    <3>4. pc # "idle" /\ pc' # "idle" /\ pc' # "stream"
      BY <3>1
    <3> QED BY <1>2, <3>1, <3>2, <3>3, <3>4, PaneGoesOn
  <2> QED BY <2>1, <2>2
<1>10. CASE SkipCall
  <2>1. /\ pc = "answer" /\ pc' = "answer" /\ UNCHANGED <<transcript, turns, draft>>
        /\ Len(results) < Len(draft.calls) /\ log' = Append(log, ToolFailed(Asked))
    BY <1>10 DEF SkipCall, AnswerWith
  <2> QED BY <1>5, <1>6, <2>1
<1>11. CASE SettleCall
  <2>1. /\ pc = "tool" /\ pc' = "answer" /\ UNCHANGED <<transcript, turns, draft>>
        /\ log' = Append(log, ToolFailed(Asked)) \/ log' = Append(log, ToolResult(Asked))
    BY <1>11 DEF SettleCall, AnswerWith
  <2>2. Len(results) < Len(draft.calls)
    BY <2>1 DEF IInv, LoopInv
  <2> QED BY <1>5, <1>6, <2>1, <2>2
<1>12. CASE DispatchCall
  <2>1. /\ pc = "answer" /\ pc' = "tool" /\ UNCHANGED <<transcript, turns, draft>>
        /\ Len(results) < Len(draft.calls) /\ log' = Append(log, ToolCall(Asked))
    BY <1>12 DEF DispatchCall
  <2> QED BY <1>5, <1>6, <2>1
<1>13. CASE RejectCall
  <2> DEFINE a == ToolCall(Asked)
             c == ToolFailed(Asked)
             t == <<a, c>>
  <2>1. /\ pc = "answer" /\ pc' = "answer" /\ UNCHANGED <<transcript, turns, draft>>
        /\ Len(results) < Len(draft.calls) /\ log' = log \o t
    BY <1>13 DEF RejectCall
  <2>2. a \in Event /\ a.ev \in Quiet /\ c \in Event /\ c.ev \in Quiet
    BY <1>6, <2>1
  <2> HIDE DEF a, c
  <2>3. t \in Seq(Event) /\ t # <<>> /\ \A i \in 1..Len(t) : t[i].ev \in Quiet
    <3>1. t \in Seq(Event) /\ t # <<>> /\ Len(t) = 2 /\ t[1] = a /\ t[2] = c
      BY <2>2
    <3> HIDE DEF t
    <3>2. \A i \in 1..2 : i = 1 \/ i = 2
      OBVIOUS
    <3> QED BY <2>2, <3>1, <3>2
  <2> HIDE DEF t
  <2> QED BY <1>1, <2>1, <2>3, PaneQuiet
<1>14. CASE StoreRound
  BY <1>1, <1>14, PaneStores
<1>15. CASE ChatStepError \/ ChatContract \/ StreamContract \/ StreamOver
  <2>1. pc # "idle" /\ \E error : error # "completed" /\ Fail(error)
    BY <1>15 DEF ChatStepError, ChatContract, StreamContract, StreamOver
  <2> QED BY <1>4, <2>1
<1>16. CASE ChatMessage
  <2>1. PICK m \in Drafts, stop \in StopReason : Accept(m, stop)
    BY <1>16 DEF ChatMessage
  <2>2. pc = "chat" /\ ~Streaming /\ m \in C!AssistantMessage
    BY <1>16, DraftTypes DEF ChatMessage
  <2> QED BY <1>1, <2>1, <2>2, PaneAccepts
<1>17. CASE StreamEnd
  <2>1. PICK stop \in StopReason : Accept(draft, stop)
    BY <1>17 DEF StreamEnd
  <2>2. pc = "stream"
    BY <1>17 DEF StreamEnd
  <2> QED BY <1>1, <1>2, <2>1, <2>2, PaneAccepts
<1>18. CASE ChatFailed \/ StreamError
  <2>1. pc \in {"chat", "stream"} /\ \E retryable : Failed(retryable)
    BY <1>18 DEF ChatFailed, StreamError
  <2> QED BY <1>1, <2>1, PaneRetries
<1>19. CASE ChatStreamHandle
  <2>1. /\ pc = "chat" /\ Streaming /\ pc' = "stream" /\ log' = log /\ transcript' = transcript
        /\ draft' = draft /\ turns' = turns
    BY <1>19 DEF ChatStreamHandle
  <2>2. /\ SaysUpTo(transcript, turns) /\ InOrder(ui, transcript, <<>>) /\ ui.open = 0 /\ draft.text = <<>>
        /\ traces = 0 => Exactly(ui, transcript, turns, <<>>)
    BY <2>1 DEF PaneInv, ui
  <2>3. InOrderClosed(ui, transcript) /\ (traces = 0 => ExactlyClosed(ui, transcript, turns))
    BY <1>2, <2>2, NothingOpen
  <2>4. traces' = traces /\ Show(ui)
    <3>1. Applied(ui, NewEvents) = ui
      BY <1>2, <2>1, NoneNew
    <3> QED BY <1>1, <2>1, <3>1 DEF ListensTo
  <2> QED BY <1>2, <2>1, <2>2, <2>3, <2>4, PaneGoesOn
<1>20. CASE StreamText
  BY <1>1, <1>20, PaneReads
<1>21. CASE StreamBlock
  <2>1. draft'.text = draft.text
    <3>1. CASE \E c \in Call : draft' = [draft EXCEPT !.calls = Append(@, c)]
      <4> PICK c \in Call : draft' = [draft EXCEPT !.calls = Append(@, c)]
        BY <3>1
      <4> DEFINE longer == Append(draft.calls, c)
      <4>1. draft' = [draft EXCEPT !.calls = longer]
        OBVIOUS
      <4> HIDE DEF longer
      <4> QED BY <1>2, <4>1 DEF C!AssistantMessage
    <3>2. CASE draft' = [draft EXCEPT !.opaque = TRUE]
      BY <1>2, <3>2 DEF C!AssistantMessage
    <3> QED BY <1>21, <3>1, <3>2 DEF StreamBlock
  <2>2. pc # "idle" /\ UNCHANGED <<transcript, pc, turns, results, log>>
    BY <1>21 DEF StreamBlock
  <2> QED BY <1>3, <2>1, <2>2
<1> QED
  BY <1>1, <1>7, <1>8, <1>9, <1>10, <1>11, <1>12, <1>13, <1>14, <1>15, <1>16, <1>17, <1>18, <1>19,
     <1>20, <1>21 DEF Loop, Provider

LEMMA PaneStep == IInv /\ PaneInv /\ [PaneNext]_<<vars, pane>> => PaneInv'
<1> SUFFICES ASSUME IInv, PaneInv, [PaneNext]_<<vars, pane>> PROVE PaneInv'
  OBVIOUS
<1>1. CASE UNCHANGED <<vars, pane>>
  <2>1. /\ transcript' = transcript /\ pc' = pc /\ turns' = turns /\ results' = results
        /\ draft' = draft /\ outcome' = outcome /\ traces' = traces /\ open' = open /\ ui' = ui
    BY <1>1 DEF vars, pane, ui
  <2> QED BY <2>1 DEF PaneInv
<1> QED
  BY <1>1, PaneSubmits, PaneListens, PaneInterjects DEF PaneNext

LEMMA PaneNextIsNext == [PaneNext]_<<vars, pane>> => [Next]_vars
BY DEF PaneNext, Submit, Listen, Interject, Next

-----------------------------------------------------------------------------
(* What the invariant says of the pane. *)

LEMMA OneUserEntry ==
  ASSUME ui \in Panes, NEW k, UserAt(entries, k)
  PROVE  LastUser = k
<1>1. Len(entries) \in Nat
  <2>1. ui.entries = entries
    BY DEF ui
  <2> QED BY <2>1, PaneShape
<1> DEFINE P(j) == j \in 1..Len(entries) /\ entries[j].kind = "User"
                   /\ \A i \in (j + 1)..Len(entries) : entries[i].kind # "User"
<1>2. P(k)
  BY DEF UserAt
<1>3. ASSUME NEW j, P(j)
      PROVE  j = k
  <2>1. j \in 1..Len(entries) /\ k \in 1..Len(entries)
    BY <1>2, <1>3
  <2>2. ~(k < j)
    <3>1. k < j => j \in (k + 1)..Len(entries)
      BY <1>1, <2>1
    <3> QED BY <1>2, <1>3, <3>1
  <2>3. ~(j < k)
    <3>1. j < k => k \in (j + 1)..Len(entries)
      BY <1>1, <2>1
    <3> QED BY <1>2, <1>3, <3>1
  <2> QED BY <1>1, <2>1, <2>2, <2>3
<1>4. LastUser = CHOOSE j : P(j)
  BY DEF LastUser
<1> HIDE DEF P
<1> QED BY <1>2, <1>3, <1>4

LEMMA OneUserMessage ==
  ASSUME NEW s, TurnAt(transcript, s, turns)
  PROVE  TurnText = TextSince(transcript, s)
<1> DEFINE P(i) == i \in 1..Len(transcript) /\ Says(transcript[i], turns)
           since == CHOOSE i \in 1..Len(transcript) :
                      /\ transcript[i].role = "user"
                      /\ \E k \in 1..Len(transcript[i].text) : transcript[i].text[k] = turns
<1>1. P(s) /\ \A i : P(i) => i = s
  BY DEF TurnAt
<1>2. since = CHOOSE i : P(i)
  BY DEF Says
<1> HIDE DEF P
<1>3. since = s
  BY <1>1, <1>2
<1> HIDE DEF since
<1>4. TurnText = TextSince(transcript, since)
  BY DEF TurnText, TextSince, OwnText, since
<1> QED BY <1>3, <1>4

LEMMA PaneIsShown ==
  ASSUME IInv, PaneInv
  PROVE  TranscriptIsShown
<1>1. ui.entries = entries /\ ui \in Panes
  BY DEF ui, PaneInv
<1>2. \A k : AssistantTextSince(k) = AllText(ui, k)
  BY <1>1 DEF AssistantTextSince, AllText, Joined
<1>3. IsWithin(StoredText \o draft.text, AssistantTextSince(1))
  <2>1. AssistantTextSince(1) = AllText(ui, 1)
    BY <1>2
  <2> QED BY <2>1 DEF PaneInv, InOrder, StoredText
<1>4. ASSUME traces = 0, pc = "idle", outcome = "completed"
      PROVE  AssistantTextSince(LastUser) = TurnText
  <2>1. Exactly(ui, transcript, turns, <<>>)
    BY <1>4 DEF PaneInv
  <2>2. PICK k \in 1..Len(ui.entries), s \in 1..Len(transcript) :
          /\ UserAt(ui.entries, k) /\ TurnAt(transcript, s, turns)
          /\ AllText(ui, k) = TextSince(transcript, s) \o <<>>
    BY <2>1 DEF Exactly
  <2>3. LastUser = k
    BY <1>1, <2>2, OneUserEntry
  <2>4. TurnText = TextSince(transcript, s)
    BY <2>2, OneUserMessage
  <2>5. TextSince(transcript, s) \o <<>> = TextSince(transcript, s)
    BY PaneTypes, NothingAdded
  <2> QED BY <1>2, <2>2, <2>3, <2>4, <2>5
<1> QED BY <1>3, <1>4 DEF TranscriptIsShown, PaneIsTranscript

(* All text the model was recorded with is on the terminal's pane in its   *)
(* order, whoever else writes there; and with nobody else writing, what    *)
(* the pane shows of a completed turn is the turn's answer, once, whatever *)
(* was retried on the way (ui.rs, Ui::apply and Ui::push).                 *)
THEOREM PaneAlwaysShows == PaneSpec => []TranscriptIsShown
<1>1. PaneInit => Init
  BY DEF PaneInit
<1>2. PaneInit => PaneInv
  <2> SUFFICES ASSUME PaneInit PROVE PaneInv
    OBVIOUS
  <2>1. /\ transcript = <<>> /\ pc = "idle" /\ turns = 0 /\ draft.text = <<>> /\ outcome = "none"
        /\ entries = <<>> /\ open = 0 /\ traces = 0
    BY DEF PaneInit, Init, NoDraft
  <2>2. ui \in Panes
    <3>1. ui = [entries |-> <<>>, open |-> 0] /\ <<>> \in Seq(Entry)
      BY <2>1 DEF ui
    <3> QED BY <3>1 DEF Panes
  <2>3. SaysUpTo(transcript, turns)
    BY <2>1 DEF SaysUpTo
  <2>4. InOrder(ui, transcript, <<>>)
    <3>1. TextIn(transcript) \o <<>> = <<>>
      BY <2>1, NothingHeld
    <3>2. AllText(ui, 1) \in Seq(Chunk)
      BY <2>2, CoversAll, TextOfPane
    <3> QED BY <3>1, <3>2, NothingWithin DEF InOrder
  <2> QED BY <2>1, <2>2, <2>3, <2>4 DEF PaneInv
<1> QED
  BY <1>1, <1>2, InitInv, NextInv, PaneNextIsNext, PaneStep, PaneIsShown, PTL DEF PaneSpec
=============================================================================
