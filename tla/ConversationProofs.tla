------------------------- MODULE ConversationProofs -------------------------
(***************************************************************************)
(* Every conversation the abstract specification allows can be replayed.   *)
(***************************************************************************)
EXTENDS Conversation, TLAPS

(* Adding the user's text keeps a conversation well typed and changes      *)
(* nothing of it but a text at its end.                                    *)
LEMMA WithUserTextProperties ==
  ASSUME NEW msgs \in Seq(Message), NEW n \in Turn
  PROVE  /\ WithUserText(msgs, n) \in Seq(Message)
         /\ EndsInUser(WithUserText(msgs, n))
         /\ EndsInUser(msgs) =>
              /\ Len(WithUserText(msgs, n)) = Len(msgs)
              /\ \A i \in 1..(Len(msgs) - 1) : WithUserText(msgs, n)[i] = msgs[i]
              /\ WithUserText(msgs, n)[Len(msgs)].results = msgs[Len(msgs)].results
              /\ WithUserText(msgs, n)[Len(msgs)].text # <<>>
         /\ ~EndsInUser(msgs) =>
              WithUserText(msgs, n)
                = Append(msgs, [role |-> "user", results |-> <<>>, text |-> <<n>>])
<1>1. CASE EndsInUser(msgs)
  <2> DEFINE l == Len(msgs)
             u == Joined(msgs[l], n)
  <2>1. l \in 1..l /\ msgs[l] \in Message /\ msgs[l].role = "user"
    BY <1>1 DEF EndsInUser, Last
  <2>2. msgs[l] \in UserMessage
    BY <2>1 DEF Message, UserMessage, AssistantMessage
  <2>3. u \in UserMessage /\ u.results = msgs[l].results /\ u.text # <<>> /\ u.role = "user"
    <3> DEFINE t == Append(msgs[l].text, n)
    <3>1. msgs[l].text \in Seq(Turn)
      BY <2>2 DEF UserMessage
    <3>2. t \in Seq(Turn) /\ t # <<>>
      BY <3>1
    <3>3. u = [msgs[l] EXCEPT !.text = t]
      BY DEF Joined
    <3> HIDE DEF t, u
    <3> QED
      BY <2>2, <3>2, <3>3 DEF UserMessage
  <2>4. WithUserText(msgs, n) = [msgs EXCEPT ![l] = u]
    BY <1>1 DEF WithUserText, Last
  <2>5. u \in Message
    BY <2>3 DEF Message
  <2> HIDE DEF u
  <2>6. [msgs EXCEPT ![l] = u] \in Seq(Message) /\ Len([msgs EXCEPT ![l] = u]) = l
    BY <2>1, <2>5
  <2>7. [msgs EXCEPT ![l] = u][l] = u /\ \A i \in 1..(l - 1) : [msgs EXCEPT ![l] = u][i] = msgs[i]
    BY <2>1, <2>5
  <2>8. [msgs EXCEPT ![l] = u] # <<>>
    BY <2>1, <2>6
  <2> QED
    BY <1>1, <2>3, <2>4, <2>6, <2>7, <2>8 DEF EndsInUser, Last
<1>2. CASE ~EndsInUser(msgs)
  <2> DEFINE u == [role |-> "user", results |-> <<>>, text |-> <<n>>]
  <2>1. u \in Message /\ u.role = "user"
    BY DEF Message, UserMessage
  <2>2. WithUserText(msgs, n) = Append(msgs, u)
    BY <1>2 DEF WithUserText
  <2> HIDE DEF u
  <2>3. /\ Append(msgs, u) \in Seq(Message)
        /\ Len(Append(msgs, u)) = Len(msgs) + 1
        /\ Append(msgs, u)[Len(msgs) + 1] = u
    BY <2>1
  <2>4. Append(msgs, u) # <<>>
    BY <2>3
  <2>5. EndsInUser(Append(msgs, u))
    BY <2>1, <2>3, <2>4 DEF EndsInUser, Last
  <2> QED
    BY <1>2, <2>2, <2>3, <2>5 DEF u
<1> QED
  BY <1>1, <1>2

(* The user's text keeps a conversation replayable: it never separates a   *)
(* call from its answer.                                                   *)
LEMMA WithUserTextReplayable ==
  ASSUME NEW msgs \in Seq(Message), NEW n \in Turn, IsReplayable(msgs)
  PROVE  IsReplayable(WithUserText(msgs, n))
<1> DEFINE new == WithUserText(msgs, n)
<1> USE WithUserTextProperties
<1>1. CASE EndsInUser(msgs)
  <2>1. /\ Len(new) = Len(msgs) /\ Len(msgs) \in Nat /\ Len(msgs) > 0
        /\ \A i \in 1..(Len(msgs) - 1) : new[i] = msgs[i]
        /\ new[Len(msgs)].results = msgs[Len(msgs)].results
        /\ new[Len(msgs)].role = "user" /\ msgs[Len(msgs)].role = "user"
    <3>1. msgs # <<>> /\ msgs[Len(msgs)].role = "user" /\ Len(msgs) \in Nat /\ Len(msgs) > 0
      BY <1>1 DEF EndsInUser, Last
    <3>2. EndsInUser(new) /\ Len(new) = Len(msgs)
      BY <1>1
    <3>3. new[Len(msgs)].role = "user"
      BY <3>2 DEF EndsInUser, Last
    <3>4. /\ \A i \in 1..(Len(msgs) - 1) : new[i] = msgs[i]
          /\ new[Len(msgs)].results = msgs[Len(msgs)].results
      BY <1>1
    <3> QED
      BY <3>1, <3>2, <3>3, <3>4
  <2> HIDE DEF new
  <2>2. \A i \in 1..Len(msgs) : new[i].role = msgs[i].role
    BY <2>1
  <2>3. \A i \in 1..Len(msgs) : msgs[i].role = "user" => new[i].results = msgs[i].results
    BY <2>1
  <2>4. \A i \in 1..Len(msgs) : msgs[i].role = "assistant" => new[i] = msgs[i]
    BY <2>1
  <2>5. \A i \in 1..Len(msgs) : msgs[i].role \in {"user", "assistant"}
    BY DEF Message, UserMessage, AssistantMessage
  <2>6. BeginsWithUser(new)
    BY <2>1, <2>2, <2>3 DEF BeginsWithUser, IsReplayable
  <2>7. Alternates(new)
    <3> SUFFICES ASSUME NEW i \in 1..(Len(msgs) - 1)
                 PROVE  new[i].role # new[i + 1].role
      BY <2>1 DEF Alternates
    <3>1. i \in 1..Len(msgs) /\ i + 1 \in 1..Len(msgs)
      BY <2>1
    <3>2. msgs[i].role # msgs[i + 1].role
      BY DEF Alternates, IsReplayable
    <3> QED
      BY <3>1, <3>2, <2>2
  <2>8. CallsAnswered(new)
    <3> SUFFICES ASSUME NEW i \in 1..Len(msgs), new[i].role = "assistant"
                 PROVE  /\ ~IsEmpty(new[i])
                        /\ new[i].calls # <<>> => i < Len(new)
                        /\ i < Len(new) => Answers(new[i + 1].results, new[i].calls)
      BY <2>1 DEF CallsAnswered
    <3>1. msgs[i].role = "assistant" /\ new[i] = msgs[i]
      BY <2>2, <2>4
    <3>2. /\ ~IsEmpty(msgs[i])
          /\ msgs[i].calls # <<>> => i < Len(msgs)
          /\ i < Len(msgs) => Answers(msgs[i + 1].results, msgs[i].calls)
      BY <3>1 DEF IsReplayable, CallsAnswered
    <3>3. i < Len(msgs) => msgs[i + 1].role = "user"
      BY <3>1, <2>5, <2>1 DEF IsReplayable, Alternates
    <3>4. i < Len(msgs) => new[i + 1].results = msgs[i + 1].results
      BY <3>3, <2>3, <2>1
    <3> QED
      BY <3>1, <3>2, <3>4, <2>1
  <2> QED
    BY <2>6, <2>7, <2>8 DEF IsReplayable, new
<1>2. CASE ~EndsInUser(msgs)
  <2> DEFINE u == [role |-> "user", results |-> <<>>, text |-> <<n>>]
  <2>1. new = Append(msgs, u) /\ u.role = "user" /\ u.results = <<>>
    BY <1>2
  <2> HIDE DEF new, u
  <2>2. /\ Len(new) = Len(msgs) + 1 /\ Len(msgs) \in Nat
        /\ new[Len(msgs) + 1] = u
        /\ \A i \in 1..Len(msgs) : new[i] = msgs[i]
    BY <2>1
  <2>3. msgs # <<>> => msgs[Len(msgs)].role = "assistant"
    BY <1>2 DEF EndsInUser, Last, Message, UserMessage, AssistantMessage
  <2>4. BeginsWithUser(new)
    BY <2>1, <2>2 DEF BeginsWithUser, IsReplayable
  <2>5. Alternates(new)
    <3> SUFFICES ASSUME NEW i \in 1..Len(msgs)
                 PROVE  new[i].role # new[i + 1].role
      BY <2>2 DEF Alternates
    <3>1. CASE i < Len(msgs)
      <4>1. i \in 1..(Len(msgs) - 1) /\ i + 1 \in 1..Len(msgs)
        BY <3>1, <2>2
      <4>2. msgs[i].role # msgs[i + 1].role
        BY <4>1 DEF Alternates, IsReplayable
      <4> QED
        BY <4>1, <4>2, <2>2
    <3>2. CASE i = Len(msgs)
      BY <3>2, <2>1, <2>2, <2>3
    <3> QED
      BY <3>1, <3>2, <2>2
  <2>6. CallsAnswered(new)
    <3> SUFFICES ASSUME NEW i \in 1..Len(msgs), msgs[i].role = "assistant"
                 PROVE  ~IsEmpty(msgs[i]) /\ Answers(new[i + 1].results, msgs[i].calls)
      BY <2>1, <2>2 DEF CallsAnswered
    <3>1. /\ ~IsEmpty(msgs[i])
          /\ msgs[i].calls # <<>> => i < Len(msgs)
          /\ i < Len(msgs) => Answers(msgs[i + 1].results, msgs[i].calls)
      BY DEF IsReplayable, CallsAnswered
    <3>2. CASE i < Len(msgs)
      BY <3>1, <3>2, <2>2
    <3>3. CASE i = Len(msgs)
      BY <3>1, <3>3, <2>1, <2>2 DEF Answers
    <3> QED
      BY <3>1, <3>2, <3>3, <2>2
  <2> QED
    BY <2>4, <2>5, <2>6 DEF IsReplayable, new
<1> QED
  BY <1>1, <1>2

(* The roles alternate and no call waits once a reply without calls is in. *)
LEMMA ReplyReplayable ==
  ASSUME NEW msgs \in Seq(Message), NEW m \in AssistantMessage,
         IsReplayable(msgs), EndsInUser(msgs), m.calls = <<>>, ~IsEmpty(m)
  PROVE  IsReplayable(Append(msgs, m))
<1> DEFINE new == Append(msgs, m)
<1>1. /\ Len(new) = Len(msgs) + 1 /\ Len(msgs) \in Nat /\ Len(msgs) > 0
      /\ new[Len(msgs) + 1] = m
      /\ \A i \in 1..Len(msgs) : new[i] = msgs[i]
      /\ m.role = "assistant" /\ msgs[Len(msgs)].role = "user"
  BY DEF EndsInUser, Last, AssistantMessage
<1> HIDE DEF new
<1>2. BeginsWithUser(new)
  BY <1>1 DEF BeginsWithUser, IsReplayable
<1>3. Alternates(new)
  <2> SUFFICES ASSUME NEW i \in 1..Len(msgs)
               PROVE  new[i].role # new[i + 1].role
    BY <1>1 DEF Alternates
  <2>1. CASE i < Len(msgs)
    <3>1. i \in 1..(Len(msgs) - 1) /\ i + 1 \in 1..Len(msgs)
      BY <2>1, <1>1
    <3>2. msgs[i].role # msgs[i + 1].role
      BY <3>1 DEF Alternates, IsReplayable
    <3> QED
      BY <3>1, <3>2, <1>1
  <2>2. CASE i = Len(msgs)
    BY <2>2, <1>1
  <2> QED
    BY <2>1, <2>2, <1>1
<1>4. CallsAnswered(new)
  <2> SUFFICES ASSUME NEW i \in 1..Len(new), new[i].role = "assistant"
               PROVE  /\ ~IsEmpty(new[i])
                      /\ new[i].calls # <<>> => i < Len(new)
                      /\ i < Len(new) => Answers(new[i + 1].results, new[i].calls)
    BY DEF CallsAnswered
  <2>1. CASE i = Len(new)
    BY <2>1, <1>1
  <2>2. CASE i < Len(new)
    <3>1. i \in 1..Len(msgs) /\ msgs[i].role = "assistant" /\ new[i] = msgs[i] /\ i # Len(msgs)
      BY <2>2, <1>1
    <3>2. i + 1 \in 1..Len(msgs) /\ new[i + 1] = msgs[i + 1]
      BY <3>1, <1>1
    <3> QED
      BY <3>1, <3>2, <1>1 DEF IsReplayable, CallsAnswered
  <2> QED
    BY <2>1, <2>2, <1>1
<1> QED
  BY <1>2, <1>3, <1>4 DEF IsReplayable, new

(* An exchange is stored with its answers, so it leaves no call waiting. *)
LEMMA ExchangeReplayable ==
  ASSUME NEW msgs \in Seq(Message), NEW m \in AssistantMessage, NEW u \in UserMessage,
         IsReplayable(msgs), EndsInUser(msgs), m.calls # <<>>,
         Answers(u.results, m.calls)
  PROVE  IsReplayable(msgs \o <<m, u>>)
<1> DEFINE new == msgs \o <<m, u>>
<1>1. /\ Len(new) = Len(msgs) + 2 /\ Len(msgs) \in Nat /\ Len(msgs) > 0
      /\ new[Len(msgs) + 1] = m /\ new[Len(msgs) + 2] = u
      /\ \A i \in 1..Len(msgs) : new[i] = msgs[i]
  BY DEF EndsInUser
<1>2. m.role = "assistant" /\ u.role = "user" /\ msgs[Len(msgs)].role = "user"
  BY DEF EndsInUser, Last, AssistantMessage, UserMessage
<1> HIDE DEF new
<1>3. BeginsWithUser(new)
  BY <1>1 DEF BeginsWithUser, IsReplayable
<1>4. Alternates(new)
  <2> SUFFICES ASSUME NEW i \in 1..(Len(msgs) + 1)
               PROVE  new[i].role # new[i + 1].role
    BY <1>1 DEF Alternates
  <2>1. CASE i < Len(msgs)
    <3>1. i \in 1..(Len(msgs) - 1) /\ i \in 1..Len(msgs) /\ i + 1 \in 1..Len(msgs)
      BY <2>1, <1>1
    <3>2. msgs[i].role # msgs[i + 1].role
      BY <3>1 DEF Alternates, IsReplayable
    <3> QED
      BY <3>1, <3>2, <1>1
  <2>2. CASE i = Len(msgs)
    BY <2>2, <1>1, <1>2
  <2>3. CASE i = Len(msgs) + 1
    BY <2>3, <1>1, <1>2
  <2> QED
    BY <2>1, <2>2, <2>3, <1>1
<1>5. CallsAnswered(new)
  <2> SUFFICES ASSUME NEW i \in 1..Len(new), new[i].role = "assistant"
               PROVE  /\ ~IsEmpty(new[i])
                      /\ new[i].calls # <<>> => i < Len(new)
                      /\ i < Len(new) => Answers(new[i + 1].results, new[i].calls)
    BY DEF CallsAnswered
  <2>1. CASE i = Len(msgs) + 1
    BY <2>1, <1>1, <1>2 DEF IsEmpty
  <2>2. CASE i < Len(msgs)
    <3>1. new[i] = msgs[i] /\ new[i + 1] = msgs[i + 1] /\ i \in 1..Len(msgs)
      BY <2>2, <1>1
    <3> QED
      BY <2>2, <3>1, <1>1 DEF IsReplayable, CallsAnswered
  <2>3. i # Len(msgs) /\ i # Len(msgs) + 2
    BY <1>1, <1>2
  <2> QED
    BY <2>1, <2>2, <2>3, <1>1
<1> QED
  BY <1>3, <1>4, <1>5 DEF IsReplayable, new

(* In every conversation the specification allows the messages have their  *)
(* types and the whole can be replayed to the provider.                    *)
THEOREM AlwaysReplayable == Spec => [](TypeOK /\ Replayable)
<1>1. Init => TypeOK /\ Replayable
  BY DEF Init, TypeOK, Replayable, IsReplayable, BeginsWithUser, Alternates, CallsAnswered
<1>2. TypeOK /\ Replayable /\ [Next]_conversation => (TypeOK /\ Replayable)'
  <2> SUFFICES ASSUME TypeOK, Replayable, [Next]_conversation
               PROVE  TypeOK' /\ Replayable'
    OBVIOUS
  <2> USE DEF TypeOK, Replayable
  <2>1. CASE Say
    BY <2>1, WithUserTextProperties, WithUserTextReplayable DEF Say
  <2>2. CASE Reply
    <3> DEFINE m == Last(conversation')
    <3>1. /\ m \in AssistantMessage /\ m.calls = <<>> /\ ~IsEmpty(m)
          /\ EndsInUser(conversation) /\ conversation' = Append(conversation, m)
      BY <2>2 DEF Reply
    <3> HIDE DEF m
    <3>2. m \in Message
      BY <3>1 DEF Message
    <3>3. conversation' \in Seq(Message)
      BY <3>1, <3>2
    <3> QED
      BY <3>1, <3>3, ReplyReplayable
  <2>3. CASE Exchange
    <3> DEFINE m == conversation'[Len(conversation) + 1]
               u == conversation'[Len(conversation) + 2]
    <3>1. /\ m \in AssistantMessage /\ m.calls # <<>>
          /\ u \in UserMessage /\ Answers(u.results, m.calls)
          /\ EndsInUser(conversation) /\ conversation' = conversation \o <<m, u>>
      BY <2>3 DEF Exchange
    <3> HIDE DEF m, u
    <3>2. m \in Message /\ u \in Message
      BY <3>1 DEF Message
    <3>3. conversation' \in Seq(Message)
      BY <3>1, <3>2
    <3> QED
      BY <3>1, <3>3, ExchangeReplayable
  <2>4. CASE UNCHANGED conversation
    BY <2>4
  <2> QED
    BY <2>1, <2>2, <2>3, <2>4 DEF Next
<1> QED
  BY <1>1, <1>2, PTL DEF Spec
=============================================================================
