---------------------------- MODULE Conversation ----------------------------
(***************************************************************************)
(* What the agent loop promises about the conversation it keeps, and       *)
(* nothing of how it keeps it: a list of messages that changes in three    *)
(* ways only, each of them whole.                                          *)
(*                                                                         *)
(*   Say       the user's text arrives, as a message of its own after an   *)
(*             assistant message and inside the last message otherwise;    *)
(*   Reply     the assistant answers without asking for a tool;            *)
(*   Exchange  the assistant asks for tools, and its message enters the    *)
(*             conversation together with one result per call, in the      *)
(*             order of the calls.                                         *)
(*                                                                         *)
(* AgentLoop implements this specification (AgentLoop!Implements), checked *)
(* by TLC and proved in AgentLoopProofs.                                   *)
(***************************************************************************)
EXTENDS Naturals, Sequences

CONSTANTS
  Turn,    \* numbers of the user's turns
  Chunk,   \* pieces of model text
  Call     \* identifiers a model may give to a tool call

VARIABLE conversation

(***************************************************************************)
(* A message is kept to what the properties tell apart: a user message has *)
(* tool results, which come before its texts, and the numbers of the turns *)
(* whose text it holds; an assistant message has its text, its calls in    *)
(* order, and whether it holds a block the loop does not read.             *)
(***************************************************************************)
(* How a call was answered: by the tool, with the reason it could not       *)
(* answer, as refused, or as cut off before or after it started; and, for  *)
(* the properties only, how many of its host steps had been let run.       *)
How == {"answered", "failed", "refused", "before_start", "while_running"}

Result == [id: Call, how: How, ran: Nat]

UserMessage == [role: {"user"}, results: Seq(Result), text: Seq(Turn)]

AssistantMessage ==
  [role: {"assistant"}, text: Seq(Chunk), opaque: BOOLEAN, calls: Seq(Call)]

Message == UserMessage \cup AssistantMessage

Last(msgs) == msgs[Len(msgs)]

EndsInUser(msgs) == msgs # <<>> /\ Last(msgs).role = "user"

IsEmpty(m) == m.text = <<>> /\ ~m.opaque /\ m.calls = <<>>

(* rs answers cs: one result per call, in the order of the calls. *)
Answers(rs, cs) ==
  /\ Len(rs) = Len(cs)
  /\ \A k \in 1..Len(cs) : rs[k].id = cs[k]

(* The list with the text of turn n added at its end. *)
Joined(m, n) == [m EXCEPT !.text = Append(m.text, n)]

WithUserText(msgs, n) ==
  IF EndsInUser(msgs)
  THEN [msgs EXCEPT ![Len(msgs)] = Joined(Last(msgs), n)]
  ELSE Append(msgs, [role |-> "user", results |-> <<>>, text |-> <<n>>])

(***************************************************************************)
(* A conversation a provider can be handed: it begins with the user, the   *)
(* roles alternate, no assistant message is empty, and every call is       *)
(* answered, in order, in the message right after it, which holds no other *)
(* result.                                                                 *)
(***************************************************************************)
BeginsWithUser(msgs) ==
  msgs # <<>> => msgs[1].role = "user" /\ msgs[1].results = <<>>

Alternates(msgs) ==
  \A i \in 1..(Len(msgs) - 1) : msgs[i].role # msgs[i + 1].role

CallsAnswered(msgs) ==
  \A i \in 1..Len(msgs) :
    msgs[i].role = "assistant" =>
      /\ ~IsEmpty(msgs[i])
      /\ msgs[i].calls # <<>> => i < Len(msgs)
      /\ i < Len(msgs) => Answers(msgs[i + 1].results, msgs[i].calls)

IsReplayable(msgs) ==
  /\ BeginsWithUser(msgs)
  /\ Alternates(msgs)
  /\ CallsAnswered(msgs)

-----------------------------------------------------------------------------
TypeOK == conversation \in Seq(Message)

Init == conversation = <<>>

Say == \E n \in Turn : conversation' = WithUserText(conversation, n)

Reply ==
  LET m == Last(conversation')
  IN /\ EndsInUser(conversation)
     /\ conversation' = Append(conversation, m)
     /\ m \in AssistantMessage
     /\ m.calls = <<>>
     /\ ~IsEmpty(m)

Exchange ==
  LET m == conversation'[Len(conversation) + 1]
      u == conversation'[Len(conversation) + 2]
  IN /\ EndsInUser(conversation)
     /\ Len(conversation') = Len(conversation) + 2
     /\ conversation' = conversation \o <<m, u>>
     /\ m \in AssistantMessage /\ m.calls # <<>>
     /\ u \in UserMessage /\ u.text = <<>>
     /\ Answers(u.results, m.calls)

Next == Say \/ Reply \/ Exchange

Spec == Init /\ [][Next]_conversation

(* Whatever is said, replied and exchanged, the conversation can be replayed. *)
Replayable == IsReplayable(conversation)
=============================================================================
