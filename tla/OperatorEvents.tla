--------------------------- MODULE OperatorEvents ---------------------------
(***************************************************************************)
(* What a frontend may rely on in the events the loop emits (the contract  *)
(* operator.rs states on Event), as invariants over AgentLoop's log.       *)
(***************************************************************************)
EXTENDS AgentLoop, SequencesExt, FiniteSets

(* Every step of the loop hands the events it emits to the frontend. *)
NewEvents == SubSeq(log', Len(log) + 1, Len(log'))

IsAnswer(e) == e.ev \in {"ToolResult", "ToolFailed"}

(* What a list of messages holds: the results, and the model's text. *)
ResultsIn(msgs) ==
  FlattenSeq([i \in 1..Len(msgs) |->
                IF msgs[i].role = "user" THEN msgs[i].results ELSE <<>>])

TextIn(msgs) ==
  FlattenSeq([i \in 1..Len(msgs) |->
                IF msgs[i].role = "assistant" THEN msgs[i].text ELSE <<>>])

StoredResults == ResultsIn(transcript)
StoredText == TextIn(transcript)

(* Which answer an event is. *)
Ordinal(events, i) == Cardinality({j \in 1..i : IsAnswer(events[j])})

WasAnnounced(events, i) == i > 1 /\ events[i - 1].ev = "ToolCall"

(* The answers among the events are the results, one by one. *)
Tells(events, rs) ==
  /\ Ordinal(events, Len(events)) = Len(rs)
  /\ \A i \in 1..Len(events) : IsAnswer(events[i]) =>
       LET r == rs[Ordinal(events, i)]
       IN  /\ events[i].id = r.id
           /\ events[i].ev = "ToolResult" <=> r.how = "answered"
           /\ r.ran > 0 => WasAnnounced(events, i)
           /\ r.how = "refused" => ~WasAnnounced(events, i)

(***************************************************************************)
(* The frontend hears of every result the model gets, once, in the same    *)
(* order, and as what it was: the answers in the log are the results of    *)
(* the transcript followed by those of the round being answered.  And a    *)
(* tool never acts unannounced: an answer to a call that ran is preceded   *)
(* by its ToolCall, and a call answered as refused never had one.          *)
(***************************************************************************)
AnswersShown == Tells(log, StoredResults \o results)
=============================================================================
