--------------------------- MODULE InteractivePane ---------------------------
(***************************************************************************)
(* The terminal frontend's transcript pane (gwennol-cli/src/tui/ui.rs),    *)
(* listening to the loop.  Unlike print mode it shows text as it comes,    *)
(* and takes the text of a failed attempt back when the retry is           *)
(* announced.  Beside the loop's events it holds the lines drive() writes  *)
(* around a turn, and trace lines others write at any time: /help, an      *)
(* approval's decision, an input-read error.                               *)
(*                                                                         *)
(* An entry is kept to its kind and, an assistant entry, its text.  The    *)
(* status line, scrolling, focus and expansion are left out.               *)
(***************************************************************************)
EXTENDS OperatorEvents

CONSTANT MaxTraces   \* bound: trace lines written from outside the loop

ASSUME MaxTraces \in Nat

VARIABLES
  entries,     \* Ui::entries
  open,        \* Ui::open, 0 for None
  traces       \* how many lines were written from outside the loop

ui == [entries |-> entries, open |-> open]

pane == <<entries, open, traces>>

Assistant(text) == [kind |-> "Assistant", text |-> text]

EntryKind == {"User", "ToolCall", "ToolResult", "Trace", "Outcome"}
Other(kind) == [kind |-> kind, text |-> <<>>]

(* Mutant: a pushed entry leaves the open one open. *)
Push_KeepsOpen(u, entry) ==
  [entries |-> Append(u.entries, entry),
   open |-> IF entry.kind = "Assistant" THEN Len(u.entries) + 1 ELSE u.open]

(* Ui::push *)
Push(u, entry) ==
  [entries |-> Append(u.entries, entry),
   open |-> IF entry.kind = "Assistant" THEN Len(u.entries) + 1 ELSE 0]

ApplyText(u, c) ==
  IF u.open # 0
  THEN [u EXCEPT !.entries[u.open].text = Append(u.entries[u.open].text, c)]
  ELSE Push(u, Assistant(<<c>>))

(* The open entry, the failed attempt's text, gives way to the line. *)
ApplyRetry(u) ==
  IF u.open # 0
  THEN [entries |-> [u.entries EXCEPT ![u.open] = Other("Trace")], open |-> 0]
  ELSE Push(u, Other("Trace"))

(* Ui::apply *)
Apply(u, e) ==
  CASE e.ev = "Text"         -> ApplyText(u, e.chunk)
    [] e.ev = "ToolCall"     -> Push(u, Other("ToolCall"))
    [] e.ev = "ToolResult"   -> Push(u, Other("ToolResult"))
    [] e.ev = "ToolFailed"   -> Push(u, Other("Trace"))
    [] e.ev = "Retry"        -> ApplyRetry(u)
    [] e.ev = "TurnComplete" -> [u EXCEPT !.open = 0]

(* The pane after some events. *)
Applied(u, events) ==
  LET after[n \in 0..Len(events)] == IF n = 0 THEN u ELSE Apply(after[n - 1], events[n])
  IN  after[Len(events)]

Show(u) == entries' = u.entries /\ open' = u.open

PaneInit == Init /\ entries = <<>> /\ open = 0 /\ traces = 0

(* drive: the submitted text is shown before the turn is polled. *)
Submit ==
  /\ StartTurn
  /\ Show(Push(ui, Other("User")))
  /\ UNCHANGED traces

(* A step of the running turn; when it returns, drive shows the outcome. *)
Listen ==
  /\ Cancel \/ Loop \/ Provider \/ ToolRun
  /\ LET heard == Applied(ui, NewEvents)
     IN Show(IF pc' = "idle" THEN Push(heard, Other("Outcome")) ELSE heard)
  /\ UNCHANGED traces

(* Somebody else writes a line. *)
Interject ==
  /\ traces < MaxTraces
  /\ traces' = traces + 1
  /\ Show(Push(ui, Other("Trace")))
  /\ UNCHANGED vars

PaneNext == Submit \/ Listen \/ Interject

PaneSpec == PaneInit /\ [][PaneNext]_<<vars, pane>>

-----------------------------------------------------------------------------
(* Ui::assistant_text_since *)
AssistantTextSince(index) ==
  FlattenSeq([k \in 1..(Len(entries) - index + 1) |-> entries[index + k - 1].text])

(* The entry of the user's message of the last turn. *)
LastUser == CHOOSE k \in 1..Len(entries) :
              /\ entries[k].kind = "User"
              /\ \A j \in (k + 1)..Len(entries) : entries[j].kind # "User"

(* The transcript's assistant text since that message. *)
TurnText ==
  LET since == CHOOSE i \in 1..Len(transcript) :
                 /\ transcript[i].role = "user"
                 /\ \E k \in 1..Len(transcript[i].text) : transcript[i].text[k] = turns
  IN FlattenSeq([k \in 1..(Len(transcript) - since) |->
                   IF transcript[since + k].role = "assistant"
                   THEN transcript[since + k].text ELSE <<>>])

(***************************************************************************)
(* "What the transcript's assistant messages since a turn's User entry     *)
(* should equal, for a completed turn" (Ui::assistant_text_since): whatever*)
(* was retried on the way, the pane shows the answer the model was         *)
(* recorded with, once.                                                    *)
(***************************************************************************)
PaneIsTranscript ==
  pc = "idle" /\ outcome = "completed" => AssistantTextSince(LastUser) = TurnText

(* xs can be had from ys by leaving elements out. *)
IsWithin(xs, ys) ==
  \E at \in [1..Len(xs) -> 1..Len(ys)] :
    /\ \A i, j \in 1..Len(xs) : i < j => at[i] < at[j]
    /\ \A i \in 1..Len(xs) : xs[i] = ys[at[i]]

(***************************************************************************)
(* Lines written in the middle of an answer lose none of it: all text of   *)
(* the transcript, and of the round in progress, is on the pane in order   *)
(* (Ui::push closing the open entry, Ui::apply taking back no other).  And *)
(* as long as nobody but the loop writes to the pane there is nothing else:*)
(* a retry takes back exactly what its attempt showed.                     *)
(***************************************************************************)
TranscriptIsShown ==
  /\ IsWithin(StoredText \o draft.text, AssistantTextSince(1))
  /\ traces = 0 => PaneIsTranscript
=============================================================================
