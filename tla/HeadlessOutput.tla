--------------------------- MODULE HeadlessOutput ---------------------------
(***************************************************************************)
(* The print-mode frontend (gwennol-cli/src/operator.rs) listening to the  *)
(* loop: model text is held back for the round in progress and written to  *)
(* stdout once the loop has accepted the round.  A printing process runs   *)
(* one turn (MaxTurns = 1), and its stdout does not fail.                  *)
(*                                                                         *)
(* emit is called for every event as it happens and by nothing else, so    *)
(* what the frontend holds is a function of the log.                       *)
(***************************************************************************)
EXTENDS OperatorEvents

(* Headless::flush_round *)
Flushed(s) == [pending |-> <<>>, stdout |-> s.stdout \o s.pending]

(* Mutant: the text of a failed attempt stays pending. *)
EmitKeepingRetried(s, e) ==
  CASE e.ev = "Text"       -> [s EXCEPT !.pending = Append(@, e.chunk)]
    [] e.ev = "ToolResult" -> s
    [] e.ev = "Retry"      -> s
    [] e.ev \in {"ToolCall", "ToolFailed", "TurnComplete"} -> Flushed(s)

(* Headless::emit *)
Emit(s, e) ==
  CASE e.ev = "Text"       -> [s EXCEPT !.pending = Append(@, e.chunk)]
    [] e.ev = "ToolResult" -> s
    [] e.ev = "Retry"      -> [s EXCEPT !.pending = <<>>]
    [] e.ev \in {"ToolCall", "ToolFailed", "TurnComplete"} -> Flushed(s)

(* Headless::new: pending is the text of the round in progress. *)
New == [pending |-> <<>>, stdout |-> <<>>]

(* The frontend's state after some events. *)
Heard(events) ==
  LET after[n \in 0..Len(events)] == IF n = 0 THEN New ELSE Emit(after[n - 1], events[n])
  IN  after[Len(events)]

(* What was written by now; the newlines of end_line are left out. *)
stdout == Heard(log).stdout

(***************************************************************************)
(* "What stdout holds is exactly the text in the transcript": so it is     *)
(* when the turn is over however it ended, and while a turn runs stdout    *)
(* has at most the text of the accepted round besides, never the text of   *)
(* an attempt that failed.                                                 *)
(***************************************************************************)
StdoutIsTranscript ==
  /\ stdout \in {StoredText, StoredText \o draft.text}
  /\ pc \notin {"answer", "tool"} => stdout = StoredText
=============================================================================
