----------------------------- MODULE EventStream -----------------------------
(***************************************************************************)
(* What a streamed answer promises the agent loop that reads it, and       *)
(* nothing of the lines, buffers and channel it comes through: events are  *)
(* made, the terminal one last, and handed over one at a time in the order *)
(* they were made, until the stream ends in one way and for good.          *)
(*                                                                         *)
(*   end, error      its terminal event was handed over;                   *)
(*   ended           there was none: the loop has all events ever made,    *)
(*                   and the turn had not been cut;                        *)
(*   source_failed   the vendor or the relay failed, and the turn had not  *)
(*                   been cut;                                             *)
(*   cancelled       the turn was cut;                                     *)
(*   too_long        an event was longer than the loop takes.              *)
(*                                                                         *)
(* StreamRelay implements this specification (StreamRelay!IsEventStream),     *)
(* checked by TLC and proved in ProviderProofs.                            *)
(***************************************************************************)
EXTENDS Naturals, Sequences

VARIABLES
  made,       \* kinds of the events made
  handed,     \* kinds of those the loop was handed
  outcome,    \* how the stream ended for the loop
  cancelled   \* the turn's token has fired

vars == <<made, handed, outcome, cancelled>>

(* Kinds of events; a stream ends with one of the last two. *)
Terminal == {"end", "error"}
Kind == {"content"} \cup Terminal

Init ==
  /\ made = <<>> /\ handed = <<>>
  /\ outcome = "reading"
  /\ cancelled = FALSE

Cancel ==
  /\ ~cancelled
  /\ cancelled' = TRUE
  /\ UNCHANGED <<made, handed, outcome>>

(* Any number of events follow those made; none follows a terminal one, or *)
(* a stream the loop was told has ended.                                   *)
Make ==
  /\ outcome # "ended"
  /\ made' \in Seq(Kind)
  /\ Len(made) < Len(made')
  /\ \A k \in 1..Len(made) : made'[k] = made[k]
  /\ \A k \in 1..(Len(made') - 1) : made'[k] \notin Terminal
  /\ UNCHANGED <<handed, outcome, cancelled>>

(* The next event is handed over, also to a turn already cut. *)
Hand ==
  /\ outcome = "reading"
  /\ Len(handed) < Len(made)
  /\ LET event == made[Len(handed) + 1]
     IN /\ handed' = Append(handed, event)
        /\ outcome' = IF event \in Terminal THEN event ELSE "reading"
  /\ UNCHANGED <<made, cancelled>>

(* The stream ends without its terminal event. *)
Break ==
  /\ outcome = "reading"
  /\ \/ outcome' = "ended" /\ ~cancelled /\ Len(handed) = Len(made)
     \/ outcome' = "source_failed" /\ ~cancelled
     \/ outcome' = "cancelled" /\ cancelled
     \/ outcome' = "too_long"
  /\ UNCHANGED <<made, handed, cancelled>>

Next == Cancel \/ Make \/ Hand \/ Break

Spec == Init /\ [][Next]_vars
=============================================================================
