------------------------------- MODULE Frames -------------------------------
(***************************************************************************)
(* What is on the screen: the pane of the entries, and the box of the      *)
(* approval that is open.                                                  *)
(***************************************************************************)
EXTENDS PaneView, PromptBox

(* A frame shows what there is when it is drawn, whatever keys, sizes and writes came since
   the last one (PaneIsTrue), and what is asked can all be read before it is answered
   (BoxIsTrue).                                                                          *)
FrameIsTrue == PaneIsTrue /\ BoxIsTrue
=============================================================================
