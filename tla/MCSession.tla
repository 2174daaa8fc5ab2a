----------------------------- MODULE MCSession -----------------------------
(* What decides a request, one machine at a time: the person at the prompts of a session
   (InteractiveSession), the line that is typed (LineEditor), what is on the screen
   (Frames: PaneView, PromptBox), and the policy that judges requests before anyone is asked
   (Policy).                                                                           *)
EXTENDS InteractiveSession, LineEditor, Policy, Frames

VARIABLE machine   \* which machine runs

(* A prompt takes rows from the pane, a small terminal all of them. *)
MCAreas == {[width |-> 2, height |-> 2], [width |-> 5, height |-> 2], [width |-> 5, height |-> 0]}

(* Texts of few and of many rows, key lines that wrap; screens up to the box's limit, below
   it, and without room for it.                                                         *)
Short == <<<<1>>, <<2, 2>>>>
TwoKeys == <<<<1, 1>>>>

MCAsked ==
  {[lines |-> t, legend |-> k] :
     t \in {Short, <<<<2, 2, 4>>, <<5>>, <<>>, <<3>>>>},
     k \in {TwoKeys, <<<<2, 3, 2>>>>}}

MCScreens ==
  {[width |-> 6, height |-> h] : h \in {5, 14}} \cup
  {[width |-> 9, height |-> 20], [width |-> 2, height |-> 9]}

(* A machine that is not the subject stays where it is: the session is over, the policy has
   no rules and is asked nothing, nothing is typed or drawn.                             *)
SessionParked ==
  /\ drive = "over" /\ exiting = FALSE /\ token = FALSE /\ ceiling = {}
  /\ ask = [s \in Step |-> NoAsk] /\ prompts = <<>>
  /\ rules = [x \in Subject |-> "none"] /\ wait = 0 /\ calm = 0

PolicyParked ==
  /\ policy = <<>>
  /\ PolicyInit

SessionInit ==
  /\ LineInit /\ PaneInit /\ BoxInit
  /\ \/ machine = "session" /\ Init /\ PolicyParked
     \/ machine = "policy" /\ SessionParked /\ PolicyInit
     \/ machine \in {"line", "pane", "box"} /\ SessionParked /\ PolicyParked
  /\ machine # "line" => history = <<>>
  /\ machine # "box" => shown = [lines |-> Short, legend |-> TwoKeys]

Asking == machine = "session" /\ UNCHANGED <<machine, policyVars, lineVars, paneVars, boxVars>>
Judging == machine = "policy" /\ UNCHANGED <<machine, vars, lineVars, paneVars, boxVars>>
Typing == machine = "line" /\ UNCHANGED <<machine, vars, policyVars, paneVars, boxVars>>
Showing == machine = "pane" /\ UNCHANGED <<machine, vars, policyVars, lineVars, boxVars>>
AtBox == machine = "box" /\ UNCHANGED <<machine, vars, policyVars, lineVars, paneVars>>

SessionNext ==
  \/ \E s \in Step : Asking /\ Asks(s)
  \/ \E s \in Step : Asking /\ Opens(s)
  \/ \E s \in Step : Asking /\ Resumes(s)
  \/ \E s \in Step : Asking /\ Withdraws(s)
  \/ \E s \in Step : Asking /\ GuardDrops(s)
  \/ \E s \in Step : Asking /\ CeilingReached(s)
  \/ Asking /\ KeyEsc
  \/ Asking /\ KeyLetter
  \/ Asking /\ KeyOther
  \/ Asking /\ KeyCancel
  \/ Asking /\ ExitIdle
  \/ Asking /\ ExitRunning
  \/ Asking /\ ForceExit
  \/ Asking /\ KeysClose
  \/ Asking /\ Tick
  \/ Asking /\ Submit
  \/ Asking /\ TurnReturns
  \/ Judging /\ Judge
  \/ Judging /\ AnswerForSession
  \/ Judging /\ Settle
  \/ Typing /\ EditKey
  \/ Typing /\ MoveKey
  \/ Typing /\ Paste
  \/ Typing /\ OtherInput
  \/ Typing /\ Escape
  \/ Typing /\ EnterTurn
  \/ Typing /\ EnterExit
  \/ Typing /\ EnterHelp
  \/ Typing /\ EnterOther
  \/ Typing /\ ReadFails
  \/ Typing /\ TurnEnds
  \/ Typing /\ PromptTurns
  \/ Showing /\ Apply
  \/ Showing /\ DrawPane
  \/ Showing /\ PageUp
  \/ Showing /\ PageDown
  \/ Showing /\ Home
  \/ Showing /\ End
  \/ Showing /\ follow_tail
  \/ Showing /\ Tab
  \/ Showing /\ BackTab
  \/ Showing /\ Toggle
  \/ AtBox /\ BoxOpens
  \/ AtBox /\ DrawBox
  \/ AtBox /\ BoxUp
  \/ AtBox /\ BoxDown
  \/ AtBox /\ BoxPageUp
  \/ AtBox /\ BoxPageDown

SessionSpec == SessionInit /\ [][SessionNext]_<<machine, vars, policyVars, lineVars, paneVars, boxVars>> /\ Fairness
=============================================================================
