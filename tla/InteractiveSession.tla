------------------------- MODULE InteractiveSession -------------------------
(***************************************************************************)
(* The terminal frontend around the agent loop (gwennol-cli/src/tui):      *)
(* drive() runs one turn at a time beside the keyboard, and Interactive    *)
(* answers the approvals the turn's host steps ask for, by rule or at a    *)
(* prompt.  Host steps ask concurrently (the steps of a dataflow action    *)
(* do); open prompts queue up, and the keyboard belongs to the first.      *)
(*                                                                         *)
(* Every access to the Ui is one step, for it is made under one lock.  A   *)
(* request is kept to its subject.  Time passes in ticks; ArmDelay of them *)
(* are a second.  The pane, the editor and the status line are left out:   *)
(* `keyboard` events are what they make of the keys.                       *)
(***************************************************************************)
EXTENDS Naturals, Sequences, SequencesExt

CONSTANTS
  Step,       \* host steps that may ask at the same time
  Subject,    \* subjects of requests (plugin, kind of access, its text)
  Allowed,    \* subjects the compiled rules allow
  Denied,     \* subjects the compiled rules deny
  Unkept,     \* subjects no session rule can hold (show::subject is None)
  ArmDelay    \* prompt::ARM_DELAY

ASSUME SessionAssumption ==
  /\ Subject # {}
  /\ Allowed \subseteq Subject /\ Denied \subseteq Subject
  /\ Allowed \cap Denied = {}
  /\ Unkept \subseteq Subject
  /\ ArmDelay \in Nat

VARIABLES
  drive,      \* where drive() is
  exiting,    \* Ui::exiting
  token,      \* the turn's token has fired
  ceiling,    \* steps whose own invocation the kernel has cancelled
  ask,        \* each step's Interactive::approve
  prompts,    \* Ui::prompts, by step
  rules,      \* Ui::session_rules, by subject
  wait,       \* ticks until prompt_armed_at
  calm        \* history: ticks the first prompt has been first with no key

vars == <<drive, exiting, token, ceiling, ask, prompts, rules, wait, calm>>

driveVars == <<drive, exiting, token, ceiling>>

Decision == {"allow", "deny"}

(***************************************************************************)
(* A step is not asking, between judging and opening its prompt, waiting   *)
(* at it, sent an answer it has not read, or being dropped with its        *)
(* receiver gone and its guard not run yet; or its request is settled.     *)
(***************************************************************************)
Pending == {"judged", "open", "sent", "leaving"}
Settled == {"allowed", "denied", "withdrawn"}
Ask == [phase: {"idle"} \cup Pending \cup Settled, subject: Subject,
        decision: Decision]

(* Types, and a step has at most one prompt in the queue. *)
TypeOK ==
  /\ drive \in {"idle", "running", "closing", "over", "forced"}
  /\ exiting \in BOOLEAN
  /\ token \in BOOLEAN
  /\ ceiling \subseteq Step
  /\ ask \in [Step -> Ask]
  /\ prompts \in Seq(Step) /\ IsInjective(prompts)
  /\ rules \in [Subject -> Decision \cup {"none"}]
  /\ wait \in 0..ArmDelay
  /\ calm \in 0..ArmDelay

NoAsk == [phase |-> "idle", subject |-> CHOOSE x \in Subject : TRUE, decision |-> "deny"]

Init ==
  /\ drive = "idle"
  /\ exiting = FALSE
  /\ token = FALSE
  /\ ceiling = {}
  /\ ask = [s \in Step |-> NoAsk]
  /\ prompts = <<>>
  /\ rules = [x \in Subject |-> "none"]
  /\ wait = 0
  /\ calm = 0

First(ps) == IF ps = <<>> THEN {} ELSE {ps[1]}

(* The history: how long the first prompt has been first. *)
Watched == calm' = IF First(prompts') = First(prompts) THEN calm ELSE 0

(* The gate of the first prompt: it is pushed back when that changes. *)
Rearmed == wait' = IF prompts' = <<>> THEN wait ELSE ArmDelay

-----------------------------------------------------------------------------
(* A host step asking: host::approve around Interactive::approve. *)

Running == drive \in {"running", "closing"}

Cut(s) == token \/ s \in ceiling

Judged(x) ==
  IF x \in Allowed THEN "allow" ELSE IF x \in Denied THEN "deny" ELSE rules[x]

Moves(s, a) == ask' = [ask EXCEPT ![s] = a]

(* The request is judged under one lock; a fired token asks nobody. *)
Asks(s) ==
  /\ Running
  /\ ask[s].phase \notin Pending
  /\ \E x \in Subject :
       Moves(s, [phase |-> IF token THEN "withdrawn"
                           ELSE IF Judged(x) = "none" THEN "judged"
                           ELSE IF Judged(x) = "allow" THEN "allowed" ELSE "denied",
                 subject |-> x, decision |-> "deny"])
  /\ ceiling' = ceiling \ {s}
  /\ UNCHANGED <<drive, exiting, token, prompts, rules, wait, calm>>

(* PromptGuard::open *)
Opens(s) ==
  /\ ask[s].phase = "judged"
  /\ Moves(s, [ask[s] EXCEPT !.phase = "open"])
  /\ prompts' = Append(prompts, s)
  /\ IF prompts = <<>> THEN wait' = ArmDelay ELSE UNCHANGED wait
  /\ Watched
  /\ UNCHANGED <<driveVars, rules>>

(* The step reads the answer it was sent, the token not having fired. *)
Resumes(s) ==
  /\ ask[s].phase = "sent"
  /\ ~Cut(s)
  /\ Moves(s, [ask[s] EXCEPT !.phase = IF ask[s].decision = "allow" THEN "allowed" ELSE "denied"])
  /\ UNCHANGED <<driveVars, prompts, rules, wait, calm>>

(* The token wins: the future of the question is dropped, its receiver     *)
(* first.                                                                  *)
Withdraws(s) ==
  /\ ask[s].phase \in {"open", "sent"}
  /\ Cut(s)
  /\ Moves(s, [ask[s] EXCEPT !.phase = "leaving"])
  /\ UNCHANGED <<driveVars, prompts, rules, wait, calm>>

Without(s) == RemoveFirst(prompts, s)

(* Mutant: the prompt is removed by the person's answer only. *)
GuardDrops_LeavesPrompt(s) ==
  /\ ask[s].phase = "leaving"
  /\ Moves(s, [ask[s] EXCEPT !.phase = "withdrawn"])
  /\ UNCHANGED <<driveVars, prompts, rules, wait, calm>>

(* PromptGuard::drop *)
GuardDrops(s) ==
  /\ ask[s].phase = "leaving"
  /\ Moves(s, [ask[s] EXCEPT !.phase = "withdrawn"])
  /\ prompts' = Without(s)
  /\ IF First(prompts) = {s} THEN Rearmed ELSE UNCHANGED wait
  /\ Watched
  /\ UNCHANGED <<driveVars, rules>>

(* The kernel cancels one invocation, at its action's ceiling. *)
CeilingReached(s) ==
  /\ ask[s].phase \in Pending
  /\ ceiling' = ceiling \cup {s}
  /\ UNCHANGED <<drive, exiting, token, ask, prompts, rules, wait, calm>>

-----------------------------------------------------------------------------
(* The keyboard, at an open prompt (prompt::key). *)

Keys == drive \in {"idle", "running"}

(* Mutant: the next prompt inherits the gate of the one answered. *)
Answer_Unarmed(decision, session) ==
  LET s == prompts[1]
      lands == ask[s].phase = "open"
      x == ask[s].subject
  IN /\ prompts' = Tail(prompts)
     /\ UNCHANGED wait
     /\ ask' = IF lands
               THEN [ask EXCEPT ![s] = [phase |-> "sent", subject |-> x, decision |-> decision]]
               ELSE ask
     /\ rules' = IF lands /\ session /\ x \notin Unkept
                 THEN [rules EXCEPT ![x] = decision] ELSE rules
     /\ Watched
     /\ UNCHANGED driveVars

(***************************************************************************)
(* answer_prompt: the first prompt goes, and the decision is sent; only if *)
(* somebody is there to take it is the rule it asked for remembered.       *)
(***************************************************************************)
Answer(decision, session) ==
  LET s == prompts[1]
      lands == ask[s].phase = "open"
      x == ask[s].subject
  IN /\ prompts' = Tail(prompts)
     /\ Rearmed
     /\ ask' = IF lands
               THEN [ask EXCEPT ![s] = [phase |-> "sent", subject |-> x, decision |-> decision]]
               ELSE ask
     /\ rules' = IF lands /\ session /\ x \notin Unkept
                 THEN [rules EXCEPT ![x] = decision] ELSE rules
     /\ Watched
     /\ UNCHANGED driveVars

KeyEsc ==
  /\ Keys /\ prompts # <<>>
  /\ Answer("deny", FALSE)

(* y, n, a or d once the gate is open. *)
KeyLetter ==
  /\ Keys /\ prompts # <<>>
  /\ wait = 0
  /\ \E decision \in Decision, session \in BOOLEAN : Answer(decision, session)

(* A letter too early, any other key, or a paste: pushes the gate back. *)
KeyOther ==
  /\ Keys /\ prompts # <<>>
  /\ wait' = ArmDelay
  /\ calm' = 0
  /\ UNCHANGED <<driveVars, ask, prompts, rules>>

Tick ==
  /\ wait' = IF wait = 0 THEN 0 ELSE wait - 1
  /\ calm' = IF prompts = <<>> THEN 0 ELSE IF calm < ArmDelay THEN calm + 1 ELSE calm
  /\ UNCHANGED <<driveVars, ask, prompts, rules>>

-----------------------------------------------------------------------------
(* drive(), with no prompt open (handle_key), and the turn. *)

(* A turn begins with a token of its own. *)
Submit ==
  /\ drive = "idle"
  /\ drive' = "running"
  /\ token' = FALSE
  /\ UNCHANGED <<exiting, ceiling, ask, prompts, rules, wait, calm>>

KeyCancel ==
  /\ drive = "running" /\ prompts = <<>>
  /\ token' = TRUE
  /\ UNCHANGED <<drive, exiting, ceiling, ask, prompts, rules, wait, calm>>

ExitIdle ==
  /\ drive = "idle"
  /\ drive' = "over"
  /\ UNCHANGED <<exiting, token, ceiling, ask, prompts, rules, wait, calm>>

ExitRunning ==
  /\ drive = "running" /\ prompts = <<>>
  /\ ~exiting
  /\ exiting' = TRUE
  /\ token' = TRUE
  /\ UNCHANGED <<drive, ceiling, ask, prompts, rules, wait, calm>>

(* The second /exit: the turn's future is dropped, and with it every       *)
(* question it holds.                                                      *)
ForceExit ==
  /\ drive = "running" /\ prompts = <<>>
  /\ exiting
  /\ drive' = "forced"
  /\ ask' = [s \in Step |-> NoAsk]
  /\ UNCHANGED <<exiting, token, ceiling, prompts, rules, wait, calm>>

(* Mutant: a closed keyboard does not cancel the turn. *)
KeysClose_NoCancel ==
  /\ drive = "running"
  /\ drive' = "closing"
  /\ exiting' = TRUE
  /\ UNCHANGED <<token, ceiling, ask, prompts, rules, wait, calm>>

(* The key source closes under a turn: nobody is left to answer it, and    *)
(* the turn is awaited alone.  While idle this is ExitIdle.                *)
KeysClose ==
  /\ drive = "running"
  /\ drive' = "closing"
  /\ exiting' = TRUE
  /\ token' = TRUE
  /\ UNCHANGED <<ceiling, ask, prompts, rules, wait, calm>>

(* Session::turn returns, with none of its steps still asking. *)
TurnReturns ==
  /\ Running
  /\ \A s \in Step : ask[s].phase \notin Pending
  /\ drive' = IF exiting THEN "over" ELSE "idle"
  /\ exiting' = FALSE
  /\ ceiling' = {}
  /\ ask' = [s \in Step |-> NoAsk]
  /\ UNCHANGED <<token, prompts, rules, wait, calm>>

-----------------------------------------------------------------------------
StepMoves(s) ==
  Asks(s) \/ Opens(s) \/ Resumes(s) \/ Withdraws(s) \/ GuardDrops(s) \/ CeilingReached(s)

Keyboard == KeyEsc \/ KeyLetter \/ KeyOther \/ KeyCancel \/ ExitIdle \/ ExitRunning \/ ForceExit

Next == (\E s \in Step : StepMoves(s)) \/ Keyboard \/ KeysClose \/ Tick \/ Submit \/ TurnReturns

Spec == Init /\ [][Next]_vars

-----------------------------------------------------------------------------
(***************************************************************************)
(* The queue is the open questions: a step that waits has its prompt there,*)
(* a prompt there is that of a step that waits or is just being dropped,   *)
(* and no turn leaves one behind (PromptGuard).                            *)
(***************************************************************************)
PromptsAreOpen ==
  /\ \A s \in Step : ask[s].phase = "open" => \E k \in 1..Len(prompts) : prompts[k] = s
  /\ \A k \in 1..Len(prompts) : ask[prompts[k]].phase \in {"open", "leaving"}

(***************************************************************************)
(* Nobody allows what they have not had before them: a request is answered *)
(* with an allow, and a session rule made, only by a letter struck when    *)
(* that prompt has been first for a whole ArmDelay without a key or a      *)
(* paste, however prompts came and went (ARM_DELAY).  And a rule is that   *)
(* answer, taken by a request for the rule's subject: struck at the prompt *)
(* of a step that has left it makes none (answer_prompt: "a failed send    *)
(* leaves neither behind").                                                *)
(***************************************************************************)
Deliberate ==
  [][/\ \A s \in Step :
          ask[s].phase = "open" /\ ask'[s].phase = "sent" /\ ask'[s].decision = "allow"
            => calm = ArmDelay
     /\ \A x \in Subject : rules'[x] # rules[x] =>
          /\ calm = ArmDelay
          /\ \E s \in Step : /\ ask[s].phase = "open" /\ ask'[s].phase = "sent"
                           /\ ask'[s].subject = x /\ ask'[s].decision = rules'[x]]_vars

-----------------------------------------------------------------------------
(***************************************************************************)
(* What is asked and let go is run by the executor, time passes, and a     *)
(* turn whose token has fired returns (AgentLoop!CancelEndsTurn).  Nothing *)
(* is assumed of the person.                                               *)
(***************************************************************************)
Fairness ==
  /\ \A s \in Step : WF_vars(Opens(s)) /\ WF_vars(Withdraws(s)) /\ WF_vars(GuardDrops(s))
  /\ WF_vars(token /\ TurnReturns)

FairSpec == Spec /\ Fairness

(* /exit, or a keyboard that closes, ends the session though prompts may    *)
(* be open and are never answered (drive).                                  *)
ExitEnds == exiting ~> drive \in {"over", "forced"}
=============================================================================
