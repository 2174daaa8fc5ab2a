--------------------------- MODULE TerminalProofs ---------------------------
(***************************************************************************)
(* What the terminal frontend keeps for any number of host steps asking at *)
(* once, any subjects and rules, and any arming delay: its types, that the *)
(* prompt queue is the open questions, and that nobody allows what they    *)
(* have not had before them for a whole quiet delay.                       *)
(*                                                                         *)
(* Deliberate alone is about steps.  The reason it holds is Gate: what is  *)
(* left of the delay and what has passed of it undisturbed add up to the   *)
(* whole, through every change of the first prompt.                        *)
(*                                                                         *)
(* And of the terminal it runs in: however many other threads panic, a     *)
(* session that is left leaves it as it was found (TerminalIsRestored).    *)
(* The reason is owed: what of the terminal is not as it was is, at any    *)
(* time, some one's to undo, the guard's or a hook's and never both's.     *)
(*                                                                         *)
(* And of a run of the command, for whatever it is told by its flags and   *)
(* files: that its exit status says how its turn ended (ExitTellsTheRun),  *)
(* and that what governs its first turn is what its inputs name, in their  *)
(* order (RunsAreGoverned).  Both come from what is settled stage by       *)
(* stage; the interrupts count besides, a press being taken once.          *)
(*                                                                         *)
(* And of the two that a session rests on: that the line being typed is    *)
(* never lost to another (LineIsAlwaysKept), and that an answer given for  *)
(* the session decides the question the person was shown and no other      *)
(* (AnswersAlwaysStayNarrow).                                              *)
(*                                                                         *)
(* And of what is on the screen: that a frame shows what there is when it  *)
(* is drawn, the pane from its entries and the box from what is asked      *)
(* (FramesAreTrue).  Frames are compared with the one before, so what that *)
(* frame measured, and what one key since made of it, is the invariant.    *)
(***************************************************************************)
EXTENDS InteractiveSession, TerminalScreen, Startup, LineEditor, Policy, Frames, SequenceFacts

Gate == prompts # <<>> => calm + wait >= ArmDelay

SessionInv == TypeOK /\ PromptsAreOpen /\ Gate

-----------------------------------------------------------------------------
(* Queues. *)

In(s, ps) == \E k \in 1..Len(ps) : ps[k] = s

(* Taking out one position of a queue. *)
LEMMA RemoveAtProperties ==
  ASSUME NEW S, NEW ps \in Seq(S), NEW i \in 1..Len(ps)
  PROVE  /\ RemoveAt(ps, i) \in Seq(S)
         /\ Len(RemoveAt(ps, i)) = Len(ps) - 1
         /\ \A k \in 1..(Len(ps) - 1) :
              RemoveAt(ps, i)[k] = IF k < i THEN ps[k] ELSE ps[k + 1]
<1> DEFINE before == SubSeq(ps, 1, i - 1)
           after == SubSeq(ps, i + 1, Len(ps))
<1>1. /\ before \in Seq(S)
      /\ Len(before) = i - 1
      /\ \A k \in 1..(i - 1) : before[k] = ps[k]
  <2>1. \A k \in 1..(i - 1) : ps[k] \in S
    OBVIOUS
  <2> QED
    BY <2>1, SubSeqProperties
<1>2. /\ after \in Seq(S)
      /\ Len(after) = Len(ps) - i
      /\ \A k \in 1..(Len(ps) - i) : after[k] = ps[i + k]
  <2>1. \A k \in (i + 1)..Len(ps) : ps[k] \in S
    OBVIOUS
  <2> QED
    BY <2>1, SubSeqProperties
<1> HIDE DEF before, after
<1>3. /\ before \o after \in Seq(S)
      /\ Len(before \o after) = Len(ps) - 1
      /\ \A k \in 1..(Len(ps) - 1) :
           (before \o after)[k] = IF k < i THEN ps[k] ELSE ps[k + 1]
  <2>1. Len(ps) \in Nat /\ Len(before) + Len(after) = Len(ps) - 1
    BY <1>1, <1>2
  <2>2. /\ before \o after \in Seq(S)
        /\ Len(before \o after) = Len(before) + Len(after)
        /\ \A k \in 1..(Len(before) + Len(after)) :
             (before \o after)[k] = IF k <= Len(before) THEN before[k]
                                    ELSE after[k - Len(before)]
    BY <1>1, <1>2, ConcatProperties
  <2>3. ASSUME NEW k \in 1..(Len(ps) - 1)
        PROVE  (before \o after)[k] = IF k < i THEN ps[k] ELSE ps[k + 1]
    <3>1. CASE k < i
      BY <1>1, <2>1, <2>2, <3>1
    <3>2. CASE k >= i
      <4>1. k - Len(before) \in 1..(Len(ps) - i) /\ i + (k - Len(before)) = k + 1
        BY <1>1, <2>1, <3>2
      <4>2. (before \o after)[k] = after[k - Len(before)]
        BY <1>1, <2>1, <2>2, <3>2
      <4>3. after[k - Len(before)] = ps[i + (k - Len(before))]
        BY <1>2, <4>1
      <4>4. after[k - Len(before)] = ps[k + 1]
        BY <4>1, <4>3
      <4>5. ~(k < i)
        BY <3>2
      <4> QED
        BY <4>2, <4>4, <4>5
    <3> QED
      BY <3>1, <3>2, <2>1
  <2> QED
    BY <2>1, <2>2, <2>3
<1>4. RemoveAt(ps, i) = before \o after
  BY DEF RemoveAt, before, after
<1> QED
  BY <1>3, <1>4

(***************************************************************************)
(* A queue without the prompt of s (PromptGuard::drop): the others stay,   *)
(* in their order, and the first stays the first if it was not s.          *)
(***************************************************************************)
LEMMA RemoveFirstProperties ==
  ASSUME NEW S, NEW ps \in Seq(S), IsInjective(ps), NEW s
  PROVE  /\ RemoveFirst(ps, s) \in Seq(S)
         /\ IsInjective(RemoveFirst(ps, s))
         /\ \A t : In(t, RemoveFirst(ps, s)) <=> In(t, ps) /\ t # s
         /\ First(ps) # {s} => First(RemoveFirst(ps, s)) = First(ps)
<1>1. CASE ~In(s, ps)
  BY <1>1 DEF RemoveFirst, In
<1>2. CASE In(s, ps)
  <2>1. PICK i \in 1..Len(ps) : ps[i] = s
    BY <1>2 DEF In
  <2>2. \A k \in 1..Len(ps) : ps[k] = s => k = i
    BY <2>1 DEF IsInjective
  <2>3. {k \in 1..Len(ps) : ps[k] = s} = {i}
    BY <2>1, <2>2
  <2>4. Min({i}) = i
    BY DEF Min
  <2>5. SelectInSeq(ps, LAMBDA v : v = s) = i
    BY <2>3, <2>4 DEF SelectInSeq
  <2>6. RemoveFirst(ps, s) = RemoveAt(ps, i)
    BY <2>1, <2>5 DEF RemoveFirst
  <2> DEFINE rest == RemoveFirst(ps, s)
  <2>7. /\ rest \in Seq(S)
        /\ Len(rest) = Len(ps) - 1
        /\ \A k \in 1..(Len(ps) - 1) : rest[k] = IF k < i THEN ps[k] ELSE ps[k + 1]
    BY <2>6, RemoveAtProperties
  <2> HIDE DEF rest
  <2>8. IsInjective(rest)
    <3> SUFFICES ASSUME NEW a \in DOMAIN rest, NEW b \in DOMAIN rest, rest[a] = rest[b]
                 PROVE  a = b
      BY DEF IsInjective
    <3> DEFINE was(k) == IF k < i THEN k ELSE k + 1
    <3>1. a \in 1..(Len(ps) - 1) /\ b \in 1..(Len(ps) - 1)
      BY <2>7
    <3>2. was(a) \in 1..Len(ps) /\ was(b) \in 1..Len(ps)
      BY <3>1
    <3>3. rest[a] = ps[was(a)] /\ rest[b] = ps[was(b)]
      BY <2>7, <3>1
    <3>4. \A j, k \in 1..Len(ps) : ps[j] = ps[k] => j = k
      BY DEF IsInjective
    <3> HIDE DEF was
    <3>5. was(a) = was(b)
      BY <3>2, <3>3, <3>4
    <3> QED
      BY <3>1, <3>5 DEF was
  <2>9. ASSUME NEW t
        PROVE  In(t, rest) <=> In(t, ps) /\ t # s
    <3>1. ASSUME In(t, rest)
          PROVE  In(t, ps) /\ t # s
      BY <3>1, <2>7, <2>2 DEF In
    <3>2. ASSUME In(t, ps), t # s
          PROVE  In(t, rest)
      <4>1. PICK k \in 1..Len(ps) : ps[k] = t
        BY <3>2 DEF In
      <4>2. k # i
        BY <3>2, <4>1, <2>1
      <4>3. CASE k < i
        BY <4>1, <4>3, <2>7 DEF In
      <4>4. CASE k > i
        <5>1. k - 1 \in 1..Len(rest) /\ rest[k - 1] = t
          BY <4>1, <4>4, <2>7
        <5> QED
          BY <5>1 DEF In
      <4> QED
        BY <4>2, <4>3, <4>4
    <3> QED
      BY <3>1, <3>2
  <2>10. ASSUME First(ps) # {s}
         PROVE  First(rest) = First(ps)
    <3>1. ps # <<>> /\ ps[1] # s
      BY <2>1, <2>10 DEF First
    <3>2. i > 1 /\ Len(rest) > 0
      BY <2>1, <2>7, <3>1
    <3>3. rest[1] = ps[1] /\ rest # <<>>
      BY <2>7, <3>2
    <3> QED
      BY <3>1, <3>3 DEF First
  <2> QED
    BY <2>7, <2>8, <2>9, <2>10 DEF rest
<1> QED
  BY <1>1, <1>2

(* The queue is the open questions, said of steps instead of positions. *)
QueueIsOpen(ps, a) ==
  /\ \A s \in Step : a[s].phase = "open" => In(s, ps)
  /\ \A s \in Step : In(s, ps) => a[s].phase \in {"open", "leaving"}

LEMMA QueueByPosition ==
  ASSUME NEW ps \in Seq(Step), NEW a
  PROVE  QueueIsOpen(ps, a) <=>
           /\ \A s \in Step : a[s].phase = "open" => \E k \in 1..Len(ps) : ps[k] = s
           /\ \A k \in 1..Len(ps) : a[ps[k]].phase \in {"open", "leaving"}
<1>1. \A k \in 1..Len(ps) : ps[k] \in Step
  OBVIOUS
<1> QED
  BY <1>1 DEF QueueIsOpen, In

(***************************************************************************)
(* The gate survives every change of the queue that either leaves the      *)
(* first prompt and the delay alone, or pushes the gate back.              *)
(***************************************************************************)
LEMMA GateKept ==
  ASSUME TypeOK, Gate, Watched,
         \/ wait' = ArmDelay
         \/ wait' = wait /\ (prompts' = <<>> \/ First(prompts') = First(prompts))
  PROVE  wait' \in 0..ArmDelay /\ calm' \in 0..ArmDelay /\ Gate'
<1>1. ArmDelay \in Nat /\ wait \in 0..ArmDelay /\ calm \in 0..ArmDelay
  BY SessionAssumption DEF TypeOK
<1>2. calm' \in 0..ArmDelay /\ wait' \in 0..ArmDelay
  BY <1>1 DEF Watched
<1>3. CASE wait' = ArmDelay
  <2>1. \A c \in 0..ArmDelay : c + ArmDelay >= ArmDelay
    BY <1>1
  <2>2. calm' + ArmDelay >= ArmDelay
    BY <1>2, <2>1
  <2> QED
    BY <1>2, <1>3, <2>2 DEF Gate
<1>4. CASE prompts' = <<>>
  BY <1>2, <1>4 DEF Gate
<1>5. CASE wait' = wait /\ prompts' # <<>> /\ First(prompts') = First(prompts)
  <2>1. prompts # <<>>
    BY <1>5 DEF First
  <2>2. calm' = calm
    BY <1>5 DEF Watched
  <2> QED
    BY <1>2, <1>5, <2>1, <2>2 DEF Gate
<1> QED
  BY <1>3, <1>4, <1>5

(* What an action that leaves the queue and the keyboard alone keeps. *)
LEMMA QueueUntouched ==
  ASSUME SessionInv, UNCHANGED <<prompts, wait, calm>>
  PROVE  /\ prompts' \in Seq(Step) /\ IsInjective(prompts')
         /\ wait' \in 0..ArmDelay /\ calm' \in 0..ArmDelay
         /\ Gate'
BY DEF SessionInv, TypeOK, Gate

(* A step moving its own request. *)
LEMMA MoveTypes ==
  ASSUME TypeOK, NEW s \in Step,
         NEW p \in {"idle"} \cup Pending \cup Settled,
         Moves(s, [ask[s] EXCEPT !.phase = p])
  PROVE  /\ ask' \in [Step -> Ask]
         /\ ask'[s].phase = p
         /\ \A t \in Step : t # s => ask'[t] = ask[t]
<1>1. ask[s] \in Ask
  BY DEF TypeOK
<1>2. [ask[s] EXCEPT !.phase = p] \in Ask /\ [ask[s] EXCEPT !.phase = p].phase = p
  BY <1>1 DEF Ask
<1> QED
  BY <1>2 DEF Moves, TypeOK

LEMMA NoAskTypes == NoAsk \in Ask /\ NoAsk.phase = "idle"
<1>1. (CHOOSE x \in Subject : TRUE) \in Subject
  BY SessionAssumption
<1> QED
  BY <1>1 DEF NoAsk, Ask, Decision

-----------------------------------------------------------------------------
(* The first state and the steps. *)

LEMMA Initially == Init => SessionInv
<1> SUFFICES ASSUME Init
             PROVE  SessionInv
  OBVIOUS
<1>1. ask \in [Step -> Ask] /\ \A s \in Step : ask[s].phase = "idle"
  BY NoAskTypes DEF Init
<1>2. prompts \in Seq(Step) /\ IsInjective(prompts) /\ Len(prompts) = 0
  BY DEF Init, IsInjective
<1>3. TypeOK
  <2>1. rules \in [Subject -> Decision \cup {"none"}]
    BY DEF Init
  <2>2. wait \in 0..ArmDelay /\ calm \in 0..ArmDelay
    BY SessionAssumption DEF Init
  <2> QED
    BY <1>1, <1>2, <2>1, <2>2 DEF Init, TypeOK
<1>4. PromptsAreOpen
  BY <1>1, <1>2 DEF PromptsAreOpen
<1> QED
  BY <1>3, <1>4 DEF SessionInv, Gate, Init

(* Requests that move among phases without a prompt. *)
LEMMA StepMovesKeep ==
  ASSUME SessionInv, NEW s \in Step, StepMoves(s)
  PROVE  SessionInv'
<1> USE DEF SessionInv
<1>1. QueueIsOpen(prompts, ask) /\ prompts \in Seq(Step) /\ IsInjective(prompts)
  BY QueueByPosition DEF PromptsAreOpen, TypeOK
<1>2. CASE Asks(s)
  <2>1. PICK a \in Ask : /\ Moves(s, a)
                        /\ a.phase \in {"judged", "withdrawn", "allowed", "denied"}
    BY <1>2 DEF Asks, Ask, Decision, Pending, Settled
  <2>2. /\ ask' \in [Step -> Ask]
        /\ ask'[s].phase \notin {"open", "leaving"}
        /\ \A t \in Step : t # s => ask'[t] = ask[t]
    BY <2>1 DEF Moves, TypeOK
  <2>3. ~In(s, prompts)
    BY <1>1, <1>2 DEF Asks, QueueIsOpen, Pending
  <2>4. QueueIsOpen(prompts', ask')
    BY <1>1, <1>2, <2>2, <2>3 DEF Asks, QueueIsOpen
  <2>5. TypeOK' /\ Gate'
    BY <1>2, <2>2, QueueUntouched DEF Asks, TypeOK
  <2> QED
    BY <1>1, <1>2, <2>4, <2>5, QueueByPosition DEF Asks, PromptsAreOpen
<1>3. CASE Opens(s)
  <2>1. /\ ask' \in [Step -> Ask]
        /\ ask'[s].phase = "open"
        /\ \A t \in Step : t # s => ask'[t] = ask[t]
    BY <1>3, MoveTypes DEF Opens, Pending
  <2>2. ~In(s, prompts)
    BY <1>1, <1>3 DEF Opens, QueueIsOpen
  <2>3. /\ prompts' \in Seq(Step) /\ Len(prompts') = Len(prompts) + 1
        /\ prompts'[Len(prompts) + 1] = s
        /\ \A k \in 1..Len(prompts) : prompts'[k] = prompts[k]
    BY <1>1, <1>3, AppendProperties DEF Opens
  <2>4. Len(prompts) \in Nat /\ DOMAIN prompts' = 1..(Len(prompts) + 1)
        /\ DOMAIN prompts = 1..Len(prompts)
    BY <1>1, <2>3
  <2>5. IsInjective(prompts')
    <3> SUFFICES ASSUME NEW a \in DOMAIN prompts', NEW b \in DOMAIN prompts',
                        prompts'[a] = prompts'[b]
                 PROVE  a = b
      BY Zenon DEF IsInjective
    <3>1. \A k \in 1..Len(prompts) : prompts[k] # s
      BY <2>2, <2>4, Zenon DEF In
    <3>2. \A j, k \in 1..Len(prompts) : prompts[j] = prompts[k] => j = k
      BY <1>1, <2>4, Zenon DEF IsInjective
    <3>3. \A k \in DOMAIN prompts' : k \in 1..Len(prompts) \/ k = Len(prompts) + 1
      BY <2>4
    <3>4. CASE a \in 1..Len(prompts) /\ b \in 1..Len(prompts)
      BY <2>3, <3>2, <3>4, Zenon
    <3>5. CASE a = Len(prompts) + 1 /\ b \in 1..Len(prompts)
      BY <2>3, <3>1, <3>5, Zenon
    <3>6. CASE a \in 1..Len(prompts) /\ b = Len(prompts) + 1
      BY <2>3, <3>1, <3>6, Zenon
    <3> QED
      BY <3>3, <3>4, <3>5, <3>6, Zenon
  <2>6. \A t \in Step : In(t, prompts') <=> In(t, prompts) \/ t = s
    BY <2>3, <2>4 DEF In
  <2>7. QueueIsOpen(prompts', ask')
    BY <1>1, <2>1, <2>6 DEF QueueIsOpen
  <2>8. prompts # <<>> => First(prompts') = First(prompts)
    BY <1>1, <2>3 DEF First
  <2>9. wait' \in 0..ArmDelay /\ calm' \in 0..ArmDelay /\ Gate'
    BY <1>3, <2>8, GateKept DEF Opens
  <2>10. TypeOK'
    BY <1>3, <2>1, <2>3, <2>5, <2>9 DEF Opens, TypeOK, driveVars
  <2>11. PromptsAreOpen'
    BY <2>3, <2>7, QueueByPosition, Zenon DEF PromptsAreOpen
  <2> QED
    BY <2>9, <2>10, <2>11
<1>4. CASE Resumes(s) \/ Withdraws(s)
  <2>1. PICK p \in {"allowed", "denied", "leaving"} :
          /\ Moves(s, [ask[s] EXCEPT !.phase = p])
          /\ p # "leaving" => ask[s].phase = "sent"
    BY <1>4 DEF Resumes, Withdraws
  <2>2. /\ ask' \in [Step -> Ask]
        /\ ask'[s].phase = p
        /\ \A t \in Step : t # s => ask'[t] = ask[t]
    BY <2>1, MoveTypes DEF Pending, Settled
  <2>3. UNCHANGED <<driveVars, prompts, rules, wait, calm>>
    BY <1>4 DEF Resumes, Withdraws
  <2>4. QueueIsOpen(prompts', ask')
    BY <1>1, <2>1, <2>2, <2>3 DEF QueueIsOpen
  <2>5. TypeOK' /\ Gate'
    BY <2>2, <2>3, QueueUntouched DEF TypeOK, driveVars
  <2> QED
    BY <1>1, <2>3, <2>4, <2>5, QueueByPosition DEF PromptsAreOpen
<1>5. CASE GuardDrops(s)
  <2>1. /\ ask' \in [Step -> Ask]
        /\ ask'[s].phase = "withdrawn"
        /\ \A t \in Step : t # s => ask'[t] = ask[t]
    BY <1>5, MoveTypes DEF GuardDrops, Settled
  <2>2. /\ prompts' \in Seq(Step) /\ IsInjective(prompts')
        /\ \A t : In(t, prompts') <=> In(t, prompts) /\ t # s
        /\ First(prompts) # {s} => First(prompts') = First(prompts)
    BY <1>1, <1>5, RemoveFirstProperties DEF GuardDrops, Without
  <2>3. QueueIsOpen(prompts', ask')
    BY <1>1, <2>1, <2>2 DEF QueueIsOpen
  <2>4. wait' \in 0..ArmDelay /\ calm' \in 0..ArmDelay /\ Gate'
    BY <1>5, <2>2, GateKept DEF GuardDrops, Rearmed
  <2>5. TypeOK'
    BY <1>5, <2>1, <2>2, <2>4 DEF GuardDrops, TypeOK, driveVars
  <2> QED
    BY <2>2, <2>3, <2>4, <2>5, QueueByPosition DEF PromptsAreOpen
<1>6. CASE CeilingReached(s)
  BY <1>6 DEF CeilingReached, TypeOK, PromptsAreOpen, Gate
<1> QED
  BY <1>2, <1>3, <1>4, <1>5, <1>6 DEF StepMoves

(* The queue without its first prompt. *)
LEMMA TailProperties ==
  ASSUME NEW S, NEW ps \in Seq(S), ps # <<>>, IsInjective(ps)
  PROVE  /\ Tail(ps) \in Seq(S) /\ IsInjective(Tail(ps))
         /\ ps[1] \in S /\ In(ps[1], ps)
         /\ \A t : In(t, Tail(ps)) <=> In(t, ps) /\ t # ps[1]
<1>1. /\ Tail(ps) \in Seq(S) /\ Len(Tail(ps)) = Len(ps) - 1
      /\ \A k \in 1..Len(Tail(ps)) : Tail(ps)[k] = ps[k + 1]
  BY HeadTailProperties
<1>2. Len(ps) \in Nat /\ Len(ps) > 0 /\ DOMAIN ps = 1..Len(ps)
      /\ DOMAIN Tail(ps) = 1..(Len(ps) - 1)
  BY <1>1
<1>3. IsInjective(Tail(ps))
  BY <1>1, <1>2 DEF IsInjective
<1>4. ps[1] \in S /\ In(ps[1], ps)
  BY <1>2 DEF In
<1>5. ASSUME NEW t
      PROVE  In(t, Tail(ps)) <=> In(t, ps) /\ t # ps[1]
  <2>1. ASSUME In(t, Tail(ps))
        PROVE  In(t, ps) /\ t # ps[1]
    BY <1>1, <1>2, <2>1 DEF In, IsInjective
  <2>2. ASSUME In(t, ps), t # ps[1]
        PROVE  In(t, Tail(ps))
    <3>1. PICK k \in 1..Len(ps) : ps[k] = t
      BY <2>2 DEF In
    <3>2. k - 1 \in 1..Len(Tail(ps)) /\ Tail(ps)[k - 1] = t
      BY <1>1, <1>2, <2>2, <3>1
    <3> QED
      BY <3>2 DEF In
  <2> QED
    BY <2>1, <2>2
<1> QED
  BY <1>1, <1>3, <1>4, <1>5

(* The first prompt answered, whoever is there to take it. *)
LEMMA AnswerKeeps ==
  ASSUME SessionInv, prompts # <<>>,
         NEW decision \in Decision, NEW forSession \in BOOLEAN,
         Answer(decision, forSession)
  PROVE  SessionInv'
<1> DEFINE s == prompts[1]
<1>1. /\ QueueIsOpen(prompts, ask) /\ prompts \in Seq(Step)
      /\ IsInjective(prompts) /\ ask \in [Step -> Ask]
  BY QueueByPosition DEF SessionInv, PromptsAreOpen, TypeOK
<1>2. /\ prompts' \in Seq(Step) /\ IsInjective(prompts')
      /\ s \in Step
      /\ \A t : In(t, prompts') <=> In(t, prompts) /\ t # s
  BY <1>1, TailProperties DEF Answer
<1>3. /\ ask' \in [Step -> Ask]
      /\ \A t \in Step : t # s => ask'[t] = ask[t]
      /\ ask'[s].phase # "open"
  <2>1. CASE ask[s].phase = "open"
    <3>1. [phase |-> "sent", subject |-> ask[s].subject, decision |-> decision] \in Ask
      BY <1>1, <1>2 DEF Ask, Pending
    <3>2. ask' = [ask EXCEPT ![s] = [phase |-> "sent", subject |-> ask[s].subject,
                                     decision |-> decision]]
      BY <2>1 DEF Answer
    <3> QED
      BY <1>1, <1>2, <3>1, <3>2
  <2>2. CASE ask[s].phase # "open"
    BY <1>1, <2>2 DEF Answer
  <2> QED
    BY <2>1, <2>2
<1>4. QueueIsOpen(prompts', ask')
  BY <1>1, <1>2, <1>3 DEF QueueIsOpen
<1>5. rules' \in [Subject -> Decision \cup {"none"}]
  BY DEF Answer, SessionInv, TypeOK
<1>6. wait' \in 0..ArmDelay /\ calm' \in 0..ArmDelay /\ Gate'
  BY GateKept DEF Answer, Rearmed, SessionInv
<1>7. TypeOK'
  BY <1>2, <1>3, <1>5, <1>6 DEF Answer, SessionInv, TypeOK, driveVars
<1> QED
  BY <1>2, <1>4, <1>6, <1>7, QueueByPosition DEF SessionInv, PromptsAreOpen

(* Time passing brings the gate's end as near as it adds to the calm. *)
LEMMA TickKeeps ==
  ASSUME SessionInv, Tick
  PROVE  SessionInv'
<1>1. ArmDelay \in Nat /\ wait \in 0..ArmDelay /\ calm \in 0..ArmDelay
  BY SessionAssumption DEF SessionInv, TypeOK
<1>2. wait' \in 0..ArmDelay /\ calm' \in 0..ArmDelay
  BY <1>1 DEF Tick
<1>3. prompts # <<>> => calm' + wait' >= ArmDelay
  BY <1>1 DEF Tick, SessionInv, Gate
<1> QED
  BY <1>2, <1>3 DEF Tick, SessionInv, TypeOK, PromptsAreOpen, Gate, driveVars

(* A turn returns or is dropped with no prompt open: nothing is left. *)
LEMMA AllSettled ==
  ASSUME SessionInv, prompts = <<>> \/ \A s \in Step : ask[s].phase \notin Pending,
         ask' = [s \in Step |-> NoAsk], UNCHANGED <<prompts, wait, calm>>
  PROVE  /\ ask' \in [Step -> Ask]
         /\ PromptsAreOpen' /\ Gate'
<1>1. prompts = <<>>
  <2>1. CASE \A s \in Step : ask[s].phase \notin Pending
    <3>1. \A k \in 1..Len(prompts) : prompts[k] \in Step /\ ask[prompts[k]].phase \in Pending
      BY DEF SessionInv, TypeOK, PromptsAreOpen, Pending
    <3>2. Len(prompts) \in Nat /\ ~(1 \in 1..Len(prompts))
      BY <2>1, <3>1 DEF SessionInv, TypeOK
    <3> QED
      BY <3>2 DEF SessionInv, TypeOK
  <2> QED
    BY <2>1
<1>2. ask' \in [Step -> Ask] /\ \A s \in Step : ask'[s].phase = "idle"
  BY NoAskTypes
<1> QED
  BY <1>1, <1>2 DEF PromptsAreOpen, Gate

THEOREM Invariance == SessionInv /\ [Next]_vars => SessionInv'
<1> SUFFICES ASSUME SessionInv, [Next]_vars
             PROVE  SessionInv'
  OBVIOUS
<1>1. CASE \E s \in Step : StepMoves(s)
  BY <1>1, StepMovesKeep
<1>2. CASE KeyEsc
  BY <1>2, AnswerKeeps DEF KeyEsc, Decision
<1>3. CASE KeyLetter
  BY <1>3, AnswerKeeps DEF KeyLetter
<1>4. CASE KeyOther
  <2>1. wait' \in 0..ArmDelay /\ calm' \in 0..ArmDelay /\ calm' + wait' >= ArmDelay
    BY <1>4, SessionAssumption DEF KeyOther
  <2> QED
    BY <1>4, <2>1 DEF KeyOther, SessionInv, TypeOK, PromptsAreOpen, Gate, driveVars
<1>5. CASE Tick
  BY <1>5, TickKeeps
<1>6. CASE ForceExit \/ TurnReturns
  <2>1. ask' \in [Step -> Ask] /\ PromptsAreOpen' /\ Gate'
    BY <1>6, AllSettled DEF ForceExit, TurnReturns
  <2> QED
    BY <1>6, <2>1 DEF ForceExit, TurnReturns, SessionInv, TypeOK
<1>7. CASE KeyCancel \/ ExitIdle \/ ExitRunning \/ KeysClose \/ Submit \/ UNCHANGED vars
  <2>1. /\ UNCHANGED <<ceiling, ask, prompts, rules, wait, calm>>
        /\ drive' \in {"idle", "running", "closing", "over", "forced"}
        /\ exiting' \in BOOLEAN /\ token' \in BOOLEAN
    BY <1>7 DEF KeyCancel, ExitIdle, ExitRunning, KeysClose, Submit, vars, SessionInv, TypeOK
  <2> QED
    BY <2>1 DEF SessionInv, TypeOK, PromptsAreOpen, Gate
<1> QED
  BY <1>1, <1>2, <1>3, <1>4, <1>5, <1>6, <1>7 DEF Next, Keyboard

-----------------------------------------------------------------------------
(* Results. *)

(* What an answer changes, when its letter was struck in time or it denies. *)
LEMMA AnswerIsDeliberate ==
  ASSUME SessionInv, prompts # <<>>,
         NEW decision \in Decision, NEW forSession \in BOOLEAN,
         Answer(decision, forSession),
         calm = ArmDelay \/ (decision = "deny" /\ forSession = FALSE)
  PROVE  /\ \A s \in Step :
              ask[s].phase = "open" /\ ask'[s].phase = "sent" /\ ask'[s].decision = "allow"
                => calm = ArmDelay
         /\ \A x \in Subject : rules'[x] # rules[x] =>
              /\ calm = ArmDelay
              /\ \E s \in Step : /\ ask[s].phase = "open" /\ ask'[s].phase = "sent"
                               /\ ask'[s].subject = x /\ ask'[s].decision = rules'[x]
<1>1. CASE calm = ArmDelay
  <2>1. ASSUME NEW x \in Subject, rules'[x] # rules[x]
        PROVE  /\ ask[prompts[1]].phase = "open" /\ ask'[prompts[1]].phase = "sent"
               /\ ask'[prompts[1]].subject = x /\ ask'[prompts[1]].decision = rules'[x]
    <3>1. ask \in [Step -> Ask] /\ prompts[1] \in Step /\ rules \in [Subject -> Decision \cup {"none"}]
      BY TailProperties DEF SessionInv, TypeOK
    <3>2. /\ ask[prompts[1]].phase = "open"
          /\ rules' = [rules EXCEPT ![ask[prompts[1]].subject] = decision]
          /\ ask' = [ask EXCEPT ![prompts[1]] =
                       [phase |-> "sent", subject |-> ask[prompts[1]].subject, decision |-> decision]]
      BY <2>1 DEF Answer
    <3>3. ask[prompts[1]].subject = x
      BY <2>1, <3>1, <3>2
    <3> QED
      BY <3>1, <3>2, <3>3
  <2> QED
    BY <1>1, <2>1, TailProperties DEF SessionInv, TypeOK
<1>2. CASE decision = "deny" /\ forSession = FALSE
  <2>1. rules' = rules
    BY <1>2 DEF Answer
  <2>2. ASSUME NEW s \in Step,
               ask[s].phase = "open", ask'[s].phase = "sent"
        PROVE  ask'[s].decision = "deny"
    <3>1. ask \in [Step -> Ask] /\ prompts[1] \in Step
      BY TailProperties DEF SessionInv, TypeOK
    <3>2. s = prompts[1]
      BY <2>2, <3>1 DEF Answer
    <3>3. ask' = [ask EXCEPT ![s] = [phase |-> "sent", subject |-> ask[s].subject,
                                     decision |-> "deny"]]
      BY <1>2, <2>2, <3>2 DEF Answer
    <3> QED
      BY <3>1, <3>2, <3>3
  <2> QED
    BY <2>1, <2>2
<1> QED
  BY <1>1, <1>2

LEMMA DeliberateStep ==
  ASSUME SessionInv, [Next]_vars
  PROVE  /\ \A s \in Step :
              ask[s].phase = "open" /\ ask'[s].phase = "sent" /\ ask'[s].decision = "allow"
                => calm = ArmDelay
         /\ \A x \in Subject : rules'[x] # rules[x] =>
              /\ calm = ArmDelay
              /\ \E s \in Step : /\ ask[s].phase = "open" /\ ask'[s].phase = "sent"
                               /\ ask'[s].subject = x /\ ask'[s].decision = rules'[x]
<1> USE DEF SessionInv
<1>1. ASSUME NEW s \in Step, StepMoves(s)
      PROVE  rules' = rules /\ \A t \in Step : ask[t].phase = "open" => ask'[t].phase # "sent"
  <2>1. rules' = rules
    BY <1>1 DEF StepMoves, Asks, Opens, Resumes, Withdraws, GuardDrops, CeilingReached
  <2>2. CASE Asks(s) \/ CeilingReached(s)
    BY <1>1, <2>2 DEF Asks, CeilingReached, Moves, Pending, TypeOK
  <2>3. CASE Opens(s) \/ Resumes(s) \/ Withdraws(s) \/ GuardDrops(s)
    <3>1. PICK p \in {"open", "allowed", "denied", "leaving", "withdrawn"} :
            Moves(s, [ask[s] EXCEPT !.phase = p])
      BY <2>3 DEF Opens, Resumes, Withdraws, GuardDrops
    <3>2. ask'[s].phase = p /\ \A t \in Step : t # s => ask'[t] = ask[t]
      BY <1>1, <3>1, MoveTypes DEF Pending, Settled
    <3> QED
      BY <2>1, <3>2
  <2> QED
    BY <1>1, <2>1, <2>2, <2>3 DEF StepMoves
<1>2. CASE KeyEsc
  BY <1>2, AnswerIsDeliberate DEF KeyEsc, Decision
<1>3. CASE KeyLetter
  <2>1. calm = ArmDelay
    BY <1>3, SessionAssumption DEF KeyLetter, Gate, TypeOK
  <2> QED
    BY <1>3, <2>1, AnswerIsDeliberate DEF KeyLetter
<1>4. CASE ForceExit \/ TurnReturns
  BY <1>4, NoAskTypes DEF ForceExit, TurnReturns
<1>5. CASE KeyOther \/ Tick \/ KeyCancel \/ ExitIdle \/ ExitRunning \/ KeysClose \/ Submit
             \/ UNCHANGED vars
  BY <1>5 DEF KeyOther, Tick, KeyCancel, ExitIdle, ExitRunning, KeysClose, Submit, vars
<1> QED
  BY <1>1, <1>2, <1>3, <1>4, <1>5 DEF Next, Keyboard

(* The types of the session's state (gwennol-cli/src/tui). *)
THEOREM TypeCorrect == Spec => []TypeOK
<1>1. SessionInv => TypeOK
  BY DEF SessionInv
<1> QED
  BY Initially, Invariance, <1>1, PTL DEF Spec

(* However many steps ask, leave and are answered, the prompt queue is the *)
(* open questions (PromptGuard).                                           *)
THEOREM AlwaysPromptsAreOpen == Spec => []PromptsAreOpen
<1>1. SessionInv => PromptsAreOpen
  BY DEF SessionInv
<1> QED
  BY Initially, Invariance, <1>1, PTL DEF Spec

(* Whatever the delay, nobody allows or remembers what they have not had   *)
(* before them for all of it (ARM_DELAY, prompt::key).                     *)
THEOREM AlwaysDeliberate == Spec => Deliberate
<1>1. SessionInv /\ [Next]_vars =>
        [/\ \A s \in Step :
              ask[s].phase = "open" /\ ask'[s].phase = "sent" /\ ask'[s].decision = "allow"
                => calm = ArmDelay
         /\ \A x \in Subject : rules'[x] # rules[x] =>
              /\ calm = ArmDelay
              /\ \E s \in Step : /\ ask[s].phase = "open" /\ ask'[s].phase = "sent"
                               /\ ask'[s].subject = x /\ ask'[s].decision = rules'[x]]_vars
  BY DeliberateStep
<1> QED
  BY Initially, Invariance, <1>1, PTL DEF Spec, Deliberate

-----------------------------------------------------------------------------
(* The terminal. *)

Place == {"start", "screen", "kitty", "flush", "failed", "built", "drive", "drop", "undo",
          "clear", "over"}

Terminal == [raw : BOOLEAN, alternate : BOOLEAN, paste : BOOLEAN, keyboard : Nat]

ScreenTypes ==
  /\ place \in Place
  /\ bits \subseteq Bit /\ still \subseteq Bit /\ entered \subseteq Bit /\ hook \subseteq Bit
  /\ terminal \in Terminal
  /\ hooking \in BOOLEAN /\ unpushed \in BOOLEAN /\ overlapped \in BOOLEAN
  /\ panics \in Nat

owed == hook \cup (IF place = "clear" THEN {} ELSE entered)

(* Who has which bit, place by place. *)
Accounts ==
  /\ entered \subseteq bits
  /\ entered \cap hook = {}
  /\ ~hooking => hook = {}
  /\ place \notin {"drive", "drop", "undo", "clear", "over"} \/ panics = 0 => ~hooking
  /\ place = "start" => bits = {}
  /\ place = "screen" => bits = {"RAW"}
  /\ place = "kitty" => "KITTY" \notin bits
  /\ place \in {"screen", "kitty", "flush", "failed"} => entered = bits
  /\ place = "over" => entered = {}
  /\ place = "undo" /\ ~overlapped => still = entered

(* What is not as it was is owed; of the keyboard's stack, exactly what is owed. *)
Kept ==
  /\ terminal.raw => "RAW" \in owed
  /\ terminal.alternate \/ terminal.paste => "SCREEN" \in owed
  /\ ~unpushed => terminal.keyboard = IF "KITTY" \in owed THEN 2 ELSE 1

(* What the session draws on. *)
Drawable ==
  /\ place = "screen" => terminal.raw
  /\ place \in {"kitty", "flush", "built", "drive"} /\ panics = 0 =>
       terminal.raw /\ terminal.alternate /\ terminal.paste

ScreenInv == ScreenTypes /\ Accounts /\ (~overlapped => Kept) /\ Drawable

-----------------------------------------------------------------------------
(* undo has its value among terminals. *)
LEMMA UndoType ==
  ASSUME NEW t \in Terminal, NEW what
  PROVE  undo(t, what) \in Terminal
BY DEF undo, Terminal

(* What a session begins with. *)
LEMMA InitScreen == ScreenInit => ScreenInv
<1> SUFFICES ASSUME ScreenInit PROVE ScreenInv
  OBVIOUS
<1>1. ScreenTypes
  BY DEF ScreenInit, ScreenTypes, Place, Terminal, Before, Bit
<1>2. Accounts
  BY DEF ScreenInit, Accounts
<1>3. Kept
  BY DEF ScreenInit, Kept, Before, owed
<1>4. Drawable
  BY DEF ScreenInit, Drawable
<1> QED
  BY <1>1, <1>2, <1>3, <1>4 DEF ScreenInv

(* Entering, step by step. *)
LEMMA EnterScreenInv ==
  ASSUME ScreenInv, EnableRaw \/ EnterScreen \/ EnterKitty \/ Flush \/ EnterFails
  PROVE  ScreenInv'
<1> USE DEF ScreenInv, ScreenTypes, Place, Bit, Accounts, Kept, owed, Drawable, elsewhere
<1>1. CASE EnableRaw
  BY <1>1 DEF EnableRaw, Terminal
<1>2. CASE EnterScreen
  <2>1. PICK queued \in 0..2 :
          /\ terminal' = [terminal EXCEPT !.alternate = queued > 0, !.paste = queued = 2]
          /\ place' \in IF queued = 2 THEN {"kitty", "flush"} ELSE {"failed"}
    BY <1>2 DEF EnterScreen
  <2>2. /\ place = "screen" /\ place' \in {"kitty", "flush", "failed"}
        /\ bits' = bits \cup {"SCREEN"} /\ entered' = entered \cup {"SCREEN"}
        /\ UNCHANGED <<still, unpushed, hook, hooking, panics, overlapped>>
    BY <1>2, <2>1 DEF EnterScreen, Marks
  <2>3. /\ terminal' \in Terminal
        /\ terminal'.raw = terminal.raw /\ terminal'.keyboard = terminal.keyboard
        /\ place' # "failed" => terminal'.alternate /\ terminal'.paste
    <3>1. terminal \in Terminal
      OBVIOUS
    <3> HIDE DEF ScreenInv, ScreenTypes, Place, Bit, Accounts, Kept, owed, Drawable, elsewhere
    <3> DEFINE a == queued > 0
               p == queued = 2
    <3>2. a \in BOOLEAN /\ p \in BOOLEAN /\ (place' # "failed" => a /\ p)
      BY <2>1
    <3>3. terminal' = [terminal EXCEPT !.alternate = a, !.paste = p]
      BY <2>1
    <3> HIDE DEF a, p
    <3>4. /\ terminal' \in Terminal
          /\ terminal'.raw = terminal.raw /\ terminal'.keyboard = terminal.keyboard
          /\ terminal'.alternate = a /\ terminal'.paste = p
      BY <3>1, <3>2, <3>3, Zenon DEF Terminal
    <3> QED
      BY <3>2, <3>4
  <2>4. ScreenTypes'
    BY <2>2, <2>3
  <2>5. Accounts'
    BY <2>2
  <2>6. Drawable'
    BY <2>2, <2>3
  <2>7. owed' = owed \cup {"SCREEN"}
    BY <2>2
  <2>8. ASSUME ~overlapped PROVE Kept'
    <3> HIDE DEF owed, Accounts, Drawable
    <3> QED
      BY <2>2, <2>3, <2>7, <2>8
  <2> QED
    BY <2>2, <2>4, <2>5, <2>6, <2>8
<1>3. CASE EnterKitty
  <2>1. /\ place = "kitty" /\ place' \in {"flush", "failed"}
        /\ bits' = bits \cup {"KITTY"} /\ entered' = entered \cup {"KITTY"}
        /\ UNCHANGED <<still, hook, hooking, panics, overlapped>>
    BY <1>3 DEF EnterKitty, Marks
  <2>2. \/ terminal' = [terminal EXCEPT !.keyboard = @ + 1] /\ unpushed' = unpushed
        \/ terminal' = terminal /\ unpushed' = TRUE /\ place' = "failed"
    BY <1>3 DEF EnterKitty
  <2>3. /\ terminal' \in Terminal /\ unpushed' \in BOOLEAN
        /\ terminal'.raw = terminal.raw /\ terminal'.alternate = terminal.alternate
        /\ terminal'.paste = terminal.paste
        /\ ~unpushed' => ~unpushed /\ terminal'.keyboard = terminal.keyboard + 1
    <3>1. terminal \in Terminal /\ unpushed \in BOOLEAN
      OBVIOUS
    <3> HIDE DEF ScreenInv, ScreenTypes, Place, Bit, Accounts, Kept, owed, Drawable, elsewhere
    <3>2. CASE terminal' = [terminal EXCEPT !.keyboard = @ + 1] /\ unpushed' = unpushed
      BY <3>1, <3>2 DEF Terminal
    <3>3. CASE terminal' = terminal /\ unpushed' = TRUE
      BY <3>1, <3>3 DEF Terminal
    <3> QED
      BY <2>2, <3>2, <3>3
  <2>4. ScreenTypes'
    BY <2>1, <2>3
  <2>5. Accounts'
    BY <2>1
  <2>6. Drawable'
    BY <2>1, <2>3
  <2>7. "KITTY" \notin owed /\ owed' = owed \cup {"KITTY"}
    BY <2>1
  <2>8. ASSUME ~overlapped PROVE Kept'
    <3> HIDE DEF owed, Accounts, Drawable
    <3> QED
      BY <2>3, <2>7, <2>8
  <2> QED
    BY <2>1, <2>4, <2>5, <2>6, <2>8
<1>4. CASE Flush
  BY <1>4 DEF Flush
<1>5. CASE EnterFails
  <2>1. terminal' \in Terminal
    BY <1>5, UndoType DEF EnterFails
  <2> QED
    BY <1>5, <2>1 DEF EnterFails, undo
<1> QED
  BY <1>1, <1>2, <1>3, <1>4, <1>5

(* Leaving: the session's end, the guard's three steps, and the session's own panic. *)
LEMMA LeaveScreenInv ==
  ASSUME ScreenInv, Drive \/ LeaveDrive \/ DropLooks \/ DropUndoes \/ DropClears \/ Panic
  PROVE  ScreenInv'
<1> USE DEF ScreenInv, ScreenTypes, Place, Bit, Accounts, Kept, owed, Drawable, elsewhere
<1>1. CASE Drive \/ LeaveDrive
  <2>1. /\ place \in {"built", "drive"} /\ place' \in {"drive", "drop"}
        /\ UNCHANGED <<bits, still, entered, terminal, unpushed, hook, hooking, panics, overlapped>>
    BY <1>1 DEF Drive, LeaveDrive
  <2>2. ScreenTypes' /\ Drawable'
    BY <2>1
  <2>3. Accounts'
    BY <2>1
  <2>4. Kept' <=> Kept
    BY <2>1
  <2> QED
    BY <2>1, <2>2, <2>3, <2>4
<1>2. CASE DropLooks
  BY <1>2 DEF DropLooks, Looks
<1>3. CASE DropUndoes
  <2>1. terminal' \in Terminal
    BY <1>3, UndoType DEF DropUndoes
  <2> QED
    BY <1>3, <2>1 DEF DropUndoes, undo
<1>4. CASE DropClears
  BY <1>4 DEF DropClears
<1>5. CASE Panic
  <2>1. terminal' \in Terminal
    BY <1>5, UndoType DEF Panic
  <2> QED
    BY <1>5, <2>1 DEF Panic, undo
<1> QED
  BY <1>1, <1>2, <1>3, <1>4, <1>5

(* Another thread's hook, which takes the bits in one step and undoes them in another. *)
LEMMA ElsewhereScreenInv ==
  ASSUME ScreenInv, PanicElsewhere \/ HookUndoes
  PROVE  ScreenInv'
<1> USE DEF ScreenInv, ScreenTypes, Place, Bit, Accounts, Kept, owed, Drawable
<1>1. CASE PanicElsewhere
  <2>0. panics' \in Nat /\ panics' # 0
    BY <1>1 DEF PanicElsewhere
  <2>1. ScreenTypes' /\ Drawable'
    BY <1>1, <2>0 DEF PanicElsewhere
  <2>2. Accounts'
    <3>1. /\ place' = place /\ place \in {"drive", "drop", "undo", "clear"}
          /\ bits' = bits /\ still' = still /\ entered' = {} /\ hooking'
          /\ place = "undo" => overlapped'
      BY <1>1 DEF PanicElsewhere
    <3> QED
      BY <2>0, <3>1
  <2>3. ASSUME ~overlapped' PROVE Kept'
    <3>1. owed' = owed /\ ~overlapped /\ UNCHANGED <<terminal, unpushed>>
      BY <1>1, <2>3 DEF PanicElsewhere
    <3> QED
      BY <3>1
  <2> QED
    BY <2>1, <2>2, <2>3
<1>2. CASE HookUndoes
  <2>1. terminal' \in Terminal
    BY <1>2, UndoType DEF HookUndoes
  <2>2. ScreenTypes' /\ Accounts' /\ Drawable'
    BY <1>2, <2>1 DEF HookUndoes
  <2>3. owed' = owed \ hook
    BY <1>2 DEF HookUndoes
  <2>4. ASSUME ~overlapped PROVE Kept'
    <3>1. terminal' = undo(terminal, hook) /\ ~overlapped /\ UNCHANGED unpushed
      BY <1>2, <2>4 DEF HookUndoes
    <3>2. hook \subseteq owed
      OBVIOUS
    <3> HIDE DEF owed, Accounts, Drawable
    <3> QED
      BY <2>3, <2>4, <3>1, <3>2 DEF undo, Terminal
  <2>5. overlapped' = overlapped
    BY <1>2 DEF HookUndoes
  <2> QED
    BY <2>2, <2>4, <2>5
<1> QED
  BY <1>1, <1>2

(* The whole, as an invariant. *)
LEMMA ScreenInvHolds == ScreenSpec => []ScreenInv
<1>1. ASSUME ScreenInv, ScreenNext PROVE ScreenInv'
  BY <1>1, EnterScreenInv, LeaveScreenInv, ElsewhereScreenInv DEF ScreenNext
<1>2. ASSUME ScreenInv, UNCHANGED screenVars PROVE ScreenInv'
  BY <1>2 DEF screenVars, ScreenInv, ScreenTypes, Accounts, Kept, owed, Drawable
<1>3. ScreenInv /\ [ScreenNext]_screenVars => ScreenInv'
  BY <1>1, <1>2
<1> QED
  BY InitScreen, <1>3, PTL DEF ScreenSpec

(* Every way out, the session's end, a failed start, a panic of its own or of any number of
   other threads, leaves the terminal as it was found and undoes nothing twice.             *)
THEOREM AlwaysRestored == ScreenSpec => []TerminalIsRestored
<1>1. ScreenInv => TerminalIsRestored
  <2> SUFFICES ASSUME ScreenInv PROVE TerminalIsRestored
    OBVIOUS
  <2>1. ASSUME place = "over", ~hooking, ~overlapped
        PROVE  ~terminal.raw /\ ~terminal.alternate /\ ~terminal.paste
    <3>1. owed = {}
      BY <2>1 DEF ScreenInv, Accounts, owed
    <3> QED
      BY <2>1, <3>1 DEF ScreenInv, Kept
  <2>2. ASSUME ~overlapped, ~unpushed
        PROVE  /\ terminal.keyboard >= Before.keyboard
               /\ place = "over" /\ ~hooking => terminal.keyboard = Before.keyboard
    BY <2>2 DEF ScreenInv, Accounts, Kept, owed, Before
  <2>3. place = "drive" /\ panics = 0 => terminal.raw /\ terminal.alternate /\ terminal.paste
    BY DEF ScreenInv, Drawable
  <2> QED
    BY <2>1, <2>2, <2>3 DEF TerminalIsRestored
<1> QED
  BY <1>1, ScreenInvHolds, PTL

-----------------------------------------------------------------------------
(* A run of the command: its exit status. *)

BeforeTheTurn ==
  {"main", "workspace", "print", "session", "files", "policy", "secrets", "plugins",
   "register", "provider", "harvest"}

Stages == BeforeTheTurn \cup {"turn", "drive", "transcript", "writing", "done", "exit"}

Endings == {"completed", "failed", "cancelled"}

(* What a run has done and not yet done, stage by stage. *)
StageInv ==
  /\ stage \in Stages
  /\ stage \notin {"main", "exit"} => mode \in {"print", "session"}
  /\ stage # "exit" => status = None /\ why = None
  /\ stage \in BeforeTheTurn => secret.pair = None /\ listening = 0
  /\ stage \in BeforeTheTurn \cup {"turn", "drive"} => ending = None /\ report = "untouched"
  /\ stage \in {"transcript", "writing"} => ending \in Endings /\ cli.transcript
  /\ stage = "transcript" => report = "untouched"
  /\ stage = "writing" => report = "half"
  /\ stage = "done" => ending \in Endings /\ (cli.transcript => report = "whole")

(* Every press is taken once, and only the task that listens takes it. *)
InterruptInv ==
  /\ pressed \in Nat /\ listening \in 0..2 /\ signalled \in BOOLEAN
  /\ listening = 0 => ~signalled
  /\ listening = 1 /\ signalled => pressed >= 1
  /\ listening = 2 => pressed >= 1
  /\ listening = 2 /\ signalled => pressed >= 2
  /\ ending = "cancelled" => pressed >= 1

StatusInv == StageInv /\ InterruptInv /\ StatusTellsTheRun

LEMMA StatusInitially == RunInit => StatusInv
<1> SUFFICES ASSUME RunInit PROVE StatusInv
  OBVIOUS
<1>1. /\ stage = "main" /\ secret = [pair |-> None] /\ ending = None /\ listening = 0
      /\ signalled = FALSE /\ pressed = 0 /\ report = "untouched" /\ status = None /\ why = None
  BY DEF RunInit
<1>2. secret.pair = None
  BY <1>1
<1>3. StageInv
  BY <1>1, <1>2 DEF StageInv, Stages, BeforeTheTurn, None
<1>4. InterruptInv
  <2>1. signalled \in BOOLEAN /\ ~signalled
    BY <1>1
  <2>2. pressed \in Nat /\ listening \in 0..2 /\ listening = 0 /\ ending # "cancelled"
    BY <1>1 DEF None
  <2> QED
    BY ONLY <2>1, <2>2 DEF InterruptInv
<1>5. StatusTellsTheRun
  BY <1>1 DEF StatusTellsTheRun, None
<1> QED
  BY <1>3, <1>4, <1>5 DEF StatusInv

(* A step of startup: it ends the run for a reason, or goes on to the next input. *)
Onward(next) ==
  /\ stage \in BeforeTheTurn
  /\ UNCHANGED <<cli, running>>
  /\ \/ \E what : what # None /\ Fatal(what)
     \/ next \in BeforeTheTurn \cup {"turn", "drive"} /\ To(next)
  /\ mode' \in {"print", "session"}

LEMMA FaultsAreSomething == \A what \in Faults \cup {"transcript", "model", "session"} : what # None
BY DEF Faults, None

LEMMA CheckedGoesOn ==
  ASSUME NEW what \in Faults, NEW next, Checked(what, next)
  PROVE  (what # None /\ Fatal(what)) \/ To(next)
BY FaultsAreSomething DEF Checked

LEMMA StatusOnward ==
  ASSUME StatusInv, NEW next, Onward(next)
  PROVE  StatusInv'
<1> USE DEF None
<1>1. /\ stage \in BeforeTheTurn /\ stage # "exit"
      /\ cli' = cli /\ secret' = secret /\ ending' = ending /\ listening' = listening
      /\ signalled' = signalled /\ pressed' = pressed /\ report' = report
      /\ mode' \in {"print", "session"}
  BY DEF Onward, running, interrupts, BeforeTheTurn
<1>2. /\ status = None /\ why = None /\ secret.pair = None /\ listening = 0
      /\ ending = None /\ report = "untouched"
  BY <1>1 DEF StatusInv, StageInv
<1>3. InterruptInv'
  BY <1>1 DEF StatusInv, InterruptInv
<1>4. ASSUME NEW what, what # None, Fatal(what)
      PROVE  StageInv' /\ StatusTellsTheRun'
  <2>1. status' = "2" /\ stage' = "exit" /\ why' = what
    BY <1>4 DEF Fatal, Exit
  <2>2. StageInv'
    BY <1>1, <1>2, <2>1 DEF StageInv, Stages, BeforeTheTurn
  <2>3. StatusTellsTheRun'
    BY <1>1, <1>2, <1>4, <2>1 DEF StatusTellsTheRun
  <2> QED
    BY <2>2, <2>3
<1>5. ASSUME next \in BeforeTheTurn \cup {"turn", "drive"}, To(next)
      PROVE  StageInv' /\ StatusTellsTheRun'
  <2>1. status' = None /\ stage' = next /\ why' = None
    BY <1>2, <1>5 DEF To
  <2>2. StageInv'
    BY <1>1, <1>2, <1>5, <2>1 DEF StageInv, Stages, BeforeTheTurn
  <2>3. StatusTellsTheRun'
    BY <1>1, <1>2, <2>1 DEF StatusTellsTheRun
  <2> QED
    BY <2>2, <2>3
<1> QED
  BY <1>3, <1>4, <1>5 DEF Onward, StatusInv

(* Which actions are steps of startup. *)
Starting ==
  Main \/ Workspace \/ PrintRun \/ SessionRun \/ ReadFiles \/ CompilePolicy
  \/ CollectSecrets \/ FindPlugins \/ Register \/ Configure \/ NewSession

LEMMA StartingGoesOnward ==
  ASSUME StatusInv, Starting
  PROVE  \E next : Onward(next)
<1>1. CASE Main
  <2>1. /\ stage = "main" /\ mode' = choose_mode /\ UNCHANGED <<cli, running>>
        /\ Checked("log", "workspace")
    BY <1>1 DEF Main, inputs
  <2>2. choose_mode \in {"print", "session"}
    BY DEF choose_mode
  <2> QED
    BY <2>1, <2>2, CheckedGoesOn DEF Onward, BeforeTheTurn, Faults
<1>2. CASE Workspace
  <2>1. /\ stage = "workspace" /\ mode' = mode /\ UNCHANGED <<cli, running>>
        /\ Checked("workspace", mode)
    BY <1>2 DEF Workspace, inputs, kept
  <2>2. mode \in {"print", "session"}
    BY <2>1 DEF StatusInv, StageInv
  <2> QED
    BY <2>1, <2>2, CheckedGoesOn DEF Onward, BeforeTheTurn, Faults
<1>3. ASSUME stage \in BeforeTheTurn \ {"main"}, mode' = mode
      PROVE  mode' \in {"print", "session"}
  BY <1>3 DEF StatusInv, StageInv, BeforeTheTurn
<1>4. CASE PrintRun
  <2>1. /\ stage = "print" /\ mode' = mode /\ UNCHANGED <<cli, running>>
        /\ Checked("task", "files")
    BY <1>4 DEF PrintRun, inputs, kept
  <2> QED
    BY <2>1, <1>3, CheckedGoesOn DEF Onward, BeforeTheTurn, Faults
<1>5. CASE SessionRun
  <2>1. /\ stage = "session" /\ mode' = mode /\ UNCHANGED <<cli, running>>
        /\ Fatal("transcript") \/ To("files")
    BY <1>5 DEF SessionRun, inputs, kept
  <2> QED
    BY <2>1, <1>3, FaultsAreSomething DEF Onward, BeforeTheTurn
<1>6. CASE ReadFiles
  <2>1. /\ stage = "files" /\ mode' = mode /\ UNCHANGED <<cli, running>>
        /\ Fatal("config") \/ Checked("policy", "policy")
    BY <1>6 DEF ReadFiles, inputs, kept
  <2> QED
    BY <2>1, <1>3, CheckedGoesOn, FaultsAreSomething DEF Onward, BeforeTheTurn, Faults
<1>7. CASE CompilePolicy
  <2>1. /\ stage = "policy" /\ mode' = mode /\ UNCHANGED <<cli, running>>
        /\ Checked("rules", "secrets")
    BY <1>7 DEF CompilePolicy, inputs
  <2> QED
    BY <2>1, <1>3, CheckedGoesOn DEF Onward, BeforeTheTurn, Faults
<1>8. CASE CollectSecrets
  <2>1. /\ stage = "secrets" /\ mode' = mode /\ UNCHANGED <<cli, running>>
        /\ Checked("secrets", "plugins")
    BY <1>8 DEF CollectSecrets, inputs
  <2> QED
    BY <2>1, <1>3, CheckedGoesOn DEF Onward, BeforeTheTurn, Faults
<1>9. CASE FindPlugins
  <2>1. /\ stage = "plugins" /\ mode' = mode /\ UNCHANGED <<cli, running>>
        /\ Fatal("plugins") \/ Fatal("manifests") \/ Checked("boot", "register")
    BY <1>9 DEF FindPlugins, inputs, kept
  <2> QED
    BY <2>1, <1>3, CheckedGoesOn, FaultsAreSomething DEF Onward, BeforeTheTurn, Faults
<1>10. CASE Register
  <2>1. /\ stage = "register" /\ mode' = mode /\ UNCHANGED <<cli, running>>
        /\ To("provider") \/ To("register") \/ Fatal("register")
    BY <1>10 DEF Register, inputs
  <2> QED
    BY <2>1, <1>3, FaultsAreSomething DEF Onward, BeforeTheTurn, Faults
<1>11. CASE Configure
  <2>1. /\ stage = "provider" /\ mode' = mode /\ UNCHANGED <<cli, running>>
        /\ Fatal("model") \/ Checked("prompt", "harvest")
    BY <1>11 DEF Configure, inputs
  <2> QED
    BY <2>1, <1>3, CheckedGoesOn, FaultsAreSomething DEF Onward, BeforeTheTurn, Faults
<1>12. CASE NewSession
  <2>1. /\ stage = "harvest" /\ mode' = mode /\ UNCHANGED <<cli, running>>
        /\ Fatal("session") \/ To("turn") \/ To("drive")
    BY <1>12 DEF NewSession, inputs
  <2> QED
    BY <2>1, <1>3, FaultsAreSomething DEF Onward, BeforeTheTurn
<1> QED
  BY <1>1, <1>2, <1>4, <1>5, <1>6, <1>7, <1>8, <1>9, <1>10, <1>11, <1>12 DEF Starting

LEMMA StatusUnchanged ==
  ASSUME StatusInv, UNCHANGED startupVars
  PROVE  StatusInv'
<1>1. /\ cli' = cli /\ stage' = stage /\ mode' = mode /\ secret' = secret /\ ending' = ending
      /\ listening' = listening /\ signalled' = signalled /\ pressed' = pressed
      /\ report' = report /\ status' = status /\ why' = why
  BY DEF startupVars, inputs, kept, running, interrupts
<1>2. StageInv'
  BY <1>1 DEF StatusInv, StageInv
<1>3. InterruptInv'
  BY <1>1 DEF StatusInv, InterruptInv
<1>4. StatusTellsTheRun'
  BY <1>1 DEF StatusInv, StatusTellsTheRun
<1> QED
  BY <1>2, <1>3, <1>4 DEF StatusInv

(* The exit of a run whose turn is over. *)
LEMMA OutcomeTellsTheTurn ==
  ASSUME ending \in Endings
  PROVE  /\ outcome_line = "0" <=> ending = "completed"
         /\ outcome_line = "1" <=> ending = "failed"
         /\ outcome_line = "130" <=> ending = "cancelled"
         /\ outcome_line \in {"0", "1", "130"}
BY DEF Endings, outcome_line

(* The steps of the turn and of what is written of it leave the interrupts alone. *)
LEMMA TurnStatus ==
  ASSUME StatusInv, Supply \/ Rotate \/ TurnOver \/ OpenTranscript \/ WriteTranscript \/ Done
  PROVE  StatusInv'
<1> USE DEF None
<1>1. /\ cli' = cli /\ mode' = mode /\ listening' = listening /\ signalled' = signalled
      /\ pressed' = pressed /\ why' = why
      /\ stage # "exit" /\ status = None /\ why = None
  <2>1. /\ cli' = cli /\ mode' = mode /\ listening' = listening /\ signalled' = signalled
        /\ pressed' = pressed /\ why' = why
        /\ stage \in {"register", "turn", "transcript", "writing", "done"}
    BY DEF Supply, Rotate, TurnOver, OpenTranscript, WriteTranscript, Done, inputs, kept,
           interrupts, running, Exit, To
  <2> QED
    BY <2>1 DEF StatusInv, StageInv
<1>2. ASSUME ending' = ending \/ ending' \in {"completed", "failed"}
      PROVE  InterruptInv'
  BY <1>1, <1>2 DEF StatusInv, InterruptInv
<1>3. CASE Supply
  <2>1. /\ stage = "turn" /\ stage' = stage /\ ending' = ending /\ report' = report
        /\ status' = status
    BY <1>3 DEF Supply
  <2>2. ending = None /\ report = "untouched"
    BY <2>1 DEF StatusInv, StageInv
  <2>3. StageInv'
    BY <1>1, <2>1, <2>2 DEF StatusInv, StageInv, Stages, BeforeTheTurn
  <2>4. StatusTellsTheRun'
    BY <1>1, <2>1, <2>2 DEF StatusTellsTheRun
  <2> QED
    BY <1>2, <2>1, <2>3, <2>4 DEF StatusInv
<1>4. CASE Rotate
  <2>1. UNCHANGED <<cli, stage, mode, secret, ending, listening, signalled, pressed, report,
                    status, why>>
    BY <1>4 DEF Rotate, inputs, kept, running, interrupts
  <2>2. StageInv'
    BY <2>1 DEF StatusInv, StageInv
  <2>3. StatusTellsTheRun'
    BY <2>1 DEF StatusInv, StatusTellsTheRun
  <2> QED
    BY <1>2, <2>1, <2>2, <2>3 DEF StatusInv
<1>5. CASE TurnOver
  <2>1. /\ stage = "turn" /\ report' = report /\ secret' = secret /\ status' = None /\ why' = None
        /\ ending' \in Endings
        /\ ending' = "cancelled" => listening = 2
        /\ stage' = (IF cli.transcript THEN "transcript" ELSE "done")
    BY <1>5, <1>1 DEF TurnOver, To, Endings
  <2>2. report = "untouched"
    BY <2>1 DEF StatusInv, StageInv
  <2>3. StageInv'
    BY <1>1, <2>1, <2>2 DEF StatusInv, StageInv, Stages, BeforeTheTurn, Endings
  <2>4. InterruptInv'
    BY <1>1, <2>1 DEF StatusInv, InterruptInv
  <2>5. StatusTellsTheRun'
    BY <2>1, <2>2 DEF StatusTellsTheRun
  <2> QED
    BY <2>3, <2>4, <2>5 DEF StatusInv
<1>6. ASSUME ending \in Endings, cli.transcript, report # "whole",
             Exit(WithoutTranscript), ending' = ending, secret' = secret, report' = report
      PROVE  StatusInv'
  <2>1. /\ status' \in {"1", "2", "130"} /\ stage' = "exit"
        /\ status' = "1" => ending = "failed"
        /\ status' = "2" => ending = "completed"
        /\ status' = "130" => ending = "cancelled"
    BY <1>6, OutcomeTellsTheTurn DEF Exit, WithoutTranscript
  <2>2. StageInv'
    BY <2>1 DEF StageInv, Stages, BeforeTheTurn
  <2>3. status' = "130" => pressed' >= (IF ending' = "cancelled" THEN 1 ELSE 2)
    BY <1>1, <1>6, <2>1 DEF StatusInv, InterruptInv
  <2>4. StatusTellsTheRun'
    BY <1>1, <1>6, <2>1, <2>3 DEF StatusTellsTheRun, Endings
  <2> QED
    BY <1>2, <1>6, <2>2, <2>4 DEF StatusInv
<1>7. CASE OpenTranscript
  <2>1. /\ stage = "transcript" /\ secret' = secret /\ ending' = ending
        /\ \/ report' = "half" /\ stage' = "writing" /\ status' = status
           \/ Exit(WithoutTranscript) /\ report' = report
    BY <1>7 DEF OpenTranscript, To
  <2>2. ending \in Endings /\ cli.transcript /\ report = "untouched"
    BY <2>1 DEF StatusInv, StageInv
  <2>3. CASE report' = "half" /\ stage' = "writing" /\ status' = status
    <3>1. StageInv'
      BY <1>1, <2>1, <2>2, <2>3 DEF StatusInv, StageInv, Stages, BeforeTheTurn
    <3>2. StatusTellsTheRun'
      BY <1>1, <2>1, <2>2, <2>3 DEF StatusTellsTheRun, Endings
    <3> QED
      BY <1>2, <2>1, <3>1, <3>2 DEF StatusInv
  <2> QED
    BY <1>6, <2>1, <2>2, <2>3
<1>8. CASE WriteTranscript
  <2>1. /\ stage = "writing" /\ secret' = secret /\ ending' = ending
        /\ \/ report' = "whole" /\ stage' = "done" /\ status' = status
           \/ Exit(WithoutTranscript) /\ report' = report
    BY <1>8 DEF WriteTranscript, To
  <2>2. ending \in Endings /\ cli.transcript /\ report = "half"
    BY <2>1 DEF StatusInv, StageInv
  <2>3. CASE report' = "whole" /\ stage' = "done" /\ status' = status
    <3>1. StageInv'
      BY <1>1, <2>1, <2>2, <2>3 DEF StatusInv, StageInv, Stages, BeforeTheTurn
    <3>2. StatusTellsTheRun'
      BY <1>1, <2>1, <2>2, <2>3 DEF StatusTellsTheRun, Endings
    <3> QED
      BY <1>2, <2>1, <3>1, <3>2 DEF StatusInv
  <2> QED
    BY <1>6, <2>1, <2>2, <2>3
<1>9. CASE Done
  <2>1. /\ stage = "done" /\ secret' = secret /\ ending' = ending /\ report' = report
        /\ status' = outcome_line /\ stage' = "exit"
    BY <1>9 DEF Done, Exit, running
  <2>2. ending \in Endings /\ (cli.transcript => report = "whole")
    BY <2>1 DEF StatusInv, StageInv
  <2>3. StageInv'
    BY <2>1 DEF StageInv, Stages, BeforeTheTurn
  <2>4. status' = "130" => pressed' >= (IF ending' = "cancelled" THEN 1 ELSE 2)
    BY <1>1, <2>1, <2>2, OutcomeTellsTheTurn DEF StatusInv, InterruptInv
  <2>5. StatusTellsTheRun'
    BY <1>1, <2>1, <2>2, <2>4, OutcomeTellsTheTurn DEF StatusTellsTheRun, Endings
  <2> QED
    BY <1>2, <2>1, <2>3, <2>5 DEF StatusInv
<1> QED
  BY <1>3, <1>4, <1>5, <1>7, <1>8, <1>9

LEMMA InterruptsStatus ==
  ASSUME StatusInv, Spawn \/ Press \/ Interrupt
  PROVE  StatusInv'
<1> USE DEF None
<1>1. /\ cli' = cli /\ mode' = mode /\ secret' = secret /\ ending' = ending /\ report' = report
      /\ why' = why /\ stage \in Stages \ {"exit"} /\ status = None /\ why = None
  <2>1. /\ cli' = cli /\ mode' = mode /\ secret' = secret /\ ending' = ending
        /\ report' = report /\ why' = why /\ stage # "exit"
    BY DEF Spawn, Press, Interrupt, inputs, kept
  <2> QED
    BY <2>1 DEF StatusInv, StageInv
<1>2. /\ report # "untouched" => ending # None
      /\ pressed \in Nat /\ listening \in 0..2 /\ signalled \in BOOLEAN
  BY DEF StatusInv, StatusTellsTheRun, InterruptInv
<1>3. ASSUME stage' = stage, status' = status, listening' = listening \/ stage \notin BeforeTheTurn
      PROVE  StageInv' /\ StatusTellsTheRun'
  <2>1. StageInv'
    BY <1>1, <1>3 DEF StatusInv, StageInv
  <2>2. StatusTellsTheRun'
    BY <1>1, <1>2, <1>3 DEF StatusTellsTheRun
  <2> QED
    BY <2>1, <2>2
<1>4. ASSUME NEW code \in {"killed", "130"}, Exit(code),
             code = "130" => pressed' >= (IF ending' = "cancelled" THEN 1 ELSE 2)
      PROVE  StageInv' /\ StatusTellsTheRun'
  <2>1. stage' = "exit" /\ status' = code
    BY <1>4 DEF Exit
  <2>2. StageInv'
    BY <2>1 DEF StageInv, Stages, BeforeTheTurn
  <2>3. StatusTellsTheRun'
    BY <1>1, <1>2, <1>4, <2>1 DEF StatusTellsTheRun
  <2> QED
    BY <2>2, <2>3
<1>5. CASE Spawn
  <2>1. /\ stage \notin BeforeTheTurn /\ listening = 0 /\ listening' = 1 /\ signalled' = signalled
        /\ pressed' = pressed /\ stage' = stage /\ status' = status
    BY <1>5 DEF Spawn, BeforeTheTurn
  <2>2. InterruptInv'
    BY <1>1, <1>2, <2>1 DEF StatusInv, InterruptInv
  <2> QED
    BY <1>3, <2>1, <2>2 DEF StatusInv
<1>6. CASE Press
  <2>1. pressed' = pressed + 1 /\ listening' = listening
    BY <1>6 DEF Press
  <2>2. CASE listening = 0
    <3>1. Exit("killed") /\ signalled' = signalled
      BY <1>6, <2>2 DEF Press
    <3>2. InterruptInv'
      BY <1>1, <1>2, <2>1, <3>1, <2>2 DEF StatusInv, InterruptInv
    <3> QED
      BY <1>4, <3>1, <3>2 DEF StatusInv
  <2>3. CASE listening # 0
    <3>1. signalled' = TRUE /\ stage' = stage /\ status' = status
      BY <1>6, <2>3 DEF Press
    <3>2. InterruptInv'
      BY <1>1, <1>2, <2>1, <3>1, <2>3 DEF StatusInv, InterruptInv
    <3> QED
      BY <1>3, <2>1, <3>1, <3>2 DEF StatusInv
  <2> QED
    BY <2>2, <2>3
<1>7. CASE Interrupt
  <2>1. signalled /\ signalled' = FALSE /\ pressed' = pressed /\ listening # 0
        /\ stage \notin BeforeTheTurn
    <3>1. signalled /\ signalled' = FALSE /\ pressed' = pressed
      BY <1>7 DEF Interrupt
    <3> QED
      BY <3>1 DEF StatusInv, InterruptInv, StageInv
  <2>2. CASE listening = 1
    <3>1. listening' = 2 /\ stage' = stage /\ status' = status
      BY <1>7, <2>2 DEF Interrupt
    <3>2. InterruptInv'
      <4>1. signalled' \in BOOLEAN /\ ~signalled'
        BY <2>1
      <4>2. pressed >= 1
        BY <2>1, <2>2 DEF StatusInv, InterruptInv
      <4>3. pressed' \in Nat /\ pressed' >= 1 /\ listening' = 2
        BY <1>2, <2>1, <3>1, <4>2
      <4> QED
        BY ONLY <4>1, <4>3 DEF InterruptInv
    <3> QED
      BY <1>3, <2>1, <3>1, <3>2 DEF StatusInv
  <2>3. CASE listening = 2
    <3>1. Exit("130") /\ listening' = listening
      BY <1>7, <2>3 DEF Interrupt
    <3>2. pressed >= 2
      BY <2>1, <2>3 DEF StatusInv, InterruptInv
    <3>3. InterruptInv'
      <4>1. signalled' \in BOOLEAN /\ ~signalled'
        BY <2>1
      <4>2. pressed' \in Nat /\ pressed' >= 2 /\ listening' = 2
        BY <1>2, <2>1, <2>3, <3>1, <3>2
      <4> QED
        BY ONLY <4>1, <4>2 DEF InterruptInv
    <3> QED
      BY <1>2, <1>4, <2>1, <3>1, <3>2, <3>3 DEF StatusInv
  <2> QED
    BY <1>2, <2>1, <2>2, <2>3
<1> QED
  BY <1>5, <1>6, <1>7

LEMMA StatusStep ==
  ASSUME StatusInv, [RunNext]_startupVars
  PROVE  StatusInv'
<1>1. CASE Starting
  BY <1>1, StartingGoesOnward, StatusOnward
<1>2. CASE UNCHANGED startupVars
  BY <1>2, StatusUnchanged
<1>3. CASE Supply \/ Rotate \/ TurnOver \/ OpenTranscript \/ WriteTranscript \/ Done
  BY <1>3, TurnStatus
<1>4. CASE Spawn \/ Press \/ Interrupt
  BY <1>4, InterruptsStatus
<1> QED
  BY <1>1, <1>2, <1>3, <1>4 DEF RunNext, Starting

(* For every command line, installation and fault, and however often it is interrupted: the
   exit status of a run says how its turn ended, and that no turn began if none did.       *)
THEOREM ExitTellsTheRun == RunSpec => []StatusTellsTheRun
<1>1. RunInit => StatusInv
  BY StatusInitially
<1>2. StatusInv /\ [RunNext]_startupVars => StatusInv'
  BY StatusStep
<1>3. StatusInv => StatusTellsTheRun
  BY DEF StatusInv
<1> QED
  BY <1>1, <1>2, <1>3, PTL DEF RunSpec

-----------------------------------------------------------------------------
(* A run of the command: what governs its first turn. *)

(* What is settled, stage by stage. *)
AfterRules == {"secrets", "plugins", "register", "provider", "harvest", "turn", "drive"}
AfterSecrets == AfterRules \ {"secrets"}

GovernInv ==
  /\ stage \in AfterRules => specs = cli.rules \o file.policy \o file.rules
  /\ stage \in AfterSecrets => secrets = cli.secrets \o file.secrets
  /\ stage \in {"harvest", "turn", "drive"} =>
       model_for = (IF cli.model THEN resolve_provider ELSE None)
  /\ stage \in {"turn", "drive"} => provider = resolve_provider /\ provider # None
  /\ stage \in {"turn", "drive"} /\ secret.pair # None =>
       secret.given = secret.held[source_for(secret.pair)]

(* The flags of a command line, sorted by their positions, are the command line. *)
At(s, i) == [index |-> i, rule |-> s[i]]
Upto(s, m) == {At(s, i) : i \in 1..m}

LEMMA FlagsCounted ==
  ASSUME NEW s, NEW m \in Nat
  PROVE  Cardinality(Upto(s, m)) = m
<1> DEFINE f == [i \in 1..m |-> At(s, i)]
<1>1. f \in Bijection(1..m, Upto(s, m))
  <2>1. f \in [1..m -> Upto(s, m)]
    BY DEF Upto
  <2>2. \A i, j \in 1..m : f[i] = f[j] => i = j
    BY DEF At
  <2>3. \A x \in Upto(s, m) : \E i \in 1..m : f[i] = x
    BY DEF Upto
  <2> HIDE DEF f
  <2> QED
    BY <2>1, <2>2, <2>3 DEF Bijection, Injection, Surjection, IsInjective
<1>2. ExistsBijection(1..m, Upto(s, m))
  BY <1>1 DEF ExistsBijection
<1>3. IsFiniteSet(1..m) /\ Cardinality(1..m) = m
  BY FS_Interval
<1> QED
  BY <1>2, <1>3, FS_Bijection

LEMMA FlagsBelow ==
  ASSUME NEW s, NEW n \in Nat, NEW k \in 1..n
  PROVE  Cardinality(Below(At(s, k), Upto(s, n))) = k - 1
<1>1. Below(At(s, k), Upto(s, n)) = Upto(s, k - 1)
  <2>1. \A i \in 1..n : At(s, i).index < At(s, k).index <=> i \in 1..(k - 1)
    BY DEF At
  <2>2. 1..(k - 1) \subseteq 1..n
    OBVIOUS
  <2> QED
    BY <2>1, <2>2, Zenon DEF Below, Upto
<1> QED
  BY <1>1, FlagsCounted

LEMMA FlagsSorted ==
  ASSUME NEW T, NEW s \in Seq(T)
  PROVE  Sorted(Upto(s, Len(s))) = s
<1> DEFINE flags == Upto(s, Len(s))
<1>1. Cardinality(flags) = Len(s) /\ Len(s) \in Nat
  BY FlagsCounted
<1>2. ASSUME NEW k \in 1..Len(s)
      PROVE  (CHOOSE flag \in flags : Cardinality(Below(flag, flags)) = k - 1).rule = s[k]
  <2>1. At(s, k) \in flags /\ Cardinality(Below(At(s, k), flags)) = k - 1
    BY FlagsBelow DEF Upto
  <2>2. ASSUME NEW flag \in flags, Cardinality(Below(flag, flags)) = k - 1
        PROVE  flag = At(s, k)
    <3>1. PICK i \in 1..Len(s) : flag = At(s, i)
      BY DEF Upto
    <3>2. Cardinality(Below(flag, flags)) = i - 1
      BY <3>1, FlagsBelow
    <3> QED
      BY <2>2, <3>1, <3>2
  <2> HIDE DEF flags
  <2>3. (CHOOSE flag \in flags : Cardinality(Below(flag, flags)) = k - 1) = At(s, k)
    BY <2>1, <2>2
  <2>4. (CHOOSE flag \in flags : Cardinality(Below(flag, flags)) = k - 1).rule = At(s, k).rule
    BY <2>3
  <2>5. At(s, k).rule = s[k]
    BY DEF At
  <2> QED
    BY <2>4, <2>5
<1>3. Sorted(flags) = [k \in 1..Len(s) |-> s[k]]
  BY <1>1, <1>2 DEF Sorted
<1> QED
  BY <1>3

(* A command line as clap reads it. *)
CommandLineTyped ==
  cli.rules \in Seq([decision: {"allow", "deny"}, rule: {cli.rules[i].rule : i \in DOMAIN cli.rules}])

LEMMA FlagsInOrder ==
  ASSUME CommandLineTyped
  PROVE  ordered_rule_flags = cli.rules
<1>1. \A i \in DOMAIN cli.rules : cli.rules[i].decision \in {"allow", "deny"}
  <2> DEFINE flags == cli.rules
             rule == {cli.rules[i].rule : i \in DOMAIN cli.rules}
  <2>1. flags \in Seq([decision: {"allow", "deny"}, rule: rule])
    BY DEF CommandLineTyped
  <2> HIDE DEF flags, rule
  <2>2. \A i \in DOMAIN flags : flags[i] \in [decision: {"allow", "deny"}, rule: rule]
    BY <2>1, LenProperties, ElementOfSeq
  <2>3. \A i \in DOMAIN flags : flags[i].decision \in {"allow", "deny"}
    BY <2>2
  <2> QED
    BY <2>3 DEF flags
<1>2. DOMAIN cli.rules = 1..Len(cli.rules)
  BY DEF CommandLineTyped
<1>3. Matches("allow") \cup Matches("deny") = Upto(cli.rules, Len(cli.rules))
  BY <1>1, <1>2, Zenon DEF Matches, Upto, At
<1> QED
  BY <1>3, FlagsSorted DEF CommandLineTyped, ordered_rule_flags

(* Whichever provider a run is resolved to is one that is there, and the one named. *)
LEMMA ProviderResolved ==
  ASSUME resolve_provider # None
  PROVE  /\ resolve_provider \in Candidates
         /\ cli.provider # None => resolve_provider = cli.provider
<1>1. CASE Named # None /\ Named \in Candidates
  <2>1. resolve_provider = Named
    BY <1>1 DEF resolve_provider
  <2> QED
    BY <1>1, <2>1 DEF Named
<1>2. CASE ~(Named # None /\ Named \in Candidates)
  <2>1. Named = None /\ Cardinality(Candidates) = 1
    BY <1>2 DEF resolve_provider
  <2>2. Candidates # {}
    BY <2>1, FS_EmptySet
  <2>3. resolve_provider = CHOOSE c \in Candidates : TRUE
    BY <2>1 DEF resolve_provider
  <2> QED
    BY <2>1, <2>2, <2>3 DEF Named
<1> QED
  BY <1>1, <1>2

GovernedInv == CommandLineTyped /\ StatusInv /\ GovernInv

LEMMA GovernedInitially == RunInit => GovernedInv
<1> SUFFICES ASSUME RunInit PROVE GovernedInv
  OBVIOUS
<1>1. CommandLineTyped
  <2>1. cli.rules \in CommandLines \/ cli.rules = <<>>
    <3>1. CASE UnusualRules
      BY <3>1 DEF UnusualRules, PlainCli
    <3>2. CASE UnusualSecrets
      BY <3>2 DEF UnusualSecrets, PlainCli
    <3>3. CASE UnusualMode
      BY <3>3 DEF UnusualMode
    <3> QED
      BY <3>1, <3>2, <3>3 DEF RunInit
  <2>2. CASE cli.rules \in CommandLines
    BY <2>2, CommandLinesAssumption DEF CommandLineTyped
  <2>3. CASE cli.rules = <<>>
    BY <2>3 DEF CommandLineTyped
  <2> QED
    BY <2>1, <2>2, <2>3
<1>2. stage = "main"
  BY DEF RunInit
<1>3. GovernInv
  BY <1>2 DEF GovernInv, AfterRules, AfterSecrets
<1> QED
  BY <1>1, <1>3, StatusInitially DEF GovernedInv

LEMMA InputsKept ==
  ASSUME [RunNext]_startupVars
  PROVE  UNCHANGED <<cli, file, installed>>
BY DEF RunNext, startupVars, inputs, Main, Workspace, PrintRun, SessionRun, ReadFiles,
       CompilePolicy, CollectSecrets, FindPlugins, Register, Configure, NewSession, Supply,
       Rotate, TurnOver, OpenTranscript, WriteTranscript, Done, Spawn, Press, Interrupt

LEMMA ResolvedAlike ==
  ASSUME UNCHANGED <<cli, file, installed>>
  PROVE  resolve_provider' = resolve_provider
<1>1. Candidates' = Candidates
  BY DEF Candidates
<1>2. Named' = Named
  BY DEF Named
<1> QED
  BY <1>1, <1>2 DEF resolve_provider

LEMMA SourcedAlike ==
  ASSUME secrets' = secrets
  PROVE  \A p : source_for(p)' = source_for(p)
BY DEF source_for, Convention

(* A step that leaves what is settled alone. *)
LEMMA GovernKept ==
  ASSUME GovernInv, [RunNext]_startupVars,
         UNCHANGED <<specs, secrets, model_for, provider>>,
         secret' = secret \/ stage' \notin {"turn", "drive"},
         stage' \in AfterRules => stage \in AfterRules,
         stage' \in AfterSecrets => stage \in AfterSecrets,
         stage' \in {"harvest", "turn", "drive"} => stage \in {"harvest", "turn", "drive"},
         stage' \in {"turn", "drive"} => stage \in {"turn", "drive"}
  PROVE  GovernInv'
<1>1. /\ cli' = cli /\ file' = file /\ resolve_provider' = resolve_provider
      /\ \A p : source_for(p)' = source_for(p)
  BY InputsKept, ResolvedAlike, SourcedAlike
<1> QED
  BY <1>1 DEF GovernInv

LEMMA GovernStep ==
  ASSUME GovernedInv, [RunNext]_startupVars
  PROVE  GovernInv'
<1> USE DEF None, AfterRules, AfterSecrets
<1>1. GovernInv /\ CommandLineTyped /\ StageInv
  BY DEF GovernedInv, StatusInv
<1>2. /\ cli' = cli /\ file' = file /\ resolve_provider' = resolve_provider
      /\ \A p : source_for(p)' = source_for(p) \/ secrets' # secrets
  BY InputsKept, ResolvedAlike, SourcedAlike
<1>3. CASE stage' = "exit"
  BY <1>3 DEF GovernInv
<1>4. CASE Main \/ Workspace \/ PrintRun \/ SessionRun \/ ReadFiles \/ FindPlugins \/ Register
           \/ UNCHANGED startupVars \/ Rotate \/ TurnOver \/ OpenTranscript \/ WriteTranscript
           \/ Done \/ Spawn \/ Press \/ Interrupt
  <2>1. /\ UNCHANGED <<specs, secrets, model_for, provider, secret>>
        /\ \/ stage' = stage \/ stage' = "exit"
           \/ stage' \notin AfterRules
           \/ stage = "plugins" /\ stage' = "register"
           \/ stage = "register" /\ stage' = "provider"
    <3>1. CASE Main
      BY <3>1 DEF Main, Checked, Fatal, Exit, To, running
    <3>2. CASE Workspace
      <4>1. mode \in {"print", "session"}
        BY <1>1, <3>2 DEF StageInv, Workspace
      <4> QED
        BY <3>2, <4>1 DEF Workspace, Checked, Fatal, Exit, To, kept, running
    <3>3. CASE PrintRun
      BY <3>3 DEF PrintRun, Checked, Fatal, Exit, To, kept, running
    <3>4. CASE SessionRun
      BY <3>4 DEF SessionRun, Fatal, Exit, To, kept, running
    <3>5. CASE ReadFiles
      BY <3>5 DEF ReadFiles, Checked, Fatal, Exit, To, kept, running
    <3>6. CASE FindPlugins
      BY <3>6 DEF FindPlugins, Checked, Fatal, Exit, To, kept, running
    <3>7. CASE Register
      BY <3>7 DEF Register, Fatal, Exit, To, running
    <3>8. CASE UNCHANGED startupVars \/ Rotate \/ TurnOver
      BY <3>8 DEF startupVars, Rotate, TurnOver, To, kept, running
    <3>9. CASE OpenTranscript \/ WriteTranscript \/ Done
      BY <3>9 DEF OpenTranscript, WriteTranscript, Done, Exit, To, kept, running
    <3>10. CASE Spawn \/ Press \/ Interrupt
      BY <3>10 DEF Spawn, Press, Interrupt, Exit, kept
    <3> QED
      BY <1>4, <3>1, <3>2, <3>3, <3>4, <3>5, <3>6, <3>7, <3>8, <3>9, <3>10
  <2> QED
    BY <1>1, <2>1, GovernKept
<1>5. CASE CompilePolicy /\ stage' # "exit"
  <2>1. stage' = "secrets" /\ specs' = cli.rules \o file.policy \o file.rules
    BY <1>1, <1>5, FlagsInOrder DEF CompilePolicy, Checked, Fatal, Exit, To
  <2> QED
    BY <1>2, <2>1 DEF GovernInv
<1>6. CASE CollectSecrets /\ stage' # "exit"
  <2>1. /\ stage = "secrets" /\ stage' = "plugins" /\ specs' = specs
        /\ secrets' = cli.secrets \o file.secrets
    BY <1>6 DEF CollectSecrets, Checked, Fatal, Exit, To
  <2> QED
    BY <1>1, <1>2, <2>1 DEF GovernInv
<1>7. CASE Configure /\ stage' # "exit"
  <2>1. /\ stage = "provider" /\ stage' = "harvest" /\ specs' = specs /\ secrets' = secrets
        /\ model_for' = IF cli.model THEN resolve_provider ELSE None
    BY <1>7 DEF Configure, Checked, Fatal, Exit, To
  <2> QED
    BY <1>1, <1>2, <2>1 DEF GovernInv
<1>8. CASE NewSession /\ stage' # "exit"
  <2>1. /\ stage = "harvest" /\ stage' \in {"turn", "drive"} /\ specs' = specs /\ secrets' = secrets
        /\ model_for' = model_for /\ provider' = resolve_provider /\ resolve_provider # None
        /\ secret' = secret
    BY <1>8 DEF NewSession, Fatal, Exit, To, running
  <2>2. secret.pair = None
    BY <1>1, <2>1 DEF StageInv, BeforeTheTurn
  <2> QED
    BY <1>1, <1>2, <2>1, <2>2 DEF GovernInv
<1>9. CASE Supply
  <2>1. /\ stage = "turn" /\ stage' = stage /\ specs' = specs /\ secrets' = secrets
        /\ model_for' = model_for /\ provider' = provider
    BY <1>9 DEF Supply, kept
  <2>2. PICK p : secret' = [pair |-> p, source |-> source_for(p), given |-> content[source_for(p)],
                            held |-> content]
    BY <1>9 DEF Supply
  <2>3. secret'.given = secret'.held[source_for(secret'.pair)]
    BY <2>2
  <2>4. source_for(secret'.pair) = source_for(secret.pair)'
    BY <2>1 DEF source_for, Convention
  <2> QED
    BY <1>1, <1>2, <2>1, <2>3, <2>4 DEF GovernInv
<1> QED
  BY <1>3, <1>4, <1>5, <1>6, <1>7, <1>8, <1>9 DEF RunNext

(* For every command line, installation, file and fault: a run whose first turn starts is
   governed by its rules in the order its flags and files give them, by the provider it named,
   which --model was meant for, and by the first source that names a secret, whatever that one
   holds when it is asked.                                                                *)
THEOREM RunsAreGoverned == RunSpec => []GovernedInOrder
<1>1. RunInit => GovernedInv
  BY GovernedInitially
<1>2. GovernedInv /\ [RunNext]_startupVars => GovernedInv'
  <2> SUFFICES ASSUME GovernedInv, [RunNext]_startupVars PROVE GovernedInv'
    OBVIOUS
  <2>1. cli' = cli
    BY InputsKept
  <2>2. CommandLineTyped'
    BY <2>1 DEF GovernedInv, CommandLineTyped
  <2> QED
    BY <2>2, StatusStep, GovernStep DEF GovernedInv
<1>3. GovernedInv => GovernedInOrder
  <2> SUFFICES ASSUME GovernedInv, stage \in {"turn", "drive"} PROVE GovernedInOrder
    BY DEF GovernedInOrder
  <2>1. /\ specs = cli.rules \o file.policy \o file.rules
        /\ secrets = cli.secrets \o file.secrets
        /\ model_for = IF cli.model THEN resolve_provider ELSE None
        /\ provider = resolve_provider /\ resolve_provider # None
        /\ secret.pair # None => secret.given = secret.held[source_for(secret.pair)]
    BY DEF GovernedInv, GovernInv, AfterRules, AfterSecrets
  <2>2. provider \in Candidates /\ (cli.provider # None => provider = cli.provider)
    BY <2>1, ProviderResolved
  <2>3. model_for \in {None, provider} /\ (cli.model => model_for = provider)
    BY <2>1
  <2> QED
    BY <2>1, <2>2, <2>3 DEF GovernedInOrder, source_for
<1> QED
  BY <1>1, <1>2, <1>3, PTL DEF RunSpec

-----------------------------------------------------------------------------
(* The line that is typed. *)

Glyph == Char \cup {" ", "h"}

(* What LineIsKept rests on: the history is lines, the place in it is one of it, and who
   has not asked to leave has typed no /exit.                                            *)
LineTypes ==
  /\ text \in Seq(Glyph) /\ draft \in Seq(Glyph) /\ composed \in Seq(Glyph)
  /\ history \in Seq(Seq(Glyph)) /\ browsing \in 0..Len(history)
  /\ leaving \in BOOLEAN
  /\ asked \in [turns: SUBSET Glyph, exits: Nat]

LineInv ==
  /\ LineTypes
  /\ doing = "idle" => ~leaving
  /\ doing \in {"idle", "running"} /\ ~leaving => asked.exits = 0
  /\ LineIsKept

LEMMA GlyphTypes == Char \subseteq Glyph /\ " " \in Glyph /\ "h" \in Glyph
BY DEF Glyph

LEMMA ConcatTypes ==
  ASSUME NEW T, NEW s \in Seq(T), NEW t \in Seq(T)
  PROVE  s \o t \in Seq(T) /\ Len(s \o t) = Len(s) + Len(t) /\ Len(s) \in Nat /\ Len(t) \in Nat
OBVIOUS

LEMMA SequenceOfOne == ASSUME NEW T, NEW c \in T PROVE <<c>> \in Seq(T)
OBVIOUS

LEMMA SequenceOfTwo == ASSUME NEW T, NEW c \in T, NEW d \in T PROVE <<c, d>> \in Seq(T)
OBVIOUS

(* Where a line is cut: both parts are lines. *)
LEMMA LinePartTypes ==
  ASSUME text \in Seq(Glyph), NEW i \in 0..Len(text)
  PROVE  /\ LineTo(i) \in Seq(Glyph) /\ Len(LineTo(i)) = i
         /\ LineFrom(i) \in Seq(Glyph) /\ Len(LineFrom(i)) = Len(text) - i
<1>1. i \in Nat /\ Len(text) \in Nat /\ i <= Len(text)
  OBVIOUS
<1>2. SubSeq(text, 1, i) \in Seq(Glyph) /\ Len(SubSeq(text, 1, i)) = i
  BY <1>1, CutIsPrefix
<1>3. /\ SubSeq(text, i + 1, Len(text)) \in Seq(Glyph)
      /\ Len(SubSeq(text, i + 1, Len(text))) = Len(text) - i
  <2>1. i + (Len(text) - i) = Len(text) /\ Len(text) - i \in Nat
    BY <1>1
  <2>2. SubSeq(text, i + 1, i + (Len(text) - i)) \in Seq(Glyph)
    BY <1>1, <2>1, SubSeqType
  <2>3. i + (Len(text) - i) <= Len(text)
    BY <1>1, <2>1
  <2>4. Len(SubSeq(text, i + 1, i + (Len(text) - i))) = Len(text) - i
    BY <1>1, <2>1, <2>3, SubSeqAt
  <2> QED
    BY <2>1, <2>2, <2>4
<1> QED
  BY <1>2, <1>3 DEF LineTo, LineFrom

(* The boundary a word key stops at is on its side of the cursor. *)
LEMMA WordBounds ==
  ASSUME text \in Seq(Glyph), cursor \in 0..Len(text)
  PROVE  word_left_index \in 0..cursor /\ word_right_index \in cursor..Len(text)
<1>1. cursor \in Nat /\ Len(text) \in Nat /\ cursor <= Len(text)
  OBVIOUS
<1>2. word_left_index \in 0..cursor
  <2> DEFINE begins == {i \in 0..(cursor - 1) : ~Blank(text[i + 1]) /\ (i = 0 \/ Blank(text[i]))}
  <2>1. word_left_index = IF begins = {} THEN 0 ELSE CHOOSE i \in begins : \A j \in begins : j <= i
    BY DEF word_left_index
  <2>2. begins \in SUBSET (0..cursor)
    BY <1>1
  <2> HIDE DEF begins
  <2>3. CASE begins = {}
    BY <1>1, <2>1, <2>3
  <2>4. CASE begins # {}
    <3>1. \E i \in begins : \A j \in begins : j <= i
      BY <1>1, <2>2, <2>4, GreatestElement
    <3>2. word_left_index \in begins
      BY <2>1, <2>4, <3>1
    <3> QED
      BY <2>2, <3>2
  <2> QED
    BY <2>3, <2>4
<1>3. word_right_index \in cursor..Len(text)
  <2> DEFINE begins == {i \in (cursor + 1)..(Len(text) - 1) : ~Blank(text[i + 1]) /\ Blank(text[i])}
  <2>1. word_right_index = IF begins = {} THEN Len(text)
                           ELSE CHOOSE i \in begins : \A j \in begins : i <= j
    BY DEF word_right_index
  <2>2. begins \in SUBSET Nat /\ begins \subseteq cursor..Len(text)
    BY <1>1
  <2> HIDE DEF begins
  <2>3. CASE begins = {}
    BY <1>1, <2>1, <2>3
  <2>4. CASE begins # {}
    <3>1. \E i \in begins : \A j \in begins : i <= j
      BY <2>2, <2>4, LeastElement
    <3>2. word_right_index \in begins
      BY <2>1, <2>4, <3>1
    <3> QED
      BY <2>2, <3>2
  <2> QED
    BY <2>3, <2>4
<1> QED
  BY <1>2, <1>3

LEMMA CursorBounds ==
  ASSUME text \in Seq(Glyph), cursor \in 0..Len(text)
  PROVE  left \in 0..Len(text) /\ right \in 0..Len(text)
BY DEF left, right

(* What is edited is a line, its cursor in it. *)
Edited ==
  /\ text' \in Seq(Glyph) /\ cursor' \in 0..Len(text')
  /\ browsing' = 0 /\ history' = history /\ draft' = draft

LEMMA InsertEdits ==
  ASSUME LineInv, NEW cs \in Seq(Glyph), insert(cs)
  PROVE  Edited
<1>1. text \in Seq(Glyph) /\ cursor \in 0..Len(text)
  BY DEF LineInv, LineTypes, LineIsKept
<1>2. /\ text' = LineTo(cursor) \o cs \o LineFrom(cursor) /\ cursor' = cursor + Len(cs)
      /\ browsing' = 0 /\ history' = history /\ draft' = draft
  BY DEF insert, Edits
<1>3. /\ LineTo(cursor) \in Seq(Glyph) /\ Len(LineTo(cursor)) = cursor
      /\ LineFrom(cursor) \in Seq(Glyph) /\ Len(LineFrom(cursor)) = Len(text) - cursor
  BY <1>1, LinePartTypes
<1> DEFINE s == LineTo(cursor)
           t == LineFrom(cursor)
<1>4. s \in Seq(Glyph) /\ t \in Seq(Glyph) /\ Len(s) = cursor /\ text' = s \o cs \o t
      /\ cursor \in Nat
  BY <1>1, <1>2, <1>3
<1> HIDE DEF s, t
<1>5. s \o cs \o t \in Seq(Glyph) /\ Len(s \o cs \o t) = Len(s) + Len(cs) + Len(t)
      /\ Len(cs) \in Nat /\ Len(t) \in Nat
  BY <1>4
<1>6. cursor' \in 0..Len(text')
  BY <1>2, <1>4, <1>5
<1> QED
  BY <1>2, <1>4, <1>5, <1>6 DEF Edited

LEMMA DeleteEdits ==
  ASSUME LineInv, NEW i \in 0..Len(text), DeletesTo(i)
  PROVE  Edited
<1>0. text \in Seq(Glyph) /\ cursor \in 0..Len(text)
  BY DEF LineInv, LineTypes, LineIsKept
<1>1. text \in Seq(Glyph) /\ cursor \in 0..Len(text) /\ cursor \in Nat /\ i \in Nat
  BY <1>0
<1>2. ASSUME NEW a \in 0..Len(text), NEW b \in 0..Len(text), Edits(LineTo(a) \o LineFrom(b), a)
      PROVE  Edited
  <2>1. /\ LineTo(a) \in Seq(Glyph) /\ Len(LineTo(a)) = a
        /\ LineFrom(b) \in Seq(Glyph) /\ Len(LineFrom(b)) = Len(text) - b
    BY <1>1, <1>2, LinePartTypes
  <2> DEFINE s == LineTo(a)
             t == LineFrom(b)
  <2>2. /\ s \in Seq(Glyph) /\ t \in Seq(Glyph) /\ Len(s) = a /\ text' = s \o t /\ cursor' = a
        /\ a \in Nat /\ browsing' = 0 /\ history' = history /\ draft' = draft
    BY <1>2, <2>1 DEF Edits
  <2> HIDE DEF s, t
  <2>3. s \o t \in Seq(Glyph) /\ Len(s \o t) = Len(s) + Len(t) /\ Len(t) \in Nat
    BY ONLY <2>2, ConcatTypes
  <2>4. cursor' \in 0..Len(text')
    BY <2>2, <2>3
  <2> QED
    BY <2>2, <2>3, <2>4 DEF Edited
<1> QED
  BY <1>1, <1>2 DEF DeletesTo

LEMMA EditKeyEdits ==
  ASSUME LineInv, (\E c \in Char : insert(<<c>>)) \/ Deletes \/ DeletesWord
  PROVE  Edited
<1>1. text \in Seq(Glyph) /\ cursor \in 0..Len(text)
  BY DEF LineInv, LineTypes, LineIsKept
<1>2. CASE \E c \in Char : insert(<<c>>)
  <2>1. PICK c \in Char : insert(<<c>>)
    BY <1>2
  <2>2. <<c>> \in Seq(Glyph)
    BY GlyphTypes, SequenceOfOne
  <2> QED
    BY <2>1, <2>2, InsertEdits
<1>3. ASSUME NEW i \in {left, right, word_left_index, word_right_index}
      PROVE  i \in 0..Len(text)
  BY <1>1, <1>3, WordBounds, CursorBounds
<1>4. CASE Deletes
  <2>1. PICK i \in {left, right} : DeletesTo(i)
    BY <1>4 DEF Deletes
  <2> QED
    BY <1>3, <2>1, DeleteEdits
<1>5. CASE DeletesWord
  <2>1. PICK i \in {word_left_index, word_right_index} : DeletesTo(i)
    BY <1>5 DEF DeletesWord
  <2> QED
    BY <1>3, <2>1, DeleteEdits
<1> QED
  BY <1>2, <1>4, <1>5

LEMMA MapTypes ==
  ASSUME NEW S, NEW T, NEW s \in Seq(S), NEW f, f = [k \in DOMAIN s |-> Clean(s[k])],
         \A x \in S : Clean(x) \in T
  PROVE  f \in Seq(T)
<1>1. Len(s) \in Nat /\ DOMAIN s = 1..Len(s) /\ \A k \in 1..Len(s) : s[k] \in S
  OBVIOUS
<1>2. f \in [1..Len(s) -> T]
  BY <1>1
<1> QED
  BY <1>1, <1>2

LEMMA PasteEdits ==
  ASSUME LineInv, NEW c \in Char, paste(<<c, "newline">>)
  PROVE  Edited
<1> DEFINE cs == <<c, "newline">>
           clean == [k \in DOMAIN cs |-> Clean(cs[k])]
<1>1. clean \in Seq(Glyph)
  <2>1. cs \in Seq({c, "newline"})
    <3>1. c \in {c, "newline"} /\ "newline" \in {c, "newline"}
      OBVIOUS
    <3> QED
      BY <3>1, SequenceOfTwo
  <2>2. clean = [k \in DOMAIN cs |-> Clean(cs[k])]
    OBVIOUS
  <2>3. \A x \in {c, "newline"} : Clean(x) \in Glyph
    BY GlyphTypes DEF Clean
  <2> HIDE DEF clean, cs
  <2> QED
    BY ONLY <2>1, <2>2, <2>3, MapTypes
<1>2. insert(clean)
  BY DEF paste
<1> HIDE DEF clean
<1> QED
  BY <1>1, <1>2, InsertEdits

LEMMA CutAt ==
  ASSUME NEW T, NEW s \in Seq(T), NEW a \in 1..Len(s), NEW b \in 1..Len(s), a <= b
  PROVE  SubSeq(s, a, b)[1] = s[a] /\ s[a] \in T
OBVIOUS

(* What is sent begins with a glyph that is neither blank nor a command. *)
LEMMA SentBegins ==
  ASSUME text \in Seq(Glyph), submission = "Turn"
  PROVE  Trimmed[1] \in Glyph \ ({" "} \cup Command)
<1> DEFINE solid == {i \in DOMAIN text : ~Blank(text[i])}
           a == CHOOSE i \in solid : \A j \in solid : i <= j
           b == CHOOSE i \in solid : \A j \in solid : j <= i
<1>1. Trimmed # <<>> /\ Trimmed[1] \notin Command
  BY DEF submission
<1>2. Trimmed = IF solid = {} THEN <<>> ELSE SubSeq(text, a, b)
  BY DEF Trimmed
<1>3. solid # {} /\ Trimmed = SubSeq(text, a, b)
  BY <1>1, <1>2
<1>4. /\ solid \in SUBSET (0..Len(text)) /\ solid \in SUBSET Nat /\ Len(text) \in Nat
      /\ \A i \in solid : i \in 1..Len(text) /\ text[i] # " "
  <2>1. DOMAIN text = 1..Len(text) /\ Len(text) \in Nat
    OBVIOUS
  <2>2. \A i \in solid : i \in 1..Len(text) /\ text[i] # " "
    BY <2>1 DEF Blank
  <2>3. solid \subseteq 1..Len(text)
    BY <2>2
  <2> HIDE DEF solid
  <2>4. 1..Len(text) \subseteq 0..Len(text) /\ 1..Len(text) \subseteq Nat
    BY <2>1
  <2> QED
    BY <2>1, <2>2, <2>3, <2>4
<1> HIDE DEF solid
<1>5. a \in solid /\ \A j \in solid : a <= j
  BY <1>3, <1>4, LeastElement
<1>6. b \in solid
  BY <1>3, <1>4, GreatestElement
<1> HIDE DEF a, b
<1>7. a \in 1..Len(text) /\ b \in 1..Len(text) /\ a <= b /\ text[a] # " "
  BY <1>4, <1>5, <1>6
<1>8. SubSeq(text, a, b)[1] = text[a] /\ text[a] \in Glyph
  BY <1>7, CutAt
<1> QED
  BY <1>1, <1>3, <1>7, <1>8

(* The line taken: it is in the history, and a new one begins. *)
LEMMA CommitTakes ==
  ASSUME LineInv, commit
  PROVE  /\ text' = <<>> /\ cursor' = 0 /\ browsing' = 0 /\ draft' = <<>>
         /\ history' \in Seq(Seq(Glyph))
BY DEF LineInv, LineTypes, commit

(* Walking the history: its lines as they are, and back to the one that was being written. *)
LEMMA HistoryWalk ==
  ASSUME LineInv, history_up \/ history_down
  PROVE  /\ text' \in Seq(Glyph) /\ draft' \in Seq(Glyph) /\ history' = history
         /\ browsing' \in 0..Len(history) /\ cursor' = Len(text')
         /\ text' = IF browsing' = 0 THEN composed ELSE history[browsing']
         /\ browsing' # 0 => draft' = composed
<1>0. /\ text \in Seq(Glyph) /\ draft \in Seq(Glyph) /\ composed \in Seq(Glyph)
      /\ history \in Seq(Seq(Glyph)) /\ browsing \in 0..Len(history)
      /\ text = (IF browsing = 0 THEN composed ELSE history[browsing])
      /\ browsing # 0 => draft = composed
  BY DEF LineInv, LineTypes, LineIsKept
<1>1. /\ text \in Seq(Glyph) /\ draft \in Seq(Glyph) /\ composed \in Seq(Glyph)
      /\ history \in Seq(Seq(Glyph)) /\ browsing \in 0..Len(history) /\ Len(history) \in Nat
      /\ text = (IF browsing = 0 THEN composed ELSE history[browsing])
      /\ browsing # 0 => draft = composed
  BY <1>0
<1>2. ASSUME NEW i \in 1..Len(history), Recalls(i)
      PROVE  /\ browsing' = i /\ browsing' \in 0..Len(history) /\ browsing' # 0
             /\ text' = history[i] /\ text' \in Seq(Glyph) /\ cursor' = Len(text')
  BY <1>1, <1>2 DEF Recalls
<1>3. CASE history_up
  <2> DEFINE i == IF browsing = 0 THEN Len(history) ELSE IF browsing = 1 THEN 1 ELSE browsing - 1
  <2>1. history # <<>> /\ Recalls(i) /\ history' = history
        /\ draft' = (IF browsing = 0 THEN text ELSE draft)
    BY <1>3 DEF history_up
  <2>2. i \in 1..Len(history)
    BY <1>1, <2>1
  <2> HIDE DEF i
  <2>3. draft' = composed
    BY <1>1, <2>1
  <2> QED
    BY <1>1, <1>2, <2>1, <2>2, <2>3
<1>4. CASE history_down
  <2>1. browsing # 0 /\ history' = history
    BY <1>4 DEF history_down
  <2>2. CASE browsing < Len(history)
    <3>1. Recalls(browsing + 1) /\ draft' = draft /\ browsing + 1 \in 1..Len(history)
      BY <1>1, <1>4, <2>2 DEF history_down
    <3> QED
      BY <1>1, <1>2, <2>1, <3>1
  <2>3. CASE ~(browsing < Len(history))
    <3>1. browsing' = 0 /\ text' = draft /\ cursor' = Len(draft) /\ draft' = <<>>
      BY <1>4, <2>3 DEF history_down
    <3> QED
      BY <1>1, <2>1, <3>1
  <2> QED
    BY <2>2, <2>3
<1> QED
  BY <1>3, <1>4

LEMMA LineInitially == LineInit => LineInv
<1> SUFFICES ASSUME LineInit PROVE LineInv
  OBVIOUS
<1>1. /\ text = <<>> /\ cursor = 0 /\ browsing = 0 /\ draft = <<>> /\ doing = "idle"
      /\ ~leaving /\ leaving \in BOOLEAN /\ composed = <<>>
  BY DEF LineInit
<1>2. history \in Seq(Seq(Glyph)) /\ Len(history) \in Nat
  <2>1. <<"h">> \in Seq(Glyph)
    BY GlyphTypes, SequenceOfOne
  <2>2. <<<<"h">>>> \in Seq(Seq(Glyph))
    BY <2>1, SequenceOfOne
  <2>3. <<>> \in Seq(Seq(Glyph))
    OBVIOUS
  <2> QED
    BY <2>2, <2>3 DEF LineInit
<1>3. asked \in [turns: SUBSET Glyph, exits: Nat] /\ asked.turns = {} /\ asked.exits = 0
  BY DEF LineInit
<1>4. LineTypes
  BY <1>1, <1>2, <1>3 DEF LineTypes
<1>5. LineIsKept
  BY <1>1, <1>3 DEF LineIsKept
<1> QED
  BY <1>1, <1>3, <1>4, <1>5 DEF LineInv

(* What LineInv says of the line, and of the turn. *)
LineHeld ==
  /\ text \in Seq(Glyph) /\ draft \in Seq(Glyph) /\ composed \in Seq(Glyph)
  /\ history \in Seq(Seq(Glyph)) /\ browsing \in 0..Len(history)
  /\ text = (IF browsing = 0 THEN composed ELSE history[browsing])
  /\ browsing # 0 => draft = composed
  /\ cursor \in 0..Len(text)

TurnHeld ==
  /\ leaving \in BOOLEAN
  /\ asked \in [turns: SUBSET Glyph, exits: Nat]
  /\ asked.turns \cap ({" "} \cup Command) = {}
  /\ doing = "idle" => ~leaving
  /\ doing \in {"idle", "running"} /\ ~leaving => asked.exits = 0
  /\ doing = "running" => (leaving <=> asked.exits = 1)
  /\ doing = "forced" => asked.exits = 2

LEMMA BothHeld == LineInv <=> LineHeld /\ TurnHeld
BY DEF LineInv, LineTypes, LineIsKept, LineHeld, TurnHeld

LEMMA LineSame ==
  ASSUME LineHeld, UNCHANGED <<editor, composed>>
  PROVE  LineHeld'
<1>1. UNCHANGED <<text, cursor, history, browsing, draft, composed>>
  BY DEF editor
<1> QED
  BY <1>1 DEF LineHeld

LEMMA TurnSame ==
  ASSUME TurnHeld, UNCHANGED <<doing, leaving, asked>>
  PROVE  TurnHeld'
BY DEF TurnHeld

LEMMA EditedHeld ==
  ASSUME LineHeld, Edited, composed' = text'
  PROVE  LineHeld'
<1>1. /\ text' \in Seq(Glyph) /\ cursor' \in 0..Len(text') /\ browsing' = 0
      /\ history' = history /\ draft' = draft /\ composed' = text'
      /\ history \in Seq(Seq(Glyph)) /\ draft \in Seq(Glyph)
  BY DEF Edited, LineHeld
<1>2. browsing' \in 0..Len(history')
  BY <1>1
<1> QED
  BY <1>1, <1>2 DEF LineHeld

LEMMA CommitHeld ==
  ASSUME LineInv, commit, composed' = <<>>
  PROVE  LineHeld'
<1>1. /\ text' = <<>> /\ cursor' = 0 /\ browsing' = 0 /\ draft' = <<>> /\ composed' = <<>>
      /\ history' \in Seq(Seq(Glyph))
  BY CommitTakes
<1>2. browsing' \in 0..Len(history') /\ cursor' \in 0..Len(text')
  BY <1>1
<1> QED
  BY <1>1, <1>2 DEF LineHeld

LEMMA LineStep ==
  ASSUME LineInv, [LineNext]_lineVars
  PROVE  LineInv'
<1>1. LineHeld /\ TurnHeld
  BY BothHeld
<1>2. SUFFICES LineHeld' /\ TurnHeld'
  <2>1. LineHeld' /\ TurnHeld' => LineInv'
    BY DEF LineInv, LineTypes, LineIsKept, LineHeld, TurnHeld
  <2> QED
    BY <2>1
<1>3. CASE EditKey
  <2>1. /\ (\E c \in Char : insert(<<c>>)) \/ Deletes \/ DeletesWord
        /\ composed' = text' /\ asked' = asked /\ doing' = doing /\ leaving' = leaving
    BY <1>3 DEF EditKey, Composes, turn
  <2> QED
    BY <1>1, <2>1, EditKeyEdits, EditedHeld, TurnSame
<1>4. CASE MoveKey
  <2>1. /\ MovesCursor \/ history_up \/ history_down
        /\ composed' = composed /\ asked' = asked /\ doing' = doing /\ leaving' = leaving
    BY <1>4 DEF MoveKey, turn
  <2>2. CASE MovesCursor
    <3>1. /\ cursor' \in {0, left, word_left_index, word_right_index, right, Len(text)}
          /\ text' = text /\ browsing' = browsing /\ history' = history /\ draft' = draft
      BY <2>2 DEF MovesCursor
    <3>2. text \in Seq(Glyph) /\ cursor \in 0..Len(text)
      BY <1>1 DEF LineHeld
    <3>3. Len(text) \in Nat
      BY <3>2
    <3>4. cursor' \in 0..Len(text)
      BY ONLY <3>1, <3>2, <3>3, WordBounds, CursorBounds
    <3> QED
      BY <1>1, <2>1, <3>1, <3>4, TurnSame DEF LineHeld
  <2>3. CASE history_up \/ history_down
    <3>1. /\ text' \in Seq(Glyph) /\ draft' \in Seq(Glyph) /\ history' = history
          /\ browsing' \in 0..Len(history) /\ cursor' = Len(text')
          /\ text' = (IF browsing' = 0 THEN composed ELSE history[browsing'])
          /\ browsing' # 0 => draft' = composed
      BY <2>3, HistoryWalk
    <3>2. cursor' \in 0..Len(text')
      BY <3>1
    <3>3. LineHeld'
      BY <1>1, <2>1, <3>1, <3>2 DEF LineHeld
    <3> QED
      BY <1>1, <2>1, <3>3, TurnSame
  <2> QED
    BY <2>1, <2>2, <2>3
<1>5. CASE Paste
  <2>1. PICK c \in Char : IF prompt THEN UNCHANGED <<editor, composed, asked>>
                          ELSE paste(<<c, "newline">>) /\ Composes(text')
    BY <1>5 DEF Paste
  <2>2. doing' = doing /\ leaving' = leaving
    BY <1>5 DEF Paste, turn
  <2>3. CASE prompt
    BY <1>1, <2>1, <2>2, <2>3, LineSame, TurnSame
  <2>4. CASE ~prompt
    <3>1. paste(<<c, "newline">>) /\ composed' = text' /\ asked' = asked
      BY <2>1, <2>4 DEF Composes
    <3> QED
      BY <1>1, <2>2, <3>1, PasteEdits, EditedHeld, TurnSame
  <2> QED
    BY <2>3, <2>4
<1>6. CASE OtherInput \/ EnterOther
  <2>1. UNCHANGED <<editor, composed, asked, doing, leaving>>
    BY <1>6 DEF OtherInput, EnterOther, turn
  <2> QED
    BY <1>1, <2>1, LineSame, TurnSame
<1>7. CASE Escape \/ PromptTurns
  <2>1. UNCHANGED <<editor, composed, asked, doing, leaving>>
    BY <1>7 DEF Escape, PromptTurns
  <2> QED
    BY <1>1, <2>1, LineSame, TurnSame
<1>8. CASE EnterTurn
  <2>1. submission = "Turn" /\ doing \in {"idle", "running"}
    BY <1>8 DEF EnterTurn, Reads
  <2>2. CASE doing = "running"
    <3>1. UNCHANGED <<editor, composed, asked, doing, leaving>>
      BY <1>8, <2>2 DEF EnterTurn, turn
    <3> QED
      BY <1>1, <3>1, LineSame, TurnSame
  <2>3. CASE doing = "idle"
    <3>1. /\ commit /\ composed' = <<>> /\ asked' = [asked EXCEPT !.turns = @ \cup {Trimmed[1]}]
          /\ doing' = "running" /\ leaving' = leaving
      BY <1>8, <2>3 DEF EnterTurn
    <3>2. Trimmed[1] \in Glyph \ ({" "} \cup Command)
      BY <1>1, <2>1, SentBegins DEF LineHeld
    <3>3. /\ asked \in [turns: SUBSET Glyph, exits: Nat] /\ asked.exits = 0 /\ ~leaving
          /\ leaving \in BOOLEAN /\ asked.turns \cap ({" "} \cup Command) = {}
      BY <1>1, <2>3 DEF TurnHeld
    <3> DEFINE first == Trimmed[1]
    <3> HIDE DEF first
    <3>4. /\ asked' = [asked EXCEPT !.turns = @ \cup {first}]
          /\ first \in Glyph /\ first \notin {" "} \cup Command
      BY <3>1, <3>2 DEF first
    <3>5. /\ asked' \in [turns: SUBSET Glyph, exits: Nat] /\ asked'.exits = 0
          /\ asked'.turns = asked.turns \cup {first}
      BY ONLY <3>3, <3>4
    <3>6. asked'.turns \cap ({" "} \cup Command) = {}
      BY <3>3, <3>4, <3>5
    <3>7. TurnHeld'
      <4>1. ~leaving' /\ leaving' \in BOOLEAN /\ doing' = "running"
        BY <3>1, <3>3
      <4>2. asked'.exits # 1 /\ doing' # "forced" /\ doing' # "idle"
        BY <3>5, <4>1
      <4> QED
        BY ONLY <3>5, <3>6, <4>1, <4>2, Zenon DEF TurnHeld
    <3> QED
      BY <1>1, <3>1, <3>7, CommitHeld
  <2> QED
    BY <2>1, <2>2, <2>3
<1>9. CASE EnterExit
  <2>1. /\ doing \in {"idle", "running"} /\ commit /\ composed' = <<>>
        /\ asked' = [asked EXCEPT !.exits = @ + 1]
        /\ doing' = (IF doing = "idle" THEN "over" ELSE IF leaving THEN "forced" ELSE doing)
        /\ leaving' = (doing = "running")
    BY <1>9 DEF EnterExit, Reads
  <2>2. asked \in [turns: SUBSET Glyph, exits: Nat] /\ asked.exits \in Nat
    BY <1>1 DEF TurnHeld
  <2>3. /\ asked' \in [turns: SUBSET Glyph, exits: Nat] /\ asked'.exits = asked.exits + 1
        /\ asked'.turns = asked.turns
    BY <2>1, <2>2
  <2>4. leaving' \in BOOLEAN /\ (leaving' <=> doing = "running")
    BY <2>1
  <2>5. CASE doing = "idle"
    <3>1. doing' = "over"
      BY <2>1, <2>5
    <3> QED
      BY <1>1, <2>1, <2>3, <2>4, <3>1, CommitHeld DEF TurnHeld
  <2>6. CASE doing = "running"
    <3>1. leaving' /\ (leaving <=> asked.exits = 1)
      BY <1>1, <2>4, <2>6 DEF TurnHeld
    <3>2. CASE leaving
      <4>1. doing' = "forced" /\ asked'.exits = 2
        BY <2>1, <2>2, <2>3, <2>6, <3>1, <3>2
      <4> QED
        BY <1>1, <2>1, <2>3, <2>4, <4>1, CommitHeld DEF TurnHeld
    <3>3. CASE ~leaving
      <4>1. doing' = "running"
        BY <2>1, <2>6, <3>3
      <4>2. asked.exits = 0 => asked'.exits = 1
        BY <2>2, <2>3
      <4>3. asked.exits = 0
        BY <1>1, <2>6, <3>3 DEF TurnHeld
      <4> QED
        BY <1>1, <2>1, <2>3, <2>4, <3>1, <4>1, <4>2, <4>3, CommitHeld DEF TurnHeld
    <3> QED
      BY <3>2, <3>3
  <2> QED
    BY <2>1, <2>5, <2>6
<1>10. CASE EnterHelp
  <2>1. commit /\ composed' = <<>> /\ UNCHANGED <<doing, leaving, asked>>
    BY <1>10 DEF EnterHelp, Composes, turn
  <2> QED
    BY <1>1, <2>1, CommitHeld, TurnSame
<1>11. CASE ReadFails
  <2>1. /\ UNCHANGED <<editor, composed>> /\ asked' = asked
        /\ doing' = (IF errors' < 2 THEN doing ELSE IF doing = "idle" THEN "over" ELSE "closing")
        /\ leaving' = (leaving \/ doing' = "closing")
        /\ doing \in {"idle", "running"}
    BY <1>11 DEF ReadFails
  <2>2. LineHeld'
    BY <1>1, <2>1, LineSame
  <2>3. CASE doing' = doing
    <3>1. doing' # "closing" /\ leaving \in BOOLEAN
      BY <1>1, <2>1, <2>3 DEF TurnHeld
    <3>2. leaving' = leaving
      BY <2>1, <3>1
    <3> QED
      BY <1>1, <2>1, <2>2, <2>3, <3>2, TurnSame
  <2>4. CASE doing' \in {"over", "closing"}
    <3>1. leaving' \in BOOLEAN
      BY <2>1
    <3> QED
      BY <1>1, <2>1, <2>2, <2>4, <3>1 DEF TurnHeld
  <2> QED
    BY <2>1, <2>3, <2>4
<1>12. CASE TurnEnds
  <2>1. /\ UNCHANGED <<editor, composed>> /\ asked' = [asked EXCEPT !.exits = 0]
        /\ doing' \in {"over", "idle"} /\ leaving' = FALSE
    BY <1>12 DEF TurnEnds
  <2>2. LineHeld'
    BY <1>1, <2>1, LineSame
  <2>3. asked \in [turns: SUBSET Glyph, exits: Nat]
    BY <1>1 DEF TurnHeld
  <2>4. /\ asked' \in [turns: SUBSET Glyph, exits: Nat] /\ asked'.exits = 0
        /\ asked'.turns = asked.turns
    BY ONLY <2>1, <2>3
  <2>5. ~leaving' /\ leaving' \in BOOLEAN
    BY <2>1
  <2> QED
    BY <1>1, <2>1, <2>2, <2>4, <2>5 DEF TurnHeld
<1>13. CASE UNCHANGED lineVars
  <2>1. UNCHANGED <<editor, composed, asked, doing, leaving>>
    BY <1>13 DEF lineVars, turn
  <2> QED
    BY <1>1, <2>1, LineSame, TurnSame
<1> QED
  BY <1>3, <1>4, <1>5, <1>6, <1>7, <1>8, <1>9, <1>10, <1>11, <1>12, <1>13 DEF LineNext

(* However long the line and the history, and whatever is typed, pasted and recalled: the line
   is the person's own or one they sent, no command and nothing blank is sent as a turn, and
   only a second /exit leaves a turn behind.                                              *)
THEOREM LineIsAlwaysKept == LineSpec => []LineIsKept
<1>1. LineInv => LineIsKept
  BY DEF LineInv
<1> QED
  BY <1>1, LineInitially, LineStep, PTL DEF LineSpec

-----------------------------------------------------------------------------
(* The answers given for the session. *)

EveryAccess ==
  {PathAccess(k, raw) : k \in PathKind, raw \in Raw} \cup OddPaths \cup Spawns \cup Requests
    \cup {Unknown}

SessionRule ==
  [decision: {"allow", "deny"}, plugin: Plugin, kind: PathKind \cup {"spawn", "http", "unknown"},
   subject: {subject(a) : a \in EveryAccess}]

Answerable == {r \in [plugin: Plugin, access: EveryAccess] : subject(r.access) # NoSubject}

(* What a prompt shows of a request, and what a session rule is for. *)
Question(r) == <<r.plugin, r.access.kind, subject(r.access)>>
For(s) == <<s.plugin, s.kind, s.subject>>

Latest(list, j) ==
  \A k \in (j + 1)..Len(list) : Question(list[k].request) # Question(list[j].request)

(* The session rules are the answers: one rule for every question answered, with the latest
   answer to it.                                                                         *)
Distinct(list) == \A i, j \in 1..Len(list) : For(list[i]) = For(list[j]) => i = j

Stands(s, list) ==
  \E j \in 1..Len(list) :
    /\ Question(list[j].request) = For(s) /\ list[j].decision = s.decision
    /\ Latest(list, j)

Answered(r, list) == \E i \in 1..Len(list) : For(list[i]) = Question(r)

PolicyInv ==
  /\ session \in Seq(SessionRule)
  /\ answered \in Seq([decision: {"allow", "deny"}, request: Answerable])
  /\ Distinct(session)
  /\ \A i \in 1..Len(session) : Stands(session[i], answered)
  /\ \A j \in 1..Len(answered) : Answered(answered[j].request, session)
  /\ verdict = NotJudged \/ (verdict = judge_with(request) /\ request \in [plugin: Plugin, access: EveryAccess])

LEMMA KindsDiffer ==
  "spawn" \notin PathKind /\ "http" \notin PathKind /\ "unknown" \notin PathKind
BY DEF PathKind

LEMMA AccessShapes ==
  ASSUME NEW a \in EveryAccess
  PROVE  \/ a.kind \in PathKind /\ a = [kind |-> a.kind, path |-> a.path, utf8 |-> a.utf8]
              /\ a.utf8 \in BOOLEAN
         \/ a.kind = "spawn" /\ a \in Spawns
         \/ a.kind = "http" /\ a \in Requests
         \/ a.kind = "unknown" /\ a = Unknown
<1>1. CASE a \in {PathAccess(k, raw) : k \in PathKind, raw \in Raw}
  <2>1. PICK k \in PathKind, raw \in Raw : a = PathAccess(k, raw)
    BY <1>1
  <2>2. a = [kind |-> k, path |-> Submitted(k, raw), utf8 |-> TRUE]
    BY <2>1 DEF PathAccess
  <2> QED
    BY <2>2
<1>2. CASE a \in OddPaths
  BY <1>2 DEF OddPaths, PathKind
<1>3. CASE a \in Spawns
  BY <1>3 DEF Spawns
<1>4. CASE a \in Requests
  BY <1>4 DEF Requests
<1>5. CASE a = Unknown
  BY <1>5 DEF Unknown
<1> QED
  BY <1>1, <1>2, <1>3, <1>4, <1>5 DEF EveryAccess

LEMMA SubjectOfPath ==
  ASSUME NEW a, a.kind \in PathKind
  PROVE  subject(a) = IF a.utf8 THEN <<a.path>> ELSE NoSubject
BY KindsDiffer, Zenon DEF subject

LEMMA SubjectOfSpawn ==
  ASSUME NEW a, a.kind = "spawn"
  PROVE  subject(a) = IF a.stdin THEN NoSubject ELSE spawn_subject(a)
BY KindsDiffer, Zenon DEF subject

LEMMA SubjectOfRequest ==
  ASSUME NEW a, a.kind = "http"
  PROVE  subject(a) = http_subject(a)
<1>1. a.kind \notin PathKind /\ a.kind # "spawn"
  BY KindsDiffer
<1> QED
  BY <1>1, Zenon DEF subject

LEMMA SubjectOfUnknown ==
  ASSUME NEW a, a.kind = "unknown"
  PROVE  subject(a) = NoSubject
<1>1. a.kind \notin PathKind /\ a.kind # "spawn" /\ a.kind # "http"
  BY KindsDiffer
<1> QED
  BY <1>1, Zenon DEF subject

(* The text of a prompt tells the access. *)
LEMMA SubjectTells ==
  ASSUME NEW a \in EveryAccess, NEW b \in EveryAccess,
         a.kind = b.kind, subject(a) = subject(b), subject(a) # NoSubject
  PROVE  IF a.kind = "http" THEN a.method = b.method /\ a.url = b.url ELSE a = b
<1>1. CASE a.kind \in PathKind
  <2>1. /\ a = [kind |-> a.kind, path |-> a.path, utf8 |-> a.utf8] /\ a.utf8 \in BOOLEAN
        /\ b = [kind |-> b.kind, path |-> b.path, utf8 |-> b.utf8] /\ b.utf8 \in BOOLEAN
    BY <1>1, AccessShapes, KindsDiffer
  <2>2. /\ subject(a) = IF a.utf8 THEN <<a.path>> ELSE NoSubject
        /\ subject(b) = IF b.utf8 THEN <<b.path>> ELSE NoSubject
    BY <1>1, SubjectOfPath
  <2>3. a.utf8 /\ b.utf8 /\ <<a.path>> = <<b.path>>
    BY <2>2
  <2>4. a.utf8 = TRUE /\ b.utf8 = TRUE /\ a.path = b.path
    BY <2>1, <2>3
  <2>5. a = b
    BY <2>1, <2>4
  <2> QED
    BY <1>1, <2>5, KindsDiffer
<1>2. CASE a.kind = "spawn"
  <2>1. a \in Spawns /\ b \in Spawns
    BY <1>2, AccessShapes, KindsDiffer
  <2>2. /\ subject(a) = IF a.stdin THEN NoSubject ELSE spawn_subject(a)
        /\ subject(b) = IF b.stdin THEN NoSubject ELSE spawn_subject(b)
    BY <1>2, SubjectOfSpawn
  <2>3. /\ ~a.stdin /\ ~b.stdin
        /\ <<a.argv, IF a.cwd = Root THEN <<>> ELSE a.cwd>>
             = <<b.argv, IF b.cwd = Root THEN <<>> ELSE b.cwd>>
    <3>1. ~a.stdin /\ ~b.stdin
      BY <2>2
    <3>2. spawn_subject(a) = spawn_subject(b)
      BY <2>2, <3>1
    <3> QED
      BY <3>1, <3>2 DEF spawn_subject
  <2> DEFINE below == <<"w", "a">>
             spot(p) == IF p = Root THEN <<>> ELSE p
  <2>4. a.argv = b.argv /\ spot(a.cwd) = spot(b.cwd)
    <3> DEFINE pa == spot(a.cwd)  pb == spot(b.cwd)
    <3>1. <<a.argv, pa>> = <<b.argv, pb>>
      BY <2>3
    <3> HIDE DEF pa, pb
    <3>2. a.argv = b.argv /\ pa = pb
      BY <3>1
    <3> QED
      BY <3>2 DEF pa, pb
  <2>5. /\ a.cwd \in {Root, below} /\ b.cwd \in {Root, below}
        /\ below # <<>>
    <3>1. Len(below) = 2 /\ Len(<<>>) = 0
      OBVIOUS
    <3> QED
      BY <2>1, <3>1 DEF Spawns
  <2> HIDE DEF below
  <2>6. a.cwd = b.cwd
    BY ONLY <2>4, <2>5
  <2>7. a = b
    BY <2>1, <2>3, <2>4, <2>6 DEF Spawns
  <2> QED
    BY <1>2, <2>7
<1>3. CASE a.kind = "http"
  <2>1. a \in Requests /\ b \in Requests
    BY <1>3, AccessShapes, KindsDiffer
  <2>2. <<a.method, a.url.base, a.url.query, a.url.user>>
          = <<b.method, b.url.base, b.url.query, b.url.user>>
    BY <1>3, SubjectOfRequest DEF http_subject
  <2>3. a.method = b.method /\ a.url.base = b.url.base /\ a.url.query = b.url.query
        /\ a.url.user = b.url.user
    BY <2>2
  <2>4. /\ a.url \in [base: {"u"}, query: BOOLEAN, user: BOOLEAN]
        /\ b.url \in [base: {"u"}, query: BOOLEAN, user: BOOLEAN]
    BY <2>1 DEF Requests
  <2>5. a.url = b.url
    BY <2>3, <2>4
  <2> QED
    BY <1>3, <2>3, <2>5
<1>4. CASE a.kind = "unknown"
  BY <1>4, SubjectOfUnknown
<1> QED
  BY <1>1, <1>2, <1>3, <1>4, AccessShapes

LEMMA QuestionTells ==
  ASSUME NEW r \in Answerable, NEW q \in [plugin: Plugin, access: EveryAccess],
         Question(q) = Question(r)
  PROVE  SameQuestion(r, q)
<1>1. r.plugin = q.plugin /\ r.access.kind = q.access.kind /\ subject(r.access) = subject(q.access)
  BY DEF Question
<1>2. r.access \in EveryAccess /\ q.access \in EveryAccess /\ subject(r.access) # NoSubject
  BY DEF Answerable
<1> QED
  BY <1>1, <1>2, SubjectTells DEF SameQuestion

LEMMA SameQuestionShown ==
  ASSUME NEW r, NEW q, SameQuestion(r, q)
  PROVE  Question(q) = Question(r)
<1>1. CASE r.access.kind = "http" /\ q.access.kind = "http"
  <2>1. r.plugin = q.plugin /\ r.access.method = q.access.method /\ r.access.url = q.access.url
    BY <1>1 DEF SameQuestion
  <2>2. subject(r.access) = subject(q.access)
    BY <1>1, <2>1, SubjectOfRequest DEF http_subject
  <2> QED
    BY <1>1, <2>1, <2>2 DEF Question
<1>2. CASE ~(r.access.kind = "http" /\ q.access.kind = "http")
  BY <1>2 DEF SameQuestion, Question
<1> QED
  BY <1>1, <1>2

LEMMA MatchesItsQuestion ==
  ASSUME NEW s, NEW r
  PROVE  SessionMatches(s, r) <=> For(s) = Question(r) /\ subject(r.access) # NoSubject
BY DEF SessionMatches, For, Question

(* Which rule judges. *)
LEMMA FirstIsOne ==
  ASSUME NEW hits \in SUBSET (Nat \ {0})
  PROVE  IF hits = {} THEN FirstOf(hits) = 0 ELSE FirstOf(hits) \in hits /\ FirstOf(hits) # 0
<1>1. CASE hits = {}
  BY <1>1 DEF FirstOf
<1>2. CASE hits # {}
  <2>1. \E i \in hits : \A j \in hits : i <= j
    BY <1>2, LeastElement
  <2> QED
    BY <1>2, <2>1 DEF FirstOf
<1> QED
  BY <1>1, <1>2

LEMMA JudgedAs ==
  ASSUME NEW r
  PROVE  /\ judge_with(r).by \in {"session", "default"} =>
              ~\E i \in 1..Len(policy) : RuleMatches(policy[i], r)
         /\ judge_with(r).by = "session" =>
              \E i \in 1..Len(session) :
                SessionMatches(session[i], r) /\ judge_with(r).decision = session[i].decision
         /\ judge_with(r).by = "default" => ~\E i \in 1..Len(session) : SessionMatches(session[i], r)
         /\ judge_with(r).by # "none"
<1> DEFINE ruled == {i \in 1..Len(policy) : RuleMatches(policy[i], r)}
           told == {i \in 1..Len(session) : SessionMatches(session[i], r)}
           rule == FirstOf(ruled)
           answer == FirstOf(told)
<1>1. ruled \in SUBSET (Nat \ {0}) /\ told \in SUBSET (Nat \ {0})
  OBVIOUS
<1>2. IF ruled = {} THEN rule = 0 ELSE rule \in ruled /\ rule # 0
  <2> HIDE DEF ruled
  <2> QED BY <1>1, FirstIsOne
<1>3. IF told = {} THEN answer = 0 ELSE answer \in told /\ answer # 0
  <2> HIDE DEF told
  <2> QED BY <1>1, FirstIsOne
<1>4. judge_with(r) =
        CASE rule # 0 -> [by |-> "rule", index |-> rule, decision |-> policy[rule].spec.decision]
          [] rule = 0 /\ answer # 0 ->
               [by |-> "session", index |-> answer, decision |-> session[answer].decision]
          [] OTHER -> [by |-> "default", index |-> 0, decision |-> "deny"]
  BY Zenon DEF judge_with
<1>5. /\ ruled = {} => ~\E i \in 1..Len(policy) : RuleMatches(policy[i], r)
      /\ answer \in told => answer \in 1..Len(session) /\ SessionMatches(session[answer], r)
      /\ told = {} => ~\E i \in 1..Len(session) : SessionMatches(session[i], r)
  OBVIOUS
<1> HIDE DEF ruled, told, rule, answer
<1>6. CASE rule # 0
  <2>1. judge_with(r) = [by |-> "rule", index |-> rule, decision |-> policy[rule].spec.decision]
    BY <1>4, <1>6, Zenon
  <2>2. judge_with(r).by = "rule"
    BY <2>1
  <2> QED
    BY <2>2
<1>7. CASE rule = 0 /\ answer # 0
  <2>1. judge_with(r) = [by |-> "session", index |-> answer, decision |-> session[answer].decision]
    BY <1>4, <1>7, Zenon
  <2>2. judge_with(r).by = "session" /\ judge_with(r).decision = session[answer].decision
    BY <2>1
  <2> QED
    BY <1>2, <1>3, <1>5, <1>7, <2>2
<1>8. CASE rule = 0 /\ answer = 0
  <2>1. judge_with(r) = [by |-> "default", index |-> 0, decision |-> "deny"]
    BY <1>4, <1>8, Zenon
  <2>2. judge_with(r).by = "default"
    BY <2>1
  <2> QED
    BY <1>2, <1>3, <1>5, <1>8, <2>2
<1> QED
  BY <1>6, <1>7, <1>8

-----------------------------------------------------------------------------
(* Answers. *)

LEMMA AccessesAreThese == Accesses \subseteq EveryAccess
<1>1. Dir(<<"f">>) \in Raw
  <2>1. <<"f">> \in [1..1 -> {"a", "l", "d", "f", "n", ".."}]
    OBVIOUS
  <2>2. <<"f">> \in UNION {[1..k -> {"a", "l", "d", "f", "n", ".."}] : k \in 1..2}
    BY <2>1
  <2> QED
    BY <2>2 DEF Dir, Raw
<1>2. "read" \in PathKind /\ "write" \in PathKind
  BY DEF PathKind
<1>3. CASE OnePathRule
  <2>1. policy[1].kind \in PathKind
    BY <1>3 DEF OnePathRule
  <2> QED
    BY <1>3, <2>1 DEF Accesses, EveryAccess
<1>4. CASE ~OnePathRule
  BY <1>1, <1>2, <1>4 DEF Accesses, EveryAccess
<1> QED
  BY <1>3, <1>4

LEMMA AnswersAtFirst ==
  ASSUME PolicyInit
  PROVE  PolicyInv
<1>1. session = <<>> /\ answered = <<>> /\ verdict = NotJudged
  BY DEF PolicyInit
<1>2. <<>> \in Seq(SessionRule) /\ Len(<<>>) = 0
      /\ <<>> \in Seq([decision: {"allow", "deny"}, request: Answerable])
  OBVIOUS
<1> QED
  BY <1>1, <1>2 DEF PolicyInv, Distinct

LEMMA AnswersAsBefore ==
  ASSUME PolicyInv, session' = session, answered' = answered, verdict' = NotJudged
  PROVE  PolicyInv'
<1>1. session' = session /\ answered' = answered /\ verdict' = NotJudged
  OBVIOUS
<1>2. Distinct(session)' /\ (\A i \in 1..Len(session) : Stands(session[i], answered))'
  BY <1>1 DEF PolicyInv, Distinct, Stands, Latest
<1>3. (\A j \in 1..Len(answered) : Answered(answered[j].request, session))'
  BY <1>1 DEF PolicyInv, Answered
<1> QED
  BY <1>1, <1>2, <1>3 DEF PolicyInv

LEMMA AnswersAtJudge ==
  ASSUME PolicyInv, Judge
  PROVE  PolicyInv'
<1>1. PICK p \in Plugin, a \in Accesses :
        /\ request' = [plugin |-> p, access |-> a]
        /\ verdict' = judge_with([plugin |-> p, access |-> a])
  BY DEF Judge
<1> DEFINE q == [plugin |-> p, access |-> a]
<1>2. q \in [plugin: Plugin, access: EveryAccess]
  BY AccessesAreThese
<1> HIDE DEF q
<1>3. session' = session /\ answered' = answered /\ policy' = policy
      /\ request' = q /\ verdict' = judge_with(q)
  BY <1>1 DEF Judge, q
<1>4. (judge_with(request))' = judge_with(q)
  BY <1>3 DEF judge_with
<1>5. Distinct(session)' /\ (\A i \in 1..Len(session) : Stands(session[i], answered))'
  BY <1>3 DEF PolicyInv, Distinct, Stands, Latest
<1>6. (\A j \in 1..Len(answered) : Answered(answered[j].request, session))'
  BY <1>3 DEF PolicyInv, Answered
<1> QED
  BY <1>2, <1>3, <1>4, <1>5, <1>6 DEF PolicyInv

LEMMA RuleFields ==
  ASSUME NEW r \in SessionRule, NEW s \in SessionRule
  PROVE  ([r EXCEPT !.decision = s.decision] = s) <=> For(r) = For(s)
<1>1. /\ r = [decision |-> r.decision, plugin |-> r.plugin, kind |-> r.kind, subject |-> r.subject]
      /\ s = [decision |-> s.decision, plugin |-> s.plugin, kind |-> s.kind, subject |-> s.subject]
  BY DEF SessionRule
<1> DEFINE t == [decision |-> s.decision, plugin |-> r.plugin, kind |-> r.kind, subject |-> r.subject]
<1>2. [r EXCEPT !.decision = s.decision] = t
  BY <1>1
<1>3. t.plugin = r.plugin /\ t.kind = r.kind /\ t.subject = r.subject
  OBVIOUS
<1>4. t = s <=> r.plugin = s.plugin /\ r.kind = s.kind /\ r.subject = s.subject
  BY <1>1, <1>3
<1> QED
  BY <1>2, <1>4 DEF For

(* remember: one rule for a question, the new one for its own. *)
LEMMA Remembered ==
  ASSUME NEW list \in Seq(SessionRule), NEW s \in SessionRule, Distinct(list)
  PROVE  /\ remember(list, s) \in Seq(SessionRule)
         /\ Distinct(remember(list, s))
         /\ \A i \in 1..Len(remember(list, s)) :
              \/ remember(list, s)[i] = s
              \/ \E k \in 1..Len(list) :
                   remember(list, s)[i] = list[k] /\ For(list[k]) # For(s)
         /\ \E i \in 1..Len(remember(list, s)) : remember(list, s)[i] = s
         /\ \A k \in 1..Len(list) :
              \/ For(list[k]) = For(s)
              \/ \E i \in 1..Len(remember(list, s)) : remember(list, s)[i] = list[k]
<1> DEFINE same == {i \in 1..Len(list) : [list[i] EXCEPT !.decision = s.decision] = s}
           new == remember(list, s)
<1>1. Len(list) \in Nat /\ \A i \in 1..Len(list) : list[i] \in SessionRule
  OBVIOUS
<1>2. same = {i \in 1..Len(list) : For(list[i]) = For(s)}
  BY <1>1, RuleFields
<1>3. new = IF same = {} THEN Append(list, s) ELSE [list EXCEPT ![CHOOSE i \in same : TRUE] = s]
  BY DEF remember
<1>4. CASE same = {}
  <2>1. \A i \in 1..Len(list) : For(list[i]) # For(s)
    BY <1>2, <1>4
  <2>2. /\ new \in Seq(SessionRule) /\ Len(new) = Len(list) + 1
        /\ \A i \in 1..Len(list) : new[i] = list[i]
        /\ new[Len(list) + 1] = s
    <3>1. new = Append(list, s)
      BY <1>3, <1>4
    <3> HIDE DEF new
    <3> QED BY ONLY <3>1, list \in Seq(SessionRule), s \in SessionRule
  <2> HIDE DEF new, same
  <2>3. \A i, j \in 1..Len(list) : For(list[i]) = For(list[j]) => i = j
    BY DEF Distinct
  <2>4. Distinct(new)
    BY ONLY <1>1, <2>1, <2>2, <2>3 DEF Distinct
  <2>5. \A i \in 1..Len(new) :
          new[i] = s \/ \E k \in 1..Len(list) : new[i] = list[k] /\ For(list[k]) # For(s)
    BY ONLY <1>1, <2>1, <2>2
  <2>6. \E i \in 1..Len(new) : new[i] = s
    BY ONLY <1>1, <2>2
  <2>7. \A k \in 1..Len(list) : For(list[k]) = For(s) \/ \E i \in 1..Len(new) : new[i] = list[k]
    BY ONLY <1>1, <2>2
  <2> QED
    BY ONLY <2>2, <2>4, <2>5, <2>6, <2>7 DEF new
<1>5. CASE same # {}
  <2> DEFINE at == CHOOSE i \in same : TRUE
  <2>1. at \in same
    BY <1>5
  <2>2. at \in 1..Len(list) /\ For(list[at]) = For(s)
    BY <1>2, <2>1
  <2>3. /\ new \in Seq(SessionRule) /\ Len(new) = Len(list)
        /\ \A i \in 1..Len(list) : new[i] = IF i = at THEN s ELSE list[i]
    <3>1. new = [list EXCEPT ![at] = s]
      BY <1>3, <1>5
    <3> HIDE DEF new, at
    <3> QED BY ONLY <2>2, <3>1, list \in Seq(SessionRule), s \in SessionRule
  <2> HIDE DEF new, same, at
  <2>4. \A i, j \in 1..Len(list) : For(list[i]) = For(list[j]) => i = j
    BY DEF Distinct
  <2>5. \A i \in 1..Len(list) : For(new[i]) = For(list[i])
    BY ONLY <2>2, <2>3
  <2>6. Distinct(new)
    BY ONLY <2>3, <2>4, <2>5 DEF Distinct
  <2>7. \A i \in 1..Len(new) :
          new[i] = s \/ \E k \in 1..Len(list) : new[i] = list[k] /\ For(list[k]) # For(s)
    BY ONLY <2>2, <2>3, <2>4
  <2>8. \E i \in 1..Len(new) : new[i] = s
    BY ONLY <2>2, <2>3
  <2>9. \A k \in 1..Len(list) : For(list[k]) = For(s) \/ \E i \in 1..Len(new) : new[i] = list[k]
    BY ONLY <2>2, <2>3
  <2> QED
    BY ONLY <2>3, <2>6, <2>7, <2>8, <2>9 DEF new
<1> QED
  BY <1>4, <1>5

LEMMA AnswersAtAnswer ==
  ASSUME PolicyInv, AnswerForSession
  PROVE  PolicyInv'
<1>1. PICK d \in {"allow", "deny"} :
        /\ session' = remember(session, [decision |-> d, plugin |-> request.plugin,
                                         kind |-> request.access.kind,
                                         subject |-> subject(request.access)])
        /\ answered' = Append(answered, [decision |-> d, request |-> request])
  BY DEF AnswerForSession
<1> DEFINE s == [decision |-> d, plugin |-> request.plugin, kind |-> request.access.kind,
                 subject |-> subject(request.access)]
           r == request
           given == [decision |-> d, request |-> r]
<1>2. verdict' = NotJudged /\ subject(r.access) # NoSubject /\ r \in [plugin: Plugin, access: EveryAccess]
  <2>1. verdict # NotJudged
    BY DEF AnswerForSession, NotJudged
  <2> QED
    BY <2>1 DEF AnswerForSession, PolicyInv
<1>3. r \in Answerable /\ given \in [decision: {"allow", "deny"}, request: Answerable]
  BY <1>2 DEF Answerable
<1>4. s \in SessionRule /\ For(s) = Question(r) /\ s.decision = d
  <2>1. r.access.kind \in PathKind \cup {"spawn", "http", "unknown"}
    BY <1>2, AccessShapes
  <2>2. r.plugin \in Plugin /\ r.access \in EveryAccess
    BY <1>2
  <2>3. subject(r.access) \in {subject(a) : a \in EveryAccess}
    BY <2>2
  <2> QED
    BY <2>1, <2>2, <2>3 DEF SessionRule, For, Question
<1>5. given.request = r /\ given.decision = d
  OBVIOUS
<1>6. session' = remember(session, s) /\ answered' = Append(answered, given)
  BY <1>1
<1> HIDE DEF s, r, given
<1>7. /\ session \in Seq(SessionRule) /\ Distinct(session)
      /\ answered \in Seq([decision: {"allow", "deny"}, request: Answerable])
  BY DEF PolicyInv
<1>8. /\ session' \in Seq(SessionRule)
      /\ Distinct(session')
      /\ \A i \in 1..Len(session') :
           \/ session'[i] = s
           \/ \E k \in 1..Len(session) : session'[i] = session[k] /\ For(session[k]) # For(s)
      /\ \E i \in 1..Len(session') : session'[i] = s
      /\ \A k \in 1..Len(session) :
           For(session[k]) = For(s) \/ \E i \in 1..Len(session') : session'[i] = session[k]
  <2> DEFINE new == remember(session, s)
  <2>1. /\ new \in Seq(SessionRule)
        /\ Distinct(new)
        /\ \A i \in 1..Len(new) :
             \/ new[i] = s
             \/ \E k \in 1..Len(session) : new[i] = session[k] /\ For(session[k]) # For(s)
        /\ \E i \in 1..Len(new) : new[i] = s
        /\ \A k \in 1..Len(session) :
             For(session[k]) = For(s) \/ \E i \in 1..Len(new) : new[i] = session[k]
    BY <1>4, <1>7, Remembered
  <2>2. session' = new
    BY <1>6
  <2> HIDE DEF new
  <2> QED
    BY ONLY <2>1, <2>2
<1>9. /\ answered' \in Seq([decision: {"allow", "deny"}, request: Answerable])
      /\ Len(answered) \in Nat /\ Len(answered') = Len(answered) + 1
      /\ answered'[Len(answered) + 1] = given
      /\ \A j \in 1..Len(answered) : answered'[j] = answered[j]
  BY ONLY <1>3, <1>6, <1>7
<1>10. \A i \in 1..Len(session') : Stands(session'[i], answered')
  <2> TAKE i \in 1..Len(session')
  <2>1. CASE session'[i] = s
    <3>1. Latest(answered', Len(answered) + 1)
      BY ONLY <1>9 DEF Latest
    <3> QED
      BY ONLY <1>4, <1>5, <1>9, <2>1, <3>1 DEF Stands
  <2>2. CASE \E k \in 1..Len(session) : session'[i] = session[k] /\ For(session[k]) # For(s)
    <3>1. PICK k \in 1..Len(session) : session'[i] = session[k] /\ For(session[k]) # For(s)
      BY <2>2
    <3>2. Stands(session[k], answered)
      BY DEF PolicyInv
    <3>3. PICK j \in 1..Len(answered) :
            /\ Question(answered[j].request) = For(session[k])
            /\ answered[j].decision = session[k].decision
            /\ Latest(answered, j)
      BY <3>2 DEF Stands
    <3>4. Question(given.request) # Question(answered[j].request)
      BY ONLY <1>4, <1>5, <3>1, <3>3
    <3>5. \A m \in (j + 1)..Len(answered) :
            Question(answered[m].request) # Question(answered[j].request)
      BY <3>3 DEF Latest
    <3>6. \A m \in (j + 1)..Len(answered') :
            Question(answered'[m].request) # Question(answered'[j].request)
      <4> TAKE m \in (j + 1)..Len(answered')
      <4>1. m = Len(answered) + 1 \/ m \in (j + 1)..Len(answered)
        BY ONLY <1>9, <3>3
      <4> QED
        BY ONLY <1>9, <3>3, <3>4, <3>5, <4>1
    <3> QED
      BY ONLY <1>9, <3>1, <3>3, <3>6 DEF Stands, Latest
  <2> QED
    BY <1>8, <2>1, <2>2
<1>11. \A j \in 1..Len(answered') : Answered(answered'[j].request, session')
  <2> TAKE j \in 1..Len(answered')
  <2>1. PICK i \in 1..Len(session') : session'[i] = s
    BY <1>8
  <2>2. CASE j = Len(answered) + 1
    BY ONLY <1>4, <1>5, <1>9, <2>1, <2>2 DEF Answered
  <2>3. CASE j \in 1..Len(answered)
    <3>1. PICK k \in 1..Len(session) : For(session[k]) = Question(answered[j].request)
      BY <2>3 DEF PolicyInv, Answered
    <3>2. \E m \in 1..Len(session') : For(session'[m]) = For(session[k])
      BY ONLY <1>8, <2>1, <3>1
    <3> QED
      BY ONLY <1>9, <2>3, <3>1, <3>2 DEF Answered
  <2> QED
    BY <1>9, <2>2, <2>3
<1>12. Distinct(session)' /\ (\A i \in 1..Len(session) : Stands(session[i], answered))'
  BY <1>8, <1>10 DEF Distinct, Stands, Latest
<1>13. (\A j \in 1..Len(answered) : Answered(answered[j].request, session))'
  BY <1>11 DEF Answered
<1> QED
  BY <1>2, <1>8, <1>9, <1>12, <1>13 DEF PolicyInv

LEMMA AnswersMeanThis ==
  ASSUME PolicyInv
  PROVE  AnswersStayNarrow
<1> DEFINE r == request
<1>1. CASE verdict = NotJudged
  BY <1>1 DEF AnswersStayNarrow, NotJudged
<1>2. CASE verdict # NotJudged
  <2>1. /\ verdict = judge_with(r) /\ r \in [plugin: Plugin, access: EveryAccess]
        /\ \A i \in 1..Len(answered) : answered[i].request \in Answerable
    <3> DEFINE Given == [decision: {"allow", "deny"}, request: Answerable]
    <3>1. answered \in Seq(Given)
      BY DEF PolicyInv
    <3>2. \A g \in Given : g.request \in Answerable
      OBVIOUS
    <3> HIDE DEF Given
    <3>3. \A i \in 1..Len(answered) : answered[i] \in Given
      BY ONLY <3>1
    <3> QED
      BY <1>2, <3>2, <3>3 DEF PolicyInv
  <2>2. /\ verdict.by \in {"session", "default"} =>
             ~\E i \in 1..Len(policy) : RuleMatches(policy[i], r)
        /\ verdict.by = "session" =>
             \E i \in 1..Len(session) :
               SessionMatches(session[i], r) /\ verdict.decision = session[i].decision
        /\ verdict.by = "default" => ~\E i \in 1..Len(session) : SessionMatches(session[i], r)
    BY <2>1, JudgedAs
  <2>3. ASSUME verdict.by = "session"
        PROVE  \E i \in 1..Len(answered) :
                 /\ SameQuestion(answered[i].request, r)
                 /\ answered[i].decision = verdict.decision
                 /\ \A j \in (i + 1)..Len(answered) : ~SameQuestion(answered[j].request, r)
    <3>1. PICK k \in 1..Len(session) :
            SessionMatches(session[k], r) /\ verdict.decision = session[k].decision
      BY <2>2, <2>3
    <3>2. For(session[k]) = Question(r)
      BY <3>1, MatchesItsQuestion
    <3>3. PICK i \in 1..Len(answered) :
            /\ Question(answered[i].request) = For(session[k])
            /\ answered[i].decision = session[k].decision
            /\ Latest(answered, i)
      BY DEF PolicyInv, Stands
    <3>4. SameQuestion(answered[i].request, r)
      BY <2>1, <3>2, <3>3, QuestionTells
    <3>5. ASSUME NEW j \in (i + 1)..Len(answered), SameQuestion(answered[j].request, r)
          PROVE  FALSE
      <4>1. Question(r) = Question(answered[j].request)
        BY <3>5, SameQuestionShown
      <4> QED
        BY <3>2, <3>3, <4>1 DEF Latest
    <3> QED
      BY <3>1, <3>3, <3>4, <3>5
  <2>4. ASSUME verdict.by = "default", NEW i \in 1..Len(answered),
               SameQuestion(answered[i].request, r)
        PROVE  FALSE
    <3>1. Question(r) = Question(answered[i].request)
      BY <2>4, SameQuestionShown
    <3>2. PICK k \in 1..Len(session) : For(session[k]) = Question(answered[i].request)
      BY DEF PolicyInv, Answered
    <3>3. subject(answered[i].request.access) # NoSubject
      BY <2>1 DEF Answerable
    <3>4. subject(r.access) = subject(answered[i].request.access)
      BY <3>1 DEF Question
    <3>5. SessionMatches(session[k], r)
      BY <3>1, <3>2, <3>3, <3>4, MatchesItsQuestion
    <3> QED
      BY <2>2, <2>4, <3>5
  <2> QED
    BY <2>2, <2>3, <2>4 DEF AnswersStayNarrow
<1> QED
  BY <1>1, <1>2

(* The policy is always asked narrowly: an answer given for the session decides only the
   question the person was shown, the last one given to it, and only where no compiled rule
   decides (Policy::judge_with, remember, show::subject).  The session rules are the answers:
   one rule for every question answered, with the latest answer to it.                   *)
THEOREM AnswersAlwaysStayNarrow == PolicySpec => []AnswersStayNarrow
<1>1. PolicyInit => PolicyInv
  BY AnswersAtFirst
<1>2. PolicyInv /\ [PolicyNext]_policyVars => PolicyInv'
  <2> SUFFICES ASSUME PolicyInv, [PolicyNext]_policyVars
               PROVE  PolicyInv'
    OBVIOUS
  <2>1. CASE Judge
    BY <2>1, AnswersAtJudge
  <2>2. CASE AnswerForSession
    BY <2>2, AnswersAtAnswer
  <2>3. CASE Settle
    BY <2>3, AnswersAsBefore DEF Settle
  <2>4. CASE UNCHANGED policyVars
    <3>1. session' = session /\ answered' = answered /\ policy' = policy
          /\ request' = request /\ verdict' = verdict
      BY <2>4 DEF policyVars
    <3>2. (judge_with(request))' = judge_with(request)
      BY <3>1 DEF judge_with
    <3>3. Distinct(session)' /\ (\A i \in 1..Len(session) : Stands(session[i], answered))'
      BY <3>1 DEF PolicyInv, Distinct, Stands, Latest
    <3>4. (\A j \in 1..Len(answered) : Answered(answered[j].request, session))'
      BY <3>1 DEF PolicyInv, Answered
    <3> QED
      BY <3>1, <3>2, <3>3, <3>4 DEF PolicyInv
  <2> QED
    BY <2>1, <2>2, <2>3, <2>4 DEF PolicyNext
<1>3. PolicyInv => AnswersStayNarrow
  BY AnswersMeanThis
<1> QED
  BY <1>1, <1>2, <1>3, PTL DEF PolicySpec

-----------------------------------------------------------------------------
(* What is on the screen (Frames): first what wrap makes of a text, and Joined of many.
   Total, Joined and WrapLine are recursive functions: each is reached through the function
   it builds, which is shown to exist (SomethingBuilds).                                    *)

(* Arithmetic that stops at nothing and at the least. *)
LEMMA LeastType ==
  ASSUME NEW a \in Nat, NEW b \in Nat
  PROVE  Least(a, b) \in Nat /\ Minus(a, b) \in Nat
BY DEF Least, Minus

(* What is built from its last value, step by step, is there, and of its type. *)
Builds(a, step, n, f) == f[0] = a /\ \A k \in 1..n : f[k] = step[k][f[k - 1]]

LEMMA SomethingBuilds ==
  ASSUME NEW S, NEW n \in Nat, NEW a \in S, NEW step \in [1..n -> [S -> S]]
  PROVE  \E f \in [0..n -> S] : Builds(a, step, n, f)
<1> DEFINE Good == {m \in 0..n : \E f \in [0..m -> S] : Builds(a, step, m, f)}
<1>1. 0 \in Good
  <2> DEFINE f == [i \in 0..0 |-> a]
  <2>1. f \in [0..0 -> S] /\ f[0] = a
    OBVIOUS
  <2>2. \A k \in 1..0 : FALSE
    OBVIOUS
  <2> HIDE DEF f
  <2>3. Builds(a, step, 0, f)
    BY <2>1, <2>2 DEF Builds
  <2> QED BY <2>1, <2>3
<1>2. ASSUME NEW m \in 0..(n - 1), m \in Good
      PROVE  m + 1 \in Good
  <2>1. PICK f \in [0..m -> S] : Builds(a, step, m, f)
    BY <1>2
  <2> DEFINE v == step[m + 1][f[m]]
             g == [i \in 0..(m + 1) |-> IF i <= m THEN f[i] ELSE v]
  <2>2. v \in S
    <3>1. m + 1 \in 1..n /\ m \in 0..m
      OBVIOUS
    <3>2. f[m] \in S /\ step[m + 1] \in [S -> S]
      BY <3>1
    <3> QED BY <3>2
  <2>3. g \in [0..(m + 1) -> S]
    <3> HIDE DEF v
    <3> QED BY <2>2
  <2>4. g[0] = a
    <3>1. 0 \in 0..(m + 1) /\ 0 <= m
      OBVIOUS
    <3> HIDE DEF v
    <3> QED BY <2>1, <3>1 DEF Builds
  <2>5. ASSUME NEW i \in 1..(m + 1)
        PROVE  g[i] = step[i][g[i - 1]]
    <3>1. i - 1 \in 0..(m + 1) /\ i \in 0..(m + 1) /\ i - 1 <= m
      OBVIOUS
    <3>2. g[i - 1] = f[i - 1]
      <4> HIDE DEF v
      <4> QED BY <3>1
    <3>3. CASE i <= m
      <4>1. g[i] = f[i]
        <5> HIDE DEF v
        <5> QED BY <3>1, <3>3
      <4>2. f[i] = step[i][f[i - 1]]
        BY <2>1, <3>3 DEF Builds
      <4> HIDE DEF g
      <4> QED BY <3>2, <4>1, <4>2
    <3>4. CASE i = m + 1
      <4>1. g[i] = v
        <5> HIDE DEF v
        <5> QED BY <3>1, <3>4
      <4>2. i - 1 = m
        BY <3>4
      <4> HIDE DEF g
      <4> QED BY <3>2, <3>4, <4>1, <4>2
    <3> QED BY <3>3, <3>4
  <2> HIDE DEF g
  <2>6. Builds(a, step, m + 1, g)
    BY <2>4, <2>5 DEF Builds
  <2>7. m + 1 \in 0..n
    OBVIOUS
  <2> QED BY <2>3, <2>6, <2>7
<1>3. n \in Good
  <2>1. n \in 0..n
    OBVIOUS
  <2> HIDE DEF Good
  <2> QED BY <1>1, <1>2, <2>1, BySteps
<1> QED BY <1>3

(* Total, step by step. *)
Sums(ns, f) == f = [k \in 0..Len(ns) |-> IF k = 0 THEN 0 ELSE f[k - 1] + ns[k]]

LEMMA SumsAt ==
  ASSUME NEW ns \in Seq(Nat), NEW f, Sums(ns, f)
  PROVE  f[0] = 0 /\ \A k \in 1..Len(ns) : f[k] = f[k - 1] + ns[k]
<1> DEFINE F == [k \in 0..Len(ns) |-> IF k = 0 THEN 0 ELSE f[k - 1] + ns[k]]
<1>1. f = F
  BY DEF Sums
<1>2. F[0] = 0
  OBVIOUS
<1>3. ASSUME NEW k \in 1..Len(ns)
      PROVE  F[k] = f[k - 1] + ns[k]
  OBVIOUS
<1> HIDE DEF F
<1> QED BY <1>1, <1>2, <1>3

LEMMA TotalSums ==
  ASSUME NEW ns \in Seq(Nat)
  PROVE  \E f : Sums(ns, f) /\ Total(ns) = f[Len(ns)]
<1> DEFINE n == Len(ns)
           step == [k \in 1..n |-> [x \in Nat |-> x + ns[k]]]
           f == CHOOSE f : Sums(ns, f)
<1>1. Total(ns) = f[Len(ns)]
  BY DEF Total, Sums
<1>2. \E g : Sums(ns, g)
  <2>1. step \in [1..n -> [Nat -> Nat]] /\ n \in Nat
    OBVIOUS
  <2>2. \A k \in 1..n : \A x \in Nat : step[k][x] = x + ns[k]
    OBVIOUS
  <2> HIDE DEF step
  <2>3. PICK g \in [0..n -> Nat] : Builds(0, step, n, g)
    BY <2>1, SomethingBuilds
  <2>4. ASSUME NEW k \in 1..n
        PROVE  g[k - 1] \in Nat /\ g[k] = g[k - 1] + ns[k]
    <3>1. k - 1 \in 0..n
      OBVIOUS
    <3> PICK x \in Nat : x = g[k - 1]
      BY <3>1
    <3>2. g[k] = step[k][x]
      BY <2>3 DEF Builds
    <3> QED BY <2>2, <3>2
  <2>5. g = [k \in 0..Len(ns) |-> IF k = 0 THEN 0 ELSE g[k - 1] + ns[k]]
    BY <2>3, <2>4 DEF Builds
  <2> QED BY <2>5 DEF Sums
<1>3. Sums(ns, f)
  BY <1>2
<1> QED BY <1>1, <1>3

(* Joined, step by step. *)
Joins(seqs, f) == f = [k \in 0..Len(seqs) |-> IF k = 0 THEN <<>> ELSE f[k - 1] \o seqs[k]]

LEMMA JoinsAt ==
  ASSUME NEW T, NEW seqs \in Seq(Seq(T)), NEW f, Joins(seqs, f)
  PROVE  f[0] = <<>> /\ \A k \in 1..Len(seqs) : f[k] = f[k - 1] \o seqs[k]
<1> DEFINE F == [k \in 0..Len(seqs) |-> IF k = 0 THEN <<>> ELSE f[k - 1] \o seqs[k]]
<1>1. f = F
  BY DEF Joins
<1>2. F[0] = <<>>
  OBVIOUS
<1>3. ASSUME NEW k \in 1..Len(seqs)
      PROVE  F[k] = f[k - 1] \o seqs[k]
  <2>1. k \in 0..Len(seqs) /\ k # 0
    OBVIOUS
  <2>2. F[k] = IF k = 0 THEN <<>> ELSE f[k - 1] \o seqs[k]
    BY <2>1
  <2> QED BY <2>1, <2>2
<1> HIDE DEF F
<1> QED BY <1>1, <1>2, <1>3

LEMMA JoinedJoins ==
  ASSUME NEW T, NEW seqs \in Seq(Seq(T))
  PROVE  \E f : Joins(seqs, f) /\ Joined(seqs) = f[Len(seqs)]
<1> DEFINE n == Len(seqs)
           step == [k \in 1..n |-> [x \in Seq(T) |-> x \o seqs[k]]]
           f == CHOOSE f : Joins(seqs, f)
<1>1. Joined(seqs) = f[Len(seqs)]
  BY DEF Joined, Joins
<1>2. \E g : Joins(seqs, g)
  <2>1. step \in [1..n -> [Seq(T) -> Seq(T)]] /\ n \in Nat
    <3>1. \A k \in 1..n : seqs[k] \in Seq(T)
      OBVIOUS
    <3>2. \A x, y \in Seq(T) : x \o y \in Seq(T)
      OBVIOUS
    <3> QED BY <3>1, <3>2
  <2>2. \A k \in 1..n : \A x \in Seq(T) : step[k][x] = x \o seqs[k]
    OBVIOUS
  <2> HIDE DEF step
  <2>3. PICK g \in [0..n -> Seq(T)] : Builds(<<>>, step, n, g)
    <3>1. <<>> \in Seq(T)
      OBVIOUS
    <3> QED BY <2>1, <3>1, SomethingBuilds
  <2>4. ASSUME NEW k \in 1..n
        PROVE  g[k] = g[k - 1] \o seqs[k]
    <3>1. k - 1 \in 0..n
      OBVIOUS
    <3> PICK x \in Seq(T) : x = g[k - 1]
      BY <3>1
    <3>2. g[k] = step[k][x]
      BY <2>3 DEF Builds
    <3> QED BY <2>2, <3>2
  <2>5. g = [k \in 0..n |-> IF k = 0 THEN <<>> ELSE g[k - 1] \o seqs[k]]
    <3> DEFINE G == [k \in 0..n |-> IF k = 0 THEN <<>> ELSE g[k - 1] \o seqs[k]]
    <3>1. ASSUME NEW k \in 0..n
          PROVE  g[k] = G[k]
      <4>1. CASE k = 0
        BY <2>3, <4>1 DEF Builds
      <4>2. CASE k # 0
        <5>1. k \in 1..n
          BY <2>1, <4>2
        <5>2. G[k] = g[k - 1] \o seqs[k]
          BY <4>2
        <5> HIDE DEF G
        <5> QED BY <2>4, <5>1, <5>2
      <4> QED BY <4>1, <4>2
    <3>2. DOMAIN G = 0..n /\ G = [k \in 0..n |-> G[k]]
      OBVIOUS
    <3> HIDE DEF G
    <3>3. g = [k \in 0..n |-> g[k]]
      BY <2>3
    <3>4. g = G
      BY <3>1, <3>2, <3>3
    <3> QED BY <3>4 DEF G
  <2> QED BY <2>5 DEF Joins
<1>3. Joins(seqs, f)
  BY <1>2
<1> QED BY <1>1, <1>3

(* So many rows of each make so many rows in all, and each has its first after all that come
   before it.                                                                              *)
LEMMA JoinedHas ==
  ASSUME NEW T, NEW seqs \in Seq(Seq(T)), NEW ns \in Seq(Nat), Len(ns) = Len(seqs),
         \A k \in 1..Len(seqs) : ns[k] = Len(seqs[k])
  PROVE  /\ Joined(seqs) \in Seq(T)
         /\ Len(Joined(seqs)) = Total(ns)
         /\ \A i \in 1..Len(seqs) : Len(seqs[i]) > 0 =>
              /\ Total(SubSeq(ns, 1, i - 1)) \in Nat
              /\ Total(SubSeq(ns, 1, i - 1)) + 1 \in 1..Len(Joined(seqs))
              /\ Joined(seqs)[Total(SubSeq(ns, 1, i - 1)) + 1] = seqs[i][1]
<1> DEFINE n == Len(seqs)
<1>0. n \in Nat /\ \A k \in 1..n : seqs[k] \in Seq(T)
  OBVIOUS
<1>1. PICK f : Joins(seqs, f) /\ Joined(seqs) = f[n]
  BY JoinedJoins
<1>2. PICK g : Sums(ns, g) /\ Total(ns) = g[n]
  BY TotalSums
<1>3. f[0] = <<>> /\ \A k \in 1..n : f[k] = f[k - 1] \o seqs[k]
  BY <1>1, JoinsAt
<1>4. g[0] = 0 /\ \A k \in 1..n : g[k] = g[k - 1] + ns[k]
  <2>1. Sums(ns, g)
    BY <1>2
  <2> QED BY <2>1, SumsAt
<1>5. \A k \in 0..n : f[k] \in Seq(T) /\ Len(f[k]) = g[k] /\ g[k] \in Nat
  <2> DEFINE Good == {k \in 0..n : f[k] \in Seq(T) /\ Len(f[k]) = g[k] /\ g[k] \in Nat}
  <2>1. 0 \in Good
    <3>1. <<>> \in Seq(T) /\ Len(<<>>) = 0 /\ 0 \in 0..n
      BY <1>0
    <3>2. f[0] \in Seq(T) /\ Len(f[0]) = g[0] /\ g[0] \in Nat
      BY ONLY <1>3, <1>4, <3>1
    <3> QED BY <3>1, <3>2
  <2>2. ASSUME NEW k \in 0..(n - 1), k \in Good
        PROVE  k + 1 \in Good
    <3>1. k + 1 \in 1..n /\ k + 1 \in 0..n /\ k + 1 - 1 = k
      OBVIOUS
    <3> PICK m \in 1..n : m = k + 1
      BY <3>1
    <3>2. f[m] = f[k] \o seqs[m] /\ g[m] = g[k] + ns[m]
      <4>1. m - 1 = k
        BY <3>1
      <4> QED BY ONLY <1>3, <1>4, <4>1, m \in 1..n
    <3>3. f[k] \in Seq(T) /\ seqs[m] \in Seq(T) /\ Len(f[k]) = g[k] /\ g[k] \in Nat
      BY <1>0, <2>2
    <3> PICK s \in Seq(T) : s = seqs[m]
      BY <3>3
    <3> PICK x \in Seq(T) : x = f[k]
      BY <3>3
    <3>4. f[m] = x \o s /\ g[m] = Len(x) + Len(s)
      BY <3>2, <3>3
    <3>5. f[m] \in Seq(T) /\ Len(f[m]) = g[m] /\ g[m] \in Nat
      BY ONLY <3>4, s \in Seq(T), x \in Seq(T)
    <3> QED BY <3>1, <3>5
  <2> HIDE DEF Good
  <2>3. 0..n \subseteq Good
    BY <1>0, <2>1, <2>2, BySteps
  <2> QED BY <2>3 DEF Good
<1>6. Joined(seqs) \in Seq(T) /\ Len(Joined(seqs)) = Total(ns)
  BY <1>0, <1>1, <1>2, <1>5
<1>7. ASSUME NEW i \in 1..n, Len(seqs[i]) > 0
      PROVE  /\ Total(SubSeq(ns, 1, i - 1)) \in Nat
             /\ Total(SubSeq(ns, 1, i - 1)) + 1 \in 1..Len(Joined(seqs))
             /\ Joined(seqs)[Total(SubSeq(ns, 1, i - 1)) + 1] = seqs[i][1]
  <2>0. i - 1 \in Nat /\ i - 1 \in 0..n /\ i \in 0..n /\ i \in Nat
    OBVIOUS
  <2> PICK p \in Nat : p = i - 1
    BY <2>0
  <2>1. Total(SubSeq(ns, 1, i - 1)) = g[p]
    <3> PICK cs : cs = SubSeq(ns, 1, p)
      OBVIOUS
    <3>1. cs \in Seq(Nat) /\ Len(cs) = p /\ \A j \in 1..p : cs[j] = ns[j]
      BY SubSeqProperties
    <3>2. PICK h : Sums(cs, h) /\ Total(cs) = h[p]
      BY <3>1, TotalSums
    <3>3. h[0] = 0 /\ \A k \in 1..p : h[k] = h[k - 1] + cs[k]
      <4>1. Sums(cs, h) /\ cs \in Seq(Nat) /\ Len(cs) = p
        BY <3>1, <3>2
      <4>2. h[0] = 0 /\ \A k \in 1..Len(cs) : h[k] = h[k - 1] + cs[k]
        BY <4>1, SumsAt
      <4> QED BY <4>1, <4>2
    <3> DEFINE Same == {k \in 0..p : h[k] = g[k]}
    <3>4. 0 \in Same
      BY <1>4, <3>3
    <3>5. ASSUME NEW k \in 0..(p - 1), k \in Same
          PROVE  k + 1 \in Same
      <4>1. k + 1 \in 1..p /\ k + 1 \in 1..n /\ k + 1 \in 0..p /\ k + 1 - 1 = k
        BY <2>0
      <4> PICK m \in 1..p : m = k + 1
        BY <4>1
      <4>2. h[m] = h[k] + cs[m] /\ g[m] = g[k] + ns[m] /\ cs[m] = ns[m] /\ h[k] = g[k]
        BY <1>4, <3>1, <3>3, <3>5, <4>1
      <4> QED BY <4>1, <4>2
    <3> HIDE DEF Same
    <3>6. 0..p \subseteq Same
      BY <3>4, <3>5, BySteps
    <3>7. h[p] = g[p]
      BY <3>6 DEF Same
    <3> QED BY <3>2, <3>7
  <2>2. g[p] \in Nat /\ f[p] \in Seq(T) /\ Len(f[p]) = g[p]
    BY <1>5, <2>0
  <2> PICK at \in Nat : at = g[p] + 1
    BY <2>2
  <2> DEFINE Has(k) == f[i + k] \in Seq(T) /\ at <= Len(f[i + k]) /\ f[i + k][at] = seqs[i][1]
             Good == {k \in 0..(n - i) : Has(k)}
  <2>3. 0 \in Good
    <3>1. f[i] = f[p] \o seqs[i] /\ seqs[i] \in Seq(T) /\ i + 0 = i
      <4>1. i - 1 = p
        BY <2>0
      <4>2. f[i] = f[p] \o seqs[i]
        BY ONLY <1>3, <4>1, i \in 1..n
      <4> QED BY <1>0, <4>2
    <3> PICK s \in Seq(T) : s = seqs[i]
      BY <3>1
    <3> PICK x \in Seq(T) : x = f[p]
      BY <2>2
    <3>6. f[i] = x \o s /\ Len(s) > 0 /\ at = Len(x) + 1
      BY <3>1, <2>2, <1>7
    <3>7. f[i] \in Seq(T) /\ at <= Len(f[i]) /\ f[i][at] = s[1]
      BY ONLY <3>6, s \in Seq(T), x \in Seq(T)
    <3>2. f[i] \in Seq(T) /\ at <= Len(f[i]) /\ f[i][at] = seqs[i][1]
      BY <3>7
    <3>3. Has(0)
      BY <3>1, <3>2
    <3> HIDE DEF Has
    <3> QED BY <3>3, <2>0
  <2>4. ASSUME NEW k \in 0..(n - i), k + 1 \in 0..(n - i), Has(k)
        PROVE  Has(k + 1)
    <3>1. i + k \in 0..n /\ i + (k + 1) \in 1..n /\ i + (k + 1) - 1 = i + k
      BY ONLY <1>0, <2>0, <2>4, i \in 1..n, k \in 0..(n - i)
    <3> PICK j \in 0..n : j = i + k
      BY <3>1
    <3> PICK m \in 1..n : m = i + (k + 1)
      BY <3>1
    <3>2. f[m] = f[j] \o seqs[m] /\ seqs[m] \in Seq(T)
      <4>1. m - 1 = j
        BY <3>1
      <4>2. f[m] = f[j] \o seqs[m]
        BY ONLY <1>3, <4>1, m \in 1..n
      <4> QED BY <1>0, <4>2
    <3>3. f[j] \in Seq(T) /\ at <= Len(f[j]) /\ f[j][at] = seqs[i][1]
      <4>1. Has(k)
        <5> HIDE DEF Has
        <5> QED BY <2>4
      <4> QED BY ONLY <4>1, j = i + k
    <3>4. at > 0
      BY <2>2, SMTT(30)
    <3> PICK s \in Seq(T) : s = seqs[m]
      BY <3>2
    <3> PICK x \in Seq(T) : x = f[j]
      BY <3>3
    <3>6. f[m] = x \o s /\ at <= Len(x)
      BY <3>2, <3>3
    <3>7. f[m] \in Seq(T) /\ at <= Len(f[m]) /\ f[m][at] = x[at]
      BY ONLY <3>6, <3>4, at \in Nat, s \in Seq(T), x \in Seq(T)
    <3>5. f[m] \in Seq(T) /\ at <= Len(f[m]) /\ f[m][at] = seqs[i][1]
      BY <3>7, <3>3
    <3> QED BY <3>5
  <2>5. ASSUME NEW k \in 0..(n - i - 1), k \in Good
        PROVE  k + 1 \in Good
    <3>1. k \in 0..(n - i) /\ k + 1 \in 0..(n - i)
      BY <2>0
    <3>2. Has(k)
      <4> HIDE DEF Has
      <4> QED BY <2>5
    <3> HIDE DEF Has
    <3> QED BY <2>4, <3>1, <3>2
  <2>6. n - i \in Good
    <3>1. n - i \in Nat /\ n - i \in 0..(n - i)
      BY <2>0
    <3> PICK d \in Nat : d = n - i
      BY <3>1
    <3> HIDE DEF Good
    <3>2. \A k \in 0..(d - 1) : k \in Good => k + 1 \in Good
      BY <2>5
    <3>3. 0..d \subseteq Good
      BY <2>3, <3>2, BySteps
    <3> QED BY <3>1, <3>3
  <2>7. i + (n - i) = n
    BY <2>0
  <2>8. f[n] \in Seq(T) /\ at <= Len(f[n]) /\ f[n][at] = seqs[i][1]
    <3>1. Has(n - i)
      <4> HIDE DEF Has
      <4> QED BY <2>6
    <3> QED BY <2>7, <3>1
  <2>9. Total(SubSeq(ns, 1, i - 1)) \in Nat /\ Total(SubSeq(ns, 1, i - 1)) + 1 = at /\ at > 0
    BY ONLY <2>1, <2>2, at = g[p] + 1
  <2>10. Joined(seqs) = f[n] /\ Len(f[n]) \in Nat
    BY <1>1, <2>8
  <2>11. at \in 1..Len(Joined(seqs)) /\ Joined(seqs)[at] = seqs[i][1]
    BY ONLY <2>8, <2>9, <2>10, at \in Nat
  <2> QED BY ONLY <2>9, <2>11
<1> QED BY <1>6, <1>7

-----------------------------------------------------------------------------
(* What is wrapped is rows, and at least one to a line. *)
Row == Seq(Int)
Wrapping == [rows: Seq(Row), current: Row]

LEMMA AddWordType ==
  ASSUME NEW width \in Nat \ {0}, NEW s \in Wrapping, NEW word \in Nat
  PROVE  AddWord(width, s, word) \in Wrapping
<1> DEFINE full == (word - 1) \div width
           rest == word - full * width
           rows == (IF full > 0 /\ s.current # <<>> THEN Append(s.rows, s.current) ELSE s.rows)
                   \o [k \in 1..full |-> <<width>>]
           current == IF full > 0 THEN <<>> ELSE s.current
<1>1. full \in Int
  OBVIOUS
<1>2. rest \in Int
  <2> HIDE DEF full
  <2> QED BY <1>1
<1> HIDE DEF full, rest
<1>3. s.rows \in Seq(Row) /\ s.current \in Row /\ <<>> \in Row
  BY DEF Wrapping, Row
<1>4. current \in Row
  BY <1>3
<1>5. rows \in Seq(Row)
  <2>1. <<width>> \in Row
    BY DEF Row
  <2> PICK w \in Row : w = <<width>>
    BY <2>1
  <2>2. [k \in 1..full |-> w] \in Seq(Row)
    <3>1. CASE full >= 0
      BY <1>1, <3>1
    <3>2. CASE full < 0
      <4>1. 1..full = 1..0
        BY <1>1, <3>2
      <4>2. [k \in 1..0 |-> w] \in Seq(Row)
        OBVIOUS
      <4> QED BY <4>1, <4>2
    <3> QED BY <1>1, <3>1, <3>2
  <2> PICK longs \in Seq(Row) : longs = [k \in 1..full |-> <<width>>]
    BY <2>2
  <2>3. (IF full > 0 /\ s.current # <<>> THEN Append(s.rows, s.current) ELSE s.rows) \in Seq(Row)
    BY <1>3
  <2> PICK before \in Seq(Row) :
             before = IF full > 0 /\ s.current # <<>> THEN Append(s.rows, s.current) ELSE s.rows
    BY <2>3
  <2>4. rows = before \o longs
    OBVIOUS
  <2> HIDE DEF rows
  <2>5. before \o longs \in Seq(Row)
    OBVIOUS
  <2> QED BY ONLY <2>4, <2>5
<1>6. AddWord(width, s, word) =
        IF current = <<>> THEN [rows |-> rows, current |-> <<rest>>]
        ELSE IF Used(current) + 1 + rest <= width
             THEN [rows |-> rows, current |-> Append(current, rest)]
        ELSE [rows |-> Append(rows, current), current |-> <<rest>>]
  BY DEF AddWord, full, rest
<1> HIDE DEF rows, current
<1>7. Append(rows, current) \in Seq(Row)
  BY <1>4, <1>5
<1>8. <<rest>> \in Row /\ Append(current, rest) \in Row
  BY <1>2, <1>4 DEF Row
<1>9. /\ [rows |-> rows, current |-> <<rest>>] \in Wrapping
      /\ [rows |-> rows, current |-> Append(current, rest)] \in Wrapping
      /\ [rows |-> Append(rows, current), current |-> <<rest>>] \in Wrapping
  BY <1>5, <1>7, <1>8 DEF Wrapping
<1> QED BY ONLY <1>6, <1>9

(* WrapLine, word by word. *)
Wraps(line, width, f) ==
  f = [k \in 0..Len(line) |-> IF k = 0 THEN [rows |-> <<>>, current |-> <<>>]
                              ELSE AddWord(width, f[k - 1], line[k])]

LEMMA WrapLineType ==
  ASSUME NEW line \in Seq(Nat), NEW width \in Nat \ {0}
  PROVE  WrapLine(line, width) \in Seq(Row) /\ Len(WrapLine(line, width)) > 0
<1> DEFINE n == Len(line)
           start == [rows |-> <<>>, current |-> <<>>]
           step == [k \in 1..n |-> [x \in Wrapping |-> AddWord(width, x, line[k])]]
           f == CHOOSE f : Wraps(line, width, f)
<1>0. start \in Wrapping /\ n \in Nat
  BY DEF Wrapping, Row
<1>1. WrapLine(line, width) = Append(f[n].rows, f[n].current)
  BY DEF WrapLine, Wraps
<1> HIDE DEF start
<1>2. \E g : Wraps(line, width, g)
  <2>1. step \in [1..n -> [Wrapping -> Wrapping]]
    <3>1. \A k \in 1..n : line[k] \in Nat
      OBVIOUS
    <3> QED BY <3>1, AddWordType
  <2>2. \A k \in 1..n : \A x \in Wrapping : step[k][x] = AddWord(width, x, line[k])
    OBVIOUS
  <2> HIDE DEF step
  <2>3. PICK g \in [0..n -> Wrapping] : Builds(start, step, n, g)
    BY <1>0, <2>1, SomethingBuilds
  <2>4. ASSUME NEW k \in 1..n
        PROVE  g[k] = AddWord(width, g[k - 1], line[k])
    <3>1. k - 1 \in 0..n
      BY <1>0
    <3> PICK x \in Wrapping : x = g[k - 1]
      BY <3>1
    <3>2. g[k] = step[k][x]
      BY <2>3 DEF Builds
    <3> QED BY <2>2, <3>2
  <2> DEFINE G == [k \in 0..n |-> IF k = 0 THEN start ELSE AddWord(width, g[k - 1], line[k])]
  <2>5. ASSUME NEW k \in 0..n
        PROVE  g[k] = G[k]
    <3>1. CASE k = 0
      BY <2>3, <3>1 DEF Builds
    <3>2. CASE k # 0
      <4>1. k \in 1..n
        BY <1>0, <3>2
      <4>2. G[k] = AddWord(width, g[k - 1], line[k])
        BY <3>2
      <4> HIDE DEF G
      <4> QED BY <2>4, <4>1, <4>2
    <3> QED BY <3>1, <3>2
  <2>6. G = [k \in 0..n |-> G[k]]
    OBVIOUS
  <2> HIDE DEF G
  <2>7. g = [k \in 0..n |-> g[k]]
    BY <2>3
  <2>8. g = G
    BY <2>5, <2>6, <2>7
  <2> QED BY <2>8 DEF G, Wraps, start
<1>3. Wraps(line, width, f)
  BY <1>2
<1> HIDE DEF f
<1>4. f[0] = start /\ \A k \in 1..n : f[k] = AddWord(width, f[k - 1], line[k])
  <2> DEFINE F == [k \in 0..n |-> IF k = 0 THEN start ELSE AddWord(width, f[k - 1], line[k])]
  <2>1. f = F
    BY <1>3 DEF Wraps, start
  <2>2. F[0] = start
    BY <1>0
  <2>3. ASSUME NEW k \in 1..n
        PROVE  F[k] = AddWord(width, f[k - 1], line[k])
    <3>1. k \in 0..n /\ k # 0
      BY <1>0
    <3>2. F[k] = IF k = 0 THEN start ELSE AddWord(width, f[k - 1], line[k])
      BY <3>1
    <3> QED BY <3>1, <3>2
  <2> HIDE DEF F
  <2> QED BY <2>1, <2>2, <2>3
<1> DEFINE Good == {k \in 0..n : f[k] \in Wrapping}
<1>5. 0 \in Good
  BY <1>0, <1>4
<1>6. ASSUME NEW k \in 0..(n - 1), k \in Good
      PROVE  k + 1 \in Good
  <2>1. k + 1 \in 1..n /\ k + 1 \in 0..n /\ k + 1 - 1 = k /\ f[k] \in Wrapping
    BY <1>0, <1>6
  <2> PICK m \in 1..n : m = k + 1
    BY <2>1
  <2>2. f[m] = AddWord(width, f[k], line[m]) /\ line[m] \in Nat
    <3>1. m - 1 = k
      BY <2>1
    <3>2. f[m] = AddWord(width, f[k], line[m])
      BY ONLY <1>4, <3>1, m \in 1..n
    <3> QED BY <3>2
  <2>3. f[m] \in Wrapping
    BY <2>1, <2>2, AddWordType
  <2> QED BY <2>1, <2>3
<1>7. f[n] \in Wrapping
  <2> HIDE DEF Good
  <2>1. 0..n \subseteq Good
    BY <1>0, <1>5, <1>6, BySteps
  <2>2. n \in 0..n
    BY <1>0
  <2> QED BY <2>1, <2>2 DEF Good
<1>8. f[n].rows \in Seq(Row) /\ f[n].current \in Row
  BY <1>7 DEF Wrapping
<1> PICK rows \in Seq(Row) : rows = f[n].rows
  BY <1>8
<1> PICK current \in Row : current = f[n].current
  BY <1>8
<1>9. WrapLine(line, width) = Append(rows, current)
  BY <1>1
<1>10. Append(rows, current) \in Seq(Row) /\ Len(Append(rows, current)) > 0
  OBVIOUS
<1> QED BY ONLY <1>9, <1>10

Texts == Seq(Seq(Nat)) \ {<<>>}

LEMMA WrapType ==
  ASSUME NEW words \in Texts, NEW width \in Nat
  PROVE  wrap(words, width) \in Seq(Row) /\ Len(wrap(words, width)) \in Nat \ {0}
<1>0. words \in Seq(Seq(Nat)) /\ Len(words) \in Nat /\ Len(words) > 0
  BY DEF Texts
<1> PICK w \in Nat \ {0} : w = IF width = 0 THEN 1 ELSE width
  OBVIOUS
<1> DEFINE seqs == [k \in DOMAIN words |-> WrapLine(words[k], w)]
<1>1. seqs \in Seq(Seq(Row)) /\ Len(seqs) = Len(words)
      /\ \A k \in 1..Len(words) : seqs[k] \in Seq(Row) /\ Len(seqs[k]) > 0
  <2>1. ASSUME NEW k \in 1..Len(words)
        PROVE  WrapLine(words[k], w) \in Seq(Row) /\ Len(WrapLine(words[k], w)) > 0
    <3>1. words[k] \in Seq(Nat)
      BY <1>0
    <3> QED BY <3>1, WrapLineType
  <2>2. DOMAIN words = 1..Len(words)
    BY <1>0
  <2>3. \A k \in 1..Len(words) : seqs[k] = WrapLine(words[k], w)
    BY <2>2
  <2>4. seqs = [k \in 1..Len(words) |-> seqs[k]]
    BY <2>2
  <2> HIDE DEF seqs
  <2>5. \A k \in 1..Len(words) : seqs[k] \in Seq(Row) /\ Len(seqs[k]) > 0
    BY <2>1, <2>3
  <2>6. seqs \in Seq(Seq(Row)) /\ Len(seqs) = Len(words)
    BY <1>0, <2>4, <2>5
  <2> QED BY <2>5, <2>6
<1>2. wrap(words, width) = Joined(seqs)
  BY DEF wrap
<1> HIDE DEF seqs
<1> DEFINE ns == [k \in 1..Len(words) |-> Len(seqs[k])]
<1>3. ns \in Seq(Nat) /\ Len(ns) = Len(seqs) /\ \A k \in 1..Len(seqs) : ns[k] = Len(seqs[k])
  <2>1. \A k \in 1..Len(words) : Len(seqs[k]) \in Nat
    BY <1>1
  <2> QED BY <1>0, <1>1, <2>1
<1> HIDE DEF ns
<1>4. /\ Joined(seqs) \in Seq(Row)
      /\ Len(Joined(seqs)) = Total(ns)
      /\ \A i \in 1..Len(seqs) : Len(seqs[i]) > 0 =>
           /\ Total(SubSeq(ns, 1, i - 1)) \in Nat
           /\ Total(SubSeq(ns, 1, i - 1)) + 1 \in 1..Len(Joined(seqs))
           /\ Joined(seqs)[Total(SubSeq(ns, 1, i - 1)) + 1] = seqs[i][1]
  BY <1>1, <1>3, JoinedHas
<1>5. 1 \in 1..Len(seqs) /\ Len(seqs[1]) > 0
  BY <1>0, <1>1
<1>6. Len(Joined(seqs)) \in Nat /\ Len(Joined(seqs)) # 0
  <2>1. 1..Len(Joined(seqs)) # {}
    BY <1>4, <1>5
  <2>2. Len(Joined(seqs)) \in Nat
    BY <1>4
  <2> QED BY <2>1, <2>2
<1> QED BY <1>2, <1>4, <1>6

-----------------------------------------------------------------------------
(* The box of a prompt.  What a frame had measured (FrameInForce) stays what the keys go by
   until the next: that frame's own scroll is known at the first key, and what the key made
   of it at the frame after.                                                              *)
BoxKeys == {"none", "up", "down", "more"}

BoxTypes ==
  /\ shown \in Asked
  /\ above \in Nat
  /\ measured.rows \in Nat /\ measured.visible \in Nat
  /\ drawn.width \in Nat /\ drawn.height \in Nat /\ drawn.rows \in Nat /\ drawn.start \in Nat
  /\ keyed.keys \in BoxKeys /\ keyed.key \in BoxKeys /\ keyed.start \in Nat
  /\ DOMAIN keyed = {"keys", "key", "start"}

(* The scroll, and the row on top of the frame: the same until a key, then a page off at most. *)
ScrollFits(at, keys, start, last, page_) ==
  /\ keys = "none" => start = Least(at, last)
  /\ keys = "down" => /\ start <= at /\ at <= start + page_ /\ at <= last
                      /\ at > start \/ at = last
  /\ keys = "up" => at <= start /\ start <= at + page_ /\ start <= last

InForce(question, at, by, box, keys) ==
  LET rows == Len(wrap(question.lines, box.width))
      seen == Visible(box.height, Len(wrap(question.legend, box.width)))
  IN  /\ box.width > 0 /\ box.height > 0
      /\ by.rows = rows /\ by.visible = seen
      /\ ScrollFits(at, keys, box.start, Minus(rows, seen), seen)

FrameInForce ==
  drawn # NoBox /\ keyed.keys # "more" => InForce(shown, above, measured, drawn, keyed.keys)

BoxInv == BoxTypes /\ FrameInForce /\ BoxIsTrue

LEMMA AskedTexts ==
  ASSUME NEW question \in Asked
  PROVE  question.lines \in Texts /\ question.legend \in Texts
BY BoxAssumption DEF Texts

LEMMA BoxRows ==
  ASSUME NEW question \in Asked, NEW width \in Nat
  PROVE  /\ Len(wrap(question.lines, width)) \in Nat \ {0}
         /\ Len(wrap(question.legend, width)) \in Nat \ {0}
BY AskedTexts, WrapType

LEMMA BoxStart == BoxInit => BoxInv
<1> SUFFICES ASSUME BoxInit PROVE BoxInv
  OBVIOUS
<1>1. BoxTypes
  BY DEF BoxInit, BoxTypes, NoBox, BoxKeys
<1>2. drawn = NoBox
  BY DEF BoxInit
<1> QED BY <1>1, <1>2 DEF BoxInv, FrameInForce, BoxIsTrue

(* The scroll keys. *)
LEMMA ScrollsStep ==
  ASSUME BoxInv, NEW to \in Nat, NEW way \in {"up", "down"}, ScrollsBox(to, way),
         way = "up" => to = Minus(above, 1) \/ to = Minus(above, box_page),
         way = "down" => to = above + 1 \/ to = above + box_page
  PROVE  BoxInv'
<1>1. BoxTypes
  BY DEF BoxInv
<1>2. /\ above' = Least(to, max_scroll)
      /\ keyed' = [keyed EXCEPT !.keys = IF @ = "none" THEN way ELSE "more"]
      /\ shown' = shown /\ measured' = measured /\ drawn' = drawn
  BY DEF ScrollsBox
<1>3. keyed'.keys = (IF keyed.keys = "none" THEN way ELSE "more") /\ keyed'.key = keyed.key
      /\ keyed'.start = keyed.start /\ DOMAIN keyed' = DOMAIN keyed
  BY <1>1, <1>2 DEF BoxTypes
<1>4. max_scroll \in Nat /\ above' \in Nat
  BY <1>1, <1>2, LeastType DEF BoxTypes, max_scroll
<1>5. BoxTypes'
  BY <1>1, <1>2, <1>3, <1>4 DEF BoxTypes, BoxKeys
<1>6. BoxIsTrue'
  <2>1. BoxIsTrue
    BY DEF BoxInv
  <2> QED BY <2>1, <1>2, <1>3 DEF BoxIsTrue, NoBox
<1>7. FrameInForce'
  <2>0. SUFFICES ASSUME drawn # NoBox, keyed.keys = "none"
                 PROVE  InForce(shown, above', measured, drawn, way)
    BY <1>2, <1>3 DEF FrameInForce, NoBox
  <2> PICK rows \in Nat \ {0} : rows = Len(wrap(shown.lines, drawn.width))
    BY <1>1, BoxRows DEF BoxTypes
  <2> PICK legend \in Nat \ {0} : legend = Len(wrap(shown.legend, drawn.width))
    BY <1>1, BoxRows DEF BoxTypes
  <2> PICK seen : seen = Visible(drawn.height, legend)
    OBVIOUS
  <2>2. /\ drawn.width > 0 /\ drawn.height > 0
        /\ measured.rows = rows /\ measured.visible = seen
        /\ ScrollFits(above, "none", drawn.start, Minus(rows, seen), seen)
    <3>1. InForce(shown, above, measured, drawn, "none")
      BY <2>0 DEF BoxInv, FrameInForce
    <3> QED BY <3>1 DEF InForce
  <2>3. seen \in Nat /\ seen > 0
    <3>1. seen = Visible(drawn.height, legend) /\ drawn.height \in Nat /\ drawn.height > 0
      BY <1>1, <2>2 DEF BoxTypes
    <3> QED BY ONLY <3>1, legend \in Nat \ {0} DEF Visible, Least, Minus
  <2> PICK last \in Nat : last = Minus(rows, seen)
    BY <2>3, LeastType
  <2>4. box_page = seen /\ max_scroll = last
    BY <2>2, <2>3 DEF box_page, max_scroll
  <2>5. above \in Nat /\ drawn.start = Least(above, last) /\ above' = Least(to, last)
    BY <1>1, <1>2, <2>2, <2>4 DEF BoxTypes, ScrollFits
  <2> PICK a \in Nat : a = above
    BY <2>5
  <2> PICK b \in Nat : b = above'
    BY <1>4
  <2> PICK start \in Nat : start = drawn.start
    BY <1>1 DEF BoxTypes
  <2>6. way = "up" => b <= start /\ start <= b + seen /\ start <= last
    <3>1. way = "up" => to = Minus(a, 1) \/ to = Minus(a, seen)
      BY <2>4
    <3>2. start = Least(a, last) /\ b = Least(to, last)
      BY <2>5
    <3> QED BY ONLY <2>3, <3>1, <3>2, a \in Nat, last \in Nat, to \in Nat DEF Least, Minus
  <2>7. way = "down" => /\ start <= b /\ b <= start + seen /\ b <= last
                        /\ b > start \/ b = last
    <3>1. way = "down" => to = a + 1 \/ to = a + seen
      BY <2>4
    <3>2. start = Least(a, last) /\ b = Least(to, last)
      BY <2>5
    <3> QED BY ONLY <2>3, <3>1, <3>2, a \in Nat, last \in Nat, to \in Nat DEF Least
  <2>8. ScrollFits(b, way, start, last, seen)
    BY <2>6, <2>7 DEF ScrollFits
  <2> QED BY <2>2, <2>8 DEF InForce
<1> QED BY <1>5, <1>6, <1>7 DEF BoxInv

(* A frame. *)
LEMMA HeightType ==
  ASSUME NEW width \in Nat, NEW area \in Nat, shown \in Asked
  PROVE  height(width, area) \in Nat /\ max_box(area) \in Nat /\ inner_width(width) \in Nat
<1>1. max_box(area) \in Nat
  BY DEF max_box
<1>2. inner_width(width) \in Nat
  BY DEF inner_width
<1> PICK inner \in Nat : inner = inner_width(width)
  BY <1>2
<1> PICK n \in Nat : n = Len(wrap(shown.lines, inner)) + 2 + Len(wrap(shown.legend, inner))
  BY BoxRows
<1> PICK limit \in Nat : limit = max_box(area)
  BY <1>1
<1>3. height(width, area) = Least(n, limit)
  BY DEF height
<1> QED BY <1>1, <1>2, <1>3, LeastType

(* What is drawn of so many rows, in a box of its height. *)
Window(h, rows, legend, at, seen, start, some, under) ==
  /\ seen = Visible(h, legend) /\ start = Least(at, Minus(rows, seen))
  /\ some = Least(seen, rows - start) /\ under = Least(legend, h - seen)

LEMMA WindowShows ==
  ASSUME NEW h \in Nat, NEW rows \in Nat \ {0}, NEW legend \in Nat \ {0}, NEW at \in Nat,
         NEW seen, NEW start, NEW some, NEW under,
         h > 0, Window(h, rows, legend, at, seen, start, some, under)
  PROVE  /\ seen \in Nat /\ seen > 0 /\ seen <= h /\ start \in Nat /\ some > 0
         /\ some = Least(seen, rows)
         /\ h = rows + legend => some = rows /\ under = legend
         /\ under < legend => some = 1
<1>0. /\ seen = Visible(h, legend) /\ start = Least(at, Minus(rows, seen))
      /\ some = Least(seen, rows - start) /\ under = Least(legend, h - seen)
  BY DEF Window
<1>1. seen \in Nat /\ seen > 0 /\ seen <= h
  BY <1>0 DEF Visible, Least, Minus
<1>2. start \in Nat /\ some = Least(seen, rows)
  BY ONLY <1>0, <1>1, rows \in Nat \ {0}, at \in Nat DEF Least, Minus
<1>3. h = rows + legend => some = rows /\ under = legend
  <2>1. h = rows + legend => seen = rows
    BY <1>0 DEF Visible, Least, Minus
  <2> QED BY <1>0, <1>1, <1>2, <2>1 DEF Least
<1>4. under < legend => some = 1
  <2>1. Minus(h, legend) > 0 => seen = h - legend
    BY <1>0 DEF Visible, Least, Minus
  <2>2. Minus(h, legend) = 0 => seen = 1
    BY <1>0 DEF Visible, Least
  <2>3. Minus(h, legend) \in Nat
    BY LeastType
  <2>4. Minus(h, legend) > 0 => under = legend
    BY <1>0, <2>1 DEF Least
  <2> QED BY <1>2, <2>2, <2>3, <2>4 DEF Least
<1> QED BY <1>1, <1>2, <1>3, <1>4 DEF Least

LEMMA DrawBoxStep == BoxInv /\ DrawBox => BoxInv'
<1> SUFFICES ASSUME BoxInv, DrawBox PROVE BoxInv'
  OBVIOUS
<1>0. BoxTypes
  BY DEF BoxInv
<1> PICK screen \in Screens : \E given \in regions(screen) :
       /\ IF given = 0 \/ screen.width = 0
          THEN drawn' = NoBox /\ UNCHANGED measured
          ELSE render_prompt(screen, given)
       /\ keyed' = [keys |-> "none",
                    key |-> IF drawn'.width = drawn.width /\ drawn'.height = drawn.height
                            THEN keyed.keys ELSE "more",
                    start |-> drawn.start]
       /\ UNCHANGED <<shown, above>>
  BY DEF DrawBox
<1> PICK given \in regions(screen) :
       /\ IF given = 0 \/ screen.width = 0
          THEN drawn' = NoBox /\ UNCHANGED measured
          ELSE render_prompt(screen, given)
       /\ keyed' = [keys |-> "none",
                    key |-> IF drawn'.width = drawn.width /\ drawn'.height = drawn.height
                            THEN keyed.keys ELSE "more",
                    start |-> drawn.start]
       /\ UNCHANGED <<shown, above>>
  OBVIOUS
<1>1. /\ shown' = shown /\ above' = above
      /\ keyed'.keys = "none" /\ keyed'.start = drawn.start
      /\ keyed'.key = (IF drawn'.width = drawn.width /\ drawn'.height = drawn.height
                       THEN keyed.keys ELSE "more")
      /\ DOMAIN keyed' = {"keys", "key", "start"}
  OBVIOUS
<1>2. screen.width \in Nat /\ screen.height \in Nat /\ shown \in Asked /\ above \in Nat
  BY <1>0, BoxAssumption DEF BoxTypes
<1>3. keyed'.key \in BoxKeys /\ keyed'.keys \in BoxKeys /\ keyed'.start \in Nat
  BY <1>0, <1>1 DEF BoxTypes, BoxKeys
<1>4. given \in Nat
  <2> PICK h \in Nat : h = height(screen.width, screen.height)
    BY <1>2, HeightType
  <2>1. given \in (IF screen.height >= h + 3 THEN {h} ELSE 0..Least(h, screen.height))
    BY DEF regions
  <2>2. Least(h, screen.height) \in Nat
    BY <1>2, LeastType
  <2> QED BY <2>1, <2>2
<1>5. CASE drawn' = NoBox /\ measured'.rows \in Nat /\ measured'.visible \in Nat
  <2>1. BoxTypes'
    BY <1>1, <1>2, <1>3, <1>5 DEF BoxTypes, NoBox
  <2> QED BY <1>5, <2>1 DEF BoxInv, FrameInForce, BoxIsTrue, NoBox
<1>6. CASE given = 0 \/ screen.width = 0
  BY <1>0, <1>5, <1>6 DEF BoxTypes
<1>7. CASE ~(given = 0 \/ screen.width = 0)
  <2> PICK width \in Nat : width = Minus(screen.width, 2)
    BY <1>2, LeastType
  <2> PICK inner \in Nat : inner = Minus(given, 2)
    BY <1>4, LeastType
  <2> PICK rows \in Nat \ {0} : rows = Len(wrap(shown.lines, width))
    BY <1>2, BoxRows
  <2> PICK legend \in Nat \ {0} : legend = Len(wrap(shown.legend, width))
    BY <1>2, BoxRows
  <2> PICK seen : seen = Visible(inner, legend)
    OBVIOUS
  <2> PICK last : last = Minus(rows, seen)
    OBVIOUS
  <2> PICK start : start = Least(above, last)
    OBVIOUS
  <2> PICK some : some = Least(seen, rows - start)
    OBVIOUS
  <2> PICK under : under = Least(legend, inner - seen)
    OBVIOUS
  <2> PICK entire : entire = (given < max_box(screen.height)
                              /\ given = height(screen.width, screen.height))
    OBVIOUS
  <2>1. /\ measured' = [rows |-> rows, visible |-> seen]
        /\ drawn' = IF width = 0 \/ inner = 0 THEN NoBox
                    ELSE [width |-> width, height |-> inner, rows |-> rows, start |-> start,
                          shown |-> some, legend |-> legend, under |-> under, entire |-> entire]
    BY <1>7 DEF render_prompt
  <2>2. seen \in Nat
    BY DEF Visible, Least, Minus
  <2>3. CASE width = 0 \/ inner = 0
    BY <1>5, <2>1, <2>2, <2>3
  <2>4. CASE ~(width = 0 \/ inner = 0)
    <3>1. /\ drawn'.width = width /\ drawn'.height = inner /\ drawn'.rows = rows
          /\ drawn'.start = start /\ drawn'.shown = some /\ drawn'.legend = legend
          /\ drawn'.under = under /\ drawn'.entire = entire
          /\ measured'.rows = rows /\ measured'.visible = seen
      BY <2>1, <2>4
    <3>2. /\ seen > 0 /\ seen <= inner /\ start \in Nat /\ some > 0
          /\ some = Least(seen, rows)
          /\ inner = rows + legend => some = rows /\ under = legend
          /\ under < legend => some = 1
      <4> PICK at \in Nat : at = above
        BY <1>2
      <4>1. inner > 0
        BY <2>4
      <4>2. Window(inner, rows, legend, at, seen, start, some, under)
        BY DEF Window
      <4> QED BY ONLY <4>1, <4>2, inner \in Nat, rows \in Nat \ {0}, legend \in Nat \ {0},
                      at \in Nat, WindowShows
    <3>3. BoxTypes'
      BY <1>1, <1>2, <1>3, <2>2, <3>1, <3>2 DEF BoxTypes
    <3>4. FrameInForce'
      <4>1. ScrollFits(above, "none", start, last, seen)
        BY DEF ScrollFits
      <4>2. InForce(shown', above', measured', drawn', keyed'.keys)
        BY <1>1, <2>4, <3>1, <4>1 DEF InForce
      <4> QED BY <4>2 DEF FrameInForce
    <3>5. entire => inner = rows + legend
      <4> SUFFICES ASSUME entire PROVE inner = rows + legend
        OBVIOUS
      <4>1. screen.width > 2 /\ width = screen.width - 2
        BY <1>2, <2>4 DEF Minus
      <4>2. inner_width(screen.width) = width
        BY <1>2, <4>1 DEF inner_width
      <4>3. height(screen.width, screen.height) = Least(rows + 2 + legend, max_box(screen.height))
        BY <4>2 DEF height
      <4>4. max_box(screen.height) \in Nat
        BY <1>2, HeightType
      <4> PICK limit \in Nat : limit = max_box(screen.height)
        BY <4>4
      <4>5. given < limit /\ given = Least(rows + 2 + legend, limit)
        BY <4>3
      <4> QED BY ONLY <1>4, <4>5, rows \in Nat \ {0}, legend \in Nat \ {0}, limit \in Nat,
                      inner = Minus(given, 2) DEF Least, Minus
    <3>6. keyed'.key \in {"up", "down"} =>
            ScrollFits(above, keyed'.key, drawn.start, last, seen)
      <4> SUFFICES ASSUME keyed'.key \in {"up", "down"}
          PROVE  ScrollFits(above, keyed'.key, drawn.start, last, seen)
        OBVIOUS
      <4>1. drawn.width = width /\ drawn.height = inner /\ keyed.keys = keyed'.key
        BY <1>1, <3>1
      <4>2. drawn # NoBox /\ keyed.keys # "more"
        BY <2>4, <4>1 DEF NoBox
      <4>3. InForce(shown, above, measured, drawn, keyed.keys)
        BY <4>2 DEF BoxInv, FrameInForce
      <4> QED BY <4>1, <4>3 DEF InForce
    <3>7. BoxIsTrue'
      <4> PICK was \in Nat : was = drawn.start
        BY <1>0 DEF BoxTypes
      <4> PICK key \in BoxKeys : key = keyed'.key
        BY <1>3
      <4> PICK at \in Nat : at = above
        BY <1>2
      <4>1. last \in Nat
        BY <2>2, LeastType
      <4>2. key = "down" =>
              /\ was <= start /\ start <= was + some
              /\ start > was \/ start + some = rows
        <5>1. key = "down" => /\ was <= at /\ at <= was + seen /\ at <= last
                              /\ at > was \/ at = last
          BY <3>6 DEF ScrollFits
        <5>2. start = Least(at, last) /\ some = Least(seen, rows) /\ last = Minus(rows, seen)
          BY <3>2
        <5>3. key = "down" => start = at
          BY ONLY <4>1, <5>1, <5>2, at \in Nat DEF Least
        <5>4. CASE rows > seen
          <6>1. last = rows - seen /\ some = seen
            BY <2>2, <5>2, <5>4 DEF Minus, Least
          <6> QED BY ONLY <2>2, <4>1, <5>1, <5>3, <6>1, at \in Nat, was \in Nat, rows \in Nat \ {0}
        <5>5. CASE ~(rows > seen)
          <6>1. last = 0 /\ some = rows
            BY <2>2, <5>2, <5>5 DEF Minus, Least
          <6> QED BY ONLY <2>2, <4>1, <5>1, <5>3, <6>1, at \in Nat, was \in Nat, rows \in Nat \ {0}
        <5> QED BY <5>4, <5>5
      <4>3. key = "up" => start <= was /\ was <= start + some
        <5>1. key = "up" => at <= was /\ was <= at + seen /\ was <= last
          BY <3>6 DEF ScrollFits
        <5>2. start = Least(at, last) /\ some = Least(seen, rows) /\ last = Minus(rows, seen)
          BY <3>2
        <5>3. key = "up" => start = at
          BY ONLY <4>1, <5>1, <5>2, at \in Nat, was \in Nat DEF Least
        <5>4. CASE rows > seen
          <6>1. some = seen
            BY <2>2, <5>2, <5>4 DEF Least
          <6> QED BY <5>1, <5>3, <6>1
        <5>5. CASE ~(rows > seen)
          <6>1. last = 0 /\ some = rows
            BY <2>2, <5>2, <5>5 DEF Minus, Least
          <6> QED BY ONLY <5>1, <5>3, <6>1, at \in Nat, was \in Nat, rows \in Nat \ {0}
        <5> QED BY <5>4, <5>5
      <4> QED BY <1>1, <3>1, <3>2, <3>5, <4>2, <4>3 DEF BoxIsTrue
    <3> QED BY <3>3, <3>4, <3>7 DEF BoxInv
  <2> QED BY <2>3, <2>4
<1> QED BY <1>6, <1>7

LEMMA BoxStep == BoxInv /\ [BoxNext]_boxVars => BoxInv'
<1> SUFFICES ASSUME BoxInv, [BoxNext]_boxVars PROVE BoxInv'
  OBVIOUS
<1>0. BoxTypes
  BY DEF BoxInv
<1>1. CASE BoxOpens
  <2>1. /\ shown' \in Asked /\ above' = 0 /\ measured' = [rows |-> 0, visible |-> 0]
        /\ keyed' = [keyed EXCEPT !.keys = "more"] /\ drawn' = drawn
    BY <1>1 DEF BoxOpens
  <2>2. keyed'.keys = "more" /\ keyed'.key = keyed.key /\ keyed'.start = keyed.start
        /\ DOMAIN keyed' = DOMAIN keyed
    BY <1>0, <2>1 DEF BoxTypes
  <2>3. BoxTypes'
    BY <1>0, <2>1, <2>2 DEF BoxTypes, BoxKeys
  <2>4. FrameInForce'
    BY <2>2 DEF FrameInForce
  <2>5. BoxIsTrue'
    BY <2>1, <2>2 DEF BoxInv, BoxIsTrue, NoBox
  <2> QED BY <2>3, <2>4, <2>5 DEF BoxInv
<1>2. CASE DrawBox
  BY <1>2, DrawBoxStep
<1>3. /\ above \in Nat /\ box_page \in Nat
      /\ Minus(above, 1) \in Nat /\ Minus(above, box_page) \in Nat
      /\ above + 1 \in Nat /\ above + box_page \in Nat
  <2>1. above \in Nat /\ box_page \in Nat
    BY <1>0 DEF BoxTypes, box_page
  <2>2. Minus(above, 1) \in Nat /\ Minus(above, box_page) \in Nat
    <3> PICK p \in Nat : p = box_page
      BY <2>1
    <3> PICK at \in Nat : at = above
      BY <2>1
    <3>1. Minus(at, 1) \in Nat /\ Minus(at, p) \in Nat
      BY LeastType
    <3> QED BY <3>1
  <2> QED BY <2>1, <2>2
<1>4. CASE BoxUp
  <2> PICK to \in Nat : to = Minus(above, 1)
    BY <1>3
  <2>1. ScrollsBox(to, "up")
    BY <1>4 DEF BoxUp
  <2> QED BY <2>1, ScrollsStep
<1>5. CASE BoxDown
  <2> PICK to \in Nat : to = above + 1
    BY <1>3
  <2>1. ScrollsBox(to, "down")
    BY <1>5 DEF BoxDown
  <2> QED BY <2>1, ScrollsStep
<1>6. CASE BoxPageUp
  <2> PICK to \in Nat : to = Minus(above, box_page)
    BY <1>3
  <2>1. ScrollsBox(to, "up")
    BY <1>6 DEF BoxPageUp
  <2> QED BY <2>1, ScrollsStep
<1>7. CASE BoxPageDown
  <2> PICK to \in Nat : to = above + box_page
    BY <1>3
  <2>1. ScrollsBox(to, "down")
    BY <1>7 DEF BoxPageDown
  <2> QED BY <2>1, ScrollsStep
<1>8. CASE UNCHANGED boxVars
  <2>1. shown' = shown /\ above' = above /\ measured' = measured /\ drawn' = drawn /\ keyed' = keyed
    BY <1>8 DEF boxVars
  <2> QED BY <2>1 DEF BoxInv, BoxTypes, FrameInForce, BoxIsTrue, NoBox
<1> QED BY <1>1, <1>2, <1>4, <1>5, <1>6, <1>7, <1>8 DEF BoxNext

(* All that is asked can be read before it is answered, whatever the prompts, the sizes of the
   terminal and the keys.                                                                  *)
LEMMA BoxesAreTrue == BoxSpec => []BoxIsTrue
<1>1. BoxInit => BoxInv
  BY BoxStart
<1>2. BoxInv /\ [BoxNext]_boxVars => BoxInv'
  BY BoxStep
<1>3. BoxInv => BoxIsTrue
  BY DEF BoxInv
<1> QED BY <1>1, <1>2, <1>3, PTL DEF BoxSpec

-----------------------------------------------------------------------------
(* The pane of the entries.  The rows kept are the entries' own while the counter says so
   (CacheInv); what the last frame measured, and what one key since has made of it, is what
   the next frame is compared with (ViewInv).                                             *)
EntryKind == {"Assistant", "Line", "Tool"}

Entry ==
  {e \in [kind: EntryKind, text: Texts, whole: Seq(Seq(Nat)), expanded: BOOLEAN] :
     /\ e.expanded => expandable(e)
     /\ expandable(e) => e.whole \in Texts}

PaneRow == [text: Row, entry: Nat, head: BOOLEAN]

(* AllRows and Counted, of any entries at any width. *)
EntryRows(es, i, width) ==
  [k \in DOMAIN wrap(Text(es[i]), width) |->
     [text |-> wrap(Text(es[i]), width)[k], entry |-> i, head |-> k = 1]]
RowsIn(es, width) == Joined([i \in DOMAIN es |-> EntryRows(es, i, width)])
CountsIn(es, width) == [i \in DOMAIN es |-> Len(wrap(Text(es[i]), width))]

LEMMA AllRowsIs == \A width : AllRows(width) = RowsIn(entries, width)
BY DEF AllRows, RowsIn, RowsOf, EntryRows

LEMMA AllRowsNext == \A width : AllRows(width)' = RowsIn(entries', width)
BY DEF AllRows, RowsIn, RowsOf, EntryRows

LEMMA EntryTypes ==
  ASSUME NEW e \in Entry
  PROVE  /\ e.kind \in EntryKind /\ e.text \in Texts /\ e.whole \in Seq(Seq(Nat))
         /\ e.expanded \in BOOLEAN /\ Text(e) \in Texts
BY DEF Entry, Text

LEMMA EntryRowsType ==
  ASSUME NEW es \in Seq(Entry), NEW i \in 1..Len(es), NEW width \in Nat
  PROVE  /\ EntryRows(es, i, width) \in Seq(PaneRow)
         /\ Len(EntryRows(es, i, width)) = Len(wrap(Text(es[i]), width))
         /\ Len(EntryRows(es, i, width)) \in Nat \ {0}
         /\ EntryRows(es, i, width)[1].head /\ EntryRows(es, i, width)[1].entry = i
<1>1. es[i] \in Entry
  OBVIOUS
<1>2. Text(es[i]) \in Texts
  BY <1>1, EntryTypes
<1> PICK rows \in Seq(Row) : rows = wrap(Text(es[i]), width)
  BY <1>2, WrapType
<1>3. Len(rows) \in Nat \ {0}
  BY <1>2, WrapType
<1> DEFINE out == [k \in 1..Len(rows) |-> [text |-> rows[k], entry |-> i, head |-> k = 1]]
<1>4. EntryRows(es, i, width) = out
  <2>1. DOMAIN rows = 1..Len(rows)
    OBVIOUS
  <2> QED BY <2>1 DEF EntryRows
<1>5. \A k \in 1..Len(rows) : out[k] \in PaneRow
  <2> SUFFICES ASSUME NEW k \in 1..Len(rows)
               PROVE  out[k] \in PaneRow
    OBVIOUS
  <2>1. rows[k] \in Row /\ i \in Nat /\ (k = 1) \in BOOLEAN
    OBVIOUS
  <2>2. [text |-> rows[k], entry |-> i, head |-> k = 1] \in PaneRow
    BY <2>1 DEF PaneRow
  <2> QED BY <2>2
<1>6. out \in Seq(PaneRow) /\ Len(out) = Len(rows)
  <2>1. out = [k \in 1..Len(rows) |-> out[k]]
    OBVIOUS
  <2> HIDE DEF out
  <2> QED BY <1>3, <1>5, <2>1
<1>7. out[1].head /\ out[1].entry = i
  <2>0. out[1] = [text |-> rows[1], entry |-> i, head |-> 1 = 1]
    BY <1>3
  <2>1. out[1] = [text |-> rows[1], entry |-> i, head |-> TRUE]
    BY <2>0
  <2> HIDE DEF out
  <2> QED BY <2>1
<1> HIDE DEF out
<1> QED BY <1>3, <1>4, <1>6, <1>7

HeadOf(es, i, width) == Total(SubSeq(CountsIn(es, width), 1, i - 1))

LEMMA CountsType ==
  ASSUME NEW es \in Seq(Entry), NEW width \in Nat
  PROVE  /\ CountsIn(es, width) \in Seq(Nat) /\ Len(CountsIn(es, width)) = Len(es)
         /\ \A i \in 1..Len(es) : CountsIn(es, width)[i] = Len(EntryRows(es, i, width))
<1>1. DOMAIN es = 1..Len(es) /\ Len(es) \in Nat
  OBVIOUS
<1>2. \A i \in 1..Len(es) : Len(wrap(Text(es[i]), width)) \in Nat
                            /\ Len(wrap(Text(es[i]), width)) = Len(EntryRows(es, i, width))
  BY EntryRowsType
<1> QED BY <1>1, <1>2 DEF CountsIn

LEMMA RowsAre ==
  ASSUME NEW es \in Seq(Entry), NEW width \in Nat
  PROVE  /\ RowsIn(es, width) \in Seq(PaneRow)
         /\ Len(RowsIn(es, width)) = Total(CountsIn(es, width))
         /\ \A i \in 1..Len(es) :
              /\ HeadOf(es, i, width) \in Nat
              /\ HeadOf(es, i, width) + 1 \in 1..Len(RowsIn(es, width))
              /\ RowsIn(es, width)[HeadOf(es, i, width) + 1].head
              /\ RowsIn(es, width)[HeadOf(es, i, width) + 1].entry = i
<1> DEFINE seqs == [i \in DOMAIN es |-> EntryRows(es, i, width)]
<1>1. DOMAIN es = 1..Len(es) /\ Len(es) \in Nat
  OBVIOUS
<1>2. \A i \in 1..Len(es) : seqs[i] = EntryRows(es, i, width) /\ seqs[i] \in Seq(PaneRow)
  BY <1>1, EntryRowsType
<1>3. seqs \in Seq(Seq(PaneRow)) /\ Len(seqs) = Len(es)
  <2>1. seqs = [i \in 1..Len(es) |-> seqs[i]]
    BY <1>1
  <2> HIDE DEF seqs
  <2> QED BY <1>1, <1>2, <2>1
<1>4. RowsIn(es, width) = Joined(seqs)
  BY DEF RowsIn
<1> HIDE DEF seqs
<1> PICK ns \in Seq(Nat) : ns = CountsIn(es, width)
  BY CountsType
<1>5. Len(ns) = Len(seqs) /\ \A i \in 1..Len(seqs) : ns[i] = Len(seqs[i])
  BY <1>2, <1>3, CountsType
<1>6. /\ Joined(seqs) \in Seq(PaneRow)
      /\ Len(Joined(seqs)) = Total(ns)
      /\ \A i \in 1..Len(seqs) : Len(seqs[i]) > 0 =>
           /\ Total(SubSeq(ns, 1, i - 1)) \in Nat
           /\ Total(SubSeq(ns, 1, i - 1)) + 1 \in 1..Len(Joined(seqs))
           /\ Joined(seqs)[Total(SubSeq(ns, 1, i - 1)) + 1] = seqs[i][1]
  BY <1>3, <1>5, JoinedHas
<1>7. ASSUME NEW i \in 1..Len(es)
      PROVE  /\ HeadOf(es, i, width) \in Nat
             /\ HeadOf(es, i, width) + 1 \in 1..Len(RowsIn(es, width))
             /\ RowsIn(es, width)[HeadOf(es, i, width) + 1].head
             /\ RowsIn(es, width)[HeadOf(es, i, width) + 1].entry = i
  <2>1. HeadOf(es, i, width) = Total(SubSeq(ns, 1, i - 1))
    BY DEF HeadOf
  <2>2. seqs[i] = EntryRows(es, i, width) /\ Len(seqs[i]) > 0
        /\ seqs[i][1].head /\ seqs[i][1].entry = i
    <3>1. seqs[i] = EntryRows(es, i, width)
      BY <1>2
    <3>2. Len(EntryRows(es, i, width)) \in Nat \ {0}
          /\ EntryRows(es, i, width)[1].head /\ EntryRows(es, i, width)[1].entry = i
      BY EntryRowsType
    <3> QED BY <3>1, <3>2
  <2>3. /\ Total(SubSeq(ns, 1, i - 1)) \in Nat
        /\ Total(SubSeq(ns, 1, i - 1)) + 1 \in 1..Len(Joined(seqs))
        /\ Joined(seqs)[Total(SubSeq(ns, 1, i - 1)) + 1] = seqs[i][1]
    BY <1>3, <1>6, <2>2
  <2> QED BY <1>4, <2>1, <2>2, <2>3
<1> QED BY <1>4, <1>6, <1>7

(* Which row is on top, for a scroll. *)
TopAt(at, maxTop) == IF at = AtTail THEN maxTop ELSE Least(at, maxTop)

Scroll == Nat \cup {AtTail}

LEMMA TopIs == \A maxTop : Top(maxTop) = TopAt(scroll, maxTop)
BY DEF Top, TopAt

(* The window of a frame has the entry's first row. *)
FocusShown(es, at, v, index) ==
  LET rows == RowsIn(es, v.width)
      top == TopAt(at, MaxTop(Len(rows), v.height))
  IN  \E p \in (top + 1)..Least(top + v.height, Len(rows)) : rows[p].head /\ rows[p].entry = index

LEMMA RevealShows ==
  ASSUME NEW es \in Seq(Entry), NEW index \in 1..Len(es), scroll \in Scroll,
         view.width \in Nat, view.height \in Nat
  PROVE  /\ reveal(es, index) \in Scroll
         /\ view.height > 0 => FocusShown(es, reveal(es, index), view, index)
<1> PICK width \in Nat : width = view.width
  OBVIOUS
<1> PICK h \in Nat : h = view.height
  OBVIOUS
<1> PICK rows \in Seq(PaneRow) : rows = RowsIn(es, width)
  BY RowsAre
<1> PICK n \in Nat : n = Len(rows)
  OBVIOUS
<1> PICK head : head = HeadOf(es, index, width)
  OBVIOUS
<1>1. /\ head \in Nat /\ head + 1 \in 1..n /\ rows[head + 1].head /\ rows[head + 1].entry = index
      /\ Total(CountsIn(es, width)) = n
  BY RowsAre
<1> PICK p \in Nat : p = head + 1
  BY <1>1
<1> PICK maxTop \in Nat : maxTop = Minus(n, h)
  BY DEF Minus
<1> PICK top : top = TopAt(scroll, maxTop)
  OBVIOUS
<1> PICK at : at = reveal(es, index)
  OBVIOUS
<1>2. at = IF head \in top..(top + h - 1)
           THEN IF scroll = AtTail THEN AtTail ELSE normalise(top, maxTop)
           ELSE normalise(head, maxTop)
  <2>1. Counted(es) = CountsIn(es, width)
    BY DEF Counted, CountsIn
  <2> QED BY <1>1, <2>1, TopIs DEF reveal, HeadOf, MaxTop
<1>3. top \in Nat /\ top <= maxTop /\ (scroll = AtTail => top = maxTop)
  BY DEF TopAt, Least, Scroll, AtTail
<1>4. at \in Scroll
  BY <1>1, <1>2, <1>3 DEF normalise, Scroll
<1> PICK first : first = TopAt(at, maxTop)
  OBVIOUS
<1>5. first \in Nat /\ (h > 0 => first <= head /\ head < first + h)
  <2>1. maxTop + h >= n /\ head < n
    BY <1>1 DEF Minus
  <2>2. \A x \in Nat : TopAt(normalise(x, maxTop), maxTop) = Least(x, maxTop)
    BY DEF TopAt, normalise, Least, AtTail
  <2>3. CASE head \in top..(top + h - 1)
    <3>1. first = top
      BY <1>2, <1>3, <2>2, <2>3 DEF TopAt, Least
    <3> QED BY <1>1, <1>3, <2>3, <3>1
  <2>4. CASE head \notin top..(top + h - 1)
    <3>1. first = Least(head, maxTop)
      BY <1>1, <1>2, <2>2, <2>4
    <3> QED BY <1>1, <2>1, <3>1 DEF Least
  <2> QED BY <2>3, <2>4
<1>6. h > 0 => p \in (first + 1)..Least(first + h, n)
  BY <1>1, <1>5 DEF Least
<1>7. rows[p].head /\ rows[p].entry = index
  BY <1>1
<1>8. view.height > 0 => FocusShown(es, at, view, index)
  BY <1>6, <1>7 DEF FocusShown, MaxTop
<1> QED BY <1>4, <1>8

-----------------------------------------------------------------------------
(* No row is passed over by a page, nothing having been written since the frame. *)
PageFits(es, at, v, was) ==
  /\ Len(RowsIn(es, v.width)) = v.rows
  /\ was = v.top
  /\ TopAt(at, MaxTop(v.rows, v.height)) <= was + v.height
  /\ was <= TopAt(at, MaxTop(v.rows, v.height)) + v.height

History == [drawn: BOOLEAN, key: {"more", "focused", "paged"}, top: Nat]

EntriesInv(es, o, f) ==
  /\ es \in Seq(Entry)
  /\ o \in 0..Len(es) /\ (o # 0 => es[o].kind = "Assistant")
  /\ f \in 0..Len(es) /\ (f # 0 => expandable(es[f]))

PaneTypes ==
  /\ EntriesInv(entries, open, focus)
  /\ revision \in Nat /\ cache.revision \in Nat /\ cache.revision <= revision
  /\ scroll \in Scroll
  /\ view.width \in Nat /\ view.height \in Nat /\ view.rows \in Nat /\ view.top \in Nat
  /\ since \in History

(* The rows kept are those of the entries, while the counter says so. *)
CacheInv ==
  cache.revision = revision /\ cache.width > 0 => cache.rows = RowsIn(entries, cache.width)

(* What a frame measured, and what a key since has made of it. *)
ViewInv ==
  view.height > 0 =>
    /\ since.drawn => /\ view.rows = Len(RowsIn(entries, view.width))
                      /\ view.top <= MaxTop(view.rows, view.height)
    /\ ~since.drawn /\ since.key = "focused" /\ focus # 0 =>
         FocusShown(entries, scroll, view, focus)
    /\ ~since.drawn /\ since.key = "paged" => PageFits(entries, scroll, view, since.top)

PaneInv == PaneTypes /\ CacheInv /\ ViewInv /\ PaneIsTrue

LEMMA PaneStart == PaneInit => PaneInv
<1> SUFFICES ASSUME PaneInit PROVE PaneInv
  OBVIOUS
<1>1. PaneTypes
  BY DEF PaneInit, PaneTypes, EntriesInv, Undrawn, History, Scroll, AtTail
<1>2. CacheInv
  BY DEF PaneInit, CacheInv
<1>3. ViewInv /\ PaneIsTrue
  BY DEF PaneInit, ViewInv, PaneIsTrue, Undrawn
<1> QED BY <1>1, <1>2, <1>3 DEF PaneInv

LEMMA SinceIs ==
  ASSUME since \in History, view.top \in Nat, NEW what \in {"more", "focused", "paged"}, Since(what)
  PROVE  /\ since' \in History
         /\ ~since'.drawn
         /\ since'.key = IF since.drawn THEN what ELSE "more"
         /\ since.drawn => since'.top = view.top
<1>1. CASE since.drawn
  BY <1>1 DEF Since, History
<1>2. CASE ~since.drawn
  <2>1. since' = [since EXCEPT !.key = "more"]
    BY <1>2 DEF Since
  <2> QED BY <1>2, <2>1 DEF History
<1> QED BY <1>1, <1>2

(* What is not a frame leaves nothing to be true of one. *)
LEMMA NotDrawn ==
  ASSUME PaneTypes', CacheInv', ~since'.drawn,
         (view.height > 0 =>
           /\ since.key = "focused" /\ focus # 0 => FocusShown(entries, scroll, view, focus)
           /\ since.key = "paged" => PageFits(entries, scroll, view, since.top))'
  PROVE  PaneInv'
<1>1. ViewInv'
  BY DEF ViewInv
<1>2. PaneIsTrue'
  BY DEF PaneIsTrue
<1> QED BY <1>1, <1>2 DEF PaneInv

-----------------------------------------------------------------------------
(* The loop writes entries. *)
LEMMA NewEntries ==
  ASSUME NEW e \in {Assistant(2), PlainLine, Tool(FALSE), Tool(TRUE)}
  PROVE  e \in Entry
<1>1. /\ <<<<1>>>> \in Texts /\ <<<<2>>>> \in Texts /\ <<<<3, 1>>, <<>>>> \in Texts
      /\ <<>> \in Seq(Seq(Nat)) /\ <<<<3, 1>>, <<>>>> \in Seq(Seq(Nat))
  <2>1. <<1>> \in Seq(Nat) /\ <<2>> \in Seq(Nat) /\ <<3, 1>> \in Seq(Nat) /\ <<>> \in Seq(Nat)
    OBVIOUS
  <2> QED BY <2>1 DEF Texts
<1>2. CASE e = Assistant(2)
  BY <1>1, <1>2 DEF Assistant, Entry, EntryKind, expandable
<1>3. CASE e = PlainLine
  BY <1>1, <1>3 DEF PlainLine, Entry, EntryKind, expandable
<1>4. CASE e = Tool(FALSE)
  BY <1>1, <1>4 DEF Tool, Entry, EntryKind, expandable
<1>5. CASE e = Tool(TRUE)
  BY <1>1, <1>5 DEF Tool, Entry, EntryKind, expandable
<1> QED BY <1>2, <1>3, <1>4, <1>5

LEMMA PushInv ==
  ASSUME EntriesInv(entries, open, focus), NEW e \in Entry, Push(e)
  PROVE  EntriesInv(entries', open', focus)
<1>1. /\ entries' = Append(entries, e)
      /\ open' = IF e.kind = "Assistant" THEN Len(entries) + 1 ELSE 0
  BY DEF Push
<1>2. /\ entries \in Seq(Entry)
      /\ focus \in 0..Len(entries) /\ (focus # 0 => expandable(entries[focus]))
  BY DEF EntriesInv
<1>3. /\ entries' \in Seq(Entry) /\ Len(entries') = Len(entries) + 1
      /\ entries'[Len(entries) + 1] = e
      /\ \A k \in 1..Len(entries) : entries'[k] = entries[k]
  BY <1>1, <1>2
<1>4. open' \in 0..Len(entries') /\ (open' # 0 => entries'[open'].kind = "Assistant")
  BY <1>1, <1>2, <1>3
<1>5. focus \in 0..Len(entries') /\ (focus # 0 => expandable(entries'[focus]))
  BY <1>2, <1>3
<1> QED BY <1>3, <1>4, <1>5 DEF EntriesInv

LEMMA ReplacedInv ==
  ASSUME EntriesInv(entries, open, focus), open # 0, NEW e \in Entry, NEW es, NEW o \in {0, open},
         es = [entries EXCEPT ![open] = e], o # 0 => e.kind = "Assistant"
  PROVE  EntriesInv(es, o, focus)
<1>1. /\ entries \in Seq(Entry)
      /\ open \in 1..Len(entries) /\ ~expandable(entries[open])
      /\ focus \in 0..Len(entries) /\ (focus # 0 => expandable(entries[focus]))
  BY DEF EntriesInv, expandable
<1>2. /\ es \in Seq(Entry) /\ Len(es) = Len(entries) /\ es[open] = e
      /\ \A k \in 1..Len(entries) : k # open => es[k] = entries[k]
  BY <1>1
<1>3. focus # open
  BY <1>1
<1>4. o \in 0..Len(es) /\ (o # 0 => es[o].kind = "Assistant")
  BY <1>1, <1>2
<1>5. focus \in 0..Len(es) /\ (focus # 0 => expandable(es[focus]))
  BY <1>1, <1>2, <1>3
<1> QED BY <1>2, <1>4, <1>5 DEF EntriesInv

LEMMA ApplyStep == PaneInv /\ Apply => PaneInv'
<1> SUFFICES ASSUME PaneInv, Apply PROVE PaneInv'
  OBVIOUS
<1>0. PaneTypes /\ EntriesInv(entries, open, focus) /\ entries \in Seq(Entry)
  BY DEF PaneInv, PaneTypes, EntriesInv
<1>1. /\ revision' = revision + 1
      /\ Since("more")
      /\ cache' = cache /\ scroll' = scroll /\ focus' = focus /\ view' = view /\ frame' = frame
  BY DEF Apply
<1>2. EntriesInv(entries', open', focus)
  <2>1. CASE ApplyText
    <3>1. CASE open = 0
      BY <1>0, <2>1, <3>1, NewEntries, PushInv DEF ApplyText
    <3>2. CASE open # 0
      <4>1. entries' = [entries EXCEPT ![open].text[1] = Append(@, 2)] /\ open' = open
        BY <2>1, <3>2 DEF ApplyText
      <4>2. open \in 1..Len(entries) /\ entries[open].kind = "Assistant"
        BY <1>0, <3>2 DEF EntriesInv
      <4> PICK e \in Entry : e = entries[open]
        BY <1>0, <4>2
      <4> PICK words \in Texts : words = e.text
        BY EntryTypes
      <4> DEFINE more == [words EXCEPT ![1] = Append(words[1], 2)]
      <4>3. more \in Texts
        <5>1. words \in Seq(Seq(Nat)) /\ Len(words) > 0
          BY DEF Texts
        <5>2. words[1] \in Seq(Nat)
          BY <5>1
        <5>3. Append(words[1], 2) \in Seq(Nat)
          BY <5>2
        <5> PICK line \in Seq(Nat) : line = Append(words[1], 2)
          BY <5>3
        <5>4. [words EXCEPT ![1] = line] \in Seq(Seq(Nat)) /\ Len([words EXCEPT ![1] = line]) > 0
          BY <5>1
        <5> QED BY <5>4 DEF Texts
      <4> PICK new : new = [e EXCEPT !.text = more]
        OBVIOUS
      <4>4. entries' = [entries EXCEPT ![open] = new]
        BY <4>1
      <4> HIDE DEF more
      <4>5. new \in Entry /\ new.kind = "Assistant"
        <5>1. e.kind = "Assistant" /\ ~e.expanded
          BY <4>2 DEF Entry, expandable
        <5> QED BY <4>3, <5>1 DEF Entry, expandable
      <4> PICK o \in {0, open} : o = open
        OBVIOUS
      <4> PICK es : es = entries'
        OBVIOUS
      <4>6. EntriesInv(es, o, focus)
        BY <1>0, <3>2, <4>4, <4>5, ReplacedInv
      <4> QED BY <4>1, <4>6
    <3> QED BY <3>1, <3>2
  <2>2. CASE ApplyRetry
    <3>1. CASE open = 0
      BY <1>0, <2>2, <3>1, NewEntries, PushInv DEF ApplyRetry
    <3>2. CASE open # 0
      <4>1. entries' = [entries EXCEPT ![open] = PlainLine] /\ open' = 0
        BY <2>2, <3>2 DEF ApplyRetry
      <4> PICK es : es = entries'
        OBVIOUS
      <4> PICK e \in Entry : e = PlainLine
        BY NewEntries
      <4> PICK o \in {0, open} : o = 0
        OBVIOUS
      <4>2. EntriesInv(es, o, focus)
        BY <1>0, <3>2, <4>1, ReplacedInv
      <4> QED BY <4>1, <4>2
    <3> QED BY <3>1, <3>2
  <2>3. CASE \E e \in {PlainLine, Tool(FALSE), Tool(TRUE)} : Push(e)
    BY <1>0, <2>3, NewEntries, PushInv
  <2>4. CASE open' = 0 /\ UNCHANGED entries
    BY <1>0, <2>4 DEF EntriesInv
  <2> QED BY <2>1, <2>2, <2>3, <2>4 DEF Apply
<1>3. since' \in History /\ ~since'.drawn /\ since'.key = "more"
  BY <1>0, <1>1, SinceIs DEF PaneTypes
<1>4. PaneTypes'
  BY <1>0, <1>1, <1>2, <1>3 DEF PaneTypes
<1>5. CacheInv'
  BY <1>0, <1>1 DEF PaneTypes, CacheInv
<1> QED BY <1>3, <1>4, <1>5, NotDrawn

-----------------------------------------------------------------------------
(* The keys. *)
LEMMA ScrollKey ==
  ASSUME PaneInv, NEW to \in Scroll, NEW what \in {"more", "focused", "paged"}, Scrolls(to, what),
         focus' \in 0..Len(entries), focus' # 0 => expandable(entries[focus']),
         view.height > 0 /\ what = "focused" /\ focus' # 0 => FocusShown(entries, to, view, focus'),
         view.height > 0 /\ since.drawn /\ what = "paged" => PageFits(entries, to, view, view.top)
  PROVE  PaneInv'
<1>0. PaneTypes /\ CacheInv /\ EntriesInv(entries, open, focus)
  BY DEF PaneInv, PaneTypes
<1>1. /\ scroll' = to /\ Since(what)
      /\ entries' = entries /\ open' = open /\ revision' = revision /\ cache' = cache
      /\ view' = view /\ frame' = frame
  BY DEF Scrolls
<1>2. /\ since' \in History
      /\ ~since'.drawn
      /\ since'.key = IF since.drawn THEN what ELSE "more"
      /\ since.drawn => since'.top = view.top
  BY <1>0, <1>1, SinceIs DEF PaneTypes
<1>3. EntriesInv(entries, open, focus')
  BY <1>0 DEF EntriesInv
<1>4. PaneTypes'
  BY <1>0, <1>1, <1>2, <1>3 DEF PaneTypes
<1>5. CacheInv'
  BY <1>0, <1>1 DEF CacheInv
<1>6. (view.height > 0 =>
         /\ since.key = "focused" /\ focus # 0 => FocusShown(entries, scroll, view, focus)
         /\ since.key = "paged" => PageFits(entries, scroll, view, since.top))'
  <2> SUFFICES ASSUME view'.height > 0
      PROVE  /\ since'.key = "focused" /\ focus' # 0 => FocusShown(entries', scroll', view', focus')
             /\ since'.key = "paged" => PageFits(entries', scroll', view', since'.top)
    OBVIOUS
  <2>1. since'.key = "focused" /\ focus' # 0 => FocusShown(entries', scroll', view', focus')
    BY <1>1, <1>2
  <2>2. since'.key = "paged" => PageFits(entries', scroll', view', since'.top)
    BY <1>1, <1>2
  <2> QED BY <2>1, <2>2
<1> QED BY <1>2, <1>4, <1>5, <1>6, NotDrawn

LEMMA PageStep ==
  ASSUME PaneInv, PageUp \/ PageDown
  PROVE  PaneInv'
<1>0. PaneTypes /\ EntriesInv(entries, open, focus)
  BY DEF PaneInv, PaneTypes
<1>1. focus' = focus /\ focus \in 0..Len(entries) /\ (focus # 0 => expandable(entries[focus]))
  BY <1>0 DEF EntriesInv, PageUp, PageDown
<1> PICK h \in Nat : h = view.height
  BY <1>0 DEF PaneTypes
<1> PICK n \in Nat : n = view.rows
  BY <1>0 DEF PaneTypes
<1> PICK was \in Nat : was = view.top
  BY <1>0 DEF PaneTypes
<1> PICK p \in Nat : p = page
  BY DEF page
<1> PICK maxTop \in Nat : maxTop = Minus(n, h)
  BY DEF Minus
<1>2. h > 0 => p = h
  BY DEF page
<1> PICK next \in {Minus(was, p), Least(was + p, maxTop)} :
       /\ next \in Nat
       /\ Scrolls(normalise(next, maxTop), "paged")
  <2>1. /\ PageUp => Scrolls(normalise(Minus(was, p), maxTop), "paged")
        /\ PageDown => Scrolls(normalise(Least(was + p, maxTop), maxTop), "paged")
    BY DEF PageUp, PageDown, MaxTop
  <2>2. Minus(was, p) \in Nat /\ Least(was + p, maxTop) \in Nat
    BY DEF Minus, Least
  <2> QED BY <2>1, <2>2
<1> PICK to : to = normalise(next, maxTop)
  OBVIOUS
<1>3. to \in Scroll
  BY DEF normalise, Scroll
<1>4. view.height > 0 /\ since.drawn => PageFits(entries, to, view, view.top)
  <2> SUFFICES ASSUME view.height > 0, since.drawn
               PROVE  PageFits(entries, to, view, view.top)
    OBVIOUS
  <2>1. view.rows = Len(RowsIn(entries, view.width)) /\ was <= maxTop
    BY DEF PaneInv, ViewInv, MaxTop
  <2>2. TopAt(to, maxTop) = Least(next, maxTop)
    BY DEF TopAt, normalise, Least, AtTail
  <2>3. Least(next, maxTop) <= was + h /\ was <= Least(next, maxTop) + h
    <3>1. p = h /\ was <= maxTop
      BY <1>2, <2>1
    <3>2. next = Minus(was, p) \/ next = Least(was + p, maxTop)
      OBVIOUS
    <3> QED BY ONLY <3>1, <3>2, next \in Nat, was \in Nat, h \in Nat, maxTop \in Nat DEF Least, Minus
  <2> QED BY <2>1, <2>2, <2>3 DEF PageFits, MaxTop
<1> PICK what \in {"more", "focused", "paged"} : what = "paged"
  OBVIOUS
<1>5. Scrolls(to, what)
  OBVIOUS
<1> QED BY <1>1, <1>3, <1>4, <1>5, ScrollKey

LEMMA EndsStep ==
  ASSUME PaneInv, Home \/ End \/ follow_tail
  PROVE  PaneInv'
<1>0. PaneTypes /\ EntriesInv(entries, open, focus)
  BY DEF PaneInv, PaneTypes
<1>1. focus' \in 0..Len(entries) /\ (focus' # 0 => expandable(entries[focus']))
  BY <1>0 DEF EntriesInv, Home, End, follow_tail
<1> PICK to \in Scroll : Scrolls(to, "more")
  <2>1. Home => Scrolls(normalise(0, MaxTop(view.rows, view.height)), "more")
    BY DEF Home
  <2>2. normalise(0, MaxTop(view.rows, view.height)) \in Scroll /\ AtTail \in Scroll
    BY DEF normalise, Scroll
  <2>3. End \/ follow_tail => Scrolls(AtTail, "more")
    BY DEF End, follow_tail
  <2> QED BY <2>1, <2>2, <2>3
<1> PICK what \in {"more", "focused", "paged"} : what = "more"
  OBVIOUS
<1>2. Scrolls(to, what)
  OBVIOUS
<1> QED BY <1>1, <1>2, ScrollKey

LEMMA FocusStep ==
  ASSUME PaneInv, NEW index \in Expandable \cup {0}, Focused(index)
  PROVE  PaneInv'
<1>0. PaneTypes /\ EntriesInv(entries, open, focus) /\ entries \in Seq(Entry)
  BY DEF PaneInv, PaneTypes, EntriesInv
<1>1. index \in 0..Len(entries) /\ (index # 0 => index \in 1..Len(entries) /\ expandable(entries[index]))
  BY <1>0 DEF Expandable
<1> PICK to : to = IF index = 0 THEN scroll ELSE reveal(entries, index)
  OBVIOUS
<1>2. focus' = index /\ Scrolls(to, "focused")
  BY DEF Focused
<1>3. to \in Scroll /\ (view.height > 0 /\ index # 0 => FocusShown(entries, to, view, index))
  BY <1>0, <1>1, RevealShows DEF PaneTypes
<1> PICK what \in {"more", "focused", "paged"} : what = "focused"
  OBVIOUS
<1>4. Scrolls(to, what)
  BY <1>2
<1> QED BY <1>1, <1>2, <1>3, <1>4, ScrollKey

LEMMA TabStep ==
  ASSUME PaneInv, Tab \/ BackTab
  PROVE  PaneInv'
<1>0. EntriesInv(entries, open, focus) /\ entries \in Seq(Entry)
  BY DEF PaneInv, PaneTypes, EntriesInv
<1>1. Expandable \subseteq 1..Len(entries) /\ focus \in Expandable \cup {0}
  BY <1>0 DEF Expandable, EntriesInv
<1>2. CASE Tab
  <2> PICK older : older = {i \in Expandable : focus = 0 \/ i < focus}
    OBVIOUS
  <2>1. Focused(IF older = {} THEN focus ELSE Max(older))
    BY <1>2 DEF Tab
  <2>2. older # {} => Max(older) \in older
    <3> SUFFICES ASSUME older # {} PROVE Max(older) \in older
      OBVIOUS
    <3>0. older \subseteq Expandable
      OBVIOUS
    <3> PICK n \in Nat : n = Len(entries)
      BY <1>0
    <3>1. older \in SUBSET (0..n)
      <4>1. 1..n \subseteq 0..n
        OBVIOUS
      <4> QED BY <1>1, <3>0, <4>1
    <3>2. \E x \in older : \A y \in older : x >= y
      BY <3>1, GreatestElement
    <3> QED BY <3>2 DEF Max
  <2>3. (IF older = {} THEN focus ELSE Max(older)) \in Expandable \cup {0}
    BY <1>1, <2>2
  <2> PICK index \in Expandable \cup {0} : index = IF older = {} THEN focus ELSE Max(older)
    BY <2>3
  <2>4. Focused(index)
    BY <2>1
  <2> QED BY <2>4, FocusStep
<1>3. CASE BackTab
  <2> PICK newer : newer = {i \in Expandable : i > focus}
    OBVIOUS
  <2>1. Focused(IF focus = 0 \/ newer = {} THEN 0 ELSE Min(newer))
    BY <1>3 DEF BackTab
  <2>2. newer # {} => Min(newer) \in newer
    <3> SUFFICES ASSUME newer # {} PROVE Min(newer) \in newer
      OBVIOUS
    <3>0. newer \subseteq Expandable
      OBVIOUS
    <3>1. newer \in SUBSET Nat
      <4>1. 1..Len(entries) \subseteq Nat
        OBVIOUS
      <4> QED BY ONLY <1>1, <3>0, <4>1
    <3>2. \E x \in newer : \A y \in newer : x <= y
      BY <3>1, LeastElement
    <3> QED BY <3>2 DEF Min
  <2>3. (IF focus = 0 \/ newer = {} THEN 0 ELSE Min(newer)) \in Expandable \cup {0}
    BY <2>2
  <2> PICK index \in Expandable \cup {0} : index = IF focus = 0 \/ newer = {} THEN 0 ELSE Min(newer)
    BY <2>3
  <2>4. Focused(index)
    BY <2>1
  <2> QED BY <2>4, FocusStep
<1> QED BY <1>2, <1>3

LEMMA ToggleStep ==
  ASSUME PaneInv, Toggle
  PROVE  PaneInv'
<1>0. PaneTypes /\ EntriesInv(entries, open, focus) /\ entries \in Seq(Entry)
  BY DEF PaneInv, PaneTypes, EntriesInv
<1>1. /\ focus # 0
      /\ entries' = [entries EXCEPT ![focus].expanded = ~@]
      /\ scroll' = reveal(entries', focus)
      /\ Since("focused")
      /\ open' = open /\ cache' = cache /\ focus' = focus /\ view' = view /\ frame' = frame
      /\ revision' = revision + 1
  BY DEF Toggle, Toggled
<1>2. focus \in 1..Len(entries) /\ expandable(entries[focus]) /\ open # focus
  BY <1>0, <1>1 DEF EntriesInv, expandable
<1> PICK e \in Entry : e = entries[focus]
  BY <1>0, <1>2
<1> PICK new : new = [e EXCEPT !.expanded = ~e.expanded]
  OBVIOUS
<1>3. new \in Entry /\ expandable(new)
  BY <1>2 DEF Entry, expandable
<1>4. entries' = [entries EXCEPT ![focus] = new]
  BY <1>1
<1> PICK es : es = entries'
  OBVIOUS
<1>5. /\ es \in Seq(Entry) /\ Len(es) = Len(entries) /\ es[focus] = new
      /\ \A k \in 1..Len(entries) : k # focus => es[k] = entries[k]
  BY <1>0, <1>2, <1>3, <1>4
<1>6. EntriesInv(es, open, focus)
  BY <1>0, <1>2, <1>3, <1>5 DEF EntriesInv
<1>7. scroll' \in Scroll /\ (view.height > 0 => FocusShown(es, scroll', view, focus))
  <2> PICK index \in 1..Len(es) : index = focus
    BY <1>2, <1>5
  <2>1. scroll \in Scroll /\ view.width \in Nat /\ view.height \in Nat
    BY <1>0 DEF PaneTypes
  <2>2. /\ reveal(es, index) \in Scroll
        /\ view.height > 0 => FocusShown(es, reveal(es, index), view, index)
    BY <1>5, <2>1, RevealShows
  <2> QED BY <1>1, <2>2
<1>8. /\ since' \in History
      /\ ~since'.drawn
      /\ since'.key = IF since.drawn THEN "focused" ELSE "more"
  BY <1>0, <1>1, SinceIs DEF PaneTypes
<1>9. PaneTypes'
  BY <1>0, <1>1, <1>6, <1>7, <1>8 DEF PaneTypes
<1>10. CacheInv'
  BY <1>0, <1>1 DEF PaneTypes, CacheInv
<1>11. (view.height > 0 =>
         /\ since.key = "focused" /\ focus # 0 => FocusShown(entries, scroll, view, focus)
         /\ since.key = "paged" => PageFits(entries, scroll, view, since.top))'
  <2>1. view'.height > 0 => FocusShown(entries', scroll', view', focus')
    BY <1>1, <1>7
  <2>2. since'.key # "paged"
    BY <1>8
  <2> QED BY <2>1, <2>2
<1> QED BY <1>8, <1>9, <1>10, <1>11, NotDrawn

-----------------------------------------------------------------------------
(* A frame. *)
IsWindow(rows, top, size, window) ==
  /\ window \in Seq(PaneRow) /\ Len(window) = size
  /\ \A k \in 1..size : top + k \in 1..Len(rows) /\ window[k] = rows[top + k]

LEMMA Windows ==
  ASSUME NEW rows \in Seq(PaneRow), NEW h \in Nat, NEW top \in Nat, top <= Minus(Len(rows), h)
  PROVE  IsWindow(rows, top, Least(h, Len(rows)), SubSeq(rows, top + 1, Least(top + h, Len(rows))))
<1> PICK n \in Nat : n = Len(rows)
  OBVIOUS
<1> PICK size \in Nat : size = Least(h, n)
  BY LeastType
<1>1. top <= Minus(n, h)
  OBVIOUS
<1>2. Least(top + h, n) = top + size /\ top + size <= n
  BY ONLY <1>1, n \in Nat, h \in Nat, top \in Nat, size = Least(h, n) DEF Least, Minus
<1> PICK window : window = SubSeq(rows, top + 1, top + size)
  OBVIOUS
<1>3. window \in Seq(PaneRow)
  BY <1>2, SubSeqType
<1>4. Len(window) = size /\ \A k \in 1..size : window[k] = rows[top + k]
  <2>1. top + size <= Len(rows)
    BY <1>2
  <2>2. /\ Len(SubSeq(rows, top + 1, top + size)) = size
        /\ \A k \in 1..size : SubSeq(rows, top + 1, top + size)[k] = rows[top + k]
    BY ONLY <2>1, rows \in Seq(PaneRow), top \in Nat, size \in Nat, SubSeqAt
  <2> QED BY <2>2
<1>5. \A k \in 1..size : top + k \in 1..n
  BY <1>2
<1>6. IsWindow(rows, top, size, window)
  BY <1>3, <1>4, <1>5 DEF IsWindow
<1> QED BY <1>2, <1>6

(* PaneIsTrue, of a frame. *)
TrueFrame(all, lines, v, marked, at, f, expands, past) ==
  /\ Len(lines) = Least(v.height, Len(all))
  /\ \A k \in DOMAIN lines :
       /\ lines[k].row = all[v.top + k]
       /\ lines[k].lit <=> (lines[k].row.head /\ lines[k].row.entry = f)
  /\ marked <=> v.top + Len(lines) < Len(all)
  /\ at = AtTail => ~marked
  /\ f # 0 => f \in expands
  /\ past.key = "focused" /\ f # 0 => \E k \in DOMAIN lines : lines[k].lit
  /\ past.key = "paged" =>
       /\ v.top <= past.top + v.height
       /\ past.top <= v.top + v.height

LEMMA NextIsTrue ==
  ASSUME TrueFrame(RowsIn(entries', view'.width), frame'.rows, view', frame'.marked, scroll', focus',
                   Expandable', since')
  PROVE  PaneIsTrue'
<1>1. AllRows(view.width)' = RowsIn(entries', view'.width)
  BY DEF AllRows, RowsIn, RowsOf, EntryRows
<1>2. TrueFrame(AllRows(view.width)', frame'.rows, view', frame'.marked, scroll', focus',
                Expandable', since') => PaneIsTrue'
  BY DEF PaneIsTrue, TrueFrame
<1> QED BY <1>1, <1>2

LEMMA DrawPaneStep ==
  ASSUME PaneInv, DrawPane
  PROVE  PaneInv'
<1>0. PaneTypes /\ EntriesInv(entries, open, focus) /\ entries \in Seq(Entry) /\ since \in History
  BY DEF PaneInv, PaneTypes, EntriesInv
<1> PICK area \in Areas :
      /\ IF area.width = 0 \/ area.height = 0
         THEN view' = Undrawn /\ frame' = NoFrame /\ UNCHANGED cache
         ELSE Drawn(area)
      /\ since' = [since EXCEPT !.drawn = TRUE,
                                !.key = IF /\ ~since.drawn
                                           /\ area.width = view.width /\ area.height = view.height
                                        THEN @ ELSE "more"]
      /\ UNCHANGED <<entries, open, revision, scroll, focus>>
  BY DEF DrawPane
<1> PICK w \in Nat : w = area.width
  BY PaneAssumption
<1> PICK h \in Nat : h = area.height
  BY PaneAssumption
<1> PICK key \in {"more", "focused", "paged"} :
      key = IF ~since.drawn /\ w = view.width /\ h = view.height THEN since.key ELSE "more"
  BY <1>0 DEF History
<1>1. /\ entries' = entries /\ open' = open /\ revision' = revision /\ scroll' = scroll
      /\ focus' = focus
      /\ since' = [since EXCEPT !.drawn = TRUE, !.key = key]
  OBVIOUS
<1>2. since' \in History /\ since'.drawn /\ since'.key = key /\ since'.top = since.top
  BY <1>0, <1>1 DEF History
<1>3. CASE w = 0 \/ h = 0
  <2>1. view' = Undrawn /\ frame' = NoFrame /\ cache' = cache
    BY <1>3
  <2>2. PaneTypes'
    BY <1>0, <1>1, <1>2, <2>1 DEF PaneTypes, Undrawn
  <2>3. CacheInv'
    BY <1>1, <2>1 DEF PaneInv, CacheInv
  <2>4. ViewInv' /\ PaneIsTrue'
    BY <2>1 DEF ViewInv, PaneIsTrue, Undrawn
  <2> QED BY <2>2, <2>3, <2>4 DEF PaneInv
<1>4. CASE ~(w = 0 \/ h = 0)
  <2> PICK rows \in {Rows(w)} :
        LET top == Top(MaxTop(Len(rows), h))
            window == SubSeq(rows, top + 1, Least(top + h, Len(rows)))
        IN  /\ cache' = [revision |-> revision, width |-> w, rows |-> rows]
            /\ view' = [width |-> w, height |-> h, rows |-> Len(rows), top |-> top]
            /\ frame' = [rows |-> [k \in DOMAIN window |->
                           [row |-> window[k], lit |-> window[k].head /\ focus = window[k].entry]],
                         marked |-> render_status(view')]
    BY <1>4 DEF Drawn
  <2>1. rows = RowsIn(entries, w) /\ rows \in Seq(PaneRow)
    <3>1. Rows(w) = RowsIn(entries, w)
      BY <1>4, AllRowsIs DEF PaneInv, CacheInv, Rows
    <3> QED BY <1>0, <3>1, RowsAre
  <2> PICK n \in Nat : n = Len(rows)
    BY <2>1
  <2> PICK maxTop \in Nat : maxTop = Minus(n, h)
    BY DEF Minus
  <2> PICK top : top = TopAt(scroll, maxTop)
    OBVIOUS
  <2>2. top \in Nat /\ top <= maxTop /\ (scroll = AtTail => top = maxTop)
    BY <1>0 DEF PaneTypes, TopAt, Least, Scroll, AtTail
  <2> PICK size \in Nat : size = Least(h, n)
    BY DEF Least
  <2> PICK window : window = SubSeq(rows, top + 1, Least(top + h, n))
    OBVIOUS
  <2>3. /\ window \in Seq(PaneRow) /\ Len(window) = size
        /\ \A k \in 1..size : top + k \in 1..n /\ window[k] = rows[top + k]
    <3>1. rows \in Seq(PaneRow) /\ top \in Nat /\ top <= Minus(Len(rows), h)
      BY <2>1, <2>2
    <3>2. IsWindow(rows, top, size, window)
      BY <3>1, Windows
    <3> QED BY <3>2 DEF IsWindow
  <2>4. /\ cache' = [revision |-> revision, width |-> w, rows |-> rows]
        /\ view' = [width |-> w, height |-> h, rows |-> n, top |-> top]
        /\ frame' = [rows |-> [k \in DOMAIN window |->
                       [row |-> window[k], lit |-> window[k].head /\ focus = window[k].entry]],
                     marked |-> render_status(view')]
    BY TopIs DEF MaxTop
  <2>5. view'.width = w /\ view'.height = h /\ view'.rows = n /\ view'.top = top
    BY <2>4
  <2>6. PaneTypes'
    BY <1>0, <1>1, <1>2, <2>2, <2>4, <2>5 DEF PaneTypes
  <2>7. CacheInv'
    BY <1>1, <2>1, <2>4 DEF CacheInv
  <2>8. ViewInv'
    <3>1. view'.rows = Len(RowsIn(entries', view'.width)) /\ view'.top <= MaxTop(view'.rows, view'.height)
      BY <1>1, <2>1, <2>2, <2>5 DEF MaxTop
    <3> QED BY <1>2, <3>1 DEF ViewInv
  <2> PICK lines : lines = frame'.rows
    OBVIOUS
  <2>9. /\ Len(lines) = size /\ DOMAIN lines = 1..size
        /\ \A k \in 1..size :
             /\ lines[k].row = rows[top + k]
             /\ lines[k].lit <=> (rows[top + k].head /\ rows[top + k].entry = focus)
    <3>1. DOMAIN window = 1..size /\ \A k \in 1..size : window[k] \in PaneRow
      <4>1. window \in Seq(PaneRow) /\ Len(window) = size
        BY <2>3
      <4> QED BY ONLY <4>1
    <3>2. lines = [k \in DOMAIN window |->
                     [row |-> window[k], lit |-> window[k].head /\ focus = window[k].entry]]
      <4> PICK out : out = [k \in DOMAIN window |->
                       [row |-> window[k], lit |-> window[k].head /\ focus = window[k].entry]]
        OBVIOUS
      <4> PICK marked : marked = render_status(view')
        OBVIOUS
      <4>1. frame' = [rows |-> out, marked |-> marked]
        BY <2>4
      <4>2. frame'.rows = out
        BY ONLY <4>1
      <4> QED BY <4>2
    <3>3. DOMAIN lines = 1..size
      BY ONLY <3>1, <3>2
    <3>4. lines = [k \in 1..size |-> lines[k]]
      BY ONLY <3>2, <3>3
    <3>5. Len(lines) = size
      BY ONLY <3>4, size \in Nat
    <3>6. ASSUME NEW k \in 1..size
          PROVE  /\ lines[k].row = rows[top + k]
                 /\ lines[k].lit <=> (rows[top + k].head /\ rows[top + k].entry = focus)
      <4> PICK row \in PaneRow : row = window[k]
        BY <3>1
      <4> PICK lit \in BOOLEAN : lit = (row.head /\ focus = row.entry)
        OBVIOUS
      <4> PICK line : line = lines[k]
        OBVIOUS
      <4>1. line = [row |-> window[k], lit |-> window[k].head /\ focus = window[k].entry]
        BY ONLY <3>1, <3>2, line = lines[k], k \in 1..size
      <4>2. line = [row |-> row, lit |-> lit]
        BY ONLY <4>1, row = window[k], lit = (row.head /\ focus = row.entry)
      <4>3. line.row = row /\ line.lit = lit
        BY ONLY <4>2
      <4>4. row = rows[top + k]
        BY <2>3
      <4> QED BY <4>3, <4>4
    <3> QED BY <3>3, <3>5, <3>6
  <2>10. frame'.marked <=> ~(top + h >= n)
    <3>1. frame'.marked = render_status(view')
      BY <2>4
    <3>2. render_status(view') <=> ~(top + h >= n)
      BY <2>5 DEF render_status, following
    <3> QED BY <3>1, <3>2
  <2>11. h > 0 =>
           /\ key = "focused" /\ focus # 0 => \E k \in 1..size : lines[k].lit
           /\ key = "paged" => top <= since.top + h /\ since.top <= top + h
    <3> SUFFICES ASSUME h > 0, key # "more"
                 PROVE  /\ key = "focused" /\ focus # 0 => \E k \in 1..size : lines[k].lit
                        /\ key = "paged" => top <= since.top + h /\ since.top <= top + h
      OBVIOUS
    <3>1. ~since.drawn /\ view.width = w /\ view.height = h /\ since.key = key
      OBVIOUS
    <3>2. /\ key = "focused" /\ focus # 0 => FocusShown(entries, scroll, view, focus)
          /\ key = "paged" => PageFits(entries, scroll, view, since.top)
      BY <3>1 DEF PaneInv, ViewInv
    <3>3. ASSUME key = "focused", focus # 0
          PROVE  \E k \in 1..size : lines[k].lit
      <4>1. \E p \in (top + 1)..Least(top + h, n) : rows[p].head /\ rows[p].entry = focus
        BY <2>1, <3>1, <3>2, <3>3 DEF FocusShown, MaxTop
      <4> PICK p \in (top + 1)..Least(top + h, n) : rows[p].head /\ rows[p].entry = focus
        BY <4>1
      <4>2. p - top \in 1..size /\ top + (p - top) = p
        BY <2>2, SMTT(30) DEF Least, Minus
      <4> PICK k \in 1..size : top + k = p
        BY <4>2
      <4>3. lines[k].lit
        BY <2>9
      <4> QED BY <4>3
    <3>4. ASSUME key = "paged"
          PROVE  top <= since.top + h /\ since.top <= top + h
      <4>1. view.rows = n
        BY <2>1, <3>1, <3>2, <3>4 DEF PageFits
      <4> QED BY <3>1, <3>2, <3>4, <4>1 DEF PageFits, MaxTop
    <3> QED BY <3>3, <3>4
  <2>12. PaneIsTrue'
    <3>1. RowsIn(entries', view'.width) = rows
      BY <1>1, <2>1, <2>5
    <3>2. Expandable' = Expandable
      BY <1>1 DEF Expandable
    <3>3. focus # 0 => focus \in Expandable
      BY <1>0 DEF EntriesInv, Expandable
    <3>4. Len(lines) = Least(h, n)
      BY <2>9
    <3>5. frame'.marked <=> top + Len(lines) < n
      <4>1. (top + h >= n) <=> ~(top + size < n)
        BY <2>2, SMTT(30) DEF Least, Minus
      <4>2. Len(lines) = size
        BY <2>9
      <4> QED BY <2>10, <4>1, <4>2
    <3>6. scroll = AtTail => ~frame'.marked
      BY <2>2, <2>10 DEF Minus
    <3>7. h > 0
      BY <1>4
    <3>8. /\ Len(lines) = Least(view'.height, Len(rows))
          /\ \A k \in DOMAIN lines :
               /\ lines[k].row = rows[view'.top + k]
               /\ lines[k].lit <=> (lines[k].row.head /\ lines[k].row.entry = focus')
          /\ frame'.marked <=> view'.top + Len(lines) < Len(rows)
          /\ scroll' = AtTail => ~frame'.marked
          /\ focus' # 0 => focus' \in Expandable'
          /\ since'.key = "focused" /\ focus' # 0 => \E k \in DOMAIN lines : lines[k].lit
          /\ since'.key = "paged" =>
               /\ view'.top <= since'.top + view'.height
               /\ since'.top <= view'.top + view'.height
      <4>1. Len(lines) = Least(view'.height, Len(rows))
        BY <2>5, <3>4
      <4>2. ASSUME NEW k \in DOMAIN lines
            PROVE  /\ lines[k].row = rows[view'.top + k]
                   /\ lines[k].lit <=> (lines[k].row.head /\ lines[k].row.entry = focus')
        <5>1. k \in 1..size
          BY <2>9
        <5>2. /\ lines[k].row = rows[top + k]
              /\ lines[k].lit <=> (rows[top + k].head /\ rows[top + k].entry = focus)
          BY <2>9, <5>1
        <5> QED BY <1>1, <2>5, <5>2
      <4>3. frame'.marked <=> view'.top + Len(lines) < Len(rows)
        BY <2>5, <3>5
      <4>4. scroll' = AtTail => ~frame'.marked
        BY <1>1, <3>6
      <4>5. focus' # 0 => focus' \in Expandable'
        BY <1>1, <3>2, <3>3
      <4>6. since'.key = "focused" /\ focus' # 0 => \E k \in DOMAIN lines : lines[k].lit
        BY <1>1, <1>2, <2>9, <2>11, <3>7
      <4>7. since'.key = "paged" =>
              /\ view'.top <= since'.top + view'.height
              /\ since'.top <= view'.top + view'.height
        BY <1>2, <2>5, <2>11, <3>7
      <4> QED BY <4>1, <4>2, <4>3, <4>4, <4>5, <4>6, <4>7
    <3>9. TrueFrame(rows, frame'.rows, view', frame'.marked, scroll', focus', Expandable', since')
      <4>1. TrueFrame(rows, lines, view', frame'.marked, scroll', focus', Expandable', since')
        BY ONLY <3>8 DEF TrueFrame
      <4> QED BY <4>1
    <3> QED BY <3>1, <3>9, NextIsTrue
  <2> QED BY <2>6, <2>7, <2>8, <2>12 DEF PaneInv
<1> QED BY <1>3, <1>4

LEMMA PaneStep == PaneInv /\ [PaneNext]_paneVars => PaneInv'
<1> SUFFICES ASSUME PaneInv, [PaneNext]_paneVars PROVE PaneInv'
  OBVIOUS
<1>1. CASE Apply
  BY <1>1, ApplyStep
<1>2. CASE DrawPane
  BY <1>2, DrawPaneStep
<1>3. CASE PageUp \/ PageDown
  BY <1>3, PageStep
<1>4. CASE Home \/ End \/ follow_tail
  BY <1>4, EndsStep
<1>5. CASE Tab \/ BackTab
  BY <1>5, TabStep
<1>6. CASE Toggle
  BY <1>6, ToggleStep
<1>7. CASE UNCHANGED paneVars
  <2>1. /\ entries' = entries /\ open' = open /\ revision' = revision /\ cache' = cache
        /\ scroll' = scroll /\ focus' = focus /\ view' = view /\ frame' = frame /\ since' = since
    BY <1>7 DEF paneVars, uiVars
  <2>2. PaneTypes' /\ CacheInv' /\ ViewInv'
    BY <2>1 DEF PaneInv, PaneTypes, CacheInv, ViewInv
  <2>3. PaneIsTrue'
    <3>1. AllRows(view.width)' = AllRows(view.width)
      <4>1. AllRows(view.width)' = RowsIn(entries', view'.width)
        BY DEF AllRows, RowsIn, RowsOf, EntryRows
      <4> QED BY <2>1, <4>1, AllRowsIs
    <3>2. Expandable' = Expandable
      BY <2>1 DEF Expandable
    <3> QED BY <2>1, <3>1, <3>2 DEF PaneInv, PaneIsTrue
  <2> QED BY <2>2, <2>3 DEF PaneInv
<1> QED BY <1>1, <1>2, <1>3, <1>4, <1>5, <1>6, <1>7 DEF PaneNext

(* A frame of the pane shows its entries, whatever is written and keyed and whatever sizes the
   pane takes between two of them.                                                         *)
LEMMA PanesAreTrue == PaneSpec => []PaneIsTrue
<1>1. PaneInit => PaneInv
  BY PaneStart
<1>2. PaneInv /\ [PaneNext]_paneVars => PaneInv'
  BY PaneStep
<1>3. PaneInv => PaneIsTrue
  BY DEF PaneInv
<1> QED BY <1>1, <1>2, <1>3, PTL DEF PaneSpec

(* What is on the screen shows what there is: of any entries, kept rows, prompts, sizes and
   keys (ui.rs, pane.rs, prompt.rs).                                                       *)
THEOREM FramesAreTrue == PaneSpec /\ BoxSpec => []FrameIsTrue
BY PanesAreTrue, BoxesAreTrue, PTL DEF FrameIsTrue

=============================================================================
