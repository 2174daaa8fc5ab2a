--------------------------- MODULE ProcessRunProofs ---------------------------
(***************************************************************************)
(* What host_process.run keeps for every cap, every size of pipe, every    *)
(* input and whatever the child writes: no member of its process group     *)
(* outlives a step that was cut, and a result holds what the child wrote.  *)
(*                                                                         *)
(* The second needs what holds while the child still writes (Flow): what   *)
(* a drain kept is what the child wrote but for what is in the pipe, up to *)
(* the byte past the cap; and that a drain that saw the end saw the last   *)
(* of it (EndSeen), which the child's death alone would not give: the end  *)
(* is seen once nobody holds the pipe, be the child dead or running on.    *)
(***************************************************************************)
EXTENDS ProcessRun, TLAPS

Reaping == pc \in {"reap_timeout", "reap_cancelled"}

(* The step goes from before the child to its answer, and answers once.    *)
Phase ==
  /\ pc \in {"ask", "spawn"} => child = "none" /\ \A o \in Output : drain[o] = "reading"
  /\ pc = "done" <=> answer # "none"

(* The child writes no more than the bound, and to nothing it has closed.  *)
Bounded == next \in Output => wrote[next] < MaxOutput /\ next \notin closed

(* From the kill on, nobody of the group runs. *)
GroupGone == Reaping \/ answer \in {"timeout", "cancelled"} => ~Alive /\ "group" \notin heirs

Flow ==
  \A o \in Output :
    pc # "done" /\ drain[o] # "failed" =>
      pipe[o] <= wrote[o] /\ kept[o] = Capped(wrote[o] - pipe[o])

EndSeen ==
  /\ \A o \in Output : drain[o] = "eof" => (~Alive \/ o \in closed) /\ pipe[o] = 0
  /\ answer = "ok" => ~Alive

IInv ==
  /\ OutputIsTold
  /\ Phase
  /\ Bounded
  /\ GroupGone
  /\ Flow
  /\ EndSeen

-----------------------------------------------------------------------------
(* What drain_capped keeps of n bytes, and of n more after m.              *)
LEMMA CappedProperties ==
  ASSUME NEW n \in Nat
  PROVE  /\ Capped(n) \in 0..(Max + 1)
         /\ n <= Max => Capped(n) = n
         /\ n > Max => Capped(n) > Max
BY ProcessAssumption DEF Capped

LEMMA CappedTwice ==
  ASSUME NEW m \in Nat, NEW n \in Nat
  PROVE  Capped(Capped(m) + n) = Capped(m + n)
BY ProcessAssumption DEF Capped

LEMMA StateTypes ==
  ASSUME TypeOK, NEW o \in Output
  PROVE  /\ pipe[o] \in Nat /\ wrote[o] \in Nat /\ kept[o] \in Nat
         /\ drain[o] \in {"reading", "eof", "failed"} /\ o \in Pipe
BY ProcessAssumption DEF TypeOK, Pipe

-----------------------------------------------------------------------------
LEMMA InitInv == Init => IInv
<1> SUFFICES ASSUME Init
             PROVE  IInv
  OBVIOUS
<1>1. 0 \in 0..MaxInput /\ 0 \in 0..(Max + 1) /\ 0 \in 0..PipeSize /\ 0 \in 0..MaxOutput
  BY ProcessAssumption
<1>2. TypeOK
  <2>1. /\ pc \in {"ask"} /\ cancelled \in BOOLEAN /\ answer = "none" /\ input \in 0..MaxInput
        /\ fed \in BOOLEAN /\ child = "none" /\ next = "exit" /\ heirs \subseteq Heir
        /\ drain \in [Output -> {"reading", "eof", "failed"}]
        /\ kept \in [Output -> 0..(Max + 1)] /\ pipe \in [Pipe -> 0..PipeSize]
        /\ wrote \in [Output -> 0..MaxOutput] /\ closed \subseteq Output
    BY <1>1 DEF Init
  <2> QED
    BY <2>1 DEF TypeOK
<1>3. answer = "none" /\ next = "exit" /\ pc = "ask" /\ child = "none"
      /\ \A o \in Output : drain[o] = "reading" /\ pipe[o] = 0 /\ wrote[o] = 0 /\ kept[o] = 0
  BY DEF Init, Output, Pipe
<1>4. OutputIsTold
  BY <1>2, <1>3 DEF OutputIsTold
<1>5. Flow
  <2>1. Capped(0 - 0) = 0
    BY ProcessAssumption DEF Capped
  <2> QED
    BY <1>3, <2>1 DEF Flow
<1>6. Phase /\ Bounded /\ GroupGone /\ EndSeen
  BY <1>3 DEF Phase, Bounded, GroupGone, EndSeen, Reaping, Output
<1> QED
  BY <1>4, <1>5, <1>6 DEF IInv

(* What the child may want next is something it may still write. *)
LEMMA WantsTypes ==
  ASSUME NEW w \in Wants
  PROVE  w \in Pipe \cup {"exit"} /\ (w \in Output => wrote'[w] < MaxOutput /\ w \notin closed')
BY DEF Wants, Pipe, Output

(* The task that feeds stdin writes a byte to the pipe, or is over.        *)
LEMMA FeedEffect ==
  ASSUME TypeOK, Feed
  PROVE  \/ fed' = TRUE /\ UNCHANGED <<input, pipe>>
         \/ /\ pipe["stdin"] < PipeSize /\ pipe' = [pipe EXCEPT !["stdin"] = @ + 1]
            /\ input > 0 /\ input' = input - 1 /\ UNCHANGED fed
<1>1. input = 0 \/ (input > 0 /\ input # 0)
  BY ProcessAssumption DEF TypeOK
<1>2. CASE ~Alive
  BY <1>2 DEF Feed
<1>3. CASE Alive /\ input = 0
  BY <1>3 DEF Feed
<1>4. CASE Alive /\ input > 0 /\ input # 0
  BY <1>4 DEF Feed
<1> QED
  BY <1>1, <1>2, <1>3, <1>4

LEMMA TypeStep ==
  ASSUME TypeOK, Bounded, [Next]_vars
  PROVE  TypeOK'
<1>1. /\ Max \in Nat /\ PipeSize \in Nat /\ PipeSize > 0 /\ MaxInput \in Nat /\ MaxOutput \in Nat
  BY ProcessAssumption
<1>2. CASE Asking
  <2>1. CASE Spawn
    <3>1. next' \in Pipe \cup {"exit"}
      BY <2>1, WantsTypes DEF Spawn
    <3> QED
      BY <2>1, <3>1 DEF TypeOK, Spawn, hostVars
  <2>2. CASE Allow \/ Deny \/ Withdraw \/ SpawnFails
    BY <2>2 DEF TypeOK, Allow, Deny, Withdraw, SpawnFails, Return, Answer, hostVars, childVars
  <2> QED
    BY <1>2, <2>1, <2>2 DEF Asking
<1>3. CASE Child
  <2>1. ASSUME NEW o \in Output, ChildWrites(o)
        PROVE  TypeOK'
    <3>1. wrote[o] < MaxOutput /\ wrote[o] \in 0..MaxOutput
      BY <2>1 DEF ChildWrites, Bounded, TypeOK
    <3>2. wrote' \in [Output -> 0..MaxOutput]
      BY <1>1, <2>1, <3>1 DEF ChildWrites, TypeOK
    <3>3. pipe' \in [Pipe -> 0..PipeSize]
      <4>1. CASE Read(o)
        <5>1. pipe' = [pipe EXCEPT ![o] = @ + 1] /\ pipe[o] < PipeSize
          BY <2>1, <4>1 DEF ChildWrites
        <5>2. pipe[o] \in 0..PipeSize /\ o \in Pipe
          BY <2>1 DEF TypeOK, Pipe
        <5> QED
          BY <1>1, <5>1, <5>2 DEF TypeOK
      <4>2. CASE ~Read(o)
        BY <2>1, <4>2 DEF ChildWrites, TypeOK
      <4> QED
        BY <4>1, <4>2
    <3>4. next' \in Pipe \cup {"exit"}
      BY <2>1, WantsTypes DEF ChildWrites
    <3> QED
      BY <2>1, <3>2, <3>3, <3>4 DEF ChildWrites, TypeOK, hostVars
  <2>2. CASE ChildReads
    <3>1. pipe["stdin"] > 0 /\ pipe["stdin"] \in 0..PipeSize /\ "stdin" \in Pipe
          /\ pipe' = [pipe EXCEPT !["stdin"] = @ - 1]
      BY <2>2 DEF ChildReads, TypeOK, Pipe
    <3>2. pipe' \in [Pipe -> 0..PipeSize]
      BY <1>1, <3>1 DEF TypeOK
    <3>3. next' \in Pipe \cup {"exit"}
      BY <2>2, WantsTypes DEF ChildReads
    <3> QED
      BY <2>2, <3>2, <3>3 DEF ChildReads, TypeOK, hostVars
  <2>3. CASE ChildReadsEnd
    <3>1. next' \in Pipe \cup {"exit"}
      BY <2>3, WantsTypes DEF ChildReadsEnd
    <3> QED
      BY <2>3, <3>1 DEF ChildReadsEnd, TypeOK, hostVars
  <2>4. ASSUME NEW o \in Output, OutputCloses(o)
        PROVE  TypeOK'
    <3>1. next' \in Pipe \cup {"exit"}
      <4>1. next' \in Wants \/ next' = next
        BY <2>4 DEF OutputCloses
      <4> QED
        BY <4>1, WantsTypes DEF TypeOK
    <3>2. closed' \subseteq Output
      BY <2>4 DEF OutputCloses, TypeOK
    <3> QED
      BY <2>4, <3>1, <3>2 DEF OutputCloses, TypeOK, hostVars
  <2>5. CASE Forks \/ ChildExits \/ HeirExits
    BY <2>5 DEF Forks, ChildExits, HeirExits, TypeOK, hostVars
  <2> QED
    BY <1>3, <2>1, <2>2, <2>3, <2>4, <2>5 DEF Child
<1>4. CASE Work
  <2>1. CASE Feed
    <3>1. UNCHANGED <<pc, cancelled, answer, drain, kept, childVars>>
      BY <2>1 DEF Feed
    <3>2. \/ fed' = TRUE /\ UNCHANGED <<input, pipe>>
          \/ /\ pipe["stdin"] < PipeSize /\ pipe' = [pipe EXCEPT !["stdin"] = @ + 1]
             /\ input > 0 /\ input' = input - 1 /\ UNCHANGED fed
      BY <2>1, FeedEffect
    <3>3. input' \in 0..MaxInput
      <4>1. input' = input \/ (input > 0 /\ input' = input - 1)
        BY <3>2
      <4> QED
        BY <1>1, <4>1 DEF TypeOK
    <3>5. fed' \in BOOLEAN
      <4>1. fed' = TRUE \/ fed' = fed
        BY <3>2
      <4> QED
        BY <4>1 DEF TypeOK
    <3>4. pipe' \in [Pipe -> 0..PipeSize]
      <4>1. pipe["stdin"] \in 0..PipeSize
        BY DEF TypeOK, Pipe
      <4> QED
        BY <1>1, <3>2, <4>1 DEF TypeOK
    <3> QED
      BY <3>1, <3>3, <3>4, <3>5 DEF TypeOK, childVars
  <2>2. ASSUME NEW o \in Output, Drain(o)
        PROVE  TypeOK'
    <3> PICK n \in 1..pipe[o] : /\ pipe' = [pipe EXCEPT ![o] = @ - n]
                                /\ kept' = [kept EXCEPT ![o] = Capped(@ + n)]
      BY <2>2 DEF Drain
    <3>1. pipe[o] \in 0..PipeSize /\ kept[o] \in Nat /\ o \in Pipe
      BY <1>1 DEF TypeOK, Pipe
    <3>2. kept[o] + n \in Nat /\ pipe[o] - n \in 0..PipeSize
      BY <1>1, <3>1
    <3>3. Capped(kept[o] + n) \in 0..(Max + 1)
      BY <3>2, CappedProperties
    <3>4. pipe' \in [Pipe -> 0..PipeSize] /\ kept' \in [Output -> 0..(Max + 1)]
      BY <3>2, <3>3 DEF TypeOK
    <3> QED
      BY <2>2, <3>4 DEF Drain, TypeOK, childVars
  <2>3. ASSUME NEW o \in Output, DrainOver(o) \/ DrainFails(o)
        PROVE  TypeOK'
    <3>1. drain' \in [Output -> {"reading", "eof", "failed"}]
      BY <2>3 DEF DrainOver, DrainFails, TypeOK
    <3>2. pipe' \in [Pipe -> 0..PipeSize]
      BY <1>1, <2>3 DEF DrainOver, DrainFails, TypeOK
    <3> QED
      BY <2>3, <3>1, <3>2 DEF DrainOver, DrainFails, TypeOK, childVars
  <2> QED
    BY <1>4, <2>1, <2>2, <2>3 DEF Work
<1>5. CASE Select
  <2>1. CASE TimesOut \/ Cut
    BY <2>1 DEF TimesOut, Cut, KillGroup, TypeOK, hostVars
  <2>2. CASE Dropped
    BY <2>2 DEF Dropped, Return, Answer, TypeOK, hostVars
  <2>3. CASE Finishes \/ Reaped \/ GraceOver
    BY <2>3 DEF Finishes, Reaped, GraceOver, Return, ReapAnswer, Answer, TypeOK, hostVars, childVars
  <2> QED
    BY <1>5, <2>1, <2>2, <2>3 DEF Select
<1>6. CASE Cancel \/ UNCHANGED vars
  BY <1>6 DEF Cancel, TypeOK, hostVars, childVars, vars
<1> QED
  BY <1>2, <1>3, <1>4, <1>5, <1>6 DEF Next

(* A step of the child after its last one is none: it is running, and      *)
(* before the answer whoever drains a pipe has seen no end of it.          *)
LEMMA PhaseStep ==
  ASSUME TypeOK, Phase, [Next]_vars
  PROVE  Phase'
<1>1. CASE Asking
  BY <1>1 DEF Phase, Asking, Allow, Deny, Withdraw, Spawn, SpawnFails, Return, hostVars,
              childVars
<1>2. CASE Child
  <2>1. UNCHANGED <<pc, answer, drain>>
    BY <1>2 DEF Child, ChildWrites, OutputCloses, ChildReads, ChildReadsEnd, Forks, ChildExits,
                HeirExits, hostVars
  <2>2. pc \notin {"ask", "spawn"} \/ child' = child
    BY <1>2 DEF Phase, Child, ChildWrites, OutputCloses, ChildReads, ChildReadsEnd, Forks,
                ChildExits, HeirExits, Alive
  <2> QED
    BY <2>1, <2>2 DEF Phase
<1>3. CASE Work
  BY <1>3 DEF Phase, Work, Feed, Drain, DrainOver, DrainFails, Running, childVars
<1>4. CASE Select
  BY <1>4 DEF Phase, Select, Finishes, TimesOut, Cut, Reaped, GraceOver, Dropped, Return,
              ReapAnswer, Running, hostVars, childVars
<1>5. CASE Cancel \/ UNCHANGED vars
  BY <1>5 DEF Phase, Cancel, hostVars, childVars, vars
<1> QED
  BY <1>1, <1>2, <1>3, <1>4, <1>5 DEF Next

LEMMA BoundedStep ==
  ASSUME TypeOK, Bounded, [Next]_vars
  PROVE  Bounded'
<1>1. ASSUME next' \in Wants
      PROVE  Bounded'
  BY <1>1, WantsTypes DEF Bounded
<1>2. CASE UNCHANGED <<next, wrote, closed>>
  BY <1>2 DEF Bounded
<1>3. ASSUME NEW o \in Output, OutputCloses(o)
      PROVE  next' \in Wants \/ (next # o /\ UNCHANGED <<next, wrote>> /\ closed' = closed \cup {o})
  BY <1>3 DEF OutputCloses
<1>4. ASSUME NEW o \in Output, next # o, UNCHANGED <<next, wrote>>, closed' = closed \cup {o}
      PROVE  Bounded'
  BY <1>4 DEF Bounded
<1>5. \/ next' \in Wants \/ UNCHANGED <<next, wrote, closed>>
      \/ \E o \in Output : OutputCloses(o)
  BY DEF Next, Asking, Child, Work, Select, Allow, Deny, Withdraw, Spawn, SpawnFails,
         ChildWrites, ChildReads, ChildReadsEnd, Forks, ChildExits, HeirExits, Feed, Drain,
         DrainOver, DrainFails, Finishes, TimesOut, Cut, Reaped, GraceOver, Dropped, Cancel,
         childVars, vars
<1> QED
  BY <1>1, <1>2, <1>3, <1>4, <1>5

LEMMA GroupStep ==
  ASSUME TypeOK, Phase, GroupGone, [Next]_vars
  PROVE  GroupGone'
<1>1. CASE Asking
  <2>1. ~Reaping' /\ answer' \notin {"timeout", "cancelled"}
    BY <1>1 DEF Asking, Allow, Deny, Withdraw, Spawn, SpawnFails, Return, Reaping, Phase
  <2> QED
    BY <2>1 DEF GroupGone
<1>2. CASE Child
  BY <1>2 DEF GroupGone, Reaping, Child, ChildWrites, OutputCloses, ChildReads, ChildReadsEnd,
              Forks, ChildExits, HeirExits, Alive
<1>3. CASE Work
  BY <1>3 DEF GroupGone, Reaping, Work, Feed, Drain, DrainOver, DrainFails, Alive, childVars
<1>4. CASE Select
  <2>1. CASE TimesOut \/ Cut
    BY <2>1 DEF GroupGone, TimesOut, Cut, KillGroup, Alive
  <2>2. CASE Reaped \/ GraceOver
    BY <2>2 DEF GroupGone, Reaped, GraceOver, Reaping, Return, Alive, childVars
  <2>3. CASE Finishes \/ Dropped
    BY <2>3 DEF GroupGone, Finishes, Dropped, Reaping, Return
  <2> QED
    BY <1>4, <2>1, <2>2, <2>3 DEF Select
<1>5. CASE Cancel \/ UNCHANGED vars
  BY <1>5 DEF GroupGone, Reaping, Cancel, Alive, childVars, vars
<1> QED
  BY <1>1, <1>2, <1>3, <1>4, <1>5 DEF Next

(* Between the drains and the answer what was written is kept or waits.    *)
LEMMA FlowStep ==
  ASSUME TypeOK, Phase, Bounded, Flow, EndSeen, [Next]_vars
  PROVE  Flow'
<1>1. ASSUME NEW o \in Output, ChildWrites(o)
      PROVE  Flow'
  <2>1. /\ pc' = pc /\ UNCHANGED <<drain, kept>> /\ wrote' = [wrote EXCEPT ![o] = @ + 1]
        /\ Alive /\ o \notin closed
    BY <1>1 DEF ChildWrites, Bounded, hostVars
  <2> SUFFICES ASSUME NEW p \in Output, pc # "done", drain[p] # "failed"
               PROVE  pipe'[p] <= wrote'[p] /\ kept[p] = Capped(wrote'[p] - pipe'[p])
    BY <2>1 DEF Flow
  <2>2. /\ pipe[p] <= wrote[p] /\ kept[p] = Capped(wrote[p] - pipe[p])
        /\ pipe[p] \in Nat /\ wrote[p] \in Nat
    BY StateTypes DEF Flow
  <2>3. CASE p # o
    <3>1. wrote'[p] = wrote[p] /\ pipe'[p] = pipe[p]
      BY <1>1, <2>1, <2>3 DEF ChildWrites, TypeOK, Pipe
    <3> QED
      BY <2>2, <3>1
  <2>4. CASE p = o
    <3>1. Read(o)
      BY <2>1, <2>4, StateTypes DEF Read, EndSeen
    <3>2. wrote'[o] = wrote[o] + 1 /\ pipe'[o] = pipe[o] + 1
      BY <1>1, <2>1, <3>1 DEF ChildWrites, TypeOK, Pipe
    <3>3. (wrote[o] + 1) - (pipe[o] + 1) = wrote[o] - pipe[o] /\ pipe[o] + 1 <= wrote[o] + 1
      BY <2>2, <2>4
    <3> QED
      BY <2>2, <2>4, <3>2, <3>3
  <2> QED
    BY <2>3, <2>4
<1>2. ASSUME NEW o \in Output, Drain(o)
      PROVE  Flow'
  <2> PICK n \in 1..pipe[o] : /\ pipe' = [pipe EXCEPT ![o] = @ - n]
                              /\ kept' = [kept EXCEPT ![o] = Capped(@ + n)]
    BY <1>2 DEF Drain
  <2>1. pc' = pc /\ UNCHANGED <<drain, wrote>>
    BY <1>2 DEF Drain, childVars
  <2> SUFFICES ASSUME NEW p \in Output, pc # "done", drain[p] # "failed"
               PROVE  pipe'[p] <= wrote[p] /\ kept'[p] = Capped(wrote[p] - pipe'[p])
    BY <2>1 DEF Flow
  <2>2. /\ pipe[p] <= wrote[p] /\ kept[p] = Capped(wrote[p] - pipe[p])
        /\ pipe[p] \in Nat /\ wrote[p] \in Nat
    BY StateTypes DEF Flow
  <2>3. CASE p # o
    <3>1. kept'[p] = kept[p] /\ pipe'[p] = pipe[p]
      BY <2>3 DEF TypeOK, Pipe
    <3> QED
      BY <2>2, <3>1
  <2>4. CASE p = o
    <3>1. kept'[o] = Capped(kept[o] + n) /\ pipe'[o] = pipe[o] - n
      BY DEF TypeOK, Pipe
    <3>2. /\ wrote[o] - pipe[o] \in Nat /\ n \in Nat /\ n <= pipe[o]
          /\ (wrote[o] - pipe[o]) + n = wrote[o] - (pipe[o] - n) /\ pipe[o] - n <= wrote[o]
      BY <2>2, <2>4
    <3>3. Capped(Capped(wrote[o] - pipe[o]) + n) = Capped((wrote[o] - pipe[o]) + n)
      BY <3>2, CappedTwice
    <3> QED
      BY <2>2, <2>4, <3>1, <3>2, <3>3
  <2> QED
    BY <2>3, <2>4
<1>3. ASSUME NEW o \in Output, DrainFails(o)
      PROVE  Flow'
  <2>1. /\ drain' = [drain EXCEPT ![o] = "failed"] /\ pipe' = [pipe EXCEPT ![o] = 0]
        /\ UNCHANGED <<pc, kept, wrote>>
    BY <1>3 DEF DrainFails, childVars
  <2>2. ASSUME NEW p \in Output, drain'[p] # "failed"
        PROVE  drain'[p] = drain[p] /\ pipe'[p] = pipe[p]
    BY <2>1, <2>2 DEF TypeOK, Pipe
  <2> QED
    BY <2>1, <2>2 DEF Flow
<1>4. ASSUME NEW o \in Output, DrainOver(o)
      PROVE  Flow'
  <2>1. /\ drain' = [drain EXCEPT ![o] = "eof"] /\ drain[o] = "reading"
        /\ UNCHANGED <<pc, kept, wrote, pipe>>
    BY <1>4 DEF DrainOver, Read, childVars
  <2>2. ASSUME NEW p \in Output, drain'[p] # "failed"
        PROVE  drain[p] # "failed"
    BY <2>1, <2>2 DEF TypeOK
  <2> QED
    BY <2>1, <2>2 DEF Flow
<1>5. CASE Feed \/ ChildReads
  <2>1. UNCHANGED <<pc, drain, kept, wrote>> /\ \A p \in Output : pipe'[p] = pipe[p]
    <3>1. UNCHANGED <<pc, drain, kept, wrote>>
      BY <1>5 DEF Feed, ChildReads, hostVars, childVars
    <3>2. \/ pipe' = pipe
          \/ pipe' = [pipe EXCEPT !["stdin"] = @ + 1]
          \/ pipe' = [pipe EXCEPT !["stdin"] = @ - 1]
      BY <1>5, FeedEffect DEF ChildReads
    <3>3. \A p \in Output : pipe'[p] = pipe[p]
      BY <3>2 DEF TypeOK, Output, Pipe
    <3> QED
      BY <3>1, <3>3
  <2> QED
    BY <2>1 DEF Flow
<1>6. CASE UNCHANGED <<drain, kept, wrote, pipe>> /\ (pc = "done" => pc' = "done")
  BY <1>6 DEF Flow
<1>7. \/ \E o \in Output : ChildWrites(o) \/ Drain(o) \/ DrainFails(o) \/ DrainOver(o)
      \/ Feed \/ ChildReads
      \/ UNCHANGED <<drain, kept, wrote, pipe>> /\ (pc = "done" => pc' = "done")
  BY DEF Next, Asking, Child, Work, Select, Allow, Deny, Withdraw, Spawn, SpawnFails,
         OutputCloses, ChildReadsEnd, Forks, ChildExits, HeirExits, Finishes, TimesOut, Cut, Reaped,
         GraceOver, Dropped, Cancel, Return, Running, hostVars, childVars, vars
<1> QED
  BY <1>1, <1>2, <1>3, <1>4, <1>5, <1>6, <1>7

(* Once the end of an output was seen, nobody adds to it.                  *)
LEMMA EndStep ==
  ASSUME TypeOK, Phase, Bounded, EndSeen, [Next]_vars
  PROVE  EndSeen'
<1>1. CASE Asking
  <2>1. UNCHANGED <<drain, pipe>> /\ answer' # "ok" /\ \A o \in Output : drain[o] = "reading"
    BY <1>1 DEF Asking, Allow, Deny, Withdraw, Spawn, SpawnFails, Return, Phase, hostVars
  <2> QED
    BY <2>1 DEF EndSeen
<1>2. CASE Child
  <2>1. UNCHANGED <<pc, answer, drain>> /\ (Alive' => Alive) /\ closed \subseteq closed'
    BY <1>2 DEF Child, ChildWrites, OutputCloses, ChildReads, ChildReadsEnd, Forks, ChildExits,
                HeirExits, Alive, hostVars
  <2>2. ASSUME NEW o \in Output, drain[o] = "eof"
        PROVE  pipe'[o] = pipe[o]
    <3>1. CASE \E p \in Output : ChildWrites(p)
      <4> PICK p \in Output : ChildWrites(p)
        BY <3>1
      <4>1. Alive /\ p \notin closed
        BY DEF ChildWrites, Bounded
      <4>2. p # o
        BY <2>2, <4>1 DEF EndSeen
      <4>3. pipe' = pipe \/ pipe' = [pipe EXCEPT ![p] = @ + 1]
        BY DEF ChildWrites
      <4> QED
        BY <4>2, <4>3 DEF TypeOK, Pipe
    <3>2. CASE ChildReads
      BY <3>2 DEF ChildReads, TypeOK, Output, Pipe
    <3>3. CASE pipe' = pipe
      BY <3>3
    <3> QED
      BY <1>2, <3>1, <3>2, <3>3 DEF Child, OutputCloses, ChildReadsEnd, Forks, ChildExits,
                                    HeirExits
  <2>3. answer = "ok" => ~Alive'
    BY <2>1 DEF EndSeen
  <2> QED
    BY <2>1, <2>2, <2>3 DEF EndSeen
<1>3. CASE Work
  <2>1. UNCHANGED <<pc, answer, child, closed>>
    BY <1>3 DEF Work, Feed, Drain, DrainOver, DrainFails, childVars
  <2>2. ASSUME NEW o \in Output, drain'[o] = "eof"
        PROVE  (~Alive \/ o \in closed) /\ pipe'[o] = 0
    <3>1. CASE Feed
      <4>1. drain' = drain /\ (pipe' = pipe \/ pipe' = [pipe EXCEPT !["stdin"] = @ + 1])
        BY <3>1, FeedEffect DEF Feed
      <4>2. pipe'[o] = pipe[o]
        BY <4>1 DEF TypeOK, Output, Pipe
      <4> QED
        BY <2>2, <4>1, <4>2 DEF EndSeen
    <3>2. ASSUME NEW p \in Output, Drain(p)
          PROVE  (~Alive \/ o \in closed) /\ pipe'[o] = 0
      <4>1. drain' = drain /\ drain[p] = "reading" /\ \E n \in 1..pipe[p] : pipe' = [pipe EXCEPT ![p] = @ - n]
        BY <3>2 DEF Drain, Read
      <4>2. pipe'[o] = pipe[o]
        BY <2>2, <4>1 DEF TypeOK, Output, Pipe
      <4> QED
        BY <2>2, <4>1, <4>2 DEF EndSeen
    <3>3. ASSUME NEW p \in Output, DrainOver(p) \/ DrainFails(p)
          PROVE  (~Alive \/ o \in closed) /\ pipe'[o] = 0
      <4>1. CASE p = o
        BY <2>2, <3>3, <4>1 DEF DrainOver, DrainFails, TypeOK
      <4>2. CASE p # o
        <5>1. drain'[o] = drain[o] /\ pipe'[o] = pipe[o]
          BY <3>3, <4>2 DEF DrainOver, DrainFails, TypeOK, Pipe
        <5> QED
          BY <2>2, <5>1 DEF EndSeen
      <4> QED
        BY <4>1, <4>2
    <3> QED
      BY <1>3, <3>1, <3>2, <3>3 DEF Work
  <2> QED
    BY <2>1, <2>2 DEF EndSeen, Alive
<1>4. CASE Select
  <2>1. UNCHANGED <<drain, pipe, closed>> /\ (Alive' => Alive)
    BY <1>4 DEF Select, Finishes, TimesOut, Cut, Reaped, GraceOver, Dropped, KillGroup, Alive,
                hostVars, childVars
  <2>2. answer' = "ok" => ~Alive
    BY <1>4 DEF Select, Finishes, TimesOut, Cut, Reaped, GraceOver, Dropped, WorkOver, Return,
                ReapAnswer, Alive, EndSeen
  <2> QED
    BY <2>1, <2>2 DEF EndSeen
<1>5. CASE Cancel \/ UNCHANGED vars
  BY <1>5 DEF EndSeen, Cancel, Alive, hostVars, childVars, vars
<1> QED
  BY <1>1, <1>2, <1>3, <1>4, <1>5 DEF Next

(* The result is made when both drains have seen the end.                  *)
LEMMA ToldStep ==
  ASSUME OutputIsTold, Phase, Flow, EndSeen, TypeOK', [Next]_vars
  PROVE  OutputIsTold'
<1>1. TypeOK
  BY DEF OutputIsTold
<1>2. CASE Finishes
  <2> SUFFICES ASSUME answer' = "ok", NEW o \in Output
               PROVE  /\ wrote[o] <= Max => kept[o] = wrote[o]
                      /\ wrote[o] > Max => kept[o] > Max
    BY <1>2 DEF OutputIsTold, Finishes, hostVars, childVars
  <2>1. pc = "run" /\ drain[o] = "eof"
    BY <1>1, <1>2, StateTypes DEF Finishes, WorkOver, Return
  <2>2. pipe[o] = 0
    BY <2>1 DEF EndSeen
  <2>3. kept[o] = Capped(wrote[o] - 0) /\ wrote[o] \in Nat
    BY <1>1, <2>1, <2>2, StateTypes DEF Flow
  <2>4. kept[o] = Capped(wrote[o])
    BY <2>3
  <2> QED
    BY <2>3, <2>4, CappedProperties
<1>3. CASE ~Finishes
  <2>1. answer' = "ok" => answer = "ok"
    BY <1>3 DEF Next, Asking, Child, Work, Select, Allow, Deny, Withdraw, Spawn, SpawnFails,
         ChildWrites, OutputCloses, ChildReads, ChildReadsEnd, Forks, ChildExits, HeirExits,
         Feed, Drain, DrainOver, DrainFails, TimesOut, Cut, Reaped, GraceOver, Dropped, Cancel, Return,
         ReapAnswer, vars
  <2>2. answer = "ok" => UNCHANGED <<wrote, kept>>
    <3>1. answer = "ok" => pc = "done" /\ ~Alive
      BY DEF Phase, EndSeen
    <3> QED
      BY <3>1 DEF Next, Asking, Child, Work, Select, Allow, Deny, Withdraw, Spawn, SpawnFails,
         ChildWrites, OutputCloses, ChildReads, ChildReadsEnd, Forks, ChildExits, HeirExits,
         Feed, Drain, DrainOver, DrainFails, Finishes, TimesOut, Cut, Reaped, GraceOver, Dropped, Cancel,
         Running, hostVars, childVars, vars
  <2> QED
    BY <2>1, <2>2 DEF OutputIsTold
<1> QED
  BY <1>2, <1>3

LEMMA Inductive == Spec => []IInv
<1>1. IInv /\ [Next]_vars => IInv'
  <2> SUFFICES ASSUME IInv, [Next]_vars
               PROVE  IInv'
    OBVIOUS
  <2>1. OutputIsTold /\ TypeOK /\ Phase /\ Bounded /\ GroupGone /\ Flow /\ EndSeen
    BY DEF IInv, OutputIsTold
  <2>2. TypeOK' /\ Phase' /\ Bounded' /\ GroupGone' /\ Flow' /\ EndSeen'
    BY <2>1, TypeStep, PhaseStep, BoundedStep, GroupStep, FlowStep, EndStep
  <2>3. OutputIsTold'
    BY <2>1, <2>2, ToldStep
  <2> QED
    BY <2>2, <2>3 DEF IInv
<1> QED
  BY <1>1, InitInv, PTL DEF Spec

-----------------------------------------------------------------------------
(***************************************************************************)
(* A step that answers with its deadline or its cancellation has left      *)
(* nobody of the child's group running, and nobody joins it later: the     *)
(* whole group was killed before the step waited for anything              *)
(* (process_run, kill_group).                                              *)
(***************************************************************************)
THEOREM NoneIsOrphaned == Spec => []NoOrphans
<1>1. IInv => NoOrphans
  BY DEF IInv, GroupGone, NoOrphans
<1> QED
  BY <1>1, Inductive, PTL

(***************************************************************************)
(* Whatever the child writes to which pipe and however the drains take it, *)
(* a result has all of an output up to the cap and marks exactly the one   *)
(* that had more (drain_capped, lossy_capped).                             *)
(***************************************************************************)
THEOREM OutputTold == Spec => []OutputIsTold
<1>1. IInv => OutputIsTold
  BY DEF IInv
<1> QED
  BY <1>1, Inductive, PTL
=============================================================================
