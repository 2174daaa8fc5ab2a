---------------------------- MODULE ProcessRun -----------------------------
(***************************************************************************)
(* host_process.run (gwennol-core/src/steps/process.rs): a child with its  *)
(* stdin fed and its output drained at once, the deadline, the token, and  *)
(* the end of the child's process group.  Unix, where there is a group.    *)
(*                                                                         *)
(* The child is anything: what it does next it decides, and is then held   *)
(* up as long as the pipe it does it with makes it wait.                   *)
(***************************************************************************)
EXTENDS Naturals

CONSTANTS
  Max,        \* param max_output_bytes
  PipeSize,   \* what a pipe holds (external)
  MaxInput,   \* bound: the stdin a plugin gives
  MaxOutput   \* bound: what the child writes to each of its pipes

ASSUME ProcessAssumption ==
  /\ Max \in Nat
  /\ PipeSize \in Nat \ {0}
  /\ MaxInput \in Nat /\ MaxOutput \in Nat

VARIABLES
  pc,         \* where process_run is
  cancelled,  \* the invocation's token has fired
  answer,     \* what the step returned
  input,      \* what the task that feeds stdin has left to write
  fed,        \* that task is over, and the pipe's end closed
  drain,      \* the two drain_capped futures
  kept,       \* what they kept
  child,      \* the child
  next,       \* what the child is about to do
  heirs,      \* descendants that hold the child's output open
  pipe,       \* bytes in the pipes
  wrote,      \* history: what the child wrote
  closed      \* outputs neither the child nor an heir holds open any more

hostVars == <<input, fed, drain, kept>>
childVars == <<child, next, heirs, wrote, closed>>
vars == <<pc, cancelled, answer, hostVars, childVars, pipe>>

Output == {"stdout", "stderr"}
Pipe == Output \cup {"stdin"}

(* In the child's process group, or in a session of its own (setsid). *)
Heir == {"group", "away"}

Answer == {"ok", "failed", "denied", "withdrawn", "timeout", "cancelled", "dropped"}

TypeOK ==
  /\ pc \in {"ask", "spawn", "run", "reap_timeout", "reap_cancelled", "done"}
  /\ cancelled \in BOOLEAN
  /\ answer \in Answer \cup {"none"}
  /\ input \in 0..MaxInput
  /\ fed \in BOOLEAN
  /\ drain \in [Output -> {"reading", "eof", "failed"}]
  /\ kept \in [Output -> 0..(Max + 1)]
  /\ child \in {"none", "running", "exited", "killed"}
  /\ next \in Pipe \cup {"exit"}
  /\ heirs \subseteq Heir
  /\ pipe \in [Pipe -> 0..PipeSize]
  /\ wrote \in [Output -> 0..MaxOutput]
  /\ closed \subseteq Output

(* Without a stdin the child reads an end at once (Stdio::null). *)
Init ==
  /\ pc = "ask"
  /\ cancelled = FALSE
  /\ answer = "none"
  /\ input \in 0..MaxInput
  /\ fed = (input = 0)
  /\ drain = [o \in Output |-> "reading"]
  /\ kept = [o \in Output |-> 0]
  /\ child = "none"
  /\ next = "exit"
  /\ heirs = {}
  /\ pipe = [p \in Pipe |-> 0]
  /\ wrote = [o \in Output |-> 0]
  /\ closed = {}

Return(a) == pc' = "done" /\ answer' = a

Running == pc \in {"run", "reap_timeout", "reap_cancelled"}

-----------------------------------------------------------------------------
(* Before the child. *)

Allow ==
  /\ pc = "ask"
  /\ ~cancelled
  /\ pc' = "spawn"
  /\ UNCHANGED <<cancelled, answer, hostVars, childVars, pipe>>

Deny ==
  /\ pc = "ask"
  /\ ~cancelled
  /\ Return("denied")
  /\ UNCHANGED <<cancelled, hostVars, childVars, pipe>>

Withdraw ==
  /\ pc = "ask"
  /\ cancelled
  /\ Return("withdrawn")
  /\ UNCHANGED <<cancelled, hostVars, childVars, pipe>>

(* What the child may do next. *)
Wants == {"stdin", "exit"} \cup {o \in Output \ closed' : wrote'[o] < MaxOutput}

(* From the approval to the select nothing is awaited. *)
Spawn ==
  /\ pc = "spawn"
  /\ child' = "running" /\ UNCHANGED <<wrote, heirs, closed>>
  /\ next' \in Wants
  /\ pc' = "run"
  /\ UNCHANGED <<cancelled, answer, hostVars, pipe>>

SpawnFails ==
  /\ pc = "spawn"
  /\ Return("failed")
  /\ UNCHANGED <<cancelled, hostVars, childVars, pipe>>

-----------------------------------------------------------------------------
(* The child and its descendants (external). *)

Alive == child = "running"

(* Nobody reads a pipe whose drain is over, or was abandoned. *)
Read(o) == drain[o] = "reading" /\ pc # "done"

ChildWrites(o) ==
  /\ Alive /\ next = o
  /\ IF Read(o)
     THEN /\ pipe[o] < PipeSize
          /\ pipe' = [pipe EXCEPT ![o] = @ + 1]
     ELSE UNCHANGED pipe
  /\ wrote' = [wrote EXCEPT ![o] = @ + 1] /\ UNCHANGED closed
  /\ next' \in Wants
  /\ UNCHANGED <<pc, cancelled, answer, hostVars, child, heirs>>

ChildReads ==
  /\ Alive /\ next = "stdin"
  /\ pipe["stdin"] > 0
  /\ pipe' = [pipe EXCEPT !["stdin"] = @ - 1]
  /\ UNCHANGED <<wrote, closed>>
  /\ next' \in Wants
  /\ UNCHANGED <<pc, cancelled, answer, hostVars, child, heirs>>

(* The end of its input: it does not read on. *)
ChildReadsEnd ==
  /\ Alive /\ next = "stdin"
  /\ pipe["stdin"] = 0 /\ fed
  /\ UNCHANGED <<wrote, closed>>
  /\ next' \in Wants \ {"stdin"}
  /\ UNCHANGED <<pc, cancelled, answer, hostVars, child, heirs, pipe>>

(* The last that holds an output lets go of it and runs on: of one that    *)
(* nobody reads any more nobody would know.                                *)
OutputCloses(o) ==
  /\ Alive \/ heirs # {}
  /\ Read(o) /\ o \notin closed
  /\ closed' = closed \cup {o} /\ UNCHANGED wrote
  /\ next' \in IF next = o THEN Wants ELSE {next}
  /\ UNCHANGED <<pc, cancelled, answer, hostVars, child, heirs, pipe>>

Forks ==
  /\ Alive
  /\ \E h \in Heir \ heirs : heirs' = heirs \cup {h}
  /\ UNCHANGED <<pc, cancelled, answer, hostVars, child, next, wrote, closed, pipe>>

ChildExits ==
  /\ Alive /\ next = "exit"
  /\ child' = "exited"
  /\ UNCHANGED <<pc, cancelled, answer, hostVars, next, heirs, wrote, closed, pipe>>

HeirExits ==
  /\ \E h \in heirs : heirs' = heirs \ {h}
  /\ UNCHANGED <<pc, cancelled, answer, hostVars, child, next, wrote, closed, pipe>>

-----------------------------------------------------------------------------
(* The task that feeds stdin, on its own: it outlives the step. *)

Feed ==
  /\ Running /\ ~fed
  /\ CASE ~Alive -> fed' = TRUE /\ UNCHANGED <<input, pipe>>
       [] Alive /\ input = 0 -> fed' = TRUE /\ UNCHANGED <<input, pipe>>
       [] Alive /\ input > 0 ->
            /\ pipe["stdin"] < PipeSize
            /\ pipe' = [pipe EXCEPT !["stdin"] = @ + 1]
            /\ input' = input - 1
            /\ UNCHANGED fed
  /\ UNCHANGED <<pc, cancelled, answer, drain, kept, childVars>>

-----------------------------------------------------------------------------
(* drain_capped, for both pipes, under the join. *)

(* Mutant: what is past the cap is not kept, not even one byte of it. *)
Capped_NoMark(n) == IF n > Max THEN Max ELSE n

(* One byte past the cap marks that there was more. *)
Capped(n) == IF n > Max + 1 THEN Max + 1 ELSE n

(* Mutant: stderr is drained when stdout is done. *)
Drain_InTurn(o) ==
  /\ Running /\ Read(o)
  /\ o = "stderr" => drain["stdout"] # "reading"
  /\ \E n \in 1..pipe[o] :
       /\ pipe' = [pipe EXCEPT ![o] = @ - n]
       /\ kept' = [kept EXCEPT ![o] = Capped(@ + n)]
  /\ UNCHANGED <<pc, cancelled, answer, input, fed, drain, childVars>>

Drain(o) ==
  /\ Running /\ Read(o)
  /\ \E n \in 1..pipe[o] :
       /\ pipe' = [pipe EXCEPT ![o] = @ - n]
       /\ kept' = [kept EXCEPT ![o] = Capped(@ + n)]
  /\ UNCHANGED <<pc, cancelled, answer, input, fed, drain, childVars>>

DrainOver(o) ==
  /\ Running /\ Read(o)
  /\ pipe[o] = 0
  /\ o \in closed \/ (~Alive /\ heirs = {})
  /\ drain' = [drain EXCEPT ![o] = "eof"]
  /\ UNCHANGED <<pc, cancelled, answer, input, fed, kept, childVars, pipe>>

DrainFails(o) ==
  /\ Running /\ Read(o)
  /\ drain' = [drain EXCEPT ![o] = "failed"]
  /\ pipe' = [pipe EXCEPT ![o] = 0]
  /\ UNCHANGED <<pc, cancelled, answer, input, fed, kept, childVars>>

(* The work future has its result: both drains, then child.wait(). *)
WorkOver == child \in {"exited", "killed"} /\ \A o \in Output : drain[o] # "reading"

-----------------------------------------------------------------------------
(* The select, biased, work first. *)

Finishes ==
  /\ pc = "run" /\ WorkOver
  /\ Return(IF \E o \in Output : drain[o] = "failed" THEN "failed" ELSE "ok")
  /\ UNCHANGED <<cancelled, hostVars, childVars, pipe>>

(* Mutant: only the child dies, as kill_on_drop would have it. *)
KillGroup_ChildOnly ==
  /\ child' = IF Alive THEN "killed" ELSE child
  /\ heirs' = heirs

(* kill_group: what has left the group is out of reach. *)
KillGroup ==
  /\ child' = IF Alive THEN "killed" ELSE child
  /\ heirs' = heirs \ {"group"}

TimesOut ==
  /\ pc = "run" /\ ~WorkOver
  /\ KillGroup
  /\ pc' = "reap_timeout"
  /\ UNCHANGED <<cancelled, answer, hostVars, next, wrote, closed, pipe>>

Cut ==
  /\ pc = "run" /\ ~WorkOver
  /\ cancelled
  /\ KillGroup
  /\ pc' = "reap_cancelled"
  /\ UNCHANGED <<cancelled, answer, hostVars, next, wrote, closed, pipe>>

ReapAnswer == IF pc = "reap_timeout" THEN "timeout" ELSE "cancelled"

Reaped ==
  /\ pc \in {"reap_timeout", "reap_cancelled"}
  /\ WorkOver
  /\ Return(ReapAnswer)
  /\ UNCHANGED <<cancelled, hostVars, childVars, pipe>>

(* REAP_GRACE: the pipes are abandoned. *)
GraceOver ==
  /\ pc \in {"reap_timeout", "reap_cancelled"}
  /\ Return(ReapAnswer)
  /\ UNCHANGED <<cancelled, hostVars, childVars, pipe>>

(* The kernel, or a frontend that leaves, drops the future: kill_on_drop. *)
Dropped ==
  /\ Running /\ cancelled
  /\ child' = IF Alive THEN "killed" ELSE child
  /\ Return("dropped")
  /\ UNCHANGED <<cancelled, hostVars, next, heirs, wrote, closed, pipe>>

Cancel ==
  /\ ~cancelled /\ pc # "done"
  /\ cancelled' = TRUE
  /\ UNCHANGED <<pc, answer, hostVars, childVars, pipe>>

Asking == Allow \/ Deny \/ Withdraw \/ Spawn \/ SpawnFails

Child ==
  \/ \E o \in Output : ChildWrites(o) \/ OutputCloses(o)
  \/ ChildReads \/ ChildReadsEnd \/ Forks \/ ChildExits \/ HeirExits

Work == Feed \/ \E o \in Output : Drain(o) \/ DrainOver(o) \/ DrainFails(o)

Select == Finishes \/ TimesOut \/ Cut \/ Reaped \/ GraceOver \/ Dropped

Next == Asking \/ Child \/ Work \/ Select \/ Cancel

Spec == Init /\ [][Next]_vars

(* Futures and tasks are polled, and the grace is a timer. *)
Fairness ==
  /\ WF_vars(Spawn) /\ WF_vars(Withdraw) /\ WF_vars(Feed)
  /\ \A o \in Output : WF_vars(Drain(o)) /\ WF_vars(DrainOver(o))
  /\ WF_vars(Finishes) /\ WF_vars(Cut) /\ WF_vars(Reaped) /\ WF_vars(GraceOver)

FairSpec == Spec /\ Fairness

OperatorAnswers == WF_vars(Allow \/ Deny)

(* The child goes on as far as the pipes let it, and its descendants end.  *)
ChildGoesOn ==
  /\ WF_vars(ChildReads \/ ChildReadsEnd \/ ChildExits \/ \E o \in Output : ChildWrites(o))
  /\ WF_vars(HeirExits)

ClockRuns == WF_vars(TimesOut)

-----------------------------------------------------------------------------
(***************************************************************************)
(* A step that answers with its deadline or its cancellation leaves nobody *)
(* of the child's process group running, however far the child had got or  *)
(* what it left behind: "a timed-out sh -c leaves no orphans"              *)
(* (process_run).                                                          *)
(***************************************************************************)
NoOrphans ==
  answer \in {"timeout", "cancelled"} => ~Alive /\ "group" \notin heirs

(***************************************************************************)
(* The result holds everything the child wrote, up to the cap, and says so *)
(* of exactly the output that had more (drain_capped, lossy_capped); never *)
(* is more than a byte past the cap kept.                                  *)
(***************************************************************************)
OutputIsTold ==
  /\ TypeOK
  /\ answer = "ok" =>
       \A o \in Output :
         /\ wrote[o] <= Max => kept[o] = wrote[o]
         /\ wrote[o] > Max => kept[o] > Max

(***************************************************************************)
(* "A child that floods a pipe or never reads its input cannot deadlock    *)
(* the step": whatever it does in whatever order, one that goes on as far  *)
(* as its pipes let it is waited for and ends the step without the         *)
(* deadline; and the deadline ends the step whatever became of the child   *)
(* and whoever holds its pipes (REAP_GRACE).                               *)
(***************************************************************************)
RunEnds ==
  /\ OperatorAnswers /\ ChildGoesOn => <>(pc = "done")
  /\ OperatorAnswers /\ ClockRuns => <>(pc = "done")
=============================================================================
