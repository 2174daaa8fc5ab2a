----------------------------- MODULE MCFrontend -----------------------------
(* The command around the agent loop, one machine at a time: the pane that shows a turn
   (InteractivePane), a run from its flags to its exit status (Startup), and the terminal a
   session enters and leaves (TerminalScreen).                                           *)
EXTENDS InteractivePane, TerminalScreen, Startup

VARIABLE subject   \* which machine runs

ASSUME MaxPanics \in Nat

(* Rules r1 to r3 stand for texts that compile. *)
Flag(decision, rule) == [decision |-> decision, rule |-> rule]

MCCommandLines ==
  UNION {[1..n -> {Flag("allow", "r1"), Flag("deny", "r1")}] : n \in 0..3}

MCRuleFiles ==
  {<<>>, <<Flag("allow", "r3")>>, <<Flag("deny", "r1"), Flag("allow", "r2")>>}

(* No plugins; a provider and a tool; two providers; two tools of one name; no provider. *)
Provides(name, secretNames) == [name |-> name, chat |-> TRUE, tool |-> "none", secrets |-> secretNames]
Offers(name, secretNames) == [name |-> name, chat |-> FALSE, tool |-> "x", secrets |-> secretNames]

MCInstallations ==
  {<<>>,
   <<Provides("p1", {"k1"}), Offers("t1", {"k2"})>>,
   <<Provides("p1", {"k1"}), Provides("p2", {}), Offers("t1", {})>>,
   <<Provides("p1", {"k1"}), Offers("t1", {}), Offers("t2", {})>>,
   <<Offers("t1", {})>>}

(* Chunks are only compared, and the properties of this run are all invariants. *)
Symmetry == Permutations(Chunk)

(* A machine that is not the subject stays where it is. *)
RunParked ==
  /\ cli = PlainCli /\ file = PlainFile /\ installed = <<>> /\ faults = {}
  /\ content = [s \in Sources |-> FALSE]
  /\ RunInit

FrontendInit ==
  /\ PaneInit /\ ScreenInit
  /\ \/ subject \in {"pane", "screen"} /\ RunParked
     \/ subject = "run" /\ RunInit

Showing == subject = "pane" /\ UNCHANGED <<subject, startupVars, screenVars>>
Running == subject = "run" /\ UNCHANGED <<subject, vars, pane, screenVars>>
Drawing == subject = "screen" /\ UNCHANGED <<subject, vars, pane, startupVars>>

FrontendNext ==
  \/ Showing /\ Submit
  \/ Showing /\ Listen
  \/ Showing /\ Interject
  \/ Running /\ Main
  \/ Running /\ Workspace
  \/ Running /\ PrintRun
  \/ Running /\ SessionRun
  \/ Running /\ ReadFiles
  \/ Running /\ CompilePolicy
  \/ Running /\ CollectSecrets
  \/ Running /\ FindPlugins
  \/ Running /\ Register
  \/ Running /\ Configure
  \/ Running /\ NewSession
  \/ Running /\ Supply
  \/ Running /\ Rotate
  \/ Running /\ TurnOver
  \/ Running /\ OpenTranscript
  \/ Running /\ WriteTranscript
  \/ Running /\ Done
  \/ Running /\ Spawn
  \/ Running /\ Press
  \/ Running /\ Interrupt
  \/ Drawing /\ EnableRaw
  \/ Drawing /\ EnterScreen
  \/ Drawing /\ EnterKitty
  \/ Drawing /\ Flush
  \/ Drawing /\ EnterFails
  \/ Drawing /\ Drive
  \/ Drawing /\ LeaveDrive
  \/ Drawing /\ DropLooks
  \/ Drawing /\ DropUndoes
  \/ Drawing /\ DropClears
  \/ Drawing /\ Panic
  \/ Drawing /\ PanicElsewhere
  \/ Drawing /\ HookUndoes

FrontendSpec == FrontendInit /\ [][FrontendNext]_<<subject, vars, pane, startupVars, screenVars>>
=============================================================================
