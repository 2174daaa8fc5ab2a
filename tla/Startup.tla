------------------------------- MODULE Startup -------------------------------
(***************************************************************************)
(* A run of the command (gwennol-cli: main.rs, lib.rs, frontend.rs,        *)
(* config.rs, secrets.rs, plugins.rs, print.rs): what it is told by flags, *)
(* files and the environment, what it makes of that before the first turn, *)
(* and, of a print run, the turn, the interrupts and the exit status.  A   *)
(* session goes on where InteractiveSession begins.                        *)
(*                                                                         *)
(* The texts of rules, prompts and paths are left out: an input is there   *)
(* or not, and is in order or is one of the faults.                        *)
(***************************************************************************)
EXTENDS Naturals, Sequences, SequencesExt, FiniteSets, FiniteSetsExt

CONSTANTS
  CommandLines,   \* the --allow and --deny flags, in the order given: [decision, rule]
  RuleFiles,      \* the rules a file may hold
  Installations,  \* what plugins a directory may hold, in path order
  Pair,           \* a plugin's name and the name of a secret
  MaxPresses      \* bound: how often Ctrl-C is pressed

ASSUME CommandLinesAssumption ==
  \A flags \in CommandLines :
    flags \in Seq([decision: {"allow", "deny"}, rule: {flags[i].rule : i \in DOMAIN flags}])

ASSUME PressesAssumption == MaxPresses \in Nat

VARIABLES
  cli,         \* Cli
  file,        \* the config file, and the rules of the policy file
  faults,      \* which inputs are not in order
  installed,   \* the manifests of the plugins' directory
  stage,       \* where the run is
  mode,        \* print or session
  specs,       \* the rules the policy is compiled of, in the order tried
  secrets,     \* Secrets: the sources, in the order tried
  content,     \* which sources hold a value: environment variables and files
  loaded,      \* how many plugins are registered
  warnings,    \* the startup warnings: the pairs nothing has a value for
  model_for,   \* whose $config --model was written to
  provider,    \* Session::provider
  secret,      \* history: the last secret asked for
  ending,      \* how the turn ended
  listening,   \* which ctrl_c() the spawned task awaits; 0 before it runs
  signalled,   \* a Ctrl-C it has not taken yet
  pressed,     \* history: how often Ctrl-C was pressed
  report,      \* the file --transcript names: untouched, half or whole
  status,      \* the exit status
  why          \* history: what a startup failure was about

inputs == <<cli, file, faults, installed>>
kept == <<mode, specs, secrets, loaded, warnings, model_for, provider>>
interrupts == <<listening, signalled, pressed>>
running == <<secret, ending, interrupts, report>>
startupVars == <<inputs, stage, kept, content, running, status, why>>

None == "none"
Env == <<"env">>
Path == <<"path">>
Convention(pair) == <<"GWENNOL_SECRET", pair>>
Sources == {Env, Path} \cup {Convention(p) : p \in Pair}

Faults == {"log", "workspace", "task", "config", "policy", "rules", "secrets", "plugins",
           "manifests", "boot", "register", "prompt"}

PlainCli == [print |-> TRUE, terminal |-> FALSE, transcript |-> TRUE, rules |-> <<>>,
             secrets |-> <<>>, provider |-> None, model |-> FALSE]
PlainFile == [rules |-> <<>>, policy |-> <<>>, secrets |-> <<>>, provider |-> None]

(* What a run may be told.  Bound: it is unusual in one way only, and at most two of its
   inputs are not in order.                                                              *)
UnusualRules ==
  \E flags \in CommandLines, policy, config \in RuleFiles :
    /\ cli = [PlainCli EXCEPT !.rules = flags]
    /\ file = [PlainFile EXCEPT !.policy = policy, !.rules = config]

UnusualSecrets ==
  \E flags, config \in {<<>>} \cup {<<[pair |-> p, source |-> s]>> : p \in Pair, s \in {Env, Path}} :
    /\ cli = [PlainCli EXCEPT !.secrets = flags]
    /\ file = [PlainFile EXCEPT !.secrets = config]

UnusualMode ==
  /\ cli \in [print: BOOLEAN, terminal: BOOLEAN, transcript: BOOLEAN, rules: {<<>>},
              secrets: {<<>>}, provider: {None, "p1", "p2"}, model: BOOLEAN]
  /\ file \in {[PlainFile EXCEPT !.provider = p] : p \in {None, "p1"}}

RunInit ==
  /\ \/ UnusualRules /\ faults = {} /\ content = [s \in Sources |-> FALSE]
     \/ UnusualSecrets /\ faults = {} /\ content \in [Sources -> BOOLEAN]
     \/ UnusualMode /\ content = [s \in Sources |-> FALSE]
          /\ faults \in {{}} \cup {{a, b} : a, b \in Faults}
  /\ installed \in Installations
  /\ stage = "main" /\ mode = None
  /\ specs = <<>> /\ secrets = <<>> /\ loaded = 0 /\ warnings = {}
  /\ model_for = None /\ provider = None
  /\ secret = [pair |-> None]
  /\ ending = None
  /\ listening = 0 /\ signalled = FALSE /\ pressed = 0
  /\ report = "untouched"
  /\ status = None /\ why = None

-----------------------------------------------------------------------------
(* Startup: one input after the other, and the first not in order ends the run. *)

Exit(code) ==
  /\ status' = code
  /\ stage' = "exit"

Fatal(what) ==
  /\ why' = what
  /\ Exit("2")

To(next) ==
  /\ stage' = next
  /\ UNCHANGED <<status, why>>

Checked(what, next) == IF what \in faults THEN Fatal(what) ELSE To(next)

choose_mode == IF cli.print \/ ~cli.terminal THEN "print" ELSE "session"

Main ==
  /\ stage = "main"
  /\ mode' = choose_mode
  /\ Checked("log", "workspace")
  /\ UNCHANGED <<inputs, specs, secrets, loaded, warnings, model_for, provider, content, running>>

Workspace ==
  /\ stage = "workspace"
  /\ Checked("workspace", mode)
  /\ UNCHANGED <<inputs, kept, content, running>>

(* A print run reads its task before anything expensive; a session writes no transcript. *)
PrintRun ==
  /\ stage = "print"
  /\ Checked("task", "files")
  /\ UNCHANGED <<inputs, kept, content, running>>

SessionRun ==
  /\ stage = "session"
  /\ IF cli.transcript THEN Fatal("transcript") ELSE To("files")
  /\ UNCHANGED <<inputs, kept, content, running>>

(* Loaded::read, of the config file and of the policy file: a file is refused whole, for a
   bad entry of any kind.                                                                *)
ReadFiles ==
  /\ stage = "files"
  /\ IF "config" \in faults THEN Fatal("config") ELSE Checked("policy", "policy")
  /\ UNCHANGED <<inputs, kept, content, running>>

(* clap keeps the values of a flag, and their positions on the command line. *)
Matches(decision) ==
  {[index |-> i, rule |-> cli.rules[i]] :
     i \in {j \in DOMAIN cli.rules : cli.rules[j].decision = decision}}

(* sort_by_key(index), of flags at different positions. *)
Below(flag, flags) == {f \in flags : f.index < flag.index}

Sorted(flags) ==
  [k \in 1..Cardinality(flags) |->
     (CHOOSE flag \in flags : Cardinality(Below(flag, flags)) = k - 1).rule]

(* Mutant: every --allow before every --deny. *)
ordered_rule_flags_ByKind ==
  Sorted(Matches("allow")
           \cup {[flag EXCEPT !.index = @ + Len(cli.rules)] : flag \in Matches("deny")})

ordered_rule_flags == Sorted(Matches("allow") \cup Matches("deny"))

CompilePolicy ==
  /\ stage = "policy"
  /\ specs' = ordered_rule_flags \o file.policy \o file.rules
  /\ Checked("rules", "secrets")
  /\ UNCHANGED <<inputs, mode, secrets, loaded, warnings, model_for, provider, content, running>>

CollectSecrets ==
  /\ stage = "secrets"
  /\ secrets' = cli.secrets \o file.secrets
  /\ Checked("secrets", "plugins")
  /\ UNCHANGED <<inputs, mode, specs, loaded, warnings, model_for, provider, content, running>>

(* The directory, its manifests (none is an error too), and the kernel. *)
FindPlugins ==
  /\ stage = "plugins"
  /\ IF "plugins" \in faults THEN Fatal("plugins")
     ELSE IF "manifests" \in faults \/ installed = <<>> THEN Fatal("manifests")
     ELSE Checked("boot", "register")
  /\ UNCHANGED <<inputs, kept, content, running>>

source_for(pair) ==
  LET naming == {i \in DOMAIN secrets : secrets[i].pair = pair}
  IN  IF naming = {} THEN Convention(pair) ELSE secrets[Min(naming)].source

is_available(pair) == content[source_for(pair)]

(* One plugin at a time, warning of its secrets.  Which one the kernel refuses is left open. *)
Register ==
  /\ stage = "register"
  /\ IF loaded = Len(installed) THEN To("provider") /\ UNCHANGED <<loaded, warnings>>
     ELSE \/ /\ "register" \notin faults \/ loaded + 1 < Len(installed)
             /\ loaded' = loaded + 1
             /\ warnings' = warnings \cup {p \in installed[loaded + 1].secrets : ~is_available(p)}
             /\ To("register")
          \/ /\ "register" \in faults
             /\ Fatal("register")
             /\ UNCHANGED <<loaded, warnings>>
  /\ UNCHANGED <<inputs, mode, specs, secrets, model_for, provider, content, running>>

(* resolve_provider: the one named, if it is there; else the only one there is. *)
Candidates == {installed[i].name : i \in {j \in DOMAIN installed : installed[j].chat}}
Named == IF cli.provider # None THEN cli.provider ELSE file.provider

resolve_provider ==
  CASE Named # None /\ Named \in Candidates -> Named
    [] Named = None /\ Cardinality(Candidates) = 1 -> CHOOSE c \in Candidates : TRUE
    [] OTHER -> None

Configure ==
  /\ stage = "provider"
  /\ IF cli.model /\ resolve_provider = None THEN Fatal("model") /\ UNCHANGED model_for
     ELSE /\ model_for' = IF cli.model THEN resolve_provider ELSE None
          /\ Checked("prompt", "harvest")
  /\ UNCHANGED <<inputs, mode, specs, secrets, loaded, warnings, provider, content, running>>

(* harvest_tools refuses two tools of one name. *)
Duplicates ==
  \E i, j \in DOMAIN installed : i # j /\ installed[i].tool = installed[j].tool /\ installed[i].tool # None

NewSession ==
  /\ stage = "harvest"
  /\ provider' = resolve_provider
  /\ IF resolve_provider = None \/ Duplicates THEN Fatal("session")
     ELSE To(IF mode = "print" THEN "turn" ELSE "drive")
  /\ UNCHANGED <<inputs, mode, specs, secrets, loaded, warnings, model_for, content, running>>

-----------------------------------------------------------------------------
(* The turn of a print run. *)

(* Secrets::supply, for what a registered plugin declares; a value is read when asked for. *)
Supply ==
  /\ stage = "turn"
  /\ \E i \in DOMAIN installed :
       \E p \in installed[i].secrets :
         secret' = [pair |-> p, source |-> source_for(p), given |-> content[source_for(p)],
                    held |-> content]
  /\ UNCHANGED <<inputs, stage, kept, content, ending, interrupts, report, status, why>>

(* Others write the file a secret is in, or remove it. *)
Rotate ==
  /\ stage \in {"register", "turn"} /\ file.secrets # <<>>
  /\ content' = [content EXCEPT ![Path] = ~@]
  /\ UNCHANGED <<inputs, stage, kept, running, status, why>>

TurnOver ==
  /\ stage = "turn"
  /\ ending' \in {"completed", "failed"} \cup (IF listening = 2 THEN {"cancelled"} ELSE {})
  /\ To(IF cli.transcript THEN "transcript" ELSE "done")
  /\ UNCHANGED <<inputs, kept, content, secret, interrupts, report>>

(* outcome_line *)
outcome_line == CASE ending = "completed" -> "0" [] ending = "failed" -> "1" [] OTHER -> "130"

(* Mutant: a transcript that cannot be written is what the run reports. *)
WithoutTranscript_Always == "2"

WithoutTranscript == IF outcome_line = "0" THEN "2" ELSE outcome_line

(* write_transcript: the file is emptied, then written; either may fail. *)
OpenTranscript ==
  /\ stage = "transcript"
  /\ \/ report' = "half" /\ To("writing")
     \/ Exit(WithoutTranscript) /\ UNCHANGED <<report, why>>
  /\ UNCHANGED <<inputs, kept, content, secret, ending, interrupts>>

WriteTranscript ==
  /\ stage = "writing"
  /\ \/ report' = "whole" /\ To("done")
     \/ Exit(WithoutTranscript) /\ UNCHANGED <<report, why>>
  /\ UNCHANGED <<inputs, kept, content, secret, ending, interrupts>>

Done ==
  /\ stage = "done"
  /\ Exit(outcome_line)
  /\ UNCHANGED <<inputs, kept, content, running, why>>

-----------------------------------------------------------------------------
(* Ctrl-C.  It kills the process until the spawned task first runs; from then on the task is
   told, of two presses it has not taken yet as of one.                                    *)
Spawn ==
  /\ stage \in {"turn", "transcript", "writing", "done"} /\ listening = 0
  /\ listening' = 1
  /\ UNCHANGED <<inputs, stage, kept, content, secret, ending, signalled, pressed, report, status, why>>

Press ==
  /\ stage \notin {"drive", "exit"} /\ pressed < MaxPresses
  /\ pressed' = pressed + 1
  /\ IF listening = 0 THEN Exit("killed") /\ UNCHANGED signalled
     ELSE signalled' = TRUE /\ UNCHANGED <<stage, status>>
  /\ UNCHANGED <<inputs, kept, content, secret, ending, listening, report, why>>

(* The first cancels the turn's token, which may find no turn any more; the second exits,
   wherever the run is.                                                                   *)
Interrupt ==
  /\ stage # "exit" /\ signalled
  /\ signalled' = FALSE
  /\ IF listening = 1 THEN listening' = 2 /\ UNCHANGED <<stage, status>>
     ELSE Exit("130") /\ UNCHANGED listening
  /\ UNCHANGED <<inputs, kept, content, secret, ending, pressed, report, why>>

RunNext ==
  \/ Main \/ Workspace \/ PrintRun \/ SessionRun
  \/ ReadFiles \/ CompilePolicy \/ CollectSecrets \/ FindPlugins
  \/ Register \/ Configure \/ NewSession
  \/ Supply \/ Rotate \/ TurnOver
  \/ OpenTranscript \/ WriteTranscript \/ Done
  \/ Spawn \/ Press \/ Interrupt

RunSpec == RunInit /\ [][RunNext]_startupVars

-----------------------------------------------------------------------------
(* What a run is governed by, when its first turn starts and ever after: the rules of the
   command line as they stand there, then the policy file's, then the config file's; the
   provider --model was meant for; and, for a secret, the first source that names it, alone:
   where that one holds nothing when it is asked, nothing is given, whatever others hold and
   whatever it held at startup.                                                            *)
GovernedInOrder ==
  stage \in {"turn", "drive"} =>
    /\ specs = cli.rules \o file.policy \o file.rules
    /\ provider \in Candidates
    /\ cli.provider # None => provider = cli.provider
    /\ model_for \in {None, provider} /\ (cli.model => model_for = provider)
    /\ secret.pair # None =>
         LET listed == cli.secrets \o file.secrets
             naming == {i \in DOMAIN listed : listed[i].pair = secret.pair}
             first == IF naming = {} THEN Convention(secret.pair) ELSE listed[Min(naming)].source
         IN  secret.given = secret.held[first]

(* The exit status tells the run, whenever it is interrupted and whatever cannot be written:
   0 only for a turn that completed, with its transcript whole if one was asked for; 1 only
   for a turn that failed; 2 for a run that began no turn, asked for no secret and left the
   transcript alone, or whose completed turn could not be written down; 130 only after an
   interrupt, and, unless the turn was cancelled, after a second one.                      *)
StatusTellsTheRun ==
  /\ status = "0" => ending = "completed" /\ (cli.transcript => report = "whole")
  /\ status = "1" => ending = "failed"
  /\ status = "2" =>
       \/ why # None /\ ending = None /\ secret.pair = None /\ report = "untouched"
       \/ why = None /\ ending = "completed" /\ cli.transcript /\ report # "whole"
  /\ status = "130" => pressed >= (IF ending = "cancelled" THEN 1 ELSE 2)
  /\ report # "untouched" => ending # None
=============================================================================
