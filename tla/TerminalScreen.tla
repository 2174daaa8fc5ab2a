--------------------------- MODULE TerminalScreen ---------------------------
(***************************************************************************)
(* The state of the terminal a session enters and undoes                   *)
(* (gwennol-cli/src/tui/screen.rs, run in mod.rs): by a guard when the     *)
(* session is left or unwinds, by the panic hook when a thread panics.     *)
(* The hook is the process's: it runs on the session's thread before the   *)
(* guard is dropped, and on any other thread while the session goes on.    *)
(*                                                                         *)
(* What is queued reaches the terminal in its order.  The keyboard flags   *)
(* are a stack somebody pushed to before the session.                      *)
(***************************************************************************)
EXTENDS Naturals

CONSTANTS
  MaxPanics    \* bound: panics of other threads

VARIABLES
  place,       \* where the session's thread is
  bits,        \* what it has entered: Screen::bits, enter's local before that
  still,       \* Drop's local
  entered,     \* ENTERED
  terminal,    \* raw mode, the alternate screen, bracketed paste, the keyboard's stack
  hook,        \* what another thread's hook has taken and not undone yet
  hooking,     \* whether there is such a hook
  panics,      \* how many other threads panicked
  unpushed,    \* history: the kitty flag was marked, and its push failed
  overlapped   \* history: another thread's hook began between Drop's look at ENTERED and its end

screenVars == <<place, bits, still, entered, terminal, hook, hooking, panics,
                unpushed, overlapped>>
elsewhere == <<hook, hooking, panics, overlapped>>

Bit == {"RAW", "SCREEN", "KITTY"}
Before == [raw |-> FALSE, alternate |-> FALSE, paste |-> FALSE, keyboard |-> 1]

ScreenInit ==
  /\ place = "start"
  /\ bits = {} /\ still = {} /\ entered = {}
  /\ terminal = Before
  /\ hook = {} /\ hooking = FALSE /\ panics = 0
  /\ unpushed = FALSE /\ overlapped = FALSE

(* undo; its commands meet nothing of each other, and a failed write is ignored. *)
undo(t, what) ==
  [raw       |-> t.raw /\ "RAW" \notin what,
   alternate |-> t.alternate /\ "SCREEN" \notin what,
   paste     |-> t.paste /\ "SCREEN" \notin what,
   keyboard  |-> IF "KITTY" \in what /\ t.keyboard > 0 THEN t.keyboard - 1 ELSE t.keyboard]

-----------------------------------------------------------------------------
(* Screen::enter.  No other thread of the session works yet. *)
EnableRaw ==
  /\ place = "start"
  /\ \/ place' = "over" /\ UNCHANGED <<bits, entered, terminal>>
     \/ /\ place' = "screen"
        /\ bits' = {"RAW"} /\ entered' = entered \cup {"RAW"}
        /\ terminal' = [terminal EXCEPT !.raw = TRUE]
  /\ UNCHANGED <<still, unpushed, elsewhere>>

(* A bit is marked, then its commands are queued; queueing may fail at any of them. *)
Marks(bit) == bits' = bits \cup {bit} /\ entered' = entered \cup {bit}

(* The alternate screen and pasted text; then the kitty flag, if the terminal has it. *)
EnterScreen ==
  /\ place = "screen"
  /\ Marks("SCREEN")
  /\ \E queued \in 0..2 :
       /\ terminal' = [terminal EXCEPT !.alternate = queued > 0, !.paste = queued = 2]
       /\ place' \in IF queued = 2 THEN {"kitty", "flush"} ELSE {"failed"}
  /\ UNCHANGED <<still, unpushed, elsewhere>>

EnterKitty ==
  /\ place = "kitty"
  /\ Marks("KITTY")
  /\ \/ /\ terminal' = [terminal EXCEPT !.keyboard = @ + 1]
        /\ place' = "flush" /\ UNCHANGED unpushed
     \/ /\ place' = "failed" /\ unpushed' = TRUE
        /\ UNCHANGED terminal
  /\ UNCHANGED <<still, elsewhere>>

Flush ==
  /\ place = "flush"
  /\ place' \in {"built", "failed"}
  /\ UNCHANGED <<bits, still, entered, terminal, unpushed, elsewhere>>

(* What was entered is undone, whatever the shared bits say: there is no guard yet. *)
EnterFails ==
  /\ place = "failed"
  /\ terminal' = undo(terminal, bits)
  /\ entered' = entered \ bits
  /\ place' = "over"
  /\ UNCHANGED <<bits, still, unpushed, elsewhere>>

(* run: the session, or none if there is no terminal to draw on; at its end the guard goes. *)
Drive ==
  /\ place = "built"
  /\ place' \in {"drive", "drop"}
  /\ UNCHANGED <<bits, still, entered, terminal, unpushed, elsewhere>>

LeaveDrive ==
  /\ place = "drive"
  /\ place' = "drop"
  /\ UNCHANGED <<bits, still, entered, terminal, unpushed, elsewhere>>

-----------------------------------------------------------------------------
(* Screen's Drop: a look at the shared bits, the undoing, and clearing them. *)
Looks(what) ==
  /\ place = "drop"
  /\ still' = what
  /\ place' = "undo"
  /\ UNCHANGED <<bits, entered, terminal, unpushed, elsewhere>>

(* Mutant: the guard undoes all it entered. *)
DropLooks_Unmasked == Looks(bits)

DropLooks == Looks(entered \cap bits)

DropUndoes ==
  /\ place = "undo"
  /\ terminal' = undo(terminal, still)
  /\ place' = "clear"
  /\ UNCHANGED <<bits, still, entered, unpushed, elsewhere>>

DropClears ==
  /\ place = "clear"
  /\ entered' = entered \ bits
  /\ place' = "over"
  /\ UNCHANGED <<bits, still, terminal, unpushed, elsewhere>>

(* The session's thread panics: the hook, then the unwinding, which drops the guard if there
   is one.                                                                                  *)
Panic ==
  /\ place \in {"screen", "kitty", "flush", "built", "drive"}
  /\ terminal' = undo(terminal, entered)
  /\ entered' = {}
  /\ place' = IF place \in {"built", "drive"} THEN "drop" ELSE "over"
  /\ UNCHANGED <<bits, still, unpushed, elsewhere>>

(* Another thread panics, one of the turn's tasks or one that outlives it: the bits are taken
   in one step and undone later.  The runtime catches the panic; the session goes on.       *)
PanicElsewhere ==
  /\ place \in {"drive", "drop", "undo", "clear"}
  /\ ~hooking /\ panics < MaxPanics
  /\ panics' = panics + 1
  /\ hooking' = TRUE
  /\ hook' = entered /\ entered' = {}
  /\ overlapped' = (overlapped \/ place \in {"undo", "clear"})
  /\ UNCHANGED <<place, bits, still, terminal, unpushed>>

HookUndoes ==
  /\ hooking /\ place # "over"
  /\ terminal' = undo(terminal, hook)
  /\ hooking' = FALSE /\ hook' = {}
  /\ UNCHANGED <<place, bits, still, entered, panics, unpushed, overlapped>>

ScreenNext ==
  \/ EnableRaw \/ EnterScreen \/ EnterKitty \/ Flush \/ EnterFails
  \/ Drive \/ LeaveDrive \/ DropLooks \/ DropUndoes \/ DropClears
  \/ Panic \/ PanicElsewhere \/ HookUndoes

ScreenSpec == ScreenInit /\ [][ScreenNext]_screenVars

-----------------------------------------------------------------------------
(***************************************************************************)
(* Every way out leaves the terminal as it was found, and nothing is       *)
(* undone twice: of the keyboard's stack, where that is not harmless, the  *)
(* session takes back its own entry and nobody else's.  Until a thread     *)
(* panics the session has the terminal it draws on.  The two halves of     *)
(* Drop and of a hook are not one step: what is left out is a process that *)
(* ends with another thread's hook at work, a hook that begins inside      *)
(* Drop, and, for the keyboard, a push that failed behind its mark.        *)
(***************************************************************************)
TerminalIsRestored ==
  /\ place = "over" /\ ~hooking /\ ~overlapped =>
       ~terminal.raw /\ ~terminal.alternate /\ ~terminal.paste
  /\ ~overlapped /\ ~unpushed =>
       /\ terminal.keyboard >= Before.keyboard
       /\ place = "over" /\ ~hooking => terminal.keyboard = Before.keyboard
  /\ place = "drive" /\ panics = 0 => terminal.raw /\ terminal.alternate /\ terminal.paste
=============================================================================
