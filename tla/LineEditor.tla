----------------------------- MODULE LineEditor -----------------------------
(***************************************************************************)
(* The line the person types (gwennol-cli/src/tui/editor.rs) and what      *)
(* drive() makes of the terminal's events before they reach it (keys.rs,   *)
(* drive.rs): a prompt takes the keys while one is open, the pane its own, *)
(* and Enter is answered by what the line says and by whether a turn runs. *)
(* Turns end and prompts open and close at any time between two keys.      *)
(*                                                                         *)
(* A character is an ordinary one (a), a blank ( ), or one that stands for *)
(* a whole "/exit" (e) or "/help" (h).  The notices on the status line are *)
(* left out, and of /help's lines where they go (PaneView).                *)
(***************************************************************************)
EXTENDS Naturals, Sequences

CONSTANTS
  Char,         \* the characters typed
  MaxText,      \* bound: the longest line
  MaxHistory    \* bound: lines committed

ASSUME LineAssumption == MaxText \in Nat /\ MaxHistory \in Nat

VARIABLES
  text, cursor, history,  \* Editor's
  browsing,               \* Editor::browsing, 0 for None
  draft,                  \* Editor::draft
  doing,                  \* drive(): "idle", "running", "closing" (no key is read any more), "over" or "forced"
  leaving,                \* Ui::exiting
  cancelled,              \* the turn's token has fired
  prompt,                 \* an approval is open
  errors,                 \* TerminalKeys::errors
  composed,               \* history: the line the person has made
  asked                   \* history: how the turns sent began, and the /exits of this turn

editor == <<text, cursor, history, browsing, draft>>
turn == <<doing, leaving, cancelled, prompt>>
lineVars == <<editor, turn, errors, composed, asked>>

Blank(c) == c = " "
Command == {"e", "h"}

(* The session begins, or /help was the first line typed. *)
LineInit ==
  /\ text = <<>> /\ cursor = 0 /\ history \in {<<>>, <<<<"h">>>>} /\ browsing = 0 /\ draft = <<>>
  /\ doing = "idle" /\ leaving = FALSE /\ cancelled = FALSE /\ prompt = FALSE
  /\ errors = 0
  /\ composed = <<>> /\ asked = [turns |-> {}, exits |-> 0]

-----------------------------------------------------------------------------
(* Editor::key: what edits, what moves, what recalls. *)

LineTo(n) == SubSeq(text, 1, n)
LineFrom(n) == SubSeq(text, n + 1, Len(text))

(* An edit ends the walk through the history. *)
Edits(new, at) ==
  /\ text' = new /\ cursor' = at /\ browsing' = 0
  /\ UNCHANGED <<history, draft>>

insert(cs) ==
  /\ Len(text) + Len(cs) <= MaxText
  /\ Edits(LineTo(cursor) \o cs \o LineFrom(cursor), cursor + Len(cs))

(* A boundary the word keys stop at: a word begins there, or ends the line. *)
word_left_index ==
  LET begins == {i \in 0..(cursor - 1) : ~Blank(text[i + 1]) /\ (i = 0 \/ Blank(text[i]))}
  IN  IF begins = {} THEN 0 ELSE CHOOSE i \in begins : \A j \in begins : j <= i

word_right_index ==
  LET begins == {i \in (cursor + 1)..(Len(text) - 1) : ~Blank(text[i + 1]) /\ Blank(text[i])}
  IN  IF begins = {} THEN Len(text) ELSE CHOOSE i \in begins : \A j \in begins : i <= j

left == IF cursor > 0 THEN cursor - 1 ELSE 0
right == IF cursor < Len(text) THEN cursor + 1 ELSE cursor

(* Pasted: newlines are blanks. *)
Clean(c) == IF c = "newline" THEN " " ELSE c
paste(cs) == insert([k \in DOMAIN cs |-> Clean(cs[k])])

(* Backspace, Delete and their words; at an end of the line they take nothing. *)
DeletesTo(i) ==
  IF i < cursor THEN Edits(LineTo(i) \o LineFrom(cursor), i)
  ELSE Edits(LineTo(cursor) \o LineFrom(i), cursor)

Deletes == \E i \in {left, right} : DeletesTo(i)

DeletesWord == \E i \in {word_left_index, word_right_index} : DeletesTo(i)

MovesCursor ==
  /\ cursor' \in {0, left, word_left_index, word_right_index, right, Len(text)}
  /\ UNCHANGED <<text, history, browsing, draft>>

Recalls(i) == browsing' = i /\ text' = history[i] /\ cursor' = Len(text')

(* Mutant: every Up keeps the line it leaves. *)
history_up_Keeping ==
  /\ history # <<>>
  /\ Recalls(IF browsing = 0 THEN Len(history) ELSE IF browsing = 1 THEN 1 ELSE browsing - 1)
  /\ draft' = text
  /\ UNCHANGED history

history_up ==
  /\ history # <<>>
  /\ Recalls(IF browsing = 0 THEN Len(history) ELSE IF browsing = 1 THEN 1 ELSE browsing - 1)
  /\ draft' = IF browsing = 0 THEN text ELSE draft
  /\ UNCHANGED history

history_down ==
  /\ browsing # 0
  /\ IF browsing < Len(history)
     THEN Recalls(browsing + 1) /\ UNCHANGED draft
     ELSE browsing' = 0 /\ text' = draft /\ cursor' = Len(draft) /\ draft' = <<>>
  /\ UNCHANGED history

commit ==
  /\ history' = IF history # <<>> /\ history[Len(history)] = text THEN history
                ELSE Append(history, text)
  /\ Len(history') <= MaxHistory
  /\ text' = <<>> /\ cursor' = 0 /\ browsing' = 0 /\ draft' = <<>>

(* Editor::submission: the trimmed line, classified by its first word. *)
Trimmed ==
  LET solid == {i \in DOMAIN text : ~Blank(text[i])}
  IN  IF solid = {} THEN <<>>
      ELSE SubSeq(text, CHOOSE i \in solid : \A j \in solid : i <= j,
                        CHOOSE i \in solid : \A j \in solid : j <= i)

submission ==
  IF Trimmed = <<>> THEN "Nothing"
  ELSE IF Trimmed[1] \notin Command THEN "Turn"
  ELSE IF Len(Trimmed) > 1 /\ ~Blank(Trimmed[2]) THEN "Unknown"
  ELSE IF Trimmed[1] = "e" THEN "Exit" ELSE "Help"

-----------------------------------------------------------------------------
(* TerminalKeys::step and handle_key.  Reading an event that reaches the loop clears the
   count of errors; a key's release, a focus or a mouse event does not reach it and clears
   nothing.                                                                               *)
Reads == doing \in {"idle", "running"} /\ errors' = 0

(* The person's own line: what an edit makes of it, and empty when it is taken. *)
Composes(line) == composed' = line /\ UNCHANGED asked

EditKey ==
  /\ Reads /\ ~prompt
  /\ (\E c \in Char : insert(<<c>>)) \/ Deletes \/ DeletesWord
  /\ Composes(text')
  /\ UNCHANGED turn

MoveKey ==
  /\ Reads /\ ~prompt
  /\ MovesCursor \/ history_up \/ history_down
  /\ UNCHANGED <<turn, composed, asked>>

(* A paste never submits.  A prompt drops it. *)
Paste ==
  /\ Reads
  /\ \E c \in Char :
       IF prompt THEN UNCHANGED <<editor, composed, asked>>
       ELSE paste(<<c, "newline">>) /\ Composes(text')
  /\ UNCHANGED turn

(* Any key at a prompt; Ctrl-C and the pane's keys; a resize: none of them the line's. *)
OtherInput ==
  /\ Reads
  /\ UNCHANGED <<editor, turn, composed, asked>>

(* Esc, and no prompt is open. *)
Escape ==
  /\ Reads /\ ~prompt
  /\ cancelled' = (cancelled \/ doing = "running")
  /\ UNCHANGED <<editor, doing, leaving, prompt, composed, asked>>

(* Enter on the text of a turn: sent, or kept on the line while another turn runs. *)
EnterTurn ==
  /\ Reads /\ ~prompt
  /\ submission = "Turn"
  /\ IF doing = "running" THEN UNCHANGED <<editor, turn, composed, asked>>
     ELSE /\ commit
          /\ composed' = <<>>
          /\ asked' = [asked EXCEPT !.turns = @ \cup {Trimmed[1]}]
          /\ doing' = "running" /\ cancelled' = FALSE
          /\ UNCHANGED <<leaving, prompt>>

(* Enter on /exit: leave; or cancel the turn and leave after it; or leave it behind. *)
EnterExit ==
  /\ Reads /\ ~prompt
  /\ submission = "Exit"
  /\ commit
  /\ composed' = <<>>
  /\ asked' = [asked EXCEPT !.exits = @ + 1]
  /\ doing' = IF doing = "idle" THEN "over" ELSE IF leaving THEN "forced" ELSE doing
  /\ leaving' = (doing = "running")
  /\ cancelled' = (cancelled \/ doing = "running")
  /\ UNCHANGED prompt

EnterHelp ==
  /\ Reads /\ ~prompt
  /\ submission = "Help"
  /\ commit
  /\ Composes(<<>>)
  /\ UNCHANGED turn

(* Enter on nothing, or on a command there is none of: the line stays. *)
EnterOther ==
  /\ Reads /\ ~prompt
  /\ submission \in {"Nothing", "Unknown"}
  /\ UNCHANGED <<editor, turn, composed, asked>>

(* Reading fails: once, it is traced; the second time in a row the keys have ended. *)
ReadFails ==
  /\ doing \in {"idle", "running"}
  /\ errors' = errors + 1
  /\ doing' = IF errors' < 2 THEN doing ELSE IF doing = "idle" THEN "over" ELSE "closing"
  /\ leaving' = (leaving \/ doing' = "closing")
  /\ cancelled' = (cancelled \/ doing' = "closing")
  /\ UNCHANGED <<editor, prompt, composed, asked>>

(* The turn returns, its prompts gone with it. *)
TurnEnds ==
  /\ doing \in {"running", "closing"}
  /\ doing' = IF leaving THEN "over" ELSE "idle"
  /\ leaving' = FALSE /\ cancelled' = FALSE /\ prompt' = FALSE
  /\ asked' = [asked EXCEPT !.exits = 0]
  /\ UNCHANGED <<editor, errors, composed>>

(* A host step asks the person, or stops asking; no matter once no key is read. *)
PromptTurns ==
  /\ doing = "running"
  /\ prompt' = ~prompt
  /\ UNCHANGED <<editor, doing, leaving, cancelled, errors, composed, asked>>

LineNext ==
  \/ EditKey \/ MoveKey \/ Paste \/ OtherInput \/ Escape
  \/ EnterTurn \/ EnterExit \/ EnterHelp \/ EnterOther
  \/ ReadFails \/ TurnEnds \/ PromptTurns

LineSpec == LineInit /\ [][LineNext]_lineVars

-----------------------------------------------------------------------------
(* What the person makes on the line is theirs until they delete it, send it or change a
   line recalled: walking the history shows its lines as they were sent and comes back to
   it, and no prompt, turn or resize touches it.  No command and nothing blank is sent as
   a turn, and only a second /exit leaves a turn behind.                                 *)
LineIsKept ==
  /\ text = IF browsing = 0 THEN composed ELSE history[browsing]
  /\ browsing # 0 => draft = composed
  /\ cursor \in 0..Len(text)
  /\ asked.turns \cap ({" "} \cup Command) = {}
  /\ doing = "running" => (leaving <=> asked.exits = 1)
  /\ doing = "forced" => asked.exits = 2
=============================================================================
