----------------------------- MODULE PromptBox ------------------------------
(***************************************************************************)
(* The box an open approval is shown in (gwennol-cli/src/tui/prompt.rs,   *)
(* placed by ui.rs): as high as its text needs, up to two thirds of the    *)
(* screen, then scrolled.  The height is asked for by one function and     *)
(* filled by another; keys compute against the last frame; the screen      *)
(* changes its size and the first prompt its turn between any two of them. *)
(***************************************************************************)
EXTENDS Wrap

CONSTANTS
  Screens,     \* the sizes the terminal may have: [width, height]
  Asked        \* prompts: [lines, legend], two texts

ASSUME BoxAssumption ==
  /\ Screens \subseteq [width: Nat, height: Nat]
  /\ \A asked \in Asked : {asked.lines, asked.legend} \subseteq Seq(Seq(Nat)) \ {<<>>}

VARIABLES
  shown,      \* the first prompt's lines and its key line
  above,      \* its Prompt::scroll
  measured,   \* its Prompt::view
  drawn,      \* what the last frame has of the box
  keyed       \* history: the keys since that frame; the one key before it, and the row on top then

boxVars == <<shown, above, measured, drawn, keyed>>

NoBox == [width |-> 0, height |-> 0, rows |-> 0, start |-> 0, shown |-> 0, legend |-> 0,
          under |-> 0, entire |-> FALSE]

BoxInit ==
  /\ shown \in Asked
  /\ above = 0
  /\ measured = [rows |-> 0, visible |-> 0]
  /\ drawn = NoBox
  /\ keyed = [keys |-> "none", key |-> "none", start |-> 0]

(* PromptGuard::open at an empty queue, or the next prompt in its turn: never drawn yet. *)
BoxOpens ==
  /\ shown' \in Asked
  /\ above' = 0 /\ measured' = [rows |-> 0, visible |-> 0]
  /\ keyed' = [keyed EXCEPT !.keys = "more"]
  /\ UNCHANGED drawn

-----------------------------------------------------------------------------
(* height: what the box asks for, at most two thirds of the screen. *)
inner_width(width) == IF width > 3 THEN width - 2 ELSE 1
max_box(area) == IF (area * 2) \div 3 > 4 THEN (area * 2) \div 3 ELSE 4

(* Mutant: the key line is taken to fit in one row. *)
height_OneRow(width, area) ==
  Least(Len(wrap(shown.lines, inner_width(width))) + 3, max_box(area))

height(width, area) ==
  Least(Len(wrap(shown.lines, inner_width(width))) + 2 + Len(wrap(shown.legend, inner_width(width))),
        max_box(area))

(* regions: the box has what it asks for where a row of the pane, the status line and the
   editor are left; on a screen too small, what the layout of the crate ratatui makes of it. *)
regions(screen) ==
  LET h == height(screen.width, screen.height)
  IN  IF screen.height >= h + 3 THEN {h} ELSE 0..Least(h, screen.height)

(* render_prompt: borders, a window of the text, and the key line in the rows left. *)
Visible(height_, legend) ==
  LET free == Minus(height_, legend)
  IN  Least(IF free = 0 THEN 1 ELSE free, height_)

render_prompt(screen, given) ==
  LET width == Minus(screen.width, 2)
      inner == Minus(given, 2)
      rows == Len(wrap(shown.lines, width))
      legend == Len(wrap(shown.legend, width))
      visible == Visible(inner, legend)
      start == Least(above, Minus(rows, visible))
  IN  /\ measured' = [rows |-> rows, visible |-> visible]
      /\ drawn' = IF width = 0 \/ inner = 0 THEN NoBox
                  ELSE [width |-> width, height |-> inner, rows |-> rows, start |-> start,
                        shown |-> Least(visible, rows - start),
                        legend |-> legend, under |-> Least(legend, inner - visible),
                        entire |-> given < max_box(screen.height)
                                   /\ given = height(screen.width, screen.height)]

DrawBox ==
  \E screen \in Screens : \E given \in regions(screen) :
    /\ IF given = 0 \/ screen.width = 0
       THEN drawn' = NoBox /\ UNCHANGED measured
       ELSE render_prompt(screen, given)
    /\ keyed' = [keys |-> "none",
                 key |-> IF drawn'.width = drawn.width /\ drawn'.height = drawn.height
                         THEN keyed.keys ELSE "more",
                 start |-> drawn.start]
    /\ UNCHANGED <<shown, above>>

-----------------------------------------------------------------------------
(* key: the scroll keys, by the last frame's measures. *)
max_scroll == Minus(measured.rows, measured.visible)
box_page == IF measured.visible = 0 THEN 1 ELSE measured.visible

ScrollsBox(to, way) ==
  /\ above' = Least(to, max_scroll)
  /\ keyed' = [keyed EXCEPT !.keys = IF @ = "none" THEN way ELSE "more"]
  /\ UNCHANGED <<shown, measured, drawn>>

BoxUp == ScrollsBox(Minus(above, 1), "up")
BoxDown == ScrollsBox(above + 1, "down")
BoxPageUp == ScrollsBox(Minus(above, box_page), "up")
BoxPageDown == ScrollsBox(above + box_page, "down")

BoxNext == BoxOpens \/ DrawBox \/ BoxUp \/ BoxDown \/ BoxPageUp \/ BoxPageDown

BoxSpec == BoxInit /\ [][BoxNext]_boxVars

-----------------------------------------------------------------------------
(* All that is asked can be read before it is answered.  A box below its limit that has what
   it asked for shows the whole text and every key.  A smaller one shows some row of the
   text, and gives up keys only when it has one row of it.  A key down brings rows not drawn
   before, until the last is there, and passes over none; a key up passes over none.       *)
BoxIsTrue ==
  drawn # NoBox =>
    /\ drawn.shown > 0
    /\ drawn.entire => drawn.shown = drawn.rows /\ drawn.under = drawn.legend
    /\ drawn.under < drawn.legend => drawn.shown = 1
    /\ keyed.key = "down" =>
         /\ keyed.start <= drawn.start /\ drawn.start <= keyed.start + drawn.shown
         /\ drawn.start > keyed.start \/ drawn.start + drawn.shown = drawn.rows
    /\ keyed.key = "up" => drawn.start <= keyed.start /\ keyed.start <= drawn.start + drawn.shown
=============================================================================
