------------------------------ MODULE PaneView ------------------------------
(***************************************************************************)
(* What the terminal draws of the pane's entries, and the keys that move   *)
(* about in it (gwennol-cli/src/tui/ui.rs, pane.rs).  Frames are drawn     *)
(* from rows wrapped once and kept until a revision counter or the width   *)
(* says they are old; keys compute against the last frame; the loop writes *)
(* entries and the terminal changes its size between any two of these.     *)
(*                                                                         *)
(* The editor is empty: with text in it Home, End and Enter are its own    *)
(* (LineEditor).  Colours are left out but for the focused row's.  A       *)
(* prompt's box is a module of its own (PromptBox).                        *)
(***************************************************************************)
EXTENDS Wrap, FiniteSetsExt

CONSTANTS
  Areas,       \* the sizes the pane may have: [width, height]
  MaxEntries,  \* bound: entries of the pane
  MaxRevision  \* bound: changes to them

ASSUME PaneAssumption ==
  Areas \subseteq [width: Nat, height: Nat] /\ {MaxEntries, MaxRevision} \subseteq Nat

VARIABLES
  entries,     \* Ui::entries
  open,        \* Ui::open, 0 for None
  revision,    \* Ui::revision
  cache,       \* Ui::pane_cache
  scroll,      \* Ui::scroll, rows from the first, or AtTail
  focus,       \* Ui::focus, 0 for None
  view,        \* Ui::pane_view
  frame,       \* the rows on the screen, and whether the marker is there
  since        \* history: whether that frame is the latest event; the key before it, and its top

uiVars == <<entries, open, revision, cache, scroll, focus, view>>
paneVars == <<uiVars, frame, since>>

AtTail == -1

-----------------------------------------------------------------------------
(* Entry::text, at its current expansion. *)
Text(e) == IF e.expanded THEN e.whole ELSE e.text

expandable(e) == e.kind = "Tool"

(* PaneRow: a row of an entry, its first one marked. *)
RowsOf(i, width) ==
  LET rows == wrap(Text(entries[i]), width)
  IN  [k \in DOMAIN rows |-> [text |-> rows[k], entry |-> i, head |-> k = 1]]

AllRows(width) == Joined([i \in DOMAIN entries |-> RowsOf(i, width)])

-----------------------------------------------------------------------------
Undrawn == [width |-> 0, height |-> 0, rows |-> 0, top |-> 0]
NoFrame == [rows |-> <<>>, marked |-> FALSE]

PaneInit ==
  /\ entries = <<>> /\ open = 0 /\ revision = 0
  /\ cache = [revision |-> 0, width |-> 0, rows |-> <<>>]
  /\ scroll = AtTail /\ focus = 0
  /\ view = Undrawn
  /\ frame = NoFrame
  /\ since = [drawn |-> FALSE, key |-> "more", top |-> 0]

(* The history: the first thing since the frame, or that there is more than one. *)
Since(what) ==
  since' = IF since.drawn THEN [drawn |-> FALSE, key |-> what, top |-> view.top]
           ELSE [since EXCEPT !.key = "more"]

Assistant(word) == [kind |-> "Assistant", text |-> <<<<word>>>>, whole |-> <<>>, expanded |-> FALSE]
PlainLine == [kind |-> "Line", text |-> <<<<1>>>>, whole |-> <<>>, expanded |-> FALSE]
Tool(expanded) ==
  [kind |-> "Tool", text |-> <<<<1>>>>, whole |-> <<<<3, 1>>, <<>>>>, expanded |-> expanded]

(* Ui::push *)
Push(entry) ==
  /\ Len(entries) < MaxEntries
  /\ entries' = Append(entries, entry)
  /\ open' = IF entry.kind = "Assistant" THEN Len(entries) + 1 ELSE 0

(* Ui::apply, and the pushes of the loop's other lines: a chunk of text (a word), a call, a
   result (expanded from the start with -v), a retry in place of what the open entry had,
   the turn's end.  The revision goes up, by however much.                               *)
ApplyText ==
  IF open = 0 THEN Push(Assistant(2))
  ELSE entries' = [entries EXCEPT ![open].text[1] = Append(@, 2)] /\ UNCHANGED open

ApplyRetry ==
  IF open = 0 THEN Push(PlainLine)
  ELSE entries' = [entries EXCEPT ![open] = PlainLine] /\ open' = 0

Apply ==
  /\ revision < MaxRevision
  /\ revision' = revision + 1
  /\ \/ ApplyText
     \/ ApplyRetry
     \/ \E e \in {PlainLine, Tool(FALSE), Tool(TRUE)} : Push(e)
     \/ open' = 0 /\ UNCHANGED entries
  /\ Since("more")
  /\ UNCHANGED <<cache, scroll, focus, view, frame>>

-----------------------------------------------------------------------------
(* render_pane and render_status. *)
(* max_top and the first row shown, of so many rows at the height. *)
MaxTop(rows, height) == Minus(rows, height)
Top(maxTop) == IF scroll = AtTail THEN maxTop ELSE Least(scroll, maxTop)

(* PaneView::following, and the status line: it has the marker unless the last row drawn is
   the last there is.                                                                      *)
following(v) == v.top + v.height >= v.rows

render_status(v) == ~following(v)

(* The rows of a frame: kept, unless a change or the width says they are old. *)
Rows(width) ==
  IF cache.revision = revision /\ cache.width = width THEN cache.rows ELSE AllRows(width)

Drawn(area) ==
  \E rows \in {Rows(area.width)} :
    LET top == Top(MaxTop(Len(rows), area.height))
        window == SubSeq(rows, top + 1, Least(top + area.height, Len(rows)))
    IN  /\ cache' = [revision |-> revision, width |-> area.width, rows |-> rows]
        /\ view' = [width |-> area.width, height |-> area.height,
                    rows |-> Len(rows), top |-> top]
        /\ frame' = [rows |-> [k \in DOMAIN window |->
                       [row |-> window[k], lit |-> window[k].head /\ focus = window[k].entry]],
                     marked |-> render_status(view')]

DrawPane ==
  \E area \in Areas :
    /\ IF area.width = 0 \/ area.height = 0
       THEN view' = Undrawn /\ frame' = NoFrame /\ UNCHANGED cache
       ELSE Drawn(area)
    /\ since' = [since EXCEPT !.drawn = TRUE,
                              !.key = IF /\ ~since.drawn
                                         /\ area.width = view.width /\ area.height = view.height
                                      THEN @ ELSE "more"]
    /\ UNCHANGED <<entries, open, revision, scroll, focus>>

-----------------------------------------------------------------------------
(* pane::key *)

normalise(top, maxTop) == IF top >= maxTop THEN AtTail ELSE top

Scrolls(to, what) ==
  /\ scroll' = to
  /\ Since(what)
  /\ UNCHANGED <<entries, open, revision, cache, view, frame>>

page == IF view.height = 0 THEN 1 ELSE view.height

PageUp ==
  Scrolls(normalise(Minus(view.top, page), MaxTop(view.rows, view.height)), "paged")
  /\ UNCHANGED focus

PageDown ==
  LET maxTop == MaxTop(view.rows, view.height)
  IN  Scrolls(normalise(Least(view.top + page, maxTop), maxTop), "paged") /\ UNCHANGED focus

Home == Scrolls(normalise(0, MaxTop(view.rows, view.height)), "more") /\ UNCHANGED focus

End == Scrolls(AtTail, "more") /\ UNCHANGED focus

(* Ui::follow_tail: a turn is submitted, or /help, whose lines come with it. *)
follow_tail == Scrolls(AtTail, "more") /\ focus' = 0

(* reveal: the scroll that has the entry's first row in the next frame.  The rows are those
   the entries have now.                                                                  *)
Counted(shown) ==
  [i \in DOMAIN shown |-> Len(wrap(Text(shown[i]), view.width))]

reveal(shown, index) ==
  LET counts == Counted(shown)
      head == Total(SubSeq(counts, 1, index - 1))
      maxTop == MaxTop(Total(counts), view.height)
      top == Top(maxTop)
  IN  IF head \in top..(top + view.height - 1)
      THEN IF scroll = AtTail THEN AtTail ELSE normalise(top, maxTop)
      ELSE normalise(head, maxTop)

Focused(index) ==
  /\ focus' = index
  /\ Scrolls(IF index = 0 THEN scroll ELSE reveal(entries, index), "focused")

Expandable == {i \in DOMAIN entries : expandable(entries[i])}

(* Tab: the newest that expands, of those older than the focus. *)
Tab ==
  LET older == {i \in Expandable : focus = 0 \/ i < focus}
  IN  Focused(IF older = {} THEN focus ELSE Max(older))

(* Shift+Tab: the next newer one, and none past the newest. *)
BackTab ==
  LET newer == {i \in Expandable : i > focus}
  IN  Focused(IF focus = 0 \/ newer = {} THEN 0 ELSE Min(newer))

Toggled ==
  /\ focus # 0 /\ revision < MaxRevision
  /\ entries' = [entries EXCEPT ![focus].expanded = ~@]
  /\ scroll' = reveal(entries', focus)
  /\ Since("focused")
  /\ UNCHANGED <<open, cache, focus, view, frame>>

(* Mutant: the rows kept are not marked as old. *)
Toggle_Unmarked == Toggled /\ UNCHANGED revision

(* Enter at a focused entry: Ui::toggle, which always finds it expandable. *)
Toggle == Toggled /\ revision' = revision + 1

PaneNext ==
  \/ Apply \/ DrawPane
  \/ PageUp \/ PageDown \/ Home \/ End \/ follow_tail \/ Tab \/ BackTab \/ Toggle

PaneSpec == PaneInit /\ [][PaneNext]_paneVars

-----------------------------------------------------------------------------
(* A frame shows what the entries are when it is drawn, whatever was kept from the frames
   before: a full window of their rows, none left out, the focused entry's first row lit and
   no other, and the marker unless the last row is there.  The frame a key leads to shows
   the first row of the entry the key focused or expanded; a page up or down, no row was
   passed over.  What is focused can expand.                                              *)
PaneIsTrue ==
  since.drawn /\ view.height > 0 =>
    LET all == AllRows(view.width)
        drawn == frame.rows
    IN  /\ Len(drawn) = Least(view.height, Len(all))
        /\ \A k \in DOMAIN drawn :
             /\ drawn[k].row = all[view.top + k]
             /\ drawn[k].lit <=> (drawn[k].row.head /\ drawn[k].row.entry = focus)
        /\ frame.marked <=> view.top + Len(drawn) < Len(all)
        /\ scroll = AtTail => ~frame.marked
        /\ focus # 0 => focus \in Expandable
        /\ since.key = "focused" /\ focus # 0 => \E k \in DOMAIN drawn : drawn[k].lit
        /\ since.key = "paged" =>
             /\ view.top <= since.top + view.height
             /\ since.top <= view.top + view.height
=============================================================================
