-------------------------------- MODULE Wrap --------------------------------
(***************************************************************************)
(* wrap (gwennol-cli/src/tui/ui.rs), for all that is drawn: greedy, a word *)
(* longer than a row broken across rows.  A text is its lines, a line the  *)
(* lengths of its words, a row the lengths of what stands in it.           *)
(***************************************************************************)
EXTENDS Integers, Sequences

Least(a, b) == IF a < b THEN a ELSE b
Minus(a, b) == IF a > b THEN a - b ELSE 0

Total(ns) == LET sum[k \in 0..Len(ns)] == IF k = 0 THEN 0 ELSE sum[k - 1] + ns[k] IN sum[Len(ns)]

Joined(seqs) ==
  LET all[k \in 0..Len(seqs)] == IF k = 0 THEN <<>> ELSE all[k - 1] \o seqs[k] IN all[Len(seqs)]

Used(row) == Total(row) + Len(row) - 1

AddWord(width, s, word) ==
  LET full == (word - 1) \div width
      rest == word - full * width
      rows == (IF full > 0 /\ s.current # <<>> THEN Append(s.rows, s.current) ELSE s.rows)
              \o [k \in 1..full |-> <<width>>]
      current == IF full > 0 THEN <<>> ELSE s.current
  IN  IF current = <<>> THEN [rows |-> rows, current |-> <<rest>>]
      ELSE IF Used(current) + 1 + rest <= width
           THEN [rows |-> rows, current |-> Append(current, rest)]
      ELSE [rows |-> Append(rows, current), current |-> <<rest>>]

WrapLine(line, width) ==
  LET from[k \in 0..Len(line)] == IF k = 0 THEN [rows |-> <<>>, current |-> <<>>]
                                  ELSE AddWord(width, from[k - 1], line[k])
      s == from[Len(line)]
  IN  Append(s.rows, s.current)

wrap(text, width) ==
  Joined([k \in DOMAIN text |-> WrapLine(text[k], IF width = 0 THEN 1 ELSE width)])
=============================================================================
