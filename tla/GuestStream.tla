---------------------------- MODULE GuestStream ----------------------------
(***************************************************************************)
(* What a guest does with a byte stream of the kernel (gwennol-guest's     *)
(* stream.rs and sse.rs): parse it as server-sent events, or read an       *)
(* excerpt of it for an error message.  The kernel cuts the bytes anywhere.*)
(*                                                                         *)
(* A byte is a line ending (LF), a carriage return (CR), a blank (_), the  *)
(* start of a field (D for `data:`, E for `event:`, C for a comment) or    *)
(* any other (x).                                                          *)
(***************************************************************************)
EXTENDS Integers, Sequences, SequencesExt, FiniteSets, FiniteSetsExt

CONSTANTS
  MaxLineBytes,   \* MAX_LINE_BYTES
  MaxEventBytes,  \* MAX_EVENT_BYTES
  ExcerptCap,     \* the cap of read_excerpt
  Longest         \* bound: the longest body; three less for one of every byte

ASSUME GuestAssumption == {MaxLineBytes, MaxEventBytes, ExcerptCap, Longest} \subseteq Nat

VARIABLES
  use,         \* what the guest does with the stream
  body,        \* the bytes there are
  taken,       \* how many were read
  parser,      \* SseParser
  events,      \* the events the parser returned
  ended        \* how it ended, or "going"

guestVars == <<use, body, taken, parser, events, ended>>

Byte == {"D", "E", "C", "x", "LF", "CR", "_"}

Over(bytes, n) == UNION {[1..k -> bytes] : k \in 0..n}

Bodies ==
  [events  |-> Over({"D", "x", "LF"}, Longest)
                 \cup Over({"D", "E", "C", "x", "LF", "CR"}, Longest - 3),
   excerpt |-> Over({"x", "_"}, Longest - 3)]

NewParser == [line |-> <<>>, event |-> <<>>, data |-> <<>>, spent |-> FALSE, out |-> <<>>]

GuestInit ==
  /\ use \in DOMAIN Bodies
  /\ body \in Bodies[use]
  /\ taken = 0
  /\ parser = NewParser
  /\ events = <<>>
  /\ ended = "going"

Rest == SubSeq(body, taken + 1, Len(body))
Next1(k) == SubSeq(body, taken + 1, taken + k)

-----------------------------------------------------------------------------
(* take_line, of a line without its ending. *)
Joined(data, value) == IF data = <<>> THEN value ELSE data \o <<"LF">> \o value

Dispatched(p) ==
  [p EXCEPT !.data = <<>>, !.event = <<>>,
            !.out = IF p.data = <<>> THEN @ ELSE Append(@, [event |-> p.event, data |-> p.data])]

(* Mutant: the line feed that joins two values is not counted. *)
TakeLine_Uncounted(p, line) ==
  CASE line = <<>> -> Dispatched(p)
    [] line # <<>> /\ Head(line) = "E" -> [p EXCEPT !.event = Tail(line)]
    [] line # <<>> /\ Head(line) = "D" ->
         IF Len(p.data) + Len(Tail(line)) > MaxEventBytes THEN [p EXCEPT !.spent = TRUE]
         ELSE [p EXCEPT !.data = Joined(@, Tail(line))]
    [] OTHER -> p

TakeLine(p, line) ==
  CASE line = <<>> -> Dispatched(p)
    [] line # <<>> /\ Head(line) = "E" -> [p EXCEPT !.event = Tail(line)]
    [] line # <<>> /\ Head(line) = "D" ->
         IF Len(p.data) + Len(Tail(line)) + 1 > MaxEventBytes THEN [p EXCEPT !.spent = TRUE]
         ELSE [p EXCEPT !.data = Joined(@, Tail(line))]
    [] OTHER -> p

WithoutCR(line) == IF line # <<>> /\ Last(line) = "CR" THEN Front(line) ELSE line

TakeByte(p, b) ==
  CASE p.spent -> p
    [] ~p.spent /\ b = "LF" -> TakeLine([p EXCEPT !.line = <<>>], WithoutCR(p.line))
    [] ~p.spent /\ b # "LF" -> IF Len(p.line) >= MaxLineBytes THEN [p EXCEPT !.spent = TRUE]
                               ELSE [p EXCEPT !.line = Append(@, b)]

(* What a chunk makes of the parser, byte by byte. *)
Fed(p, chunk) ==
  LET after[n \in 0..Len(chunk)] == IF n = 0 THEN p ELSE TakeByte(after[n - 1], chunk[n])
  IN  after[Len(chunk)]

(* feed: the events the chunk completed, or an error and none of them. *)
feed(p, chunk) == Fed([p EXCEPT !.out = <<>>], chunk)

Feed ==
  /\ use = "events" /\ ended = "going"
  /\ \E k \in 1..Len(Rest) :
       LET p == feed(parser, Next1(k))
       IN  /\ parser' = p
           /\ taken' = taken + k
           /\ events' = IF p.spent THEN events ELSE events \o p.out
           /\ ended' = IF p.spent THEN "error" ELSE ended
  /\ UNCHANGED <<use, body>>

-----------------------------------------------------------------------------
(* collect_excerpt: reads until past the cap, the end, the token or an error. *)
Collect ==
  /\ use = "excerpt" /\ ended = "going" /\ taken <= ExcerptCap
  /\ \E k \in 1..Len(Rest) : taken' = taken + k
  /\ UNCHANGED <<use, body, parser, events, ended>>

Collected ==
  /\ use = "excerpt" /\ ended = "going"
  /\ \/ taken > ExcerptCap /\ ended' = "cap"
     \/ taken <= ExcerptCap /\ Rest = <<>> /\ ended' = "end"
     \/ taken <= ExcerptCap /\ ended' \in {"cancelled", "error"}
  /\ UNCHANGED <<use, body, taken, parser, events>>

Trim(text) ==
  LET solid == {i \in 1..Len(text) : text[i] # "_"}
  IN  IF solid = {} THEN <<>> ELSE SubSeq(text, Min(solid), Max(solid))

CutShort ==
  LET text == Trim(SubSeq(body, 1, Min({taken, ExcerptCap})))
      truncated == taken > ExcerptCap
  IN  [text |-> text,
       mark |-> CASE text = <<>> /\ ~truncated /\ ended = "error" -> "unreadable"
                  [] truncated -> "truncated"
                  [] text # <<>> /\ ~truncated /\ ended = "error" -> "interrupted"
                  [] OTHER -> "none"]

-----------------------------------------------------------------------------
GuestNext == Feed \/ Collect \/ Collected

GuestSpec == GuestInit /\ [][GuestNext]_guestVars

-----------------------------------------------------------------------------
(* The events of a text, read off it as a whole: the lines between blank ones make an
   event of the values of their `data:` lines, the empty ones before the first other left
   out, under the name the last `event:` line gave.                                      *)

(* The last mark before the i-th place, 0 if there is none, and what stands between them. *)
LastMark(s, mark, i) == Max({0} \cup {j \in 1..(i - 1) : s[j] = mark})

Between(s, mark, i) == SubSeq(s, 1 + LastMark(s, mark, i), i - 1)

LinesOf(text) ==
  FlattenSeq([i \in 1..Len(text) |->
    IF text[i] = "LF" THEN <<WithoutCR(Between(text, "LF", i))>> ELSE <<>>])

(* The lines since the last blank one, up to the i-th. *)
Group(lines, i) == Between(lines, <<>>, i)

ValuesIn(group) ==
  FlattenSeq([i \in 1..Len(group) |->
    IF Head(group[i]) = "D" THEN <<Tail(group[i])>> ELSE <<>>])

(* With a line feed before each from the first that is not empty; the first has none. *)
DataOf(values) ==
  LET full == {i \in 1..Len(values) : values[i] # <<>>}
  IN  IF full = {} THEN <<>>
      ELSE Tail(FlattenSeq([i \in 1..Len(values) |->
                  IF i < Min(full) THEN <<>> ELSE <<"LF">> \o values[i]]))

Data(group) == DataOf(ValuesIn(group))

Name(group) ==
  LET named == {i \in 1..Len(group) : Head(group[i]) = "E"}
  IN  IF named = {} THEN <<>> ELSE Tail(group[Max(named)])

EventAt(lines, i) ==
  LET group == Group(lines, i)
  IN  IF lines[i] # <<>> \/ Data(group) = <<>> THEN <<>>
      ELSE <<[event |-> Name(group), data |-> Data(group)]>>

EventsIn(lines) == FlattenSeq([i \in 1..Len(lines) |-> EventAt(lines, i)])

EventsOf(text) == EventsIn(LinesOf(text))

(* What the parser fails on, and only on that: a line or an event past its cap. *)
LineTooLong(text) ==
  \E i, j \in 1..Len(text) : j - i >= MaxLineBytes /\ \A k \in i..j : text[k] # "LF"

LastOverflows(lines) ==
  LET group == Group(lines, Len(lines) + 1)
  IN  /\ group # <<>> /\ Head(Last(group)) = "D"
      /\ Len(Data(Front(group))) + Len(Last(group)) > MaxEventBytes

PastACap(text) ==
  LineTooLong(text) \/ \E i \in 1..Len(text) : LastOverflows(LinesOf(SubSeq(text, 1, i)))

(* However the bytes are cut, the parser returns each event once, in order, with the chunk
   that completes it, as if the text had come whole; after a failure, what it returned
   before the chunk that failed stands.                                                  *)
ChunksParseAsOne ==
  use = "events" =>
    LET text == SubSeq(body, 1, taken)
    IN  /\ parser.spent <=> PastACap(text)
        /\ IF parser.spent THEN IsPrefix(events, EventsOf(text)) ELSE events = EventsOf(text)

(* An excerpt that is not the whole body says so, unless the step itself was cut. *)
ExcerptSaysSo ==
  use = "excerpt" /\ ended \notin {"going", "cancelled"} =>
    /\ CutShort.mark = "none" => ended = "end" /\ CutShort.text = Trim(body)
    /\ CutShort.mark = "unreadable" => CutShort.text = <<>> /\ ended = "error"
    /\ CutShort.mark = "truncated" => Len(body) > ExcerptCap

(* The cuts between chunks carry no meaning, and an excerpt says that it is one (sse.rs,
   stream.rs).                                                                           *)
ChunksCarryNoMeaning == ChunksParseAsOne /\ ExcerptSaysSo
=============================================================================
